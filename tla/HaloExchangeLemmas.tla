------------------------ MODULE HaloExchangeLemmas -------------------------
(***************************************************************************)
(* What the proofs about HaloExchange rest on, for every mesh, every       *)
(* partition of it and any number of colors.  What a color has at each     *)
(* stage is a function of the mesh and the partition alone, so the         *)
(* invariant says which: each color has exactly what the stages behind it  *)
(* give (Situated), each channel holds what has been sent on it and not    *)
(* yet taken, in the order of the sends (Messages), nothing is taken       *)
(* before it is sent, and no color leaves the last collective before all   *)
(* have come to it.  The lemmas say what these functions come to: who owns *)
(* an entity, who shares it, and where its owner keeps it, so that what    *)
(* two colors work out apart agrees.                                       *)
(***************************************************************************)
EXTENDS HaloExchange, FiniteSetTheorems, SequenceTheorems, TLAPS

-----------------------------------------------------------------------------
(* The least and the greatest of a set of numbers *)

\* Smallest is the least.
LEMMA LeastIs ==
    ASSUME NEW S \in SUBSET Nat, S # {}
    PROVE  Smallest(S) \in S /\ \A y \in S : Smallest(S) <= y
<1>1. PICK x \in S : \A y \in S : ~(<<y, x>> \in OpToRel(<, Nat))
  BY NatLessThanWellFounded, WFMin
<1>2. \A y \in S : ~(y < x)
  BY <1>1 DEF OpToRel
<1>3. \A y \in S : x <= y
  BY <1>2
<1> QED BY <1>3 DEF Smallest

\* The greatest has fewest above it.
LEMMA GreatestIs ==
    ASSUME NEW S \in SUBSET Nat, S # {}, IsFiniteSet(S)
    PROVE  Largest(S) \in S /\ \A y \in S : y <= Largest(S)
<1> DEFINE above(x) == {y \in S : y > x}
           C == {Cardinality(above(x)) : x \in S}
<1>1. \A x \in S : IsFiniteSet(above(x)) /\ Cardinality(above(x)) \in Nat
  <2>1. \A x : above(x) \in SUBSET S
    OBVIOUS
  <2> QED BY <2>1, FS_Subset, FS_CardinalityType
<1>2. C \in SUBSET Nat /\ C # {}
  BY <1>1
<1>3. PICK x \in S : \A y \in S : Cardinality(above(x)) <= Cardinality(above(y))
  <2>1. Smallest(C) \in C /\ \A c \in C : Smallest(C) <= c
    <3> HIDE DEF C
    <3> QED BY <1>2, LeastIs
  <2> QED BY <2>1
<1>4. ASSUME NEW z \in S, z > x PROVE FALSE
  <2>0. \A y \in S : y \in Nat
    OBVIOUS
  <2>1. above(z) \in SUBSET above(x) /\ z \in above(x) /\ z \notin above(z)
    <3>1. \A y \in above(z) : y \in above(x)
      BY <1>4, <2>0
    <3>2. z \in above(x) /\ z \notin above(z)
      BY <1>4, <2>0
    <3> HIDE DEF above
    <3> QED BY <3>1, <3>2
  <2>2. Cardinality(above(z)) < Cardinality(above(x))
    <3>1. above(z) # above(x)
      BY <2>1
    <3> HIDE DEF above
    <3>2. /\ Cardinality(above(z)) <= Cardinality(above(x))
          /\ Cardinality(above(x)) = Cardinality(above(z)) => above(x) = above(z)
      BY <1>1, <2>1, FS_Subset
    <3> QED BY <1>1, <3>1, <3>2
  <2> QED BY <1>1, <1>3, <2>2
<1>5. \A y \in S : y <= x
  BY <1>4
<1> QED BY <1>5 DEF Largest

-----------------------------------------------------------------------------
(* Sets in the order of their keys *)

IsKey(key, S) ==
    /\ IsFiniteSet(S)
    /\ \A x \in S : key[x] \in Int
    /\ \A x, y \in S : key[x] = key[y] => x = y

Below(S, key, x) == {y \in S : key[y] < key[x]}
Rank(S, key, x) == Cardinality(Below(S, key, x))

\* s enumerates S upwards.
Enumerates(s, n, S, key) ==
    /\ \A i \in 1..n : s[i] \in S
    /\ \A i, j \in 1..n : i < j => key[s[i]] < key[s[j]]
    /\ \A x \in S : \E i \in 1..n : s[i] = x

\* How many members come before each, from none to all but one.
LEMMA RankIs ==
    ASSUME NEW S, NEW key, IsKey(key, S)
    PROVE  /\ Cardinality(S) \in Nat
           /\ \A x \in S : Rank(S, key, x) \in 0..Cardinality(S) - 1
           /\ \A x, y \in S : key[x] < key[y] => Rank(S, key, x) < Rank(S, key, y)
           /\ \A i \in 0..Cardinality(S) - 1 : \E x \in S : Rank(S, key, x) = i
<1> DEFINE n == Cardinality(S)
           B(x) == Below(S, key, x)
<1>1. IsFiniteSet(S) /\ n \in Nat
  BY FS_CardinalityType DEF IsKey
<1>2. \A x : B(x) \in SUBSET S /\ IsFiniteSet(B(x)) /\ Cardinality(B(x)) \in Nat
  <2>1. \A x : B(x) \in SUBSET S
    BY DEF Below
  <2> HIDE DEF B
  <2> QED BY <1>1, <2>1, FS_Subset, FS_CardinalityType
<1>3. \A x \in S : x \notin B(x)
  BY DEF Below, IsKey
<1>4. \A x \in S : Cardinality(B(x)) < n
  <2> HIDE DEF B
  <2> QED BY <1>1, <1>2, <1>3, FS_Subset
<1>5. ASSUME NEW x \in S, NEW y \in S, key[x] < key[y]
      PROVE  Cardinality(B(x)) < Cardinality(B(y))
  <2>1. B(x) \in SUBSET B(y) /\ x \in B(y)
    BY <1>5 DEF Below, IsKey
  <2> HIDE DEF B
  <2> QED BY <1>2, <1>3, <2>1, FS_Subset
<1> DEFINE f == [x \in S |-> Cardinality(B(x))]
<1>6. f \in Injection(S, 0..n - 1)
  <2>1. f \in [S -> 0..n - 1]
    BY <1>1, <1>2, <1>4
  <2>2. \A x, y \in S : f[x] = f[y] => x = y
    <3>1. \A x, y \in S : x # y => key[x] < key[y] \/ key[y] < key[x]
      BY DEF IsKey
    <3> QED BY <1>2, <1>5, <3>1
  <2> QED BY <2>1, <2>2 DEF Injection, IsInjective
<1>7. f \in Surjection(S, 0..n - 1)
  <2>1. IsFiniteSet(0..n - 1) /\ Cardinality(0..n - 1) = n
    BY <1>1, FS_Interval
  <2> HIDE DEF f
  <2> QED BY <1>1, <1>6, <2>1, FS_Injection
<1>8. \A i \in 0..n - 1 : \E x \in S : f[x] = i
  BY <1>7 DEF Surjection
<1> QED BY <1>1, <1>2, <1>4, <1>5, <1>8 DEF Rank

\* What OrderedBy returns.
LEMMA OrderedByIs ==
    ASSUME NEW S, NEW key, IsKey(key, S)
    PROVE  LET s == OrderedBy(S, key)
               n == Cardinality(S)
           IN  /\ n \in Nat
               /\ s \in Seq(S) /\ Len(s) = n /\ DOMAIN s = 1..n
               /\ Enumerates(s, n, S, key)
               /\ ToSet(s) = S
               /\ \A x \in S : Rank(S, key, x) + 1 \in 1..n /\ s[Rank(S, key, x) + 1] = x
               /\ \A i \in 1..n : Rank(S, key, s[i]) = i - 1
<1> DEFINE s == OrderedBy(S, key)
           n == Cardinality(S)
<1>1. /\ n \in Nat
      /\ \A x \in S : Rank(S, key, x) \in 0..n - 1
      /\ \A x, y \in S : key[x] < key[y] => Rank(S, key, x) < Rank(S, key, y)
      /\ \A i \in 0..n - 1 : \E x \in S : Rank(S, key, x) = i
  BY RankIs
<1>2. s = [i \in 1..n |-> CHOOSE x \in S : Rank(S, key, x) = i - 1]
  BY DEF OrderedBy, Rank, Below
<1>3. \A i \in 1..n : s[i] \in S /\ Rank(S, key, s[i]) = i - 1
  <2> HIDE DEF s
  <2>1. ASSUME NEW i \in 1..n PROVE \E x \in S : Rank(S, key, x) = i - 1
    BY <1>1
  <2> QED BY <1>2, <2>1
<1>4. \A x, y \in S : Rank(S, key, x) = Rank(S, key, y) => x = y
  <2>1. \A x, y \in S : x # y => key[x] < key[y] \/ key[y] < key[x]
    BY DEF IsKey
  <2> QED BY <1>1, <2>1
<1>5. \A x \in S : Rank(S, key, x) + 1 \in 1..n /\ s[Rank(S, key, x) + 1] = x
  <2> HIDE DEF s, n
  <2> TAKE x \in S
  <2>1. Rank(S, key, x) + 1 \in 1..n
    BY <1>1
  <2>2. s[Rank(S, key, x) + 1] \in S /\ Rank(S, key, s[Rank(S, key, x) + 1]) = Rank(S, key, x)
    BY <1>1, <1>3, <2>1
  <2> QED BY <1>4, <2>1, <2>2
<1>6. \A i, j \in 1..n : i < j => key[s[i]] < key[s[j]]
  <2> HIDE DEF s, n
  <2> TAKE i, j \in 1..n
  <2>1. i < j => ~(key[s[j]] < key[s[i]]) /\ s[i] # s[j]
    BY <1>1, <1>3
  <2> QED BY <1>3, <2>1 DEF IsKey
<1>7. s \in Seq(S) /\ Len(s) = n /\ DOMAIN s = 1..n
  <2>1. s \in [1..n -> S] /\ DOMAIN s = 1..n
    <3> HIDE DEF s
    <3> QED BY <1>2, <1>3
  <2> HIDE DEF s, n
  <2> QED BY <1>1, <2>1
<1>8. ToSet(s) = S
  <2> HIDE DEF s, n
  <2> QED BY <1>3, <1>5, <1>7 DEF ToSet
<1>9. Enumerates(s, n, S, key)
  <2> HIDE DEF s, n
  <2> QED BY <1>3, <1>5, <1>6 DEF Enumerates
<1> HIDE DEF s, n
<1> QED BY <1>1, <1>3, <1>5, <1>7, <1>8, <1>9 DEF s, n

\* There is one way to enumerate a set upwards.
LEMMA EnumerationIs ==
    ASSUME NEW S, NEW key, IsKey(key, S), NEW n \in Nat, NEW s, Enumerates(s, n, S, key)
    PROVE  /\ n = Cardinality(S)
           /\ \A i \in 1..n : s[i] = OrderedBy(S, key)[i]
           /\ s = [i \in 1..n |-> s[i]] => s = OrderedBy(S, key)
<1>0. /\ \A i \in 1..n : s[i] \in S
      /\ \A i, j \in 1..n : i < j => key[s[i]] < key[s[j]]
      /\ \A x \in S : \E i \in 1..n : s[i] = x
      /\ \A x \in S : key[x] \in Int
  BY DEF Enumerates, IsKey
<1>1. \A i, j \in 1..n : s[i] = s[j] => i = j
  <2> TAKE i, j \in 1..n
  <2>1. i = j \/ i < j \/ j < i
    OBVIOUS
  <2> QED BY <1>0, <2>1
<1>2. \A i, j \in 1..n : key[s[i]] < key[s[j]] => i < j
  <2> TAKE i, j \in 1..n
  <2>1. i = j \/ i < j \/ j < i
    OBVIOUS
  <2> QED BY <1>0, <2>1
<1>3. ASSUME NEW i \in 1..n PROVE Rank(S, key, s[i]) = i - 1
  <2> DEFINE f == [j \in 1..i - 1 |-> s[j]]
             T == Below(S, key, s[i])
  <2>1. \A j \in 1..i - 1 : j \in 1..n /\ s[j] \in T
    BY <1>0 DEF Below
  <2>2. f \in [1..i - 1 -> T]
    BY <2>1
  <2>3. \A x \in T : \E j \in 1..i - 1 : f[j] = x
    <3> TAKE x \in T
    <3>1. x \in S /\ key[x] < key[s[i]]
      BY DEF Below
    <3>2. PICK j \in 1..n : s[j] = x
      BY <1>0, <3>1
    <3>3. j \in 1..i - 1
      BY <1>2, <3>1, <3>2
    <3> QED BY <3>2, <3>3
  <2>4. \A j, k \in 1..i - 1 : f[j] = f[k] => j = k
    BY <1>1, <2>1
  <2>5. f \in Bijection(1..i - 1, T)
    <3> HIDE DEF T
    <3> QED BY <2>2, <2>3, <2>4 DEF Bijection, Injection, IsInjective, Surjection
  <2>6. Cardinality(T) = i - 1
    <3>1. ExistsBijection(1..i - 1, T) /\ i - 1 \in Nat
      BY <2>5 DEF ExistsBijection
    <3> HIDE DEF T
    <3> QED BY <3>1, FS_CountingElements
  <2> QED BY <2>6 DEF Rank
<1>4. n = Cardinality(S)
  <2> DEFINE f == [j \in 1..n |-> s[j]]
  <2>1. f \in Bijection(1..n, S)
    BY <1>0, <1>1 DEF Bijection, Injection, IsInjective, Surjection
  <2>2. ExistsBijection(1..n, S)
    BY <2>1 DEF ExistsBijection
  <2> QED BY <2>2, FS_CountingElements
<1>5. \A i \in 1..n : s[i] = OrderedBy(S, key)[i]
  <2> TAKE i \in 1..n
  <2>1. OrderedBy(S, key)[Rank(S, key, s[i]) + 1] = s[i]
    BY <1>0, OrderedByIs
  <2> QED BY <1>3, <2>1
<1>6. OrderedBy(S, key) = [i \in 1..n |-> OrderedBy(S, key)[i]]
  BY <1>4 DEF OrderedBy
<1> QED BY <1>4, <1>5, <1>6

\* The order depends on the keys of the members only.
LEMMA SameKeys ==
    ASSUME NEW S, NEW key, NEW other, \A x \in S : key[x] = other[x]
    PROVE  OrderedBy(S, key) = OrderedBy(S, other)
<1>1. \A x \in S : {y \in S : key[y] < key[x]} = {y \in S : other[y] < other[x]}
  OBVIOUS
<1> DEFINE P(x, i) == Cardinality({y \in S : key[y] < key[x]}) = i - 1
           Q(x, i) == Cardinality({y \in S : other[y] < other[x]}) = i - 1
<1>2. \A i : \A x \in S : P(x, i) <=> Q(x, i)
  BY <1>1
<1> HIDE DEF P, Q
<1>3. \A i : (CHOOSE x \in S : P(x, i)) = (CHOOSE x \in S : Q(x, i))
  BY <1>2
<1>4. [i \in 1..Cardinality(S) |-> CHOOSE x \in S : P(x, i)]
      = [i \in 1..Cardinality(S) |-> CHOOSE x \in S : Q(x, i)]
  BY <1>3
<1> QED BY <1>4 DEF OrderedBy, P, Q

\* Numbers in their own order.
LEMMA OrderedIs ==
    ASSUME NEW S, S \subseteq Int, IsFiniteSet(S)
    PROVE  LET s == Ordered(S)
               n == Cardinality(S)
           IN  /\ n \in Nat
               /\ s \in Seq(S) /\ Len(s) = n /\ DOMAIN s = 1..n
               /\ \A i \in 1..n : s[i] \in S /\ Position(s[i], S) = i - 1
               /\ \A i, j \in 1..n : i < j => s[i] < s[j]
               /\ ToSet(s) = S
               /\ \A x \in S : Position(x, S) + 1 \in 1..n /\ s[Position(x, S) + 1] = x
               /\ \A x, y \in S : x < y => Position(x, S) < Position(y, S)
<1> DEFINE key == [x \in S |-> x]
<1>1. IsKey(key, S)
  BY DEF IsKey
<1>2. \A x \in S : Rank(S, key, x) = Position(x, S)
  <2> TAKE x \in S
  <2>1. {y \in S : key[y] < key[x]} = {y \in S : y < x}
    OBVIOUS
  <2> QED BY <2>1 DEF Rank, Below, Position
<1>3. \A x \in S : key[x] = x
  OBVIOUS
<1>4. Ordered(S) = OrderedBy(S, key)
  BY DEF Ordered
<1> HIDE DEF key
<1> DEFINE s == Ordered(S)
           n == Cardinality(S)
<1>5. /\ n \in Nat
      /\ s \in Seq(S) /\ Len(s) = n /\ DOMAIN s = 1..n
      /\ Enumerates(s, n, S, key)
      /\ ToSet(s) = S
      /\ \A x \in S : Rank(S, key, x) + 1 \in 1..n /\ s[Rank(S, key, x) + 1] = x
      /\ \A i \in 1..n : Rank(S, key, s[i]) = i - 1
  BY <1>1, <1>4, OrderedByIs
<1>6. \A x, y \in S : key[x] < key[y] => Rank(S, key, x) < Rank(S, key, y)
  BY <1>1, RankIs
<1> HIDE DEF s, n
<1>7. \A i \in 1..n : s[i] \in S
  BY <1>5 DEF Enumerates
<1>8. \A i, j \in 1..n : i < j => s[i] < s[j]
  BY <1>3, <1>5, <1>7 DEF Enumerates
<1> QED BY <1>2, <1>3, <1>5, <1>6, <1>7, <1>8 DEF s, n

\* s lists the numbers of S in ascending order.
Lists(s, n, S) ==
    /\ S \subseteq Int /\ IsFiniteSet(S) /\ n \in Nat
    /\ s = [i \in 1..n |-> s[i]]
    /\ \A i \in 1..n : s[i] \in S
    /\ \A i, j \in 1..n : i < j => s[i] < s[j]
    /\ \A x \in S : \E i \in 1..n : s[i] = x

\* A set of numbers has one ascending list.
LEMMA OrderedIsOnly ==
    ASSUME NEW S, NEW n, NEW s, Lists(s, n, S)
    PROVE  n = Cardinality(S) /\ s = Ordered(S)
<1> DEFINE key == [x \in S |-> x]
<1>0. n \in Nat /\ s = [i \in 1..n |-> s[i]]
  BY DEF Lists
<1>1. IsKey(key, S)
  BY DEF IsKey, Lists
<1>2. Enumerates(s, n, S, key)
  BY DEF Enumerates, Lists
<1>3. Ordered(S) = OrderedBy(S, key)
  BY DEF Ordered
<1> HIDE DEF key
<1> QED BY <1>0, <1>1, <1>2, <1>3, EnumerationIs

-----------------------------------------------------------------------------
(* Parts of an ordered set *)

\* The places in a list of those in T.
Picks(I, list, T) == I = {i \in DOMAIN list : list[i] \in T}

\* Those of a list that are in a part of its set are that part, in order.
LEMMA PartIs ==
    ASSUME NEW S, NEW key, IsKey(key, S), NEW T \in SUBSET S,
           NEW I, Picks(I, OrderedBy(S, key), T)
    PROVE  LET list == OrderedBy(S, key)
               at   == Ordered(I)
               m    == Cardinality(T)
           IN  /\ IsKey(key, T) /\ m \in Nat
               /\ I \subseteq 1..Cardinality(S) /\ IsFiniteSet(I) /\ Cardinality(I) = m
               /\ DOMAIN at = 1..m /\ Len(at) = m /\ at \in Seq(Nat)
               /\ \A k \in 1..m : /\ at[k] \in I
                                  /\ list[at[k]] = OrderedBy(T, key)[k]
               /\ \A i \in I : \E k \in 1..m : at[k] = i
<1> DEFINE n    == Cardinality(S)
           list == OrderedBy(S, key)
           at   == Ordered(I)
           m    == Cardinality(T)
<1>0. I = {i \in DOMAIN list : list[i] \in T}
  BY DEF Picks
<1>1. /\ n \in Nat /\ DOMAIN list = 1..n
      /\ \A i \in 1..n : list[i] \in S
      /\ \A i, j \in 1..n : i < j => key[list[i]] < key[list[j]]
      /\ \A x \in S : \E i \in 1..n : list[i] = x
  <2>1. n \in Nat /\ DOMAIN list = 1..n /\ Enumerates(list, n, S, key)
    BY OrderedByIs
  <2> HIDE DEF n, list
  <2> QED BY <2>1 DEF Enumerates
<1> HIDE DEF list
<1>2. IsKey(key, T) /\ m \in Nat
  <2>1. IsFiniteSet(T) /\ m \in Nat
    BY FS_Subset, FS_CardinalityType DEF IsKey
  <2> QED BY <2>1 DEF IsKey
<1>3. I \subseteq 1..n /\ IsFiniteSet(I) /\ I \subseteq Int
  <2>1. I \subseteq 1..n
    BY <1>0, <1>1
  <2>2. IsFiniteSet(1..n)
    BY <1>1, FS_Interval
  <2>3. IsFiniteSet(I)
    BY <2>1, <2>2, FS_Subset
  <2>4. \A i \in I : i \in Int
    BY <2>1
  <2> QED BY <2>1, <2>3, <2>4
<1> DEFINE p == Cardinality(I)
<1>4. /\ p \in Nat /\ at \in Seq(I) /\ Len(at) = p /\ DOMAIN at = 1..p
      /\ \A k \in 1..p : at[k] \in I
      /\ \A j, k \in 1..p : j < k => at[j] < at[k]
      /\ \A i \in I : \E k \in 1..p : at[k] = i
  <2> QED BY <1>3, OrderedIs
<1> DEFINE s == [k \in 1..p |-> list[at[k]]]
<1>5. \A i \in I : i \in 1..n /\ list[i] \in T
  BY <1>0, <1>1
<1>6. \A i \in 1..n : list[i] \in T => i \in I
  BY <1>0, <1>1
<1> HIDE DEF at, p, n, m
<1>7. Enumerates(s, p, T, key)
  <2>1. \A k \in 1..p : s[k] \in T
    BY <1>4, <1>5
  <2>2. \A j, k \in 1..p : j < k => key[s[j]] < key[s[k]]
    BY <1>1, <1>4, <1>5
  <2>3. \A x \in T : \E k \in 1..p : s[k] = x
    <3> TAKE x \in T
    <3>1. PICK i \in 1..n : list[i] = x
      BY <1>1
    <3>2. PICK k \in 1..p : at[k] = i
      BY <1>4, <1>6, <3>1
    <3> QED BY <3>1, <3>2
  <2> QED BY <2>1, <2>2, <2>3 DEF Enumerates
<1>8. p = m /\ \A k \in 1..p : s[k] = OrderedBy(T, key)[k]
  BY <1>2, <1>4, <1>7, EnumerationIs DEF m
<1>9. at \in Seq(Nat)
  <2>1. \A k \in 1..p : at[k] \in Nat
    BY <1>1, <1>4, <1>5
  <2> QED BY <1>4, <2>1
<1> QED BY <1>2, <1>3, <1>4, <1>8, <1>9 DEF list, at, p, n, m

\* The place of an element in the part is how many of the part have come.
LEMMA PlaceInPart ==
    ASSUME NEW n \in Nat, NEW I, I \subseteq 1..n, NEW k \in 1..Cardinality(I)
    PROVE  Cardinality({j \in 1..Ordered(I)[k] : j \in I}) = k
<1> DEFINE at == Ordered(I)
           p  == Cardinality(I)
           T  == {j \in 1..at[k] : j \in I}
           f  == [l \in 1..k |-> at[l]]
<1>1. IsFiniteSet(I) /\ I \subseteq Int
  <2>1. IsFiniteSet(1..n)
    BY FS_Interval
  <2>2. IsFiniteSet(I)
    BY <2>1, FS_Subset
  <2>3. \A i \in I : i \in Int
    OBVIOUS
  <2> QED BY <2>2, <2>3
<1>2. /\ p \in Nat
      /\ \A i \in 1..p : at[i] \in I
      /\ \A i, j \in 1..p : i < j => at[i] < at[j]
      /\ \A i \in I : \E j \in 1..p : at[j] = i
  BY <1>1, OrderedIs
<1> HIDE DEF at, p
<1>3. k \in 1..p /\ \A i \in I : i \in Nat /\ i >= 1
  BY DEF p
<1>4. f \in [1..k -> T]
  <2> SUFFICES ASSUME NEW l \in 1..k PROVE at[l] \in T
    OBVIOUS
  <2>1. l \in 1..p /\ (l = k \/ l < k)
    BY <1>2, <1>3
  <2>2. at[l] \in I /\ at[k] \in I /\ (l = k \/ at[l] < at[k])
    BY <1>2, <1>3, <2>1
  <2>3. at[l] \in Nat /\ at[k] \in Nat /\ at[l] >= 1
    BY <1>3, <2>2
  <2>4. at[l] \in 1..at[k]
    BY <2>2, <2>3
  <2> QED BY <2>2, <2>4
<1>5. \A i, j \in 1..k : f[i] = f[j] => i = j
  <2> TAKE i, j \in 1..k
  <2>1. i \in 1..p /\ j \in 1..p /\ (i = j \/ i < j \/ j < i)
    BY <1>2, <1>3
  <2>2. at[i] \in Nat /\ at[j] \in Nat
    BY <1>2, <1>3, <2>1
  <2> QED BY <1>2, <2>1, <2>2
<1>6. \A x \in T : \E j \in 1..k : f[j] = x
  <2> TAKE x \in T
  <2>1. x \in I /\ x <= at[k]
    OBVIOUS
  <2>2. PICK j \in 1..p : at[j] = x
    BY <1>2, <2>1
  <2>3. j <= k
    <3>1. k < j => at[k] < at[j]
      BY <1>2, <1>3
    <3>2. at[k] \in Nat /\ at[j] \in Nat
      BY <1>2, <1>3
    <3> QED BY <1>3, <2>1, <2>2, <3>1, <3>2
  <2> QED BY <1>3, <2>2, <2>3
<1>7. f \in Bijection(1..k, T)
  <2> HIDE DEF T, f
  <2> QED BY <1>4, <1>5, <1>6 DEF Bijection, Injection, IsInjective, Surjection
<1>8. ExistsBijection(1..k, T)
  BY <1>7 DEF ExistsBijection
<1>9. Cardinality(T) = k
  <2> HIDE DEF T
  <2> QED BY <1>3, <1>8, FS_CountingElements
<1> QED BY <1>9 DEF at

-----------------------------------------------------------------------------
(* Entities in the order of their ids *)

IsEntities(S) ==
    /\ IsFiniteSet(S)
    /\ \A e \in S : e.id \in Nat
    /\ \A d, e \in S : d.id = e.id => d = e

IdsOf(S) == {e.id : e \in S}

\* ById lists each entity once, by ascending ids.
LEMMA ByIdIs ==
    ASSUME NEW S, IsEntities(S)
    PROVE  LET list == ById(S)
               n    == Cardinality(S)
           IN  /\ n \in Nat
               /\ list \in Seq(S) /\ Len(list) = n /\ DOMAIN list = 1..n
               /\ \A i \in 1..n : list[i] \in S
               /\ \A i, j \in 1..n : i < j => list[i].id < list[j].id
               /\ \A e \in S : \E i \in 1..n : list[i] = e
               /\ \A i, j \in 1..n : list[i] = list[j] => i = j
<1> DEFINE key == [e \in S |-> e.id]
           list == ById(S)
           n    == Cardinality(S)
<1>1. IsKey(key, S) /\ \A e \in S : key[e] = e.id
  BY DEF IsKey, IsEntities
<1>2. list = OrderedBy(S, key)
  BY DEF ById
<1> HIDE DEF key, list, n
<1>3. /\ n \in Nat /\ list \in Seq(S) /\ Len(list) = n /\ DOMAIN list = 1..n
      /\ Enumerates(list, n, S, key)
  BY <1>1, <1>2, OrderedByIs DEF n
<1>4. /\ \A i \in 1..n : list[i] \in S
      /\ \A i, j \in 1..n : i < j => list[i].id < list[j].id
      /\ \A e \in S : \E i \in 1..n : list[i] = e
  BY <1>1, <1>3 DEF Enumerates
<1>5. \A i, j \in 1..n : list[i] = list[j] => i = j
  <2> TAKE i, j \in 1..n
  <2>1. i = j \/ i < j \/ j < i
    BY <1>3
  <2>2. list[i].id \in Nat /\ list[j].id \in Nat
    BY <1>4 DEF IsEntities
  <2> QED BY <1>4, <2>1, <2>2
<1> QED BY <1>3, <1>4, <1>5 DEF list, n

LEMMA EntitiesPart ==
    ASSUME NEW S, IsEntities(S), NEW T \in SUBSET S
    PROVE  IsEntities(T)
  BY FS_Subset DEF IsEntities

\* The ids of entities in id order are their ids in order.
LEMMA IdsInOrder ==
    ASSUME NEW S, IsEntities(S)
    PROVE  /\ IdsOf(S) \subseteq Nat /\ IsFiniteSet(IdsOf(S))
           /\ Cardinality(IdsOf(S)) = Cardinality(S)
           /\ \A i \in 1..Cardinality(S) : ById(S)[i].id = Ordered(IdsOf(S))[i]
           /\ Ids(S) = Ordered(IdsOf(S))
<1> DEFINE n == Cardinality(S)
           list == ById(S)
           ids == [i \in 1..n |-> list[i].id]
<1>1. /\ n \in Nat /\ DOMAIN list = 1..n
      /\ \A i \in 1..n : list[i] \in S
      /\ \A i, j \in 1..n : i < j => list[i].id < list[j].id
      /\ \A e \in S : \E i \in 1..n : list[i] = e
  BY ByIdIs
<1>2. IsFiniteSet(IdsOf(S))
  <2> DEFINE f == [e \in S |-> e.id]
  <2>1. f \in Surjection(S, IdsOf(S))
    BY DEF Surjection, IdsOf
  <2>2. IsFiniteSet(S)
    BY DEF IsEntities
  <2> HIDE DEF f
  <2> QED BY <2>1, <2>2, FS_Surjection
<1>3. IdsOf(S) \subseteq Nat
  BY DEF IdsOf, IsEntities
<1>4. Ids(S) = ids
  BY <1>1 DEF Ids
<1> HIDE DEF n, list
<1>5. n = Cardinality(IdsOf(S)) /\ ids = Ordered(IdsOf(S))
  <2>1. \A i \in 1..n : ids[i] \in IdsOf(S)
    BY <1>1 DEF IdsOf
  <2>2. \A i, j \in 1..n : i < j => ids[i] < ids[j]
    BY <1>1
  <2>3. \A x \in IdsOf(S) : \E i \in 1..n : ids[i] = x
    <3> TAKE x \in IdsOf(S)
    <3>1. PICK e \in S : x = e.id
      BY DEF IdsOf
    <3>2. PICK i \in 1..n : list[i] = e
      BY <1>1
    <3> QED BY <3>1, <3>2
  <2>4. ids = [i \in 1..n |-> ids[i]] /\ IdsOf(S) \subseteq Int
    BY <1>3
  <2>5. n \in Nat
    BY <1>1
  <2> HIDE DEF ids
  <2>6. Lists(ids, n, IdsOf(S))
    BY <1>2, <2>1, <2>2, <2>3, <2>4, <2>5 DEF Lists
  <2> QED BY <2>6, OrderedIsOnly
<1> QED BY <1>2, <1>3, <1>4, <1>5 DEF n, list

\* Some of the entities, picked from the list of all: their places, their ids.
LEMMA PickedIs ==
    ASSUME NEW S, IsEntities(S), NEW T \in SUBSET S,
           NEW I, Picks(I, ById(S), T)
    PROVE  LET at == Ordered(I)
               m  == Cardinality(T)
           IN  /\ m \in Nat /\ Cardinality(I) = m
               /\ I \subseteq 1..Cardinality(S)
               /\ DOMAIN at = 1..m /\ Len(at) = m /\ at \in Seq(Nat)
               /\ \A k \in 1..m : /\ at[k] \in I
                                  /\ ById(S)[at[k]].id = Ordered(IdsOf(T))[k]
               /\ \A i \in I : \E k \in 1..m : at[k] = i
               /\ \A k \in 1..m : Cardinality({j \in 1..at[k] : j \in I}) = k
<1> DEFINE key == [e \in S |-> e.id]
           kez == [e \in T |-> e.id]
           at == Ordered(I)
           m  == Cardinality(T)
<1>1. IsKey(key, S) /\ ById(S) = OrderedBy(S, key)
  BY DEF IsKey, IsEntities, ById
<1>2. OrderedBy(T, key) = ById(T)
  <2>1. \A e \in T : key[e] = kez[e]
    OBVIOUS
  <2>2. ById(T) = OrderedBy(T, kez)
    BY DEF ById
  <2> HIDE DEF key, kez
  <2> QED BY <2>1, <2>2, SameKeys
<1> HIDE DEF key
<1>3. /\ m \in Nat /\ Cardinality(I) = m
      /\ I \subseteq 1..Cardinality(S)
      /\ DOMAIN at = 1..m /\ Len(at) = m /\ at \in Seq(Nat)
      /\ \A k \in 1..m : at[k] \in I /\ ById(S)[at[k]] = ById(T)[k]
      /\ \A i \in I : \E k \in 1..m : at[k] = i
  <2>1. Picks(I, OrderedBy(S, key), T)
    BY <1>1
  <2> HIDE DEF at, m
  <2>2. /\ m \in Nat /\ Cardinality(I) = m
        /\ I \subseteq 1..Cardinality(S)
        /\ DOMAIN at = 1..m /\ Len(at) = m /\ at \in Seq(Nat)
        /\ \A k \in 1..m : at[k] \in I /\ OrderedBy(S, key)[at[k]] = OrderedBy(T, key)[k]
        /\ \A i \in I : \E k \in 1..m : at[k] = i
    BY <1>1, <2>1, PartIs DEF at, m
  <2> QED BY <1>1, <1>2, <2>2
<1>4. \A k \in 1..m : ById(T)[k].id = Ordered(IdsOf(T))[k]
  BY EntitiesPart, IdsInOrder
<1>5. \A k \in 1..m : Cardinality({j \in 1..at[k] : j \in I}) = k
  <2>1. Cardinality(S) \in Nat
    BY FS_CardinalityType DEF IsEntities
  <2>2. Cardinality(S) \in Nat /\ I \subseteq 1..Cardinality(S) /\ \A k \in 1..m : k \in 1..Cardinality(I)
    BY <1>3, <2>1
  <2> QED BY ONLY <2>2, PlaceInPart
<1> QED BY <1>3, <1>4, <1>5

-----------------------------------------------------------------------------
(* Sums, and sequences one after the other *)

\* f holds the first n sums.
SumsTo(f, counts, n) ==
    f = [q \in 0..n |-> IF q = 0 THEN 0 ELSE f[q - 1] + counts[q - 1]]

\* The recursive function that Sums takes its values from exists.
LEMMA SumsExist ==
    ASSUME NEW counts PROVE \A n \in Nat : \E f : SumsTo(f, counts, n)
<1> DEFINE S == {n \in Nat : ~\E f : SumsTo(f, counts, n)}
<1>1. SUFFICES ASSUME S # {} PROVE FALSE
  OBVIOUS
<1>2. S \subseteq Nat
  OBVIOUS
<1>3. \E n \in S : \A m \in S : ~(<<m, n>> \in OpToRel(<, Nat))
  <2> HIDE DEF S
  <2> QED BY <1>1, <1>2, NatLessThanWellFounded, WFMin
<1>4. PICK n \in S : \A m \in S : ~(m < n)
  BY <1>2, <1>3 DEF OpToRel
<1>5. n # 0
  <2> DEFINE f == [q \in 0..0 |-> 0]
  <2>1. SumsTo(f, counts, 0)
    BY DEF SumsTo
  <2> HIDE DEF f
  <2> QED BY <2>1
<1>6. PICK g : SumsTo(g, counts, n - 1)
  BY <1>2, <1>4, <1>5
<1> DEFINE f == [q \in 0..n |-> IF q = n THEN g[n - 1] + counts[n - 1] ELSE g[q]]
<1>7. n \in Nat
  OBVIOUS
<1>8. SumsTo(f, counts, n)
  <2>1. \A q \in 0..n : f[q] = IF q = 0 THEN 0 ELSE f[q - 1] + counts[q - 1]
    <3> TAKE q \in 0..n
    <3>1. CASE q = n
      <4>1. f[q] = g[n - 1] + counts[n - 1] /\ f[q - 1] = g[n - 1]
        BY <1>5, <1>7, <3>1
      <4> QED BY <1>5, <3>1, <4>1
    <3>2. CASE q # n
      <4>1. f[q] = g[q] /\ q \in 0..n - 1
        BY <1>7, <3>2
      <4>2. q # 0 => f[q - 1] = g[q - 1]
        BY <1>7, <3>2
      <4>3. g[q] = IF q = 0 THEN 0 ELSE g[q - 1] + counts[q - 1]
        BY <1>6, <4>1 DEF SumsTo
      <4> QED BY <4>1, <4>2, <4>3
    <3> QED BY <3>1, <3>2
  <2>2. f = [q \in 0..n |-> f[q]]
    OBVIOUS
  <2> HIDE DEF f
  <2> QED BY <2>1, <2>2 DEF SumsTo
<1> HIDE DEF f
<1> QED BY <1>8

\* A function that never falls from one number to the next never falls.
LEMMA NeverFalls ==
    ASSUME NEW n \in Nat, NEW f, \A q \in 0..n : f[q] \in Nat,
           \A q \in 0..n - 1 : f[q] <= f[q + 1]
    PROVE  \A p, q \in 0..n : p <= q => f[p] <= f[q]
<1> TAKE p \in 0..n
<1> DEFINE S == {q \in 0..n : p <= q /\ ~(f[p] <= f[q])}
<1>1. SUFFICES ASSUME S # {} PROVE FALSE
  OBVIOUS
<1>2. S \in SUBSET Nat
  OBVIOUS
<1> DEFINE q == Smallest(S)
<1>3. q \in S /\ \A x \in S : q <= x
  <2> HIDE DEF S
  <2> QED BY <1>1, <1>2, LeastIs
<1> HIDE DEF q
<1>4. q \in 0..n /\ p <= q /\ ~(f[p] <= f[q]) /\ q \in Nat
  BY <1>3
<1>5. q # p
  BY <1>4
<1>6. q - 1 \in 0..n /\ q - 1 \in 0..n - 1 /\ p <= q - 1 /\ q - 1 + 1 = q
  BY <1>4, <1>5
<1>7. f[p] <= f[q - 1]
  <2>1. q - 1 \notin S
    BY <1>3, <1>4
  <2> QED BY <1>6, <2>1
<1>8. f[q - 1] <= f[q]
  BY <1>6
<1> QED BY <1>4, <1>6, <1>7, <1>8

\* Sums begins with 0, adds a count at each color and never falls.
LEMMA SumsAre ==
    ASSUME NEW counts, \A q \in Colors : counts[q] \in Nat
    PROVE  LET d == Sums(counts)
           IN  /\ d \in [0..NumColors -> Nat] /\ d[0] = 0
               /\ \A q \in 0..NumColors - 1 : d[q + 1] = d[q] + counts[q]
               /\ \A p, q \in 0..NumColors : p <= q => d[p] <= d[q]
<1> DEFINE d == Sums(counts)
<1>0. NumColors \in Nat \ {0}
  BY ColorsAssumption
<1>1. SumsTo(d, counts, NumColors)
  <2>1. d = CHOOSE f : SumsTo(f, counts, NumColors)
    BY DEF Sums, SumsTo
  <2>2. \E f : SumsTo(f, counts, NumColors)
    BY <1>0, SumsExist
  <2> HIDE DEF d
  <2> QED BY <2>1, <2>2
<1> HIDE DEF d
<1>2. /\ d[0] = 0 /\ DOMAIN d = 0..NumColors
      /\ \A q \in 0..NumColors - 1 : d[q + 1] = d[q] + counts[q]
  <2>1. \A q \in 0..NumColors : d[q] = IF q = 0 THEN 0 ELSE d[q - 1] + counts[q - 1]
    BY <1>1 DEF SumsTo
  <2>2. \A q \in 0..NumColors - 1 : q + 1 \in 0..NumColors /\ q + 1 # 0 /\ q + 1 - 1 = q
    BY <1>0
  <2>3. DOMAIN d = 0..NumColors
    BY <1>1 DEF SumsTo
  <2> QED BY <1>0, <2>1, <2>2, <2>3
<1>3. \A q \in 0..NumColors : d[q] \in Nat
  <2> DEFINE S == {q \in 0..NumColors : d[q] \notin Nat}
  <2>1. SUFFICES ASSUME S # {} PROVE FALSE
    OBVIOUS
  <2>2. S \in SUBSET Nat
    BY <1>0
  <2>3. PICK q \in S : \A x \in S : q <= x
    <3> HIDE DEF S
    <3> QED BY <2>1, <2>2, LeastIs
  <2>4. q \in 0..NumColors /\ d[q] \notin Nat /\ q # 0
    BY <1>2
  <2>5. q - 1 \notin S /\ q - 1 \in 0..NumColors /\ q - 1 \in 0..NumColors - 1
    BY <1>0, <2>3, <2>4
  <2>6. d[q - 1] \in Nat /\ counts[q - 1] \in Nat
    BY <2>5 DEF Colors
  <2>7. d[q] = d[q - 1] + counts[q - 1]
    BY <1>2, <2>4, <2>5
  <2> QED BY <2>4, <2>6, <2>7
<1>4. \A q \in 0..NumColors - 1 : d[q] <= d[q + 1]
  <2> TAKE q \in 0..NumColors - 1
  <2>1. q \in 0..NumColors /\ counts[q] \in Nat
    BY <1>0 DEF Colors
  <2> QED BY <1>2, <1>3, <2>1
<1>5. \A p, q \in 0..NumColors : p <= q => d[p] <= d[q]
  BY <1>0, <1>3, <1>4, NeverFalls
<1>6. d = [q \in 0..NumColors |-> d[q]]
  BY <1>1 DEF SumsTo
<1>7. d \in [0..NumColors -> Nat]
  BY <1>3, <1>6
<1> QED BY <1>2, <1>5, <1>7 DEF d

\* f holds the first n of seqs, one after the other.
FlatTo(f, seqs, n) ==
    f = [i \in 1..n |-> IF i = 1 THEN seqs[i] ELSE f[i - 1] \o seqs[i]]

\* The recursive function that FlattenSeq takes its values from exists.
LEMMA FlatExists ==
    ASSUME NEW seqs
    PROVE  \A n \in Nat : \E f : FlatTo(f, seqs, n)
<1> DEFINE S == {n \in Nat : ~\E f : FlatTo(f, seqs, n)}
<1>1. SUFFICES ASSUME S # {} PROVE FALSE
  OBVIOUS
<1>2. S \in SUBSET Nat
  OBVIOUS
<1>3. PICK n \in S : \A m \in S : n <= m
  <2> HIDE DEF S
  <2> QED BY <1>1, <1>2, LeastIs
<1>4. n \in Nat
  OBVIOUS
<1>5. n # 0
  <2> DEFINE f == [q \in 1..0 |-> 0]
  <2>1. FlatTo(f, seqs, 0)
    BY DEF FlatTo
  <2> HIDE DEF f
  <2> QED BY <2>1
<1>6. PICK g : FlatTo(g, seqs, n - 1)
  BY <1>3, <1>4, <1>5
<1> DEFINE f == [q \in 1..n |-> IF q = n THEN IF n = 1 THEN seqs[n] ELSE g[n - 1] \o seqs[n]
                                         ELSE g[q]]
<1>7. FlatTo(f, seqs, n)
  <2>1. \A q \in 1..n : f[q] = IF q = 1 THEN seqs[q] ELSE f[q - 1] \o seqs[q]
    <3> TAKE q \in 1..n
    <3>1. CASE q = n
      <4>1. q # 1 => f[q - 1] = g[n - 1]
        BY <1>4, <1>5, <3>1
      <4>2. f[q] = IF n = 1 THEN seqs[n] ELSE g[n - 1] \o seqs[n]
        BY <3>1
      <4> HIDE DEF f
      <4> QED BY <3>1, <4>1, <4>2
    <3>2. CASE q # n
      <4>1. f[q] = g[q] /\ q \in 1..n - 1
        BY <1>4, <3>2
      <4>2. q # 1 => f[q - 1] = g[q - 1]
        BY <1>4, <3>2
      <4>3. g[q] = IF q = 1 THEN seqs[q] ELSE g[q - 1] \o seqs[q]
        BY <1>6, <4>1 DEF FlatTo
      <4> HIDE DEF f
      <4> QED BY <4>1, <4>2, <4>3
    <3> QED BY <3>1, <3>2
  <2>2. f = [q \in 1..n |-> f[q]]
    OBVIOUS
  <2> HIDE DEF f
  <2> QED BY <2>1, <2>2 DEF FlatTo
<1> HIDE DEF f
<1> QED BY <1>7

\* s is the sequences seqs one after the other, the i-th from d[i - 1] + 1 on.
Pieces(seqs, n, d, S) ==
    /\ n \in Nat /\ DOMAIN seqs = 1..n /\ seqs = [i \in 1..n |-> seqs[i]]
    /\ \A i \in 1..n : seqs[i] \in Seq(S)
    /\ \A i \in 0..n : d[i] \in Nat
    /\ d[0] = 0
    /\ \A i \in 1..n : d[i] = d[i - 1] + Len(seqs[i])

Flat(s, seqs, n, d, S) ==
    /\ s \in Seq(S) /\ Len(s) = d[n]
    /\ \A i \in 1..n : \A k \in 1..Len(seqs[i]) :
          d[i - 1] + k \in 1..d[n] /\ s[d[i - 1] + k] = seqs[i][k]
    /\ \A j \in 1..d[n] : \E i \in 1..n : \E k \in 1..Len(seqs[i]) : j = d[i - 1] + k

\* One more piece at the end.
LEMMA FlatOneMore ==
    ASSUME NEW S, NEW seqs, NEW n, NEW d, Pieces(seqs, n, d, S),
           NEW m \in 1..n - 1, NEW s, Flat(s, seqs, m, d, S)
    PROVE  Flat(s \o seqs[m + 1], seqs, m + 1, d, S)
<1> DEFINE t == seqs[m + 1]
           u == s \o t
<1>1. /\ n \in Nat /\ m \in 1..n /\ m + 1 \in 1..n /\ m \in 0..n /\ m + 1 \in 0..n
      /\ m + 1 - 1 = m
  BY DEF Pieces
<1>2. t \in Seq(S) /\ Len(t) \in Nat /\ d[m] \in Nat /\ d[m + 1] = d[m] + Len(t)
  BY <1>1 DEF Pieces
<1>3. s \in Seq(S) /\ Len(s) = d[m]
  BY DEF Flat
<1>4. u \in Seq(S) /\ Len(u) = d[m + 1]
  BY <1>2, <1>3
<1>5. /\ \A j \in 1..d[m] : u[j] = s[j]
      /\ \A k \in 1..Len(t) : u[d[m] + k] = t[k]
  BY <1>2, <1>3
<1> HIDE DEF u, t
<1>6. ASSUME NEW i \in 1..m + 1, NEW k \in 1..Len(seqs[i])
      PROVE  d[i - 1] + k \in 1..d[m + 1] /\ u[d[i - 1] + k] = seqs[i][k]
  <2>1. CASE i = m + 1
    <3>1. k \in 1..Len(t) /\ d[i - 1] = d[m] /\ seqs[i] = t
      BY <1>1, <2>1 DEF t
    <3> QED BY <1>2, <1>5, <3>1
  <2>2. CASE i # m + 1
    <3>1. i \in 1..m
      BY <1>1, <2>2
    <3>2. d[i - 1] + k \in 1..d[m] /\ s[d[i - 1] + k] = seqs[i][k]
      BY <3>1 DEF Flat
    <3> QED BY <1>2, <1>5, <3>2
  <2> QED BY <2>1, <2>2
<1>7. ASSUME NEW j \in 1..d[m + 1]
      PROVE  \E i \in 1..m + 1 : \E k \in 1..Len(seqs[i]) : j = d[i - 1] + k
  <2>1. CASE j \in 1..d[m]
    <3>1. PICK i \in 1..m : \E k \in 1..Len(seqs[i]) : j = d[i - 1] + k
      BY <2>1 DEF Flat
    <3>2. i \in 1..m + 1
      BY <1>1
    <3> QED BY <3>1, <3>2
  <2>2. CASE j \notin 1..d[m]
    <3>1. j - d[m] \in 1..Len(t) /\ j = d[m] + (j - d[m])
      BY <1>2, <2>2
    <3>2. m + 1 \in 1..m + 1 /\ m + 1 - 1 = m
      BY <1>1
    <3> QED BY <3>1, <3>2 DEF t
  <2> QED BY <2>1, <2>2
<1>8. Flat(u, seqs, m + 1, d, S)
  BY <1>4, <1>6, <1>7 DEF Flat
<1> QED BY <1>8 DEF u, t

\* Each piece is found again from where the lengths before it add up to.
LEMMA FlattenIs ==
    ASSUME NEW S, NEW seqs, NEW n, NEW d, Pieces(seqs, n, d, S), n # 0
    PROVE  Flat(FlattenSeq(seqs), seqs, n, d, S)
<1>1. n \in Nat /\ n # 0 /\ DOMAIN seqs = 1..n /\ seqs \in Seq(Seq(S)) /\ Len(seqs) = n
  <2>1. n \in Nat /\ DOMAIN seqs = 1..n /\ seqs = [i \in 1..n |-> seqs[i]]
        /\ \A i \in 1..n : seqs[i] \in Seq(S)
    BY DEF Pieces
  <2>2. seqs \in [1..n -> Seq(S)]
    BY <2>1
  <2> QED BY <2>1, <2>2
<1> DEFINE fl == CHOOSE f : FlatTo(f, seqs, n)
<1>2. FlattenSeq(seqs) = fl[n]
  BY <1>1 DEF FlattenSeq, FlatTo
<1>3. FlatTo(fl, seqs, n)
  BY <1>1, FlatExists
<1> HIDE DEF fl
<1>4. \A i \in 1..n : fl[i] = IF i = 1 THEN seqs[i] ELSE fl[i - 1] \o seqs[i]
  BY <1>3 DEF FlatTo
<1> DEFINE B == {m \in 1..n : ~Flat(fl[m], seqs, m, d, S)}
<1>5. ASSUME B # {} PROVE FALSE
  <2>1. B \in SUBSET Nat
    BY <1>1
  <2>2. PICK m \in B : \A x \in B : m <= x
    <3> HIDE DEF B
    <3> QED BY <1>5, <2>1, LeastIs
  <2>3. m \in 1..n /\ ~Flat(fl[m], seqs, m, d, S) /\ m \in Nat
    BY <1>1
  <2>4. CASE m = 1
    <3>1. fl[1] = seqs[1] /\ seqs[1] \in Seq(S) /\ d[0] = 0 /\ d[1] = Len(seqs[1])
          /\ Len(seqs[1]) \in Nat
      <4>1. 1 \in 1..n /\ 1 - 1 = 0
        BY <1>1
      <4>2. d[0] = 0 /\ d[1] = d[1 - 1] + Len(seqs[1]) /\ seqs[1] \in Seq(S)
        BY <4>1 DEF Pieces
      <4> QED BY <1>4, <4>1, <4>2
    <3>2. \A i \in 1..1 : i = 1
      OBVIOUS
    <3>3. \A i \in 1..1 : \A k \in 1..Len(seqs[i]) :
            d[i - 1] + k \in 1..d[1] /\ fl[1][d[i - 1] + k] = seqs[i][k]
      BY <3>1, <3>2
    <3>4. \A j \in 1..d[1] : \E i \in 1..1 : \E k \in 1..Len(seqs[i]) : j = d[i - 1] + k
      <4> TAKE j \in 1..d[1]
      <4>1. 1 \in 1..1 /\ j \in 1..Len(seqs[1]) /\ j = d[1 - 1] + j
        BY <3>1
      <4> QED BY <4>1
    <3> QED BY <2>3, <2>4, <3>1, <3>3, <3>4 DEF Flat
  <2>5. CASE m # 1
    <3>1. m - 1 \in 1..n /\ m - 1 \in 1..n - 1 /\ m - 1 + 1 = m /\ m - 1 < m
      BY <1>1, <2>3, <2>5
    <3>2. Flat(fl[m - 1], seqs, m - 1, d, S)
      BY <2>2, <2>3, <3>1
    <3>3. Flat(fl[m - 1] \o seqs[m - 1 + 1], seqs, m - 1 + 1, d, S)
      BY <3>1, <3>2, FlatOneMore
    <3> QED BY <1>4, <2>3, <2>5, <3>1, <3>3
  <2> QED BY <2>4, <2>5
<1>6. Flat(fl[n], seqs, n, d, S)
  BY <1>1, <1>5
<1> QED BY <1>2, <1>6

\* For one sequence of each color.
LEMMA FlattenColors ==
    ASSUME NEW S, NEW seqs, DOMAIN seqs = 1..NumColors, seqs = [i \in 1..NumColors |-> seqs[i]],
           \A i \in 1..NumColors : seqs[i] \in Seq(S)
    PROVE  LET d == Sums([q \in Colors |-> Len(seqs[q + 1])])
               s == FlattenSeq(seqs)
           IN  /\ Flat(s, seqs, NumColors, d, S)
               /\ ToSet(s) = UNION {ToSet(seqs[i]) : i \in 1..NumColors}
<1> DEFINE counts == [q \in Colors |-> Len(seqs[q + 1])]
           d == Sums(counts)
           s == FlattenSeq(seqs)
<1>0. NumColors \in Nat \ {0}
  BY ColorsAssumption
<1>1. \A q \in Colors : counts[q] \in Nat /\ counts[q] = Len(seqs[q + 1])
  <2> TAKE q \in Colors
  <2>1. q + 1 \in 1..NumColors
    BY <1>0 DEF Colors
  <2>2. seqs[q + 1] \in Seq(S)
    BY <2>1
  <2> QED BY <2>2
<1> HIDE DEF counts
<1>2. /\ d \in [0..NumColors -> Nat] /\ d[0] = 0
      /\ \A q \in 0..NumColors - 1 : d[q + 1] = d[q] + counts[q]
  BY <1>1, SumsAre
<1> HIDE DEF d
<1>3. \A i \in 1..NumColors : d[i] = d[i - 1] + Len(seqs[i])
  <2> TAKE i \in 1..NumColors
  <2>1. i - 1 \in 0..NumColors - 1 /\ i - 1 \in Colors /\ i - 1 + 1 = i
    BY <1>0 DEF Colors
  <2> QED BY <1>1, <1>2, <2>1
<1>4. Pieces(seqs, NumColors, d, S)
  BY <1>0, <1>2, <1>3 DEF Pieces
<1>5. Flat(s, seqs, NumColors, d, S)
  BY <1>0, <1>4, FlattenIs
<1> HIDE DEF s
<1>6. DOMAIN s = 1..d[NumColors] /\ d[NumColors] \in Nat
  BY <1>0, <1>2, <1>5 DEF Flat
<1>7. \A i \in 1..NumColors : DOMAIN seqs[i] = 1..Len(seqs[i])
  OBVIOUS
<1>8. ToSet(s) \subseteq UNION {ToSet(seqs[i]) : i \in 1..NumColors}
  <2> SUFFICES ASSUME NEW j \in 1..d[NumColors]
               PROVE  \E i \in 1..NumColors : s[j] \in ToSet(seqs[i])
    BY <1>6 DEF ToSet
  <2>1. PICK i \in 1..NumColors : \E k \in 1..Len(seqs[i]) : j = d[i - 1] + k
    BY <1>5 DEF Flat
  <2>2. PICK k \in 1..Len(seqs[i]) : j = d[i - 1] + k
    BY <2>1
  <2>3. s[j] = seqs[i][k]
    BY <1>5, <2>2 DEF Flat
  <2> QED BY <1>7, <2>3 DEF ToSet
<1>9. \A i \in 1..NumColors : ToSet(seqs[i]) \subseteq ToSet(s)
  <2> SUFFICES ASSUME NEW i \in 1..NumColors, NEW k \in 1..Len(seqs[i])
               PROVE  seqs[i][k] \in ToSet(s)
    BY <1>7 DEF ToSet
  <2>1. d[i - 1] + k \in 1..d[NumColors] /\ s[d[i - 1] + k] = seqs[i][k]
    BY <1>5 DEF Flat
  <2> QED BY <1>6, <2>1 DEF ToSet
<1> QED BY <1>5, <1>8, <1>9 DEF s, d, counts

-----------------------------------------------------------------------------
(* Runs of places *)

\* Between two starts, each place follows on the one before it.
Follows(places, a, m) == \A k \in 1..m : places[a + k] = places[a + k - 1] + 1

\* Places that follow one another are counted from the first.
LEMMA RunGoesOn ==
    ASSUME NEW places, NEW a, NEW m \in Nat, places[a] \in Nat, a \in Nat, Follows(places, a, m)
    PROVE  \A k \in 0..m : places[a + k] = places[a] + k
<1> DEFINE B == {k \in 0..m : places[a + k] # places[a] + k}
<1>1. SUFFICES ASSUME B # {} PROVE FALSE
  OBVIOUS
<1>2. B \in SUBSET Nat
  OBVIOUS
<1>3. PICK k \in B : \A x \in B : k <= x
  <2> HIDE DEF B
  <2> QED BY <1>1, <1>2, LeastIs
<1>4. k \in 0..m /\ places[a + k] # places[a] + k /\ k \in Nat
  BY <1>2
<1>5. k # 0
  BY <1>4
<1>6. k \in 1..m /\ k - 1 \in 0..m /\ k - 1 < k /\ a + (k - 1) = a + k - 1
  BY <1>4, <1>5
<1>7. places[a + (k - 1)] = places[a] + (k - 1)
  BY <1>3, <1>4, <1>6
<1>8. places[a + k] = places[a + k - 1] + 1
  BY <1>6 DEF Follows
<1>9. places[a] \in Nat
  OBVIOUS
<1> QED BY <1>4, <1>6, <1>7, <1>8, <1>9

\* What the runs of a list stand for is the list.
LEMMA ExpandRuns ==
    ASSUME NEW places \in Seq(Nat)
    PROVE  Expand(Runs(places)) = places
<1> DEFINE N      == Len(places)
           Starts == {k \in DOMAIN places : k = 1 \/ places[k] # places[k - 1] + 1}
           first  == Ordered(Starts)
           n      == Cardinality(Starts)
           end(j) == IF j < n THEN first[j + 1] ELSE N + 1
           runs   == Runs(places)
           seqs   == [k \in DOMAIN runs |-> [i \in 1..runs[k][2] |-> runs[k][1] + i - 1]]
           d      == [j \in 0..n |-> IF j = n THEN N ELSE first[j + 1] - 1]
<1>1. N \in Nat /\ DOMAIN places = 1..N /\ \A k \in 1..N : places[k] \in Nat
  OBVIOUS
<1> HIDE DEF N
<1>2. IsFiniteSet(Starts) /\ Starts \subseteq Int /\ Starts \subseteq 1..N
  <2>1. Starts \subseteq 1..N /\ \A k \in Starts : k \in Int
    BY <1>1
  <2>2. IsFiniteSet(1..N)
    BY <1>1, FS_Interval
  <2> HIDE DEF Starts
  <2> QED BY <2>1, <2>2, FS_Subset
<1>3. /\ n \in Nat /\ Len(first) = n /\ DOMAIN first = 1..n
      /\ \A i \in 1..n : first[i] \in Starts
      /\ \A i, j \in 1..n : i < j => first[i] < first[j]
      /\ \A x \in Starts : \E i \in 1..n : first[i] = x
  <2> HIDE DEF Starts
  <2>1. /\ Cardinality(Starts) \in Nat /\ Len(Ordered(Starts)) = Cardinality(Starts)
        /\ DOMAIN Ordered(Starts) = 1..Cardinality(Starts)
        /\ \A i \in 1..Cardinality(Starts) : Ordered(Starts)[i] \in Starts
        /\ \A i, j \in 1..Cardinality(Starts) : i < j => Ordered(Starts)[i] < Ordered(Starts)[j]
        /\ \A x \in Starts : Position(x, Starts) + 1 \in 1..Cardinality(Starts)
                             /\ Ordered(Starts)[Position(x, Starts) + 1] = x
    BY <1>2, OrderedIs
  <2> QED BY <2>1
<1>4. runs = [j \in 1..n |-> <<places[first[j]], end(j) - first[j]>>]
  BY <1>3 DEF Runs, RunsFrom, N
<1>5. \A k \in 1..N : k \in Starts <=> (k = 1 \/ places[k] # places[k - 1] + 1)
  BY <1>1
<1> HIDE DEF Starts, first, n, runs
<1>6. \A j \in 1..n : first[j] \in 1..N
  BY <1>2, <1>3
<1>7. \A j \in 1..n : first[j] < end(j) /\ end(j) \in 2..N + 1
  <2> TAKE j \in 1..n
  <2>1. first[j] \in 1..N
    BY <1>6
  <2>2. CASE j < n
    <3>1. j + 1 \in 1..n /\ j < j + 1
      BY <1>3, <2>2
    <3>2. first[j] < first[j + 1] /\ first[j + 1] \in 1..N
      BY <1>3, <1>6, <3>1
    <3> QED BY <1>1, <2>1, <2>2, <3>2
  <2>3. CASE ~(j < n)
    BY <1>1, <2>1, <2>3
  <2> QED BY <2>2, <2>3
<1> HIDE DEF end
\* No start lies within a run.
<1>8. ASSUME NEW j \in 1..n, NEW k \in Starts, first[j] < k PROVE end(j) <= k
  <2>1. PICK i \in 1..n : first[i] = k
    BY <1>3
  <2>2. k \in 1..N /\ first[j] \in 1..N
    BY <1>2, <1>6
  <2>3. j < i
    <3>1. i = j \/ i < j \/ j < i
      BY <1>3
    <3>2. i < j => first[i] < first[j]
      BY <1>3
    <3> QED BY <1>8, <2>1, <2>2, <3>1, <3>2
  <2>4. j < n /\ j + 1 \in 1..n
    BY <1>3, <2>3
  <2>5. j + 1 = i \/ first[j + 1] < first[i]
    BY <1>3, <2>3, <2>4
  <2>6. first[j + 1] \in 1..N
    BY <1>6, <2>4
  <2> QED BY <2>1, <2>2, <2>4, <2>5, <2>6 DEF end
<1>9. ASSUME NEW j \in 1..n, NEW i \in 1..end(j) - first[j]
      PROVE  places[first[j]] + i - 1 = places[first[j] + i - 1] /\ first[j] + i - 1 \in 1..N
  <2> DEFINE a == first[j]
             m == end(j) - a - 1
  <2>0. end(j) \in 2..N + 1 /\ a < end(j) /\ a \in 1..N
    BY <1>6, <1>7
  <2>1. a \in 1..N /\ m \in Nat /\ a + m <= N /\ m = end(j) - a - 1
    <3>1. N \in Nat
      BY <1>1
    <3> HIDE DEF a, end
    <3> QED BY <2>0, <3>1
  <2> HIDE DEF m
  <2> HIDE DEF a
  <2>2. ASSUME NEW y \in 1..N, a < y, ~(end(j) <= y) PROVE places[y] = places[y - 1] + 1
    <3>1. y \notin Starts
      BY <1>8, <2>2 DEF a
    <3> QED BY <1>5, <3>1
  <2> DEFINE z == end(j)
  <2>20. /\ z \in Nat /\ a \in Nat /\ a >= 1 /\ m \in Nat /\ a + m <= N /\ N \in Nat
         /\ m = z - a - 1
    BY <1>1, <2>0, <2>1
  <2>21. \A y \in 1..N : a < y /\ ~(z <= y) => places[y] = places[y - 1] + 1
    BY <2>2
  <2> HIDE DEF z
  <2>3. \A k \in 0..m : places[a + k] = places[a] + k
    <3>0. ASSUME NEW k \in 1..m PROVE places[a + k] = places[a + k - 1] + 1
      <4>1. a + k \in 1..N /\ a < a + k /\ ~(z <= a + k)
        BY ONLY <2>20, k \in 1..m
      <4>2. a + k \in Int /\ a \in Int /\ k \in Int
        BY ONLY <2>20, k \in 1..m
      <4> QED BY ONLY <2>21, <4>1, <4>2
    <3>1. Follows(places, a, m)
      BY <3>0 DEF Follows
    <3>2. places[a] \in Nat
      BY <1>1, <2>1
    <3>3. m \in Nat
      BY <2>1
    <3>4. a \in Nat
      BY <1>1, <2>1
    <3> QED BY ONLY <3>1, <3>2, <3>3, <3>4, RunGoesOn
  <2>4. i - 1 \in 0..m /\ i \in Nat
    BY <1>7, <2>1, <1>6 DEF m, a
  <2>5. places[a + (i - 1)] = places[a] + (i - 1) /\ places[a] \in Nat
    BY <1>1, <2>1, <2>3, <2>4
  <2>6. a + (i - 1) = a + i - 1 /\ a + i - 1 \in 1..N /\ places[a] + (i - 1) = places[a] + i - 1
    BY <1>1, <2>1, <2>4, <2>5
  <2> QED BY <2>5, <2>6 DEF a
<1>10. DOMAIN seqs = 1..n /\ seqs = [j \in 1..n |-> seqs[j]]
  BY <1>4
<1>11. \A j \in 1..n : seqs[j] = [i \in 1..end(j) - first[j] |-> places[first[j]] + i - 1]
  BY <1>4
<1>12. \A j \in 1..n : seqs[j] \in Seq(Nat) /\ Len(seqs[j]) = end(j) - first[j]
  <2> TAKE j \in 1..n
  <2> DEFINE l == end(j) - first[j]
  <2>1. l \in Nat
    BY <1>1, <1>6, <1>7
  <2>2. \A i \in 1..l : places[first[j]] + i - 1 \in Nat
    BY <1>1, <1>9
  <2>3. seqs[j] = [i \in 1..l |-> places[first[j]] + i - 1]
    BY <1>11
  <2> HIDE DEF seqs, l
  <2>4. seqs[j] \in [1..l -> Nat]
    BY <2>2, <2>3
  <2>5. seqs[j] \in Seq(Nat) /\ Len(seqs[j]) = l
    <3> SUFFICES ASSUME NEW f \in [1..l -> Nat] PROVE f \in Seq(Nat) /\ Len(f) = l
      BY <2>4
    <3>1. f \in Seq(Nat)
      BY <2>1
    <3>2. DOMAIN f = 1..l /\ Len(f) \in Nat /\ DOMAIN f = 1..Len(f)
      BY <3>1
    <3> QED BY <2>1, <3>1, <3>2
  <2> QED BY <2>5 DEF l
<1>13. Expand(runs) = FlattenSeq(seqs)
  BY DEF Expand
<1> HIDE DEF seqs
<1>14. CASE N = 0
  <2>1. n = 0
    <3>1. Starts = {}
      BY <1>2, <1>14
    <3> QED BY <3>1, FS_EmptySet DEF n
  <2>2. seqs \in Seq(Nat) /\ Len(seqs) = 0 /\ DOMAIN seqs = {}
    <3>1. seqs \in [1..0 -> Nat]
      BY <1>10, <2>1
    <3> QED BY <3>1
  <2>3. FlattenSeq(seqs) = seqs
    BY <2>2 DEF FlattenSeq
  <2>4. places = seqs
    BY <1>1, <1>14, <2>2
  <2> QED BY <1>13, <2>3, <2>4 DEF runs
<1>15. CASE N # 0
  <2>1. n # 0 /\ first[1] = 1
    <3>1. 1 \in Starts
      BY <1>1, <1>5, <1>15
    <3>2. PICK i \in 1..n : first[i] = 1
      BY <1>3, <3>1
    <3>3. 1 \in 1..n /\ (1 = i \/ 1 < i)
      BY <1>3, <3>2
    <3>4. first[1] \in 1..N
      BY <1>6, <3>3
    <3>5. 1 < i => first[1] < first[i]
      BY <1>3, <3>3
    <3> QED BY <3>2, <3>3, <3>4, <3>5
  <2>2. \A j \in 0..n : d[j] \in Nat
    <3> TAKE j \in 0..n
    <3>1. j # n => j + 1 \in 1..n
      BY <1>3
    <3>2. j # n => first[j + 1] \in 1..N
      BY <1>6, <3>1
    <3> QED BY <1>1, <3>2
  <2>3. d[0] = 0 /\ d[n] = N
    BY <1>3, <2>1
  <2>4. \A j \in 1..n : d[j - 1] = first[j] - 1 /\ d[j] = end(j) - 1
    <3> TAKE j \in 1..n
    <3>1. j - 1 \in 0..n /\ j - 1 # n /\ j - 1 + 1 = j /\ j \in 0..n
      BY <1>3
    <3>2. d[j - 1] = first[j] - 1
      BY <3>1
    <3>3. d[j] = IF j = n THEN N ELSE first[j + 1] - 1
      BY <3>1
    <3>4. j = n <=> ~(j < n)
      BY <1>3
    <3> QED BY <1>1, <3>2, <3>3, <3>4 DEF end
  <2> HIDE DEF d
  <2>5. \A j \in 1..n : d[j] = d[j - 1] + Len(seqs[j])
    <3> TAKE j \in 1..n
    <3>1. first[j] \in 1..N /\ end(j) \in 2..N + 1
      BY <1>6, <1>7
    <3> QED BY <1>1, <1>12, <2>4, <3>1
  <2>6. Pieces(seqs, n, d, Nat)
    BY <1>3, <1>10, <1>12, <2>2, <2>3, <2>5 DEF Pieces
  <2> DEFINE s == FlattenSeq(seqs)
  <2>7. Flat(s, seqs, n, d, Nat)
    BY <2>1, <2>6, FlattenIs
  <2> HIDE DEF s
  <2>8. s \in Seq(Nat) /\ Len(s) = N
    BY <2>3, <2>7 DEF Flat
  <2>9. ASSUME NEW x \in 1..N PROVE s[x] = places[x]
    <3>1. PICK j \in 1..n : \E k \in 1..Len(seqs[j]) : x = d[j - 1] + k
      BY <2>3, <2>7 DEF Flat
    <3>2. PICK k \in 1..Len(seqs[j]) : x = d[j - 1] + k
      BY <3>1
    <3>3. s[x] = seqs[j][k]
      BY <2>7, <3>2 DEF Flat
    <3>4. k \in 1..end(j) - first[j]
      BY <1>12
    <3>5. seqs[j][k] = places[first[j]] + k - 1
      BY <1>11, <3>4
    <3>6. x = first[j] + k - 1
      BY <1>6, <2>4, <3>2
    <3> QED BY <1>9, <3>3, <3>4, <3>5, <3>6
  <2>10. s = places
    BY <1>1, <2>8, <2>9
  <2> QED BY <1>13, <2>10 DEF s, runs
<1> QED BY <1>14, <1>15

-----------------------------------------------------------------------------
(* What the colorings come to, as functions of the mesh and its partition *)

(* ClosureColoring *)

\* The color of a vertex: the lowest that owns a cell with it.
VertexColor(v) == Smallest({part[c] : c \in Referencers(v)})
OwnVerts(r)    == {v \in EntityClosure(r) : VertexColor(v) = r}
Needs(r, q)    == IF q = r THEN {} ELSE {v \in EntityClosure(r) : VertexColor(v) = q}
HolderColors(r, v)  == {q \in Colors \ {r} : v \in EntityClosure(q)}

NearUsers(r, c) == {q \in Colors \ {r} : c \in Nearest(q)}
NearUserMap(r)  == [c \in Primary(r) |-> NearUsers(r, c)]
NearMeets(r) == [q \in Colors \ {r} |-> Nearest(q) \cap Nearest(r)]
KnownCells(S) == {Entity(c, part[c], OffsetOf(part[c], c), {}) : c \in S}
NearCells(r) == KnownCells(Nearest(r))
OwnVertices0(r) == {Entity(v, r, Position(v, OwnVerts(r)), HolderColors(r, v)) : v \in OwnVerts(r)}
NeedMap(r)  == [q \in Colors |-> Needs(r, q)]
NeedCounts(r)  == [q \in Colors |-> Cardinality(Needs(r, q))]
CountsFor(r)   == [q \in Colors |-> Cardinality(Needs(q, r))]
AnswersTo(r, q, list) == [i \in DOMAIN list |->
    IF q # r /\ list[i] \in Primary(r) THEN OffsetOf(r, list[i]) ELSE None]

ClosureCells(r) ==
    [exclusive |-> {Entity(c, r, OffsetOf(r, c), {}) :
                       c \in {x \in Primary(r) : NearUsers(r, x) = {}}},
     shared    |-> {Entity(c, r, OffsetOf(r, c), NearUsers(r, c)) :
                       c \in {x \in Primary(r) : NearUsers(r, x) # {}}},
     ghost     |-> NearCells(r)]
ClosureVertices(r) ==
    [exclusive |-> {e \in OwnVertices0(r) : e.shared = {}},
     shared    |-> {e \in OwnVertices0(r) : e.shared # {}},
     ghost     |-> {Entity(v, VertexColor(v), Position(v, OwnVerts(VertexColor(v))), {}) :
                       v \in {x \in EntityClosure(r) : VertexColor(x) # r}}]

(* DcrsColoring *)

CellsOf(r) == CellsFor(r, r) \o
    FlattenSeq([i \in 1..NumColors |-> IF i - 1 = r THEN <<>> ELSE CellsFor(i - 1, r)])
CellCounts == [q \in Colors |-> Len(CellsOf(q))]
Dist     == Sums(CellCounts)
PlaceOf(x, list) == CHOOSE i \in DOMAIN list : list[i] = x
Index(c) == PlaceOf(c, CellsOf(part[c]))
Id(c)    == Dist[part[c]] + Index(c) - 1
OwnVertexSet(r) == UNION {mesh[c] : c \in Primary(r)}

\* The cells that a set of cells' vertices are in, under their new numbers.
Incidence(S)  == UNION {{<<v, Id(c)>> : v \in mesh[c]} : c \in S}
HomedHere(r)  == HomedAt(r, Incidence(Cells))
HomedFrom(r, q) == IF q = r THEN {} ELSE HomedAt(q, Incidence(Primary(r)))
HomeReply(r, q) == {p \in HomedHere(r) : \E x \in HomedFrom(q, r) : x[1] = p[1]}

Touches(c, d) == c # d /\ Cardinality(mesh[c] \cap mesh[d]) >= MinConnections
CellUsers(c)  == {part[d] : d \in {x \in Cells : Touches(c, x)}} \ {part[c]}
DcrsCells(r) ==
    [exclusive |-> {Entity(Id(c), r, Index(c) - 1, {}) :
                       c \in {x \in Primary(r) : CellUsers(x) = {}}},
     shared    |-> {Entity(Id(c), r, Index(c) - 1, CellUsers(c)) :
                       c \in {x \in Primary(r) : CellUsers(x) # {}}},
     ghost     |-> {Entity(Id(c), part[c], Index(c) - 1, {r}) :
                       c \in {x \in Cells : r \in CellUsers(x)}}]

EdgeKey(e) == Smallest(e) * (1 + Largest(Vertices)) + Largest(e)
EdgesFrom(r) == UNION {kSubset(2, mesh[c]) : c \in Primary(r)}
EdgeList(r, q) ==
    LET edges == {e \in EdgesFrom(r) : Home(Smallest(e)) = q}
    IN OrderedBy(edges, [e \in edges |-> EdgeKey(e)])
EdgesSent(r, q) == IF q = r THEN <<>> ELSE EdgeList(r, q)
Homed(r) == Distinct(EdgeList(r, r) \o
    FlattenSeq([i \in 1..NumColors |-> EdgesSent(i - 1, r)]))
EdgeCounts == [q \in Colors |-> Len(Homed(q))]
EdgeDist   == Sums(EdgeCounts)
EdgeIds(r) == {<<Homed(r)[i], EdgeDist[r] + i - 1>> : i \in DOMAIN Homed(r)}
EdgeIdsTo(r, q) == {p \in EdgeIds(r) : q # r /\ p[1] \in ToSet(EdgesSent(q, r))}
AllEdgeIds(r) == EdgeIds(r) \cup UNION {EdgeIdsTo(q, r) : q \in Colors}

SharedTo(r, q)  == UNION {mesh[c] : c \in {x \in Primary(r) : q # r /\ q \in CellUsers(x)}}
PShared(r) == UNION {mesh[c] : c \in {x \in Primary(r) : CellUsers(x) # {}}}
PGhost(r)  == UNION {mesh[c] : c \in {x \in Cells : r \in CellUsers(x)}}
LocalVerts(r) == Reverse(Ordered(OwnVertexSet(r)))
LocalOffset(r, v) == PlaceOf(v, LocalVerts(r)) - 1
Claim(r, v) == Entity(v, r, LocalOffset(r, v), {})
ClaimsTo(r, q) == {Claim(r, v) : v \in {x \in PShared(r) : Home(x) = q}}
Claimants(v) == {r \in Colors : v \in PShared(r)}
Owner(v) == Smallest(Claimants(v))
Wanting(v) == {q \in Colors : v \in PGhost(q)} \ {Owner(v)}
Claimed  == UNION {PShared(r) : r \in Colors}
Entry(v) == Entity(v, Owner(v), LocalOffset(Owner(v), v), Wanting(v))
HomeOwners(r) == {Claim(Owner(v), v) : v \in {x \in Claimed : Home(x) = r}}
HomeTable(r)  == {Entry(v) : v \in {x \in Claimed : Home(x) = r}}
EntriesTo(r, q) == {e \in HomeTable(r) : q # r /\ (q = e.rank \/ q \in e.shared)}
GhostRequests(r, q) == {v \in PGhost(r) : q # r /\ Home(v) = q}
DcrsVertices(r) ==
    [exclusive |-> {Claim(r, v) : v \in OwnVertexSet(r) \ PShared(r)},
     shared    |-> {Entry(v) : v \in {x \in Claimed : Owner(x) = r}},
     ghost     |-> {[Entry(v) EXCEPT !.shared = {}] :
                       v \in {x \in PGhost(r) : Owner(x) # r}}]
CellVertices(r, q) == {<<Id(c), mesh[c]>> :
    c \in {x \in Primary(r) : q # r /\ q \in CellUsers(x)}}
GhostVertsOf(r) == {<<Id(c), mesh[c]>> : c \in {x \in Cells : r \in CellUsers(x)}}

-----------------------------------------------------------------------------
(* The coloring of each index space, and what the exchange makes of it *)

Col(r, s) ==
    IF scheme = "closure"
    THEN IF s = "cells" THEN ClosureCells(r) ELSE ClosureVertices(r)
    ELSE IF s = "cells" THEN DcrsCells(r) ELSE DcrsVertices(r)

ColSizes(r) == [s \in Spaces |-> Sizes(Col(r, s))]

SharedIds(r, s) == IdsOf(Col(r, s).shared)
Renumbered(r, s) == {[e EXCEPT !.offset = Position(e.id, SharedIds(r, s))] :
                        e \in Col(r, s).shared}
Located(r, s) == {Entity(g.id, g.rank, Position(g.id, SharedIds(g.rank, s)), {}) :
                        g \in Col(r, s).ghost}

\* The shared entities of q that r has as ghosts, in order.
UsersOf(q, s) == UNION {e.shared : e \in Col(q, s).shared}
Traded(q, r, s) == Ordered(IdsOf({e \in Col(q, s).shared : r \in e.shared}))
Numbers(q, r, s) == [k \in DOMAIN Traded(q, r, s) |->
                        Position(Traded(q, r, s)[k], SharedIds(q, s))]

Local(r, s) == Ids(Col(r, s).exclusive) \o Ids(Col(r, s).shared) \o Ids(Col(r, s).ghost)
Held0(r, s) == Cardinality(Col(r, s).exclusive) + Cardinality(Col(r, s).shared)
Written(r, s) == [i \in DOMAIN Local(r, s) |->
                     IF i <= Held0(r, s) THEN Local(r, s)[i] ELSE None]

-----------------------------------------------------------------------------
(* The stage a color is at *)

StageOf(at, s) ==
    LET later == IF s = "cells" THEN 0 ELSE 1 IN
    CASE at = "intersection" -> 0 [] at = "nn_requests" -> 1 [] at = "nn_answers" -> 2
      [] at = "all_requests" -> 3 [] at = "all_answers" -> 4 [] at = "request_counts" -> 5
      [] at = "requests" -> 6 [] at = "answers" -> 7
      [] at = "migrate" -> 8 [] at = "sizes" -> 9 [] at = "to_homes" -> 10
      [] at = "from_homes" -> 11 [] at = "edge_homes" -> 12 [] at = "edge_counts" -> 13
      [] at = "edge_ids" -> 14 [] at = "shared_cells" -> 15 [] at = "claims" -> 16
      [] at = "ghost_requests" -> 17 [] at = "owners" -> 18 [] at = "connectivity" -> 19
      [] at = "info" -> 20 [] at = "colored" -> 21
      [] at = "renumber" -> 22 + 2 * later [] at = "collect" -> 23 + 2 * later
      [] at = "map" -> 26
      [] at = "send_entities" -> 27 + 2 * later [] at = "get_entities" -> 28 + 2 * later
      [] at = "send_rows" -> 31 + 2 * later [] at = "get_rows" -> 32 + 2 * later
      [] at = "done" -> 35
      [] OTHER -> 99
Stage(r) == StageOf(pc[r], space[r])

ColoringStages == IF scheme = "closure" THEN 0..7 ELSE 8..19
Stages == ColoringStages \cup 20..35
Looping == {"renumber", "collect", "send_entities", "get_entities", "send_rows", "get_rows"}

\* The collectives a color has called at a stage, and what it gave to each.
Calls(n) == IF scheme = "closure" THEN IF n <= 5 THEN n + 1 ELSE IF n <= 7 THEN 6 ELSE 7
                                  ELSE IF n <= 19 THEN n - 7 ELSE 13
ClosureGives(r, k) ==
    CASE k = 1 -> Ordered(Nearest(r))
      [] k = 2 -> Ordered(Nearest(r))
      [] k = 3 -> [q \in Colors |-> AnswersTo(r, q, Ordered(Nearest(q)))]
      [] k = 4 -> Ordered(AllNeighbors(r))
      [] k = 5 -> [q \in Colors |-> AnswersTo(r, q, Ordered(AllNeighbors(q)))]
      [] k = 6 -> NeedCounts(r)
      [] k = 7 -> ColSizes(r)
DcrsGives(r, k) ==
    CASE k = 1 -> DcrsStart(r)
      [] k = 2 -> Len(CellsOf(r))
      [] k = 3 -> [q \in Colors |-> HomedFrom(r, q)]
      [] k = 4 -> [q \in Colors |-> HomeReply(r, q)]
      [] k = 5 -> [q \in Colors |-> EdgesSent(r, q)]
      [] k = 6 -> Len(Homed(r))
      [] k = 7 -> [q \in Colors |-> EdgeIdsTo(r, q)]
      [] k = 8 -> [q \in Colors |-> SharedTo(r, q)]
      [] k = 9 -> [q \in Colors |-> IF q = r THEN {} ELSE ClaimsTo(r, q)]
      [] k = 10 -> [q \in Colors |-> GhostRequests(r, q)]
      [] k = 11 -> [q \in Colors |-> EntriesTo(r, q)]
      [] k = 12 -> [q \in Colors |-> CellVertices(r, q)]
      [] k = 13 -> ColSizes(r)
Gives(r, k) == IF scheme = "closure" THEN ClosureGives(r, k) ELSE DcrsGives(r, k)

\* A color knows a value under a name.
Knows(r, name, val) == name \in DOMAIN mine[r] /\ mine[r][name] = val

ClosureKnows(r, n) ==
    /\ n > 0 => Knows(r, "intersections", NearMeets(r))
    /\ n > 1 => Knows(r, "users", NearUserMap(r))
    /\ n > 2 => Knows(r, "nearest", NearCells(r))
    /\ n > 4 => Knows(r, "vertices", OwnVertices0(r)) /\ Knows(r, "requests", NeedMap(r))
    /\ n > 5 => Knows(r, "counts", CountsFor(r))

DcrsKnows(r, n) ==
    /\ n > 8 => Knows(r, "cells", CellsOf(r))
    /\ n > 9 => Knows(r, "dist", Dist)
    /\ n = 10 => Knows(r, "incidence", Incidence(Primary(r)))
    /\ n > 10 => Knows(r, "incidence", Incidence(Primary(r)) \cup HomedHere(r))
    /\ n > 11 => Knows(r, "cellColoring", DcrsCells(r))
    /\ n > 12 => /\ Knows(r, "homed", Homed(r))
                /\ Knows(r, "senders", [q \in Colors |-> ToSet(EdgesSent(q, r))])
    /\ n = 14 => Knows(r, "edgeIds", EdgeIds(r))
    /\ n > 14 => Knows(r, "edgeIds", AllEdgeIds(r))
    /\ n > 15 => Knows(r, "potentialGhost", PGhost(r))
    /\ n = 17 => Knows(r, "owners", HomeOwners(r))
    /\ n > 17 => Knows(r, "owners", HomeTable(r))
    /\ n > 18 => Knows(r, "vertexColoring", DcrsVertices(r))
    /\ n > 19 => Knows(r, "ghostCells", GhostVertsOf(r))

ColoredAs(r, n) == [s \in Spaces |->
    LET done == IF s = "cells" THEN 22 ELSE 24 IN
    IF n < 20 THEN NoColoring
    ELSE [exclusive |-> Col(r, s).exclusive,
          shared |-> IF n > done THEN Renumbered(r, s) ELSE Col(r, s).shared,
          ghost |-> IF n > done + 1 THEN Located(r, s) ELSE Col(r, s).ghost]]

Holds(r, s, n, after) == IF n > after THEN Local(r, s) ELSE Written(r, s)

-----------------------------------------------------------------------------
(* The invariant *)

KnowsAll(r, n) == /\ scheme = "closure" => ClosureKnows(r, n)
                  /\ scheme = "dcrs" => DcrsKnows(r, n)
InfoAt(n) == IF n > 20
             THEN [s \in Spaces |-> [q \in Colors |->
                      [sizes |-> Sizes(Col(q, s)), shared_users |-> {}, ghost_owners |-> {}]]]
             ELSE <<>>
\* What r's slots hold when an exchange is behind them, from stage n on.
Exchanged(r, n, after) == [s \in Spaces |->
    Holds(r, s, n, IF s = "cells" THEN after ELSE after + 2)]

\* A color is at a stage, and has what the stages before it give.
Situated(r, n) ==
    /\ n \in Stages
    /\ space[r] \in Spaces
    /\ pc[r] \notin Looping => space[r] = "cells"
    /\ posted[r] = [k \in 1..Calls(n) |-> Gives(r, k)]
    /\ KnowsAll(r, n)
    /\ coloring[r] = ColoredAs(r, n)
    /\ info[r] = InfoAt(n)
    /\ n > 26 => /\ indexMap[r] = [s \in Spaces |-> Local(r, s)]
                 /\ ents[r] = Exchanged(r, n, 28)
                 /\ rows[r] = Exchanged(r, n, 32)
At(r) == Situated(r, Stage(r))

\* The messages from q to r, in the order in which they are sent: the stages at
\* which they are sent and received, whether there is one, and what it says.
SentAt == <<5, 6, 22, 24, 27, 29, 31, 33>>
TakenAt == <<6, 7, 23, 25, 28, 30, 32, 34>>
SpaceOf(k) == IF k \in {3, 5, 7} THEN "cells" ELSE "vertices"
Talks(k, q, r) ==
    CASE k = 1 -> scheme = "closure" /\ Needs(q, r) # {}
      [] k = 2 -> scheme = "closure" /\ Needs(r, q) # {}
      [] k > 2 -> r \in UsersOf(q, SpaceOf(k))
Says(k, q, r) ==
    CASE k = 1 -> Ordered(Needs(q, r))
      [] k = 2 -> [i \in DOMAIN Ordered(Needs(r, q)) |->
                      Position(Ordered(Needs(r, q))[i], OwnVerts(q))]
      [] k \in {3, 4} -> Numbers(q, r, SpaceOf(k))
      [] k > 4 -> Traded(q, r, SpaceOf(k))
Pending(q, r) == {k \in 1..8 : Talks(k, q, r) /\ Stage(q) > SentAt[k] /\ Stage(r) <= TakenAt[k]}
InTurn(P, said) == [i \in DOMAIN Ordered(P) |-> said[Ordered(P)[i]]]
Says8(q, r) == [k \in 1..8 |-> Says(k, q, r)]
Messages == [q \in Colors |-> [r \in Colors |-> InTurn(Pending(q, r), Says8(q, r))]]

\* Nothing is taken before it is sent.
NothingEarly == \A p, q \in Colors : \A k \in 1..8 :
    Talks(k, p, q) /\ Stage(q) > TakenAt[k] => Stage(p) > SentAt[k]

Given ==
    /\ mesh \in Meshes
    /\ part \in [Cells -> Colors]
    /\ scheme \in {"closure", "dcrs"}
    /\ scheme = "dcrs" => \A r \in Colors : \E c \in Cells : part[c] = r

\* Every color has its own.
Shapes ==
    /\ pc = [r \in Colors |-> pc[r]] /\ space = [r \in Colors |-> space[r]]
    /\ posted = [r \in Colors |-> posted[r]] /\ mine = [r \in Colors |-> mine[r]]
    /\ coloring = [r \in Colors |-> coloring[r]] /\ info = [r \in Colors |-> info[r]]
    /\ indexMap = [r \in Colors |-> indexMap[r]] /\ rows = [r \in Colors |-> rows[r]]
    /\ ents = [r \in Colors |-> ents[r]]

\* Nobody is past the last collective before everybody is at it.
Together == \A q, r \in Colors : Stage(q) > 20 => Stage(r) >= 20

IInv ==
    /\ Given
    /\ Shapes
    /\ \A r \in Colors : At(r)
    /\ wire = Messages
    /\ NothingEarly
    /\ Together

-----------------------------------------------------------------------------
(* What depends on the mesh and its partition alone stays *)

Frozen == mesh' = mesh /\ part' = part /\ scheme' = scheme

\* What ClosureColoring works out from the mesh stays.
LEMMA MeshStays ==
    ASSUME Frozen
    PROVE  /\ Cells' = Cells /\ Vertices' = Vertices
           /\ \A v : Referencers(v)' = Referencers(v)
           /\ \A r : Primary(r)' = Primary(r)
           /\ \A S : EntityNeighbors(S)' = EntityNeighbors(S)
           /\ \A r : Closure(r)' = Closure(r)
           /\ \A r : Nearest(r)' = Nearest(r)
           /\ \A r : AllNeighbors(r)' = AllNeighbors(r)
           /\ \A r : EntityClosure(r)' = EntityClosure(r)
           /\ \A r, c : OffsetOf(r, c)' = OffsetOf(r, c)
<1>1. Cells' = Cells
  BY DEF Frozen, Cells
<1>2. Vertices' = Vertices
  BY <1>1 DEF Frozen, Vertices
<1>3. \A v : Referencers(v)' = Referencers(v)
  BY <1>1 DEF Frozen, Referencers
<1>4. \A r : Primary(r)' = Primary(r)
  BY <1>1 DEF Frozen, Primary
<1>5. \A S : EntityNeighbors(S)' = EntityNeighbors(S)
  BY <1>1 DEF Frozen, EntityNeighbors
<1>6. \A r : Closure(r)' = Closure(r)
  BY <1>4, <1>5 DEF Closure
<1>7. \A r : Nearest(r)' = Nearest(r)
  BY <1>4, <1>6 DEF Nearest
<1>8. \A r : AllNeighbors(r)' = AllNeighbors(r)
  BY <1>5, <1>6, <1>7 DEF AllNeighbors, NextNearest
<1>9. \A r : EntityClosure(r)' = EntityClosure(r)
  BY <1>6 DEF Frozen, EntityClosure
<1>10. \A r, c : OffsetOf(r, c)' = OffsetOf(r, c)
  BY <1>4 DEF OffsetOf
<1> QED BY <1>1, <1>2, <1>3, <1>4, <1>5, <1>6, <1>7, <1>8, <1>9, <1>10

\* So do the values a color has in ClosureColoring,
LEMMA ClosureStays ==
    ASSUME Frozen
    PROVE  /\ \A v : VertexColor(v)' = VertexColor(v)
           /\ \A r : OwnVerts(r)' = OwnVerts(r)
           /\ \A r, q : Needs(r, q)' = Needs(r, q)
           /\ \A r, v : HolderColors(r, v)' = HolderColors(r, v)
           /\ \A r, c : NearUsers(r, c)' = NearUsers(r, c)
           /\ \A r : NearUserMap(r)' = NearUserMap(r)
           /\ \A r : NearMeets(r)' = NearMeets(r)
           /\ \A r : NearCells(r)' = NearCells(r)
           /\ \A r : OwnVertices0(r)' = OwnVertices0(r)
           /\ \A r : NeedMap(r)' = NeedMap(r)
           /\ \A r : NeedCounts(r)' = NeedCounts(r)
           /\ \A r : CountsFor(r)' = CountsFor(r)
           /\ \A r, q, list : AnswersTo(r, q, list)' = AnswersTo(r, q, list)
           /\ \A r : ClosureCells(r)' = ClosureCells(r)
           /\ \A r : ClosureVertices(r)' = ClosureVertices(r)
<1>1. \A v : VertexColor(v)' = VertexColor(v)
  BY MeshStays DEF Frozen, VertexColor
<1>2. \A r : OwnVerts(r)' = OwnVerts(r)
  BY MeshStays, <1>1 DEF Frozen, OwnVerts
<1>3. \A r, q : Needs(r, q)' = Needs(r, q)
  BY MeshStays, <1>1 DEF Frozen, Needs
<1>4. \A r, v : HolderColors(r, v)' = HolderColors(r, v)
  BY MeshStays DEF Frozen, HolderColors
<1>5. \A r, c : NearUsers(r, c)' = NearUsers(r, c)
  BY MeshStays DEF Frozen, NearUsers
<1>6. \A r : NearUserMap(r)' = NearUserMap(r)
  BY MeshStays, <1>5 DEF Frozen, NearUserMap
<1>7. \A r : NearMeets(r)' = NearMeets(r)
  BY MeshStays DEF Frozen, NearMeets
<1>8. \A r : NearCells(r)' = NearCells(r)
  BY MeshStays DEF Frozen, NearCells, KnownCells
<1>9. \A r : OwnVertices0(r)' = OwnVertices0(r)
  BY <1>2, <1>4 DEF Frozen, OwnVertices0
<1>10. \A r : NeedMap(r)' = NeedMap(r)
  BY <1>3 DEF Frozen, NeedMap
<1>11. \A r : NeedCounts(r)' = NeedCounts(r)
  BY <1>3 DEF Frozen, NeedCounts
<1>12. \A r : CountsFor(r)' = CountsFor(r)
  BY <1>3 DEF Frozen, CountsFor
<1>13. \A r, q, list : AnswersTo(r, q, list)' = AnswersTo(r, q, list)
  BY MeshStays DEF Frozen, AnswersTo
<1>14. \A r : ClosureCells(r)' = ClosureCells(r)
  <2> TAKE r
  <2>1. ({Entity(c, r, OffsetOf(r, c), {}) : c \in {x \in Primary(r) : NearUsers(r, x) = {}}})'
       = {Entity(c, r, OffsetOf(r, c), {}) : c \in {x \in Primary(r) : NearUsers(r, x) = {}}}
    BY MeshStays, <1>5, <1>8 DEF Frozen
  <2>2. ({Entity(c, r, OffsetOf(r, c), NearUsers(r, c)) : c \in {x \in Primary(r) : NearUsers(r, x) # {}}})'
       = {Entity(c, r, OffsetOf(r, c), NearUsers(r, c)) : c \in {x \in Primary(r) : NearUsers(r, x) # {}}}
    BY MeshStays, <1>5, <1>8 DEF Frozen
  <2>3. (NearCells(r))'
       = NearCells(r)
    BY MeshStays, <1>5, <1>8 DEF Frozen
  <2> QED BY ONLY <2>1, <2>2, <2>3 DEF ClosureCells
<1>15. \A r : ClosureVertices(r)' = ClosureVertices(r)
  <2> TAKE r
  <2>1. ({e \in OwnVertices0(r) : e.shared = {}})'
       = {e \in OwnVertices0(r) : e.shared = {}}
    BY MeshStays, <1>9, <1>1, <1>2 DEF Frozen
  <2>2. ({e \in OwnVertices0(r) : e.shared # {}})'
       = {e \in OwnVertices0(r) : e.shared # {}}
    BY MeshStays, <1>9, <1>1, <1>2 DEF Frozen
  <2>3. ({Entity(v, VertexColor(v), Position(v, OwnVerts(VertexColor(v))), {}) : v \in {x \in EntityClosure(r) : VertexColor(x) # r}})'
       = {Entity(v, VertexColor(v), Position(v, OwnVerts(VertexColor(v))), {}) : v \in {x \in EntityClosure(r) : VertexColor(x) # r}}
    BY MeshStays, <1>9, <1>1, <1>2 DEF Frozen
  <2> QED BY ONLY <2>1, <2>2, <2>3 DEF ClosureVertices
<1> QED BY <1>1, <1>2, <1>3, <1>4, <1>5, <1>6, <1>7, <1>8, <1>9, <1>10, <1>11, <1>12, <1>13, <1>14, <1>15

\* in DcrsColoring,
LEMMA DcrsStays ==
    ASSUME Frozen
    PROVE  /\ \A r : NaiveCells(r)' = NaiveCells(r)
           /\ \A r, q : CellsFor(r, q)' = CellsFor(r, q)
           /\ \A r : DcrsStart(r)' = DcrsStart(r)
           /\ \A r : CellsOf(r)' = CellsOf(r)
           /\ CellCounts' = CellCounts
           /\ Dist' = Dist
           /\ \A c : Index(c)' = Index(c)
           /\ \A c : Id(c)' = Id(c)
           /\ \A r : OwnVertexSet(r)' = OwnVertexSet(r)
           /\ \A v : Home(v)' = Home(v)
           /\ \A q, S : HomedAt(q, S)' = HomedAt(q, S)
           /\ \A S : Incidence(S)' = Incidence(S)
           /\ \A r : HomedHere(r)' = HomedHere(r)
           /\ \A r, q : HomedFrom(r, q)' = HomedFrom(r, q)
           /\ \A r, q : HomeReply(r, q)' = HomeReply(r, q)
           /\ \A c, d : Touches(c, d)' = Touches(c, d)
           /\ \A c : CellUsers(c)' = CellUsers(c)
           /\ \A r : DcrsCells(r)' = DcrsCells(r)
           /\ \A e : EdgeKey(e)' = EdgeKey(e)
           /\ \A r : EdgesFrom(r)' = EdgesFrom(r)
           /\ \A r, q : EdgeList(r, q)' = EdgeList(r, q)
           /\ \A r, q : EdgesSent(r, q)' = EdgesSent(r, q)
           /\ \A r : Homed(r)' = Homed(r)
           /\ EdgeCounts' = EdgeCounts
           /\ EdgeDist' = EdgeDist
           /\ \A r : EdgeIds(r)' = EdgeIds(r)
           /\ \A r, q : EdgeIdsTo(r, q)' = EdgeIdsTo(r, q)
           /\ \A r : AllEdgeIds(r)' = AllEdgeIds(r)
           /\ \A r, q : SharedTo(r, q)' = SharedTo(r, q)
           /\ \A r : PShared(r)' = PShared(r)
           /\ \A r : PGhost(r)' = PGhost(r)
           /\ \A r : LocalVerts(r)' = LocalVerts(r)
           /\ \A r, v : LocalOffset(r, v)' = LocalOffset(r, v)
           /\ \A r, v : Claim(r, v)' = Claim(r, v)
           /\ \A r, q : ClaimsTo(r, q)' = ClaimsTo(r, q)
           /\ \A v : Claimants(v)' = Claimants(v)
           /\ \A v : Owner(v)' = Owner(v)
           /\ \A v : Wanting(v)' = Wanting(v)
           /\ Claimed' = Claimed
           /\ \A v : Entry(v)' = Entry(v)
           /\ \A r : HomeOwners(r)' = HomeOwners(r)
           /\ \A r : HomeTable(r)' = HomeTable(r)
           /\ \A r, q : EntriesTo(r, q)' = EntriesTo(r, q)
           /\ \A r, q : GhostRequests(r, q)' = GhostRequests(r, q)
           /\ \A r : DcrsVertices(r)' = DcrsVertices(r)
           /\ \A r, q : CellVertices(r, q)' = CellVertices(r, q)
           /\ \A r : GhostVertsOf(r)' = GhostVertsOf(r)
<1>1. \A r : NaiveCells(r)' = NaiveCells(r)
  BY MeshStays DEF Frozen, NaiveCells
<1>2. \A r, q : CellsFor(r, q)' = CellsFor(r, q)
  BY <1>1 DEF Frozen, CellsFor
<1>3. \A r : DcrsStart(r)' = DcrsStart(r)
  BY <1>2 DEF Frozen, DcrsStart
<1>4. \A r : CellsOf(r)' = CellsOf(r)
  BY <1>2 DEF Frozen, CellsOf
<1>5. CellCounts' = CellCounts
  BY <1>4 DEF Frozen, CellCounts
<1>6. Dist' = Dist
  BY <1>5 DEF Frozen, Dist
<1>7. \A c : Index(c)' = Index(c)
  BY <1>4 DEF Frozen, Index
<1>8. \A c : Id(c)' = Id(c)
  BY <1>6, <1>7 DEF Frozen, Id
<1>9. \A r : OwnVertexSet(r)' = OwnVertexSet(r)
  BY MeshStays DEF Frozen, OwnVertexSet
<1>10. \A v : Home(v)' = Home(v)
  BY MeshStays DEF Frozen, Home
<1>11. \A q, S : HomedAt(q, S)' = HomedAt(q, S)
  BY <1>10 DEF Frozen, HomedAt
<1>12. \A S : Incidence(S)' = Incidence(S)
  BY <1>8 DEF Frozen, Incidence
<1>13. \A r : HomedHere(r)' = HomedHere(r)
  BY MeshStays, <1>11, <1>12 DEF Frozen, HomedHere
<1>14. \A r, q : HomedFrom(r, q)' = HomedFrom(r, q)
  BY MeshStays, <1>11, <1>12 DEF Frozen, HomedFrom
<1>15. \A r, q : HomeReply(r, q)' = HomeReply(r, q)
  BY <1>13, <1>14 DEF Frozen, HomeReply
<1>16. \A c, d : Touches(c, d)' = Touches(c, d)
  BY DEF Frozen, Touches
<1>17. \A c : CellUsers(c)' = CellUsers(c)
  BY MeshStays, <1>16 DEF Frozen, CellUsers
<1>18. \A r : DcrsCells(r)' = DcrsCells(r)
  <2> TAKE r
  <2>1. ({Entity(Id(c), r, Index(c) - 1, {}) : c \in {x \in Primary(r) : CellUsers(x) = {}}})'
       = {Entity(Id(c), r, Index(c) - 1, {}) : c \in {x \in Primary(r) : CellUsers(x) = {}}}
    BY MeshStays, <1>8, <1>7, <1>17 DEF Frozen
  <2>2. ({Entity(Id(c), r, Index(c) - 1, CellUsers(c)) : c \in {x \in Primary(r) : CellUsers(x) # {}}})'
       = {Entity(Id(c), r, Index(c) - 1, CellUsers(c)) : c \in {x \in Primary(r) : CellUsers(x) # {}}}
    BY MeshStays, <1>8, <1>7, <1>17 DEF Frozen
  <2>3. ({Entity(Id(c), part[c], Index(c) - 1, {r}) : c \in {x \in Cells : r \in CellUsers(x)}})'
       = {Entity(Id(c), part[c], Index(c) - 1, {r}) : c \in {x \in Cells : r \in CellUsers(x)}}
    BY MeshStays, <1>8, <1>7, <1>17 DEF Frozen
  <2> QED BY ONLY <2>1, <2>2, <2>3 DEF DcrsCells
<1>19. \A e : EdgeKey(e)' = EdgeKey(e)
  BY MeshStays DEF Frozen, EdgeKey
<1>20. \A r : EdgesFrom(r)' = EdgesFrom(r)
  BY MeshStays DEF Frozen, EdgesFrom
<1>21. \A r, q : EdgeList(r, q)' = EdgeList(r, q)
  BY <1>20, <1>10, <1>19 DEF Frozen, EdgeList
<1>22. \A r, q : EdgesSent(r, q)' = EdgesSent(r, q)
  BY <1>21 DEF Frozen, EdgesSent
<1>23. \A r : Homed(r)' = Homed(r)
  BY <1>21, <1>22 DEF Frozen, Homed
<1>24. EdgeCounts' = EdgeCounts
  BY <1>23 DEF Frozen, EdgeCounts
<1>25. EdgeDist' = EdgeDist
  BY <1>24 DEF Frozen, EdgeDist
<1>26. \A r : EdgeIds(r)' = EdgeIds(r)
  BY <1>23, <1>25 DEF Frozen, EdgeIds
<1>27. \A r, q : EdgeIdsTo(r, q)' = EdgeIdsTo(r, q)
  BY <1>26, <1>22 DEF Frozen, EdgeIdsTo
<1>28. \A r : AllEdgeIds(r)' = AllEdgeIds(r)
  BY <1>26, <1>27 DEF Frozen, AllEdgeIds
<1>29. \A r, q : SharedTo(r, q)' = SharedTo(r, q)
  BY MeshStays, <1>17 DEF Frozen, SharedTo
<1>30. \A r : PShared(r)' = PShared(r)
  BY MeshStays, <1>17 DEF Frozen, PShared
<1>31. \A r : PGhost(r)' = PGhost(r)
  BY MeshStays, <1>17 DEF Frozen, PGhost
<1>32. \A r : LocalVerts(r)' = LocalVerts(r)
  BY <1>9 DEF Frozen, LocalVerts
<1>33. \A r, v : LocalOffset(r, v)' = LocalOffset(r, v)
  BY <1>32 DEF Frozen, LocalOffset
<1>34. \A r, v : Claim(r, v)' = Claim(r, v)
  BY <1>33 DEF Frozen, Claim
<1>35. \A r, q : ClaimsTo(r, q)' = ClaimsTo(r, q)
  BY <1>34, <1>30, <1>10 DEF Frozen, ClaimsTo
<1>36. \A v : Claimants(v)' = Claimants(v)
  BY <1>30 DEF Frozen, Claimants
<1>37. \A v : Owner(v)' = Owner(v)
  BY <1>36 DEF Frozen, Owner
<1>38. \A v : Wanting(v)' = Wanting(v)
  BY <1>31, <1>37 DEF Frozen, Wanting
<1>39. Claimed' = Claimed
  BY <1>30 DEF Frozen, Claimed
<1>40. \A v : Entry(v)' = Entry(v)
  BY <1>37, <1>33, <1>38 DEF Frozen, Entry
<1>41. \A r : HomeOwners(r)' = HomeOwners(r)
  BY <1>34, <1>37, <1>39, <1>10 DEF Frozen, HomeOwners
<1>42. \A r : HomeTable(r)' = HomeTable(r)
  BY <1>40, <1>39, <1>10 DEF Frozen, HomeTable
<1>43. \A r, q : EntriesTo(r, q)' = EntriesTo(r, q)
  BY <1>42 DEF Frozen, EntriesTo
<1>44. \A r, q : GhostRequests(r, q)' = GhostRequests(r, q)
  BY <1>31, <1>10 DEF Frozen, GhostRequests
<1>45. \A r : DcrsVertices(r)' = DcrsVertices(r)
  BY <1>34, <1>9, <1>30, <1>40, <1>39, <1>37, <1>31 DEF Frozen, DcrsVertices
<1>46. \A r, q : CellVertices(r, q)' = CellVertices(r, q)
  BY MeshStays, <1>8, <1>17 DEF Frozen, CellVertices
<1>47. \A r : GhostVertsOf(r)' = GhostVertsOf(r)
  BY MeshStays, <1>8, <1>17 DEF Frozen, GhostVertsOf
<1> QED BY <1>1, <1>2, <1>3, <1>4, <1>5, <1>6, <1>7, <1>8, <1>9, <1>10, <1>11, <1>12, <1>13, <1>14, <1>15, <1>16, <1>17, <1>18, <1>19, <1>20, <1>21, <1>22, <1>23, <1>24, <1>25, <1>26, <1>27, <1>28, <1>29, <1>30, <1>31, <1>32, <1>33, <1>34, <1>35, <1>36, <1>37, <1>38, <1>39, <1>40, <1>41, <1>42, <1>43, <1>44, <1>45, <1>46, <1>47

\* and in the exchange.
LEMMA ExchangeStays ==
    ASSUME Frozen
    PROVE  /\ \A r, s : Col(r, s)' = Col(r, s)
           /\ \A r : ColSizes(r)' = ColSizes(r)
           /\ \A r, s : SharedIds(r, s)' = SharedIds(r, s)
           /\ \A r, s : Renumbered(r, s)' = Renumbered(r, s)
           /\ \A r, s : Located(r, s)' = Located(r, s)
           /\ \A r, s : UsersOf(r, s)' = UsersOf(r, s)
           /\ \A q, r, s : Traded(q, r, s)' = Traded(q, r, s)
           /\ \A q, r, s : Numbers(q, r, s)' = Numbers(q, r, s)
           /\ \A r, s : Local(r, s)' = Local(r, s)
           /\ \A r, s : Held0(r, s)' = Held0(r, s)
           /\ \A r, s : Written(r, s)' = Written(r, s)
           /\ \A r, k : ClosureGives(r, k)' = ClosureGives(r, k)
           /\ \A r, k : DcrsGives(r, k)' = DcrsGives(r, k)
           /\ \A r, k : Gives(r, k)' = Gives(r, k)
           /\ \A n : Calls(n)' = Calls(n)
           /\ Stages' = Stages
           /\ \A r, n : ColoredAs(r, n)' = ColoredAs(r, n)
           /\ \A r, s, n, after : Holds(r, s, n, after)' = Holds(r, s, n, after)
           /\ \A k, q, r : Talks(k, q, r)' = Talks(k, q, r)
           /\ \A k, q, r : Says(k, q, r)' = Says(k, q, r)
<1>1. \A r, s : Col(r, s)' = Col(r, s)
  BY ClosureStays, DcrsStays DEF Frozen, Col
<1>2. \A r : ColSizes(r)' = ColSizes(r)
  BY <1>1 DEF Frozen, ColSizes
<1>3. \A r, s : SharedIds(r, s)' = SharedIds(r, s)
  BY <1>1 DEF Frozen, SharedIds
<1>4. \A r, s : Renumbered(r, s)' = Renumbered(r, s)
  BY <1>1, <1>3 DEF Frozen, Renumbered
<1>5. \A r, s : Located(r, s)' = Located(r, s)
  BY <1>1, <1>3 DEF Frozen, Located
<1>6. \A r, s : UsersOf(r, s)' = UsersOf(r, s)
  BY <1>1 DEF Frozen, UsersOf
<1>7. \A q, r, s : Traded(q, r, s)' = Traded(q, r, s)
  BY <1>1 DEF Frozen, Traded
<1>8. \A q, r, s : Numbers(q, r, s)' = Numbers(q, r, s)
  BY <1>7, <1>3 DEF Frozen, Numbers
<1>9. \A r, s : Local(r, s)' = Local(r, s)
  BY <1>1 DEF Frozen, Local
<1>10. \A r, s : Held0(r, s)' = Held0(r, s)
  BY <1>1 DEF Frozen, Held0
<1>11. \A r, s : Written(r, s)' = Written(r, s)
  BY <1>9, <1>10 DEF Frozen, Written
<1>12. \A r, k : ClosureGives(r, k)' = ClosureGives(r, k)
  <2> TAKE r
  <2>1. \A q : Ordered(Nearest(q))' = Ordered(Nearest(q))
    BY MeshStays
  <2>2. \A q : Ordered(AllNeighbors(q))' = Ordered(AllNeighbors(q))
    BY MeshStays
  <2>3. [q \in Colors |-> AnswersTo(r, q, Ordered(Nearest(q)))]'
        = [q \in Colors |-> AnswersTo(r, q, Ordered(Nearest(q)))]
    BY MeshStays, <2>1 DEF AnswersTo
  <2>4. [q \in Colors |-> AnswersTo(r, q, Ordered(AllNeighbors(q)))]'
        = [q \in Colors |-> AnswersTo(r, q, Ordered(AllNeighbors(q)))]
    BY MeshStays, <2>2 DEF AnswersTo
  <2>5. NeedCounts(r)' = NeedCounts(r) /\ ColSizes(r)' = ColSizes(r)
    BY ClosureStays, <1>2
  <2> QED BY ONLY <2>1, <2>2, <2>3, <2>4, <2>5 DEF ClosureGives
<1>13. \A r, k : DcrsGives(r, k)' = DcrsGives(r, k)
  BY DcrsStays, <1>2 DEF Frozen, DcrsGives
<1>14. \A r, k : Gives(r, k)' = Gives(r, k)
  BY <1>12, <1>13 DEF Frozen, Gives
<1>15. \A n : Calls(n)' = Calls(n)
  BY DEF Frozen, Calls
<1>16. Stages' = Stages
  BY DEF Frozen, Stages, ColoringStages
<1>17. \A r, n : ColoredAs(r, n)' = ColoredAs(r, n)
  BY <1>1, <1>4, <1>5 DEF Frozen, ColoredAs
<1>18. \A r, s, n, after : Holds(r, s, n, after)' = Holds(r, s, n, after)
  BY <1>9, <1>11 DEF Frozen, Holds
<1>19. \A k, q, r : Talks(k, q, r)' = Talks(k, q, r)
  BY ClosureStays, <1>6 DEF Frozen, Talks
<1>20. \A k, q, r : Says(k, q, r)' = Says(k, q, r)
  BY ClosureStays, <1>8, <1>7 DEF Frozen, Says
<1> QED BY <1>1, <1>2, <1>3, <1>4, <1>5, <1>6, <1>7, <1>8, <1>9, <1>10, <1>11, <1>12, <1>13, <1>14, <1>15, <1>16, <1>17, <1>18, <1>19, <1>20

-----------------------------------------------------------------------------
(* The messages between two colors *)

\* Each kind of message is sent before it is taken, in the order of the kinds.
LEMMA TimesAre ==
    /\ \A k \in 1..8 : SentAt[k] \in Nat /\ TakenAt[k] \in Nat /\ SentAt[k] < TakenAt[k]
    /\ \A j, k \in 1..8 : j < k => SentAt[j] < SentAt[k] /\ TakenAt[j] < TakenAt[k]
    /\ \A j, k \in 1..8 : SentAt[j] = SentAt[k] \/ TakenAt[j] = TakenAt[k] => j = k
<1>0. 1..8 = {1, 2, 3, 4, 5, 6, 7, 8}
  OBVIOUS
<1>1. /\ SentAt[1] = 5 /\ SentAt[2] = 6 /\ SentAt[3] = 22 /\ SentAt[4] = 24
      /\ SentAt[5] = 27 /\ SentAt[6] = 29 /\ SentAt[7] = 31 /\ SentAt[8] = 33
      /\ TakenAt[1] = 6 /\ TakenAt[2] = 7 /\ TakenAt[3] = 23 /\ TakenAt[4] = 25
      /\ TakenAt[5] = 28 /\ TakenAt[6] = 30 /\ TakenAt[7] = 32 /\ TakenAt[8] = 34
  BY DEF SentAt, TakenAt
<1>2. \A k \in 1..8 : SentAt[k] \in Nat /\ TakenAt[k] \in Nat /\ SentAt[k] < TakenAt[k]
  BY <1>0, <1>1
<1>3. \A j, k \in 1..8 : j < k => SentAt[j] < SentAt[k] /\ TakenAt[j] < TakenAt[k]
  BY <1>0, <1>1
<1>4. \A j, k \in 1..8 : SentAt[j] = SentAt[k] \/ TakenAt[j] = TakenAt[k] => j = k
  <2> TAKE j, k \in 1..8
  <2>1. j = k \/ j < k \/ k < j
    OBVIOUS
  <2> QED BY <1>2, <1>3, <2>1
<1> QED BY <1>2, <1>3, <1>4

LEMMA OrderedKinds ==
    ASSUME NEW P \in SUBSET (1..8)
    PROVE  /\ IsFiniteSet(P) /\ P \subseteq Int /\ Cardinality(P) \in Nat
           /\ DOMAIN Ordered(P) = 1..Cardinality(P)
           /\ Ordered(P) = [i \in 1..Cardinality(P) |-> Ordered(P)[i]]
           /\ \A i \in 1..Cardinality(P) : Ordered(P)[i] \in P
           /\ \A i, j \in 1..Cardinality(P) : i < j => Ordered(P)[i] < Ordered(P)[j]
           /\ \A x \in P : \E i \in 1..Cardinality(P) : Ordered(P)[i] = x
           /\ P # {} => Cardinality(P) > 0
<1>1. IsFiniteSet(P) /\ P \subseteq Int
  <2>1. IsFiniteSet(1..8)
    <3>1. 1 \in Int /\ 8 \in Int
      OBVIOUS
    <3> QED BY ONLY <3>1, FS_Interval
  <2>2. \A x \in P : x \in Int
    OBVIOUS
  <2> QED BY <2>1, <2>2, FS_Subset
<1>2. /\ Cardinality(P) \in Nat
      /\ Ordered(P) \in Seq(P) /\ Len(Ordered(P)) = Cardinality(P)
      /\ DOMAIN Ordered(P) = 1..Cardinality(P)
      /\ \A i \in 1..Cardinality(P) : Ordered(P)[i] \in P
      /\ \A i, j \in 1..Cardinality(P) : i < j => Ordered(P)[i] < Ordered(P)[j]
      /\ \A x \in P : Position(x, P) + 1 \in 1..Cardinality(P) /\ Ordered(P)[Position(x, P) + 1] = x
  BY <1>1, OrderedIs
<1>3. P # {} => Cardinality(P) > 0
  <2> SUFFICES ASSUME NEW x \in P PROVE Cardinality(P) > 0
    OBVIOUS
  <2>1. Position(x, P) + 1 \in 1..Cardinality(P)
    BY <1>2
  <2> QED BY <1>2, <2>1
<1>4. Ordered(P) = [i \in 1..Cardinality(P) |-> Ordered(P)[i]]
  BY <1>2
<1> QED BY <1>1, <1>2, <1>3, <1>4

\* A kind later than all that are under way goes to the end of the channel.
LEMMA OneMoreInTurn ==
    ASSUME NEW P \in SUBSET (1..8), NEW k \in 1..8, \A j \in P : j < k, NEW said
    PROVE  InTurn(P \cup {k}, said) = Append(InTurn(P, said), said[k])
<1> DEFINE n == Cardinality(P)
           o == Ordered(P)
           Q == P \cup {k}
           s == [i \in 1..n + 1 |-> IF i = n + 1 THEN k ELSE o[i]]
           t == InTurn(P, said)
<1>1. /\ n \in Nat /\ DOMAIN o = 1..n
      /\ \A i \in 1..n : o[i] \in P
      /\ \A i, j \in 1..n : i < j => o[i] < o[j]
      /\ \A x \in P : \E i \in 1..n : o[i] = x
  BY OrderedKinds
<1> HIDE DEF n, o
<1>2. Q \in SUBSET (1..8) /\ IsFiniteSet(Q) /\ Q \subseteq Int
  <2>1. Q \in SUBSET (1..8)
    OBVIOUS
  <2> HIDE DEF Q
  <2> QED BY <2>1, OrderedKinds
<1>3. \A i \in 1..n + 1 : s[i] \in Q
  BY <1>1
<1>4. \A i, j \in 1..n + 1 : i < j => s[i] < s[j]
  <2> TAKE i, j \in 1..n + 1
  <2>1. CASE j = n + 1
    <3>1. i < j => i \in 1..n
      BY <1>1, <2>1
    <3>2. i < j => o[i] < k
      BY <1>1, <3>1
    <3> QED BY <1>1, <2>1, <3>1, <3>2
  <2>2. CASE j # n + 1
    <3>1. i < j => i \in 1..n /\ j \in 1..n /\ i # n + 1
      BY <1>1, <2>2
    <3> QED BY <1>1, <2>2, <3>1
  <2> QED BY <2>1, <2>2
<1>5. \A x \in Q : \E i \in 1..n + 1 : s[i] = x
  <2> TAKE x \in Q
  <2>1. CASE x = k
    <3>1. n + 1 \in 1..n + 1 /\ s[n + 1] = k
      BY <1>1
    <3> QED BY <2>1, <3>1
  <2>2. CASE x \in P
    <3>1. PICK i \in 1..n : o[i] = x
      BY <1>1, <2>2
    <3>2. i \in 1..n + 1 /\ s[i] = x
      BY <1>1, <3>1
    <3> QED BY <3>2
  <2> QED BY <2>1, <2>2
<1>6. s = Ordered(Q)
  <2>1. s = [i \in 1..n + 1 |-> s[i]] /\ n + 1 \in Nat
    BY <1>1
  <2> HIDE DEF s, Q
  <2>2. Lists(s, n + 1, Q)
    BY <1>2, <1>3, <1>4, <1>5, <2>1 DEF Lists
  <2> QED BY <2>2, OrderedIsOnly
<1>7. InTurn(Q, said) = [i \in 1..n + 1 |-> IF i = n + 1 THEN said[k] ELSE said[o[i]]]
  <2>1. DOMAIN s = 1..n + 1
    OBVIOUS
  <2>2. InTurn(Q, said) = [i \in 1..n + 1 |-> said[s[i]]]
    <3> HIDE DEF s, Q
    <3> QED BY <1>6, <2>1 DEF InTurn
  <2>3. \A i \in 1..n + 1 : said[s[i]] = IF i = n + 1 THEN said[k] ELSE said[o[i]]
    OBVIOUS
  <2> HIDE DEF s, Q
  <2> QED BY <2>2, <2>3
<1>8. t = [i \in 1..n |-> said[o[i]]]
  BY <1>1 DEF InTurn, o
<1> DEFINE V == {said[j] : j \in 1..8}
<1>9. t \in Seq(V) /\ Len(t) = n
  <2>1. \A i \in 1..n : said[o[i]] \in V
    BY <1>1
  <2> HIDE DEF t, V
  <2>2. t \in [1..n -> V]
    BY <1>8, <2>1
  <2> QED BY <1>1, <2>2
<1>10. said[k] \in V
  OBVIOUS
<1> HIDE DEF t, V
<1>11. /\ Append(t, said[k]) \in Seq(V) /\ Len(Append(t, said[k])) = n + 1
       /\ \A i \in 1..n : Append(t, said[k])[i] = t[i]
       /\ Append(t, said[k])[n + 1] = said[k]
  BY <1>1, <1>9, <1>10, AppendProperties
<1>12. Append(t, said[k]) = [i \in 1..n + 1 |-> Append(t, said[k])[i]]
  BY <1>11
<1>13. \A i \in 1..n + 1 : Append(t, said[k])[i] = IF i = n + 1 THEN said[k] ELSE said[o[i]]
  BY <1>1, <1>8, <1>11
<1> HIDE DEF Q
<1> QED BY <1>7, <1>12, <1>13 DEF t, Q

\* The earliest kind under way is at its head.
LEMMA FirstInTurn ==
    ASSUME NEW P \in SUBSET (1..8), NEW k \in P, \A j \in P : k <= j, NEW said
    PROVE  /\ InTurn(P, said) # <<>>
           /\ Head(InTurn(P, said)) = said[k]
           /\ Tail(InTurn(P, said)) = InTurn(P \ {k}, said)
<1> DEFINE n == Cardinality(P)
           o == Ordered(P)
           Q == P \ {k}
           s == [i \in 1..n - 1 |-> o[i + 1]]
           t == InTurn(P, said)
           V == {said[j] : j \in 1..8}
<1>1. /\ n \in Nat /\ DOMAIN o = 1..n /\ n > 0
      /\ \A i \in 1..n : o[i] \in P
      /\ \A i, j \in 1..n : i < j => o[i] < o[j]
      /\ \A x \in P : \E i \in 1..n : o[i] = x
  BY OrderedKinds
<1> HIDE DEF n, o
<1>2. o[1] = k
  <2>1. PICK i \in 1..n : o[i] = k
    BY <1>1
  <2>2. 1 \in 1..n /\ (1 = i \/ 1 < i) /\ o[1] \in P /\ o[i] \in P
    BY <1>1
  <2>3. o[1] \in Int /\ o[i] \in Int
    <3>1. \A x \in P : x \in Int
      OBVIOUS
    <3> QED BY <2>2, <3>1
  <2>4. 1 < i => o[1] < o[i]
    BY <1>1, <2>2
  <2>5. k <= o[1]
    BY <2>2
  <2> QED BY <2>1, <2>2, <2>3, <2>4, <2>5
<1>3. Q \in SUBSET (1..8) /\ IsFiniteSet(Q) /\ Q \subseteq Int
  <2>1. Q \in SUBSET (1..8)
    OBVIOUS
  <2> HIDE DEF Q
  <2> QED BY <2>1, OrderedKinds
<1>4. \A i \in 1..n - 1 : s[i] \in Q
  <2> TAKE i \in 1..n - 1
  <2>1. i + 1 \in 1..n /\ 1 \in 1..n /\ 1 < i + 1
    BY <1>1
  <2>0. \A x \in P : x \in Int
    OBVIOUS
  <2>2. o[i + 1] \in P /\ o[1] \in P /\ o[1] < o[i + 1]
    BY <1>1, <2>1
  <2>3. o[1] \in Int /\ o[i + 1] \in Int
    BY <2>0, <2>2
  <2> QED BY <1>2, <2>2, <2>3
<1>5. \A i, j \in 1..n - 1 : i < j => s[i] < s[j]
  <2> TAKE i, j \in 1..n - 1
  <2>1. i + 1 \in 1..n /\ j + 1 \in 1..n /\ (i < j => i + 1 < j + 1)
    BY <1>1
  <2> QED BY <1>1, <2>1
<1>6. \A x \in Q : \E i \in 1..n - 1 : s[i] = x
  <2> TAKE x \in Q
  <2>1. PICK i \in 1..n : o[i] = x
    BY <1>1
  <2>2. i # 1
    BY <1>2, <2>1
  <2>3. i - 1 \in 1..n - 1 /\ i - 1 + 1 = i
    BY <1>1, <2>2
  <2> QED BY <2>1, <2>3
<1>7. s = Ordered(Q)
  <2>1. s = [i \in 1..n - 1 |-> s[i]] /\ n - 1 \in Nat
    BY <1>1
  <2> HIDE DEF s, Q
  <2>2. Lists(s, n - 1, Q)
    BY <1>3, <1>4, <1>5, <1>6, <2>1 DEF Lists
  <2> QED BY <2>2, OrderedIsOnly
<1>8. InTurn(Q, said) = [i \in 1..n - 1 |-> said[o[i + 1]]]
  <2>1. DOMAIN s = 1..n - 1
    OBVIOUS
  <2>2. InTurn(Q, said) = [i \in 1..n - 1 |-> said[s[i]]]
    <3> HIDE DEF s, Q
    <3> QED BY <1>7, <2>1 DEF InTurn
  <2>3. \A i \in 1..n - 1 : said[s[i]] = said[o[i + 1]]
    OBVIOUS
  <2> HIDE DEF s, Q
  <2> QED BY <2>2, <2>3
<1>9. t = [i \in 1..n |-> said[o[i]]]
  BY <1>1 DEF InTurn, o
<1>10. t \in Seq(V) /\ Len(t) = n
  <2>1. \A i \in 1..n : said[o[i]] \in V
    BY <1>1
  <2> HIDE DEF t, V
  <2>2. t \in [1..n -> V]
    BY <1>9, <2>1
  <2> QED BY <1>1, <2>2
<1> HIDE DEF t, V
<1>11. t # <<>>
  BY <1>1, <1>10
<1>12. Head(t) = said[k]
  <2>1. Head(t) = t[1]
    BY <1>10, <1>11
  <2> QED BY <1>1, <1>2, <1>9, <2>1
<1>13. /\ Tail(t) \in Seq(V) /\ Len(Tail(t)) = n - 1
       /\ \A i \in 1..n - 1 : Tail(t)[i] = t[i + 1]
  BY <1>1, <1>10, <1>11, HeadTailProperties
<1>14. Tail(t) = [i \in 1..n - 1 |-> Tail(t)[i]]
  <2>1. Tail(t) \in [1..Len(Tail(t)) -> V] /\ Len(Tail(t)) = n - 1
    BY <1>13, LenProperties
  <2> QED BY ONLY <2>1
<1>15. \A i \in 1..n - 1 : Tail(t)[i] = said[o[i + 1]]
  <2> TAKE i \in 1..n - 1
  <2>1. i + 1 \in 1..n
    BY <1>1
  <2> QED BY <1>9, <1>13, <2>1
<1> HIDE DEF Q
<1> QED BY <1>8, <1>11, <1>12, <1>14, <1>15 DEF t, Q

LEMMA NoneInTurn ==
    ASSUME NEW said
    PROVE  InTurn({}, said) = <<>>
<1>1. DOMAIN Ordered({}) = {}
  <2>1. {} \in SUBSET (1..8) /\ Cardinality({}) = 0
    BY FS_EmptySet
  <2> QED BY <2>1, OrderedKinds
<1> QED BY <1>1 DEF InTurn

LEMMA PendingKinds ==
    ASSUME NEW q, NEW r
    PROVE  Pending(q, r) \in SUBSET (1..8)
  BY DEF Pending

\* A step with no message in it: from stage a to stage b.
Quiet(a, b) == \A k \in 1..8 : /\ ~(a <= SentAt[k] /\ SentAt[k] < b)
                               /\ ~(a <= TakenAt[k] /\ TakenAt[k] < b)
\* A step past one stage.
Past(a, b) == \A k \in 1..8 : /\ a <= SentAt[k] /\ SentAt[k] < b => SentAt[k] = a
                              /\ a <= TakenAt[k] /\ TakenAt[k] < b => TakenAt[k] = a
Senders0(r, a) == {q \in Colors : \E k \in 1..8 : TakenAt[k] = a /\ Talks(k, q, r)}
Receivers0(r, a) == {q \in Colors : \E k \in 1..8 : SentAt[k] = a /\ Talks(k, r, q)}
NoSelfTalk == \A r \in Colors : \A k \in 1..8 : ~Talks(k, r, r)

\* r goes from stage a to stage b, and the others stay where they are.
Goes(r, a, b) ==
    /\ Stage(r) = a /\ Stage(r)' = b /\ a \in Nat /\ b \in Nat /\ a < b
    /\ \A q \in Colors \ {r} : Stage(q)' = Stage(q)

LEMMA SaysStays ==
    ASSUME Frozen
    PROVE  \A q, r : Says8(q, r)' = Says8(q, r)
  BY ExchangeStays DEF Says8

\* A step that is at no send or receive leaves the channels right.
LEMMA QuietStep ==
    ASSUME NEW r \in Colors, NEW a, NEW b, Goes(r, a, b), Quiet(a, b), Frozen,
           \A q \in Colors : Stage(q) \in Nat,
           wire = Messages, wire' = wire
    PROVE  wire' = Messages'
<1>1. ASSUME NEW p \in Colors, NEW q \in Colors PROVE Pending(p, q)' = Pending(p, q)
  <2>1. \A k \in 1..8 : Stage(p)' > SentAt[k] <=> Stage(p) > SentAt[k]
    <3> TAKE k \in 1..8
    <3>1. SentAt[k] \in Nat
      BY TimesAre
    <3>2. CASE p = r
      BY <3>1, <3>2 DEF Goes, Quiet
    <3>3. CASE p # r
      BY <3>3 DEF Goes
    <3> QED BY <3>2, <3>3
  <2>2. \A k \in 1..8 : Stage(q)' <= TakenAt[k] <=> Stage(q) <= TakenAt[k]
    <3> TAKE k \in 1..8
    <3>1. TakenAt[k] \in Nat
      BY TimesAre
    <3>2. CASE q = r
      BY <3>1, <3>2 DEF Goes, Quiet
    <3>3. CASE q # r
      BY <3>3 DEF Goes
    <3> QED BY <3>2, <3>3
  <2>3. \A k : Talks(k, p, q)' <=> Talks(k, p, q)
    BY ExchangeStays
  <2>4. SentAt' = SentAt /\ TakenAt' = TakenAt
    BY DEF SentAt, TakenAt
  <2> QED BY ONLY <2>1, <2>2, <2>3, <2>4 DEF Pending
<1>2. \A p, q : Says8(p, q)' = Says8(p, q)
  BY SaysStays
<1>3. Messages' = Messages
  BY ONLY <1>1, <1>2 DEF Messages
<1> QED BY <1>3

\* What is pending when r has gone on.
LEMMA PendingThen ==
    ASSUME NEW r \in Colors, NEW a, NEW b, Goes(r, a, b), Past(a, b), Frozen,
           \A q \in Colors : Stage(q) \in Nat, NoSelfTalk,
           NEW p \in Colors, NEW q \in Colors
    PROVE  Pending(p, q)' =
              IF p = r /\ q # r
              THEN Pending(p, q) \cup {k \in 1..8 : SentAt[k] = a /\ Talks(k, p, q) /\ Stage(q) <= TakenAt[k]}
              ELSE IF q = r THEN Pending(p, q) \ {k \in 1..8 : TakenAt[k] = a}
                   ELSE Pending(p, q)
<1>0. \A k \in 1..8 : SentAt[k] \in Nat /\ TakenAt[k] \in Nat
  BY TimesAre
<1>1. \A k : Talks(k, p, q)' <=> Talks(k, p, q)
  BY ExchangeStays
<1>2. Pending(p, q)' = {k \in 1..8 : Talks(k, p, q) /\ Stage(p)' > SentAt[k] /\ Stage(q)' <= TakenAt[k]}
  <2>1. SentAt' = SentAt /\ TakenAt' = TakenAt
    BY DEF SentAt, TakenAt
  <2> QED BY ONLY <1>1, <2>1 DEF Pending
<1>3. /\ \A k \in 1..8 : b > SentAt[k] <=> a > SentAt[k] \/ SentAt[k] = a
      /\ \A k \in 1..8 : b <= TakenAt[k] <=> a <= TakenAt[k] /\ TakenAt[k] # a
  BY <1>0 DEF Goes, Past
<1>4. CASE p = r /\ q # r
  <2>1. Stage(p)' = b /\ Stage(p) = a /\ Stage(q)' = Stage(q)
    BY <1>4 DEF Goes
  <2> QED BY <1>0, <1>2, <1>3, <1>4, <2>1 DEF Pending
<1>5. CASE p # r /\ q = r
  <2>1. Stage(q)' = b /\ Stage(q) = a /\ Stage(p)' = Stage(p)
    BY <1>5 DEF Goes
  <2> QED BY <1>0, <1>2, <1>3, <1>5, <2>1 DEF Pending
<1>6. CASE p # r /\ q # r
  <2>1. Stage(q)' = Stage(q) /\ Stage(p)' = Stage(p)
    BY <1>6 DEF Goes
  <2> QED BY <1>0, <1>2, <1>6, <2>1 DEF Pending
<1>7. CASE p = r /\ q = r
  <2>1. \A k \in 1..8 : ~Talks(k, p, q)
    BY <1>7 DEF NoSelfTalk
  <2> QED BY <1>2, <1>7, <2>1 DEF Pending
<1> QED BY <1>4, <1>5, <1>6, <1>7

\* What r takes from q is the message of that stage.
LEMMA HeadIs ==
    ASSUME NEW r \in Colors, NEW q \in Colors, NEW k \in 1..8,
           Stage(r) = TakenAt[k], Talks(k, q, r), Stage(q) \in Nat,
           wire = Messages, wire[q][r] # <<>>
    PROVE  /\ k \in Pending(q, r) /\ \A j \in Pending(q, r) : k <= j
           /\ Head(wire[q][r]) = Says(k, q, r)
           /\ Tail(wire[q][r]) = InTurn(Pending(q, r) \ {k}, Says8(q, r))
<1>1. wire[q][r] = InTurn(Pending(q, r), Says8(q, r))
  BY DEF Messages
<1>2. Pending(q, r) # {}
  <2> SUFFICES ASSUME Pending(q, r) = {} PROVE FALSE
    OBVIOUS
  <2>1. InTurn(Pending(q, r), Says8(q, r)) = <<>>
    BY NoneInTurn
  <2> QED BY <1>1, <2>1
<1>3. \A j \in Pending(q, r) : j \in 1..8 /\ k <= j
  <2> TAKE j \in Pending(q, r)
  <2>1. j \in 1..8 /\ Stage(r) <= TakenAt[j]
    BY DEF Pending
  <2>2. j < k => TakenAt[j] < TakenAt[k]
    BY <2>1, TimesAre
  <2>3. TakenAt[j] \in Nat /\ TakenAt[k] \in Nat
    BY <2>1, TimesAre
  <2> QED BY <2>1, <2>2, <2>3
<1>4. k \in Pending(q, r)
  <2>1. PICK j \in Pending(q, r) : TRUE
    BY <1>2
  <2>2. j \in 1..8 /\ Stage(q) > SentAt[j] /\ k <= j
    BY <1>3, <2>1 DEF Pending
  <2>3. SentAt[j] \in Nat /\ SentAt[k] \in Nat /\ TakenAt[k] \in Nat
    BY <2>2, TimesAre
  <2>4. k = j \/ SentAt[k] < SentAt[j]
    <3>1. k = j \/ k < j
      BY <2>2
    <3> QED BY <2>2, <3>1, TimesAre
  <2>5. Stage(q) > SentAt[k] /\ Stage(r) <= TakenAt[k]
    BY <2>2, <2>3, <2>4
  <2> QED BY <2>5 DEF Pending
<1>5. /\ Head(InTurn(Pending(q, r), Says8(q, r))) = Says8(q, r)[k]
      /\ Tail(InTurn(Pending(q, r), Says8(q, r))) = InTurn(Pending(q, r) \ {k}, Says8(q, r))
  <2> DEFINE P == Pending(q, r)
             f == Says8(q, r)
  <2>1. P \in SUBSET (1..8) /\ k \in P /\ \A j \in P : k <= j
    BY <1>3, <1>4, PendingKinds
  <2> HIDE DEF P, f
  <2>2. Head(InTurn(P, f)) = f[k] /\ Tail(InTurn(P, f)) = InTurn(P \ {k}, f)
    BY ONLY <2>1, FirstInTurn
  <2> QED BY <2>2 DEF P, f
<1> QED BY <1>1, <1>3, <1>4, <1>5 DEF Says8

\* What Deliver does to the channels is what the invariant asks of a color that
\* is past a send or a receive.
LEMMA DeliverIs ==
    ASSUME NEW r \in Colors, NEW a, NEW b, Goes(r, a, b), Past(a, b), Frozen,
           \A q \in Colors : Stage(q) \in Nat, NoSelfTalk,
           wire = Messages, NothingEarly, NEW Msg,
           Arrived(r, Senders0(r, a)),
           \A q \in Receivers0(r, a) : \A k \in 1..8 :
              SentAt[k] = a => Msg[q] = Says(k, r, q),
           Deliver(r, Senders0(r, a), Receivers0(r, a), Msg)
    PROVE  wire' = Messages'
<1>1. ASSUME NEW p \in Colors, NEW q \in Colors
      PROVE  (LET left == IF q = r THEN IF p \in Senders0(r, a) THEN Tail(wire[p][r]) ELSE wire[p][r]
                                   ELSE wire[p][q]
              IN IF p = r /\ q \in Receivers0(r, a) THEN Append(left, Msg[q]) ELSE left)
             = InTurn(Pending(p, q)', Says8(p, q))
  <2>0. /\ wire[p][q] = InTurn(Pending(p, q), Says8(p, q))
        /\ Pending(p, q) \in SUBSET (1..8)
    BY PendingKinds DEF Messages
  <2>1. CASE p = r /\ q = r
    <3>1. p \notin Senders0(r, a) /\ q \notin Receivers0(r, a)
      BY <2>1 DEF Senders0, Receivers0, NoSelfTalk
    <3>2. Pending(p, q) = {}
      BY <2>1 DEF Pending, NoSelfTalk
    <3>3. Pending(p, q)' = {}
      BY <2>1, <3>2, PendingThen
    <3> QED BY <2>0, <2>1, <3>1, <3>2, <3>3
  <2>2. CASE p # r /\ q # r
    <3>1. Pending(p, q)' = Pending(p, q)
      BY <2>2, PendingThen
    <3> QED BY <2>0, <2>2, <3>1
  <2>3. CASE p # r /\ q = r
    <3>1. Pending(p, r)' = Pending(p, r) \ {k \in 1..8 : TakenAt[k] = a}
      BY <2>3, PendingThen
    <3>2. CASE p \in Senders0(r, a)
      <4>1. PICK k \in 1..8 : TakenAt[k] = a /\ Talks(k, p, r)
        BY <3>2 DEF Senders0
      <4>2. wire[p][r] # <<>>
        BY <3>2 DEF Arrived
      <4>3. Tail(wire[p][r]) = InTurn(Pending(p, r) \ {k}, Says8(p, r))
        BY <4>1, <4>2, HeadIs DEF Goes
      <4>4. {j \in 1..8 : TakenAt[j] = a} = {k}
        BY <4>1, TimesAre
      <4> QED BY <2>3, <3>1, <3>2, <4>3, <4>4
    <3>3. CASE p \notin Senders0(r, a)
      <4>1. \A k \in Pending(p, r) : TakenAt[k] # a
        BY <3>3 DEF Senders0, Pending
      <4>2. Pending(p, r)' = Pending(p, r)
        BY <3>1, <4>1
      <4> QED BY <2>0, <2>3, <3>3, <4>2
    <3> QED BY <3>2, <3>3
  <2>4. CASE p = r /\ q # r
    <3>1. Pending(r, q)' = Pending(r, q) \cup
             {k \in 1..8 : SentAt[k] = a /\ Talks(k, r, q) /\ Stage(q) <= TakenAt[k]}
      BY <2>4, PendingThen
    <3>2. CASE q \in Receivers0(r, a)
      <4>1. PICK k \in 1..8 : SentAt[k] = a /\ Talks(k, r, q)
        BY <3>2 DEF Receivers0
      <4>2. Stage(q) <= TakenAt[k]
        <5>1. Stage(r) = a /\ SentAt[k] = a /\ ~(Stage(r) > SentAt[k])
          BY <4>1 DEF Goes
        <5>2. ~(Stage(q) > TakenAt[k])
          BY <4>1, <5>1 DEF NothingEarly
        <5> QED BY <5>2, TimesAre
      <4>3. {j \in 1..8 : SentAt[j] = a /\ Talks(j, r, q) /\ Stage(q) <= TakenAt[j]} = {k}
        BY <4>1, <4>2, TimesAre
      <4>4. \A j \in Pending(r, q) : j < k
        <5> TAKE j \in Pending(r, q)
        <5>1. j \in 1..8 /\ a > SentAt[j]
          BY DEF Pending, Goes
        <5>2. SentAt[j] \in Nat /\ SentAt[k] \in Nat
          BY <5>1, TimesAre
        <5>3. j = k \/ k < j => SentAt[k] <= SentAt[j]
          BY <5>1, <5>2, TimesAre
        <5> QED BY <4>1, <5>1, <5>2, <5>3
      <4>5. InTurn(Pending(r, q) \cup {k}, Says8(r, q))
            = Append(InTurn(Pending(r, q), Says8(r, q)), Says8(r, q)[k])
        BY <2>0, <2>4, <4>4, OneMoreInTurn
      <4>6. Says8(r, q)[k] = Msg[q]
        BY <3>2, <4>1 DEF Says8
      <4> QED BY <2>0, <2>4, <3>1, <3>2, <4>3, <4>5, <4>6
    <3>3. CASE q \notin Receivers0(r, a)
      <4>1. Pending(r, q)' = Pending(r, q)
        BY <3>1, <3>3 DEF Receivers0
      <4> QED BY <2>0, <2>4, <3>3, <4>1
    <3> QED BY <3>2, <3>3
  <2> QED BY <2>1, <2>2, <2>3, <2>4
<1>2. \A p, q : Says8(p, q)' = Says8(p, q)
  BY SaysStays
<1>3. Messages' = [p \in Colors |-> [q \in Colors |-> InTurn(Pending(p, q)', Says8(p, q))]]
  BY ONLY <1>2 DEF Messages
<1> QED BY ONLY <1>1, <1>3, Deliver(r, Senders0(r, a), Receivers0(r, a), Msg) DEF Deliver

\* A step that is at no send or receive is past none.
LEMMA QuietIsNotEarly ==
    ASSUME NEW r \in Colors, NEW a, NEW b, Goes(r, a, b), Quiet(a, b), Frozen,
           \A q \in Colors : Stage(q) \in Nat, NothingEarly
    PROVE  NothingEarly'
<1> SUFFICES ASSUME NEW p \in Colors, NEW q \in Colors, NEW k \in 1..8,
                    Talks(k, p, q)', Stage(q)' > TakenAt[k]
             PROVE  Stage(p)' > SentAt[k]
  BY DEF NothingEarly, SentAt, TakenAt
<1>0. SentAt[k] \in Nat /\ TakenAt[k] \in Nat
  BY TimesAre
<1>1. Talks(k, p, q)
  BY ExchangeStays
<1>2. Stage(q) > TakenAt[k]
  BY <1>0 DEF Goes, Quiet
<1>3. Stage(p) > SentAt[k]
  BY <1>1, <1>2 DEF NothingEarly
<1> QED BY <1>0, <1>3 DEF Goes

\* A message that has arrived was sent.
LEMMA TakenIsNotEarly ==
    ASSUME NEW r \in Colors, NEW a, NEW b, Goes(r, a, b), Past(a, b), Frozen,
           \A q \in Colors : Stage(q) \in Nat, NothingEarly, wire = Messages,
           Arrived(r, Senders0(r, a))
    PROVE  NothingEarly'
<1> SUFFICES ASSUME NEW p \in Colors, NEW q \in Colors, NEW k \in 1..8,
                    Talks(k, p, q)', Stage(q)' > TakenAt[k]
             PROVE  Stage(p)' > SentAt[k]
  BY DEF NothingEarly, SentAt, TakenAt
<1>0. SentAt[k] \in Nat /\ TakenAt[k] \in Nat
  BY TimesAre
<1>1. Talks(k, p, q)
  BY ExchangeStays
<1>2. CASE Stage(q) > TakenAt[k]
  <2>1. Stage(p) > SentAt[k]
    BY <1>1, <1>2 DEF NothingEarly
  <2> QED BY <1>0, <2>1 DEF Goes
<1>3. CASE ~(Stage(q) > TakenAt[k])
  <2>1. q = r /\ TakenAt[k] = a
    BY <1>0, <1>3 DEF Goes, Past
  <2>2. p \in Senders0(r, a)
    BY <1>1, <2>1 DEF Senders0
  <2>3. wire[p][q] # <<>>
    BY <2>1, <2>2 DEF Arrived
  <2>4. k \in Pending(p, q)
    BY <1>1, <2>1, <2>3, HeadIs DEF Goes
  <2>5. Stage(p) > SentAt[k]
    BY <2>4 DEF Pending
  <2> QED BY <1>0, <2>5 DEF Goes
<1> QED BY <1>2, <1>3

-----------------------------------------------------------------------------
(* The mesh and the partition *)

LEMMA ColorsAre ==
    /\ IsFiniteSet(Colors) /\ Colors \subseteq Nat /\ NumColors \in Nat \ {0}
    /\ \A r \in Colors : r \in Nat /\ r + 1 \in 1..NumColors
    /\ \A i \in 1..NumColors : i - 1 \in Colors
<1>1. NumColors \in Nat \ {0}
  BY ColorsAssumption
<1>2. IsFiniteSet(Colors)
  <2>1. 0 \in Int /\ NumColors - 1 \in Int
    BY <1>1
  <2> QED BY <2>1, FS_Interval DEF Colors
<1>3. \A r \in Colors : r \in Nat /\ r + 1 \in 1..NumColors
  BY <1>1 DEF Colors
<1>4. \A i \in 1..NumColors : i - 1 \in Colors
  BY <1>1 DEF Colors
<1> QED BY <1>1, <1>2, <1>3, <1>4

\* Cells and vertices are finitely many numbers.
LEMMA MeshIs ==
    ASSUME Given
    PROVE  /\ IsFiniteSet(Cells) /\ Cells # {} /\ \A c \in Cells : c \in Nat /\ part[c] \in Colors
           /\ Cardinality(Cells) \in Nat /\ Cells = 0..Cardinality(Cells) - 1
           /\ \A c \in Cells : mesh[c] \in SUBSET Nat /\ mesh[c] # {} /\ IsFiniteSet(mesh[c])
           /\ IsFiniteSet(Vertices) /\ Vertices \in SUBSET Nat /\ Vertices # {}
<1>1. /\ IsFiniteSet(Cells) /\ Cells = 0..Cardinality(Cells) - 1 /\ Cells # {}
      /\ \A c \in Cells : mesh[c] \subseteq Nat /\ mesh[c] # {} /\ IsFiniteSet(mesh[c])
  <2>1. \A m \in Meshes : /\ IsFiniteSet(DOMAIN m) /\ DOMAIN m = 0..Cardinality(DOMAIN m) - 1
                          /\ DOMAIN m # {}
                          /\ \A c \in DOMAIN m : m[c] \subseteq Nat /\ m[c] # {} /\ IsFiniteSet(m[c])
    BY MeshesAssumption
  <2>2. mesh \in Meshes
    BY DEF Given
  <2> QED BY ONLY <2>1, <2>2 DEF Cells
<1>2. Cardinality(Cells) \in Nat
  BY <1>1, FS_CardinalityType
<1>3. \A c \in Cells : c \in Nat /\ part[c] \in Colors
  <2>1. part \in [Cells -> Colors]
    BY DEF Given
  <2> QED BY <1>1, <1>2, <2>1
<1> DEFINE U == {mesh[c] : c \in Cells}
<1>4. IsFiniteSet(Vertices)
  <2>1. IsFiniteSet(U)
    <3> DEFINE f == [c \in Cells |-> mesh[c]]
    <3>1. f \in Surjection(Cells, U)
      BY DEF Surjection
    <3> HIDE DEF f, U
    <3> QED BY <1>1, <3>1, FS_Surjection
  <2>2. \A S \in U : IsFiniteSet(S)
    BY <1>1
  <2> HIDE DEF U
  <2>3. IsFiniteSet(UNION U)
    BY <2>1, <2>2, FS_UNION
  <2> QED BY <2>3 DEF Vertices, U
<1>5. Vertices \in SUBSET Nat /\ Vertices # {}
  <2>1. \A v \in Vertices : v \in Nat
    BY <1>1 DEF Vertices
  <2>2. PICK c \in Cells : TRUE
    BY <1>1
  <2>3. PICK v \in mesh[c] : TRUE
    BY <1>1, <2>2
  <2>4. v \in Vertices
    BY <2>3 DEF Vertices
  <2> QED BY <2>1, <2>4
<1> QED BY <1>1, <1>2, <1>3, <1>4, <1>5

\* Any cells and any vertices can be put in order.
LEMMA SomeCells ==
    ASSUME Given, NEW S \in SUBSET Cells
    PROVE  IsFiniteSet(S) /\ S \subseteq Int /\ S \subseteq Nat /\ Cardinality(S) \in Nat
<1>1. \A c \in S : c \in Nat
  BY MeshIs
<1>2. \A c \in S : c \in Int
  BY <1>1
<1>3. IsFiniteSet(S)
  BY MeshIs, FS_Subset
<1> QED BY <1>1, <1>2, <1>3, FS_CardinalityType

LEMMA SomeVertices ==
    ASSUME Given, NEW S \in SUBSET Vertices
    PROVE  IsFiniteSet(S) /\ S \subseteq Int /\ S \subseteq Nat /\ Cardinality(S) \in Nat
<1>1. \A v \in S : v \in Nat
  BY MeshIs
<1>2. \A v \in S : v \in Int
  BY <1>1
<1>3. IsFiniteSet(S)
  BY MeshIs, FS_Subset
<1> QED BY <1>1, <1>2, <1>3, FS_CardinalityType

\* Two cells with a vertex in common, counted and not.
LEMMA CommonVertices ==
    ASSUME Given, NEW c \in Cells, NEW d \in Cells
    PROVE  /\ Cardinality(mesh[c] \cap mesh[d]) \in Nat
           /\ Cardinality(mesh[c] \cap mesh[d]) > 0 <=> \E v : v \in mesh[c] /\ v \in mesh[d]
<1> DEFINE S == mesh[c] \cap mesh[d]
<1>1. IsFiniteSet(S)
  <2>1. IsFiniteSet(mesh[c]) /\ S \in SUBSET mesh[c]
    BY MeshIs
  <2> HIDE DEF S
  <2> QED BY <2>1, FS_Subset
<1>2. (\E v : v \in mesh[c] /\ v \in mesh[d]) <=> S # {}
  OBVIOUS
<1> HIDE DEF S
<1>3. Cardinality(S) \in Nat /\ (Cardinality(S) = 0 <=> S = {})
  BY <1>1, FS_CardinalityType, FS_EmptySet
<1>4. Cardinality(S) > 0 <=> S # {}
  BY <1>3
<1> QED BY <1>2, <1>3, <1>4 DEF S

LEMMA PrimaryIs ==
    ASSUME Given
    PROVE  /\ \A r : Primary(r) \in SUBSET Cells
           /\ \A r, c : c \in Primary(r) <=> c \in Cells /\ part[c] = r
           /\ \A c \in Cells : c \in Primary(part[c])
  BY DEF Primary

\* Numbers in order, one set for all the uses below.
LEMMA PositionIs ==
    ASSUME NEW S, S \subseteq Int, IsFiniteSet(S)
    PROVE  /\ \A x \in S : Position(x, S) \in Nat /\ Position(x, S) < Cardinality(S)
           /\ \A x, y \in S : Position(x, S) = Position(y, S) => x = y
<1>1. /\ Cardinality(S) \in Nat
      /\ \A x \in S : Position(x, S) + 1 \in 1..Cardinality(S)
      /\ \A x, y \in S : x < y => Position(x, S) < Position(y, S)
  BY OrderedIs
<1>2. \A x \in S : Position(x, S) \in Nat
  <2> TAKE x \in S
  <2>1. {y \in S : y < x} \in SUBSET S
    OBVIOUS
  <2> QED BY <2>1, FS_Subset, FS_CardinalityType DEF Position
<1>3. \A x \in S : Position(x, S) < Cardinality(S)
  BY <1>1, <1>2
<1>4. \A x, y \in S : Position(x, S) = Position(y, S) => x = y
  <2> TAKE x, y \in S
  <2>1. x = y \/ x < y \/ y < x
    OBVIOUS
  <2> QED BY <1>1, <1>2, <2>1
<1> QED BY <1>2, <1>3, <1>4

-----------------------------------------------------------------------------
(* Neighbors and the closure *)

Meet(c, d) == \E v : v \in mesh[c] /\ v \in mesh[d]

\* EntityNeighbors adds the cells that meet one of the set.
LEMMA NeighborsAre ==
    ASSUME Given, NEW S \in SUBSET Cells
    PROVE  /\ EntityNeighbors(S) \in SUBSET Cells
           /\ \A d : d \in EntityNeighbors(S) <=>
                 d \in S \/ (d \in Cells /\ \E c \in S : c # d /\ Meet(c, d))
           /\ \A c \in S, d \in Cells : Meet(c, d) => d \in EntityNeighbors(S)
<1>1. \A c \in S, d \in Cells : Cardinality(mesh[c] \cap mesh[d]) > 0 <=> Meet(c, d)
  BY CommonVertices DEF Meet
<1> QED BY <1>1 DEF EntityNeighbors

\* The closure is a color's own cells and those that meet one of them.
LEMMA ClosureIs ==
    ASSUME Given, NEW r
    PROVE  /\ Closure(r) \in SUBSET Cells /\ Nearest(r) \in SUBSET Cells
           /\ AllNeighbors(r) \in SUBSET Cells
           /\ Primary(r) \subseteq Closure(r) /\ Closure(r) = Primary(r) \cup Nearest(r)
           /\ Nearest(r) \cap Primary(r) = {} /\ AllNeighbors(r) \cap Primary(r) = {}
           /\ Nearest(r) \subseteq AllNeighbors(r)
           /\ \A d : d \in Nearest(r) <=>
                 d \in Cells /\ part[d] # r /\ \E c \in Primary(r) : Meet(c, d)
           /\ \A c \in Closure(r), d \in Cells :
                 Meet(c, d) => d \in Primary(r) \/ d \in AllNeighbors(r)
<1>1. Primary(r) \in SUBSET Cells
  BY PrimaryIs
<1>2. /\ Closure(r) \in SUBSET Cells
      /\ \A d : d \in Closure(r) <=>
            d \in Primary(r) \/ (d \in Cells /\ \E c \in Primary(r) : c # d /\ Meet(c, d))
      /\ \A c \in Primary(r), d \in Cells : Meet(c, d) => d \in Closure(r)
  BY <1>1, NeighborsAre DEF Closure
<1>3. Nearest(r) \in SUBSET Cells /\ Nearest(r) = Closure(r) \ Primary(r)
  BY <1>2 DEF Nearest
<1>4. /\ EntityNeighbors(Nearest(r)) \in SUBSET Cells
      /\ \A c \in Nearest(r), d \in Cells : Meet(c, d) => d \in EntityNeighbors(Nearest(r))
  BY <1>3, NeighborsAre
<1>5. AllNeighbors(r) = Nearest(r) \cup (EntityNeighbors(Nearest(r)) \ Closure(r))
  BY DEF AllNeighbors, NextNearest
<1>6. \A d : d \in Nearest(r) <=> d \in Cells /\ part[d] # r /\ \E c \in Primary(r) : Meet(c, d)
  <2> TAKE d
  <2>1. d \in Primary(r) <=> d \in Cells /\ part[d] = r
    BY PrimaryIs
  <2> QED BY <1>2, <1>3, <2>1
<1>7. Closure(r) = Primary(r) \cup Nearest(r)
  BY <1>2, <1>3
<1>8. \A c \in Closure(r), d \in Cells : Meet(c, d) => d \in Primary(r) \/ d \in AllNeighbors(r)
  BY <1>2, <1>3, <1>4, <1>5, <1>7
<1>9. Nearest(r) \cap Primary(r) = {} /\ AllNeighbors(r) \cap Primary(r) = {}
  BY <1>3, <1>5, <1>7
<1>10. AllNeighbors(r) \in SUBSET Cells /\ Nearest(r) \subseteq AllNeighbors(r)
  BY <1>3, <1>4, <1>5
<1> QED BY <1>2, <1>3, <1>6, <1>7, <1>8, <1>9, <1>10

-----------------------------------------------------------------------------
(* ClosureColoring: what each color learns *)

\* The answers of all colors to a request name the owner and the offset of each
\* cell that was asked for (get_primary_info).
LEMMA AnswersAre ==
    ASSUME Given, NEW r \in Colors, NEW S \in SUBSET Cells, S \cap Primary(r) = {},
           \A q \in Colors : Received(r)[q][r] = AnswersTo(q, r, Ordered(S))
    PROVE  RemoteInfo(r, S) = KnownCells(S)
<1> DEFINE n == Cardinality(S)
           list == Ordered(S)
<1>1. /\ n \in Nat /\ DOMAIN list = 1..n
      /\ \A i \in 1..n : list[i] \in S
      /\ \A c \in S : \E i \in 1..n : list[i] = c
  <2>1. IsFiniteSet(S) /\ S \subseteq Int
    BY SomeCells
  <2>2. /\ n \in Nat /\ DOMAIN list = 1..n
        /\ \A i \in 1..n : list[i] \in S
        /\ \A c \in S : Position(c, S) + 1 \in 1..n /\ list[Position(c, S) + 1] = c
    BY <2>1, OrderedIs
  <2> HIDE DEF n, list
  <2> QED BY <2>2
<1> HIDE DEF n, list
<1>2. ASSUME NEW q \in Colors \ {r}
      PROVE  /\ DOMAIN Received(r)[q][r] = 1..n
             /\ \A i \in 1..n : Received(r)[q][r][i] =
                   IF part[list[i]] = q THEN OffsetOf(q, list[i]) ELSE None
  <2>1. Received(r)[q][r] = [i \in 1..n |->
           IF r # q /\ list[i] \in Primary(q) THEN OffsetOf(q, list[i]) ELSE None]
    BY <1>1 DEF AnswersTo, list
  <2>2. \A i \in 1..n : list[i] \in Primary(q) <=> part[list[i]] = q
    BY <1>1, PrimaryIs
  <2> QED BY <2>1, <2>2
<1>3. \A c \in S : part[c] \in Colors \ {r} /\ OffsetOf(part[c], c) # None
  <2> TAKE c \in S
  <2>1. part[c] \in Colors /\ c \in Primary(part[c]) /\ part[c] # r
    BY MeshIs, PrimaryIs
  <2>2. OffsetOf(part[c], c) \in Nat
    <3>1. IsFiniteSet(Primary(part[c])) /\ Primary(part[c]) \subseteq Int
      BY PrimaryIs, SomeCells
    <3> QED BY <2>1, <3>1, PositionIs DEF OffsetOf
  <2> QED BY <2>1, <2>2, NoneAssumption
<1> DEFINE E(q, i) == Entity(list[i], q, Received(r)[q][r][i], {})
           I(q) == {j \in DOMAIN Received(r)[q][r] : Received(r)[q][r][j] # None}
<1>4. RemoteInfo(r, S) = UNION {{E(q, i) : i \in I(q)} : q \in Colors \ {r}}
  BY DEF RemoteInfo, list
<1>5. \A q \in Colors \ {r} : \A i : i \in I(q) <=> i \in 1..n /\ part[list[i]] = q
  BY <1>1, <1>2, <1>3
<1>6. \A q \in Colors \ {r} : \A i \in I(q) :
         E(q, i) = Entity(list[i], part[list[i]], OffsetOf(part[list[i]], list[i]), {})
  BY <1>2, <1>5
<1> HIDE DEF E, I
<1>7. \A e \in RemoteInfo(r, S) : e \in KnownCells(S)
  <2> TAKE e \in RemoteInfo(r, S)
  <2>1. PICK q \in Colors \ {r} : e \in {E(q, i) : i \in I(q)}
    BY <1>4
  <2>2. PICK i \in I(q) : e = E(q, i)
    BY <2>1
  <2>3. i \in 1..n /\ list[i] \in S
    BY <1>1, <1>5, <2>2
  <2> QED BY <1>6, <2>2, <2>3 DEF KnownCells
<1>8. \A e \in KnownCells(S) : e \in RemoteInfo(r, S)
  <2> TAKE e \in KnownCells(S)
  <2>1. PICK c \in S : e = Entity(c, part[c], OffsetOf(part[c], c), {})
    BY DEF KnownCells
  <2>2. PICK i \in 1..n : list[i] = c
    BY <1>1
  <2>3. part[c] \in Colors \ {r} /\ i \in I(part[c])
    BY <1>3, <1>5, <2>2
  <2>4. e = E(part[c], i)
    BY <1>6, <2>1, <2>2, <2>3
  <2> QED BY <1>4, <2>3, <2>4
<1> QED BY <1>7, <1>8

-----------------------------------------------------------------------------
(* Who owns a vertex *)

\* The color of a vertex is the lowest among those of its cells.
LEMMA VertexColorIs ==
    ASSUME Given
    PROVE  /\ \A v \in Vertices :
                /\ VertexColor(v) \in Colors
                /\ \E c \in Referencers(v) : part[c] = VertexColor(v)
                /\ \A c \in Referencers(v) : VertexColor(v) <= part[c]
           /\ \A r : EntityClosure(r) \in SUBSET Vertices
           /\ \A v, c : c \in Referencers(v) <=> c \in Cells /\ v \in mesh[c]
<1>1. \A v, c : c \in Referencers(v) <=> c \in Cells /\ v \in mesh[c]
  BY DEF Referencers
<1>2. \A r : EntityClosure(r) \in SUBSET Vertices
  BY ClosureIs DEF EntityClosure, Vertices
<1>3. ASSUME NEW v \in Vertices
      PROVE  /\ VertexColor(v) \in Colors
             /\ \E c \in Referencers(v) : part[c] = VertexColor(v)
             /\ \A c \in Referencers(v) : VertexColor(v) <= part[c]
  <2> DEFINE R == {part[c] : c \in Referencers(v)}
  <2>1. \E c \in Cells : v \in mesh[c]
    BY DEF Vertices
  <2>2. R \in SUBSET Nat /\ R # {} /\ R \subseteq Colors
    BY <1>1, <2>1, MeshIs, ColorsAre
  <2>3. VertexColor(v) = Smallest(R)
    BY DEF VertexColor
  <2>4. Smallest(R) \in R /\ \A x \in R : Smallest(R) <= x
    <3> HIDE DEF R
    <3> QED BY <2>2, LeastIs
  <2>5. VertexColor(v) \in R /\ \A x \in R : VertexColor(v) <= x
    <3> HIDE DEF R
    <3> QED BY <2>3, <2>4
  <2> QED BY <2>2, <2>5
<1> QED BY <1>1, <1>2, <1>3

\* A vertex is a color's own if it has that color, wherever it is needed.
LEMMA OwnVertsAre ==
    ASSUME Given, NEW r
    PROVE  /\ OwnVerts(r) = {v \in Vertices : VertexColor(v) = r}
           /\ OwnVerts(r) \in SUBSET Vertices
           /\ \A q \in Colors : Needs(q, r) \in SUBSET OwnVerts(r)
<1>1. ASSUME NEW v \in Vertices, VertexColor(v) = r PROVE v \in EntityClosure(r)
  <2>1. PICK c \in Referencers(v) : part[c] = r
    BY <1>1, VertexColorIs
  <2>2. c \in Primary(r) /\ v \in mesh[c]
    BY <2>1, VertexColorIs, PrimaryIs
  <2>3. c \in Closure(r)
    BY <2>2, ClosureIs
  <2> QED BY <2>2, <2>3 DEF EntityClosure
<1>2. OwnVerts(r) = {v \in Vertices : VertexColor(v) = r}
  BY <1>1, VertexColorIs DEF OwnVerts
<1> QED BY <1>2, VertexColorIs DEF Needs

\* Every color works out the owner of a vertex alike.
LEMMA MinRankIs ==
    ASSUME Given, NEW r \in Colors, NEW v \in EntityClosure(r)
    PROVE  MinRank(r, v, KnownCells(AllNeighbors(r))) = VertexColor(v)
<1> DEFINE remote == KnownCells(AllNeighbors(r))
           R == {e.rank : e \in {x \in remote : x.id \in Referencers(v)}}
           K == {x.id : x \in remote}
           P == {part[c] : c \in Referencers(v)}
           A == AllNeighbors(r)
<1>1. A \in SUBSET Cells /\ A \cap Primary(r) = {}
  BY ClosureIs
<1>2. K = A
  <2>1. \A x \in K : x \in A
    BY DEF KnownCells, Entity
  <2>2. ASSUME NEW c \in A PROVE c \in K
    <3> DEFINE e == Entity(c, part[c], OffsetOf(part[c], c), {})
    <3>1. e \in remote /\ e.id = c
      BY DEF KnownCells, Entity
    <3> HIDE DEF e, remote
    <3> QED BY <3>1
  <2> HIDE DEF K, A
  <2> QED BY <2>1, <2>2
<1>3. R = {part[c] : c \in Referencers(v) \cap A}
  <2>1. \A x \in R : x \in {part[c] : c \in Referencers(v) \cap A}
    BY DEF KnownCells, Entity
  <2>2. ASSUME NEW c \in Referencers(v) \cap A PROVE part[c] \in R
    <3> DEFINE e == Entity(c, part[c], OffsetOf(part[c], c), {})
    <3>1. e \in remote /\ e.id = c /\ e.rank = part[c]
      BY DEF KnownCells, Entity
    <3> HIDE DEF e, remote
    <3> QED BY <3>1
  <2> HIDE DEF R
  <2> QED BY <2>1, <2>2
<1>4. PICK c \in Closure(r) : v \in mesh[c]
  BY DEF EntityClosure
<1>5. \A d \in Referencers(v) : d \in Primary(r) \/ d \in A
  <2> TAKE d \in Referencers(v)
  <2>1. d \in Cells /\ v \in mesh[d] /\ Meet(c, d)
    BY <1>4, VertexColorIs DEF Meet
  <2> QED BY <1>4, <2>1, ClosureIs
<1>6. ReferencingRanks(r, v, remote) = R \cup (IF Referencers(v) \subseteq K THEN {} ELSE {r})
  BY DEF ReferencingRanks
<1> HIDE DEF R, K, remote, A
<1>7. ReferencingRanks(r, v, remote) = P
  <2>1. CASE Referencers(v) \subseteq A
    BY <1>2, <1>3, <1>6, <2>1
  <2>2. CASE ~(Referencers(v) \subseteq A)
    <3>1. PICK d \in Referencers(v) : d \in Primary(r)
      BY <1>5, <2>2
    <3>2. \A x \in Referencers(v) : x \in A \/ part[x] = r
      BY <1>5, PrimaryIs
    <3>3. part[d] = r
      BY <3>1, PrimaryIs
    <3> QED BY <1>2, <1>3, <1>6, <2>2, <3>1, <3>2, <3>3
  <2> QED BY <2>1, <2>2
<1> QED BY <1>7 DEF MinRank, VertexColor, remote, A

\* The colors that hold a vertex of r, all that color_entity finds.
LEMMA SharersAre ==
    ASSUME Given, NEW r \in Colors, NEW v \in OwnVerts(r),
           Knows(r, "users", NearUserMap(r)), Knows(r, "intersections", NearMeets(r))
    PROVE  Sharers(r, v, KnownCells(AllNeighbors(r))) = HolderColors(r, v)
<1> DEFINE remote == KnownCells(AllNeighbors(r))
           A == AllNeighbors(r)
           X == {e.rank : e \in {x \in remote : x.id \in Referencers(v)}}
           Y == UNION {mine[r].users[c] : c \in Referencers(v) \cap Primary(r)}
           Z == {q \in Colors \ {r} : mine[r].intersections[q] \cap Referencers(v) # {}}
<1>1. A \in SUBSET Cells /\ A \cap Primary(r) = {}
  BY ClosureIs
<1>2. X = {part[c] : c \in Referencers(v) \cap A}
  <2>1. \A x \in X : x \in {part[c] : c \in Referencers(v) \cap A}
    BY DEF KnownCells, Entity
  <2>2. ASSUME NEW c \in Referencers(v) \cap A PROVE part[c] \in X
    <3> DEFINE e == Entity(c, part[c], OffsetOf(part[c], c), {})
    <3>1. e \in remote /\ e.id = c /\ e.rank = part[c]
      BY DEF KnownCells, Entity
    <3> HIDE DEF e, remote
    <3> QED BY <3>1
  <2> HIDE DEF X
  <2> QED BY <2>1, <2>2
<1>3. Y = UNION {NearUsers(r, c) : c \in Referencers(v) \cap Primary(r)}
  BY DEF Knows, NearUserMap
<1>4. Z = {q \in Colors \ {r} : Nearest(q) \cap Nearest(r) \cap Referencers(v) # {}}
  <2>1. \A q \in Colors \ {r} : mine[r].intersections[q] = Nearest(q) \cap Nearest(r)
    BY DEF Knows, NearMeets
  <2> QED BY <2>1
<1>5. Sharers(r, v, remote) = X \cup Z \cup Y
  <2> HIDE DEF remote
  <2> QED BY Zenon DEF Sharers
<1> HIDE DEF X, Y, Z, remote, A
<1>6. PICK o \in Referencers(v) : o \in Primary(r)
  BY OwnVertsAre, VertexColorIs, PrimaryIs
<1>7. \A c : c \in Referencers(v) <=> c \in Cells /\ v \in mesh[c]
  BY VertexColorIs
<1>8. ASSUME NEW c \in Referencers(v), c \notin Primary(r) PROVE c \in Nearest(r)
  <2>1. Meet(o, c) /\ c \in Cells /\ part[c] # r
    BY <1>6, <1>7, <1>8, PrimaryIs DEF Meet
  <2> QED BY <1>6, <2>1, ClosureIs
<1>9. \A q, c : c \in Closure(q) /\ v \in mesh[c] => v \in EntityClosure(q)
  BY DEF EntityClosure
<1>10. ASSUME NEW q \in X \cup Y \cup Z PROVE q \in HolderColors(r, v)
  <2>1. CASE q \in X
    <3>1. PICK c \in Referencers(v) \cap A : q = part[c]
      BY <1>2, <2>1
    <3>2. c \in Cells /\ c \notin Primary(r)
      BY <1>1, <3>1
    <3>3. q \in Colors \ {r} /\ c \in Primary(q)
      BY <3>1, <3>2, MeshIs, PrimaryIs
    <3> QED BY <1>7, <1>9, <3>1, <3>3, ClosureIs DEF HolderColors
  <2>2. CASE q \in Y
    <3>1. PICK c \in Referencers(v) \cap Primary(r) : q \in NearUsers(r, c)
      BY <1>3, <2>2
    <3>2. q \in Colors \ {r} /\ c \in Nearest(q)
      BY <3>1 DEF NearUsers
    <3> QED BY <1>7, <1>9, <3>1, <3>2, ClosureIs DEF HolderColors
  <2>3. CASE q \in Z
    <3>1. PICK c \in Nearest(q) : c \in Referencers(v)
      BY <1>4, <2>3
    <3>2. q \in Colors \ {r}
      BY <1>4, <2>3
    <3> QED BY <1>7, <1>9, <3>1, <3>2, ClosureIs DEF HolderColors
  <2> QED BY <2>1, <2>2, <2>3
<1>11. ASSUME NEW q \in HolderColors(r, v) PROVE q \in X \cup Y \cup Z
  <2>1. q \in Colors \ {r} /\ v \in EntityClosure(q)
    BY DEF HolderColors
  <2>2. PICK c \in Closure(q) : v \in mesh[c]
    BY <2>1 DEF EntityClosure
  <2>3. c \in Referencers(v)
    BY <1>7, <2>2, ClosureIs
  <2>4. CASE c \in Primary(q)
    <3>1. part[c] = q /\ c \notin Primary(r)
      BY <2>1, <2>4, PrimaryIs
    <3>2. c \in A
      BY <1>8, <2>3, <3>1, ClosureIs DEF A
    <3> QED BY <1>2, <2>3, <3>1, <3>2
  <2>5. CASE c \in Nearest(q) /\ c \in Primary(r)
    BY <1>3, <2>1, <2>3, <2>5 DEF NearUsers
  <2>6. CASE c \in Nearest(q) /\ c \notin Primary(r)
    BY <1>4, <1>8, <2>1, <2>3, <2>6
  <2> QED BY <2>2, <2>4, <2>5, <2>6, ClosureIs
<1> QED BY <1>5, <1>10, <1>11 DEF remote

-----------------------------------------------------------------------------
(* DcrsColoring: homes, and the order of the cells *)

\* Subdivide leaves nothing over.
LEMMA SubdivideIs ==
    ASSUME NEW n \in Nat
    PROVE  Subdivide(n)[NumColors] = n
<1>1. NumColors \in Nat /\ NumColors > 0
  BY ColorsAssumption
<1> DEFINE quot == n \div NumColors
           rem  == n % NumColors
<1>2. quot \in Int /\ rem \in 0..NumColors - 1 /\ NumColors * quot + rem = n
  BY <1>1
<1>3. NumColors \in 0..NumColors
  BY <1>1
<1>4. Subdivide(n)[NumColors] =
         LET late == NumColors - (NumColors - rem)
         IN NumColors * quot + IF late > 0 THEN late ELSE 0
  BY <1>3 DEF Subdivide
<1> HIDE DEF quot, rem
<1>5. NumColors - (NumColors - rem) = rem
  BY <1>1, <1>2
<1>6. (IF rem > 0 THEN rem ELSE 0) = rem
  BY <1>2
<1> QED BY <1>2, <1>4, <1>5, <1>6

\* rank_owner finds a rank for every number below the last bound.
LEMMA RankOwnerIs ==
    ASSUME NEW dist, NEW i \in Nat, dist[NumColors] \in Nat, i < dist[NumColors]
    PROVE  RankOwner(dist, i) \in Colors
<1> DEFINE R == {r \in 1..NumColors : dist[r] <= i}
<1>1. NumColors \in Nat \ {0}
  BY ColorsAssumption
<1>2. \A r \in R : r \in 1..NumColors - 1
  <2> TAKE r \in R
  <2>1. r # NumColors
    BY <1>1
  <2> QED BY <1>1, <2>1
<1> HIDE DEF R
<1>3. IsFiniteSet(1..NumColors - 1) /\ Cardinality(1..NumColors - 1) = NumColors - 1
  <2>1. 1 \in Int /\ NumColors - 1 \in Int
    BY <1>1
  <2>2. Cardinality(1..NumColors - 1) = IF 1 > NumColors - 1 THEN 0 ELSE NumColors - 1 - 1 + 1
    BY <2>1, FS_Interval
  <2>3. IsFiniteSet(1..NumColors - 1)
    BY <2>1, FS_Interval
  <2> QED BY <1>1, <2>2, <2>3
<1>4. R \in SUBSET (1..NumColors - 1)
  BY <1>2
<1>5. IsFiniteSet(R) /\ Cardinality(R) <= NumColors - 1
  BY <1>3, <1>4, FS_Subset
<1>6. Cardinality(R) \in Nat
  BY <1>5, FS_CardinalityType
<1> QED BY <1>1, <1>5, <1>6 DEF RankOwner, R, Colors

\* Each vertex has a home among the colors.
LEMMA HomeIs ==
    ASSUME Given
    PROVE  \A v \in Vertices : Home(v) \in Colors
<1> TAKE v \in Vertices
<1> DEFINE n == 1 + Largest(Vertices)
<1>1. Largest(Vertices) \in Vertices /\ \A y \in Vertices : y <= Largest(Vertices)
  BY MeshIs, GreatestIs
<1>2. Largest(Vertices) \in Nat /\ v \in Nat
  BY <1>1, MeshIs
<1>3. n \in Nat /\ v < n
  BY <1>1, <1>2
<1> HIDE DEF n
<1>4. Subdivide(n)[NumColors] = n
  BY <1>3, SubdivideIs
<1>5. RankOwner(Subdivide(n), v) \in Colors
  BY <1>2, <1>3, <1>4, RankOwnerIs
<1> QED BY <1>5 DEF Home, n

\* Each cell begins at one color.
LEMMA NaiveCellsAre ==
    ASSUME Given
    PROVE  /\ \A r : NaiveCells(r) \in SUBSET Cells
           /\ \A c \in Cells : \E r \in Colors : c \in NaiveCells(r)
           /\ \A c, q, r : c \in NaiveCells(q) /\ c \in NaiveCells(r) => q = r
<1> DEFINE n == Cardinality(Cells)
<1>1. \A c \in Cells : RankOwner(Subdivide(n), c) \in Colors
  <2> TAKE c \in Cells
  <2>1. n \in Nat /\ c \in Nat /\ c < n
    BY MeshIs
  <2>2. Subdivide(n)[NumColors] = n
    BY <2>1, SubdivideIs
  <2> QED BY <2>1, <2>2, RankOwnerIs
<1> QED BY <1>1 DEF NaiveCells

\* CellsFor lists each cell that goes from one color to another once.
LEMMA CellsForIs ==
    ASSUME Given, NEW q, NEW r
    PROVE  /\ CellsFor(q, r) \in Seq(Cells)
           /\ ToSet(CellsFor(q, r)) = {c \in NaiveCells(q) : part[c] = r}
           /\ \A i \in 1..Len(CellsFor(q, r)) : CellsFor(q, r)[i] \in NaiveCells(q) \cap Primary(r)
           /\ \A i, j \in 1..Len(CellsFor(q, r)) : CellsFor(q, r)[i] = CellsFor(q, r)[j] => i = j
           /\ \A c \in NaiveCells(q) \cap Primary(r) :
                 \E i \in 1..Len(CellsFor(q, r)) : CellsFor(q, r)[i] = c
<1> DEFINE S == {c \in NaiveCells(q) : part[c] = r}
           n == Cardinality(S)
           s == Ordered(S)
<1>1. S \in SUBSET Cells /\ S = NaiveCells(q) \cap Primary(r)
  BY NaiveCellsAre DEF Primary
<1>2. IsFiniteSet(S) /\ S \subseteq Int
  BY <1>1, SomeCells
<1> HIDE DEF S
<1>3. /\ n \in Nat
      /\ s \in Seq(S) /\ Len(s) = n /\ DOMAIN s = 1..n
      /\ \A i \in 1..n : s[i] \in S /\ Position(s[i], S) = i - 1
      /\ ToSet(s) = S
      /\ \A x \in S : Position(x, S) + 1 \in 1..n /\ s[Position(x, S) + 1] = x
  BY <1>2, OrderedIs
<1>4. CellsFor(q, r) = s
  BY DEF CellsFor, S
<1> HIDE DEF n, s
<1>5. \A i, j \in 1..n : s[i] = s[j] => i = j
  <2> TAKE i, j \in 1..n
  <2> QED BY <1>3
<1>6. \A x \in S : \E i \in 1..n : s[i] = x
  BY <1>3
<1>7. s \in Seq(Cells)
  BY <1>1, <1>3
<1>8. \A i \in 1..n : s[i] \in S
  BY <1>3
<1> QED BY <1>1, <1>3, <1>4, <1>5, <1>6, <1>7, <1>8 DEF S

\* migrate gives a color each of its cells, once.
LEMMA CellsOfIs ==
    ASSUME Given, NEW r \in Colors
    PROVE  /\ CellsOf(r) \in Seq(Cells) /\ Len(CellsOf(r)) \in Nat
           /\ DOMAIN CellsOf(r) = 1..Len(CellsOf(r))
           /\ \A i \in 1..Len(CellsOf(r)) : CellsOf(r)[i] \in Primary(r)
           /\ \A i, j \in 1..Len(CellsOf(r)) : CellsOf(r)[i] = CellsOf(r)[j] => i = j
           /\ \A c \in Primary(r) : \E i \in 1..Len(CellsOf(r)) : CellsOf(r)[i] = c
<1> DEFINE others == [i \in 1..NumColors |-> IF i - 1 = r THEN <<>> ELSE CellsFor(i - 1, r)]
           d == Sums([q \in Colors |-> Len(others[q + 1])])
           s == CellsFor(r, r)
           t == FlattenSeq(others)
           P(i) == NaiveCells(i - 1) \cap Primary(r)
<1>1. \A i \in 1..NumColors : i - 1 \in Colors
  BY ColorsAre
<1>2. ASSUME NEW i \in 1..NumColors
      PROVE  /\ others[i] \in Seq(Cells)
             /\ \A k \in 1..Len(others[i]) : others[i][k] \in P(i) /\ i - 1 # r
             /\ \A j, k \in 1..Len(others[i]) : others[i][j] = others[i][k] => j = k
             /\ i - 1 # r => \A c \in P(i) : \E k \in 1..Len(others[i]) : others[i][k] = c
  <2>1. CASE i - 1 = r
    <3>1. others[i] = <<>> /\ Len(others[i]) = 0
      BY <2>1
    <3> HIDE DEF others
    <3> QED BY <2>1, <3>1
  <2>2. CASE i - 1 # r
    <3>1. others[i] = CellsFor(i - 1, r)
      BY <2>2
    <3> HIDE DEF others
    <3> QED BY <2>2, <3>1, CellsForIs
  <2> QED BY <2>1, <2>2
<1>3. DOMAIN others = 1..NumColors /\ others = [i \in 1..NumColors |-> others[i]]
  OBVIOUS
<1> HIDE DEF others
<1>4. Flat(t, others, NumColors, d, Cells)
  <2>1. \A i \in 1..NumColors : others[i] \in Seq(Cells)
    BY <1>2
  <2> HIDE DEF P
  <2> QED BY <1>3, <2>1, FlattenColors
<1>5. /\ s \in Seq(Cells)
      /\ \A i \in 1..Len(s) : s[i] \in NaiveCells(r) \cap Primary(r)
      /\ \A i, j \in 1..Len(s) : s[i] = s[j] => i = j
      /\ \A c \in NaiveCells(r) \cap Primary(r) : \E i \in 1..Len(s) : s[i] = c
  BY CellsForIs
<1>6. /\ t \in Seq(Cells) /\ Len(t) = d[NumColors]
      /\ \A i \in 1..NumColors : \A k \in 1..Len(others[i]) :
            d[i - 1] + k \in 1..Len(t) /\ t[d[i - 1] + k] = others[i][k]
      /\ \A j \in 1..Len(t) : \E i \in 1..NumColors : \E k \in 1..Len(others[i]) : j = d[i - 1] + k
  BY <1>4 DEF Flat
<1> HIDE DEF s, t, d
<1>7. \A j \in 1..Len(t) : \E i \in 1..NumColors : \E k \in 1..Len(others[i]) :
         j = d[i - 1] + k /\ t[j] = others[i][k]
  BY <1>6
<1>8. \A j \in 1..Len(t) : t[j] \in Primary(r) /\ t[j] \notin NaiveCells(r)
  <2> TAKE j \in 1..Len(t)
  <2>1. \E i \in 1..NumColors : \E k \in 1..Len(others[i]) : t[j] = others[i][k]
    BY <1>7
  <2>3. PICK i \in 1..NumColors : \E k \in 1..Len(others[i]) : t[j] = others[i][k]
    BY <2>1
  <2>2. t[j] \in P(i) /\ i - 1 # r
    BY <1>2, <2>3
  <2> QED BY <2>2, NaiveCellsAre
<1>9. \A j, l \in 1..Len(t) : t[j] = t[l] => j = l
  <2> TAKE j, l \in 1..Len(t)
  <2>a. PICK i \in 1..NumColors : \E k \in 1..Len(others[i]) : j = d[i - 1] + k /\ t[j] = others[i][k]
    BY <1>7
  <2>b. PICK m \in 1..NumColors : \E n \in 1..Len(others[m]) : l = d[m - 1] + n /\ t[l] = others[m][n]
    BY <1>7
  <2>1. PICK k \in 1..Len(others[i]) : j = d[i - 1] + k /\ t[j] = others[i][k]
    BY <2>a
  <2>2. PICK n \in 1..Len(others[m]) : l = d[m - 1] + n /\ t[l] = others[m][n]
    BY <2>b
  <2> SUFFICES ASSUME t[j] = t[l] PROVE j = l
    OBVIOUS
  <2>3. t[j] \in NaiveCells(i - 1) /\ t[l] \in NaiveCells(m - 1)
    BY <1>2, <2>1, <2>2
  <2>4. i - 1 = m - 1
    BY <2>3, NaiveCellsAre
  <2>5. i = m
    BY <2>4
  <2>6. k = n
    BY <1>2, <2>1, <2>2, <2>5
  <2> QED BY <2>1, <2>2, <2>5, <2>6
<1>10. \A c \in Primary(r) : c \notin NaiveCells(r) => \E j \in 1..Len(t) : t[j] = c
  <2> TAKE c \in Primary(r)
  <2> SUFFICES ASSUME c \notin NaiveCells(r) PROVE \E j \in 1..Len(t) : t[j] = c
    OBVIOUS
  <2>1. PICK q \in Colors : c \in NaiveCells(q)
    BY NaiveCellsAre, PrimaryIs
  <2>2. q + 1 \in 1..NumColors /\ (q + 1) - 1 = q /\ q # r
    BY <2>1, ColorsAre
  <2>3. \E k \in 1..Len(others[q + 1]) : others[q + 1][k] = c
    BY <1>2, <2>1, <2>2
  <2> QED BY <1>6, <2>2, <2>3
<1>11. CellsOf(r) = s \o t
  BY DEF CellsOf, others, s, t
<1> DEFINE u == s \o t
           m == Len(s)
           n == Len(t)
<1>12. m \in Nat /\ n \in Nat
  BY <1>5, <1>6
<1>13. /\ u \in Seq(Cells) /\ Len(u) = m + n /\ DOMAIN u = 1..m + n
       /\ \A i \in 1..m + n : u[i] = IF i <= m THEN s[i] ELSE t[i - m]
  <2>1. /\ u \in Seq(Cells) /\ Len(u) = Len(s) + Len(t)
        /\ \A i \in 1..Len(s) + Len(t) : u[i] = IF i <= Len(s) THEN s[i] ELSE t[i - Len(s)]
    BY <1>5, <1>6, ConcatProperties
  <2> QED BY <2>1
<1> HIDE DEF u, m, n
<1>14. \A i \in 1..m + n : i <= m => i \in 1..m /\ u[i] = s[i]
  BY <1>12, <1>13
<1>15. \A i \in 1..m + n : ~(i <= m) => i - m \in 1..n /\ u[i] = t[i - m]
  BY <1>12, <1>13
<1>16. \A i \in 1..m + n : u[i] \in Primary(r)
  BY <1>5, <1>8, <1>14, <1>15 DEF m, n
<1>17. \A i, j \in 1..m + n : u[i] = u[j] => i = j
  <2> TAKE i, j \in 1..m + n
  <2>1. CASE i <= m /\ j <= m
    BY <1>5, <1>14, <2>1 DEF m
  <2>2. CASE ~(i <= m) /\ ~(j <= m)
    <3>1. u[i] = u[j] => i - m = j - m
      BY <1>9, <1>15, <2>2 DEF n
    <3> QED BY <1>12, <3>1
  <2>3. CASE i <= m /\ ~(j <= m)
    BY <1>5, <1>8, <1>14, <1>15, <2>3 DEF m, n
  <2>4. CASE ~(i <= m) /\ j <= m
    BY <1>5, <1>8, <1>14, <1>15, <2>4 DEF m, n
  <2> QED BY <2>1, <2>2, <2>3, <2>4
<1>18. \A c \in Primary(r) : \E i \in 1..m + n : u[i] = c
  <2> TAKE c \in Primary(r)
  <2>1. CASE c \in NaiveCells(r)
    <3>1. PICK i \in 1..m : s[i] = c
      BY <1>5, <2>1 DEF m
    <3>2. i \in 1..m + n /\ i <= m
      BY <1>12
    <3> QED BY <1>14, <3>1, <3>2
  <2>2. CASE c \notin NaiveCells(r)
    <3>1. PICK j \in 1..n : t[j] = c
      BY <1>10, <2>2 DEF n
    <3>2. m + j \in 1..m + n /\ ~(m + j <= m) /\ (m + j) - m = j
      BY <1>12
    <3> QED BY <1>15, <3>1, <3>2
  <2> QED BY <2>1, <2>2
<1> QED BY <1>11, <1>12, <1>13, <1>16, <1>17, <1>18 DEF u

-----------------------------------------------------------------------------
(* The new numbers of the cells *)

\* Each cell is at one place of the list of its color.
LEMMA IndexIs ==
    ASSUME Given
    PROVE  /\ \A c \in Cells : /\ Index(c) \in 1..Len(CellsOf(part[c])) /\ Index(c) \in Nat
                               /\ CellsOf(part[c])[Index(c)] = c
           /\ \A r \in Colors : \A i \in 1..Len(CellsOf(r)) :
                 /\ CellsOf(r)[i] \in Cells /\ part[CellsOf(r)[i]] = r
                 /\ Index(CellsOf(r)[i]) = i
<1>1. ASSUME NEW c \in Cells
      PROVE  /\ Index(c) \in 1..Len(CellsOf(part[c])) /\ Index(c) \in Nat
             /\ CellsOf(part[c])[Index(c)] = c
  <2> DEFINE s == CellsOf(part[c])
  <2>1. part[c] \in Colors /\ c \in Primary(part[c])
    BY MeshIs, PrimaryIs
  <2>2. DOMAIN s = 1..Len(s) /\ Len(s) \in Nat /\ \E i \in 1..Len(s) : s[i] = c
    BY <2>1, CellsOfIs
  <2>3. Index(c) = CHOOSE i \in DOMAIN s : s[i] = c
    BY DEF Index, PlaceOf
  <2> HIDE DEF s
  <2>4. Index(c) \in DOMAIN s /\ s[Index(c)] = c
    BY <2>2, <2>3
  <2> QED BY <2>2, <2>4 DEF s
<1>2. ASSUME NEW r \in Colors, NEW i \in 1..Len(CellsOf(r))
      PROVE  /\ CellsOf(r)[i] \in Cells /\ part[CellsOf(r)[i]] = r
             /\ Index(CellsOf(r)[i]) = i
  <2> DEFINE c == CellsOf(r)[i]
  <2>1. c \in Cells /\ part[c] = r
    BY CellsOfIs, PrimaryIs
  <2>2. Index(c) \in 1..Len(CellsOf(r)) /\ CellsOf(r)[Index(c)] = c
    BY <1>1, <2>1
  <2>3. Index(c) = i
    BY <2>2, CellsOfIs
  <2> QED BY <2>1, <2>3
<1> QED BY <1>1, <1>2

\* Dist are the sums of the numbers of cells.
LEMMA DistIs ==
    ASSUME Given
    PROVE  /\ Dist \in [0..NumColors -> Nat] /\ Dist[0] = 0
           /\ \A q \in Colors : Dist[q + 1] = Dist[q] + Len(CellsOf(q)) /\ Dist[q] \in Nat /\ Dist[q + 1] \in Nat
           /\ \A p, q \in 0..NumColors : p <= q => Dist[p] <= Dist[q]
<1>1. \A q \in Colors : CellCounts[q] = Len(CellsOf(q)) /\ CellCounts[q] \in Nat
  BY CellsOfIs DEF CellCounts
<1>2. /\ Dist \in [0..NumColors -> Nat] /\ Dist[0] = 0
      /\ \A q \in 0..NumColors - 1 : Dist[q + 1] = Dist[q] + CellCounts[q]
      /\ \A p, q \in 0..NumColors : p <= q => Dist[p] <= Dist[q]
  BY <1>1, SumsAre DEF Dist
<1>3. \A q \in Colors : q \in 0..NumColors - 1 /\ q \in 0..NumColors /\ q + 1 \in 0..NumColors
  BY ColorsAssumption DEF Colors
<1> QED BY <1>1, <1>2, <1>3

\* The new numbers are distinct, and each tells its color.
LEMMA IdIs ==
    ASSUME Given
    PROVE  /\ \A c \in Cells : /\ Id(c) \in Nat /\ Id(c) - Dist[part[c]] = Index(c) - 1
                               /\ Dist[part[c]] <= Id(c) /\ Id(c) < Dist[part[c] + 1]
                               /\ RankOwner(Dist, Id(c)) = part[c]
           /\ \A c, d \in Cells : Id(c) = Id(d) => c = d
           /\ \A r \in Colors : \A i \in 1..Len(CellsOf(r)) :
                 CellId(r, Dist, i) = Id(CellsOf(r)[i])
<1>1. ASSUME NEW c \in Cells
      PROVE  /\ Id(c) \in Nat /\ Id(c) - Dist[part[c]] = Index(c) - 1
             /\ Dist[part[c]] <= Id(c) /\ Id(c) < Dist[part[c] + 1]
             /\ RankOwner(Dist, Id(c)) = part[c]
  <2> DEFINE p == part[c]
             m == Index(c)
             l == Len(CellsOf(p))
  <2>1. p \in Colors /\ p \in Nat /\ p + 1 \in 1..NumColors
    BY MeshIs, ColorsAre
  <2>2. l \in Nat /\ m \in 1..l
    BY <2>1, IndexIs, CellsOfIs
  <2>3. Dist[p] \in Nat /\ Dist[p + 1] \in Nat /\ Dist[p + 1] = Dist[p] + l
    BY <2>1, DistIs
  <2>4. Id(c) = Dist[p] + m - 1
    BY DEF Id
  <2> HIDE DEF p, m, l
  <2>5. /\ Id(c) \in Nat /\ Id(c) - Dist[p] = m - 1
        /\ Dist[p] <= Id(c) /\ Id(c) < Dist[p + 1]
    BY <2>2, <2>3, <2>4
  <2>6. RankOwner(Dist, Id(c)) = p
    <3>1. \A r \in 1..NumColors : r <= p \/ p + 1 <= r
      BY <2>1
    <3>2. \A r \in 1..NumColors : r \in 0..NumColors /\ Dist[r] \in Nat
      BY ColorsAre, DistIs
    <3>3. p \in 0..NumColors /\ p + 1 \in 0..NumColors
      BY <2>1, ColorsAssumption
    <3>4. \A r \in 1..NumColors : r <= p => Dist[r] <= Dist[p]
      BY <3>2, <3>3, DistIs
    <3>5. \A r \in 1..NumColors : p + 1 <= r => Dist[p + 1] <= Dist[r]
      BY <3>2, <3>3, DistIs
    <3>6. \A r \in 1..NumColors : Dist[r] <= Id(c) <=> r <= p
      BY <2>1, <2>3, <2>5, <3>1, <3>2, <3>4, <3>5
    <3>7. {r \in 1..NumColors : Dist[r] <= Id(c)} = 1..p
      <4>1. {r \in 1..NumColors : Dist[r] <= Id(c)} = {r \in 1..NumColors : r <= p}
        BY <3>6
      <4>2. {r \in 1..NumColors : r <= p} = 1..p
        BY <2>1, ColorsAssumption
      <4> QED BY <4>1, <4>2
    <3>8. Cardinality(1..p) = p
      <4>1. 1 \in Int /\ p \in Int
        BY <2>1
      <4>2. Cardinality(1..p) = IF 1 > p THEN 0 ELSE p - 1 + 1
        BY <4>1, FS_Interval
      <4> QED BY <2>1, <4>2
    <3> QED BY <3>7, <3>8 DEF RankOwner
  <2> QED BY <2>5, <2>6 DEF p, m
<1>2. \A c, d \in Cells : Id(c) = Id(d) => c = d
  <2> TAKE c, d \in Cells
  <2> SUFFICES ASSUME Id(c) = Id(d) PROVE c = d
    OBVIOUS
  <2>1. part[c] = part[d]
    BY <1>1
  <2>2. Index(c) - 1 = Index(d) - 1
    BY <1>1, <2>1
  <2>3. Index(c) = Index(d)
    BY <2>2, IndexIs
  <2> QED BY <2>1, <2>3, IndexIs
<1>3. \A r \in Colors : \A i \in 1..Len(CellsOf(r)) : CellId(r, Dist, i) = Id(CellsOf(r)[i])
  BY IndexIs DEF CellId, Id
<1> QED BY <1>1, <1>2, <1>3

\* The number of a cell leads back to it.
LEMMA NumberedIs ==
    ASSUME Given, NEW c \in Cells
    PROVE  FlattenSeq([i \in 1..NumColors |-> CellsOf(i - 1)])[Id(c) + 1] = c
<1> DEFINE seqs == [i \in 1..NumColors |-> CellsOf(i - 1)]
           p == part[c]
<1>1. \A i \in 1..NumColors : seqs[i] \in Seq(Cells)
  BY ColorsAre, CellsOfIs
<1>2. \A q \in Colors : q + 1 \in 1..NumColors /\ (q + 1) - 1 = q /\ seqs[q + 1] = CellsOf(q)
  BY ColorsAre
<1>3. [q \in Colors |-> Len(seqs[q + 1])] = CellCounts
  BY <1>2 DEF CellCounts
<1>4. DOMAIN seqs = 1..NumColors /\ seqs = [i \in 1..NumColors |-> seqs[i]]
  OBVIOUS
<1> HIDE DEF seqs
<1>5. Flat(FlattenSeq(seqs), seqs, NumColors, Dist, Cells)
  BY <1>1, <1>3, <1>4, FlattenColors DEF Dist
<1>6. p \in Colors /\ p \in Nat
  BY MeshIs, ColorsAre
<1>7. Index(c) \in 1..Len(seqs[p + 1]) /\ seqs[p + 1][Index(c)] = c /\ Index(c) \in Nat
  BY <1>2, <1>6, IndexIs
<1>8. FlattenSeq(seqs)[Dist[p] + Index(c)] = c
  <2>1. FlattenSeq(seqs)[Dist[(p + 1) - 1] + Index(c)] = seqs[p + 1][Index(c)]
    BY <1>2, <1>5, <1>6, <1>7 DEF Flat
  <2> QED BY <1>2, <1>6, <1>7, <2>1
<1>9. Id(c) + 1 = Dist[p] + Index(c)
  BY <1>6, <1>7, DistIs DEF Id
<1> QED BY <1>8, <1>9 DEF seqs

-----------------------------------------------------------------------------
(* What a color learns of the neighbors of its cells *)

Learned(r) == Incidence(Primary(r)) \cup HomedHere(r) \cup UNION {HomeReply(q, r) : q \in Colors}

LEMMA IncidenceIs ==
    ASSUME NEW S
    PROVE  \A p : p \in Incidence(S) <=> \E c \in S : \E v \in mesh[c] : p = <<v, Id(c)>>
  BY DEF Incidence

\* A color learns from the homes which cells are at the vertices of its own.
LEMMA LearnedIs ==
    ASSUME Given, NEW r \in Colors, NEW c \in Primary(r)
    PROVE  /\ \A p \in Learned(r) : \E x \in Cells : \E v \in mesh[x] : p = <<v, Id(x)>>
           /\ \A v \in mesh[c], x \in Cells : <<v, Id(x)>> \in Learned(r) <=> v \in mesh[x]
<1>1. ASSUME NEW p \in Learned(r) PROVE \E x \in Cells : \E v \in mesh[x] : p = <<v, Id(x)>>
  <2>1. p \in Incidence(Primary(r)) \/ p \in Incidence(Cells)
    BY DEF Learned, HomedHere, HomeReply, HomedAt
  <2> QED BY <2>1, IncidenceIs, PrimaryIs
<1>2. ASSUME NEW v \in mesh[c], NEW x \in Cells, <<v, Id(x)>> \in Learned(r) PROVE v \in mesh[x]
  <2>1. PICK y \in Cells : \E w \in mesh[y] : <<v, Id(x)>> = <<w, Id(y)>>
    BY <1>1, <1>2
  <2>2. v \in mesh[y] /\ Id(x) = Id(y)
    BY <2>1
  <2> QED BY <2>2, IdIs
<1>3. ASSUME NEW v \in mesh[c], NEW x \in Cells, v \in mesh[x] PROVE <<v, Id(x)>> \in Learned(r)
  <2> DEFINE p == <<v, Id(x)>>
             own == <<v, Id(c)>>
  <2>1. c \in Cells /\ v \in Vertices
    BY PrimaryIs DEF Vertices
  <2>2. p \in Incidence(Cells) /\ own \in Incidence(Primary(r))
    BY <1>3, <2>1, IncidenceIs
  <2>3. p[1] = v /\ own[1] = v
    OBVIOUS
  <2> HIDE DEF p, own
  <2>4. PICK h \in Colors : h = Home(v)
    BY <2>1, HomeIs
  <2>5. p \in HomedHere(h)
    BY <2>2, <2>3, <2>4 DEF HomedHere, HomedAt
  <2>6. CASE h = r
    BY <2>5, <2>6 DEF Learned, p
  <2>7. CASE h # r
    <3>1. own \in HomedFrom(r, h)
      BY <2>2, <2>3, <2>4, <2>7 DEF HomedFrom, HomedAt
    <3>2. p \in HomeReply(h, r)
      BY <2>3, <2>5, <3>1 DEF HomeReply
    <3> QED BY <3>2 DEF Learned, p
  <2> QED BY <2>6, <2>7
<1> QED BY <1>1, <1>2, <1>3

LEMMA TouchesIs ==
    ASSUME Given
    PROVE  /\ \A c, d \in Cells : Touches(c, d) <=> Touches(d, c)
           /\ \A c, d \in Cells : Touches(c, d) => c # d /\ \E v : v \in mesh[c] /\ v \in mesh[d]
<1>1. ASSUME NEW c \in Cells, NEW d \in Cells PROVE Touches(c, d) <=> Touches(d, c)
  <2>1. mesh[c] \cap mesh[d] = mesh[d] \cap mesh[c]
    OBVIOUS
  <2> QED BY <2>1 DEF Touches
<1>2. ASSUME NEW c \in Cells, NEW d \in Cells, Touches(c, d)
      PROVE c # d /\ \E v : v \in mesh[c] /\ v \in mesh[d]
  <2>1. MinConnections \in Nat \ {0} /\ Cardinality(mesh[c] \cap mesh[d]) \in Nat
    BY ConnectionsAssumption, CommonVertices
  <2>2. Cardinality(mesh[c] \cap mesh[d]) > 0
    BY <1>2, <2>1 DEF Touches
  <2> QED BY <1>2, <2>2, CommonVertices DEF Touches
<1> QED BY <1>1, <1>2

\* A color finds the neighbors of its cells.
LEMMA NeighborsFound ==
    ASSUME Given, NEW r \in Colors, NEW i \in 1..Len(CellsOf(r)),
           Knows(r, "cells", CellsOf(r)), Knows(r, "dist", Dist)
    PROVE  DcrsNeighbors(r, Learned(r), i) =
              {Id(d) : d \in {x \in Cells : Touches(CellsOf(r)[i], x)}}
<1> DEFINE c == CellsOf(r)[i]
           L == Learned(r)
<1>1. c \in Cells /\ c \in Primary(r) /\ CellId(r, Dist, i) = Id(c)
  BY IndexIs, IdIs, PrimaryIs
<1>2. mine[r].cells[i] = c /\ mine[r].dist = Dist
  BY DEF Knows
<1> HIDE DEF c
<1>3. /\ \A p \in L : \E x \in Cells : \E v \in mesh[x] : p = <<v, Id(x)>>
      /\ \A v \in mesh[c], x \in Cells : <<v, Id(x)>> \in L <=> v \in mesh[x]
  BY <1>1, LearnedIs
<1> HIDE DEF L
<1>4. \A x \in Cells : Connections(r, L, i, Id(x)) = Cardinality(mesh[c] \cap mesh[x])
  <2> TAKE x \in Cells
  <2>1. {v \in mesh[c] : <<v, Id(x)>> \in L} = mesh[c] \cap mesh[x]
    BY <1>3
  <2> QED BY <1>2, <2>1 DEF Connections
<1>5. DcrsNeighbors(r, L, i) = {d \in {p[2] : p \in L} \ {Id(c)} :
                                   Connections(r, L, i, d) >= MinConnections}
  BY <1>1, <1>2 DEF DcrsNeighbors
<1>6. ASSUME NEW d \in DcrsNeighbors(r, L, i)
      PROVE  d \in {Id(x) : x \in {y \in Cells : Touches(c, y)}}
  <2>1. PICK p \in L : d = p[2]
    BY <1>5
  <2>2. PICK x \in Cells : \E v \in mesh[x] : p = <<v, Id(x)>>
    BY <1>3
  <2>3. d = Id(x)
    BY <2>1, <2>2
  <2>4. x # c /\ Cardinality(mesh[c] \cap mesh[x]) >= MinConnections
    BY <1>4, <1>5, <2>3
  <2> QED BY <2>3, <2>4 DEF Touches
<1>7. ASSUME NEW x \in Cells, Touches(c, x) PROVE Id(x) \in DcrsNeighbors(r, L, i)
  <2>1. PICK v : v \in mesh[c] /\ v \in mesh[x]
    BY <1>1, <1>7, TouchesIs
  <2> DEFINE p == <<v, Id(x)>>
  <2>2. p \in L /\ p[2] = Id(x)
    BY <1>3, <2>1
  <2>3. Id(x) \in {e[2] : e \in L}
    <3> HIDE DEF p
    <3> QED BY <2>2
  <2>4. Id(x) # Id(c)
    BY <1>1, <1>7, IdIs DEF Touches
  <2>5. Connections(r, L, i, Id(x)) >= MinConnections
    BY <1>4, <1>7 DEF Touches
  <2> QED BY <1>5, <2>3, <2>4, <2>5
<1> QED BY <1>6, <1>7 DEF c, L

\* The cells of a color, with the colors that have them as ghosts.
NumberedCell(r, c) == Entity(Id(c), r, Index(c) - 1, CellUsers(c))

\* A cell is used by the colors with a cell that touches it.
LEMMA CellUsersAre ==
    ASSUME Given
    PROVE  /\ \A c \in Cells : CellUsers(c) \in SUBSET Colors /\ part[c] \notin CellUsers(c)
           /\ \A c \in Cells : \A r : r \in CellUsers(c) <=>
                 part[c] # r /\ \E d \in Primary(r) : Touches(d, c)
<1>1. ASSUME NEW c \in Cells PROVE CellUsers(c) \in SUBSET Colors /\ part[c] \notin CellUsers(c)
  BY MeshIs DEF CellUsers
<1>2. ASSUME NEW c \in Cells, NEW r
      PROVE  r \in CellUsers(c) <=> part[c] # r /\ \E d \in Primary(r) : Touches(d, c)
  <2>1. r \in CellUsers(c) <=> part[c] # r /\ \E d \in Cells : Touches(c, d) /\ part[d] = r
    BY DEF CellUsers
  <2>2. \A d : d \in Primary(r) <=> d \in Cells /\ part[d] = r
    BY PrimaryIs
  <2> QED BY <2>1, <2>2, TouchesIs
<1> QED BY <1>1, <1>2

\* get_owner_info comes to the coloring that the mesh and partition give.
LEMMA CellColoringIs ==
    ASSUME Given, NEW r \in Colors, Knows(r, "cells", CellsOf(r)), Knows(r, "dist", Dist)
    PROVE  OwnerInfo(r, [i \in DOMAIN mine[r].cells |-> DcrsNeighbors(r, Learned(r), i)]) = DcrsCells(r)
<1> DEFINE N == [i \in DOMAIN mine[r].cells |-> DcrsNeighbors(r, Learned(r), i)]
           n == Len(CellsOf(r))
           c(i) == CellsOf(r)[i]
           away == [i \in DOMAIN N |-> {d \in N[i] : RankOwner(mine[r].dist, d) # r}]
           own  == {Entity(CellId(r, mine[r].dist, i), r, i - 1,
                         {RankOwner(mine[r].dist, d) : d \in away[i]}) : i \in DOMAIN N}
           ghost == {Entity(d, RankOwner(mine[r].dist, d), d - mine[r].dist[RankOwner(mine[r].dist, d)], {r}) :
                          d \in UNION {away[i] : i \in DOMAIN N}}
           A(i) == {Id(x) : x \in {y \in Cells : Touches(c(i), y) /\ part[y] # r}}
<1>0. mine[r].cells = CellsOf(r) /\ mine[r].dist = Dist
  BY DEF Knows
<1>1. DOMAIN N = 1..n /\ n \in Nat
  BY <1>0, CellsOfIs
<1>2. \A i \in 1..n : N[i] = {Id(d) : d \in {x \in Cells : Touches(c(i), x)}}
  BY <1>1, NeighborsFound
<1>3. OwnerInfo(r, N) = [exclusive |-> {e \in own : e.shared = {}},
                         shared    |-> {e \in own : e.shared # {}}, ghost |-> ghost]
  BY DEF OwnerInfo
<1> HIDE DEF N
<1>4. ASSUME NEW i \in 1..n PROVE away[i] = A(i)
  <2>1. \A x \in Cells : RankOwner(Dist, Id(x)) = part[x]
    BY IdIs
  <2>2. away[i] = {d \in N[i] : RankOwner(Dist, d) # r}
    BY <1>0, <1>1
  <2> QED BY <1>2, <2>1, <2>2
<1>5. ASSUME NEW i \in 1..n PROVE /\ c(i) \in Cells /\ part[c(i)] = r /\ Index(c(i)) = i
                                  /\ CellId(r, Dist, i) = Id(c(i)) /\ c(i) \in Primary(r)
  BY IndexIs, IdIs, PrimaryIs
<1>6. ASSUME NEW i \in 1..n PROVE {RankOwner(mine[r].dist, d) : d \in away[i]} = CellUsers(c(i))
  <2>1. \A x \in Cells : RankOwner(Dist, Id(x)) = part[x]
    BY IdIs
  <2>2. CellUsers(c(i)) = {part[d] : d \in {x \in Cells : Touches(c(i), x)}} \ {r}
    BY <1>5 DEF CellUsers
  <2>3. \A q : q \in {RankOwner(Dist, d) : d \in A(i)} => q \in CellUsers(c(i))
    BY <2>1, <2>2
  <2>4. ASSUME NEW q \in CellUsers(c(i)) PROVE q \in {RankOwner(Dist, d) : d \in A(i)}
    <3>1. PICK x \in Cells : Touches(c(i), x) /\ part[x] = q /\ q # r
      BY <2>2
    <3>2. Id(x) \in A(i) /\ RankOwner(Dist, Id(x)) = q
      BY <2>1, <3>1
    <3> HIDE DEF A
    <3> QED BY <3>2
  <2>5. {RankOwner(Dist, d) : d \in A(i)} = CellUsers(c(i))
    <3> HIDE DEF A, c
    <3> QED BY <2>3, <2>4
  <2>6. away[i] = A(i) /\ mine[r].dist = Dist
    BY <1>0, <1>4
  <2> HIDE DEF A, c, away
  <2> QED BY <2>5, <2>6
<1>7. \A i \in 1..n : Entity(CellId(r, mine[r].dist, i), r, i - 1,
                         {RankOwner(mine[r].dist, d) : d \in away[i]}) = NumberedCell(r, c(i))
  BY <1>0, <1>5, <1>6 DEF NumberedCell
<1>8. own = {NumberedCell(r, c(i)) : i \in 1..n}
  <2> HIDE DEF c, away
  <2> QED BY <1>1, <1>7
<1>9. own = {NumberedCell(r, x) : x \in Primary(r)}
  <2>1. \A i \in 1..n : c(i) \in Primary(r)
    BY <1>5
  <2>2. \A x \in Primary(r) : \E i \in 1..n : c(i) = x
    BY CellsOfIs
  <2> HIDE DEF c, own, n
  <2> QED BY <1>8, <2>1, <2>2
<1>10. \A x : NumberedCell(r, x).shared = CellUsers(x)
  BY DEF NumberedCell, Entity
<1>11. {e \in own : e.shared = {}} = DcrsCells(r).exclusive
  <2>1. DcrsCells(r).exclusive = {Entity(Id(x), r, Index(x) - 1, {}) :
                                     x \in {y \in Primary(r) : CellUsers(y) = {}}}
    BY DEF DcrsCells
  <2>2. \A x : CellUsers(x) = {} => NumberedCell(r, x) = Entity(Id(x), r, Index(x) - 1, {})
    BY DEF NumberedCell
  <2> HIDE DEF own
  <2> QED BY <1>9, <1>10, <2>1, <2>2
<1>12. {e \in own : e.shared # {}} = DcrsCells(r).shared
  <2>1. DcrsCells(r).shared = {NumberedCell(r, x) : x \in {y \in Primary(r) : CellUsers(y) # {}}}
    BY DEF DcrsCells, NumberedCell
  <2> HIDE DEF own
  <2> QED BY <1>9, <1>10, <2>1
<1> DEFINE G(x) == Entity(Id(x), part[x], Index(x) - 1, {r})
           H(d) == Entity(d, RankOwner(mine[r].dist, d), d - mine[r].dist[RankOwner(mine[r].dist, d)], {r})
<1>13. ghost = DcrsCells(r).ghost
  <2>1. DcrsCells(r).ghost = {G(x) : x \in {y \in Cells : r \in CellUsers(y)}}
    BY DEF DcrsCells
  <2>2. \A x \in Cells : H(Id(x)) = G(x)
    BY <1>0, IdIs
  <2>3. \A x \in Cells : Id(x) \in UNION {away[i] : i \in DOMAIN N} <=> r \in CellUsers(x)
    <3> TAKE x \in Cells
    <3>1. r \in CellUsers(x) <=> part[x] # r /\ \E d \in Primary(r) : Touches(d, x)
      BY CellUsersAre
    <3>2. (\E d \in Primary(r) : Touches(d, x)) <=> \E i \in 1..n : Touches(c(i), x)
      <4>1. \A d \in Primary(r) : \E i \in 1..n : c(i) = d
        BY CellsOfIs
      <4> HIDE DEF c, n
      <4> QED BY <1>5, <4>1
    <3>3. \A i \in 1..n : Id(x) \in away[i] <=> Touches(c(i), x) /\ part[x] # r
      <4> TAKE i \in 1..n
      <4>1. Id(x) \in A(i) <=> Touches(c(i), x) /\ part[x] # r
        BY IdIs
      <4> QED BY <1>4, <4>1
    <3> HIDE DEF away, c
    <3> QED BY <1>1, <3>1, <3>2, <3>3
  <2>4. \A d \in UNION {away[i] : i \in DOMAIN N} : \E x \in Cells : d = Id(x)
    <3>1. \A i \in 1..n : \A d \in away[i] : \E x \in Cells : d = Id(x)
      BY <1>4
    <3> HIDE DEF away
    <3> QED BY <1>1, <3>1
  <2>5. ghost = {H(d) : d \in UNION {away[i] : i \in DOMAIN N}}
    OBVIOUS
  <2> HIDE DEF away, H, G, ghost
  <2> QED BY <2>1, <2>2, <2>3, <2>4, <2>5
<1>14. DcrsCells(r) = [exclusive |-> DcrsCells(r).exclusive, shared |-> DcrsCells(r).shared,
                       ghost |-> DcrsCells(r).ghost]
  BY DEF DcrsCells
<1> HIDE DEF own, ghost, away
<1> QED BY <1>3, <1>11, <1>12, <1>13, <1>14 DEF N

\* What a home knows of its vertices, and what it answers.
LEMMA HomeKnows ==
    ASSUME Given, NEW r \in Colors
    PROVE  /\ Incidence(Primary(r)) \cup UNION {HomedFrom(q, r) : q \in Colors}
              = Incidence(Primary(r)) \cup HomedHere(r)
           /\ \A q \in Colors :
                 {p \in Incidence(Primary(r)) \cup HomedHere(r) :
                     \E x \in HomedFrom(q, r) : x[1] = p[1]} = HomeReply(r, q)
<1>0. \A S : \A p : p \in Incidence(S) <=> \E c \in S : \E v \in mesh[c] : p = <<v, Id(c)>>
  BY IncidenceIs
<1>1. \A S \in SUBSET Cells : Incidence(S) \subseteq Incidence(Cells)
  BY <1>0
<1>2. \A q \in Colors : HomedFrom(q, r) \subseteq HomedHere(r)
  <2> TAKE q \in Colors
  <2>1. Incidence(Primary(q)) \subseteq Incidence(Cells)
    BY <1>1, PrimaryIs
  <2> QED BY <2>1 DEF HomedFrom, HomedHere, HomedAt
<1>3. ASSUME NEW p \in HomedHere(r), p \notin Incidence(Primary(r))
      PROVE  \E q \in Colors : p \in HomedFrom(q, r)
  <2>1. p \in Incidence(Cells) /\ Home(p[1]) = r
    BY DEF HomedHere, HomedAt
  <2>2. PICK c \in Cells : \E v \in mesh[c] : p = <<v, Id(c)>>
    BY <1>0, <2>1
  <2>3. part[c] \in Colors /\ p \in Incidence(Primary(part[c]))
    BY <1>0, <2>2, PrimaryIs, MeshIs
  <2>4. part[c] # r
    BY <1>3, <2>3
  <2> QED BY <2>1, <2>3, <2>4 DEF HomedFrom, HomedAt
<1>4. ASSUME NEW q \in Colors
      PROVE  {p \in Incidence(Primary(r)) \cup HomedHere(r) :
                     \E x \in HomedFrom(q, r) : x[1] = p[1]} = HomeReply(r, q)
  <2>1. \A x \in HomedFrom(q, r) : Home(x[1]) = r
    BY DEF HomedFrom, HomedAt
  <2>2. Incidence(Primary(r)) \subseteq Incidence(Cells)
    BY <1>1, PrimaryIs
  <2>3. \A p \in Incidence(Primary(r)) : Home(p[1]) = r => p \in HomedHere(r)
    BY <2>2 DEF HomedHere, HomedAt
  <2> QED BY <2>1, <2>3 DEF HomeReply
<1> QED BY <1>2, <1>3, <1>4

-----------------------------------------------------------------------------
(* What a color works out from its cells *)

\* What a color works out from the cells it has.
LEMMA FromCells ==
    ASSUME Given, NEW r \in Colors, Knows(r, "cells", CellsOf(r))
    PROVE  /\ LocalIncidence(r, Dist) = Incidence(Primary(r))
           /\ EdgesOf(r) = EdgesFrom(r)
           /\ \A q : EdgesAt(r, q) = EdgeList(r, q)
           /\ LocalVertices(r) = LocalVerts(r)
<1> DEFINE n == Len(CellsOf(r))
           c(i) == CellsOf(r)[i]
<1>1. mine[r].cells = CellsOf(r) /\ DOMAIN mine[r].cells = 1..n
  BY CellsOfIs DEF Knows
<1>2. /\ \A i \in 1..n : c(i) \in Primary(r) /\ CellId(r, Dist, i) = Id(c(i))
      /\ \A x \in Primary(r) : \E i \in 1..n : c(i) = x
  BY CellsOfIs, IdIs
<1> HIDE DEF n
<1>3. LocalIncidence(r, Dist) = Incidence(Primary(r))
  <2>1. LocalIncidence(r, Dist) = UNION {{<<v, CellId(r, Dist, i)>> : v \in mesh[c(i)]} : i \in 1..n}
    BY <1>1 DEF LocalIncidence
  <2>2. \A i \in 1..n : {<<v, CellId(r, Dist, i)>> : v \in mesh[c(i)]} = {<<v, Id(c(i))>> : v \in mesh[c(i)]}
    BY <1>2
  <2> DEFINE T(x) == {<<v, Id(x)>> : v \in mesh[x]}
             U(i) == {<<v, CellId(r, Dist, i)>> : v \in mesh[c(i)]}
  <2>3. Incidence(Primary(r)) = UNION {T(x) : x \in Primary(r)}
    BY DEF Incidence
  <2>4. LocalIncidence(r, Dist) = UNION {U(i) : i \in 1..n} /\ \A i \in 1..n : U(i) = T(c(i))
    BY <2>1, <2>2
  <2> HIDE DEF T, U, c
  <2> QED BY <1>2, <2>3, <2>4
<1>4. EdgesOf(r) = EdgesFrom(r)
  <2> DEFINE T(x) == kSubset(2, mesh[x])
  <2>1. EdgesFrom(r) = UNION {T(x) : x \in Primary(r)}
    BY DEF EdgesFrom
  <2>2. EdgesOf(r) = UNION {T(c(i)) : i \in 1..n}
    BY <1>1 DEF EdgesOf
  <2> HIDE DEF T, c
  <2> QED BY <1>2, <2>1, <2>2
<1>5. \A q : EdgesAt(r, q) = EdgeList(r, q)
  BY <1>4 DEF EdgesAt, EdgeList, EdgeKey
<1>6. LocalVertices(r) = LocalVerts(r)
  <2> DEFINE V == UNION {mesh[c(i)] : i \in 1..n}
  <2>1. V = OwnVertexSet(r)
    <3>1. OwnVertexSet(r) = UNION {mesh[x] : x \in Primary(r)}
      BY DEF OwnVertexSet
    <3> HIDE DEF c
    <3> QED BY <1>2, <3>1
  <2>2. LocalVertices(r) = Reverse(Ordered(V))
    BY <1>1 DEF LocalVertices
  <2> HIDE DEF V
  <2> QED BY <2>1, <2>2 DEF LocalVerts
<1> QED BY <1>3, <1>4, <1>5, <1>6

\* What it works out from the coloring of its cells.
LEMMA FromSharedCells ==
    ASSUME Given, NEW r \in Colors, Knows(r, "cells", CellsOf(r)),
           Knows(r, "cellColoring", DcrsCells(r))
    PROVE  /\ \A q : UNION {VerticesOf(r, c) :
                    c \in {x \in mine[r].cellColoring.shared : q # r /\ q \in x.shared}} = SharedTo(r, q)
           /\ PotentialShared(r) = PShared(r)
           /\ \A q : q # r => ConnectivityFor(r, q) = CellVertices(r, q)
<1> DEFINE S == {x \in Primary(r) : CellUsers(x) # {}}
           E(x) == NumberedCell(r, x)
<1>1. mine[r].cellColoring.shared = {E(x) : x \in S}
  BY DEF Knows, DcrsCells, NumberedCell
<1>2. \A x \in S : VerticesOf(r, E(x)) = mesh[x] /\ E(x).shared = CellUsers(x) /\ E(x).id = Id(x)
  <2> TAKE x \in S
  <2>1. x \in Cells /\ part[x] = r
    BY PrimaryIs
  <2>2. CellsOf(r)[Index(x)] = x /\ Index(x) \in Nat
    BY <2>1, IndexIs
  <2>3. E(x).offset = Index(x) - 1 /\ E(x).shared = CellUsers(x) /\ E(x).id = Id(x)
    BY DEF NumberedCell, Entity
  <2>4. E(x).offset + 1 = Index(x)
    BY <2>2, <2>3
  <2>5. mine[r].cells = CellsOf(r)
    BY DEF Knows
  <2> HIDE DEF E
  <2> QED BY <2>2, <2>3, <2>4, <2>5 DEF VerticesOf
<1> HIDE DEF E
<1>3. ASSUME NEW q
      PROVE UNION {VerticesOf(r, c) :
                    c \in {x \in mine[r].cellColoring.shared : q # r /\ q \in x.shared}} = SharedTo(r, q)
  <2>1. \A x \in Primary(r) : q \in CellUsers(x) => x \in S
    OBVIOUS
  <2>2. SharedTo(r, q) = UNION {mesh[x] : x \in {y \in S : q # r /\ q \in CellUsers(y)}}
    <3>1. {y \in S : q # r /\ q \in CellUsers(y)} = {y \in Primary(r) : q # r /\ q \in CellUsers(y)}
      BY <2>1
    <3> HIDE DEF S
    <3> QED BY <3>1 DEF SharedTo
  <2> DEFINE R == {c \in mine[r].cellColoring.shared : q # r /\ q \in c.shared}
             Q == {y \in S : q # r /\ q \in CellUsers(y)}
  <2>3. \A c \in R : \E y \in Q : c = E(y)
    <3> HIDE DEF S
    <3> QED BY <1>1, <1>2
  <2>4. \A y \in Q : E(y) \in R /\ y \in S
    <3> HIDE DEF S
    <3> QED BY <1>1, <1>2
  <2>5. \A x : x \in UNION {VerticesOf(r, c) : c \in R} => \E y \in Q : x \in mesh[y]
    <3> HIDE DEF S, R
    <3>1. \A y \in Q : VerticesOf(r, E(y)) = mesh[y]
      BY <1>2, <2>4
    <3> HIDE DEF Q
    <3> QED BY <2>3, <3>1
  <2>6. \A y \in Q : \A x \in mesh[y] : x \in UNION {VerticesOf(r, c) : c \in R}
    <3> HIDE DEF S, R
    <3>1. \A y \in Q : VerticesOf(r, E(y)) = mesh[y] /\ E(y) \in R
      BY <1>2, <2>4
    <3> HIDE DEF Q
    <3> QED BY <3>1
  <2>7. UNION {VerticesOf(r, c) : c \in R} = UNION {mesh[y] : y \in Q}
    <3> HIDE DEF R, Q
    <3> QED BY <2>5, <2>6
  <2> QED BY <2>2, <2>7
<1>4. PotentialShared(r) = PShared(r)
  <2>1. PShared(r) = UNION {mesh[x] : x \in S}
    BY DEF PShared
  <2>2. PotentialShared(r) = UNION {VerticesOf(r, c) : c \in {E(x) : x \in S}}
    BY <1>1 DEF PotentialShared
  <2> HIDE DEF S
  <2> QED BY <1>2, <2>1, <2>2
<1>5. ASSUME NEW q, q # r PROVE ConnectivityFor(r, q) = CellVertices(r, q)
  <2>1. ConnectivityFor(r, q) = {<<c.id, VerticesOf(r, c)>> : c \in {x \in {E(y) : y \in S} : q \in x.shared}}
    BY <1>1 DEF ConnectivityFor
  <2>2. CellVertices(r, q) = {<<Id(c), mesh[c]>> : c \in {x \in Primary(r) : q \in CellUsers(x)}}
    BY <1>5 DEF CellVertices
  <2>3. {x \in Primary(r) : q \in CellUsers(x)} = {x \in S : q \in CellUsers(x)}
    OBVIOUS
  <2> DEFINE Q == {x \in S : q \in CellUsers(x)}
             R == {x \in {E(y) : y \in S} : q \in x.shared}
  <2>4. \A c \in R : \E y \in Q : c = E(y)
    <3> HIDE DEF S
    <3> QED BY <1>2
  <2>5. \A y \in Q : E(y) \in R /\ <<E(y).id, VerticesOf(r, E(y))>> = <<Id(y), mesh[y]>>
    <3> HIDE DEF S
    <3> QED BY <1>2
  <2>6. ConnectivityFor(r, q) = {<<c.id, VerticesOf(r, c)>> : c \in R}
    BY <2>1
  <2>7. CellVertices(r, q) = {<<Id(c), mesh[c]>> : c \in Q}
    BY <2>2, <2>3
  <2> HIDE DEF Q, R
  <2>8. ASSUME NEW x \in ConnectivityFor(r, q) PROVE x \in CellVertices(r, q)
    <3>1. PICK c \in R : x = <<c.id, VerticesOf(r, c)>>
      BY <2>6
    <3>2. PICK y \in Q : c = E(y)
      BY <2>4
    <3>3. x = <<Id(y), mesh[y]>>
      BY <2>5, <3>1, <3>2
    <3> QED BY <2>7, <3>3
  <2>9. ASSUME NEW x \in CellVertices(r, q) PROVE x \in ConnectivityFor(r, q)
    <3>1. PICK y \in Q : x = <<Id(y), mesh[y]>>
      BY <2>7
    <3>2. E(y) \in R /\ x = <<E(y).id, VerticesOf(r, E(y))>>
      BY <2>5, <3>1
    <3> QED BY <2>6, <3>2
  <2> QED BY <2>8, <2>9
<1> QED BY <1>3, <1>4, <1>5

\* What the owners of cells say of them reaches all their users.
LEMMA ToldOfGhosts ==
    ASSUME Given, NEW r \in Colors
    PROVE  /\ UNION {SharedTo(q, r) : q \in Colors} = PGhost(r)
           /\ UNION {CellVertices(q, r) : q \in Colors} = GhostVertsOf(r)
<1> DEFINE C == {x \in Cells : r \in CellUsers(x)}
           D(q) == {x \in Primary(q) : r # q /\ r \in CellUsers(x)}
<1>1. \A q \in Colors : D(q) \subseteq C
  BY PrimaryIs
<1>2. \A c \in C : part[c] \in Colors /\ c \in D(part[c])
  BY PrimaryIs, MeshIs, CellUsersAre
<1>3. \A q : SharedTo(q, r) = UNION {mesh[c] : c \in D(q)}
  BY DEF SharedTo
<1>4. \A q : CellVertices(q, r) = {<<Id(c), mesh[c]>> : c \in D(q)}
  BY DEF CellVertices
<1>5. PGhost(r) = UNION {mesh[c] : c \in C} /\ GhostVertsOf(r) = {<<Id(c), mesh[c]>> : c \in C}
  BY DEF PGhost, GhostVertsOf
<1> HIDE DEF C, D
<1>6. UNION {SharedTo(q, r) : q \in Colors} = PGhost(r)
  BY <1>1, <1>2, <1>3, <1>5
<1>7. UNION {CellVertices(q, r) : q \in Colors} = GhostVertsOf(r)
  BY <1>1, <1>2, <1>4, <1>5
<1> QED BY <1>6, <1>7

-----------------------------------------------------------------------------
(* Who owns a vertex, among those whose shared cells have it *)

\* local2global has each vertex of a color's cells once.
LEMMA LocalVertsAre ==
    ASSUME Given, NEW r \in Colors
    PROVE  /\ OwnVertexSet(r) \in SUBSET Vertices
           /\ DOMAIN LocalVerts(r) = 1..Len(LocalVerts(r))
           /\ \A i \in DOMAIN LocalVerts(r) : /\ LocalVerts(r)[i] \in OwnVertexSet(r)
                                              /\ LocalOffset(r, LocalVerts(r)[i]) = i - 1
           /\ \A v \in OwnVertexSet(r) : \E i \in DOMAIN LocalVerts(r) : LocalVerts(r)[i] = v
<1> DEFINE V == OwnVertexSet(r)
           n == Cardinality(V)
           s == Ordered(V)
           t == LocalVerts(r)
<1>1. V \in SUBSET Vertices
  BY PrimaryIs DEF OwnVertexSet, Vertices
<1>2. IsFiniteSet(V) /\ V \subseteq Int
  BY <1>1, SomeVertices
<1> HIDE DEF V
<1>3. /\ n \in Nat
      /\ s \in Seq(V) /\ Len(s) = n /\ DOMAIN s = 1..n
      /\ \A i \in 1..n : s[i] \in V /\ Position(s[i], V) = i - 1
      /\ \A x \in V : Position(x, V) + 1 \in 1..n /\ s[Position(x, V) + 1] = x
  BY <1>2, OrderedIs
<1>4. t = Reverse(s)
  BY DEF LocalVerts, V
<1> HIDE DEF n, s, t
<1>5. t = [i \in 1..n |-> s[(n - i) + 1]]
  BY <1>3, <1>4 DEF Reverse
<1>6. DOMAIN t = 1..n /\ Len(t) = n
  <2>1. \A i \in 1..n : t[i] \in V
    BY <1>3, <1>5
  <2>2. t \in [1..n -> V]
    BY <1>5, <2>1
  <2> QED BY <1>3, <2>2
<1>7. \A i \in 1..n : (n - i) + 1 \in 1..n /\ t[i] = s[(n - i) + 1]
  BY <1>3, <1>5
<1>8. \A i, j \in 1..n : t[i] = t[j] => i = j
  <2> TAKE i, j \in 1..n
  <2> SUFFICES ASSUME t[i] = t[j] PROVE i = j
    OBVIOUS
  <2>1. ((n - i) + 1) - 1 = ((n - j) + 1) - 1
    BY <1>3, <1>7
  <2> QED BY <1>3, <2>1
<1>9. \A v \in V : \E i \in 1..n : t[i] = v
  <2> TAKE v \in V
  <2> DEFINE p == Position(v, V) + 1
  <2>1. p \in 1..n /\ s[p] = v
    BY <1>3
  <2> HIDE DEF p
  <2>2. (n - p) + 1 \in 1..n /\ (n - ((n - p) + 1)) + 1 = p
    BY <1>3, <2>1
  <2> QED BY <1>5, <2>1, <2>2
<1>10. ASSUME NEW i \in 1..n PROVE LocalOffset(r, t[i]) = i - 1
  <2>1. PlaceOf(t[i], t) = CHOOSE j \in 1..n : t[j] = t[i]
    BY <1>6 DEF PlaceOf
  <2>2. PlaceOf(t[i], t) \in 1..n /\ t[PlaceOf(t[i], t)] = t[i]
    BY <2>1
  <2>3. PlaceOf(t[i], t) = i
    BY <1>8, <2>2
  <2> QED BY <2>3 DEF LocalOffset, t
<1>11. \A i \in 1..n : t[i] \in V
  BY <1>3, <1>7
<1> QED BY <1>1, <1>6, <1>9, <1>10, <1>11 DEF t, V

\* A color claims vertices of its cells, and what it wants is claimed.
LEMMA PSharedIs ==
    ASSUME Given
    PROVE  /\ \A r : PShared(r) \in SUBSET OwnVertexSet(r)
           /\ \A r : PGhost(r) \in SUBSET Claimed
           /\ Claimed \in SUBSET Vertices
<1>1. \A r : PShared(r) \in SUBSET OwnVertexSet(r)
  BY DEF PShared, OwnVertexSet
<1>2. \A r : PGhost(r) \in SUBSET Claimed
  <2> SUFFICES ASSUME NEW r, NEW v \in PGhost(r) PROVE v \in Claimed
    OBVIOUS
  <2>1. PICK c \in Cells : r \in CellUsers(c) /\ v \in mesh[c]
    BY DEF PGhost
  <2>2. c \in Primary(part[c]) /\ CellUsers(c) # {} /\ part[c] \in Colors
    BY <2>1, PrimaryIs, MeshIs
  <2>3. v \in PShared(part[c])
    BY <2>1, <2>2 DEF PShared
  <2> QED BY <2>2, <2>3 DEF Claimed
<1>3. Claimed \in SUBSET Vertices
  BY <1>1, LocalVertsAre DEF Claimed
<1> QED BY <1>1, <1>2, <1>3

\* The claims a color sends to a home.
LEMMA ClaimsAre ==
    ASSUME Given, NEW r \in Colors, Knows(r, "cells", CellsOf(r)),
           Knows(r, "cellColoring", DcrsCells(r))
    PROVE  \A q : Claims(r, q) = ClaimsTo(r, q)
<1> TAKE q
<1> DEFINE t == LocalVerts(r)
           J == {j \in DOMAIN t : t[j] \in PShared(r) /\ Home(t[j]) = q}
<1>1. Claims(r, q) = {Entity(t[i], r, i - 1, {}) : i \in J}
  BY FromCells, FromSharedCells DEF Claims
<1>2. \A i \in DOMAIN t : Entity(t[i], r, i - 1, {}) = Claim(r, t[i])
  BY LocalVertsAre DEF Claim
<1>3. \A v \in PShared(r) : \E i \in DOMAIN t : t[i] = v
  BY LocalVertsAre, PSharedIs
<1> HIDE DEF t
<1>4. \A e \in Claims(r, q) : e \in ClaimsTo(r, q)
  BY <1>1, <1>2 DEF ClaimsTo
<1>5. ASSUME NEW e \in ClaimsTo(r, q) PROVE e \in Claims(r, q)
  <2>1. PICK v \in PShared(r) : Home(v) = q /\ e = Claim(r, v)
    BY DEF ClaimsTo
  <2>2. PICK i \in DOMAIN t : t[i] = v
    BY <1>3
  <2>3. i \in J /\ e = Entity(t[i], r, i - 1, {})
    BY <1>2, <2>1, <2>2
  <2> QED BY <1>1, <2>3
<1> QED BY <1>4, <1>5

\* The owner of a vertex is the lowest of those that claim it.
LEMMA OwnerIs ==
    ASSUME Given, NEW v \in Claimed
    PROVE  /\ Owner(v) \in Colors /\ v \in PShared(Owner(v))
           /\ \A q \in Colors : v \in PShared(q) => Owner(v) <= q
           /\ Wanting(v) # {} /\ Wanting(v) \in SUBSET Colors /\ Owner(v) \notin Wanting(v)
<1>1. Claimants(v) \in SUBSET Nat /\ Claimants(v) # {}
  BY ColorsAre DEF Claimants, Claimed
<1>2. Owner(v) \in Claimants(v) /\ \A q \in Claimants(v) : Owner(v) <= q
  BY <1>1, LeastIs DEF Owner
<1>3. /\ Owner(v) \in Colors /\ v \in PShared(Owner(v))
      /\ \A q \in Colors : v \in PShared(q) => Owner(v) <= q
  BY <1>2 DEF Claimants
<1>4. PICK c \in Primary(Owner(v)) : CellUsers(c) # {} /\ v \in mesh[c]
  BY <1>3 DEF PShared
<1>5. PICK q : q \in CellUsers(c)
  BY <1>4
<1>6. c \in Cells /\ part[c] = Owner(v)
  BY <1>4, PrimaryIs
<1>7. q \in Colors /\ q # Owner(v) /\ v \in PGhost(q)
  BY <1>4, <1>5, <1>6, CellUsersAre DEF PGhost
<1>8. q \in Wanting(v)
  BY <1>7 DEF Wanting
<1> QED BY <1>3, <1>8 DEF Wanting

\* The home gives a vertex to the lowest of those who claim it.
LEMMA OwnersFound ==
    ASSUME Given, NEW r \in Colors
    PROVE  Lowest(UNION {ClaimsTo(q, r) : q \in Colors}) = HomeOwners(r)
<1> DEFINE U == UNION {ClaimsTo(q, r) : q \in Colors}
<1>1. \A q, v : Claim(q, v).id = v /\ Claim(q, v).rank = q
  BY DEF Claim, Entity
<1>2. \A e \in U : \E q \in Colors : \E v \in PShared(q) : Home(v) = r /\ e = Claim(q, v)
  BY DEF ClaimsTo
<1>3. \A q \in Colors : \A v \in PShared(q) : Home(v) = r => Claim(q, v) \in U
  BY DEF ClaimsTo
<1>4. \A q \in Colors : \A v \in PShared(q) : v \in Claimed
  BY DEF Claimed
<1> HIDE DEF U
<1>5. ASSUME NEW e \in Lowest(U) PROVE e \in HomeOwners(r)
  <2>0. e \in U /\ \A d \in U : d.id = e.id => e.rank <= d.rank
    BY DEF Lowest
  <2>1. PICK q \in Colors : \E v \in PShared(q) : Home(v) = r /\ e = Claim(q, v)
    BY <1>2, <2>0
  <2>2. PICK v \in PShared(q) : Home(v) = r /\ e = Claim(q, v)
    BY <2>1
  <2>3. v \in Claimed /\ Owner(v) \in Colors /\ v \in PShared(Owner(v)) /\ Owner(v) <= q
    BY <1>4, OwnerIs
  <2>4. q <= Owner(v)
    BY <1>1, <1>3, <2>0, <2>2, <2>3
  <2>5. q = Owner(v)
    <3>1. q \in Nat /\ Owner(v) \in Nat
      BY <2>3, ColorsAre
    <3> QED BY <2>3, <2>4, <3>1
  <2> QED BY <2>2, <2>3, <2>5 DEF HomeOwners
<1>6. ASSUME NEW e \in HomeOwners(r) PROVE e \in Lowest(U)
  <2>1. PICK v \in Claimed : Home(v) = r /\ e = Claim(Owner(v), v)
    BY DEF HomeOwners
  <2>2. Owner(v) \in Colors /\ v \in PShared(Owner(v))
    BY OwnerIs
  <2>3. e \in U
    BY <1>3, <2>1, <2>2
  <2>4. ASSUME NEW d \in U, d.id = e.id PROVE e.rank <= d.rank
    <3>1. PICK q \in Colors : \E w \in PShared(q) : d = Claim(q, w)
      BY <1>2
    <3>2. PICK w \in PShared(q) : d = Claim(q, w)
      BY <3>1
    <3>3. w = v /\ d.rank = q /\ e.rank = Owner(v)
      BY <1>1, <2>1, <2>4, <3>2
    <3> QED BY <3>2, <3>3, OwnerIs
  <2> QED BY <2>3, <2>4 DEF Lowest
<1> QED BY <1>5, <1>6 DEF U

\* The home's table of owners and users, and no vertex in it is missed.
LEMMA TableFound ==
    ASSUME Given, NEW r \in Colors, Knows(r, "potentialGhost", PGhost(r)),
           Knows(r, "owners", HomeOwners(r)),
           \A q \in Colors : Received(r)[q][r] = GhostRequests(q, r)
    PROVE  /\ {[e EXCEPT !.shared = GhostRanks(r, e)] : e \in mine[r].owners} = HomeTable(r)
           /\ \A w \in HomedAt(r, {<<v, r>> : v \in mine[r].potentialGhost})
                  \cup UNION {{<<v, q>> : v \in Received(r)[q][r]} : q \in Colors} :
                 \E e \in HomeTable(r) : e.id = w[1]
<1>1. mine[r].owners = HomeOwners(r) /\ mine[r].potentialGhost = PGhost(r)
  BY DEF Knows
<1>2. ASSUME NEW v \in Claimed, Home(v) = r
      PROVE [Claim(Owner(v), v) EXCEPT !.shared = GhostRanks(r, Claim(Owner(v), v))] = Entry(v)
  <2>1. GhostRanks(r, Claim(Owner(v), v)) = Wanting(v)
    <3>1. Claim(Owner(v), v).id = v /\ Claim(Owner(v), v).rank = Owner(v)
      BY DEF Claim, Entity
    <3>2. \A q \in Colors : v \in Received(r)[q][r] <=> v \in PGhost(q) /\ r # q
      BY <1>2 DEF GhostRequests
    <3>3. \A q \in Colors : (IF q = r THEN Home(v) = r /\ v \in mine[r].potentialGhost
                                      ELSE v \in Received(r)[q][r]) <=> v \in PGhost(q)
      BY <1>1, <1>2, <3>2
    <3> QED BY <3>1, <3>3 DEF GhostRanks, Wanting
  <2> QED BY <2>1 DEF Claim, Entry, Entity
<1>3. {[e EXCEPT !.shared = GhostRanks(r, e)] : e \in mine[r].owners} = HomeTable(r)
  <2> DEFINE C == {x \in Claimed : Home(x) = r}
  <2>1. mine[r].owners = {Claim(Owner(v), v) : v \in C}
    BY <1>1 DEF HomeOwners
  <2>2. HomeTable(r) = {Entry(v) : v \in C}
    BY DEF HomeTable
  <2>3. \A v \in C : [Claim(Owner(v), v) EXCEPT !.shared = GhostRanks(r, Claim(Owner(v), v))] = Entry(v)
    BY <1>2
  <2> HIDE DEF C
  <2> QED BY <2>1, <2>2, <2>3
<1>4. ASSUME NEW v \in Claimed, Home(v) = r PROVE \E e \in HomeTable(r) : e.id = v
  <2>1. Entry(v) \in HomeTable(r)
    BY <1>4 DEF HomeTable
  <2>2. Entry(v).id = v
    BY DEF Entry, Entity
  <2> QED BY <2>1, <2>2
<1>5. \A w \in HomedAt(r, {<<v, r>> : v \in mine[r].potentialGhost}) : w[1] \in Claimed /\ Home(w[1]) = r
  BY <1>1, PSharedIs DEF HomedAt
<1>6. \A q \in Colors : \A v \in Received(r)[q][r] : v \in Claimed /\ Home(v) = r
  BY PSharedIs DEF GhostRequests
<1>7. \A w \in UNION {{<<v, q>> : v \in Received(r)[q][r]} : q \in Colors} : w[1] \in Claimed /\ Home(w[1]) = r
  BY <1>6
<1> QED BY <1>3, <1>4, <1>5, <1>7

\* The coloring of the vertices.
LEMMA VertexColoringIs ==
    ASSUME Given, NEW r \in Colors, Knows(r, "cells", CellsOf(r)),
           Knows(r, "cellColoring", DcrsCells(r)), Knows(r, "potentialGhost", PGhost(r)),
           NEW table, table = HomeTable(r) \cup UNION {EntriesTo(q, r) : q \in Colors}
    PROVE  /\ VertexColoring(r, table) = DcrsVertices(r)
           /\ \A d, e \in table : d.id = e.id => d = e
           /\ \A e \in DcrsVertices(r).shared : e.shared # {}
<1>1. \A v : Entry(v).id = v /\ Entry(v).rank = Owner(v) /\ Entry(v).shared = Wanting(v)
  BY DEF Entry, Entity
<1>2. \A e \in table : \E v \in Claimed : e = Entry(v)
  BY DEF HomeTable, EntriesTo
<1>3. \A v \in Claimed : Owner(v) = r \/ r \in Wanting(v) => Entry(v) \in table
  <2> TAKE v \in Claimed
  <2> SUFFICES ASSUME Owner(v) = r \/ r \in Wanting(v) PROVE Entry(v) \in table
    OBVIOUS
  <2>1. Home(v) \in Colors /\ Entry(v) \in HomeTable(Home(v))
    BY PSharedIs, HomeIs DEF HomeTable
  <2>2. CASE Home(v) = r
    BY <2>1, <2>2
  <2>3. CASE Home(v) # r
    <3>1. Entry(v) \in EntriesTo(Home(v), r)
      BY <1>1, <2>1, <2>3 DEF EntriesTo
    <3> QED BY <2>1, <3>1
  <2> QED BY <2>2, <2>3
<1>4. \A d, e \in table : d.id = e.id => d = e
  BY <1>1, <1>2
<1>5. \A e \in DcrsVertices(r).shared : e.shared # {}
  <2>1. DcrsVertices(r).shared = {Entry(v) : v \in {x \in Claimed : Owner(x) = r}}
    BY DEF DcrsVertices
  <2> QED BY <1>1, <2>1, OwnerIs
<1>6. {e \in table : e.rank = r} = {Entry(v) : v \in {x \in Claimed : Owner(x) = r}}
  BY <1>1, <1>2, <1>3
<1>7. {[e EXCEPT !.shared = {}] : e \in {x \in table : x.rank # r /\ x.id \in mine[r].potentialGhost}}
      = {[Entry(v) EXCEPT !.shared = {}] : v \in {x \in PGhost(r) : Owner(x) # r}}
  <2> DEFINE T == {x \in table : x.rank # r /\ x.id \in mine[r].potentialGhost}
             G == {x \in PGhost(r) : Owner(x) # r}
  <2>1. mine[r].potentialGhost = PGhost(r)
    BY DEF Knows
  <2>2. \A e \in T : \E v \in G : e = Entry(v)
    BY <1>1, <1>2, <2>1
  <2>3. \A v \in G : Entry(v) \in T
    <3> TAKE v \in G
    <3>1. v \in Claimed /\ r \in Wanting(v)
      BY PSharedIs DEF Wanting
    <3> QED BY <1>1, <1>3, <2>1, <3>1
  <2>4. T = {Entry(v) : v \in G}
    <3> HIDE DEF T, G
    <3> QED BY <2>2, <2>3
  <2> HIDE DEF T, G
  <2>5. {[e EXCEPT !.shared = {}] : e \in T} = {[Entry(v) EXCEPT !.shared = {}] : v \in G}
    BY <2>4
  <2> QED BY <2>5 DEF T, G
<1> DEFINE t == LocalVerts(r)
           X == {Entity(t[i], r, i - 1, {}) : i \in {j \in DOMAIN t : t[j] \notin PShared(r)}}
<1>8. X = {Claim(r, v) : v \in OwnVertexSet(r) \ PShared(r)}
  <2>1. \A i \in DOMAIN t : t[i] \in OwnVertexSet(r) /\ Entity(t[i], r, i - 1, {}) = Claim(r, t[i])
    BY LocalVertsAre DEF Claim
  <2>2. \A v \in OwnVertexSet(r) : \E i \in DOMAIN t : t[i] = v
    BY LocalVertsAre
  <2> HIDE DEF t
  <2>3. \A e \in X : e \in {Claim(r, v) : v \in OwnVertexSet(r) \ PShared(r)}
    BY <2>1
  <2>4. ASSUME NEW v \in OwnVertexSet(r) \ PShared(r) PROVE Claim(r, v) \in X
    <3>1. PICK i \in DOMAIN t : t[i] = v
      BY <2>2
    <3> QED BY <2>1, <3>1
  <2> HIDE DEF X
  <2> QED BY <2>3, <2>4
<1>9. VertexColoring(r, table) =
        [exclusive |-> X, shared |-> {e \in table : e.rank = r},
         ghost |-> {[e EXCEPT !.shared = {}] :
                       e \in {x \in table : x.rank # r /\ x.id \in mine[r].potentialGhost}}]
  BY FromCells, FromSharedCells DEF VertexColoring
<1> HIDE DEF X
<1>10. VertexColoring(r, table) = DcrsVertices(r)
  BY <1>6, <1>7, <1>8, <1>9 DEF DcrsVertices
<1> QED BY <1>4, <1>5, <1>10

-----------------------------------------------------------------------------
(* What the colorings of two colors have to do with each other *)

\* Finitely many entities with an id each.
LEMMA EntitySetIs ==
    ASSUME NEW S, IsFiniteSet(S), NEW f, NEW E,
           \A e \in E : \E x \in S : e = f[x],
           \A x \in S : f[x].id \in Nat,
           \A x, y \in S : f[x].id = f[y].id => x = y
    PROVE  IsEntities(E)
<1> DEFINE g == [x \in S |-> f[x]]
           F == {g[x] : x \in S}
<1>1. g \in Surjection(S, F)
  BY DEF Surjection
<1>2. IsFiniteSet(F)
  <2> HIDE DEF g, F
  <2> QED BY <1>1, FS_Surjection
<1>3. E \in SUBSET F
  OBVIOUS
<1>4. IsFiniteSet(E)
  BY <1>2, <1>3, FS_Subset
<1>5. \A e \in E : e.id \in Nat
  OBVIOUS
<1>6. \A d, e \in E : d.id = e.id => d = e
  OBVIOUS
<1> QED BY <1>4, <1>5, <1>6 DEF IsEntities

\* The entities of a color's coloring.
Entire(r, s) ==
    /\ IsEntities(Col(r, s).exclusive)
    /\ IsEntities(Col(r, s).shared)
    /\ IsEntities(Col(r, s).ghost)
    /\ Col(r, s) = [exclusive |-> Col(r, s).exclusive, shared |-> Col(r, s).shared,
                    ghost |-> Col(r, s).ghost]
    /\ \A e \in Col(r, s).exclusive : e = Entity(e.id, r, e.offset, {})
    /\ \A e \in Col(r, s).shared : e = Entity(e.id, r, e.offset, e.shared)
                                   /\ e.shared \in SUBSET (Colors \ {r}) /\ e.shared # {}
    /\ \A g \in Col(r, s).ghost : g.rank \in Colors \ {r}

\* A color takes for ghosts of q what q takes for shared with it.
Agree(q, r, s) ==
    /\ \A g \in Col(r, s).ghost : g.rank = q =>
          \E e \in Col(q, s).shared : r \in e.shared /\ e.id = g.id /\ e.offset = g.offset
    /\ \A e \in Col(q, s).shared : r \in e.shared =>
          \E g \in Col(r, s).ghost : g.rank = q /\ g.id = e.id /\ g.offset = e.offset

\* A color's ghosts of another are what the other shares with it: cells of
\* add_colorings,
LEMMA ClosureCellsMatch ==
    ASSUME Given, scheme = "closure", NEW r \in Colors
    PROVE  Entire(r, "cells") /\ \A q \in Colors : Agree(q, r, "cells")
<1>0. \A q : Col(q, "cells") = ClosureCells(q)
  BY DEF Col
<1> DEFINE own == [c \in Primary(r) |-> Entity(c, r, OffsetOf(r, c), NearUsers(r, c))]
           near == [c \in Nearest(r) |-> Entity(c, part[c], OffsetOf(part[c], c), {})]
<1>1. /\ IsFiniteSet(Primary(r)) /\ IsFiniteSet(Nearest(r))
      /\ \A c \in Primary(r) : c \in Nat
      /\ \A c \in Nearest(r) : c \in Nat /\ c \in Cells /\ part[c] # r /\ part[c] \in Colors
  <2>1. Primary(r) \in SUBSET Cells /\ Nearest(r) \in SUBSET Cells
    BY PrimaryIs, ClosureIs
  <2>2. IsFiniteSet(Primary(r)) /\ IsFiniteSet(Nearest(r))
    BY <2>1, SomeCells
  <2> QED BY <2>1, <2>2, MeshIs, ClosureIs
<1>2. \A q : \A c \in Nearest(q) : part[c] # q /\ c \in Cells
  BY ClosureIs
<1>3. \A c \in Primary(r) : own[c].id = c /\ own[c].shared = NearUsers(r, c)
  BY DEF Entity
<1>4. \A c \in Nearest(r) : near[c].id = c /\ near[c].rank = part[c]
                            /\ near[c].offset = OffsetOf(part[c], c)
  BY DEF Entity
<1>5. /\ \A e \in ClosureCells(r).exclusive : \E c \in Primary(r) : e = own[c] /\ NearUsers(r, c) = {}
      /\ \A e \in ClosureCells(r).shared : \E c \in Primary(r) : e = own[c] /\ NearUsers(r, c) # {}
  BY DEF ClosureCells
<1>6. ClosureCells(r).ghost = {near[c] : c \in Nearest(r)}
  BY DEF ClosureCells, NearCells, KnownCells
<1>7. IsEntities(ClosureCells(r).exclusive) /\ IsEntities(ClosureCells(r).shared)
  <2>1. \A e \in ClosureCells(r).exclusive \cup ClosureCells(r).shared : \E c \in Primary(r) : e = own[c]
    BY <1>5
  <2> HIDE DEF own
  <2> QED BY <1>1, <1>3, <2>1, EntitySetIs
<1>8. IsEntities(ClosureCells(r).ghost)
  <2> HIDE DEF near
  <2> QED BY <1>1, <1>4, <1>6, EntitySetIs
<1>9. \A e \in ClosureCells(r).exclusive : e = Entity(e.id, r, e.offset, {})
  BY <1>5 DEF Entity
<1>10. \A e \in ClosureCells(r).shared : e = Entity(e.id, r, e.offset, e.shared)
                             /\ e.shared \in SUBSET (Colors \ {r}) /\ e.shared # {}
  BY <1>5 DEF Entity, NearUsers
<1>11. \A g \in ClosureCells(r).ghost : g.rank \in Colors \ {r}
  <2> HIDE DEF near
  <2> QED BY <1>1, <1>4, <1>6
<1>12. ClosureCells(r) = [exclusive |-> ClosureCells(r).exclusive, shared |-> ClosureCells(r).shared,
                          ghost |-> ClosureCells(r).ghost]
  BY DEF ClosureCells
<1>13. Entire(r, "cells")
  BY <1>0, <1>7, <1>8, <1>9, <1>10, <1>11, <1>12 DEF Entire
<1>14. ASSUME NEW q \in Colors PROVE Agree(q, r, "cells")
  <2> DEFINE his == [c \in Primary(q) |-> Entity(c, q, OffsetOf(q, c), NearUsers(q, c))]
  <2>1. ClosureCells(q).shared = {his[c] : c \in {x \in Primary(q) : NearUsers(q, x) # {}}}
    BY DEF ClosureCells
  <2>2. \A c \in Primary(q) : his[c].id = c /\ his[c].shared = NearUsers(q, c)
                              /\ his[c].offset = OffsetOf(q, c)
    BY DEF Entity
  <2> HIDE DEF his, near
  <2>3. ASSUME NEW g \in ClosureCells(r).ghost, g.rank = q
        PROVE  \E e \in ClosureCells(q).shared : r \in e.shared /\ e.id = g.id /\ e.offset = g.offset
    <3>1. PICK c \in Nearest(r) : g = near[c]
      BY <1>6
    <3>2. part[c] = q /\ c \in Primary(q) /\ r # q
      BY <1>1, <1>4, <2>3, <3>1, PrimaryIs
    <3>3. r \in NearUsers(q, c)
      BY <3>1, <3>2 DEF NearUsers
    <3>4. his[c] \in ClosureCells(q).shared
      BY <2>1, <3>2, <3>3
    <3> QED BY <1>4, <2>2, <3>1, <3>2, <3>3, <3>4
  <2>4. ASSUME NEW e \in ClosureCells(q).shared, r \in e.shared
        PROVE  \E g \in ClosureCells(r).ghost : g.rank = q /\ g.id = e.id /\ g.offset = e.offset
    <3>1. PICK c \in Primary(q) : e = his[c]
      BY <2>1
    <3>2. c \in Nearest(r) /\ part[c] = q
      BY <2>2, <2>4, <3>1, PrimaryIs DEF NearUsers
    <3>3. near[c] \in ClosureCells(r).ghost
      BY <1>6, <3>2
    <3> QED BY <1>4, <2>2, <3>1, <3>2, <3>3
  <2> QED BY <1>0, <2>3, <2>4 DEF Agree
<1> QED BY <1>13, <1>14

\* vertices of color_entity,
LEMMA ClosureVerticesMatch ==
    ASSUME Given, scheme = "closure", NEW r \in Colors
    PROVE  Entire(r, "vertices") /\ \A q \in Colors : Agree(q, r, "vertices")
<1>0. \A q : Col(q, "vertices") = ClosureVertices(q)
  BY DEF Col
<1> DEFINE own(q) == [v \in OwnVerts(q) |-> Entity(v, q, Position(v, OwnVerts(q)), HolderColors(q, v))]
           G == {x \in EntityClosure(r) : VertexColor(x) # r}
           near == [v \in G |-> Entity(v, VertexColor(v), Position(v, OwnVerts(VertexColor(v))), {})]
<1>1. /\ IsFiniteSet(OwnVerts(r)) /\ IsFiniteSet(G)
      /\ \A v \in OwnVerts(r) : v \in Nat
      /\ \A v \in G : v \in Nat /\ VertexColor(v) \in Colors \ {r} /\ v \in Vertices
  <2>1. OwnVerts(r) \in SUBSET Vertices /\ G \in SUBSET Vertices
    BY OwnVertsAre, VertexColorIs
  <2>2. IsFiniteSet(OwnVerts(r)) /\ IsFiniteSet(G)
    <3> HIDE DEF G
    <3> QED BY <2>1, SomeVertices
  <2>3. \A v \in Vertices : v \in Nat /\ VertexColor(v) \in Colors
    BY MeshIs, VertexColorIs
  <2> QED BY <2>1, <2>2, <2>3
<1>2. \A q : \A v \in OwnVerts(q) : /\ own(q)[v].id = v /\ own(q)[v].shared = HolderColors(q, v)
                                    /\ own(q)[v].offset = Position(v, OwnVerts(q))
                                    /\ own(q)[v] = Entity(v, q, Position(v, OwnVerts(q)), HolderColors(q, v))
  BY DEF Entity
<1>3. \A v \in G : near[v].id = v /\ near[v].rank = VertexColor(v)
                   /\ near[v].offset = Position(v, OwnVerts(VertexColor(v)))
  BY DEF Entity
<1>4. \A q : OwnVertices0(q) = {own(q)[v] : v \in OwnVerts(q)}
  BY DEF OwnVertices0
<1>5. /\ \A q : ClosureVertices(q).exclusive = {e \in OwnVertices0(q) : e.shared = {}}
      /\ \A q : ClosureVertices(q).shared = {e \in OwnVertices0(q) : e.shared # {}}
      /\ ClosureVertices(r).ghost = {near[v] : v \in G}
  BY DEF ClosureVertices
<1> HIDE DEF own, near, G
<1>6. IsEntities(OwnVertices0(r))
  <2>1. \A e \in OwnVertices0(r) : \E v \in OwnVerts(r) : e = own(r)[v]
    BY <1>4
  <2>2. \A v \in OwnVerts(r) : own(r)[v].id = v
    BY <1>2
  <2> DEFINE f == own(r)
  <2> HIDE DEF f
  <2>3. \A e \in OwnVertices0(r) : \E v \in OwnVerts(r) : e = f[v]
    BY <2>1 DEF f
  <2>4. \A v \in OwnVerts(r) : f[v].id = v
    BY <2>2 DEF f
  <2> QED BY <1>1, <2>3, <2>4, EntitySetIs
<1>7. IsEntities(ClosureVertices(r).exclusive) /\ IsEntities(ClosureVertices(r).shared)
  <2>1. ClosureVertices(r).exclusive \in SUBSET OwnVertices0(r) /\ ClosureVertices(r).shared \in SUBSET OwnVertices0(r)
    BY <1>5
  <2> QED BY <1>6, <2>1, EntitiesPart
<1>8. IsEntities(ClosureVertices(r).ghost)
  BY <1>1, <1>3, <1>5, EntitySetIs
<1>9. \A e \in OwnVertices0(r) : e = Entity(e.id, r, e.offset, e.shared)
                                 /\ e.shared \in SUBSET (Colors \ {r})
  <2> TAKE e \in OwnVertices0(r)
  <2>1. PICK v \in OwnVerts(r) : e = own(r)[v]
    BY <1>4
  <2>2. e = Entity(v, r, Position(v, OwnVerts(r)), HolderColors(r, v)) /\ e.id = v
        /\ e.offset = Position(v, OwnVerts(r)) /\ e.shared = HolderColors(r, v)
    BY <1>2, <2>1
  <2> QED BY <2>2 DEF HolderColors
<1>10. \A g \in ClosureVertices(r).ghost : g.rank \in Colors \ {r}
  BY <1>1, <1>3, <1>5
<1>11. ClosureVertices(r) = [exclusive |-> ClosureVertices(r).exclusive,
                             shared |-> ClosureVertices(r).shared, ghost |-> ClosureVertices(r).ghost]
  BY DEF ClosureVertices
<1>12. /\ \A e \in ClosureVertices(r).exclusive : e = Entity(e.id, r, e.offset, {})
       /\ \A e \in ClosureVertices(r).shared : e = Entity(e.id, r, e.offset, e.shared)
                             /\ e.shared \in SUBSET (Colors \ {r}) /\ e.shared # {}
  <2>1. \A e \in ClosureVertices(r).exclusive : e \in OwnVertices0(r) /\ e.shared = {}
    BY <1>5
  <2>2. \A e \in ClosureVertices(r).shared : e \in OwnVertices0(r) /\ e.shared # {}
    BY <1>5
  <2>3. \A e \in ClosureVertices(r).exclusive : e = Entity(e.id, r, e.offset, {})
    <3> TAKE e \in ClosureVertices(r).exclusive
    <3>1. e = Entity(e.id, r, e.offset, e.shared) /\ e.shared = {}
      BY <1>9, <2>1
    <3> QED BY ONLY <3>1
  <2> QED BY <1>9, <2>2, <2>3
<1>13. Entire(r, "vertices")
  BY <1>0, <1>7, <1>8, <1>10, <1>11, <1>12 DEF Entire
<1>14. ASSUME NEW q \in Colors PROVE Agree(q, r, "vertices")
  <2>3. ASSUME NEW g \in ClosureVertices(r).ghost, g.rank = q
        PROVE  \E e \in ClosureVertices(q).shared : r \in e.shared /\ e.id = g.id /\ e.offset = g.offset
    <3>1. PICK v \in G : g = near[v]
      BY <1>5
    <3>2. VertexColor(v) = q /\ v \in OwnVerts(q) /\ r # q /\ v \in EntityClosure(r)
      BY <1>1, <1>3, <2>3, <3>1, OwnVertsAre DEF G
    <3>3. r \in HolderColors(q, v)
      BY <3>2 DEF HolderColors
    <3>4. own(q)[v] \in ClosureVertices(q).shared
      BY <1>2, <1>4, <1>5, <3>2, <3>3
    <3> QED BY <1>2, <1>3, <3>1, <3>2, <3>3, <3>4
  <2>4. ASSUME NEW e \in ClosureVertices(q).shared, r \in e.shared
        PROVE  \E g \in ClosureVertices(r).ghost : g.rank = q /\ g.id = e.id /\ g.offset = e.offset
    <3>1. PICK v \in OwnVerts(q) : e = own(q)[v]
      BY <1>4, <1>5
    <3>2. v \in EntityClosure(r) /\ VertexColor(v) = q /\ r # q
      <4>1. r \in HolderColors(q, v)
        BY <1>2, <2>4, <3>1
      <4>2. VertexColor(v) = q
        BY DEF OwnVerts
      <4> QED BY <4>1, <4>2 DEF HolderColors
    <3>3. v \in G
      BY <3>2 DEF G
    <3>4. near[v] \in ClosureVertices(r).ghost
      BY <1>5, <3>3
    <3> QED BY <1>2, <1>3, <3>1, <3>2, <3>3, <3>4
  <2> QED BY <1>0, <2>3, <2>4 DEF Agree
<1> QED BY <1>13, <1>14

\* cells of get_owner_info,
LEMMA DcrsCellsMatch ==
    ASSUME Given, scheme = "dcrs", NEW r \in Colors
    PROVE  Entire(r, "cells") /\ \A q \in Colors : Agree(q, r, "cells")
<1>0. \A q : Col(q, "cells") = DcrsCells(q)
  BY DEF Col
<1> DEFINE G == {c \in Cells : r \in CellUsers(c)}
           own(q) == [c \in Primary(q) |-> NumberedCell(q, c)]
           near == [c \in G |-> Entity(Id(c), part[c], Index(c) - 1, {r})]
<1>1. /\ IsFiniteSet(Primary(r)) /\ IsFiniteSet(G)
      /\ \A c \in Primary(r) : c \in Cells /\ Id(c) \in Nat
      /\ \A c \in G : c \in Cells /\ Id(c) \in Nat /\ part[c] \in Colors \ {r}
  <2>1. Primary(r) \in SUBSET Cells /\ G \in SUBSET Cells
    BY PrimaryIs
  <2>2. IsFiniteSet(Primary(r)) /\ IsFiniteSet(G)
    <3> HIDE DEF G
    <3> QED BY <2>1, SomeCells
  <2>3. \A c \in G : part[c] \in Colors \ {r}
    BY MeshIs, CellUsersAre
  <2>4. \A c \in Cells : Id(c) \in Nat
    BY IdIs
  <2> QED BY <2>1, <2>2, <2>3, <2>4
<1>2. \A q : \A c \in Primary(q) : /\ own(q)[c].id = Id(c) /\ own(q)[c].shared = CellUsers(c)
                                    /\ own(q)[c].offset = Index(c) - 1 /\ c \in Cells /\ part[c] = q
                                    /\ own(q)[c] = Entity(Id(c), q, Index(c) - 1, CellUsers(c))
  BY PrimaryIs DEF Entity, NumberedCell
<1>3. \A c \in G : near[c].id = Id(c) /\ near[c].rank = part[c]
                   /\ near[c].offset = Index(c) - 1
  BY DEF Entity
<1>4. \A c, d \in Cells : Id(c) = Id(d) => c = d
  BY IdIs
<1>5. /\ \A q : DcrsCells(q).shared = {own(q)[c] : c \in {x \in Primary(q) : CellUsers(x) # {}}}
      /\ DcrsCells(r).ghost = {near[c] : c \in G}
  BY DEF DcrsCells, NumberedCell
<1>6. \A e \in DcrsCells(r).exclusive : \E c \in Primary(r) : e = own(r)[c] /\ CellUsers(c) = {}
  BY DEF DcrsCells, NumberedCell
<1> DEFINE f == own(r)
<1>7. /\ \A c \in Primary(r) : f[c].id = Id(c) /\ f[c].shared = CellUsers(c)
                                /\ f[c] = Entity(Id(c), r, Index(c) - 1, CellUsers(c))
      /\ \A e \in DcrsCells(r).exclusive : \E c \in Primary(r) : e = f[c] /\ CellUsers(c) = {}
      /\ \A e \in DcrsCells(r).shared : \E c \in Primary(r) : e = f[c] /\ CellUsers(c) # {}
  BY <1>2, <1>5, <1>6
<1> HIDE DEF own, f, near, G
<1>8. /\ IsEntities(DcrsCells(r).exclusive)
      /\ IsEntities(DcrsCells(r).shared)
      /\ IsEntities(DcrsCells(r).ghost)
  <2>1. IsEntities(DcrsCells(r).exclusive)
    BY <1>1, <1>4, <1>7, EntitySetIs
  <2>2. IsEntities(DcrsCells(r).shared)
    BY <1>1, <1>4, <1>7, EntitySetIs
  <2>3. IsEntities(DcrsCells(r).ghost)
    BY <1>1, <1>3, <1>4, <1>5, EntitySetIs
  <2> QED BY <2>1, <2>2, <2>3
<1>9. \A c \in Primary(r) : CellUsers(c) \in SUBSET (Colors \ {r})
  BY <1>2, CellUsersAre
<1>10. ASSUME NEW c \in Primary(r), NEW e, e = f[c]
       PROVE  e = Entity(e.id, r, e.offset, e.shared) /\ e.shared = CellUsers(c)
  <2>1. e = Entity(Id(c), r, Index(c) - 1, CellUsers(c))
    BY <1>7, <1>10
  <2>2. e.id = Id(c) /\ e.offset = Index(c) - 1 /\ e.shared = CellUsers(c)
    BY <2>1 DEF Entity
  <2> QED BY <2>1, <2>2
<1>11. \A e \in DcrsCells(r).exclusive : e = Entity(e.id, r, e.offset, {})
  <2> TAKE e \in DcrsCells(r).exclusive
  <2>1. PICK c \in Primary(r) : e = f[c] /\ CellUsers(c) = {}
    BY <1>7
  <2>2. e = Entity(e.id, r, e.offset, e.shared) /\ e.shared = {}
    BY <1>10, <2>1
  <2> QED BY ONLY <2>2
<1>12. \A e \in DcrsCells(r).shared : e = Entity(e.id, r, e.offset, e.shared)
                             /\ e.shared \in SUBSET (Colors \ {r}) /\ e.shared # {}
  BY <1>7, <1>9, <1>10
<1>13. \A g \in DcrsCells(r).ghost : g.rank \in Colors \ {r}
  BY <1>1, <1>3, <1>5
<1>14. DcrsCells(r) = [exclusive |-> DcrsCells(r).exclusive,
                       shared |-> DcrsCells(r).shared, ghost |-> DcrsCells(r).ghost]
  BY DEF DcrsCells
<1>15. Entire(r, "cells")
  BY <1>0, <1>8, <1>11, <1>12, <1>13, <1>14 DEF Entire
<1>16. ASSUME NEW q \in Colors PROVE Agree(q, r, "cells")
  <2>1. ASSUME NEW g \in DcrsCells(r).ghost, g.rank = q
        PROVE  \E e \in DcrsCells(q).shared : r \in e.shared /\ e.id = g.id /\ e.offset = g.offset
    <3>1. PICK c \in G : g = near[c]
      BY <1>5
    <3>2. part[c] = q /\ c \in Primary(q) /\ r \in CellUsers(c)
      BY <1>1, <1>3, <2>1, <3>1, PrimaryIs DEF G
    <3>3. own(q)[c] \in DcrsCells(q).shared
      BY <1>5, <3>2
    <3> QED BY <1>2, <1>3, <3>1, <3>2, <3>3
  <2>2. ASSUME NEW e \in DcrsCells(q).shared, r \in e.shared
        PROVE  \E g \in DcrsCells(r).ghost : g.rank = q /\ g.id = e.id /\ g.offset = e.offset
    <3>1. PICK c \in Primary(q) : e = own(q)[c]
      BY <1>5
    <3>2. c \in G /\ part[c] = q
      BY <1>2, <2>2, <3>1 DEF G
    <3>3. near[c] \in DcrsCells(r).ghost
      BY <1>5, <3>2
    <3> QED BY <1>2, <1>3, <3>1, <3>2, <3>3
  <2> QED BY <1>0, <2>1, <2>2 DEF Agree
<1> QED BY <1>15, <1>16

\* vertices of color_entities;
LEMMA DcrsVerticesMatch ==
    ASSUME Given, scheme = "dcrs", NEW r \in Colors
    PROVE  Entire(r, "vertices") /\ \A q \in Colors : Agree(q, r, "vertices")
<1>0. \A q : Col(q, "vertices") = DcrsVertices(q)
  BY DEF Col
<1> DEFINE G == {v \in PGhost(r) : Owner(v) # r}
           X == OwnVertexSet(r) \ PShared(r)
           O(q) == {v \in Claimed : Owner(v) = q}
           own == [v \in X |-> Claim(r, v)]
           entry == [v \in Claimed |-> Entry(v)]
           near == [v \in G |-> [Entry(v) EXCEPT !.shared = {}]]
<1>1. /\ IsFiniteSet(X) /\ IsFiniteSet(O(r)) /\ IsFiniteSet(G)
      /\ \A v \in X : v \in Nat
      /\ \A v \in Claimed : v \in Nat
      /\ \A q : O(q) \subseteq Claimed
      /\ \A v \in G : v \in Nat /\ v \in Claimed /\ Owner(v) \in Colors \ {r}
  <2>1. X \in SUBSET Vertices /\ O(r) \in SUBSET Vertices /\ G \in SUBSET Vertices /\ G \in SUBSET Claimed
        /\ Claimed \in SUBSET Vertices
    BY LocalVertsAre, PSharedIs
  <2>2. IsFiniteSet(X) /\ IsFiniteSet(O(r)) /\ IsFiniteSet(G)
    <3> HIDE DEF G, X, O
    <3> QED BY <2>1, SomeVertices
  <2>3. \A v \in Vertices : v \in Nat
    BY MeshIs
  <2>4. \A v \in G : Owner(v) \in Colors \ {r}
    BY <2>1, OwnerIs
  <2>5. \A q : O(q) \subseteq Claimed
    OBVIOUS
  <2> HIDE DEF G, X, O
  <2> QED BY <2>1, <2>2, <2>3, <2>4, <2>5
<1>2. \A v \in X : own[v] = Entity(v, r, own[v].offset, {}) /\ own[v].id = v
  BY DEF Claim, Entity
<1>3. \A v \in Claimed : /\ entry[v] = Entity(v, Owner(v), LocalOffset(Owner(v), v), Wanting(v))
                         /\ entry[v].id = v /\ entry[v].rank = Owner(v)
                         /\ entry[v].offset = LocalOffset(Owner(v), v) /\ entry[v].shared = Wanting(v)
  BY DEF Entry, Entity
<1>4. \A v \in G : near[v].id = v /\ near[v].rank = Owner(v)
                   /\ near[v].offset = LocalOffset(Owner(v), v)
  BY DEF Entry, Entity
<1>5. /\ DcrsVertices(r).exclusive = {own[v] : v \in X}
      /\ \A q : DcrsVertices(q).shared = {entry[v] : v \in O(q)}
      /\ DcrsVertices(r).ghost = {near[v] : v \in G}
  BY DEF DcrsVertices
<1> HIDE DEF own, entry, near, X
<1>6. /\ IsEntities(DcrsVertices(r).exclusive)
      /\ IsEntities(DcrsVertices(r).shared)
      /\ IsEntities(DcrsVertices(r).ghost)
  <2>1. IsEntities(DcrsVertices(r).exclusive)
    BY <1>1, <1>2, <1>5, EntitySetIs
  <2>2. IsEntities(DcrsVertices(r).shared)
    <3>1. \A v \in O(r) : entry[v].id = v /\ v \in Nat
      BY <1>1, <1>3
    <3>2. \A e \in DcrsVertices(r).shared : \E v \in O(r) : e = entry[v]
      BY <1>5
    <3> HIDE DEF O
    <3> QED BY <1>1, <3>1, <3>2, EntitySetIs
  <2>3. IsEntities(DcrsVertices(r).ghost)
    <3> HIDE DEF G
    <3> QED BY <1>1, <1>4, <1>5, EntitySetIs
  <2> QED BY <2>1, <2>2, <2>3
<1>7. \A e \in DcrsVertices(r).exclusive : e = Entity(e.id, r, e.offset, {})
  BY <1>2, <1>5
<1>8. \A e \in DcrsVertices(r).shared : e = Entity(e.id, r, e.offset, e.shared)
                             /\ e.shared \in SUBSET (Colors \ {r}) /\ e.shared # {}
  <2> TAKE e \in DcrsVertices(r).shared
  <2>1. PICK v \in O(r) : e = entry[v]
    BY <1>5
  <2>2. v \in Claimed /\ Owner(v) = r
    OBVIOUS
  <2>3. Wanting(v) # {} /\ Wanting(v) \in SUBSET (Colors \ {r})
    BY <2>2, OwnerIs
  <2> QED BY <1>3, <2>1, <2>2, <2>3
<1>9. \A g \in DcrsVertices(r).ghost : g.rank \in Colors \ {r}
  <2> HIDE DEF G
  <2> QED BY <1>1, <1>4, <1>5
<1>10. DcrsVertices(r) = [exclusive |-> DcrsVertices(r).exclusive,
                       shared |-> DcrsVertices(r).shared, ghost |-> DcrsVertices(r).ghost]
  BY DEF DcrsVertices
<1>11. Entire(r, "vertices")
  BY <1>0, <1>6, <1>7, <1>8, <1>9, <1>10 DEF Entire
<1>12. ASSUME NEW q \in Colors PROVE Agree(q, r, "vertices")
  <2>1. ASSUME NEW g \in DcrsVertices(r).ghost, g.rank = q
        PROVE  \E e \in DcrsVertices(q).shared : r \in e.shared /\ e.id = g.id /\ e.offset = g.offset
    <3>1. PICK v \in G : g = near[v]
      BY <1>5
    <3>2. v \in Claimed /\ Owner(v) = q /\ r \in Wanting(v)
      BY <1>1, <1>4, <2>1, <3>1 DEF Wanting
    <3>3. entry[v] \in DcrsVertices(q).shared
      BY <1>5, <3>2
    <3> QED BY <1>3, <1>4, <3>1, <3>2, <3>3
  <2>2. ASSUME NEW e \in DcrsVertices(q).shared, r \in e.shared
        PROVE  \E g \in DcrsVertices(r).ghost : g.rank = q /\ g.id = e.id /\ g.offset = e.offset
    <3>1. PICK v \in O(q) : e = entry[v]
      BY <1>5
    <3>2. v \in Claimed /\ Owner(v) = q
      OBVIOUS
    <3>3. v \in G
      <4>1. r \in Wanting(v)
        BY <1>3, <2>2, <3>1, <3>2
      <4>2. r # Owner(v) /\ v \in PGhost(r)
        BY <4>1 DEF Wanting
      <4> QED BY <4>2
    <3>4. near[v] \in DcrsVertices(r).ghost
      BY <1>5, <3>3
    <3> QED BY <1>3, <1>4, <3>1, <3>2, <3>3, <3>4
  <2> QED BY <1>0, <2>1, <2>2 DEF Agree
<1> QED BY <1>11, <1>12

\* hence all.
LEMMA ColoringsMatch ==
    ASSUME Given, NEW r \in Colors, NEW s \in Spaces
    PROVE  Entire(r, s) /\ \A q \in Colors : Agree(q, r, s)
<1>1. scheme = "closure" \/ scheme = "dcrs"
  BY DEF Given
<1>2. s = "cells" \/ s = "vertices"
  BY DEF Spaces
<1> QED BY <1>1, <1>2, ClosureCellsMatch, ClosureVerticesMatch, DcrsCellsMatch, DcrsVerticesMatch

-----------------------------------------------------------------------------
(* The two lists that a message is written and read by *)

Lent(q, r, s) == {e \in Col(q, s).shared : r \in e.shared}

\* A coloring's shared entities, with other offsets; its ghosts, likewise.
SharedLike(E, q, s) ==
    /\ IsEntities(E) /\ IdsOf(E) = SharedIds(q, s)
    /\ \A e \in E : \A d \in Col(q, s).shared : e.id = d.id => e.shared = d.shared
GhostsLike(F, r, s) ==
    /\ IsEntities(F) /\ IdsOf(F) = IdsOf(Col(r, s).ghost)
    /\ \A f \in F : \A d \in Col(r, s).ghost : f.id = d.id => f.rank = d.rank

LEMMA IdsOfIs ==
    \A S : \A x : x \in IdsOf(S) <=> \E e \in S : e.id = x
  BY DEF IdsOf

\* The ids that one color's message to another is about are those of the
\* sender's shared entities and those of the receiver's ghosts.
LEMMA TradedIs ==
    ASSUME Given, NEW q \in Colors, NEW r \in Colors, NEW s \in Spaces
    PROVE  LET m == Cardinality(Lent(q, r, s))
               t == Traded(q, r, s)
           IN  /\ m \in Nat /\ DOMAIN t = 1..m /\ Len(t) = m /\ t \in Seq(Nat)
               /\ t = [k \in 1..m |-> t[k]]
               /\ \A k \in 1..m : t[k] \in SharedIds(q, s)
               /\ (m > 0 <=> r \in UsersOf(q, s))
               /\ IdsOf(Lent(q, r, s)) = IdsOf({g \in Col(r, s).ghost : g.rank = q})
               /\ r \in UsersOf(q, s) <=> \E g \in Col(r, s).ghost : g.rank = q
<1> DEFINE T == Lent(q, r, s)
           m == Cardinality(T)
           t == Traded(q, r, s)
           G == {g \in Col(r, s).ghost : g.rank = q}
<1>1. IsEntities(Col(q, s).shared) /\ Agree(q, r, s)
  BY ColoringsMatch DEF Entire
<1>2. T \in SUBSET Col(q, s).shared /\ IsEntities(T)
  BY <1>1, EntitiesPart DEF Lent
<1>3. IdsOf(T) \subseteq Nat /\ IsFiniteSet(IdsOf(T)) /\ Cardinality(IdsOf(T)) = m
  BY <1>2, IdsInOrder
<1>4. t = Ordered(IdsOf(T))
  BY DEF Traded, Lent
<1>5. \A x \in IdsOf(T) : x \in Int
  BY <1>3
<1>6. m \in Nat /\ DOMAIN t = 1..m /\ Len(t) = m /\ \A k \in 1..m : t[k] \in IdsOf(T)
  <2>1. IdsOf(T) \subseteq Int
    BY <1>5
  <2> QED BY <1>3, <1>4, <2>1, OrderedIs
<1>7. t \in Seq(Nat) /\ t = [k \in 1..m |-> t[k]]
  <2>1. t \in Seq(IdsOf(T))
    <3>1. IdsOf(T) \subseteq Int
      BY <1>5
    <3> QED BY <1>3, <1>4, <3>1, OrderedIs
  <2>2. t = [k \in 1..Len(t) |-> t[k]] /\ t \in Seq(Nat)
    BY <1>3, <2>1
  <2> QED BY <1>6, <2>2
<1>8. IdsOf(T) \subseteq SharedIds(q, s)
  BY <1>2 DEF SharedIds, IdsOf
<1>9. m > 0 <=> r \in UsersOf(q, s)
  <2>1. m = 0 <=> T = {}
    BY <1>2, FS_EmptySet DEF IsEntities
  <2>2. T = {} <=> r \notin UsersOf(q, s)
    BY DEF Lent, UsersOf
  <2> QED BY <1>6, <2>1, <2>2
<1>10. IdsOf(T) = IdsOf(G)
  <2>1. \A x \in IdsOf(T) : x \in IdsOf(G)
    BY <1>1, IdsOfIs DEF Agree, Lent
  <2>2. \A x \in IdsOf(G) : x \in IdsOf(T)
    BY <1>1, IdsOfIs DEF Agree, Lent
  <2> QED BY <2>1, <2>2
<1>11. r \in UsersOf(q, s) <=> \E g \in Col(r, s).ghost : g.rank = q
  BY <1>1 DEF Agree, UsersOf
<1> QED BY <1>6, <1>7, <1>8, <1>9, <1>10, <1>11

\* The owner's list: the places in it that concern r.
LEMMA SenderIs ==
    ASSUME Given, NEW q \in Colors, NEW r \in Colors, NEW s \in Spaces, NEW E, SharedLike(E, q, s)
    PROVE  LET at == UsedBy(r, ById(E))
               m  == Cardinality(Lent(q, r, s))
           IN  /\ DOMAIN at = 1..m
               /\ \A k \in 1..m : /\ at[k] \in DOMAIN ById(E) /\ at[k] \in Nat
                                  /\ ById(E)[at[k]] \in E
                                  /\ ById(E)[at[k]].id = Traded(q, r, s)[k]
                                  /\ at[k] - 1 = Position(Traded(q, r, s)[k], SharedIds(q, s))
<1> DEFINE list == ById(E)
           n == Cardinality(E)
           T == {e \in E : r \in e.shared}
           I == {i \in DOMAIN list : r \in list[i].shared}
           at == UsedBy(r, list)
           m == Cardinality(Lent(q, r, s))
           X == SharedIds(q, s)
<1>1. IsEntities(E) /\ IdsOf(E) = X
  BY DEF SharedLike
<1>2. /\ n \in Nat /\ DOMAIN list = 1..n
      /\ \A i \in 1..n : list[i] \in E
  BY <1>1, ByIdIs
<1>3. at = Ordered(I)
  BY DEF UsedBy
<1>4. Picks(I, list, T)
  <2>1. \A i \in DOMAIN list : r \in list[i].shared <=> list[i] \in T
    BY <1>2
  <2> HIDE DEF T, list
  <2> QED BY <2>1 DEF Picks
<1>5. IdsOf(T) = IdsOf(Lent(q, r, s))
  <2>1. \A x \in X : (\E e \in E : e.id = x) /\ \E d \in Col(q, s).shared : d.id = x
    BY <1>1, IdsOfIs DEF SharedIds
  <2>2. \A e \in E : e.id \in X
    BY <1>1, IdsOfIs
  <2>3. \A d \in Col(q, s).shared : d.id \in X
    BY IdsOfIs DEF SharedIds
  <2>4. \A e \in E : \A d \in Col(q, s).shared : e.id = d.id => e.shared = d.shared
    BY DEF SharedLike
  <2>5. \A x : (\E e \in T : e.id = x) <=> \E d \in Lent(q, r, s) : d.id = x
    BY <2>1, <2>2, <2>3, <2>4 DEF Lent
  <2> HIDE DEF T
  <2>6. \A x \in IdsOf(T) : x \in IdsOf(Lent(q, r, s))
    BY <2>5, IdsOfIs
  <2>7. \A x \in IdsOf(Lent(q, r, s)) : x \in IdsOf(T)
    BY <2>5, IdsOfIs
  <2> QED BY <2>6, <2>7
<1>6. T \in SUBSET E
  OBVIOUS
<1> HIDE DEF I, T, list, n
<1>7. /\ Cardinality(T) \in Nat
      /\ I \subseteq 1..n
      /\ DOMAIN at = 1..Cardinality(T)
      /\ \A k \in 1..Cardinality(T) : at[k] \in I /\ list[at[k]].id = Ordered(IdsOf(T))[k]
  BY <1>1, <1>3, <1>4, <1>6, PickedIs DEF list, n
<1>8. Cardinality(T) = m
  <2>1. IsEntities(T) /\ IsEntities(Lent(q, r, s))
    <3>1. IsEntities(Col(q, s).shared) /\ Lent(q, r, s) \in SUBSET Col(q, s).shared
      BY ColoringsMatch DEF Entire, Lent
    <3> QED BY <1>1, <1>6, <3>1, EntitiesPart
  <2> QED BY <1>5, <2>1, IdsInOrder
<1>9. Traded(q, r, s) = Ordered(IdsOf(T))
  BY <1>5 DEF Traded, Lent
<1>10. \A i \in 1..n : list[i].id = Ordered(X)[i] /\ Position(Ordered(X)[i], X) = i - 1
  <2>1. X \subseteq Nat /\ IsFiniteSet(X) /\ Cardinality(X) = n /\ \A i \in 1..n : list[i].id = Ordered(X)[i]
    BY <1>1, IdsInOrder DEF list, n
  <2>2. \A x \in X : x \in Int
    BY <2>1
  <2>3. X \subseteq Int
    BY <2>2
  <2>4. \A i \in 1..n : Position(Ordered(X)[i], X) = i - 1
    BY <2>1, <2>3, OrderedIs
  <2> QED BY <2>1, <2>4
<1> HIDE DEF at, X
<1>11. \A k \in 1..m : /\ at[k] \in DOMAIN list /\ at[k] \in Nat /\ list[at[k]] \in E
                       /\ list[at[k]].id = Traded(q, r, s)[k]
                       /\ at[k] - 1 = Position(Traded(q, r, s)[k], X)
  <2> TAKE k \in 1..m
  <2>1. at[k] \in 1..n /\ list[at[k]].id = Traded(q, r, s)[k]
    BY <1>7, <1>8, <1>9
  <2> QED BY <1>2, <1>10, <2>1
<1> QED BY <1>7, <1>8, <1>11 DEF at, list, X

\* The user's list: the places in it of q's entities.
LEMMA ReceiverIs ==
    ASSUME Given, NEW q \in Colors, NEW r \in Colors, NEW s \in Spaces, NEW F, GhostsLike(F, r, s)
    PROVE  LET list == ById(F)
               at == OwnedHere(q, list)
               m  == Cardinality(Lent(q, r, s))
           IN  /\ DOMAIN at = 1..m /\ Len(at) = m /\ at \in Seq(Nat)
               /\ \A k \in 1..m : at[k] \in DOMAIN list /\ at[k] \in Nat
               /\ \A k \in 1..m : list[at[k]].id = Traded(q, r, s)[k]
               /\ \A k \in 1..m : Cardinality({j \in 1..at[k] : list[j].rank = q}) = k
               /\ \A i \in DOMAIN list : list[i].rank = q => \E k \in 1..m : at[k] = i
<1> DEFINE list == ById(F)
           n == Cardinality(F)
           T == {e \in F : e.rank = q}
           G == {g \in Col(r, s).ghost : g.rank = q}
           I == {i \in DOMAIN list : list[i].rank = q}
           at == OwnedHere(q, list)
           m == Cardinality(Lent(q, r, s))
           X == IdsOf(Col(r, s).ghost)
<1>1. IsEntities(F) /\ IdsOf(F) = X
  BY DEF GhostsLike
<1>2. /\ n \in Nat /\ DOMAIN list = 1..n
      /\ \A i \in 1..n : list[i] \in F
  BY <1>1, ByIdIs
<1>3. at = Ordered(I)
  BY DEF OwnedHere
<1>4. Picks(I, list, T)
  <2>1. \A i \in DOMAIN list : list[i].rank = q <=> list[i] \in T
    BY <1>2
  <2> HIDE DEF T, list
  <2> QED BY <2>1 DEF Picks
<1>5. IdsOf(T) = IdsOf(G)
  <2>1. \A x \in X : (\E e \in F : e.id = x) /\ \E d \in Col(r, s).ghost : d.id = x
    BY <1>1, IdsOfIs
  <2>2. \A e \in F : e.id \in X
    BY <1>1, IdsOfIs
  <2>3. \A d \in Col(r, s).ghost : d.id \in X
    BY IdsOfIs
  <2>4. \A e \in F : \A d \in Col(r, s).ghost : e.id = d.id => e.rank = d.rank
    BY DEF GhostsLike
  <2>5. \A x : (\E e \in T : e.id = x) <=> \E d \in G : d.id = x
    BY <2>1, <2>2, <2>3, <2>4
  <2> HIDE DEF T, G
  <2>6. \A x \in IdsOf(T) : x \in IdsOf(G)
    BY <2>5, IdsOfIs
  <2>7. \A x \in IdsOf(G) : x \in IdsOf(T)
    BY <2>5, IdsOfIs
  <2> QED BY <2>6, <2>7
<1>6. T \in SUBSET F
  OBVIOUS
<1>7. IdsOf(T) = IdsOf(Lent(q, r, s))
  BY <1>5, TradedIs
<1> HIDE DEF T, list, n, G
<1>8. /\ Cardinality(T) \in Nat
      /\ I \subseteq 1..n
      /\ DOMAIN at = 1..Cardinality(T) /\ Len(at) = Cardinality(T) /\ at \in Seq(Nat)
      /\ \A k \in 1..Cardinality(T) : at[k] \in I /\ list[at[k]].id = Ordered(IdsOf(T))[k]
      /\ \A i \in I : \E k \in 1..Cardinality(T) : at[k] = i
      /\ \A k \in 1..Cardinality(T) : Cardinality({j \in 1..at[k] : j \in I}) = k
  <2> DEFINE o == Ordered(I)
             c == Cardinality(T)
  <2> HIDE DEF I, at
  <2>1. /\ c \in Nat /\ I \subseteq 1..Cardinality(F)
        /\ DOMAIN o = 1..c /\ Len(o) = c /\ o \in Seq(Nat)
        /\ \A k \in 1..c : /\ o[k] \in I
                           /\ ById(F)[o[k]].id = Ordered(IdsOf(T))[k]
        /\ \A i \in I : \E k \in 1..c : o[k] = i
        /\ \A k \in 1..c : Cardinality({j \in 1..o[k] : j \in I}) = k
    BY <1>1, <1>4, <1>6, PickedIs DEF list
  <2> HIDE DEF c
  <2> QED BY <1>3, <2>1 DEF list, n, c
<1>9. Cardinality(T) = m
  <2>1. IsEntities(T) /\ IsEntities(Lent(q, r, s))
    <3>1. IsEntities(Col(q, s).shared) /\ Lent(q, r, s) \in SUBSET Col(q, s).shared
      BY ColoringsMatch DEF Entire, Lent
    <3> QED BY <1>1, <1>6, <3>1, EntitiesPart
  <2> QED BY <1>7, <2>1, IdsInOrder
<1>10. Traded(q, r, s) = Ordered(IdsOf(T))
  BY <1>7 DEF Traded, Lent
<1> HIDE DEF at
<1>11. ASSUME NEW k \in 1..m
       PROVE  /\ at[k] \in DOMAIN list /\ at[k] \in Nat /\ list[at[k]].rank = q
              /\ list[at[k]].id = Traded(q, r, s)[k]
              /\ Cardinality({j \in 1..at[k] : list[j].rank = q}) = k
  <2>1. at[k] \in I /\ at[k] \in 1..n /\ list[at[k]].id = Traded(q, r, s)[k]
        /\ Cardinality({j \in 1..at[k] : j \in I}) = k
    <3> HIDE DEF I
    <3> QED BY <1>8, <1>9, <1>10
  <2>2. \A j \in 1..at[k] : j \in I <=> list[j].rank = q
    BY <1>2, <2>1
  <2>3. {j \in 1..at[k] : j \in I} = {j \in 1..at[k] : list[j].rank = q}
    <3> HIDE DEF I
    <3> QED BY <2>2
  <2>4. Cardinality({j \in 1..at[k] : list[j].rank = q}) = k
    <3> HIDE DEF I
    <3> QED BY <2>1, <2>3
  <2>5. list[at[k]].rank = q
    BY <1>2, <2>1
  <2> QED BY <1>2, <2>1, <2>4, <2>5
<1>12. \A i \in DOMAIN list : list[i].rank = q => \E k \in 1..m : at[k] = i
  BY <1>8, <1>9
<1>13. DOMAIN at = 1..m /\ Len(at) = m /\ at \in Seq(Nat)
  BY <1>8, <1>9
<1> HIDE DEF m
<1>14. \A k \in 1..m : at[k] \in DOMAIN list /\ at[k] \in Nat
  BY <1>11
<1>15. \A k \in 1..m : list[at[k]].id = Traded(q, r, s)[k]
  BY <1>11
<1>16. \A k \in 1..m : Cardinality({j \in 1..at[k] : list[j].rank = q}) = k
  BY <1>11
<1> QED BY <1>12, <1>13, <1>14, <1>15, <1>16 DEF at, list, m

-----------------------------------------------------------------------------
(* New offsets *)

\* Replacing entities one by one, with the same ids.
LEMMA ReplacedIs ==
    ASSUME NEW E, IsEntities(E), NEW f, NEW D, D = {f[e] : e \in E},
           \A e \in E : f[e].id = e.id
    PROVE  IsEntities(D) /\ IdsOf(D) = IdsOf(E) /\ Cardinality(D) = Cardinality(E)
<1>1. IsFiniteSet(E) /\ (\A e \in E : e.id \in Nat) /\ \A d, e \in E : d.id = e.id => d = e
  BY DEF IsEntities
<1>2. \A d \in D : \E e \in E : d = f[e]
  OBVIOUS
<1>3. IsEntities(D)
  BY <1>1, <1>2, EntitySetIs
<1>4. IdsOf(D) = IdsOf(E)
  <2>1. \A x \in IdsOf(D) : x \in IdsOf(E)
    BY IdsOfIs
  <2>2. \A x \in IdsOf(E) : x \in IdsOf(D)
    BY IdsOfIs
  <2> QED BY <2>1, <2>2
<1> QED BY <1>3, <1>4, IdsInOrder

\* Renumbering the shared entities keeps their ids and users.
LEMMA RenumberedIs ==
    ASSUME Given, NEW r \in Colors, NEW s \in Spaces
    PROVE  LET list == ById(Col(r, s).shared)
           IN  /\ {[list[i] EXCEPT !.offset = i - 1] : i \in DOMAIN list} = Renumbered(r, s)
               /\ SharedLike(Col(r, s).shared, r, s)
               /\ SharedLike(Renumbered(r, s), r, s)
               /\ Cardinality(Renumbered(r, s)) = Cardinality(Col(r, s).shared)
               /\ \A e \in Renumbered(r, s) : e.offset = Position(e.id, SharedIds(r, s))
               /\ \A e \in Renumbered(r, s) : \E d \in Col(r, s).shared :
                     d.id = e.id /\ d.rank = e.rank /\ d.shared = e.shared
               /\ \A d \in Col(r, s).shared : \E e \in Renumbered(r, s) :
                     d.id = e.id /\ d.rank = e.rank /\ d.shared = e.shared
<1> DEFINE S == Col(r, s).shared
           X == SharedIds(r, s)
           f == [e \in S |-> [e EXCEPT !.offset = Position(e.id, X)]]
           list == ById(S)
           n == Cardinality(S)
           D == {[list[i] EXCEPT !.offset = i - 1] : i \in DOMAIN list}
<1>1. IsEntities(S) /\ \A e \in S : e = Entity(e.id, r, e.offset, e.shared)
  BY ColoringsMatch DEF Entire
<1>2. Renumbered(r, s) = {f[e] : e \in S}
  BY DEF Renumbered
<1>3. \A e \in S : /\ f[e].id = e.id /\ f[e].rank = e.rank /\ f[e].shared = e.shared
                   /\ f[e].offset = Position(e.id, X)
                   /\ f[e] = [e EXCEPT !.offset = Position(e.id, X)]
  <2> TAKE e \in S
  <2>1. e = Entity(e.id, r, e.offset, e.shared)
    BY <1>1
  <2>2. f[e] = [e EXCEPT !.offset = Position(e.id, X)]
    OBVIOUS
  <2> HIDE DEF f, X, S
  <2> QED BY <2>1, <2>2 DEF Entity
<1> HIDE DEF f
<1>a. \A e \in S : f[e].id = e.id /\ f[e].rank = e.rank /\ f[e].shared = e.shared
                 /\ f[e].offset = Position(e.id, X)
  BY ONLY <1>3
<1>4. IsEntities(Renumbered(r, s)) /\ IdsOf(Renumbered(r, s)) = X /\ Cardinality(Renumbered(r, s)) = n
  <2>1. IdsOf(S) = X
    BY DEF SharedIds
  <2> HIDE DEF S, X
  <2>2. \A e \in S : f[e].id = e.id
    BY <1>a
  <2>3. /\ IsEntities(Renumbered(r, s)) /\ IdsOf(Renumbered(r, s)) = IdsOf(S)
        /\ Cardinality(Renumbered(r, s)) = Cardinality(S)
    BY ONLY <1>1, <1>2, <2>2, ReplacedIs
  <2> QED BY <2>1, <2>3 DEF n
<1>5. /\ n \in Nat /\ DOMAIN list = 1..n
      /\ \A i \in 1..n : list[i] \in S
      /\ \A e \in S : \E i \in 1..n : list[i] = e
  BY <1>1, ByIdIs
<1>6. \A i \in 1..n : i - 1 = Position(list[i].id, X)
  <2>1. X \subseteq Nat /\ IsFiniteSet(X) /\ Cardinality(X) = n /\ \A i \in 1..n : list[i].id = Ordered(X)[i]
    BY <1>1, IdsInOrder DEF SharedIds
  <2>2. \A x \in X : x \in Int
    BY <2>1
  <2>3. X \subseteq Int
    BY <2>2
  <2>4. \A i \in 1..n : Position(Ordered(X)[i], X) = i - 1
    <3> HIDE DEF X, n
    <3> QED BY <2>1, <2>3, OrderedIs
  <2> QED BY <2>1, <2>4
<1> HIDE DEF S, X, list, n
<1>7. D = Renumbered(r, s)
  <2>1. \A i \in 1..n : [list[i] EXCEPT !.offset = i - 1] = f[list[i]]
    BY <1>3, <1>5, <1>6
  <2>2. D = {f[list[i]] : i \in 1..n}
    <3> DEFINE g(i) == [list[i] EXCEPT !.offset = i - 1]
    <3>1. D = {g(i) : i \in 1..n}
      BY <1>5
    <3>2. \A i \in 1..n : g(i) = f[list[i]]
      BY <2>1
    <3> HIDE DEF f, D, g
    <3> QED BY <3>1, <3>2
  <2> HIDE DEF D
  <2> QED BY <1>2, <1>5, <2>2
<1>8. SharedLike(S, r, s)
  <2>1. IdsOf(S) = X
    BY DEF SharedIds, S, X
  <2>2. \A e, d \in S : e.id = d.id => e.shared = d.shared
    BY <1>1 DEF IsEntities
  <2> QED BY <1>1, <2>1, <2>2 DEF SharedLike, S, X
<1>9. SharedLike(Renumbered(r, s), r, s)
  <2>1. \A e \in Renumbered(r, s) : \A d \in S : e.id = d.id => e.shared = d.shared
    <3> SUFFICES ASSUME NEW c \in S, NEW d \in S, f[c].id = d.id PROVE f[c].shared = d.shared
      BY <1>2
    <3>1. c = d
      BY <1>1, <1>a DEF IsEntities
    <3> QED BY <1>a, <3>1
  <2> QED BY <1>4, <2>1 DEF SharedLike, X, S
<1>10. \A e \in Renumbered(r, s) : e.offset = Position(e.id, X)
  BY <1>2, <1>a
<1>11. \A e \in Renumbered(r, s) : \E d \in S : d.id = e.id /\ d.rank = e.rank /\ d.shared = e.shared
  BY <1>2, <1>a
<1>12. \A d \in S : \E e \in Renumbered(r, s) : d.id = e.id /\ d.rank = e.rank /\ d.shared = e.shared
  <2> TAKE d \in S
  <2>1. f[d] \in Renumbered(r, s)
    BY <1>2
  <2> QED BY <1>a, <2>1
<1> QED BY <1>4, <1>7, <1>8, <1>9, <1>10, <1>11, <1>12 DEF S, X, list, n

\* What the owner tells its users, and what they make of it.
LEMMA NumbersAre ==
    ASSUME Given, NEW q \in Colors, NEW r \in Colors, NEW s \in Spaces
    PROVE  LET at == UsedBy(r, ById(Col(q, s).shared))
               list == ById(Col(r, s).ghost)
           IN  /\ [k \in DOMAIN at |-> at[k] - 1] = Numbers(q, r, s)
               /\ DOMAIN Numbers(q, r, s) = 1..Cardinality(Lent(q, r, s))
               /\ Len(Numbers(q, r, s)) = Len(OwnedHere(q, list))
               /\ \A i \in DOMAIN list : list[i].rank = q =>
                     LET k == Cardinality({j \in 1..i : list[j].rank = q})
                     IN  /\ k \in DOMAIN Numbers(q, r, s)
                         /\ Numbers(q, r, s)[k] = Position(list[i].id, SharedIds(q, s))
<1> DEFINE m == Cardinality(Lent(q, r, s))
           at == UsedBy(r, ById(Col(q, s).shared))
           list == ById(Col(r, s).ghost)
           here == OwnedHere(q, list)
           N == Numbers(q, r, s)
           t == Traded(q, r, s)
<1>1. SharedLike(Col(q, s).shared, q, s)
  BY RenumberedIs
<1>2. GhostsLike(Col(r, s).ghost, r, s)
  BY ColoringsMatch DEF Entire, GhostsLike, IsEntities
<1>3. m \in Nat /\ DOMAIN t = 1..m
  BY TradedIs
<1>4. DOMAIN N = 1..m /\ \A k \in 1..m : N[k] = Position(t[k], SharedIds(q, s))
  BY <1>3 DEF Numbers
<1>5. N = [k \in 1..m |-> Position(t[k], SharedIds(q, s))]
  BY <1>3 DEF Numbers
<1>6. DOMAIN at = 1..m /\ \A k \in 1..m : at[k] - 1 = Position(t[k], SharedIds(q, s))
  BY <1>1, SenderIs
<1>7. /\ Len(here) = m
      /\ \A k \in 1..m : /\ list[here[k]].id = t[k]
                         /\ Cardinality({j \in 1..here[k] : list[j].rank = q}) = k
      /\ \A i \in DOMAIN list : list[i].rank = q => \E k \in 1..m : here[k] = i
  <2> HIDE DEF m, N, t
  <2>1. Len(here) = m
    BY <1>2, ReceiverIs DEF m
  <2>2. \A k \in 1..m : list[here[k]].id = t[k]
    BY <1>2, ReceiverIs DEF m, t
  <2>4. \A k \in 1..m : Cardinality({j \in 1..here[k] : list[j].rank = q}) = k
    BY <1>2, ReceiverIs DEF m
  <2>3. \A i \in DOMAIN list : list[i].rank = q => \E k \in 1..m : here[k] = i
    BY <1>2, ReceiverIs DEF m
  <2> QED BY <2>1, <2>2, <2>3, <2>4
<1> HIDE DEF m, at, list, here, N, t
<1>8. [k \in DOMAIN at |-> at[k] - 1] = N
  BY <1>5, <1>6
<1>9. Len(N) = m
  BY <1>3, <1>5
<1>10. \A i \in DOMAIN list : list[i].rank = q =>
          LET k == Cardinality({j \in 1..i : list[j].rank = q})
          IN  k \in DOMAIN N /\ N[k] = Position(list[i].id, SharedIds(q, s))
  <2> SUFFICES ASSUME NEW i \in DOMAIN list, list[i].rank = q
               PROVE  LET k == Cardinality({j \in 1..i : list[j].rank = q})
                      IN  k \in DOMAIN N /\ N[k] = Position(list[i].id, SharedIds(q, s))
    OBVIOUS
  <2>1. PICK k \in 1..m : here[k] = i
    BY <1>7
  <2>2. Cardinality({j \in 1..i : list[j].rank = q}) = k /\ list[i].id = t[k]
    BY <1>7, <2>1
  <2> QED BY <1>4, <2>1, <2>2
<1> QED BY <1>4, <1>7, <1>8, <1>9, <1>10 DEF m, at, list, here, N

\* Telling ghosts their new offsets keeps their ids and owners.
LEMMA LocatedIs ==
    ASSUME Given, NEW r \in Colors, NEW s \in Spaces
    PROVE  LET list == ById(Col(r, s).ghost)
           IN  /\ {Entity(list[i].id, list[i].rank, Position(list[i].id, SharedIds(list[i].rank, s)), {}) :
                      i \in DOMAIN list} = Located(r, s)
               /\ GhostsLike(Col(r, s).ghost, r, s)
               /\ GhostsLike(Located(r, s), r, s)
               /\ \A e \in Located(r, s) : e.offset = Position(e.id, SharedIds(e.rank, s))
               /\ {e.rank : e \in Located(r, s)} = {e.rank : e \in Col(r, s).ghost}
               /\ \A i \in DOMAIN list : list[i] \in Col(r, s).ghost
               /\ \A e \in Located(r, s) : \E d \in Col(r, s).ghost : d.id = e.id /\ d.rank = e.rank
               /\ \A d \in Col(r, s).ghost : \E e \in Located(r, s) : d.id = e.id /\ d.rank = e.rank
<1> DEFINE S == Col(r, s).ghost
           f == [e \in S |-> Entity(e.id, e.rank, Position(e.id, SharedIds(e.rank, s)), {})]
           list == ById(S)
           n == Cardinality(S)
           D == {Entity(list[i].id, list[i].rank, Position(list[i].id, SharedIds(list[i].rank, s)), {}) :
                      i \in DOMAIN list}
<1>1. IsEntities(S)
  BY ColoringsMatch DEF Entire
<1>2. Located(r, s) = {f[e] : e \in S}
  BY DEF Located
<1>3. \A e \in S : /\ f[e].id = e.id /\ f[e].rank = e.rank
                   /\ f[e].offset = Position(e.id, SharedIds(e.rank, s))
                   /\ f[e] = Entity(e.id, e.rank, Position(e.id, SharedIds(e.rank, s)), {})
  BY DEF Entity
<1> HIDE DEF f
<1>4. IsEntities(Located(r, s)) /\ IdsOf(Located(r, s)) = IdsOf(S)
  <2> HIDE DEF S
  <2> QED BY <1>1, <1>2, <1>3, ReplacedIs
<1>5. /\ n \in Nat /\ DOMAIN list = 1..n
      /\ \A i \in 1..n : list[i] \in S
      /\ \A e \in S : \E i \in 1..n : list[i] = e
  BY <1>1, ByIdIs
<1> HIDE DEF S, list, n
<1>7. D = Located(r, s)
  <2>1. \A i \in 1..n : Entity(list[i].id, list[i].rank, Position(list[i].id, SharedIds(list[i].rank, s)), {}) = f[list[i]]
    BY <1>3, <1>5
  <2>2. D = {f[list[i]] : i \in 1..n}
    BY <1>5, <2>1
  <2> HIDE DEF D
  <2> QED BY <1>2, <1>5, <2>2
<1>8. GhostsLike(S, r, s)
  BY <1>1 DEF GhostsLike, IsEntities, S
<1>9. GhostsLike(Located(r, s), r, s)
  <2>1. \A e \in Located(r, s) : \A d \in S : e.id = d.id => e.rank = d.rank
    <3> SUFFICES ASSUME NEW c \in S, NEW d \in S, f[c].id = d.id PROVE f[c].rank = d.rank
      BY <1>2
    <3>1. c = d
      BY <1>1, <1>3 DEF IsEntities
    <3> QED BY <1>3, <3>1
  <2> QED BY <1>4, <2>1 DEF GhostsLike, S
<1>10. \A e \in Located(r, s) : e.offset = Position(e.id, SharedIds(e.rank, s))
  BY <1>2, <1>3
<1>11. \A e \in Located(r, s) : \E d \in S : d.id = e.id /\ d.rank = e.rank
  BY <1>2, <1>3
<1>12. \A d \in S : \E e \in Located(r, s) : d.id = e.id /\ d.rank = e.rank
  <2> TAKE d \in S
  <2>1. f[d] \in Located(r, s)
    BY <1>2
  <2> QED BY <1>3, <2>1
<1>13. {e.rank : e \in Located(r, s)} = {e.rank : e \in S}
  BY <1>11, <1>12
<1>14. \A i \in DOMAIN list : list[i] \in S
  BY <1>5
<1> QED BY <1>7, <1>8, <1>9, <1>10, <1>11, <1>12, <1>13, <1>14 DEF S, list

-----------------------------------------------------------------------------
(* Local storage, and the rows that are packed and unpacked *)

Some(r, s, kind) == Cardinality(Col(r, s)[kind])

\* The ids of entities, in order.
LEMMA IdsAre ==
    ASSUME NEW E, IsEntities(E)
    PROVE  /\ Ids(E) \in Seq(Nat) /\ Len(Ids(E)) = Cardinality(E) /\ DOMAIN Ids(E) = 1..Cardinality(E)
           /\ Cardinality(E) \in Nat
           /\ \A i \in 1..Cardinality(E) : Ids(E)[i] = ById(E)[i].id
           /\ ToSet(Ids(E)) = IdsOf(E)
<1> DEFINE list == ById(E)
           n == Cardinality(E)
<1>1. /\ n \in Nat /\ DOMAIN list = 1..n
      /\ \A i \in 1..n : list[i] \in E
      /\ \A e \in E : \E i \in 1..n : list[i] = e
  BY ByIdIs
<1>2. Ids(E) = [i \in DOMAIN list |-> list[i].id]
  BY DEF Ids
<1> HIDE DEF list, n
<1>3. Ids(E) \in [1..n -> Nat]
  BY <1>1, <1>2 DEF IsEntities
<1>4. Ids(E) \in Seq(Nat) /\ Len(Ids(E)) = n
  BY <1>1, <1>3
<1>5. ToSet(Ids(E)) = IdsOf(E)
  <2>1. ToSet(Ids(E)) = {Ids(E)[i] : i \in 1..n}
    BY <1>3 DEF ToSet
  <2>2. \A x \in ToSet(Ids(E)) : x \in IdsOf(E)
    BY <1>1, <1>2, <2>1, IdsOfIs
  <2>3. \A x \in IdsOf(E) : x \in ToSet(Ids(E))
    BY <1>1, <1>2, <2>1, IdsOfIs
  <2> QED BY <2>2, <2>3
<1> QED BY <1>1, <1>2, <1>3, <1>4, <1>5 DEF list, n

\* Entities with the same ids have them in the same order.
LEMMA SameIds ==
    ASSUME NEW D, NEW E, IsEntities(D), IsEntities(E), IdsOf(D) = IdsOf(E)
    PROVE  Ids(D) = Ids(E)
  BY IdsInOrder

\* A color's storage: exclusive entities, then shared, then ghosts, each by id.
LEMMA LocalIs ==
    ASSUME Given, NEW r \in Colors, NEW s \in Spaces
    PROVE  LET ne == Some(r, s, "exclusive")
               ns == Some(r, s, "shared")
               ng == Some(r, s, "ghost")
           IN  /\ ne \in Nat /\ ns \in Nat /\ ng \in Nat /\ Held0(r, s) = ne + ns
               /\ Local(r, s) \in Seq(Nat) /\ DOMAIN Local(r, s) = 1..ne + ns + ng
               /\ \A x \in SharedIds(r, s) : /\ Position(x, SharedIds(r, s)) \in Nat
                                             /\ ne + Position(x, SharedIds(r, s)) + 1 \in 1..ne + ns
                                             /\ Local(r, s)[ne + Position(x, SharedIds(r, s)) + 1] = x
               /\ \A i \in 1..ng : /\ ne + ns + i \in DOMAIN Local(r, s)
                                   /\ Local(r, s)[ne + ns + i] = Ids(Col(r, s).ghost)[i]
               /\ \A i \in 1..ne + ns + ng : i > ne + ns =>
                     i - (ne + ns) \in 1..ng
               /\ ToSet(Local(r, s)) = IdsOf(Col(r, s).exclusive) \cup IdsOf(Col(r, s).shared)
                                       \cup IdsOf(Col(r, s).ghost)
<1> DEFINE ne == Some(r, s, "exclusive")
           ns == Some(r, s, "shared")
           ng == Some(r, s, "ghost")
           a == Ids(Col(r, s).exclusive)
           b == Ids(Col(r, s).shared)
           c == Ids(Col(r, s).ghost)
           X == SharedIds(r, s)
<1>0. ne = Cardinality(Col(r, s).exclusive) /\ ns = Cardinality(Col(r, s).shared)
      /\ ng = Cardinality(Col(r, s).ghost)
  BY DEF Some
<1>1. /\ IsEntities(Col(r, s).exclusive) /\ IsEntities(Col(r, s).shared) /\ IsEntities(Col(r, s).ghost)
  BY ColoringsMatch DEF Entire
<1>2. /\ ne \in Nat /\ ns \in Nat /\ ng \in Nat
      /\ a \in Seq(Nat) /\ Len(a) = ne /\ ToSet(a) = IdsOf(Col(r, s).exclusive)
      /\ b \in Seq(Nat) /\ Len(b) = ns /\ ToSet(b) = IdsOf(Col(r, s).shared)
      /\ c \in Seq(Nat) /\ Len(c) = ng /\ ToSet(c) = IdsOf(Col(r, s).ghost)
  BY <1>0, <1>1, IdsAre
<1>3. Held0(r, s) = ne + ns
  BY <1>0 DEF Held0
<1>4. Local(r, s) = (a \o b) \o c
  BY DEF Local
<1>5. X \subseteq Int /\ IsFiniteSet(X) /\ Cardinality(X) = ns /\ b = Ordered(X)
  <2>1. X \subseteq Nat /\ IsFiniteSet(X) /\ Cardinality(X) = ns /\ b = Ordered(X)
    BY <1>0, <1>1, IdsInOrder DEF SharedIds
  <2>2. \A x \in X : x \in Int
    BY <2>1
  <2> QED BY <2>1, <2>2
<1> HIDE DEF ne, ns, ng, a, b, c, X
<1>6. \A x \in X : Position(x, X) \in Nat /\ Position(x, X) + 1 \in 1..ns /\ b[Position(x, X) + 1] = x
  BY <1>5, OrderedIs, PositionIs
<1> DEFINE u == a \o b
           l == u \o c
<1>7. /\ u \in Seq(Nat) /\ Len(u) = ne + ns
      /\ \A i \in 1..ne + ns : u[i] = IF i <= ne THEN a[i] ELSE b[i - ne]
  BY <1>2, ConcatProperties
<1> HIDE DEF u
<1>8. /\ l \in Seq(Nat) /\ Len(l) = ne + ns + ng
      /\ \A i \in 1..ne + ns + ng : l[i] = IF i <= ne + ns THEN u[i] ELSE c[i - (ne + ns)]
  <2> DEFINE h == ne + ns
  <2>1. u \in Seq(Nat) /\ Len(u) = h /\ c \in Seq(Nat) /\ Len(c) = ng
    BY <1>2, <1>7
  <2> HIDE DEF h
  <2>2. /\ l \in Seq(Nat) /\ Len(l) = h + ng
        /\ \A i \in 1..h + ng : l[i] = IF i <= h THEN u[i] ELSE c[i - h]
    BY <2>1, ConcatProperties
  <2> QED BY <2>2 DEF h
<1> HIDE DEF l
<1>9. DOMAIN l = 1..ne + ns + ng
  BY <1>8
<1>10. \A x \in X : /\ ne + Position(x, X) + 1 \in 1..ne + ns
                    /\ l[ne + Position(x, X) + 1] = x
  <2> TAKE x \in X
  <2> DEFINE p == Position(x, X)
             j == ne + p + 1
  <2>1. p \in Nat /\ p + 1 \in 1..ns /\ b[p + 1] = x
    BY <1>6
  <2> HIDE DEF p
  <2>2. j \in 1..ne + ns /\ j \in 1..ne + ns + ng /\ ~(j <= ne) /\ j <= ne + ns /\ j - ne = p + 1
    BY <1>2, <2>1
  <2> HIDE DEF j
  <2>3. l[j] = x
    BY <1>7, <1>8, <2>1, <2>2
  <2> QED BY <2>2, <2>3 DEF j, p
<1>11. \A i \in 1..ng : ne + ns + i \in 1..ne + ns + ng /\ l[ne + ns + i] = c[i]
  <2> TAKE i \in 1..ng
  <2> DEFINE j == ne + ns + i
  <2>1. j \in 1..ne + ns + ng /\ ~(j <= ne + ns) /\ j - (ne + ns) = i
    BY <1>2
  <2> HIDE DEF j
  <2>2. l[j] = c[i]
    BY <1>8, <2>1
  <2> QED BY <2>1, <2>2 DEF j
<1>12. \A i \in 1..ne + ns + ng : i > ne + ns => i - (ne + ns) \in 1..ng
  BY <1>2
<1>13. ToSet(l) = ToSet(a) \cup ToSet(b) \cup ToSet(c)
  <2>a. DOMAIN a = 1..ne /\ DOMAIN b = 1..ns /\ DOMAIN c = 1..ng
    BY <1>2
  <2>b. \A x : x \in ToSet(l) <=> \E i \in 1..ne + ns + ng : l[i] = x
    BY <1>9 DEF ToSet
  <2>c. \A x : x \in ToSet(a) <=> \E i \in 1..ne : a[i] = x
    BY <2>a DEF ToSet
  <2>d. \A x : x \in ToSet(b) <=> \E i \in 1..ns : b[i] = x
    BY <2>a DEF ToSet
  <2>e. \A x : x \in ToSet(c) <=> \E i \in 1..ng : c[i] = x
    BY <2>a DEF ToSet
  <2>0. /\ \A x : x \in ToSet(l) <=> \E i \in 1..ne + ns + ng : l[i] = x
        /\ \A x : x \in ToSet(a) <=> \E i \in 1..ne : a[i] = x
        /\ \A x : x \in ToSet(b) <=> \E i \in 1..ns : b[i] = x
        /\ \A x : x \in ToSet(c) <=> \E i \in 1..ng : c[i] = x
    BY <2>b, <2>c, <2>d, <2>e
  <2>1. ASSUME NEW x \in ToSet(l) PROVE x \in ToSet(a) \cup ToSet(b) \cup ToSet(c)
    <3>1. PICK i \in 1..ne + ns + ng : l[i] = x
      BY <2>0
    <3>2. CASE i <= ne
      <4>1. i \in 1..ne /\ i \in 1..ne + ns /\ i <= ne + ns
        BY <1>2, <3>2
      <4> QED BY <1>7, <1>8, <2>0, <3>1, <3>2, <4>1
    <3>3. CASE ~(i <= ne) /\ i <= ne + ns
      <4>1. i - ne \in 1..ns /\ i \in 1..ne + ns
        BY <1>2, <3>3
      <4> QED BY <1>7, <1>8, <2>0, <3>1, <3>3, <4>1
    <3>4. CASE ~(i <= ne + ns)
      <4>1. i - (ne + ns) \in 1..ng
        BY <1>2, <3>4
      <4> QED BY <1>8, <2>0, <3>1, <3>4, <4>1
    <3>5. i <= ne \/ ~(i <= ne)
      OBVIOUS
    <3> QED BY <3>2, <3>3, <3>4, <3>5
  <2>2. ASSUME NEW x \in ToSet(a) PROVE x \in ToSet(l)
    <3>1. PICK i \in 1..ne : a[i] = x
      BY <2>0
    <3>2. i \in 1..ne + ns + ng /\ i \in 1..ne + ns /\ i <= ne /\ i <= ne + ns
      BY <1>2
    <3> QED BY <1>7, <1>8, <2>0, <3>1, <3>2
  <2>3. ASSUME NEW x \in ToSet(b) PROVE x \in ToSet(l)
    <3>1. PICK i \in 1..ns : b[i] = x
      BY <2>0
    <3>2. ne + i \in 1..ne + ns + ng /\ ne + i \in 1..ne + ns /\ ~(ne + i <= ne) /\ ne + i <= ne + ns
          /\ (ne + i) - ne = i
      BY <1>2
    <3>3. l[ne + i] = x
      BY <1>7, <1>8, <3>1, <3>2
    <3> QED BY <2>0, <3>2, <3>3
  <2>4. ASSUME NEW x \in ToSet(c) PROVE x \in ToSet(l)
    <3>1. PICK i \in 1..ng : c[i] = x
      BY <2>0
    <3> QED BY <1>11, <2>0, <3>1
  <2> QED BY <2>1, <2>2, <2>3, <2>4
<1>14. \A x \in X : Position(x, X) \in Nat
  BY <1>6
<1>15. Local(r, s) = l
  BY <1>4 DEF l, u
<1> QED BY <1>2, <1>3, <1>8, <1>9, <1>10, <1>11, <1>12, <1>13, <1>14, <1>15 DEF ne, ns, ng, a, b, c, X

\* What q packs for r, from which slots.
Packs(buf, places, q, r, s) ==
    /\ buf = Local(q, s) \/ buf = Written(q, s)
    /\ DOMAIN places = 1..Cardinality(Lent(q, r, s))
    /\ \A k \in DOMAIN places : places[k] = Position(Traded(q, r, s)[k], SharedIds(q, s))

\* An owner's message, packed from what it has written or from all its rows.
LEMMA PackedIs ==
    ASSUME Given, NEW q \in Colors, NEW r \in Colors, NEW s \in Spaces,
           NEW buf, NEW places, Packs(buf, places, q, r, s)
    PROVE  Pack(buf, Some(q, s, "exclusive"), places) = Traded(q, r, s)
<1>0. /\ buf = Local(q, s) \/ buf = Written(q, s)
      /\ DOMAIN places = 1..Cardinality(Lent(q, r, s))
      /\ \A k \in DOMAIN places : places[k] = Position(Traded(q, r, s)[k], SharedIds(q, s))
  BY DEF Packs
<1> DEFINE t == Traded(q, r, s)
           X == SharedIds(q, s)
           ne == Some(q, s, "exclusive")
           ns == Some(q, s, "shared")
           ng == Some(q, s, "ghost")
           m == Cardinality(Lent(q, r, s))
           l == Local(q, s)
<1>1. t = [k \in 1..m |-> t[k]] /\ \A k \in 1..m : t[k] \in X
  BY TradedIs
<1>2. /\ ne \in Nat /\ ns \in Nat /\ ng \in Nat /\ Held0(q, s) = ne + ns
      /\ DOMAIN l = 1..ne + ns + ng
      /\ \A x \in X : Position(x, X) \in Nat /\ ne + Position(x, X) + 1 \in 1..ne + ns
                      /\ l[ne + Position(x, X) + 1] = x
  BY LocalIs
<1> HIDE DEF t, X, ne, ns, ng, m
<1>3. \A k \in 1..m : buf[ne + places[k] + 1] = t[k]
  <2> TAKE k \in 1..m
  <2> DEFINE j == ne + Position(t[k], X) + 1
  <2>1. t[k] \in X
    BY <1>1
  <2>2. j \in 1..ne + ns /\ l[j] = t[k]
    BY <1>2, <2>1
  <2>3. places[k] = Position(t[k], X)
    BY <1>0 DEF t, X, m
  <2>4. ne + places[k] + 1 = j
    BY <2>3
  <2> HIDE DEF j
  <2>5. j \in DOMAIN l /\ j <= Held0(q, s)
    BY <1>2, <2>2
  <2>6. buf[j] = l[j]
    BY <1>0, <2>5 DEF Written
  <2> QED BY <2>2, <2>4, <2>6
<1>4. Pack(buf, ne, places) = [k \in 1..m |-> buf[ne + places[k] + 1]]
  BY <1>0 DEF Pack, m
<1>5. Pack(buf, ne, places) = [k \in 1..m |-> t[k]]
  BY <1>3, <1>4
<1> QED BY <1>1, <1>5 DEF ne, t

\* The places at which a user finds an owner's entities.
LEMMA PlacesAre ==
    ASSUME Given, NEW q \in Colors, NEW r \in Colors, NEW s \in Spaces, NEW F, GhostsLike(F, r, s)
    PROVE  LET m == Cardinality(Lent(q, r, s))
               at == OwnedHere(q, ById(F))
               t == Traded(q, r, s)
           IN  /\ DOMAIN t = 1..m
               /\ \A k \in 1..m : /\ at[k] \in DOMAIN ById(F) /\ at[k] \in Nat
                                  /\ ById(F)[at[k]].id = t[k]
               /\ \A i \in DOMAIN ById(F) : ById(F)[i].rank = q => \E k \in 1..m : at[k] = i
<1> DEFINE m == Cardinality(Lent(q, r, s))
           at == OwnedHere(q, ById(F))
           t == Traded(q, r, s)
<1>1. DOMAIN t = 1..m
  BY TradedIs
<1>2. \A k \in 1..m : at[k] \in DOMAIN ById(F) /\ at[k] \in Nat
  BY ReceiverIs
<1>3. \A k \in 1..m : ById(F)[at[k]].id = t[k]
  BY ReceiverIs
<1>4. \A i \in DOMAIN ById(F) : ById(F)[i].rank = q => \E k \in 1..m : at[k] = i
  BY ReceiverIs
<1> HIDE DEF m, at, t
<1> QED BY <1>1, <1>2, <1>3, <1>4 DEF m, at, t

\* The messages of the owners of ghosts, and the places that their rows go to.
Incoming(r, s, F, From, places, msg) ==
    /\ GhostsLike(F, r, s)
    /\ From \in SUBSET Colors /\ \A g \in F : g.rank \in From
    /\ DOMAIN msg = From
    /\ \A q \in From : /\ DOMAIN places[q] = 1..Cardinality(Lent(q, r, s))
                       /\ \A k \in DOMAIN places[q] : places[q][k] = OwnedHere(q, ById(F))[k] - 1
                       /\ msg[q] = Traded(q, r, s)

\* A user's rows when it has unpacked the messages of all its owners.
LEMMA UnpackedIs ==
    ASSUME Given, NEW r \in Colors, NEW s \in Spaces, NEW F, NEW From, NEW places, NEW msg,
           Incoming(r, s, F, From, places, msg)
    PROVE  Unpack(Written(r, s), Held0(r, s), places, msg) = Local(r, s)
<1> SUFFICES ASSUME GhostsLike(F, r, s), From \in SUBSET Colors, \A g \in F : g.rank \in From,
                    DOMAIN msg = From,
                    \A q \in From :
                        /\ DOMAIN places[q] = 1..Cardinality(Lent(q, r, s))
                        /\ \A k \in DOMAIN places[q] : places[q][k] = OwnedHere(q, ById(F))[k] - 1
                        /\ msg[q] = Traded(q, r, s)
             PROVE  Unpack(Written(r, s), Held0(r, s), places, msg) = Local(r, s)
  BY DEF Incoming
<1> DEFINE list == ById(F)
           news == UNION {{<<Held0(r, s) + places[q][k] + 1, msg[q][k]>> :
                            k \in DOMAIN places[q] \cap DOMAIN msg[q]} : q \in DOMAIN msg}
           ne == Some(r, s, "exclusive")
           ns == Some(r, s, "shared")
           ng == Some(r, s, "ghost")
           h == Held0(r, s)
           l == Local(r, s)
           c == Ids(Col(r, s).ghost)
<1>1. /\ ne \in Nat /\ ns \in Nat /\ ng \in Nat /\ h = ne + ns
      /\ DOMAIN l = 1..h + ng /\ l \in Seq(Nat)
      /\ \A i \in 1..ng : h + i \in DOMAIN l /\ l[h + i] = c[i]
      /\ \A i \in 1..h + ng : i > h => i - h \in 1..ng
  BY LocalIs
<1>2. IsEntities(F) /\ IsEntities(Col(r, s).ghost) /\ IdsOf(F) = IdsOf(Col(r, s).ghost)
  BY ColoringsMatch DEF Entire, GhostsLike
<1>3. /\ DOMAIN list = 1..ng /\ \A i \in 1..ng : list[i] \in F /\ list[i].id = c[i]
  <2>1. Cardinality(F) = Cardinality(Col(r, s).ghost)
    BY <1>2, IdsInOrder
  <2>2. Cardinality(F) = ng
    BY <2>1 DEF Some
  <2>3. Ids(F) = c
    BY <1>2, SameIds
  <2>4. /\ DOMAIN list = 1..Cardinality(F) /\ \A i \in 1..Cardinality(F) : list[i] \in F
        /\ \A i \in 1..Cardinality(F) : Ids(F)[i] = list[i].id
    BY <1>2, ByIdIs, IdsAre
  <2> HIDE DEF list, c, ng
  <2> QED BY <2>2, <2>3, <2>4
<1>4. ASSUME NEW q \in From
      PROVE  LET m == Cardinality(Lent(q, r, s))
                 at == OwnedHere(q, list)
                 t == Traded(q, r, s)
             IN  /\ DOMAIN t = 1..m
                 /\ \A k \in 1..m : at[k] \in 1..ng /\ at[k] \in Nat /\ c[at[k]] = t[k]
                 /\ \A i \in 1..ng : list[i].rank = q => \E k \in 1..m : at[k] = i
  <2> DEFINE m == Cardinality(Lent(q, r, s))
             at == OwnedHere(q, list)
             t == Traded(q, r, s)
  <2>0. q \in Colors
    OBVIOUS
  <2>1. /\ DOMAIN t = 1..m
        /\ \A k \in 1..m : at[k] \in DOMAIN list /\ at[k] \in Nat /\ list[at[k]].id = t[k]
        /\ \A i \in DOMAIN list : list[i].rank = q => \E k \in 1..m : at[k] = i
    BY ONLY <2>0, Given, r \in Colors, s \in Spaces, GhostsLike(F, r, s), PlacesAre
  <2> HIDE DEF m, at, t, list
  <2>2. /\ \A k \in 1..m : at[k] \in DOMAIN list /\ at[k] \in Nat /\ list[at[k]].id = t[k]
        /\ \A i \in DOMAIN list : list[i].rank = q => \E k \in 1..m : at[k] = i
    BY <2>1
  <2>3. \A k \in 1..m : at[k] \in 1..ng /\ at[k] \in Nat /\ c[at[k]] = t[k]
    BY <1>3, <2>2
  <2>4. \A i \in 1..ng : list[i].rank = q => \E k \in 1..m : at[k] = i
    BY <1>3, <2>2
  <2> QED BY <2>1, <2>3, <2>4 DEF m, at, t
<1> HIDE DEF ne, ns, ng, h, l, c, list
<1>5. \A n \in news : n[1] \in 1..h + ng /\ n[1] > h /\ n[2] = l[n[1]]
  <2> SUFFICES ASSUME NEW q \in From, NEW k \in DOMAIN places[q] \cap DOMAIN msg[q]
               PROVE  LET n == <<Held0(r, s) + places[q][k] + 1, msg[q][k]>>
                      IN  n[1] \in 1..h + ng /\ n[1] > h /\ n[2] = l[n[1]]
    OBVIOUS
  <2> DEFINE a == OwnedHere(q, list)[k]
  <2>1. a \in 1..ng /\ a \in Nat /\ c[a] = Traded(q, r, s)[k]
    BY <1>4
  <2>2. places[q][k] = a - 1 /\ msg[q][k] = Traded(q, r, s)[k]
    BY DEF list
  <2> HIDE DEF a
  <2>3. Held0(r, s) + places[q][k] + 1 = h + a
    BY <1>1, <2>1, <2>2 DEF h
  <2>4. h + a \in 1..h + ng /\ h + a > h /\ l[h + a] = c[a]
    BY <1>1, <2>1
  <2> QED BY <2>1, <2>2, <2>3, <2>4
<1>6. \A i \in 1..h + ng : i > h => \E n \in news : n[1] = i
  <2> SUFFICES ASSUME NEW i \in 1..h + ng, i > h PROVE \E n \in news : n[1] = i
    OBVIOUS
  <2> DEFINE j == i - h
  <2>1. j \in 1..ng /\ h + j = i /\ h \in Nat
    BY <1>1
  <2> HIDE DEF j
  <2>2. list[j].rank \in From
    BY <1>3, <2>1 DEF list
  <2>3. PICK q \in From : q = list[j].rank
    BY <2>2
  <2>4. PICK k \in 1..Cardinality(Lent(q, r, s)) : OwnedHere(q, list)[k] = j
    BY <1>4, <2>1, <2>3
  <2>5. k \in DOMAIN places[q] /\ k \in DOMAIN msg[q] /\ places[q][k] = j - 1
    BY <1>4, <2>4 DEF list
  <2>6. Held0(r, s) + places[q][k] + 1 = i
    BY <2>1, <2>5 DEF h
  <2> DEFINE n == <<Held0(r, s) + places[q][k] + 1, msg[q][k]>>
  <2>7. n \in news
    BY <2>5
  <2>8. n[1] = i
    BY <2>6
  <2> HIDE DEF n, news
  <2> QED BY <2>7, <2>8
<1>7. Unpack(Written(r, s), Held0(r, s), places, msg) =
        [i \in DOMAIN Written(r, s) |-> IF \E n \in news : n[1] = i
                             THEN (CHOOSE n \in news : n[1] = i)[2]
                             ELSE Written(r, s)[i]]
  BY DEF Unpack
<1> HIDE DEF news
<1>8. DOMAIN Written(r, s) = 1..h + ng /\ \A i \in 1..h + ng : i <= h => Written(r, s)[i] = l[i]
  BY <1>1 DEF Written, l, h
<1>9. \A i \in 1..h + ng : (IF \E n \in news : n[1] = i THEN (CHOOSE n \in news : n[1] = i)[2]
                                                        ELSE Written(r, s)[i]) = l[i]
  <2> TAKE i \in 1..h + ng
  <2>1. CASE \E n \in news : n[1] = i
    <3>1. (CHOOSE n \in news : n[1] = i) \in news /\ (CHOOSE n \in news : n[1] = i)[1] = i
      BY <2>1
    <3> QED BY <1>5, <2>1, <3>1
  <2>2. CASE ~\E n \in news : n[1] = i
    <3>1. i <= h
      BY <1>1, <1>6, <2>2
    <3> QED BY <1>8, <2>2, <3>1
  <2> QED BY <2>1, <2>2
<1>10. l = [i \in 1..h + ng |-> l[i]]
  BY <1>1
<1>11. Unpack(Written(r, s), Held0(r, s), places, msg) = [i \in 1..h + ng |-> l[i]]
  BY <1>7, <1>8, <1>9
<1> QED BY <1>10, <1>11 DEF l
=============================================================================
