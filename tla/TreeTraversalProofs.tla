------------------------- MODULE TreeTraversalProofs -------------------------
(***************************************************************************)
(* Proofs about TreeTraversal, for every pool, tree, query and choice of   *)
(* jobs that start a traversal: what the semaphore counts, and that a      *)
(* traversal which returns is complete and has left nothing behind.        *)
(*                                                                         *)
(* The invariant is about the branches that are still to be gone through,  *)
(* wherever they are: in the caller's list, in the queue of the pool or in *)
(* the hands of a worker.  None is below another, so each leaf is below    *)
(* one of them, or was handled, or is not the traversal's.                 *)
(***************************************************************************)
EXTENDS TreeTraversal, FiniteSetTheorems, SequenceTheorems, TLAPS

-----------------------------------------------------------------------------
(* Powers of two *)

\* h is the recursion that defines PowerOfTwo, up to n.
Powers(n, h) == h = [i \in 0..n |-> IF i = 0 THEN 1 ELSE 2 * h[i - 1]]

LEMMA PowersExist == \A n \in Nat : \E h : Powers(n, h)
<1> DEFINE S == {n \in Nat : ~\E h : Powers(n, h)}
<1>1. SUFFICES ASSUME S # {} PROVE FALSE
  OBVIOUS
<1>2. S \subseteq Nat
  OBVIOUS
<1>3. \E n \in S : \A m \in S : ~(<<m, n>> \in OpToRel(<, Nat))
  <2> HIDE DEF S
  <2> QED BY <1>1, <1>2, NatLessThanWellFounded, WFMin
<1>4. PICK n \in S : \A m \in S : ~(m < n)
  BY <1>2, <1>3 DEF OpToRel
<1>5. n # 0
  <2> DEFINE h == [i \in 0..0 |-> 1]
  <2>1. Powers(0, h)
    BY DEF Powers
  <2> QED BY <2>1
<1>6. PICK h : Powers(n - 1, h)
  BY <1>4, <1>5
<1> DEFINE g == [i \in 0..n |-> IF i < n THEN h[i] ELSE 2 * h[i - 1]]
<1>7. Powers(n, g)
  <2>1. n \in Nat
    OBVIOUS
  <2>2. h = [i \in 0..n - 1 |-> IF i = 0 THEN 1 ELSE 2 * h[i - 1]]
    BY <1>6 DEF Powers
  <2>3. \A i \in 0..n : g[i] = IF i = 0 THEN 1 ELSE 2 * g[i - 1]
    BY <1>5, <2>1, <2>2
  <2> QED BY <2>3 DEF Powers
<1> QED BY <1>4, <1>7

\* What PowerOfTwo computes.
LEMMA PowerOfTwoIs ==
    /\ PowerOfTwo(0) = 1
    /\ \A n \in Nat : PowerOfTwo(n) \in Nat \ {0} /\ PowerOfTwo(n + 1) = 2 * PowerOfTwo(n)
<1> DEFINE H(n) == CHOOSE h : Powers(n, h)
<1>1. \A n : PowerOfTwo(n) = H(n)[n]
  BY DEF PowerOfTwo, Powers
<1>2. \A n \in Nat : Powers(n, H(n))
  BY PowersExist
<1> HIDE DEF H
<1>3. ASSUME NEW n \in Nat, NEW m \in Nat, m <= n
      PROVE  \A i \in 0..m : H(n)[i] = H(m)[i]
  <2> DEFINE S == {i \in 0..m : H(n)[i] # H(m)[i]}
  <2>1. SUFFICES ASSUME S # {} PROVE FALSE
    OBVIOUS
  <2>2. S \subseteq Nat
    BY <1>3
  <2>3. \E i \in S : \A k \in S : ~(<<k, i>> \in OpToRel(<, Nat))
    <3> HIDE DEF S
    <3> QED BY <2>1, <2>2, NatLessThanWellFounded, WFMin
  <2>4. PICK i \in S : \A k \in S : ~(k < i)
    BY <2>2, <2>3 DEF OpToRel
  <2>5. /\ H(n)[i] = IF i = 0 THEN 1 ELSE 2 * H(n)[i - 1]
        /\ H(m)[i] = IF i = 0 THEN 1 ELSE 2 * H(m)[i - 1]
    BY <1>2, <1>3 DEF Powers
  <2>6. i = 0 \/ (i - 1 \in 0..m /\ i - 1 < i)
    BY <1>3
  <2> QED BY <2>4, <2>5, <2>6
<1>4. ASSUME NEW n \in Nat
      PROVE  H(n + 1)[n + 1] = 2 * H(n)[n]
  <2>1. H(n + 1) = [i \in 0..n + 1 |-> IF i = 0 THEN 1 ELSE 2 * H(n + 1)[i - 1]]
    BY <1>2 DEF Powers
  <2>2. H(n + 1)[n + 1] = 2 * H(n + 1)[n]
    BY <2>1
  <2> QED BY <1>3, <2>2
<1>5. H(0)[0] = 1
  BY <1>2 DEF Powers
<1>6. \A n \in Nat : H(n)[n] \in Nat \ {0}
  <2> DEFINE S == {n \in Nat : H(n)[n] \notin Nat \ {0}}
  <2>1. SUFFICES ASSUME S # {} PROVE FALSE
    OBVIOUS
  <2>2. \E n \in S : \A m \in S : ~(<<m, n>> \in OpToRel(<, Nat))
    <3>1. S \subseteq Nat
      OBVIOUS
    <3> HIDE DEF S
    <3> QED BY <2>1, <3>1, NatLessThanWellFounded, WFMin
  <2>3. PICK n \in S : \A m \in S : ~(m < n)
    BY <2>2 DEF OpToRel
  <2>4. n # 0
    BY <1>5
  <2>5. n - 1 \in Nat /\ (n - 1) + 1 = n /\ H(n - 1)[n - 1] \in Nat \ {0}
    BY <2>3, <2>4
  <2> QED BY <1>4, <2>5
<1> QED BY <1>1, <1>4, <1>5, <1>6

\* Powers of a sum, and of a number of times: they grow past any number.
LEMMA PowerOfSum ==
    ASSUME NEW a \in Nat
    PROVE  \A b \in Nat : PowerOfTwo(a + b) = PowerOfTwo(a) * PowerOfTwo(b)
<1> DEFINE S == {b \in Nat : PowerOfTwo(a + b) # PowerOfTwo(a) * PowerOfTwo(b)}
<1>1. SUFFICES ASSUME S # {} PROVE FALSE
  OBVIOUS
<1>2. \E n \in S : \A m \in S : ~(<<m, n>> \in OpToRel(<, Nat))
  <2>1. S \subseteq Nat
    OBVIOUS
  <2> HIDE DEF S
  <2> QED BY <1>1, <2>1, NatLessThanWellFounded, WFMin
<1>3. PICK b \in S : \A m \in S : ~(m < b)
  BY <1>2 DEF OpToRel
<1>4. b # 0
  BY PowerOfTwoIs
<1>5. b - 1 \in Nat /\ PowerOfTwo(a + (b - 1)) = PowerOfTwo(a) * PowerOfTwo(b - 1)
  BY <1>3, <1>4
<1>6. PowerOfTwo(a + b) = 2 * PowerOfTwo(a + (b - 1)) /\ PowerOfTwo(b) = 2 * PowerOfTwo(b - 1)
  <2>1. a + b = (a + (b - 1)) + 1 /\ b = (b - 1) + 1
    OBVIOUS
  <2> QED BY <1>5, <2>1, PowerOfTwoIs
<1>7. \A x, y \in Nat : 2 * (x * y) = x * (2 * y)
  OBVIOUS
<1> QED BY <1>5, <1>6, <1>7, PowerOfTwoIs

LEMMA PowerIsGreater == \A n \in Nat : PowerOfTwo(n) > n
<1> DEFINE S == {n \in Nat : ~(PowerOfTwo(n) > n)}
<1>1. SUFFICES ASSUME S # {} PROVE FALSE
  OBVIOUS
<1>2. \E n \in S : \A m \in S : ~(<<m, n>> \in OpToRel(<, Nat))
  <2>1. S \subseteq Nat
    OBVIOUS
  <2> HIDE DEF S
  <2> QED BY <1>1, <2>1, NatLessThanWellFounded, WFMin
<1>3. PICK n \in S : \A m \in S : ~(m < n)
  BY <1>2 DEF OpToRel
<1>4. n # 0
  BY PowerOfTwoIs
<1>5. n - 1 \in Nat /\ (n - 1) + 1 = n /\ PowerOfTwo(n - 1) > n - 1
  BY <1>3, <1>4
<1> QED BY <1>5, PowerOfTwoIs

\* get_queue_depth: there is such a logarithm, and one more is not zero.
LEMMA QueueDepthIs == QueueDepth \in Nat \ {0}
<1> DEFINE N == Cardinality(Workers)
           S == {k \in Nat : PowerOfTwo((k + 1) * Dimension) > N}
<1>1. N \in Nat \ {0} /\ Dimension \in Nat \ {0}
  BY TraversalAssumption, FS_CardinalityType, FS_EmptySet
<1> HIDE DEF N
<1>2. N \in S
  <2>1. (N + 1) * Dimension \in Nat /\ (N + 1) * Dimension >= N + 1
    BY <1>1
  <2> QED BY <1>1, <2>1, PowerIsGreater, PowerOfTwoIs
<1>3. \E k \in S : \A m \in S : ~(<<m, k>> \in OpToRel(<, Nat))
  <2>1. S \subseteq Nat /\ S # {}
    BY <1>2
  <2> HIDE DEF S
  <2> QED BY <2>1, NatLessThanWellFounded, WFMin
<1>4. PICK k \in S : \A m \in S : ~(m < k)
  BY <1>3 DEF OpToRel
<1>5. PowerOfTwo(k * Dimension) <= N
  <2>1. CASE k = 0
    <3>1. k * Dimension = 0
      BY <1>1, <2>1
    <3> QED BY <1>1, <3>1, PowerOfTwoIs
  <2>2. CASE k # 0
    <3>1. k - 1 \in Nat /\ k - 1 \notin S /\ (k - 1) + 1 = k
      BY <1>4, <2>2
    <3>2. k * Dimension \in Nat /\ ~(PowerOfTwo(k * Dimension) > N)
      BY <1>1, <3>1
    <3> QED BY <1>1, <3>2, PowerOfTwoIs
  <2> QED BY <2>1, <2>2
<1>6. k \in 0..N /\ PowerOfTwo((k + 1) * Dimension) > N
  BY <1>1, <1>2, <1>4
<1> QED BY <1>5, <1>6 DEF QueueDepth, N

-----------------------------------------------------------------------------
(* Branches *)

Tree == Seq(Children)

LEMMA BranchesAre ==
    /\ num_children \in Nat \ {0}
    /\ Branches \subseteq Tree /\ Inner \subseteq Tree /\ Nesting \subseteq Branches /\ LeftOut \subseteq Branches
    /\ Root \in Branches /\ Traversals \subseteq Branches
    /\ \A b \in Nesting : Len(b) = QueueDepth
    /\ \A b \in Inner, i \in Children : Append(b, i) \in Branches
    /\ \A b \in Tree : Len(b) \in Nat
<1>1. num_children \in Nat \ {0}
  BY PowerOfTwoIs, TraversalAssumption DEF num_children
<1>2. Root \in Tree /\ \A b \in Tree, i \in Children : Append(b, i) \in Tree
  BY DEF Root, Tree
<1>3. Inner \subseteq Tree /\ LeftOut \subseteq Branches /\ Nesting \subseteq Branches
  BY TraversalAssumption DEF Tree
<1>4. Root \in Branches /\ \A b \in Inner, i \in Children : Append(b, i) \in Branches
  BY DEF Branches
<1>5. Branches \subseteq Tree
  <2>1. \A b \in Branches : b = Root \/ \E a \in Inner, i \in Children : b = Append(a, i)
    BY DEF Branches
  <2> QED BY <1>2, <1>3, <2>1
<1>6. Traversals \subseteq Branches
  BY <1>3, <1>4 DEF Traversals
<1>7. \A b \in Nesting : Len(b) = QueueDepth
  BY TraversalAssumption
<1>8. \A b \in Tree : Len(b) \in Nat
  BY DEF Tree
<1> QED BY <1>1, <1>3, <1>4, <1>5, <1>6, <1>7, <1>8

LEMMA PrefixIs ==
    ASSUME NEW a \in Tree, NEW b \in Tree
    PROVE  IsPrefix(a, b) <=> Len(a) <= Len(b) /\ \A i \in 1..Len(a) : a[i] = b[i]
<1>1. Len(a) \in Nat /\ Len(b) \in Nat
  BY DEF Tree
<1>2. CASE Len(a) <= Len(b)
  <2>1. \A i \in 1..Len(a) : a[i] \in Children /\ b[i] \in Children
    BY <1>1, <1>2 DEF Tree
  <2>2. /\ SubSeq(a, 1, Len(a)) \in Tree /\ SubSeq(b, 1, Len(a)) \in Tree
        /\ Len(SubSeq(a, 1, Len(a))) = Len(a) /\ Len(SubSeq(b, 1, Len(a))) = Len(a)
        /\ \A i \in 1..Len(a) : SubSeq(a, 1, Len(a))[i] = a[i] /\ SubSeq(b, 1, Len(a))[i] = b[i]
    <3>1. 1 \in Int /\ Len(a) \in Int /\ (1 <= Len(a) \/ Len(a) = 0) /\ Len(a) - 1 + 1 = Len(a)
          /\ \A i \in 1..Len(a) : 1 + i - 1 = i
      BY <1>1
    <3> QED BY <2>1, <3>1, SubSeqProperties DEF Tree
  <2>3. SubSeq(a, 1, Len(a)) = SubSeq(b, 1, Len(a)) <=> \A i \in 1..Len(a) : a[i] = b[i]
    <3> DEFINE x == SubSeq(a, 1, Len(a))
               y == SubSeq(b, 1, Len(a))
    <3>1. x \in Seq(Children) /\ y \in Seq(Children) /\ Len(x) = Len(a) /\ Len(y) = Len(a)
      BY <2>2 DEF Tree
    <3>2. (\A i \in 1..Len(a) : a[i] = b[i]) <=> \A i \in 1..Len(x) : x[i] = y[i]
      BY <2>2, <3>1
    <3> HIDE DEF x, y
    <3>3. x = y <=> \A i \in 1..Len(x) : x[i] = y[i]
      BY <3>1, SeqEqual
    <3> QED BY <3>2, <3>3 DEF x, y
  <2> QED BY <1>2, <2>3 DEF IsPrefix
<1>3. CASE ~(Len(a) <= Len(b))
  BY <1>3 DEF IsPrefix
<1> QED BY <1>2, <1>3

\* Neither branch is below the other.
Apart(a, b) == ~IsPrefix(a, b) /\ ~IsPrefix(b, a)

LEMMA PrefixOrder ==
    /\ \A a \in Tree : IsPrefix(a, a) /\ IsPrefix(Root, a)
    /\ \A a, b, c \in Tree : IsPrefix(a, b) /\ IsPrefix(b, c) => IsPrefix(a, c)
    /\ \A a, b \in Tree : IsPrefix(a, b) => Len(a) <= Len(b)
    /\ \A a, b \in Tree : IsPrefix(a, b) /\ Len(b) <= Len(a) => a = b
    /\ \A a, b, c \in Tree : IsPrefix(a, c) /\ IsPrefix(b, c) => ~Apart(a, b)
    /\ \A a, b \in Tree : Apart(a, b) <=> Apart(b, a)
<1>0. \A a \in Tree : Len(a) \in Nat
  BY DEF Tree
<1>1. \A a \in Tree : IsPrefix(a, a) /\ IsPrefix(Root, a)
  <2>1. Root \in Tree /\ Len(Root) = 0
    BY DEF Root, Tree
  <2> QED BY <1>0, <2>1, PrefixIs
<1>2. \A a, b, c \in Tree : IsPrefix(a, b) /\ IsPrefix(b, c) => IsPrefix(a, c)
  <2>1. SUFFICES ASSUME NEW a \in Tree, NEW b \in Tree, NEW c \in Tree,
                        IsPrefix(a, b), IsPrefix(b, c)
                 PROVE  IsPrefix(a, c)
    OBVIOUS
  <2>2. Len(a) <= Len(b) /\ Len(b) <= Len(c)
    BY <2>1, PrefixIs
  <2>3. ASSUME NEW i \in 1..Len(a) PROVE a[i] = c[i]
    <3>1. i \in 1..Len(b)
      BY <1>0, <2>2
    <3> QED BY <2>1, <3>1, PrefixIs
  <2> QED BY <1>0, <2>2, <2>3, PrefixIs
<1>3. \A a, b \in Tree : IsPrefix(a, b) => Len(a) <= Len(b)
  BY PrefixIs
<1>4. \A a, b \in Tree : IsPrefix(a, b) /\ Len(b) <= Len(a) => a = b
  <2>1. SUFFICES ASSUME NEW a \in Tree, NEW b \in Tree, IsPrefix(a, b), Len(b) <= Len(a)
                 PROVE  a = b
    OBVIOUS
  <2>2. Len(a) = Len(b) /\ \A i \in 1..Len(a) : a[i] = b[i]
    BY <1>0, <2>1, PrefixIs
  <2> QED BY <2>2, SeqEqual DEF Tree
<1>5. \A a, b, c \in Tree : IsPrefix(a, c) /\ IsPrefix(b, c) => ~Apart(a, b)
  <2>1. SUFFICES ASSUME NEW a \in Tree, NEW b \in Tree, NEW c \in Tree,
                        IsPrefix(a, c), IsPrefix(b, c)
                 PROVE  IsPrefix(a, b) \/ IsPrefix(b, a)
    BY DEF Apart
  <2>2. /\ \A i \in 1..Len(a) : a[i] = c[i]
        /\ \A i \in 1..Len(b) : b[i] = c[i]
    BY <2>1, PrefixIs
  <2>3. CASE Len(a) <= Len(b)
    <3>1. \A i \in 1..Len(a) : i \in 1..Len(b)
      BY <1>0, <2>3
    <3> QED BY <2>2, <2>3, <3>1, PrefixIs
  <2>4. CASE Len(b) <= Len(a)
    <3>1. \A i \in 1..Len(b) : i \in 1..Len(a)
      BY <1>0, <2>4
    <3> QED BY <2>2, <2>4, <3>1, PrefixIs
  <2> QED BY <1>0, <2>3, <2>4
<1>6. \A a, b \in Tree : Apart(a, b) <=> Apart(b, a)
  BY DEF Apart
<1> QED BY <1>1, <1>2, <1>3, <1>4, <1>5, <1>6

\* Below a branch are the branch and what is below its kids, which are apart.
LEMMA KidsPart ==
    /\ \A b \in Tree, i \in Children :
          Append(b, i) \in Tree /\ Len(Append(b, i)) = Len(b) + 1 /\ IsPrefix(b, Append(b, i))
    /\ \A b, l \in Tree : IsPrefix(b, l) /\ b # l => \E i \in Children : IsPrefix(Append(b, i), l)
    /\ \A b \in Tree, i, j \in Children : i # j => Apart(Append(b, i), Append(b, j))
    /\ \A a, b \in Tree, i \in Children : IsPrefix(a, Append(b, i)) => a = Append(b, i) \/ IsPrefix(a, b)
<1>0. \A a \in Tree : Len(a) \in Nat
  BY DEF Tree
<1>1. \A b \in Tree, i \in Children :
          /\ Append(b, i) \in Tree /\ Len(Append(b, i)) = Len(b) + 1
          /\ Append(b, i)[Len(b) + 1] = i /\ \A k \in 1..Len(b) : Append(b, i)[k] = b[k]
  BY DEF Tree
<1>2. ASSUME NEW b \in Tree, NEW i \in Children
      PROVE  IsPrefix(b, Append(b, i))
  <2> DEFINE k == Append(b, i)
  <2>1. k \in Tree /\ Len(b) <= Len(k) /\ \A m \in 1..Len(b) : b[m] = k[m]
    BY <1>0, <1>1
  <2> HIDE DEF k
  <2>2. IsPrefix(b, k)
    BY <2>1, PrefixIs
  <2> QED BY <2>2 DEF k
<1>3. \A b, l \in Tree : IsPrefix(b, l) /\ b # l => \E i \in Children : IsPrefix(Append(b, i), l)
  <2>1. SUFFICES ASSUME NEW b \in Tree, NEW l \in Tree, IsPrefix(b, l), b # l
                 PROVE  \E i \in Children : IsPrefix(Append(b, i), l)
    OBVIOUS
  <2>2. Len(b) < Len(l)
    BY <1>0, <2>1, PrefixOrder
  <2> DEFINE i == l[Len(b) + 1]
             k == Append(b, i)
  <2>3. i \in Children
    BY <1>0, <2>2 DEF Tree
  <2>4. Len(k) <= Len(l)
    BY <1>0, <1>1, <2>2, <2>3
  <2>5. ASSUME NEW j \in 1..Len(k) PROVE k[j] = l[j]
    <3>1. j \in 1..Len(b) \/ j = Len(b) + 1
      BY <1>0, <1>1, <2>3
    <3>2. \A m \in 1..Len(b) : b[m] = l[m]
      BY <2>1, PrefixIs
    <3> QED BY <1>1, <2>3, <3>1, <3>2
  <2>6. k \in Tree
    BY <1>1, <2>3
  <2> HIDE DEF k
  <2>7. IsPrefix(k, l)
    BY <2>4, <2>5, <2>6, PrefixIs
  <2> QED BY <2>3, <2>7 DEF k
<1>4. \A b \in Tree, i, j \in Children : i # j => Apart(Append(b, i), Append(b, j))
  <2>1. SUFFICES ASSUME NEW b \in Tree, NEW i \in Children, NEW j \in Children, i # j
                 PROVE  ~IsPrefix(Append(b, i), Append(b, j))
    BY DEF Apart
  <2> DEFINE k == Append(b, i)
             m == Append(b, j)
  <2>2. /\ k \in Tree /\ Len(k) = Len(b) + 1 /\ k[Len(b) + 1] = i
        /\ m \in Tree /\ m[Len(b) + 1] = j
    BY <1>1
  <2> SUFFICES ~IsPrefix(k, m)
    OBVIOUS
  <2> HIDE DEF k, m
  <2>3. Len(b) + 1 \in 1..Len(k)
    BY <1>0, <2>2
  <2> QED BY <2>1, <2>2, <2>3, PrefixIs
<1>5. \A a, b \in Tree, i \in Children : IsPrefix(a, Append(b, i)) => a = Append(b, i) \/ IsPrefix(a, b)
  <2>1. SUFFICES ASSUME NEW a \in Tree, NEW b \in Tree, NEW i \in Children,
                        IsPrefix(a, Append(b, i)), a # Append(b, i)
                 PROVE  IsPrefix(a, b)
    OBVIOUS
  <2> DEFINE k == Append(b, i)
  <2>2. /\ k \in Tree /\ Len(k) = Len(b) + 1 /\ IsPrefix(a, k) /\ a # k
        /\ \A m \in 1..Len(b) : k[m] = b[m]
    BY <1>1, <2>1
  <2> HIDE DEF k
  <2>3. Len(a) <= Len(k) /\ ~(Len(k) <= Len(a))
    BY <2>2, PrefixOrder
  <2>4. Len(a) <= Len(b)
    BY <1>0, <2>2, <2>3
  <2>5. \A m \in 1..Len(a) : a[m] = b[m]
    <3>1. \A m \in 1..Len(a) : m \in 1..Len(b)
      BY <1>0, <2>4
    <3>2. \A m \in 1..Len(a) : a[m] = k[m]
      BY <2>2, PrefixIs
    <3> QED BY <2>2, <3>1, <3>2
  <2> QED BY <2>4, <2>5, PrefixIs
<1> QED BY <1>1, <1>2, <1>3, <1>4, <1>5

\* Nothing is below a leaf.
LEMMA LeavesAreLast ==
    ASSUME NEW b \in Branches \ Inner, NEW l \in Branches, IsPrefix(b, l)
    PROVE  l = b
<1>1. b \in Tree /\ l \in Tree
  BY BranchesAre
<1>2. CASE l = Root
  <2>1. Len(b) <= Len(l) /\ Len(l) = 0 /\ Len(b) \in Nat
    BY <1>1, <1>2, PrefixOrder, BranchesAre DEF Root
  <2> QED BY <1>1, <2>1, PrefixOrder
<1>3. ASSUME NEW a \in Inner, NEW i \in Children, l = Append(a, i), l # b
      PROVE  FALSE
  <2>1. a \in Tree /\ IsPrefix(b, a)
    BY <1>1, <1>3, BranchesAre, KidsPart
  <2>2. Len(b) \in 0..Len(a) /\ SubSeq(a, 1, Len(b)) \in Inner
    BY <1>1, <2>1, PrefixOrder, TraversalAssumption, BranchesAre DEF Tree
  <2>3. SubSeq(b, 1, Len(b)) = b
    BY <1>1, SubSeqFull DEF Tree
  <2> QED BY <2>1, <2>2, <2>3 DEF IsPrefix
<1> QED BY <1>2, <1>3 DEF Branches

-----------------------------------------------------------------------------
(* Jobs below branches *)

\* The branches down to the queue_depth of t.
Within(t) == {b \in Tree : Len(b) - Len(t) <= QueueDepth}

LEMMA WeightIs ==
    ASSUME NEW t \in Tree, NEW b \in Within(t)
    PROVE  /\ Weight(t, b) \in Nat \ {0}
           /\ AtQueueDepth(t, b) => Weight(t, b) = 1
           /\ ~AtQueueDepth(t, b) => \A i \in Children :
                 /\ Append(b, i) \in Within(t)
                 /\ Weight(t, b) = num_children * Weight(t, Append(b, i))
<1> DEFINE d == QueueDepth - (Len(b) - Len(t))
<1>1. d \in Nat /\ d * Dimension \in Nat /\ Dimension \in Nat
  <2>1. Len(b) \in Nat /\ Len(t) \in Nat /\ Len(b) - Len(t) <= QueueDepth
    BY DEF Tree, Within
  <2>2. d \in Nat
    BY <2>1, QueueDepthIs
  <2> HIDE DEF d
  <2> QED BY <2>2, TraversalAssumption
<1>2. Weight(t, b) = PowerOfTwo(d * Dimension)
  BY DEF Weight
<1>3. AtQueueDepth(t, b) => d * Dimension = 0
  <2>1. AtQueueDepth(t, b) => d = 0
    BY QueueDepthIs DEF AtQueueDepth
  <2> HIDE DEF d
  <2> QED BY <1>1, <2>1
<1>4. ASSUME ~AtQueueDepth(t, b), NEW i \in Children
      PROVE  /\ Append(b, i) \in Within(t)
             /\ Weight(t, b) = num_children * Weight(t, Append(b, i))
  <2>1. Append(b, i) \in Tree /\ Len(Append(b, i)) = Len(b) + 1
    BY DEF Tree, Within
  <2>2. Len(b) \in Nat /\ Len(t) \in Nat /\ Len(b) - Len(t) <= QueueDepth /\ QueueDepth \in Nat
        /\ Len(b) - Len(t) # QueueDepth
    BY <1>4, QueueDepthIs DEF Tree, Within, AtQueueDepth
  <2>3. Append(b, i) \in Within(t)
    BY <2>1, <2>2 DEF Within
  <2>4. d - 1 \in Nat /\ QueueDepth - (Len(Append(b, i)) - Len(t)) = d - 1
    BY <2>1, <2>2
  <2> DEFINE e == d - 1
             k == Append(b, i)
  <2>5. Weight(t, k) = PowerOfTwo(e * Dimension)
    BY <2>4 DEF Weight
  <2>6. e \in Nat /\ d = e + 1
    BY <1>1, <2>4
  <2> HIDE DEF d, e, k
  <2>7. e * Dimension \in Nat /\ d * Dimension = Dimension + e * Dimension
    BY <1>1, <2>6
  <2>8. PowerOfTwo(d * Dimension) = PowerOfTwo(Dimension) * PowerOfTwo(e * Dimension)
    BY <1>1, <2>7, PowerOfSum
  <2>9. Weight(t, b) = num_children * Weight(t, k)
    BY <1>2, <2>5, <2>8 DEF num_children
  <2> QED BY <2>3, <2>9 DEF k
<1> QED BY <1>1, <1>2, <1>3, <1>4, PowerOfTwoIs

\* h is the recursion that defines JobsBelow, up to n.
Belows(t, s, n, h) ==
    h = [i \in 0..n |-> IF i = 0 THEN 0 ELSE h[i - 1] + Weight(t, s[Len(s) + 1 - i])]

LEMMA BelowsExist == \A t, s : \A n \in Nat : \E h : Belows(t, s, n, h)
<1> SUFFICES ASSUME NEW t, NEW s PROVE \A n \in Nat : \E h : Belows(t, s, n, h)
  OBVIOUS
<1> DEFINE S == {n \in Nat : ~\E h : Belows(t, s, n, h)}
<1>1. SUFFICES ASSUME S # {} PROVE FALSE
  OBVIOUS
<1>2. S \subseteq Nat
  OBVIOUS
<1>3. \E n \in S : \A m \in S : ~(<<m, n>> \in OpToRel(<, Nat))
  <2> HIDE DEF S
  <2> QED BY <1>1, <1>2, NatLessThanWellFounded, WFMin
<1>4. PICK n \in S : \A m \in S : ~(m < n)
  BY <1>2, <1>3 DEF OpToRel
<1> DEFINE e(i) == Weight(t, s[Len(s) + 1 - i])
<1>5. \A m, h : Belows(t, s, m, h) <=> h = [i \in 0..m |-> IF i = 0 THEN 0 ELSE h[i - 1] + e(i)]
  BY DEF Belows
<1> HIDE DEF e
<1>6. n # 0
  <2> DEFINE h == [i \in 0..0 |-> 0]
  <2>1. Belows(t, s, 0, h)
    BY <1>5
  <2> QED BY <2>1
<1>7. PICK h : Belows(t, s, n - 1, h)
  BY <1>4, <1>6
<1> DEFINE g == [i \in 0..n |-> IF i < n THEN h[i] ELSE h[i - 1] + e(i)]
<1>8. Belows(t, s, n, g)
  <2>1. n \in Nat
    OBVIOUS
  <2>2. h = [i \in 0..n - 1 |-> IF i = 0 THEN 0 ELSE h[i - 1] + e(i)]
    BY <1>5, <1>7
  <2>3. \A i \in 0..n : g[i] = IF i = 0 THEN 0 ELSE g[i - 1] + e(i)
    BY <1>6, <2>1, <2>2
  <2> QED BY <1>5, <2>3
<1> QED BY <1>4, <1>8

\* What JobsBelow computes.
LEMMA JobsBelowIs ==
    ASSUME NEW t \in Tree
    PROVE  /\ JobsBelow(t, <<>>) = 0
           /\ \A s \in Seq(Within(t)) :
                 /\ JobsBelow(t, s) \in Nat
                 /\ s # <<>> => JobsBelow(t, s) = Weight(t, Head(s)) + JobsBelow(t, Tail(s))
<1> DEFINE H(s) == CHOOSE h : Belows(t, s, Len(s), h)
           W == Within(t)
<1>1. \A s : JobsBelow(t, s) = H(s)[Len(s)]
  BY DEF JobsBelow, Belows
<1>2. \A s \in Seq(W) : Belows(t, s, Len(s), H(s))
  BY BelowsExist
<1> HIDE DEF H
<1>3. \A s \in Seq(W) :
          /\ Len(s) \in Nat /\ H(s)[0] = 0
          /\ \A i \in 1..Len(s) : H(s)[i] = H(s)[i - 1] + Weight(t, s[Len(s) + 1 - i])
  <2>1. SUFFICES ASSUME NEW s \in Seq(W)
                 PROVE  /\ Len(s) \in Nat /\ H(s)[0] = 0
                        /\ \A i \in 1..Len(s) : H(s)[i] = H(s)[i - 1] + Weight(t, s[Len(s) + 1 - i])
    OBVIOUS
  <2>2. Len(s) \in Nat
    OBVIOUS
  <2>3. \A i \in 0..Len(s) :
            H(s)[i] = IF i = 0 THEN 0 ELSE H(s)[i - 1] + Weight(t, s[Len(s) + 1 - i])
    BY <1>2 DEF Belows
  <2> QED BY <2>2, <2>3
<1>4. \A w \in W : Weight(t, w) \in Nat
  BY WeightIs
<1> HIDE DEF W
<1>5. ASSUME NEW s \in Seq(W)
      PROVE  \A i \in 0..Len(s) : H(s)[i] \in Nat
  <2> DEFINE S == {i \in 0..Len(s) : H(s)[i] \notin Nat}
  <2>1. SUFFICES ASSUME S # {} PROVE FALSE
    OBVIOUS
  <2>2. S \subseteq Nat
    BY <1>3
  <2>3. \E i \in S : \A k \in S : ~(<<k, i>> \in OpToRel(<, Nat))
    <3> HIDE DEF S
    <3> QED BY <2>1, <2>2, NatLessThanWellFounded, WFMin
  <2>4. PICK i \in S : \A k \in S : ~(k < i)
    BY <2>2, <2>3 DEF OpToRel
  <2>5. i \in 1..Len(s) /\ i - 1 \in 0..Len(s) /\ i - 1 < i /\ Len(s) + 1 - i \in 1..Len(s)
    BY <1>3, <2>4
  <2>6. H(s)[i - 1] \in Nat /\ s[Len(s) + 1 - i] \in W
    BY <2>4, <2>5
  <2>7. H(s)[i] \in Nat
    BY <1>3, <1>4, <2>5, <2>6
  <2> QED BY <2>4, <2>7
<1>6. ASSUME NEW s \in Seq(W), s # <<>>
      PROVE  H(s)[Len(s)] = Weight(t, Head(s)) + H(Tail(s))[Len(Tail(s))]
  <2> DEFINE u == Tail(s)
  <2>1. /\ u \in Seq(W) /\ Len(s) \in Nat \ {0} /\ Len(u) = Len(s) - 1 /\ Head(s) = s[1]
        /\ Len(u) \in Nat /\ \A i \in 1..Len(u) : u[i] = s[i + 1]
    BY <1>6, HeadTailProperties, EmptySeq, LenProperties
  <2> HIDE DEF u
  <2>2. \A i \in 0..Len(u) : H(s)[i] = H(u)[i]
    <3> DEFINE S == {i \in 0..Len(u) : H(s)[i] # H(u)[i]}
    <3>1. SUFFICES ASSUME S # {} PROVE FALSE
      OBVIOUS
    <3>2. S \subseteq Nat
      BY <2>1
    <3>3. \E i \in S : \A k \in S : ~(<<k, i>> \in OpToRel(<, Nat))
      <4> HIDE DEF S
      <4> QED BY <3>1, <3>2, NatLessThanWellFounded, WFMin
    <3>4. PICK i \in S : \A k \in S : ~(k < i)
      BY <3>2, <3>3 DEF OpToRel
    <3>5. i # 0
      BY <1>3, <2>1, <3>4
    <3>6. i \in 1..Len(u) /\ i \in 1..Len(s) /\ i - 1 \in 0..Len(u) /\ i - 1 < i
          /\ Len(u) + 1 - i \in 1..Len(u) /\ (Len(u) + 1 - i) + 1 = Len(s) + 1 - i
      BY <2>1, <3>4, <3>5
    <3>7. H(s)[i - 1] = H(u)[i - 1] /\ u[Len(u) + 1 - i] = s[Len(s) + 1 - i]
      BY <2>1, <3>4, <3>6
    <3>8. H(s)[i] = H(u)[i]
      BY <1>3, <2>1, <3>6, <3>7
    <3> QED BY <3>4, <3>8
  <2>3. H(s)[Len(s)] = H(s)[Len(s) - 1] + Weight(t, s[1])
    <3>1. Len(s) \in 1..Len(s) /\ Len(s) + 1 - Len(s) = 1
      BY <2>1
    <3> QED BY <1>3, <3>1
  <2>4. H(u)[Len(u)] \in Nat /\ Weight(t, s[1]) \in Nat
    <3>1. s[1] \in W
      BY <2>1
    <3> QED BY <1>4, <1>5, <2>1, <3>1
  <2>5. H(s)[Len(s) - 1] = H(u)[Len(u)]
    BY <2>1, <2>2
  <2> QED BY <2>1, <2>3, <2>4, <2>5 DEF u
<1>7. JobsBelow(t, <<>>) = 0
  <2>1. <<>> \in Seq(W) /\ Len(<<>>) = 0
    OBVIOUS
  <2> QED BY <1>1, <1>3, <2>1
<1>8. \A s \in Seq(W) : JobsBelow(t, s) \in Nat
  BY <1>1, <1>3, <1>5
<1> QED BY <1>1, <1>6, <1>7, <1>8 DEF W

\* The kids of a branch have as many jobs below them as the branch.
LEMMA KidsWeigh ==
    ASSUME NEW t \in Tree, NEW b \in Within(t), b \in Inner, ~AtQueueDepth(t, b),
           NEW s \in Seq(Within(t))
    PROVE  /\ Kids(b) \o s \in Seq(Within(t))
           /\ JobsBelow(t, Kids(b) \o s) = Weight(t, b) + JobsBelow(t, s)
<1> DEFINE c == num_children
           W == Within(t)
           first == Weight(t, Append(b, 0))
           last(k) == [i \in 1..k |-> Append(b, c - k + i - 1)]
<1>1. c \in Nat \ {0}
  BY BranchesAre
<1>2. \A i \in Children : /\ Append(b, i) \in W /\ Weight(t, Append(b, i)) = first
  <2>1. 0 \in Children /\ first \in Nat
    <3>1. 0 \in Children
      BY <1>1 DEF Children
    <3>2. Append(b, 0) \in W
      BY <3>1, WeightIs
    <3> QED BY <3>1, <3>2, WeightIs
  <2>2. \A i \in Children : Append(b, i) \in W /\ Weight(t, Append(b, i)) \in Nat
    BY WeightIs
  <2>3. \A i \in Children : c * Weight(t, Append(b, i)) = c * first
    BY <2>1, WeightIs
  <2>4. \A x, y \in Nat : c * x = c * y => x = y
    BY <1>1
  <2> HIDE DEF first, W, c
  <2> QED BY <2>1, <2>2, <2>3, <2>4
<1>3. first \in Nat /\ Weight(t, b) = c * first
  <2>1. 0 \in Children
    BY <1>1 DEF Children
  <2> QED BY <2>1, WeightIs
<1>4. Kids(b) = last(c)
  BY <1>1 DEF Kids
<1> HIDE DEF first, W
<1>5. \A k \in 0..c : last(k) \in Seq(W) /\ Len(last(k)) = k
  <2>1. ASSUME NEW k \in 0..c PROVE last(k) \in Seq(W) /\ Len(last(k)) = k
    <3>1. \A i \in 1..k : c - k + i - 1 \in Children
      BY <1>1 DEF Children
    <3>2. k \in Nat /\ \A i \in 1..k : Append(b, c - k + i - 1) \in W
      <4>1. k \in Nat
        BY <1>1
      <4>2. ASSUME NEW i \in 1..k PROVE Append(b, c - k + i - 1) \in W
        <5> DEFINE m == c - k + i - 1
        <5>1. m \in Children
          BY <3>1
        <5> HIDE DEF m
        <5>2. Append(b, m) \in W
          BY <1>2, <5>1
        <5> QED BY <5>2 DEF m
      <4> QED BY <4>1, <4>2
    <3>3. last(k) \in [1..k -> W]
      BY <3>2
    <3> HIDE DEF last
    <3> QED BY <3>2, <3>3
  <2> QED BY <2>1
<1>6. ASSUME NEW k \in 1..c
      PROVE  /\ last(k) \o s # <<>>
             /\ Head(last(k) \o s) = Append(b, c - k)
             /\ Tail(last(k) \o s) = last(k - 1) \o s
  <2> DEFINE x == last(k)
             y == last(k - 1)
  <2>1. /\ x \in Seq(W) /\ Len(x) = k /\ y \in Seq(W) /\ Len(y) = k - 1
        /\ x[1] = Append(b, c - k)
        /\ \A i \in 1..k - 1 : y[i] = x[i + 1]
    <3>1. k \in 0..c /\ k - 1 \in 0..c /\ 1 \in 1..k /\ c - k + 1 - 1 = c - k
      BY <1>1
    <3>2. \A i \in 1..k - 1 : i + 1 \in 1..k /\ c - (k - 1) + i - 1 = c - k + (i + 1) - 1
      BY <1>1
    <3> QED BY <1>5, <3>1, <3>2
  <2> SUFFICES /\ x \o s # <<>> /\ Head(x \o s) = x[1]
               /\ Tail(x \o s) = y \o s
    BY <2>1
  <2> HIDE DEF x, y, last, c
  <2>0. s \in Seq(W) /\ Len(s) \in Nat
    BY DEF W
  <2>2. /\ x \o s \in Seq(W) /\ Len(x \o s) = k + Len(s) /\ Len(s) \in Nat /\ s \in Seq(W)
        /\ \A i \in 1..k + Len(s) : (x \o s)[i] = IF i <= k THEN x[i] ELSE s[i - k]
    BY ONLY <2>0, <2>1, ConcatProperties
  <2>3. /\ y \o s \in Seq(W) /\ Len(y \o s) = (k - 1) + Len(s)
        /\ \A i \in 1..(k - 1) + Len(s) : (y \o s)[i] = IF i <= k - 1 THEN y[i] ELSE s[i - (k - 1)]
    <3>1. /\ y \o s \in Seq(W) /\ Len(y \o s) = Len(y) + Len(s)
          /\ \A i \in 1..Len(y) + Len(s) :
                (y \o s)[i] = IF i <= Len(y) THEN y[i] ELSE s[i - Len(y)]
      BY ONLY <2>0, <2>1, ConcatProperties
    <3>2. Len(y) = k - 1
      BY <2>1
    <3> QED BY ONLY <3>1, <3>2
  <2>4. x \o s # <<>> /\ k \in Nat \ {0}
    BY <1>1, <2>2
  <2>5. Head(x \o s) = x[1]
    BY <2>2, <2>4
  <2> DEFINE p == Tail(x \o s)
             q == y \o s
  <2>6. /\ p \in Seq(W) /\ Len(p) = Len(q)
        /\ \A i \in 1..Len(p) : p[i] = (x \o s)[i + 1]
    BY <2>2, <2>3, <2>4, HeadTailProperties
  <2>7. ASSUME NEW i \in 1..Len(p) PROVE p[i] = q[i]
    <3>1. i + 1 \in 1..k + Len(s) /\ i \in 1..(k - 1) + Len(s) /\ (i + 1 <= k <=> i <= k - 1)
          /\ (i + 1) - k = i - (k - 1)
      BY <2>2, <2>3, <2>4, <2>6
    <3>2. i <= k - 1 => i \in 1..k - 1
      BY <3>1
    <3> QED BY <2>1, <2>2, <2>3, <2>6, <3>1, <3>2
  <2>8. p = q
    <3> HIDE DEF p, q
    <3>1. q \in Seq(W)
      BY <2>3 DEF q
    <3> QED BY <2>6, <2>7, <3>1, SeqEqual
  <2> QED BY <2>4, <2>5, <2>8
<1> DEFINE S == {k \in 0..c : JobsBelow(t, last(k) \o s) # k * first + JobsBelow(t, s)}
<1>7. S = {}
  <2>1. SUFFICES ASSUME S # {} PROVE FALSE
    OBVIOUS
  <2>2. S \subseteq Nat
    OBVIOUS
  <2>3. \E i \in S : \A k \in S : ~(<<k, i>> \in OpToRel(<, Nat))
    <3> HIDE DEF S
    <3> QED BY <2>1, <2>2, NatLessThanWellFounded, WFMin
  <2>4. PICK k \in S : \A i \in S : ~(i < k)
    BY <2>2, <2>3 DEF OpToRel
  <2>5. s \in Seq(W) /\ JobsBelow(t, s) \in Nat
    BY JobsBelowIs DEF W
  <2>6. ASSUME k = 0 PROVE FALSE
    <3>0. JobsBelow(t, last(0) \o s) # 0 * first + JobsBelow(t, s)
      BY <2>4, <2>6
    <3>1. last(0) \in Seq(W) /\ Len(last(0)) = 0
      BY <1>1, <1>5
    <3>3. last(0) = <<>> /\ <<>> \o s = s
      <4> HIDE DEF last
      <4> QED BY <2>5, <3>1, ConcatEmptySeq, EmptySeq
    <3>2. 0 * first = 0
      BY <1>3
    <3>4. JobsBelow(t, last(0) \o s) = JobsBelow(t, s)
      BY <3>3
    <3>5. 0 * first + JobsBelow(t, s) = JobsBelow(t, s)
      BY <2>5, <3>2
    <3> QED BY <3>0, <3>4, <3>5
  <2>7. k \in 1..c /\ k - 1 \in 0..c /\ k - 1 < k
    BY <1>1, <2>4, <2>6
  <2> DEFINE r == last(k) \o s
  <2>8. JobsBelow(t, Tail(r)) = (k - 1) * first + JobsBelow(t, s)
    BY <1>6, <2>4, <2>7
  <2>9. c - k \in Children
    BY <1>1, <2>7 DEF Children
  <2>10. r # <<>> /\ Weight(t, Head(r)) = first /\ r \in Seq(W)
    <3>1. last(k) \in Seq(W)
      BY <1>5, <2>7
    <3> QED BY <1>2, <1>6, <2>5, <2>7, <2>9, <3>1, ConcatProperties
  <2> HIDE DEF r
  <2>11. JobsBelow(t, r) = first + JobsBelow(t, Tail(r))
    BY <2>10, JobsBelowIs DEF W
  <2>12. first + (k - 1) * first = k * first
    <3> HIDE DEF last, c, S
    <3>1. k \in Nat /\ first \in Nat
      BY <1>1, <1>3, <2>7
    <3> QED BY <3>1
  <2>13. JobsBelow(t, r) = k * first + JobsBelow(t, s)
    <3>1. k * first \in Nat /\ (k - 1) * first \in Nat
      BY <1>1, <1>3, <2>7
    <3> QED BY <1>3, <2>5, <2>8, <2>11, <2>12, <3>1
  <2> QED BY <2>4, <2>13 DEF r
<1>8. last(c) \o s \in Seq(W) /\ JobsBelow(t, last(c) \o s) = c * first + JobsBelow(t, s)
  <2>1. c \in 0..c
    BY <1>1
  <2>2. last(c) \in Seq(W) /\ s \in Seq(W)
    BY <1>5, <2>1 DEF W
  <2> QED BY <1>7, <2>1, <2>2, ConcatProperties
<1> QED BY <1>3, <1>4, <1>8 DEF W

-----------------------------------------------------------------------------
(* The invariant *)

TypeOK ==
    /\ phase \in [Traversals -> {"uncalled", "descend", "acquire", "returned"}]
    /\ todo \in [Traversals -> Seq(Branches)]
    /\ sem \in [Traversals -> Int]
    /\ queue \in Seq(Jobs)
    /\ job \in [Workers -> SUBSET Jobs]
    /\ stage \in [Workers -> {"idle", "run", "nested", "release"}]
    /\ handled \in [Traversals -> [Branches \ Inner -> Nat]]

\* A worker that is not idle has one job.
JobOK == \A w \in Workers :
    IF stage[w] = "idle" THEN job[w] = {} ELSE \E j \in Jobs : job[w] = {j}

\* Only a traversal that was called and has not returned has jobs.
PhaseOK == \A t \in Traversals :
    /\ phase[t] \in {"uncalled", "returned"} => JobsOf(t) = {} /\ RunningFor(t) = {}
    /\ phase[t] # "descend" => todo[t] = <<>>

\* Branch b is still to be gone through for t: it is the i-th that the caller
\* has to come to, or of the i-th job, or of the job that worker i is to run.
Holds(t, k, i, b) ==
    \/ k = "todo" /\ i \in DOMAIN todo[t] /\ b = todo[t][i]
    \/ k = "queue" /\ i \in DOMAIN queue /\ queue[i] = [of |-> t, at |-> b]
    \/ k = "run" /\ i \in Workers /\ stage[i] = "run" /\ [of |-> t, at |-> b] \in job[i]

\* Such a branch belongs to the traversal, and jobs are those of queue_depth.
Placed(t, b) ==
    /\ b \in Branches /\ b \in Within(t) /\ IsPrefix(t, b)
    /\ t = Root => \A a \in LeftOut : IsPrefix(a, b) => a = b
TokensOK == \A t \in Traversals : \A k, i, b :
    Holds(t, k, i, b) => Placed(t, b) /\ (k # "todo" => AtQueueDepth(t, b))

\* None of them is below another.
ApartOK == \A t \in Traversals : \A k, i, b, m, n, c :
    Holds(t, k, i, b) /\ Holds(t, m, n, c) => (k = m /\ i = n) \/ Apart(b, c)

Covered(t, l) == \E k, i, b : Holds(t, k, i, b) /\ IsPrefix(b, l)

\* The leaves that are not below one of them have been handled.
HandledOK == \A t \in Traversals : \A l \in Branches \ Inner :
    handled[t][l] = IF l \in Reference(t) /\ phase[t] # "uncalled" /\ ~Covered(t, l) THEN 1 ELSE 0

\* A nested traversal is called by the job of its branch.
NestingOK == \A b \in Nesting :
    phase[Root] = "uncalled" \/ Covered(Root, b) => phase[b] = "uncalled"

IInv == /\ TypeOK /\ JobOK /\ PhaseOK /\ TokensOK /\ ApartOK
        /\ HandledOK /\ NestingOK /\ SemCountsJobs

-----------------------------------------------------------------------------
(* What a traversal handles *)

LEMMA ReferenceIs ==
    ASSUME NEW t \in Traversals, NEW b, Placed(t, b)
    PROVE  /\ TurnsDown(t, b) => \A l \in Branches : IsPrefix(b, l) => l \notin Reference(t)
           /\ ~TurnsDown(t, b) /\ ~AtQueueDepth(t, b) /\ b \notin Inner => b \in Reference(t)
           /\ AtQueueDepth(t, b) =>
                 \A l \in Branches : IsPrefix(b, l) =>
                     (l \in Reference(t) <=> l \in LeavesFor(t, b) /\ ~(t = Root /\ b \in Nesting))
           /\ \A l : l \in LeavesFor(t, b) => l \in Branches \ Inner /\ IsPrefix(b, l)
<1>1. t \in Tree /\ b \in Tree /\ b \in Branches /\ IsPrefix(t, b) /\ b \in Within(t)
  BY BranchesAre DEF Placed
<1>2. TurnsDown(t, b) => \A l \in Branches : IsPrefix(b, l) => l \notin Reference(t)
  <2>1. TurnsDown(t, b) => t = Root /\ b \in LeftOut /\ b \in Under(t)
    BY <1>1 DEF TurnsDown, Under
  <2> QED BY <2>1 DEF Reference, LeavesFor
<1>3. ASSUME t = Root, NEW a \in Nesting, NEW l \in Branches, IsPrefix(a, l), IsPrefix(b, l)
      PROVE  (AtQueueDepth(t, b) /\ a = b) \/ (~AtQueueDepth(t, b) /\ b # l)
  <2>1. a \in Tree /\ l \in Tree /\ Len(a) = QueueDepth /\ Len(t) = 0 /\ Len(b) \in Nat
    BY <1>3, BranchesAre DEF Root
  <2>2. Len(b) <= QueueDepth /\ (AtQueueDepth(t, b) <=> Len(b) = QueueDepth)
    BY <1>1, <2>1, QueueDepthIs DEF Within, AtQueueDepth
  <2>3. IsPrefix(a, b) \/ IsPrefix(b, a)
    BY <1>1, <1>3, <2>1, PrefixOrder DEF Apart
  <2>4. Len(b) = QueueDepth => a = b
    BY <1>1, <2>1, <2>3, PrefixOrder, QueueDepthIs
  <2>5. Len(b) # QueueDepth => b # l
    <3>1. b = l => Len(a) <= Len(b)
      BY <1>1, <1>3, <2>1, PrefixOrder
    <3> QED BY <2>1, <2>2, <3>1, QueueDepthIs
  <2> QED BY <2>2, <2>4, <2>5
<1>4. ASSUME ~TurnsDown(t, b), ~AtQueueDepth(t, b), b \notin Inner
      PROVE  b \in Reference(t)
  <2>1. t = Root => b \notin LeftOut
    BY <1>4 DEF TurnsDown
  <2>2. t = Root => \A a \in Nesting : ~IsPrefix(a, b)
    BY <1>1, <1>3, <1>4, PrefixOrder
  <2>3. t = Root => \A a \in Under(t) : IsPrefix(a, b) => a \notin LeftOut
    BY <2>1 DEF Placed
  <2> QED BY <1>1, <1>4, <2>2, <2>3 DEF Reference, LeavesFor, Under
<1>5. ASSUME AtQueueDepth(t, b), NEW l \in Branches, IsPrefix(b, l)
      PROVE  l \in Reference(t) <=> l \in LeavesFor(t, b) /\ ~(t = Root /\ b \in Nesting)
  <2>1. l \in Tree /\ IsPrefix(t, l)
    BY <1>1, <1>5, PrefixOrder, BranchesAre
  <2>2. t = Root => ((\A a \in Nesting : ~IsPrefix(a, l)) <=> b \notin Nesting)
    BY <1>3, <1>5
  <2>3. ASSUME t = Root
        PROVE  (\A a \in Under(t) : IsPrefix(a, l) => a \notin LeftOut)
               <=> (\A a \in Under(b) : IsPrefix(a, l) => a \notin LeftOut)
    <3>1. \A a \in Under(b) : a \in Under(t)
      BY <1>1, PrefixOrder, BranchesAre DEF Under
    <3>2. ASSUME NEW a \in Under(t), IsPrefix(a, l), a \in LeftOut, a \notin Under(b)
          PROVE  FALSE
      <4>1. a \in Branches /\ a \in Tree /\ ~IsPrefix(b, a)
        BY <3>2, BranchesAre DEF Under
      <4>2. IsPrefix(a, b)
        BY <1>1, <1>5, <2>1, <3>2, <4>1, PrefixOrder DEF Apart
      <4> QED BY <1>1, <2>3, <3>2, <4>1, <4>2, PrefixOrder DEF Placed
    <3> QED BY <3>1, <3>2
  <2>4. l \in Under(t) /\ l \in Under(b)
    BY <1>5, <2>1 DEF Under
  <2> QED BY <2>2, <2>3, <2>4 DEF Reference, LeavesFor
<1>6. \A l : l \in LeavesFor(t, b) => l \in Branches \ Inner /\ IsPrefix(b, l)
  BY DEF LeavesFor, Under
<1> QED BY <1>2, <1>4, <1>5, <1>6

-----------------------------------------------------------------------------
(* Steps that bring a traversal on *)

\* Nothing is left to go through that was not before, and nothing is lost.
Same == \A t \in Traversals : \A k, i, b : Holds(t, k, i, b)' <=> Holds(t, k, i, b)

LEMMA SameKeeps ==
    ASSUME TokensOK, ApartOK, Same
    PROVE  TokensOK' /\ ApartOK' /\ \A t \in Traversals : \A l : Covered(t, l)' <=> Covered(t, l)
<1>1. TokensOK'
  BY DEF TokensOK, Same, Placed, AtQueueDepth
<1>2. ApartOK'
  BY DEF ApartOK, Same
<1>3. \A t \in Traversals : \A l : Covered(t, l)' <=> Covered(t, l)
  BY DEF Covered, Same
<1> QED BY <1>1, <1>2, <1>3

LEMMA HoldsTypes ==
    ASSUME TypeOK, NEW t \in Traversals, NEW k, NEW i, NEW b, Holds(t, k, i, b)
    PROVE  /\ b \in Branches /\ b \in Tree
           /\ k = "todo" => i \in 1..Len(todo[t])
           /\ k = "queue" => i \in 1..Len(queue)
           /\ k \in {"todo", "queue"} => i \in Nat
<1>1. todo[t] \in Seq(Branches) /\ queue \in Seq(Jobs) /\ Len(todo[t]) \in Nat /\ Len(queue) \in Nat
  BY DEF TypeOK
<1>2. CASE k = "todo" /\ i \in DOMAIN todo[t] /\ b = todo[t][i]
  BY <1>1, <1>2, BranchesAre
<1>3. CASE k = "queue" /\ i \in DOMAIN queue /\ queue[i] = [of |-> t, at |-> b]
  <2>1. queue[i] \in Jobs
    BY <1>1, <1>3
  <2> QED BY <1>1, <1>3, <2>1, BranchesAre DEF Jobs
<1>4. CASE k = "run" /\ i \in Workers /\ stage[i] = "run" /\ [of |-> t, at |-> b] \in job[i]
  <2>1. [of |-> t, at |-> b] \in Jobs
    BY <1>4 DEF TypeOK
  <2> QED BY <1>4, <2>1, BranchesAre DEF Jobs
<1> QED BY <1>2, <1>3, <1>4 DEF Holds

\* The caller turns down, or handles, the branch it has come to.
LEMMA TakenKeeps ==
    ASSUME TypeOK, TokensOK, ApartOK, NEW t \in Traversals, todo[t] # <<>>,
           todo' = [todo EXCEPT ![t] = Tail(@)], UNCHANGED <<queue, job, stage>>
    PROVE  /\ TokensOK' /\ ApartOK'
           /\ \A u \in Traversals : \A l \in Branches :
                 Covered(u, l)' <=> Covered(u, l) /\ ~(u = t /\ IsPrefix(Head(todo[t]), l))
<1> DEFINE b == Head(todo[t])
           from(u, k, i) == IF u = t /\ k = "todo" THEN i + 1 ELSE i
<1>1. /\ todo[t] \in Seq(Branches) /\ Len(todo[t]) \in Nat \ {0} /\ b = todo[t][1]
      /\ Tail(todo[t]) \in Seq(Branches) /\ Len(Tail(todo[t])) = Len(todo[t]) - 1
      /\ \A i \in 1..Len(todo[t]) - 1 : Tail(todo[t])[i] = todo[t][i + 1]
  <2>1. todo[t] \in Seq(Branches)
    BY DEF TypeOK
  <2> QED BY <2>1, HeadTailProperties, EmptySeq
<1>2. /\ todo'[t] = Tail(todo[t])
      /\ \A u \in Traversals : u # t => todo'[u] = todo[u]
  BY DEF TypeOK
<1>3. DOMAIN todo'[t] = 1..Len(todo[t]) - 1 /\ DOMAIN todo[t] = 1..Len(todo[t])
  BY <1>1, <1>2, LenProperties
<1>4. Holds(t, "todo", 1, b)
  BY <1>1, <1>3 DEF Holds
<1>5. ASSUME NEW u \in Traversals, NEW k, NEW i, NEW c, Holds(u, k, i, c)'
      PROVE  /\ Holds(u, k, from(u, k, i), c)
             /\ u = t /\ k = "todo" => i \in Nat \ {0}
  <2>1. CASE k = "todo" /\ u = t
    <3>1. i \in 1..Len(todo[t]) - 1 /\ c = todo[t][i + 1]
      BY <1>1, <1>2, <1>3, <1>5, <2>1 DEF Holds
    <3>2. i + 1 \in 1..Len(todo[t]) /\ i \in Nat \ {0}
      BY <1>1, <3>1
    <3> QED BY <1>3, <2>1, <3>1, <3>2 DEF Holds
  <2>2. CASE ~(k = "todo" /\ u = t)
    BY <1>2, <1>5, <2>2 DEF Holds
  <2> QED BY <2>1, <2>2
<1>6. ASSUME NEW u \in Traversals, NEW k, NEW i, NEW c, Holds(u, k, i, c)
      PROVE  (u = t /\ c = b) \/ \E m : Holds(u, k, m, c)'
  <2>1. CASE k = "todo" /\ u = t /\ i # 1
    <3>1. i \in 1..Len(todo[t]) /\ c = todo[t][i]
      BY <1>3, <1>6, <2>1 DEF Holds
    <3>2. i - 1 \in 1..Len(todo[t]) - 1 /\ (i - 1) + 1 = i
      BY <1>1, <2>1, <3>1
    <3>3. Holds(u, k, i - 1, c)'
      BY <1>1, <1>2, <1>3, <2>1, <3>1, <3>2 DEF Holds
    <3> QED BY <3>3
  <2>2. CASE k = "todo" /\ u = t /\ i = 1
    BY <1>1, <1>6, <2>2 DEF Holds
  <2>3. CASE ~(k = "todo" /\ u = t)
    <3>1. Holds(u, k, i, c)'
      BY <1>2, <1>6, <2>3 DEF Holds
    <3> QED BY <3>1
  <2> QED BY <2>1, <2>2, <2>3
<1>7. TokensOK'
  BY <1>5 DEF TokensOK, Placed, AtQueueDepth
<1>8. ApartOK'
  <2>1. SUFFICES ASSUME NEW u \in Traversals, NEW k, NEW i, NEW c, NEW m, NEW n, NEW d,
                        Holds(u, k, i, c)', Holds(u, m, n, d)'
                 PROVE  (k = m /\ i = n) \/ Apart(c, d)
    BY DEF ApartOK
  <2>2. (k = m /\ from(u, k, i) = from(u, m, n)) \/ Apart(c, d)
    BY <1>5, <2>1 DEF ApartOK
  <2>3. k = m /\ from(u, k, i) = from(u, m, n) => i = n
    BY <1>5, <2>1
  <2> QED BY <2>2, <2>3
<1>9. ASSUME NEW u \in Traversals, NEW l \in Branches
      PROVE  Covered(u, l)' <=> Covered(u, l) /\ ~(u = t /\ IsPrefix(b, l))
  <2>1. ASSUME Covered(u, l)'
        PROVE  Covered(u, l) /\ ~(u = t /\ IsPrefix(b, l))
    <3>1. PICK k, i, c : Holds(u, k, i, c)' /\ IsPrefix(c, l)
      BY <2>1 DEF Covered
    <3>2. Holds(u, k, from(u, k, i), c)
      BY <1>5, <3>1
    <3>3. u = t => ~(k = "todo" /\ from(u, k, i) = 1)
      BY <1>5, <3>1
    <3>4. u = t => Apart(b, c)
      BY <1>4, <3>2, <3>3 DEF ApartOK
    <3>5. b \in Tree /\ c \in Tree /\ l \in Tree
      BY <1>4, <3>2, HoldsTypes, BranchesAre
    <3>6. u = t => ~IsPrefix(b, l)
      BY <3>1, <3>4, <3>5, PrefixOrder
    <3> HIDE DEF from
    <3> QED BY <3>1, <3>2, <3>6 DEF Covered
  <2>2. ASSUME Covered(u, l), ~(u = t /\ IsPrefix(b, l))
        PROVE  Covered(u, l)'
    <3>1. PICK k, i, c : Holds(u, k, i, c) /\ IsPrefix(c, l)
      BY <2>2 DEF Covered
    <3>2. PICK m : Holds(u, k, m, c)'
      BY <1>6, <2>2, <3>1
    <3> QED BY <3>1, <3>2 DEF Covered
  <2> QED BY <2>1, <2>2
<1> QED BY <1>7, <1>8, <1>9

\* The branch the caller has come to becomes that of the last job.
LEMMA EnqueueKeeps ==
    ASSUME TypeOK, TokensOK, ApartOK, NEW t \in Traversals, NEW b \in Branches, Enqueue(t, b)
    PROVE  /\ TokensOK' /\ ApartOK'
           /\ \A u \in Traversals : \A l \in Branches : Covered(u, l)' <=> Covered(u, l)
<1> DEFINE n == Len(queue)
           last(k, i) == k = "queue" /\ i = n + 1
           place(k, i) == IF last(k, i) THEN "todo" ELSE k
           from(u, k, i) == IF last(k, i) THEN 1 ELSE IF u = t /\ k = "todo" THEN i + 1 ELSE i
           new == [of |-> t, at |-> b]
<1>0. Comes(t, b) /\ AtQueueDepth(t, b)
  BY DEF Enqueue
<1>1. /\ todo[t] \in Seq(Branches) /\ Len(todo[t]) \in Nat \ {0} /\ b = todo[t][1]
      /\ Tail(todo[t]) \in Seq(Branches) /\ Len(Tail(todo[t])) = Len(todo[t]) - 1
      /\ \A i \in 1..Len(todo[t]) - 1 : Tail(todo[t])[i] = todo[t][i + 1]
  <2>1. todo[t] \in Seq(Branches) /\ todo[t] # <<>> /\ b = Head(todo[t])
    BY <1>0 DEF TypeOK, Comes
  <2> QED BY <2>1, HeadTailProperties, EmptySeq
<1>2. /\ todo'[t] = Tail(todo[t])
      /\ \A u \in Traversals : u # t => todo'[u] = todo[u]
      /\ job' = job /\ stage' = stage
  BY DEF TypeOK, Enqueue
<1>3. DOMAIN todo'[t] = 1..Len(todo[t]) - 1 /\ DOMAIN todo[t] = 1..Len(todo[t])
  BY <1>1, <1>2, LenProperties
<1>4. /\ n \in Nat /\ DOMAIN queue = 1..n /\ DOMAIN queue' = 1..n + 1
      /\ queue'[n + 1] = new /\ \A i \in 1..n : queue'[i] = queue[i]
  <2>1. new \in Jobs /\ queue \in Seq(Jobs) /\ queue' = Append(queue, new)
    BY DEF TypeOK, Enqueue, Jobs
  <2> HIDE DEF new
  <2> QED BY <2>1
<1>5. ASSUME NEW u \in Traversals, NEW k, NEW i, NEW c, Holds(u, k, i, c)'
      PROVE  /\ Holds(u, place(k, i), from(u, k, i), c)
             /\ u = t /\ k = "todo" => i \in Nat \ {0}
             /\ last(k, i) => u = t /\ c = b
  <2>1. CASE k = "todo" /\ u = t
    <3>1. i \in 1..Len(todo[t]) - 1 /\ c = todo[t][i + 1]
      BY <1>1, <1>2, <1>3, <1>5, <2>1 DEF Holds
    <3>2. i + 1 \in 1..Len(todo[t]) /\ i \in Nat \ {0}
      BY <1>1, <3>1
    <3> QED BY <1>3, <2>1, <3>1, <3>2 DEF Holds
  <2>2. CASE last(k, i)
    <3>1. new = [of |-> u, at |-> c]
      BY <1>4, <1>5, <2>2 DEF Holds
    <3>2. u = t /\ c = b
      BY <3>1
    <3>3. 1 \in 1..Len(todo[t])
      BY <1>1
    <3> QED BY <1>1, <1>3, <2>2, <3>2, <3>3 DEF Holds
  <2>3. CASE k = "queue" /\ i # n + 1
    <3>1. i \in 1..n /\ queue[i] = [of |-> u, at |-> c]
      <4>1. i \in 1..n + 1 /\ queue'[i] = [of |-> u, at |-> c]
        BY <1>4, <1>5, <2>3 DEF Holds
      <4>2. i \in 1..n
        BY <1>4, <2>3, <4>1
      <4> QED BY <1>4, <4>1, <4>2
    <3> QED BY <1>4, <2>3, <3>1 DEF Holds
  <2>4. CASE (k = "todo" /\ u # t) \/ k \notin {"todo", "queue"}
    BY <1>2, <1>5, <2>4 DEF Holds
  <2> QED BY <2>1, <2>2, <2>3, <2>4
<1>6. ASSUME NEW u \in Traversals, NEW k, NEW i, NEW c, Holds(u, k, i, c)
      PROVE  \E p, m : Holds(u, p, m, c)'
  <2>1. CASE k = "todo" /\ u = t /\ i # 1
    <3>1. i \in 1..Len(todo[t]) /\ c = todo[t][i]
      BY <1>3, <1>6, <2>1 DEF Holds
    <3>2. i - 1 \in 1..Len(todo[t]) - 1 /\ (i - 1) + 1 = i
      BY <1>1, <2>1, <3>1
    <3>3. Holds(u, k, i - 1, c)'
      BY <1>1, <1>2, <1>3, <2>1, <3>1, <3>2 DEF Holds
    <3> QED BY <3>3
  <2>2. CASE k = "todo" /\ u = t /\ i = 1
    <3>1. c = b /\ n + 1 \in DOMAIN queue'
      BY <1>1, <1>4, <1>6, <2>2 DEF Holds
    <3>2. queue'[n + 1] = [of |-> u, at |-> c]
      BY <1>4, <2>2, <3>1
    <3>3. PICK m : m = n + 1
      OBVIOUS
    <3>4. Holds(u, "queue", m, c)'
      BY <3>1, <3>2, <3>3 DEF Holds
    <3> QED BY <3>4
  <2>3. CASE ~(k = "todo" /\ u = t)
    <3>1. Holds(u, k, i, c)'
      <4>1. \A m \in 1..n : m \in 1..n + 1
        BY <1>4
      <4> QED BY <1>2, <1>4, <1>6, <2>3, <4>1 DEF Holds
    <3> QED BY <3>1
  <2> QED BY <2>1, <2>2, <2>3
<1>7. TokensOK'
  <2>1. ASSUME NEW u \in Traversals, NEW k, NEW i, NEW c, Holds(u, k, i, c)'
        PROVE  Placed(u, c) /\ (k # "todo" => AtQueueDepth(u, c))
    <3>1. Placed(u, c) /\ (place(k, i) # "todo" => AtQueueDepth(u, c))
      BY <1>5, <2>1 DEF TokensOK
    <3> QED BY <1>0, <1>5, <2>1, <3>1
  <2> QED BY <2>1 DEF TokensOK, Placed, AtQueueDepth
<1>8. ApartOK'
  <2>1. SUFFICES ASSUME NEW u \in Traversals, NEW k, NEW i, NEW c, NEW m, NEW j, NEW d,
                        Holds(u, k, i, c)', Holds(u, m, j, d)'
                 PROVE  (k = m /\ i = j) \/ Apart(c, d)
    BY DEF ApartOK
  <2>2. (place(k, i) = place(m, j) /\ from(u, k, i) = from(u, m, j)) \/ Apart(c, d)
    <3>1. Holds(u, place(k, i), from(u, k, i), c) /\ Holds(u, place(m, j), from(u, m, j), d)
      BY <1>5, <2>1
    <3> QED BY <3>1 DEF ApartOK
  <2>3. place(k, i) = place(m, j) /\ from(u, k, i) = from(u, m, j) => k = m /\ i = j
    <3>1. /\ u = t /\ k = "todo" => i \in Nat \ {0}
          /\ u = t /\ m = "todo" => j \in Nat \ {0}
          /\ last(k, i) => u = t
          /\ last(m, j) => u = t
      BY <1>5, <2>1
    <3> HIDE DEF n
    <3> QED BY <3>1
  <2> QED BY <2>2, <2>3
<1>9. ASSUME NEW u \in Traversals, NEW l \in Branches
      PROVE  Covered(u, l)' <=> Covered(u, l)
  <2>1. Covered(u, l)' => Covered(u, l)
    <3>1. ASSUME NEW k, NEW i, NEW c, Holds(u, k, i, c)', IsPrefix(c, l)
          PROVE  Covered(u, l)
      <4>1. Holds(u, place(k, i), from(u, k, i), c)
        BY <1>5, <3>1
      <4> HIDE DEF place, from
      <4> QED BY <3>1, <4>1 DEF Covered
    <3> QED BY <3>1 DEF Covered
  <2>2. Covered(u, l) => Covered(u, l)'
    <3>1. ASSUME NEW k, NEW i, NEW c, Holds(u, k, i, c), IsPrefix(c, l)
          PROVE  Covered(u, l)'
      <4>1. PICK p, m : Holds(u, p, m, c)'
        BY <1>6, <3>1
      <4> QED BY <3>1, <4>1 DEF Covered
    <3> QED BY <3>1 DEF Covered
  <2> QED BY <2>1, <2>2
<1> QED BY <1>7, <1>8, <1>9

\* The branch of the first job becomes that of a job that runs.
LEMMA PopKeeps ==
    ASSUME TypeOK, JobOK, TokensOK, ApartOK, NEW w \in Workers, Pop(w)
    PROVE  /\ TokensOK' /\ ApartOK'
           /\ \A u \in Traversals : \A l \in Branches : Covered(u, l)' <=> Covered(u, l)
<1> DEFINE first(k, i) == k = "run" /\ i = w
           place(k, i) == IF first(k, i) THEN "queue" ELSE k
           from(k, i) == IF first(k, i) THEN 1 ELSE IF k = "queue" THEN i + 1 ELSE i
<1>1. /\ Len(queue) \in Nat \ {0} /\ DOMAIN queue = 1..Len(queue) /\ Head(queue) = queue[1]
      /\ DOMAIN queue' = 1..Len(queue) - 1
      /\ \A i \in 1..Len(queue) - 1 : queue'[i] = queue[i + 1]
  <2>1. queue \in Seq(Jobs) /\ queue # <<>> /\ queue' = Tail(queue)
    BY DEF TypeOK, Pop
  <2>2. /\ Tail(queue) \in Seq(Jobs) /\ Len(Tail(queue)) = Len(queue) - 1
        /\ \A i \in 1..Len(Tail(queue)) : Tail(queue)[i] = queue[i + 1]
    BY <2>1, HeadTailProperties
  <2> QED BY <2>1, <2>2, EmptySeq, LenProperties
<1>2. /\ todo' = todo /\ stage[w] = "idle" /\ stage'[w] = "run" /\ job'[w] = {queue[1]}
      /\ \A v \in Workers : v # w => stage'[v] = stage[v] /\ job'[v] = job[v]
  BY <1>1 DEF TypeOK, Pop
<1>3. ASSUME NEW u \in Traversals, NEW k, NEW i, NEW c, Holds(u, k, i, c)'
      PROVE  /\ Holds(u, place(k, i), from(k, i), c)
             /\ k = "queue" => i \in Nat \ {0}
  <2>1. CASE k = "queue"
    <3>1. i \in 1..Len(queue) - 1 /\ queue[i + 1] = [of |-> u, at |-> c]
      BY <1>1, <1>3, <2>1 DEF Holds
    <3>2. i + 1 \in 1..Len(queue) /\ i \in Nat \ {0}
      BY <1>1, <3>1
    <3> QED BY <1>1, <2>1, <3>1, <3>2 DEF Holds
  <2>2. CASE first(k, i)
    <3>1. queue[1] = [of |-> u, at |-> c]
      BY <1>2, <1>3, <2>2 DEF Holds
    <3>2. 1 \in 1..Len(queue)
      BY <1>1
    <3> QED BY <1>1, <2>2, <3>1, <3>2 DEF Holds
  <2>3. CASE k # "queue" /\ ~first(k, i)
    BY <1>2, <1>3, <2>3 DEF Holds
  <2> QED BY <2>1, <2>2, <2>3
<1>4. ASSUME NEW u \in Traversals, NEW k, NEW i, NEW c, Holds(u, k, i, c)
      PROVE  \E p, m : Holds(u, p, m, c)'
  <2>1. CASE k = "queue" /\ i # 1
    <3>1. i \in 1..Len(queue) /\ queue[i] = [of |-> u, at |-> c]
      BY <1>1, <1>4, <2>1 DEF Holds
    <3>2. i - 1 \in 1..Len(queue) - 1 /\ (i - 1) + 1 = i
      BY <1>1, <2>1, <3>1
    <3>3. Holds(u, k, i - 1, c)'
      BY <1>1, <2>1, <3>1, <3>2 DEF Holds
    <3> QED BY <3>3
  <2>2. CASE k = "queue" /\ i = 1
    <3>1. queue[1] = [of |-> u, at |-> c]
      BY <1>4, <2>2 DEF Holds
    <3>2. Holds(u, "run", w, c)'
      BY <1>2, <3>1 DEF Holds
    <3> QED BY <3>2
  <2>3. CASE k # "queue"
    <3>1. ~(k = "run" /\ i = w)
      BY <1>2, <1>4 DEF Holds
    <3>2. Holds(u, k, i, c)'
      BY <1>2, <1>4, <2>3, <3>1 DEF Holds
    <3> QED BY <3>2
  <2> QED BY <2>1, <2>2, <2>3
<1>5. TokensOK'
  <2>1. ASSUME NEW u \in Traversals, NEW k, NEW i, NEW c, Holds(u, k, i, c)'
        PROVE  Placed(u, c) /\ (k # "todo" => AtQueueDepth(u, c))
    <3>1. Placed(u, c) /\ (place(k, i) # "todo" => AtQueueDepth(u, c))
      BY <1>3, <2>1 DEF TokensOK
    <3> QED BY <3>1
  <2> QED BY <2>1 DEF TokensOK, Placed, AtQueueDepth
<1>6. ApartOK'
  <2>1. SUFFICES ASSUME NEW u \in Traversals, NEW k, NEW i, NEW c, NEW m, NEW j, NEW d,
                        Holds(u, k, i, c)', Holds(u, m, j, d)'
                 PROVE  (k = m /\ i = j) \/ Apart(c, d)
    BY DEF ApartOK
  <2>2. (place(k, i) = place(m, j) /\ from(k, i) = from(m, j)) \/ Apart(c, d)
    <3>1. Holds(u, place(k, i), from(k, i), c) /\ Holds(u, place(m, j), from(m, j), d)
      BY <1>3, <2>1
    <3> QED BY <3>1 DEF ApartOK
  <2>3. place(k, i) = place(m, j) /\ from(k, i) = from(m, j) => k = m /\ i = j
    <3>1. (k = "queue" => i \in Nat \ {0}) /\ (m = "queue" => j \in Nat \ {0})
      BY <1>3, <2>1
    <3> QED BY <3>1
  <2> QED BY <2>2, <2>3
<1>7. ASSUME NEW u \in Traversals, NEW l \in Branches
      PROVE  Covered(u, l)' <=> Covered(u, l)
  <2>1. Covered(u, l)' => Covered(u, l)
    <3>1. ASSUME NEW k, NEW i, NEW c, Holds(u, k, i, c)', IsPrefix(c, l)
          PROVE  Covered(u, l)
      <4>1. Holds(u, place(k, i), from(k, i), c)
        BY <1>3, <3>1
      <4> HIDE DEF place, from
      <4> QED BY <3>1, <4>1 DEF Covered
    <3> QED BY <3>1 DEF Covered
  <2>2. Covered(u, l) => Covered(u, l)'
    <3>1. ASSUME NEW k, NEW i, NEW c, Holds(u, k, i, c), IsPrefix(c, l)
          PROVE  Covered(u, l)'
      <4>1. PICK p, m : Holds(u, p, m, c)'
        BY <1>4, <3>1
      <4> QED BY <3>1, <4>1 DEF Covered
    <3> QED BY <3>1 DEF Covered
  <2> QED BY <2>1, <2>2
<1> QED BY <1>5, <1>6, <1>7

\* The caller has come to a branch with children, which are next.
LEMMA DescendKeeps ==
    ASSUME TypeOK, TokensOK, ApartOK, NEW t \in Traversals, NEW b \in Branches, Descend(t, b)
    PROVE  /\ TokensOK' /\ ApartOK'
           /\ \A u \in Traversals : \A l \in Branches :
                 u # t \/ l # b => (Covered(u, l)' <=> Covered(u, l))
<1> DEFINE n == num_children
<1>0. /\ Comes(t, b) /\ ~AtQueueDepth(t, b) /\ b \in Inner /\ (t = Root => b \notin LeftOut)
  BY DEF Descend, TurnsDown
<1>1. /\ todo[t] \in Seq(Branches) /\ Len(todo[t]) \in Nat \ {0} /\ b = todo[t][1]
      /\ Tail(todo[t]) \in Seq(Branches) /\ Len(Tail(todo[t])) = Len(todo[t]) - 1
      /\ \A i \in 1..Len(todo[t]) - 1 : Tail(todo[t])[i] = todo[t][i + 1]
      /\ DOMAIN todo[t] = 1..Len(todo[t])
  <2>1. todo[t] \in Seq(Branches) /\ todo[t] # <<>> /\ b = Head(todo[t])
    BY <1>0 DEF TypeOK, Comes
  <2> QED BY <2>1, HeadTailProperties, EmptySeq, LenProperties
<1>2. n \in Nat \ {0} /\ Children = 0..n - 1
  BY BranchesAre DEF Children
<1>3. /\ Kids(b) \in Seq(Branches) /\ Len(Kids(b)) = n
      /\ \A i \in 1..n : i - 1 \in Children /\ Kids(b)[i] = Append(b, i - 1)
  <2>1. Kids(b) = [i \in 1..n |-> Append(b, i - 1)]
    BY <1>0 DEF Kids
  <2>2. \A i \in 1..n : i - 1 \in Children
    BY <1>2
  <2>3. \A i \in 1..n : Append(b, i - 1) \in Branches
    BY <1>0, <2>2, BranchesAre
  <2> HIDE DEF n
  <2>4. Kids(b) \in [1..n -> Branches] /\ n \in Nat
    BY <1>2, <2>1, <2>3
  <2> QED BY <2>1, <2>2, <2>4
<1> HIDE DEF n
<1>4. /\ DOMAIN todo'[t] = 1..n + Len(todo[t]) - 1
      /\ \A i \in 1..n : todo'[t][i] = Append(b, i - 1)
      /\ \A i \in n + 1..n + Len(todo[t]) - 1 : todo'[t][i] = todo[t][i - n + 1]
      /\ \A u \in Traversals : u # t => todo'[u] = todo[u]
      /\ queue' = queue /\ job' = job /\ stage' = stage
  <2> DEFINE r == Tail(todo[t])
             q == Kids(b)
  <2>1. /\ todo'[t] = q \o r
        /\ \A u \in Traversals : u # t => todo'[u] = todo[u]
        /\ queue' = queue /\ job' = job /\ stage' = stage
    BY DEF TypeOK, Descend
  <2>2. q \in Seq(Branches) /\ r \in Seq(Branches)
    BY <1>1, <1>3
  <2> HIDE DEF q, r
  <2>3. /\ q \o r \in Seq(Branches) /\ Len(q \o r) = Len(q) + Len(r)
        /\ \A i \in 1..Len(q) + Len(r) : (q \o r)[i] = IF i <= Len(q) THEN q[i] ELSE r[i - Len(q)]
    BY <2>2, ConcatProperties
  <2>4. Len(q) = n /\ Len(r) = Len(todo[t]) - 1 /\ Len(q) + Len(r) = n + Len(todo[t]) - 1
    BY <1>1, <1>2, <1>3 DEF q, r
  <2>5. DOMAIN (q \o r) = 1..n + Len(todo[t]) - 1
    BY <2>3, <2>4, LenProperties
  <2>6. ASSUME NEW i \in 1..n PROVE (q \o r)[i] = Append(b, i - 1)
    <3>1. i \in 1..Len(q) + Len(r) /\ i <= Len(q)
      BY <1>1, <1>2, <2>4
    <3> QED BY <1>3, <2>3, <3>1 DEF q
  <2>7. ASSUME NEW i \in n + 1..n + Len(todo[t]) - 1
        PROVE  (q \o r)[i] = todo[t][i - n + 1]
    <3>1. i \in 1..Len(q) + Len(r) /\ ~(i <= Len(q)) /\ i - n \in 1..Len(todo[t]) - 1
      BY <1>1, <1>2, <2>4
    <3> QED BY <1>1, <2>3, <2>4, <3>1 DEF r
  <2> QED BY <2>1, <2>5, <2>6, <2>7
<1>5. Holds(t, "todo", 1, b)
  BY <1>1 DEF Holds
<1> DEFINE kid(u, k, i) == u = t /\ k = "todo" /\ i \in 1..n
           from(u, k, i) == IF u = t /\ k = "todo" THEN i - n + 1 ELSE i
<1>6. ASSUME NEW u \in Traversals, NEW k, NEW i, NEW c, Holds(u, k, i, c)'
      PROVE  /\ kid(u, k, i) => i \in Nat /\ i - 1 \in Children /\ c = Append(b, i - 1)
             /\ ~kid(u, k, i) => /\ Holds(u, k, from(u, k, i), c)
                                 /\ u = t /\ k = "todo" => i \in Nat /\ i > n
  <2>1. ASSUME kid(u, k, i)
        PROVE  i \in Nat /\ i - 1 \in Children /\ c = Append(b, i - 1)
    <3>1. c = todo'[t][i]
      BY <1>6, <2>1 DEF Holds
    <3> QED BY <1>2, <1>3, <1>4, <2>1, <3>1
  <2>2. CASE u = t /\ k = "todo" /\ i \notin 1..n
    <3>1. i \in 1..n + Len(todo[t]) - 1 /\ c = todo'[t][i]
      BY <1>4, <1>6, <2>2 DEF Holds
    <3>2. i \in n + 1..n + Len(todo[t]) - 1 /\ i - n + 1 \in 1..Len(todo[t]) /\ i \in Nat /\ i > n
      BY <1>1, <1>2, <2>2, <3>1
    <3>3. c = todo[t][i - n + 1]
      BY <1>4, <3>1, <3>2
    <3> QED BY <1>1, <2>2, <3>2, <3>3 DEF Holds
  <2>3. CASE ~(u = t /\ k = "todo")
    BY <1>4, <1>6, <2>3 DEF Holds
  <2> QED BY <2>1, <2>2, <2>3
<1>7. ASSUME NEW u \in Traversals, NEW k, NEW i, NEW c, Holds(u, k, i, c)
      PROVE  (u = t /\ c = b) \/ \E m : Holds(u, k, m, c)'
  <2>1. CASE k = "todo" /\ u = t /\ i # 1
    <3>1. i \in 1..Len(todo[t]) /\ c = todo[t][i]
      BY <1>1, <1>7, <2>1 DEF Holds
    <3>2. PICK m : m = n + i - 1
      OBVIOUS
    <3>3. m \in n + 1..n + Len(todo[t]) - 1 /\ m - n + 1 = i /\ m \in 1..n + Len(todo[t]) - 1
      BY <1>1, <1>2, <2>1, <3>1, <3>2
    <3>4. Holds(u, k, m, c)'
      BY <1>4, <2>1, <3>1, <3>3 DEF Holds
    <3> QED BY <3>4
  <2>2. CASE k = "todo" /\ u = t /\ i = 1
    BY <1>1, <1>7, <2>2 DEF Holds
  <2>3. CASE ~(k = "todo" /\ u = t)
    <3>1. Holds(u, k, i, c)'
      BY <1>4, <1>7, <2>3 DEF Holds
    <3> QED BY <3>1
  <2> QED BY <2>1, <2>2, <2>3
<1>8. Placed(t, b) /\ t \in Tree /\ b \in Tree /\ b \in Within(t)
  BY <1>5, BranchesAre DEF TokensOK, Placed
<1>9. ASSUME NEW i \in Children
      PROVE  Placed(t, Append(b, i)) /\ Append(b, i) \in Tree /\ IsPrefix(b, Append(b, i))
  <2> DEFINE a == Append(b, i)
  <2>1. a \in Tree /\ a \in Branches /\ IsPrefix(b, a) /\ a \in Within(t)
        /\ \A x \in Tree : IsPrefix(x, a) => x = a \/ IsPrefix(x, b)
    BY <1>0, <1>8, KidsPart, BranchesAre, WeightIs
  <2> HIDE DEF a
  <2>2. IsPrefix(t, a)
    BY <1>8, <2>1, PrefixOrder DEF Placed
  <2>3. ASSUME t = Root, NEW x \in LeftOut, IsPrefix(x, a)
        PROVE  x = a
    BY <1>0, <1>8, <2>1, <2>3, BranchesAre DEF Placed
  <2>4. Placed(t, a)
    BY <2>1, <2>2, <2>3 DEF Placed
  <2> QED BY <2>1, <2>4 DEF a
<1>10. ASSUME NEW i \in Children, NEW c \in Tree, Apart(b, c)
       PROVE  Apart(Append(b, i), c) /\ Apart(c, Append(b, i))
  <2> DEFINE a == Append(b, i)
  <2>1. a \in Tree /\ IsPrefix(b, a) /\ (IsPrefix(c, a) => c = a \/ IsPrefix(c, b))
    BY <1>8, KidsPart
  <2> HIDE DEF a
  <2>2. ~IsPrefix(a, c) /\ ~IsPrefix(c, a)
    BY <1>8, <1>10, <2>1, PrefixOrder DEF Apart
  <2> QED BY <2>2 DEF Apart, a
<1>11. TokensOK'
  <2>1. ASSUME NEW u \in Traversals, NEW k, NEW i, NEW c, Holds(u, k, i, c)'
        PROVE  Placed(u, c) /\ (k # "todo" => AtQueueDepth(u, c))
    <3>1. CASE kid(u, k, i)
      BY <1>6, <1>9, <2>1, <3>1
    <3>2. CASE ~kid(u, k, i)
      <4>1. Holds(u, k, from(u, k, i), c)
        BY <1>6, <2>1, <3>2
      <4> QED BY <4>1 DEF TokensOK
    <3> QED BY <3>1, <3>2
  <2> QED BY <2>1 DEF TokensOK, Placed, AtQueueDepth
<1>12. ASSUME NEW u \in Traversals, NEW k, NEW i, NEW c, NEW m, NEW j, NEW d,
              Holds(u, k, i, c)', Holds(u, m, j, d)', kid(u, k, i), ~kid(u, m, j)
       PROVE  Apart(c, d) /\ Apart(d, c)
  <2>1. Holds(u, m, from(u, m, j), d) /\ (u = t /\ m = "todo" => j \in Nat /\ j > n)
    BY <1>6, <1>12
  <2>2. ~(m = "todo" /\ from(u, m, j) = 1)
    BY <1>2, <1>12, <2>1
  <2>3. Apart(b, d)
    BY <1>5, <1>12, <2>1, <2>2 DEF ApartOK
  <2>4. d \in Tree
    BY <2>1, HoldsTypes
  <2>5. i - 1 \in Children /\ c = Append(b, i - 1)
    BY <1>6, <1>12
  <2> QED BY <1>10, <2>3, <2>4, <2>5
<1>13. ApartOK'
  <2>1. SUFFICES ASSUME NEW u \in Traversals, NEW k, NEW i, NEW c, NEW m, NEW j, NEW d,
                        Holds(u, k, i, c)', Holds(u, m, j, d)'
                 PROVE  (k = m /\ i = j) \/ Apart(c, d)
    BY DEF ApartOK
  <2>2. CASE kid(u, k, i) /\ kid(u, m, j)
    <3>1. /\ i \in Nat /\ i - 1 \in Children /\ c = Append(b, i - 1)
          /\ j \in Nat /\ j - 1 \in Children /\ d = Append(b, j - 1)
      BY <1>6, <2>1, <2>2
    <3>2. CASE i # j
      <4>1. i - 1 # j - 1
        BY <3>1, <3>2
      <4> QED BY <1>8, <3>1, <4>1, KidsPart
    <3> QED BY <2>2, <3>2
  <2>3. CASE kid(u, k, i) /\ ~kid(u, m, j)
    BY <1>12, <2>1, <2>3
  <2>4. CASE ~kid(u, k, i) /\ kid(u, m, j)
    BY <1>12, <2>1, <2>4
  <2>5. CASE ~kid(u, k, i) /\ ~kid(u, m, j)
    <3>1. /\ Holds(u, k, from(u, k, i), c) /\ (u = t /\ k = "todo" => i \in Nat /\ i > n)
          /\ Holds(u, m, from(u, m, j), d) /\ (u = t /\ m = "todo" => j \in Nat /\ j > n)
      BY <1>6, <2>1, <2>5
    <3>2. (k = m /\ from(u, k, i) = from(u, m, j)) \/ Apart(c, d)
      BY <3>1 DEF ApartOK
    <3>3. k = m /\ from(u, k, i) = from(u, m, j) => i = j
      BY <1>2, <3>1
    <3> QED BY <3>2, <3>3
  <2> QED BY <2>2, <2>3, <2>4, <2>5
<1>14. ASSUME NEW u \in Traversals, NEW l \in Branches, u # t \/ l # b
       PROVE  Covered(u, l)' <=> Covered(u, l)
  <2>0. l \in Tree
    BY BranchesAre
  <2>1. Covered(u, l)' => Covered(u, l)
    <3>1. ASSUME NEW k, NEW i, NEW c, Holds(u, k, i, c)', IsPrefix(c, l)
          PROVE  Covered(u, l)
      <4>1. CASE kid(u, k, i)
        <5>1. i - 1 \in Children /\ c = Append(b, i - 1)
          BY <1>6, <3>1, <4>1
        <5>2. c \in Tree /\ IsPrefix(b, c)
          BY <1>9, <5>1
        <5>3. IsPrefix(b, l)
          BY <1>8, <2>0, <3>1, <5>2, PrefixOrder
        <5> QED BY <1>5, <4>1, <5>3 DEF Covered
      <4>2. CASE ~kid(u, k, i)
        <5>1. Holds(u, k, from(u, k, i), c)
          BY <1>6, <3>1, <4>2
        <5> HIDE DEF from
        <5> QED BY <3>1, <5>1 DEF Covered
      <4> QED BY <4>1, <4>2
    <3> QED BY <3>1 DEF Covered
  <2>2. Covered(u, l) => Covered(u, l)'
    <3>1. ASSUME NEW k, NEW i, NEW c, Holds(u, k, i, c), IsPrefix(c, l)
          PROVE  Covered(u, l)'
      <4>1. CASE u = t /\ c = b
        <5>1. PICK j \in Children : IsPrefix(Append(b, j), l)
          BY <1>8, <1>14, <2>0, <3>1, <4>1, KidsPart
        <5>2. PICK m \in 1..n : m - 1 = j
          <6>1. j + 1 \in 1..n /\ (j + 1) - 1 = j
            BY <1>2
          <6> QED BY <6>1
        <5>3. m \in DOMAIN todo'[t]
          <6>1. m \in 1..n + Len(todo[t]) - 1
            BY <1>1, <1>2
          <6> QED BY <1>4, <6>1
        <5>4. todo'[t][m] = Append(b, j)
          BY <1>4, <5>2
        <5>5. PICK a : a = Append(b, j)
          OBVIOUS
        <5>6. Holds(t, "todo", m, a)'
          BY <5>3, <5>4, <5>5 DEF Holds
        <5> QED BY <4>1, <5>1, <5>5, <5>6 DEF Covered
      <4>2. CASE ~(u = t /\ c = b)
        <5>1. PICK m : Holds(u, k, m, c)'
          BY <1>7, <3>1, <4>2
        <5> QED BY <3>1, <5>1 DEF Covered
      <4> QED BY <4>1, <4>2
    <3> QED BY <3>1 DEF Covered
  <2> QED BY <2>1, <2>2
<1> QED BY <1>11, <1>13, <1>14

\* A worker's job is no longer one that it is to run; the caller's lists do
\* not change, or one of them is that of a traversal that starts.
LEMMA RunHolds ==
    ASSUME TypeOK, NEW w \in Workers, NEW j \in Jobs, stage[w] = "run", job[w] = {j},
           NEW x, x # "run", stage' = [stage EXCEPT ![w] = x], UNCHANGED <<queue, job>>,
           NEW u \in Traversals, todo'[u] = todo[u]
    PROVE  /\ \A k, i, c : Holds(u, k, i, c)' <=> Holds(u, k, i, c) /\ ~(k = "run" /\ i = w)
           /\ \A c : Holds(u, "run", w, c) <=> u = j.of /\ c = j.at
<1>1. stage'[w] # "run" /\ \A v \in Workers : v # w => stage'[v] = stage[v]
  BY DEF TypeOK
<1>2. \A k, i, c : Holds(u, k, i, c)' <=> Holds(u, k, i, c) /\ ~(k = "run" /\ i = w)
  BY <1>1 DEF Holds
<1>3. \A c : Holds(u, "run", w, c) <=> u = j.of /\ c = j.at
  <2>1. j = [of |-> j.of, at |-> j.at]
    BY DEF Jobs
  <2>2. \A c : [of |-> u, at |-> c] = j <=> u = j.of /\ c = j.at
    BY <2>1
  <2> QED BY <2>2 DEF Holds
<1> QED BY <1>2, <1>3

LEMMA StartHolds ==
    ASSUME TypeOK, PhaseOK, NEW t \in Traversals, phase[t] = "uncalled", Start(t),
           UNCHANGED <<queue, job>>,
           \A w \in Workers : stage'[w] = "run" => stage[w] = "run"
    PROVE  /\ \A k, i, c : Holds(t, k, i, c)' <=> k = "todo" /\ i = 1 /\ c = t
           /\ \A u \in Traversals : u # t => todo'[u] = todo[u] /\ phase'[u] = phase[u] /\ sem'[u] = sem[u]
           /\ phase'[t] = "descend" /\ todo'[t] = <<t>> /\ sem'[t] = 1 - Weight(t, t)
<1>1. /\ phase'[t] = "descend" /\ todo'[t] = <<t>> /\ sem'[t] = 1 - Weight(t, t)
      /\ \A u \in Traversals : u # t => todo'[u] = todo[u] /\ phase'[u] = phase[u] /\ sem'[u] = sem[u]
  BY DEF TypeOK, Start
<1>2. JobsOf(t) = {} /\ RunningFor(t) = {}
  BY DEF PhaseOK
<1>3. \A i, c : queue[i] = [of |-> t, at |-> c] => i \notin DOMAIN queue
  BY <1>2 DEF JobsOf
<1>4. \A w \in Workers : \A c : [of |-> t, at |-> c] \notin job[w]
  BY <1>2 DEF RunningFor
<1>5. DOMAIN <<t>> = {1} /\ <<t>>[1] = t
  OBVIOUS
<1>6. \A k, i, c : Holds(t, k, i, c)' <=> k = "todo" /\ i = 1 /\ c = t
  BY <1>1, <1>3, <1>4, <1>5 DEF Holds
<1> QED BY <1>1, <1>6

\* A job is run: its branch is no longer to be gone through.
LEMMA RunKeeps ==
    ASSUME TypeOK, TokensOK, ApartOK,
           NEW w \in Workers, NEW j \in Jobs, stage[w] = "run", job[w] = {j},
           NEW x, x # "run", stage' = [stage EXCEPT ![w] = x], UNCHANGED <<queue, job>>,
           NEW u \in Traversals, todo'[u] = todo[u]
    PROVE  /\ \A k, i, c : Holds(u, k, i, c)' =>
                 Placed(u, c) /\ (k # "todo" => AtQueueDepth(u, c))
           /\ \A k, i, c, m, n, d :
                 Holds(u, k, i, c)' /\ Holds(u, m, n, d)' => (k = m /\ i = n) \/ Apart(c, d)
           /\ \A l \in Branches : Covered(u, l)' <=> Covered(u, l) /\ ~(u = j.of /\ IsPrefix(j.at, l))
<1>1. /\ \A k, i, c : Holds(u, k, i, c)' <=> Holds(u, k, i, c) /\ ~(k = "run" /\ i = w)
      /\ \A c : Holds(u, "run", w, c) <=> u = j.of /\ c = j.at
  BY RunHolds
<1>2. ASSUME NEW l \in Branches
      PROVE  Covered(u, l)' <=> Covered(u, l) /\ ~(u = j.of /\ IsPrefix(j.at, l))
  <2>1. ASSUME NEW k, NEW i, NEW c, Holds(u, k, i, c)', IsPrefix(c, l)
        PROVE  Covered(u, l) /\ ~(u = j.of /\ IsPrefix(j.at, l))
    <3>1. Holds(u, k, i, c) /\ ~(k = "run" /\ i = w) /\ (u = j.of => Holds(u, "run", w, j.at))
      BY <1>1, <2>1
    <3>2. u = j.of => Apart(j.at, c)
      BY <3>1 DEF ApartOK
    <3>3. c \in Tree /\ j.at \in Tree /\ l \in Tree
      BY <3>1, HoldsTypes, BranchesAre DEF Jobs
    <3>4. ~(u = j.of /\ IsPrefix(j.at, l))
      BY <2>1, <3>2, <3>3, PrefixOrder
    <3> QED BY <2>1, <3>1, <3>4 DEF Covered
  <2>2. ASSUME NEW k, NEW i, NEW c, Holds(u, k, i, c), IsPrefix(c, l),
               ~(u = j.of /\ IsPrefix(j.at, l))
        PROVE  Covered(u, l)'
    <3>1. Holds(u, k, i, c)'
      BY <1>1, <2>2
    <3> QED BY <2>2, <3>1 DEF Covered
  <2> QED BY <2>1, <2>2 DEF Covered
<1>3. ASSUME NEW k, NEW i, NEW c, Holds(u, k, i, c)'
      PROVE  Placed(u, c) /\ (k # "todo" => AtQueueDepth(u, c))
  <2>1. Holds(u, k, i, c)
    BY <1>1, <1>3
  <2> QED BY <2>1 DEF TokensOK
<1>4. ASSUME NEW k, NEW i, NEW c, NEW m, NEW n, NEW d, Holds(u, k, i, c)', Holds(u, m, n, d)'
      PROVE  (k = m /\ i = n) \/ Apart(c, d)
  <2>1. Holds(u, k, i, c) /\ Holds(u, m, n, d)
    BY <1>1, <1>4
  <2> QED BY <2>1 DEF ApartOK
<1> QED BY <1>2, <1>3, <1>4

-----------------------------------------------------------------------------
(* The jobs of a traversal *)

LEMMA CountsAre ==
    ASSUME TypeOK
    PROVE  \A t : /\ IsFiniteSet(JobsOf(t)) /\ Cardinality(JobsOf(t)) \in Nat
                  /\ IsFiniteSet(RunningFor(t)) /\ Cardinality(RunningFor(t)) \in Nat
<1> SUFFICES ASSUME NEW t
             PROVE  /\ IsFiniteSet(JobsOf(t)) /\ Cardinality(JobsOf(t)) \in Nat
                    /\ IsFiniteSet(RunningFor(t)) /\ Cardinality(RunningFor(t)) \in Nat
  OBVIOUS
<1>1. IsFiniteSet(1..Len(queue)) /\ JobsOf(t) \subseteq 1..Len(queue)
  <2>1. Len(queue) \in Nat /\ DOMAIN queue = 1..Len(queue)
    BY DEF TypeOK
  <2> QED BY <2>1, FS_Interval DEF JobsOf
<1>2. RunningFor(t) \subseteq Workers
  BY DEF RunningFor
<1> QED BY <1>1, <1>2, TraversalAssumption, FS_Subset, FS_CardinalityType

LEMMA EnqueueCounts ==
    ASSUME TypeOK, NEW t \in Traversals, NEW b \in Branches, Enqueue(t, b), NEW u
    PROVE  /\ Cardinality(JobsOf(u)') = IF u = t THEN Cardinality(JobsOf(u)) + 1 ELSE Cardinality(JobsOf(u))
           /\ u # t => JobsOf(u)' = JobsOf(u)
<1> DEFINE n == Len(queue)
           new == [of |-> t, at |-> b]
<1>1. /\ n \in Nat /\ DOMAIN queue = 1..n /\ DOMAIN queue' = 1..n + 1
      /\ queue'[n + 1] = new /\ \A i \in 1..n : queue'[i] = queue[i]
  <2>1. new \in Jobs /\ queue \in Seq(Jobs) /\ queue' = Append(queue, new)
    BY DEF TypeOK, Enqueue, Jobs
  <2> HIDE DEF new
  <2> QED BY <2>1
<1>2. JobsOf(u)' = IF u = t THEN JobsOf(u) \cup {n + 1} ELSE JobsOf(u)
  <2>1. \A i : i \in 1..n + 1 <=> i \in 1..n \/ i = n + 1
    BY <1>1
  <2>2. JobsOf(u)' = {i \in 1..n + 1 : queue'[i].of = u} /\ JobsOf(u) = {i \in 1..n : queue[i].of = u}
    BY <1>1 DEF JobsOf
  <2>3. new.of = t
    OBVIOUS
  <2> HIDE DEF n, new
  <2> QED BY <1>1, <2>1, <2>2, <2>3
<1>3. n + 1 \notin JobsOf(u)
  BY <1>1 DEF JobsOf
<1> QED BY <1>2, <1>3, CountsAre, FS_AddElement

LEMMA PopCounts ==
    ASSUME TypeOK, JobOK, NEW w \in Workers, Pop(w), NEW u
    PROVE  /\ u = queue[1].of =>
                 /\ Cardinality(JobsOf(u)) # 0
                 /\ Cardinality(JobsOf(u)') = Cardinality(JobsOf(u)) - 1
                 /\ Cardinality(RunningFor(u)') = Cardinality(RunningFor(u)) + 1
           /\ u # queue[1].of =>
                 /\ Cardinality(JobsOf(u)') = Cardinality(JobsOf(u))
                 /\ RunningFor(u)' = RunningFor(u)
                 /\ JobsOf(u) = {} => JobsOf(u)' = {}
           /\ queue[1] \in Jobs
<1>1. /\ Len(queue) \in Nat \ {0} /\ DOMAIN queue = 1..Len(queue) /\ Head(queue) = queue[1]
      /\ DOMAIN queue' = 1..Len(queue) - 1
      /\ \A i \in 1..Len(queue) - 1 : queue'[i] = queue[i + 1]
      /\ queue[1] \in Jobs
  <2>1. queue \in Seq(Jobs) /\ queue # <<>> /\ queue' = Tail(queue)
    BY DEF TypeOK, Pop
  <2>2. /\ Tail(queue) \in Seq(Jobs) /\ Len(Tail(queue)) = Len(queue) - 1
        /\ \A i \in 1..Len(Tail(queue)) : Tail(queue)[i] = queue[i + 1]
    BY <2>1, HeadTailProperties
  <2> QED BY <2>1, <2>2, EmptySeq, LenProperties
<1> DEFINE S == JobsOf(u) \ {1}
           T == JobsOf(u)'
           f == [i \in S |-> i - 1]
<1>2. Cardinality(T) = Cardinality(S)
  <2>1. \A i \in S : i \in 2..Len(queue) /\ i - 1 \in 1..Len(queue) - 1 /\ (i - 1) + 1 = i
    BY <1>1 DEF JobsOf
  <2>2. \A i : i \in T <=> i \in 1..Len(queue) - 1 /\ queue[i + 1].of = u
    BY <1>1 DEF JobsOf
  <2>3. \A i \in T : i + 1 \in S /\ (i + 1) - 1 = i
    <3>1. \A i \in T : i \in Nat /\ i + 1 \in 1..Len(queue) /\ i + 1 # 1 /\ queue[i + 1].of = u
      BY <1>1, <2>2
    <3> QED BY <1>1, <3>1 DEF JobsOf
  <2>4. \A i \in S : i \in Nat /\ queue[i].of = u
    BY <1>1 DEF JobsOf
  <2>5. \A i \in S : f[i] \in T
    BY <2>1, <2>2, <2>4
  <2>6. \A i, k \in S : f[i] = f[k] => i = k
    BY <2>1, <2>4
  <2>7. \A i \in T : \E k \in S : f[k] = i
    BY <2>3
  <2>8. f \in Bijection(S, T)
    <3>1. f \in [S -> T]
      BY <2>5
    <3> HIDE DEF S, T, f
    <3> QED BY <2>6, <2>7, <3>1 DEF Bijection, Injection, IsInjective, Surjection, S, T, f
  <2>9. IsFiniteSet(S)
    BY CountsAre, FS_RemoveElement
  <2> HIDE DEF S, T, f
  <2>10. ExistsBijection(S, T)
    BY <2>8 DEF ExistsBijection
  <2> QED BY <2>9, <2>10, FS_Bijection
<1>3. Cardinality(S) = IF u = queue[1].of THEN Cardinality(JobsOf(u)) - 1 ELSE Cardinality(JobsOf(u))
  <2>1. 1 \in JobsOf(u) <=> u = queue[1].of
    BY <1>1 DEF JobsOf
  <2> QED BY <2>1, CountsAre, FS_RemoveElement
<1>4. u = queue[1].of => Cardinality(JobsOf(u)) # 0
  <2>1. u = queue[1].of => 1 \in JobsOf(u)
    BY <1>1 DEF JobsOf
  <2> QED BY <2>1, CountsAre, FS_EmptySet
<1>5. /\ w \notin RunningFor(u)
      /\ RunningFor(u)' = IF u = queue[1].of THEN RunningFor(u) \cup {w} ELSE RunningFor(u)
  <2>1. /\ job[w] = {} /\ job'[w] = {queue[1]}
        /\ \A v \in Workers : v # w => job'[v] = job[v]
    BY <1>1 DEF TypeOK, JobOK, Pop
  <2> QED BY <2>1 DEF RunningFor
<1>6. Cardinality(RunningFor(u)') =
        IF u = queue[1].of THEN Cardinality(RunningFor(u)) + 1 ELSE Cardinality(RunningFor(u))
  BY <1>5, CountsAre, FS_AddElement
<1>7. JobsOf(u) = {} => JobsOf(u)' = {}
  <2>1. ASSUME NEW i \in JobsOf(u)' PROVE i + 1 \in JobsOf(u)
    <3>1. i \in 1..Len(queue) - 1 /\ queue'[i].of = u
      BY <1>1 DEF JobsOf
    <3>2. i + 1 \in 1..Len(queue) /\ queue[i + 1].of = u
      BY <1>1, <3>1
    <3> QED BY <1>1, <3>2 DEF JobsOf
  <2> QED BY <2>1
<1> QED BY <1>1, <1>2, <1>3, <1>4, <1>5, <1>6, <1>7

LEMMA ReleaseCounts ==
    ASSUME TypeOK, JobOK, NEW w \in Workers, NEW j \in Jobs, Release(w, j), NEW u
    PROVE  /\ Cardinality(RunningFor(u)') =
                 IF u = j.of THEN Cardinality(RunningFor(u)) - 1 ELSE Cardinality(RunningFor(u))
           /\ RunningFor(u)' \subseteq RunningFor(u)
<1>1. /\ job[w] = {j} /\ job'[w] = {}
      /\ \A v \in Workers : v # w => job'[v] = job[v]
  BY DEF TypeOK, JobOK, Release
<1>2. /\ w \in RunningFor(u) <=> u = j.of
      /\ RunningFor(u)' = RunningFor(u) \ {w}
  BY <1>1 DEF RunningFor
<1> QED BY <1>2, CountsAre, FS_RemoveElement

-----------------------------------------------------------------------------
(* The steps *)

LEMMA InitInv == Init => IInv
<1> SUFFICES ASSUME Init PROVE IInv
  OBVIOUS
<1>1. TypeOK
  <2>1. <<>> \in Seq(Branches) /\ <<>> \in Seq(Jobs)
    OBVIOUS
  <2> QED BY <2>1 DEF Init, TypeOK
<1>2. JobOK
  BY DEF Init, JobOK
<1>3. \A t \in Traversals : phase[t] = "uncalled" /\ todo[t] = <<>>
  BY DEF Init
<1>4. DOMAIN queue = {} /\ \A w \in Workers : job[w] = {}
  BY DEF Init
<1>5. PhaseOK
  BY <1>3, <1>4 DEF PhaseOK, JobsOf, RunningFor
<1>6. \A t \in Traversals : \A k, i, b : ~Holds(t, k, i, b)
  <2>1. DOMAIN <<>> = {}
    OBVIOUS
  <2> QED BY <1>3, <1>4, <2>1 DEF Holds
<1>7. TokensOK /\ ApartOK
  BY <1>6 DEF TokensOK, ApartOK
<1>8. HandledOK
  BY <1>3 DEF HandledOK, Init
<1>9. NestingOK
  BY <1>3 DEF NestingOK, Traversals
<1>10. SemCountsJobs
  BY <1>3 DEF SemCountsJobs
<1> QED BY <1>1, <1>2, <1>5, <1>7, <1>8, <1>9, <1>10 DEF IInv

\* What the caller has to come to weighs what SemCountsJobs says it does.
LEMMA TodoIs ==
    ASSUME IInv, NEW t \in Traversals
    PROVE  /\ t \in Tree /\ todo[t] \in Seq(Branches) /\ todo[t] \in Seq(Within(t))
           /\ JobsBelow(t, todo[t]) \in Nat
           /\ todo[t] # <<>> =>
                 LET b == Head(todo[t]) IN
                 /\ b \in Branches /\ Placed(t, b) /\ Weight(t, b) \in Nat
                 /\ b \in Within(t)
                 /\ Tail(todo[t]) \in Seq(Branches) /\ Tail(todo[t]) \in Seq(Within(t))
                 /\ JobsBelow(t, Tail(todo[t])) \in Nat
                 /\ JobsBelow(t, todo[t]) = Weight(t, b) + JobsBelow(t, Tail(todo[t]))
                 /\ Holds(t, "todo", 1, b)
<1>1. t \in Tree /\ todo[t] \in Seq(Branches) /\ DOMAIN todo[t] = 1..Len(todo[t]) /\ Len(todo[t]) \in Nat
  BY BranchesAre, LenProperties DEF IInv, TypeOK
<1>2. ASSUME NEW i \in 1..Len(todo[t])
      PROVE  todo[t][i] \in Within(t) /\ Placed(t, todo[t][i]) /\ Holds(t, "todo", i, todo[t][i])
  <2>1. Holds(t, "todo", i, todo[t][i])
    BY <1>1 DEF Holds
  <2> QED BY <2>1 DEF IInv, TokensOK, Placed
<1>3. todo[t] \in Seq(Within(t))
  BY <1>1, <1>2
<1>4. ASSUME todo[t] # <<>>
      PROVE  LET b == Head(todo[t]) IN
                 /\ b \in Branches /\ Placed(t, b) /\ Weight(t, b) \in Nat
                 /\ b \in Within(t)
                 /\ Tail(todo[t]) \in Seq(Branches) /\ Tail(todo[t]) \in Seq(Within(t))
                 /\ JobsBelow(t, Tail(todo[t])) \in Nat
                 /\ JobsBelow(t, todo[t]) = Weight(t, b) + JobsBelow(t, Tail(todo[t]))
                 /\ Holds(t, "todo", 1, b)
  <2>1. Tail(todo[t]) \in Seq(Branches) /\ Tail(todo[t]) \in Seq(Within(t)) /\ Head(todo[t]) = todo[t][1]
        /\ 1 \in 1..Len(todo[t])
    BY <1>1, <1>3, <1>4, HeadTailProperties, EmptySeq
  <2>2. Placed(t, todo[t][1]) /\ Holds(t, "todo", 1, todo[t][1])
    BY <1>2, <2>1
  <2>3. Weight(t, todo[t][1]) \in Nat
    BY <1>1, <2>2, WeightIs DEF Placed
  <2> QED BY <1>1, <1>3, <1>4, <2>1, <2>2, <2>3, JobsBelowIs DEF Placed
<1> QED BY <1>1, <1>3, <1>4, JobsBelowIs

LEMMA LeaveOutInv ==
    ASSUME IInv, NEW t \in Traversals, NEW b \in Branches, LeaveOut(t, b)
    PROVE  IInv'
<1>1. /\ TypeOK /\ JobOK /\ PhaseOK /\ TokensOK /\ ApartOK
      /\ HandledOK /\ NestingOK /\ SemCountsJobs
  BY DEF IInv
<1>2. /\ phase[t] = "descend" /\ todo[t] # <<>> /\ b = Head(todo[t]) /\ TurnsDown(t, b)
      /\ sem' = [sem EXCEPT ![t] = @ + Weight(t, b)]
      /\ todo' = [todo EXCEPT ![t] = Tail(@)]
      /\ UNCHANGED <<phase, queue, job, stage, handled>>
  BY DEF LeaveOut, Comes
<1>3. /\ Placed(t, b) /\ Weight(t, b) \in Nat /\ Tail(todo[t]) \in Seq(Branches)
      /\ JobsBelow(t, todo[t]) = Weight(t, b) + JobsBelow(t, Tail(todo[t]))
      /\ JobsBelow(t, Tail(todo[t])) \in Nat
  BY <1>2, TodoIs
<1>4. /\ sem'[t] = sem[t] + Weight(t, b) /\ todo'[t] = Tail(todo[t])
      /\ \A u \in Traversals : u # t => sem'[u] = sem[u] /\ todo'[u] = todo[u]
  BY <1>1, <1>2 DEF TypeOK
<1>5. /\ TokensOK' /\ ApartOK'
      /\ \A u \in Traversals : \A l \in Branches :
            Covered(u, l)' <=> Covered(u, l) /\ ~(u = t /\ IsPrefix(b, l))
  BY <1>1, <1>2, TakenKeeps
<1>6. TypeOK'
  <2>1. sem' \in [Traversals -> Int] /\ todo' \in [Traversals -> Seq(Branches)]
    BY <1>1, <1>2, <1>3 DEF TypeOK
  <2>2. phase' = phase /\ queue' = queue /\ job' = job /\ stage' = stage /\ handled' = handled
    BY <1>2
  <2>3. TypeOK
    BY <1>1
  <2> QED BY ONLY <2>1, <2>2, <2>3 DEF TypeOK
<1>7. JobOK'
  BY <1>1, <1>2 DEF JobOK
<1>8. \A u : JobsOf(u)' = JobsOf(u) /\ RunningFor(u)' = RunningFor(u)
  BY <1>2 DEF JobsOf, RunningFor
<1>9. PhaseOK'
  BY <1>1, <1>2, <1>4, <1>8 DEF PhaseOK
<1>10. HandledOK'
  <2>1. \A l \in Branches : IsPrefix(b, l) => l \notin Reference(t)
    BY <1>2, <1>3, ReferenceIs
  <2> QED BY <1>1, <1>2, <1>5, <2>1 DEF HandledOK
<1>11. NestingOK'
  BY <1>1, <1>2, <1>5, BranchesAre DEF NestingOK, Traversals
<1>12. SemCountsJobs'
  <2>1. ASSUME NEW u \in Traversals, phase'[u] \in {"descend", "acquire"}
        PROVE  sem'[u] = 1 - Cardinality(JobsOf(u)') - Cardinality(RunningFor(u)') - JobsBelow(u, todo'[u])
    <3>1. sem[u] = 1 - Cardinality(JobsOf(u)) - Cardinality(RunningFor(u)) - JobsBelow(u, todo[u])
      BY <1>1, <1>2, <2>1 DEF SemCountsJobs
    <3>2. sem[u] \in Int /\ Cardinality(JobsOf(u)) \in Nat /\ Cardinality(RunningFor(u)) \in Nat
      BY <1>1, CountsAre DEF TypeOK
    <3> QED BY <1>3, <1>4, <1>8, <3>1, <3>2
  <2> QED BY <2>1 DEF SemCountsJobs
<1> QED BY <1>5, <1>6, <1>7, <1>9, <1>10, <1>11, <1>12 DEF IInv

LEMMA HandleLeafInv ==
    ASSUME IInv, NEW t \in Traversals, NEW b \in Branches, HandleLeaf(t, b)
    PROVE  IInv'
<1>1. /\ TypeOK /\ JobOK /\ PhaseOK /\ TokensOK /\ ApartOK
      /\ HandledOK /\ NestingOK /\ SemCountsJobs
  BY DEF IInv
<1>2. /\ phase[t] = "descend" /\ todo[t] # <<>> /\ b = Head(todo[t])
      /\ ~TurnsDown(t, b) /\ ~AtQueueDepth(t, b) /\ b \notin Inner
      /\ sem' = [sem EXCEPT ![t] = @ + Weight(t, b)]
      /\ todo' = [todo EXCEPT ![t] = Tail(@)]
      /\ UNCHANGED <<phase, queue, job, stage>>
  BY DEF HandleLeaf, Comes
<1>3. /\ Placed(t, b) /\ Weight(t, b) \in Nat /\ Tail(todo[t]) \in Seq(Branches)
      /\ JobsBelow(t, todo[t]) = Weight(t, b) + JobsBelow(t, Tail(todo[t]))
      /\ JobsBelow(t, Tail(todo[t])) \in Nat /\ Holds(t, "todo", 1, b)
  BY <1>2, TodoIs
<1>4. /\ sem'[t] = sem[t] + Weight(t, b) /\ todo'[t] = Tail(todo[t])
      /\ \A u \in Traversals : u # t => sem'[u] = sem[u] /\ todo'[u] = todo[u]
  BY <1>1, <1>2 DEF TypeOK
<1>5. /\ TokensOK' /\ ApartOK'
      /\ \A u \in Traversals : \A l \in Branches :
            Covered(u, l)' <=> Covered(u, l) /\ ~(u = t /\ IsPrefix(b, l))
  BY <1>1, <1>2, TakenKeeps
<1>6. /\ handled' \in [Traversals -> [Branches \ Inner -> Nat]]
      /\ \A u \in Traversals : \A l \in Branches \ Inner :
            handled'[u][l] = IF u = t /\ l = b THEN handled[u][l] + 1 ELSE handled[u][l]
  <2>1. /\ handled \in [Traversals -> [Branches \ Inner -> Nat]]
        /\ handled' = [handled EXCEPT ![t] = [l \in Branches \ Inner |->
                          IF l \in {b} THEN handled[t][l] + 1 ELSE handled[t][l]]]
    BY <1>1 DEF TypeOK, HandleLeaf, Handle
  <2> QED BY <2>1
<1>7. TypeOK'
  <2>1. sem' \in [Traversals -> Int] /\ todo' \in [Traversals -> Seq(Branches)]
    BY <1>1, <1>2, <1>3 DEF TypeOK
  <2>2. phase' = phase /\ queue' = queue /\ job' = job /\ stage' = stage
    BY <1>2
  <2>3. TypeOK
    BY <1>1
  <2> QED BY ONLY <1>6, <2>1, <2>2, <2>3 DEF TypeOK
<1>8. JobOK'
  BY <1>1, <1>2 DEF JobOK
<1>9. \A u : JobsOf(u)' = JobsOf(u) /\ RunningFor(u)' = RunningFor(u)
  BY <1>2 DEF JobsOf, RunningFor
<1>10. PhaseOK'
  BY <1>1, <1>2, <1>4, <1>9 DEF PhaseOK
<1>11. HandledOK'
  <2>1. b \in Reference(t)
    BY <1>2, <1>3, ReferenceIs
  <2>2. \A l \in Branches : IsPrefix(b, l) <=> l = b
    BY <1>2, BranchesAre, PrefixOrder, LeavesAreLast
  <2>3. Covered(t, b)
    BY <1>3, <2>2 DEF Covered
  <2> QED BY <1>1, <1>2, <1>5, <1>6, <2>1, <2>2, <2>3 DEF HandledOK
<1>12. NestingOK'
  BY <1>1, <1>2, <1>5, BranchesAre DEF NestingOK, Traversals
<1>13. SemCountsJobs'
  <2>1. ASSUME NEW u \in Traversals, phase'[u] \in {"descend", "acquire"}
        PROVE  sem'[u] = 1 - Cardinality(JobsOf(u)') - Cardinality(RunningFor(u)') - JobsBelow(u, todo'[u])
    <3>1. sem[u] = 1 - Cardinality(JobsOf(u)) - Cardinality(RunningFor(u)) - JobsBelow(u, todo[u])
      BY <1>1, <1>2, <2>1 DEF SemCountsJobs
    <3>2. sem[u] \in Int /\ Cardinality(JobsOf(u)) \in Nat /\ Cardinality(RunningFor(u)) \in Nat
      BY <1>1, CountsAre DEF TypeOK
    <3> QED BY <1>3, <1>4, <1>9, <3>1, <3>2
  <2> QED BY <2>1 DEF SemCountsJobs
<1> QED BY <1>5, <1>7, <1>8, <1>10, <1>11, <1>12, <1>13 DEF IInv

LEMMA EnqueueInv ==
    ASSUME IInv, NEW t \in Traversals, NEW b \in Branches, Enqueue(t, b)
    PROVE  IInv'
<1>1. /\ TypeOK /\ JobOK /\ PhaseOK /\ TokensOK /\ ApartOK
      /\ HandledOK /\ NestingOK /\ SemCountsJobs
  BY DEF IInv
<1>2. /\ phase[t] = "descend" /\ todo[t] # <<>> /\ b = Head(todo[t]) /\ AtQueueDepth(t, b)
      /\ queue' = Append(queue, [of |-> t, at |-> b])
      /\ todo' = [todo EXCEPT ![t] = Tail(@)]
      /\ UNCHANGED <<phase, sem, job, stage, handled>>
  BY DEF Enqueue, Comes
<1>3. /\ b \in Within(t) /\ t \in Tree /\ Tail(todo[t]) \in Seq(Branches)
      /\ JobsBelow(t, todo[t]) = Weight(t, b) + JobsBelow(t, Tail(todo[t]))
      /\ JobsBelow(t, Tail(todo[t])) \in Nat
  BY <1>2, TodoIs
<1>4. Weight(t, b) = 1
  BY <1>2, <1>3, WeightIs
<1>5. /\ todo'[t] = Tail(todo[t])
      /\ \A u \in Traversals : u # t => todo'[u] = todo[u]
  BY <1>1, <1>2 DEF TypeOK
<1>6. /\ TokensOK' /\ ApartOK'
      /\ \A u \in Traversals : \A l \in Branches : Covered(u, l)' <=> Covered(u, l)
  BY <1>1, EnqueueKeeps
<1>7. TypeOK'
  <2>1. queue' \in Seq(Jobs)
    <3>1. [of |-> t, at |-> b] \in Jobs /\ queue \in Seq(Jobs)
      BY <1>1 DEF Jobs, TypeOK
    <3> QED BY <1>2, <3>1
  <2>2. todo' \in [Traversals -> Seq(Branches)]
    BY <1>1, <1>2, <1>3 DEF TypeOK
  <2>3. phase' = phase /\ sem' = sem /\ job' = job /\ stage' = stage /\ handled' = handled
    BY <1>2
  <2>4. TypeOK
    BY <1>1
  <2> QED BY ONLY <2>1, <2>2, <2>3, <2>4 DEF TypeOK
<1>8. JobOK'
  BY <1>1, <1>2 DEF JobOK
<1>9. /\ \A u : u # t => JobsOf(u)' = JobsOf(u)
      /\ Cardinality(JobsOf(t)') = Cardinality(JobsOf(t)) + 1
  BY <1>1, EnqueueCounts
<1>10. \A u : RunningFor(u)' = RunningFor(u)
  BY <1>2 DEF RunningFor
<1>11. PhaseOK'
  BY <1>1, <1>2, <1>5, <1>9, <1>10 DEF PhaseOK
<1>12. HandledOK'
  BY <1>1, <1>2, <1>6 DEF HandledOK
<1>13. NestingOK'
  BY <1>1, <1>2, <1>6, BranchesAre DEF NestingOK, Traversals
<1>14. SemCountsJobs'
  <2>1. ASSUME NEW u \in Traversals, phase'[u] \in {"descend", "acquire"}
        PROVE  sem'[u] = 1 - Cardinality(JobsOf(u)') - Cardinality(RunningFor(u)') - JobsBelow(u, todo'[u])
    <3>1. sem[u] = 1 - Cardinality(JobsOf(u)) - Cardinality(RunningFor(u)) - JobsBelow(u, todo[u])
      BY <1>1, <1>2, <2>1 DEF SemCountsJobs
    <3>2. sem'[u] = sem[u] /\ Cardinality(JobsOf(u)) \in Nat /\ Cardinality(RunningFor(u)) \in Nat
      BY <1>1, <1>2, CountsAre
    <3> QED BY <1>3, <1>4, <1>5, <1>9, <1>10, <3>1, <3>2
  <2> QED BY <2>1 DEF SemCountsJobs
<1> QED BY <1>6, <1>7, <1>8, <1>11, <1>12, <1>13, <1>14 DEF IInv

LEMMA DescendInv ==
    ASSUME IInv, NEW t \in Traversals, NEW b \in Branches, Descend(t, b)
    PROVE  IInv'
<1>1. /\ TypeOK /\ JobOK /\ PhaseOK /\ TokensOK /\ ApartOK
      /\ HandledOK /\ NestingOK /\ SemCountsJobs
  BY DEF IInv
<1>2. /\ phase[t] = "descend" /\ todo[t] # <<>> /\ b = Head(todo[t])
      /\ ~AtQueueDepth(t, b) /\ b \in Inner
      /\ todo' = [todo EXCEPT ![t] = Kids(b) \o Tail(@)]
      /\ UNCHANGED <<phase, sem, queue, job, stage, handled>>
  BY DEF Descend, Comes
<1>3. /\ b \in Within(t) /\ t \in Tree /\ Tail(todo[t]) \in Seq(Branches)
      /\ Tail(todo[t]) \in Seq(Within(t))
      /\ JobsBelow(t, todo[t]) = Weight(t, b) + JobsBelow(t, Tail(todo[t]))
  BY <1>2, TodoIs
<1>4. JobsBelow(t, Kids(b) \o Tail(todo[t])) = JobsBelow(t, todo[t])
  BY <1>2, <1>3, KidsWeigh
<1>5. /\ todo'[t] = Kids(b) \o Tail(todo[t])
      /\ \A u \in Traversals : u # t => todo'[u] = todo[u]
  BY <1>1, <1>2 DEF TypeOK
<1>6. /\ TokensOK' /\ ApartOK'
      /\ \A u \in Traversals : \A l \in Branches :
            u # t \/ l # b => (Covered(u, l)' <=> Covered(u, l))
  BY <1>1, DescendKeeps
<1>7. TypeOK'
  <2>1. Kids(b) \in Seq(Branches)
    <3>1. num_children \in Nat /\ \A i \in 1..num_children : i - 1 \in Children
      BY BranchesAre DEF Children
    <3>2. \A i \in 1..num_children : Append(b, i - 1) \in Branches
      BY <1>2, <3>1, BranchesAre
    <3>3. Kids(b) \in [1..num_children -> Branches]
      BY <1>2, <3>2 DEF Kids
    <3> QED BY <3>1, <3>3
  <2>2. Kids(b) \o Tail(todo[t]) \in Seq(Branches)
    BY <1>3, <2>1, ConcatProperties
  <2>3. todo' \in [Traversals -> Seq(Branches)]
    <3> DEFINE q == Kids(b) \o Tail(todo[t])
    <3>1. q \in Seq(Branches) /\ todo' = [todo EXCEPT ![t] = q] /\ todo \in [Traversals -> Seq(Branches)]
      BY <1>1, <1>2, <2>2 DEF TypeOK
    <3> HIDE DEF q
    <3> QED BY <3>1
  <2>4. phase' = phase /\ sem' = sem /\ queue' = queue /\ job' = job /\ stage' = stage /\ handled' = handled
    BY <1>2
  <2>5. TypeOK
    BY <1>1
  <2> QED BY ONLY <2>3, <2>4, <2>5 DEF TypeOK
<1>8. JobOK'
  BY <1>1, <1>2 DEF JobOK
<1>9. \A u : JobsOf(u)' = JobsOf(u) /\ RunningFor(u)' = RunningFor(u)
  BY <1>2 DEF JobsOf, RunningFor
<1>10. PhaseOK'
  BY <1>1, <1>2, <1>5, <1>9 DEF PhaseOK
<1>11. HandledOK'
  <2>1. \A l \in Branches \ Inner : l # b
    BY <1>2
  <2> QED BY <1>1, <1>2, <1>6, <2>1 DEF HandledOK
<1>12. NestingOK'
  <2>1. t = Root => b \notin Nesting
    <3>1. t = Root => Len(t) = 0 /\ Len(b) \in Nat
      BY BranchesAre DEF Root
    <3> QED BY <1>2, <3>1, BranchesAre DEF AtQueueDepth
  <2>2. Root \in Traversals /\ \A l \in Nesting : l \in Branches /\ l \in Traversals
    BY BranchesAre DEF Traversals
  <2> QED BY <1>1, <1>2, <1>6, <2>1, <2>2 DEF NestingOK
<1>13. SemCountsJobs'
  <2>1. \A u \in Traversals : JobsBelow(u, todo'[u]) = JobsBelow(u, todo[u])
    BY <1>4, <1>5
  <2> QED BY <1>1, <1>2, <1>9, <2>1 DEF SemCountsJobs
<1> QED BY <1>6, <1>7, <1>8, <1>10, <1>11, <1>12, <1>13 DEF IInv

LEMMA WaitInv ==
    ASSUME IInv, NEW t \in Traversals, Wait(t)
    PROVE  IInv'
<1>1. /\ TypeOK /\ JobOK /\ PhaseOK /\ TokensOK /\ ApartOK
      /\ HandledOK /\ NestingOK /\ SemCountsJobs
  BY DEF IInv
<1>2. /\ phase[t] = "descend" /\ todo[t] = <<>>
      /\ phase' = [phase EXCEPT ![t] = "acquire"]
      /\ UNCHANGED <<todo, sem, queue, job, stage, handled>>
  BY DEF Wait
<1>3. /\ phase'[t] = "acquire"
      /\ \A u \in Traversals : u # t => phase'[u] = phase[u]
  BY <1>1, <1>2 DEF TypeOK
<1>4. Same
  BY <1>2 DEF Same, Holds
<1>5. /\ TokensOK' /\ ApartOK'
      /\ \A u \in Traversals : \A l : Covered(u, l)' <=> Covered(u, l)
  BY <1>1, <1>4, SameKeeps
<1>6. TypeOK'
  BY <1>1, <1>2 DEF TypeOK
<1>7. JobOK'
  BY <1>1, <1>2 DEF JobOK
<1>8. \A u : JobsOf(u)' = JobsOf(u) /\ RunningFor(u)' = RunningFor(u)
  BY <1>2 DEF JobsOf, RunningFor
<1>9. PhaseOK'
  BY <1>1, <1>2, <1>3, <1>8 DEF PhaseOK
<1>10. HandledOK'
  BY <1>1, <1>2, <1>3, <1>5 DEF HandledOK
<1>11. NestingOK'
  BY <1>1, <1>2, <1>3, <1>5 DEF NestingOK, Traversals
<1>12. SemCountsJobs'
  BY <1>1, <1>2, <1>3, <1>8 DEF SemCountsJobs
<1> QED BY <1>5, <1>6, <1>7, <1>9, <1>10, <1>11, <1>12 DEF IInv

\* The semaphore can be acquired only when no job is left.
LEMMA ReturnInv ==
    ASSUME IInv, NEW t \in Traversals, Return(t)
    PROVE  IInv'
<1>1. /\ TypeOK /\ JobOK /\ PhaseOK /\ TokensOK /\ ApartOK
      /\ HandledOK /\ NestingOK /\ SemCountsJobs
  BY DEF IInv
<1>2. /\ phase[t] = "acquire" /\ sem[t] > 0
      /\ sem' = [sem EXCEPT ![t] = @ - 1]
      /\ phase' = [phase EXCEPT ![t] = "returned"]
      /\ stage' = [w \in Workers |->
             IF stage[w] = "nested" /\ \E j \in job[w] : j.at = t THEN "release" ELSE stage[w]]
      /\ UNCHANGED <<todo, queue, job, handled>>
  BY DEF Return
<1>3. /\ phase'[t] = "returned"
      /\ \A u \in Traversals : u # t => phase'[u] = phase[u] /\ sem'[u] = sem[u]
  BY <1>1, <1>2 DEF TypeOK
<1>4. \A w \in Workers : /\ stage'[w] = "run" <=> stage[w] = "run"
                         /\ stage'[w] = "idle" <=> stage[w] = "idle"
  BY <1>2
<1>5. Same
  BY <1>2, <1>4 DEF Same, Holds
<1>6. /\ TokensOK' /\ ApartOK'
      /\ \A u \in Traversals : \A l : Covered(u, l)' <=> Covered(u, l)
  BY <1>1, <1>5, SameKeeps
<1>7. TypeOK'
  <2>1. stage' \in [Workers -> {"idle", "run", "nested", "release"}]
    BY <1>1, <1>2 DEF TypeOK
  <2>2. /\ phase' \in [Traversals -> {"uncalled", "descend", "acquire", "returned"}]
        /\ sem' \in [Traversals -> Int]
    BY <1>1, <1>2 DEF TypeOK
  <2>3. todo' = todo /\ queue' = queue /\ job' = job /\ handled' = handled
    BY <1>2
  <2>4. TypeOK
    BY <1>1
  <2> QED BY ONLY <2>1, <2>2, <2>3, <2>4 DEF TypeOK
<1>8. JobOK'
  BY <1>1, <1>2, <1>4 DEF JobOK
<1>9. \A u : JobsOf(u)' = JobsOf(u) /\ RunningFor(u)' = RunningFor(u)
  BY <1>2 DEF JobsOf, RunningFor
<1>10. JobsOf(t) = {} /\ RunningFor(t) = {}
  <2>1. sem[t] = 1 - Cardinality(JobsOf(t)) - Cardinality(RunningFor(t)) - JobsBelow(t, todo[t])
    BY <1>1, <1>2 DEF SemCountsJobs
  <2>2. /\ Cardinality(JobsOf(t)) \in Nat /\ Cardinality(RunningFor(t)) \in Nat
        /\ JobsBelow(t, todo[t]) \in Nat
    BY <1>1, CountsAre, TodoIs
  <2>3. Cardinality(JobsOf(t)) = 0 /\ Cardinality(RunningFor(t)) = 0
    BY <1>2, <2>1, <2>2
  <2> QED BY <1>1, <2>3, CountsAre, FS_EmptySet
<1>11. PhaseOK'
  BY <1>1, <1>2, <1>3, <1>9, <1>10 DEF PhaseOK
<1>12. HandledOK'
  BY <1>1, <1>2, <1>3, <1>6 DEF HandledOK
<1>13. NestingOK'
  BY <1>1, <1>2, <1>3, <1>6 DEF NestingOK, Traversals
<1>14. SemCountsJobs'
  BY <1>1, <1>2, <1>3, <1>9 DEF SemCountsJobs
<1> QED BY <1>6, <1>7, <1>8, <1>11, <1>12, <1>13, <1>14 DEF IInv

\* What starting a traversal does to it.
LEMMA StartInv ==
    ASSUME IInv, NEW t \in Traversals, phase[t] = "uncalled", Start(t),
           UNCHANGED <<queue, job, handled>>,
           \A w \in Workers : stage'[w] = "run" => stage[w] = "run"
    PROVE  /\ \A k, i, c : Holds(t, k, i, c)' <=> k = "todo" /\ i = 1 /\ c = t
           /\ \A u \in Traversals : u # t => todo'[u] = todo[u] /\ phase'[u] = phase[u] /\ sem'[u] = sem[u]
           /\ phase'[t] = "descend" /\ Placed(t, t)
           /\ phase' \in [Traversals -> {"uncalled", "descend", "acquire", "returned"}]
           /\ todo' \in [Traversals -> Seq(Branches)]
           /\ sem' \in [Traversals -> Int]
           /\ \A l \in Branches \ Inner : handled'[t][l] =
                 IF l \in Reference(t) /\ phase'[t] # "uncalled" /\ ~Covered(t, l)' THEN 1 ELSE 0
           /\ sem'[t] = 1 - Cardinality(JobsOf(t)') - Cardinality(RunningFor(t)') - JobsBelow(t, todo'[t])
<1>1. TypeOK /\ PhaseOK /\ HandledOK
  BY DEF IInv
<1>2. /\ \A k, i, c : Holds(t, k, i, c)' <=> k = "todo" /\ i = 1 /\ c = t
      /\ \A u \in Traversals : u # t => todo'[u] = todo[u] /\ phase'[u] = phase[u] /\ sem'[u] = sem[u]
      /\ phase'[t] = "descend" /\ todo'[t] = <<t>> /\ sem'[t] = 1 - Weight(t, t)
  BY <1>1, StartHolds
<1>3. t \in Tree /\ t \in Branches /\ t \in Within(t) /\ IsPrefix(t, t)
  <2>1. t \in Tree /\ t \in Branches /\ Len(t) \in Nat
    BY BranchesAre
  <2>2. Len(t) - Len(t) <= QueueDepth
    BY <2>1, QueueDepthIs
  <2> QED BY <2>1, <2>2, PrefixOrder DEF Within
<1>4. Placed(t, t)
  <2>1. ASSUME t = Root, NEW a \in LeftOut, IsPrefix(a, t)
        PROVE  a = t
    <3>1. Len(a) \in Nat /\ Len(t) = 0 /\ a \in Tree
      BY <2>1, BranchesAre DEF Root
    <3> QED BY <1>3, <2>1, <3>1, PrefixOrder
  <2> QED BY <1>3, <2>1 DEF Placed
<1>5. Weight(t, t) \in Nat
  BY <1>3, WeightIs
<1>6. JobsBelow(t, <<t>>) = Weight(t, t)
  <2>1. <<t>> \in Seq(Within(t)) /\ <<t>> # <<>> /\ Head(<<t>>) = t /\ Tail(<<t>>) = <<>>
    BY <1>3
  <2>2. /\ JobsBelow(t, <<>>) = 0
        /\ JobsBelow(t, <<t>>) = Weight(t, Head(<<t>>)) + JobsBelow(t, Tail(<<t>>))
    BY <1>3, <2>1, JobsBelowIs
  <2> QED BY <1>5, <2>1, <2>2
<1>7. JobsOf(t)' = {} /\ RunningFor(t)' = {}
  BY <1>1 DEF PhaseOK, JobsOf, RunningFor
<1>8. sem'[t] = 1 - Cardinality(JobsOf(t)') - Cardinality(RunningFor(t)') - JobsBelow(t, todo'[t])
  BY <1>2, <1>5, <1>6, <1>7, FS_EmptySet
<1>9. /\ phase' \in [Traversals -> {"uncalled", "descend", "acquire", "returned"}]
      /\ todo' \in [Traversals -> Seq(Branches)]
      /\ sem' \in [Traversals -> Int]
  <2>1. <<t>> \in Seq(Branches)
    BY <1>3
  <2> QED BY <1>1, <1>5, <2>1 DEF TypeOK, Start
<1>10. ASSUME NEW l \in Branches \ Inner
       PROVE  handled'[t][l] =
                 IF l \in Reference(t) /\ phase'[t] # "uncalled" /\ ~Covered(t, l)' THEN 1 ELSE 0
  <2>1. l \in Reference(t) => IsPrefix(t, l)
    BY DEF Reference, LeavesFor, Under
  <2>2. IsPrefix(t, l) => Covered(t, l)'
    BY <1>2 DEF Covered
  <2>3. handled'[t][l] = 0
    BY <1>1 DEF HandledOK
  <2> QED BY <2>1, <2>2, <2>3
<1> QED BY <1>2, <1>4, <1>8, <1>9, <1>10

LEMMA CallInv ==
    ASSUME IInv, Call
    PROVE  IInv'
<1>1. /\ TypeOK /\ JobOK /\ PhaseOK /\ TokensOK /\ ApartOK
      /\ HandledOK /\ NestingOK /\ SemCountsJobs
  BY DEF IInv
<1> PICK r \in Traversals : r = Root
  BY DEF Traversals
<1>2. phase[r] = "uncalled" /\ Start(r) /\ UNCHANGED <<queue, job, stage, handled>>
  BY DEF Call
<1>3. /\ \A k, i, c : Holds(r, k, i, c)' <=> k = "todo" /\ i = 1 /\ c = r
      /\ \A u \in Traversals : u # r => todo'[u] = todo[u] /\ phase'[u] = phase[u] /\ sem'[u] = sem[u]
      /\ phase'[r] = "descend" /\ Placed(r, r)
      /\ phase' \in [Traversals -> {"uncalled", "descend", "acquire", "returned"}]
      /\ todo' \in [Traversals -> Seq(Branches)]
      /\ sem' \in [Traversals -> Int]
      /\ \A l \in Branches \ Inner : handled'[r][l] =
            IF l \in Reference(r) /\ phase'[r] # "uncalled" /\ ~Covered(r, l)' THEN 1 ELSE 0
      /\ sem'[r] = 1 - Cardinality(JobsOf(r)') - Cardinality(RunningFor(r)')
                        - JobsBelow(r, todo'[r])
  BY <1>2, StartInv
<1>4. \A u \in Traversals : u # r => \A k, i, b : Holds(u, k, i, b)' <=> Holds(u, k, i, b)
  BY <1>2, <1>3 DEF Holds
<1>5. \A u \in Traversals : u # r => \A l : Covered(u, l)' <=> Covered(u, l)
  BY <1>4 DEF Covered
<1>6. TokensOK'
  BY <1>1, <1>3, <1>4 DEF TokensOK, Placed, AtQueueDepth
<1>7. ApartOK'
  <2>1. ASSUME NEW u \in Traversals, NEW k, NEW i, NEW c, NEW m, NEW n, NEW d,
               Holds(u, k, i, c)', Holds(u, m, n, d)'
        PROVE  (k = m /\ i = n) \/ Apart(c, d)
    <3>1. CASE u = r
      BY <1>3, <2>1, <3>1
    <3>2. CASE u # r
      <4>1. Holds(u, k, i, c) /\ Holds(u, m, n, d)
        BY <1>4, <2>1, <3>2
      <4> QED BY <1>1, <4>1 DEF ApartOK
    <3> QED BY <3>1, <3>2
  <2> QED BY <2>1 DEF ApartOK
<1>8. TypeOK'
  BY <1>1, <1>2, <1>3 DEF TypeOK
<1>9. JobOK'
  BY <1>1, <1>2 DEF JobOK
<1>10. \A u : JobsOf(u)' = JobsOf(u) /\ RunningFor(u)' = RunningFor(u)
  BY <1>2 DEF JobsOf, RunningFor
<1>11. PhaseOK'
  BY <1>1, <1>3, <1>10 DEF PhaseOK
<1>12. HandledOK'
  <2>1. ASSUME NEW u \in Traversals, NEW l \in Branches \ Inner
        PROVE  handled'[u][l] =
                  IF l \in Reference(u) /\ phase'[u] # "uncalled" /\ ~Covered(u, l)' THEN 1 ELSE 0
    <3>1. CASE u = r
      BY <1>3, <3>1
    <3>2. CASE u # r
      <4>1. handled[u][l] = IF l \in Reference(u) /\ phase[u] # "uncalled" /\ ~Covered(u, l) THEN 1 ELSE 0
        BY <1>1 DEF HandledOK
      <4>2. handled' = handled /\ phase'[u] = phase[u] /\ (Covered(u, l)' <=> Covered(u, l))
        BY <1>2, <1>3, <1>5, <3>2
      <4> QED BY <4>1, <4>2
    <3> QED BY <3>1, <3>2
  <2> QED BY <2>1 DEF HandledOK
<1>13. NestingOK'
  <2>1. \A b \in Nesting : b \in Traversals /\ b # Root
    <3>1. Len(Root) = 0 /\ \A b \in Nesting : Len(b) # 0
      BY BranchesAre, QueueDepthIs DEF Root
    <3> QED BY <3>1 DEF Traversals
  <2> QED BY <1>1, <1>2, <1>3, <2>1 DEF NestingOK
<1>14. SemCountsJobs'
  BY <1>1, <1>3, <1>10 DEF SemCountsJobs
<1> QED BY <1>6, <1>7, <1>8, <1>9, <1>11, <1>12, <1>13, <1>14 DEF IInv

LEMMA PopInv ==
    ASSUME IInv, NEW w \in Workers, Pop(w)
    PROVE  IInv'
<1>1. /\ TypeOK /\ JobOK /\ PhaseOK /\ TokensOK /\ ApartOK
      /\ HandledOK /\ NestingOK /\ SemCountsJobs
  BY DEF IInv
<1>2. /\ queue # <<>>
      /\ job' = [job EXCEPT ![w] = {Head(queue)}]
      /\ stage' = [stage EXCEPT ![w] = "run"]
      /\ queue' = Tail(queue)
      /\ UNCHANGED <<phase, todo, sem, handled>>
  BY DEF Pop
<1>3. queue \in Seq(Jobs) /\ Tail(queue) \in Seq(Jobs) /\ Head(queue) \in Jobs /\ Head(queue) = queue[1]
  BY <1>1, <1>2, HeadTailProperties DEF TypeOK
<1>4. /\ TokensOK' /\ ApartOK'
      /\ \A u \in Traversals : \A l \in Branches : Covered(u, l)' <=> Covered(u, l)
  BY <1>1, PopKeeps
<1>5. TypeOK'
  BY <1>1, <1>2, <1>3 DEF TypeOK
<1>6. JobOK'
  BY <1>1, <1>2, <1>3 DEF JobOK, TypeOK
<1>7. \A u : /\ u = queue[1].of =>
                   /\ Cardinality(JobsOf(u)) # 0
                   /\ Cardinality(JobsOf(u)') = Cardinality(JobsOf(u)) - 1
                   /\ Cardinality(RunningFor(u)') = Cardinality(RunningFor(u)) + 1
             /\ u # queue[1].of =>
                   /\ Cardinality(JobsOf(u)') = Cardinality(JobsOf(u))
                   /\ RunningFor(u)' = RunningFor(u)
                   /\ JobsOf(u) = {} => JobsOf(u)' = {}
  BY <1>1, PopCounts
<1>8. PhaseOK'
  <2>1. ASSUME NEW u \in Traversals, phase'[u] \in {"uncalled", "returned"}
        PROVE  JobsOf(u)' = {} /\ RunningFor(u)' = {}
    <3>1. JobsOf(u) = {} /\ RunningFor(u) = {}
      BY <1>1, <1>2, <2>1 DEF PhaseOK
    <3>2. u # queue[1].of
      BY <1>7, <3>1, FS_EmptySet
    <3> QED BY <1>7, <3>1, <3>2
  <2> QED BY <1>1, <1>2, <2>1 DEF PhaseOK
<1>9. HandledOK'
  BY <1>1, <1>2, <1>4 DEF HandledOK
<1>10. NestingOK'
  BY <1>1, <1>2, <1>4, BranchesAre DEF NestingOK, Traversals
<1>11. SemCountsJobs'
  <2>1. ASSUME NEW u \in Traversals, phase'[u] \in {"descend", "acquire"}
        PROVE  sem'[u] = 1 - Cardinality(JobsOf(u)') - Cardinality(RunningFor(u)') - JobsBelow(u, todo'[u])
    <3>1. sem[u] = 1 - Cardinality(JobsOf(u)) - Cardinality(RunningFor(u)) - JobsBelow(u, todo[u])
      BY <1>1, <1>2, <2>1 DEF SemCountsJobs
    <3>2. /\ Cardinality(JobsOf(u)) \in Nat /\ Cardinality(RunningFor(u)) \in Nat
          /\ JobsBelow(u, todo[u]) \in Nat
      BY <1>1, CountsAre, TodoIs
    <3>3. 1 - (Cardinality(JobsOf(u)) - 1) - (Cardinality(RunningFor(u)) + 1) - JobsBelow(u, todo[u])
            = 1 - Cardinality(JobsOf(u)) - Cardinality(RunningFor(u)) - JobsBelow(u, todo[u])
      BY <3>2
    <3>4. sem'[u] = sem[u] /\ todo'[u] = todo[u]
      BY <1>2
    <3>5. CASE u = queue[1].of
      BY <1>7, <3>1, <3>3, <3>4, <3>5
    <3>6. CASE u # queue[1].of
      BY <1>7, <3>1, <3>4, <3>6
    <3> QED BY <3>5, <3>6
  <2> QED BY <2>1 DEF SemCountsJobs
<1> QED BY <1>4, <1>5, <1>6, <1>8, <1>9, <1>10, <1>11 DEF IInv

\* What holds of a job that a worker is to run.
LEMMA JobIs ==
    ASSUME IInv, NEW w \in Workers, NEW j \in Jobs, stage[w] = "run", j \in job[w]
    PROVE  /\ job[w] = {j} /\ j.of \in Traversals /\ j.at \in Branches
           /\ Holds(j.of, "run", w, j.at) /\ Placed(j.of, j.at) /\ AtQueueDepth(j.of, j.at)
           /\ phase[j.of] # "uncalled"
           /\ \A l : IsPrefix(j.at, l) => Covered(j.of, l)
<1>1. j.of \in Traversals /\ j.at \in Branches /\ j = [of |-> j.of, at |-> j.at]
  BY DEF Jobs
<1>2. job[w] = {j}
  BY DEF IInv, JobOK
<1>3. Holds(j.of, "run", w, j.at)
  BY <1>1 DEF Holds
<1>4. w \in RunningFor(j.of)
  BY DEF RunningFor
<1>5. phase[j.of] # "uncalled"
  BY <1>1, <1>4 DEF IInv, PhaseOK
<1>6. Placed(j.of, j.at) /\ AtQueueDepth(j.of, j.at)
  BY <1>1, <1>3 DEF IInv, TokensOK
<1>7. \A l : IsPrefix(j.at, l) => Covered(j.of, l)
  BY <1>3 DEF Covered
<1> QED BY <1>1, <1>2, <1>3, <1>5, <1>6, <1>7

LEMMA RunInv ==
    ASSUME IInv, NEW w \in Workers, NEW j \in Jobs, Run(w, j)
    PROVE  IInv'
<1>1. /\ TypeOK /\ JobOK /\ PhaseOK /\ TokensOK /\ ApartOK
      /\ HandledOK /\ NestingOK /\ SemCountsJobs
  BY DEF IInv
<1>2. /\ stage[w] = "run" /\ j \in job[w] /\ ~Nests(j)
      /\ stage' = [stage EXCEPT ![w] = "release"]
      /\ UNCHANGED <<phase, todo, sem, queue, job>>
  BY DEF Run
<1> PICK t \in Traversals, b \in Branches : t = j.of /\ b = j.at
  BY DEF Jobs
<1>3. /\ job[w] = {j} /\ Placed(t, b) /\ AtQueueDepth(t, b)
      /\ phase[t] # "uncalled"
      /\ \A l : IsPrefix(b, l) => Covered(t, l)
  BY <1>2, JobIs
<1>4. \A u \in Traversals :
         /\ \A k, i, c : Holds(u, k, i, c)' =>
                 Placed(u, c) /\ (k # "todo" => AtQueueDepth(u, c))
         /\ \A k, i, c, m, n, d :
                 Holds(u, k, i, c)' /\ Holds(u, m, n, d)' => (k = m /\ i = n) \/ Apart(c, d)
         /\ \A l \in Branches : Covered(u, l)' <=> Covered(u, l) /\ ~(u = t /\ IsPrefix(b, l))
  <2>1. "release" # "run" /\ todo' = todo /\ queue' = queue /\ job' = job
    BY <1>2
  <2> QED BY <1>1, <1>2, <1>3, <2>1, RunKeeps
<1>5. TokensOK' /\ ApartOK'
  BY <1>4 DEF TokensOK, ApartOK, Placed, AtQueueDepth
<1>6. /\ handled' \in [Traversals -> [Branches \ Inner -> Nat]]
      /\ \A u \in Traversals : \A l \in Branches \ Inner :
            handled'[u][l] = IF u = t /\ l \in LeavesFor(t, b) THEN handled[u][l] + 1 ELSE handled[u][l]
  <2> DEFINE S == LeavesFor(t, b)
  <2>1. /\ handled \in [Traversals -> [Branches \ Inner -> Nat]]
        /\ handled' = [handled EXCEPT ![t] = [l \in Branches \ Inner |->
                          IF l \in S THEN handled[t][l] + 1 ELSE handled[t][l]]]
    BY <1>1 DEF TypeOK, Run, Handle
  <2> HIDE DEF S
  <2> DEFINE h == [l \in Branches \ Inner |-> IF l \in S THEN handled[t][l] + 1 ELSE handled[t][l]]
  <2>2. h \in [Branches \ Inner -> Nat]
    BY <2>1
  <2>3. handled' \in [Traversals -> [Branches \ Inner -> Nat]]
    <3> HIDE DEF h
    <3> QED BY <2>1, <2>2 DEF h
  <2>4. handled'[t] = h /\ \A u \in Traversals : u # t => handled'[u] = handled[u]
    <3> HIDE DEF h
    <3> QED BY <2>1 DEF h
  <2>5. \A u \in Traversals : \A l \in Branches \ Inner :
              handled'[u][l] = IF u = t /\ l \in S THEN handled[u][l] + 1 ELSE handled[u][l]
    BY <2>4
  <2> QED BY <2>3, <2>5 DEF S
<1>7. TypeOK'
  <2>1. stage' \in [Workers -> {"idle", "run", "nested", "release"}]
    BY <1>1, <1>2 DEF TypeOK
  <2>2. phase' = phase /\ todo' = todo /\ sem' = sem /\ queue' = queue /\ job' = job
    BY <1>2
  <2>3. TypeOK
    BY <1>1
  <2> QED BY ONLY <1>6, <2>1, <2>2, <2>3 DEF TypeOK
<1>8. JobOK'
  BY <1>1, <1>2, <1>3 DEF JobOK, TypeOK
<1>9. \A u : JobsOf(u)' = JobsOf(u) /\ RunningFor(u)' = RunningFor(u)
  BY <1>2 DEF JobsOf, RunningFor
<1>10. PhaseOK'
  BY <1>1, <1>2, <1>9 DEF PhaseOK
<1>11. HandledOK'
  <2>1. \A l \in Branches : IsPrefix(b, l) => (l \in Reference(t) <=> l \in LeavesFor(t, b))
    BY <1>2, <1>3, ReferenceIs DEF Nests
  <2>2. \A l : l \in LeavesFor(t, b) => IsPrefix(b, l)
    BY <1>3, ReferenceIs
  <2>3. ASSUME NEW u \in Traversals, NEW l \in Branches \ Inner
        PROVE  handled'[u][l] =
                  IF l \in Reference(u) /\ phase'[u] # "uncalled" /\ ~Covered(u, l)' THEN 1 ELSE 0
    <3>1. handled[u][l] = IF l \in Reference(u) /\ phase[u] # "uncalled" /\ ~Covered(u, l) THEN 1 ELSE 0
      BY <1>1 DEF HandledOK
    <3>2. /\ handled'[u][l] = IF u = t /\ l \in LeavesFor(t, b) THEN handled[u][l] + 1 ELSE handled[u][l]
          /\ Covered(u, l)' <=> Covered(u, l) /\ ~(u = t /\ IsPrefix(b, l))
          /\ phase' = phase
      BY <1>2, <1>4, <1>6
    <3> QED BY <1>3, <2>1, <2>2, <3>1, <3>2
  <2> QED BY <2>3 DEF HandledOK
<1>12. NestingOK'
  BY <1>1, <1>2, <1>4, BranchesAre DEF NestingOK, Traversals
<1>13. SemCountsJobs'
  BY <1>1, <1>2, <1>9 DEF SemCountsJobs
<1> QED BY <1>5, <1>7, <1>8, <1>10, <1>11, <1>12, <1>13 DEF IInv

\* A job that nests is one of the caller's, and its traversal was not called.
LEMMA RunNestedInv ==
    ASSUME IInv, NEW w \in Workers, NEW j \in Jobs, RunNested(w, j)
    PROVE  IInv'
<1>1. /\ TypeOK /\ JobOK /\ PhaseOK /\ TokensOK /\ ApartOK
      /\ HandledOK /\ NestingOK /\ SemCountsJobs
  BY DEF IInv
<1>2. /\ stage[w] = "run" /\ j \in job[w] /\ Nests(j)
      /\ Start(j.at)
      /\ stage' = [stage EXCEPT ![w] = "nested"]
      /\ UNCHANGED <<queue, job, handled>>
  BY DEF RunNested
<1> PICK r \in Traversals, t \in Traversals : r = j.of /\ t = j.at
  BY <1>2 DEF Nests, Traversals
<1>3. /\ job[w] = {j} /\ Placed(r, t) /\ AtQueueDepth(r, t)
      /\ phase[r] # "uncalled" /\ t \in Nesting /\ r = Root
      /\ \A l : IsPrefix(t, l) => Covered(r, l)
  BY <1>2, JobIs DEF Nests
<1>4. t \in Branches /\ t \in Tree /\ IsPrefix(t, t) /\ t # r
  <2>1. Len(t) # 0 /\ Len(r) = 0
    BY <1>3, BranchesAre, QueueDepthIs DEF Root
  <2> QED BY <2>1, BranchesAre, PrefixOrder
<1>5. phase[t] = "uncalled"
  BY <1>1, <1>3, <1>4 DEF NestingOK
<1>6. \A v \in Workers : stage'[v] = "run" => stage[v] = "run"
  BY <1>1, <1>2 DEF TypeOK
<1>7. /\ \A k, i, c : Holds(t, k, i, c)' <=> k = "todo" /\ i = 1 /\ c = t
      /\ \A u \in Traversals : u # t => todo'[u] = todo[u] /\ phase'[u] = phase[u] /\ sem'[u] = sem[u]
      /\ phase'[t] = "descend" /\ Placed(t, t)
      /\ phase' \in [Traversals -> {"uncalled", "descend", "acquire", "returned"}]
      /\ todo' \in [Traversals -> Seq(Branches)]
      /\ sem' \in [Traversals -> Int]
      /\ \A l \in Branches \ Inner : handled'[t][l] =
            IF l \in Reference(t) /\ phase'[t] # "uncalled" /\ ~Covered(t, l)' THEN 1 ELSE 0
      /\ sem'[t] = 1 - Cardinality(JobsOf(t)') - Cardinality(RunningFor(t)') - JobsBelow(t, todo'[t])
  BY <1>2, <1>5, <1>6, StartInv
<1>8. \A u \in Traversals : u # t =>
         /\ \A k, i, c : Holds(u, k, i, c)' =>
                 Placed(u, c) /\ (k # "todo" => AtQueueDepth(u, c))
         /\ \A k, i, c, m, n, d :
                 Holds(u, k, i, c)' /\ Holds(u, m, n, d)' => (k = m /\ i = n) \/ Apart(c, d)
         /\ \A l \in Branches : Covered(u, l)' <=> Covered(u, l) /\ ~(u = r /\ IsPrefix(t, l))
  <2>1. ASSUME NEW u \in Traversals, u # t PROVE todo'[u] = todo[u]
    BY <1>7, <2>1
  <2>2. "nested" # "run" /\ queue' = queue /\ job' = job
    BY <1>2
  <2> QED BY <1>1, <1>2, <1>3, <2>1, <2>2, RunKeeps
<1>9. TokensOK'
  <2>1. ASSUME NEW u \in Traversals, NEW k, NEW i, NEW c, Holds(u, k, i, c)'
        PROVE  Placed(u, c) /\ (k # "todo" => AtQueueDepth(u, c))
    <3>1. CASE u = t
      BY <1>7, <2>1, <3>1
    <3>2. CASE u # t
      BY <1>8, <2>1, <3>2
    <3> QED BY <3>1, <3>2
  <2> QED BY <2>1 DEF TokensOK, Placed, AtQueueDepth
<1>10. ApartOK'
  <2>1. ASSUME NEW u \in Traversals, NEW k, NEW i, NEW c, NEW m, NEW n, NEW d,
               Holds(u, k, i, c)', Holds(u, m, n, d)'
        PROVE  (k = m /\ i = n) \/ Apart(c, d)
    <3>1. CASE u = t
      BY <1>7, <2>1, <3>1
    <3>2. CASE u # t
      BY <1>8, <2>1, <3>2
    <3> QED BY <3>1, <3>2
  <2> QED BY <2>1 DEF ApartOK
<1>11. TypeOK'
  <2>1. stage' \in [Workers -> {"idle", "run", "nested", "release"}]
    BY <1>1, <1>2 DEF TypeOK
  <2>2. queue' = queue /\ job' = job /\ handled' = handled
    BY <1>2
  <2>3. TypeOK
    BY <1>1
  <2> QED BY ONLY <1>7, <2>1, <2>2, <2>3 DEF TypeOK
<1>12. JobOK'
  BY <1>1, <1>2, <1>3 DEF JobOK, TypeOK
<1>13. \A u : JobsOf(u)' = JobsOf(u) /\ RunningFor(u)' = RunningFor(u)
  BY <1>2 DEF JobsOf, RunningFor
<1>14. PhaseOK'
  BY <1>1, <1>7, <1>13 DEF PhaseOK
<1>15. HandledOK'
  <2>1. \A l \in Branches : IsPrefix(t, l) => l \notin Reference(r)
    BY <1>3, ReferenceIs
  <2>2. ASSUME NEW u \in Traversals, NEW l \in Branches \ Inner
        PROVE  handled'[u][l] =
                  IF l \in Reference(u) /\ phase'[u] # "uncalled" /\ ~Covered(u, l)' THEN 1 ELSE 0
    <3>1. CASE u = t
      BY <1>7, <3>1
    <3>2. CASE u # t
      <4>1. handled[u][l] = IF l \in Reference(u) /\ phase[u] # "uncalled" /\ ~Covered(u, l) THEN 1 ELSE 0
        BY <1>1 DEF HandledOK
      <4>2. /\ handled' = handled /\ phase'[u] = phase[u]
            /\ Covered(u, l)' <=> Covered(u, l) /\ ~(u = r /\ IsPrefix(t, l))
        BY <1>2, <1>7, <1>8, <3>2
      <4> QED BY <2>1, <4>1, <4>2
    <3> QED BY <3>1, <3>2
  <2> QED BY <2>2 DEF HandledOK
<1>16. NestingOK'
  <2>1. ASSUME NEW b \in Nesting, phase'[r] = "uncalled" \/ Covered(r, b)'
        PROVE  phase'[b] = "uncalled"
    <3>1. b \in Branches /\ b \in Traversals /\ phase'[r] # "uncalled"
      BY <1>3, <1>4, <1>7, BranchesAre DEF Traversals
    <3>2. Covered(r, b) /\ b # t
      BY <1>4, <1>8, <2>1, <3>1
    <3>3. phase[b] = "uncalled"
      BY <1>1, <1>3, <3>2 DEF NestingOK
    <3>4. phase'[b] = phase[b]
      BY <1>7, <3>1, <3>2
    <3> QED BY <3>3, <3>4
  <2> QED BY <1>3, <2>1 DEF NestingOK
<1>17. SemCountsJobs'
  <2>1. ASSUME NEW u \in Traversals, phase'[u] \in {"descend", "acquire"}
        PROVE  sem'[u] = 1 - Cardinality(JobsOf(u)') - Cardinality(RunningFor(u)') - JobsBelow(u, todo'[u])
    <3>1. CASE u = t
      BY <1>7, <3>1
    <3>2. CASE u # t
      <4>1. sem'[u] = sem[u] /\ todo'[u] = todo[u] /\ phase'[u] = phase[u]
        BY <1>7, <3>2
      <4>2. sem[u] = 1 - Cardinality(JobsOf(u)) - Cardinality(RunningFor(u)) - JobsBelow(u, todo[u])
        BY <1>1, <2>1, <4>1 DEF SemCountsJobs
      <4> QED BY <1>13, <4>1, <4>2
    <3> QED BY <3>1, <3>2
  <2> QED BY <2>1 DEF SemCountsJobs
<1> QED BY <1>9, <1>10, <1>11, <1>12, <1>14, <1>15, <1>16, <1>17 DEF IInv

LEMMA ReleaseInv ==
    ASSUME IInv, NEW w \in Workers, NEW j \in Jobs, Release(w, j)
    PROVE  IInv'
<1>1. /\ TypeOK /\ JobOK /\ PhaseOK /\ TokensOK /\ ApartOK
      /\ HandledOK /\ NestingOK /\ SemCountsJobs
  BY DEF IInv
<1>2. /\ stage[w] = "release" /\ j \in job[w]
      /\ sem' = [sem EXCEPT ![j.of] = @ + 1]
      /\ job' = [job EXCEPT ![w] = {}]
      /\ stage' = [stage EXCEPT ![w] = "idle"]
      /\ UNCHANGED <<phase, todo, queue, handled>>
  BY DEF Release
<1>3. j.of \in Traversals
  BY DEF Jobs
<1>4. /\ sem'[j.of] = sem[j.of] + 1
      /\ \A u \in Traversals : u # j.of => sem'[u] = sem[u]
      /\ \A u \in Traversals : sem[u] \in Int
  BY <1>1, <1>2, <1>3 DEF TypeOK
<1>5. Same
  <2>1. \A v \in Workers : (stage'[v] = "run" <=> stage[v] = "run")
                           /\ (stage[v] = "run" => job'[v] = job[v])
    BY <1>1, <1>2 DEF TypeOK
  <2> QED BY <1>2, <2>1 DEF Same, Holds
<1>6. /\ TokensOK' /\ ApartOK'
      /\ \A u \in Traversals : \A l : Covered(u, l)' <=> Covered(u, l)
  BY <1>1, <1>5, SameKeeps
<1>7. TypeOK'
  <2>1. /\ stage' \in [Workers -> {"idle", "run", "nested", "release"}]
        /\ job' \in [Workers -> SUBSET Jobs] /\ sem' \in [Traversals -> Int]
    BY <1>1, <1>2, <1>3 DEF TypeOK
  <2>2. phase' = phase /\ todo' = todo /\ queue' = queue /\ handled' = handled
    BY <1>2
  <2>3. TypeOK
    BY <1>1
  <2> QED BY ONLY <2>1, <2>2, <2>3 DEF TypeOK
<1>8. JobOK'
  BY <1>1, <1>2 DEF JobOK, TypeOK
<1>9. \A u : JobsOf(u)' = JobsOf(u)
  BY <1>2 DEF JobsOf
<1>10. \A u : /\ Cardinality(RunningFor(u)') =
                   IF u = j.of THEN Cardinality(RunningFor(u)) - 1 ELSE Cardinality(RunningFor(u))
              /\ RunningFor(u)' \subseteq RunningFor(u)
  BY <1>1, ReleaseCounts
<1>11. PhaseOK'
  <2>1. \A u : RunningFor(u) = {} => RunningFor(u)' = {}
    BY <1>10
  <2> QED BY <1>1, <1>2, <1>9, <2>1 DEF PhaseOK
<1>12. HandledOK'
  BY <1>1, <1>2, <1>6 DEF HandledOK
<1>13. NestingOK'
  BY <1>1, <1>2, <1>6 DEF NestingOK, Traversals
<1>14. SemCountsJobs'
  <2>1. ASSUME NEW u \in Traversals, phase'[u] \in {"descend", "acquire"}
        PROVE  sem'[u] = 1 - Cardinality(JobsOf(u)') - Cardinality(RunningFor(u)') - JobsBelow(u, todo'[u])
    <3>1. sem[u] = 1 - Cardinality(JobsOf(u)) - Cardinality(RunningFor(u)) - JobsBelow(u, todo[u])
      BY <1>1, <1>2, <2>1 DEF SemCountsJobs
    <3>2. /\ Cardinality(JobsOf(u)) \in Nat /\ Cardinality(RunningFor(u)) \in Nat
          /\ JobsBelow(u, todo[u]) \in Nat
      BY <1>1, CountsAre, TodoIs
    <3>3. 1 - Cardinality(JobsOf(u)) - Cardinality(RunningFor(u)) - JobsBelow(u, todo[u]) + 1
            = 1 - Cardinality(JobsOf(u)) - (Cardinality(RunningFor(u)) - 1) - JobsBelow(u, todo[u])
      BY <3>2
    <3>4. todo'[u] = todo[u] /\ JobsOf(u)' = JobsOf(u)
      BY <1>2, <1>9
    <3>5. CASE u = j.of
      BY <1>4, <1>10, <3>1, <3>3, <3>4, <3>5
    <3>6. CASE u # j.of
      BY <1>4, <1>10, <3>1, <3>4, <3>6
    <3> QED BY <3>5, <3>6
  <2> QED BY <2>1 DEF SemCountsJobs
<1> QED BY <1>6, <1>7, <1>8, <1>11, <1>12, <1>13, <1>14 DEF IInv

\* A step without an effect, as Idle is.
LEMMA StutterInv ==
    ASSUME IInv, UNCHANGED vars
    PROVE  IInv'
<1>1. /\ phase' = phase /\ todo' = todo /\ sem' = sem /\ queue' = queue
      /\ job' = job /\ stage' = stage /\ handled' = handled
  BY DEF vars
<1>2. \A u : JobsOf(u)' = JobsOf(u) /\ RunningFor(u)' = RunningFor(u)
  BY <1>1 DEF JobsOf, RunningFor
<1>3. Same
  BY <1>1 DEF Same, Holds
<1>4. /\ TokensOK' /\ ApartOK'
      /\ \A u \in Traversals : \A l : Covered(u, l)' <=> Covered(u, l)
  BY <1>3, SameKeeps DEF IInv
<1>5. TypeOK' /\ JobOK'
  BY <1>1 DEF IInv, TypeOK, JobOK
<1>6. PhaseOK' /\ SemCountsJobs'
  BY <1>1, <1>2 DEF IInv, PhaseOK, SemCountsJobs
<1>7. HandledOK' /\ NestingOK'
  BY <1>1, <1>4 DEF IInv, HandledOK, NestingOK, Traversals
<1> QED BY <1>4, <1>5, <1>6, <1>7 DEF IInv

LEMMA NextInv == IInv /\ [Next]_vars => IInv'
<1> SUFFICES ASSUME IInv, [Next]_vars PROVE IInv'
  OBVIOUS
<1>1. CASE Call
  BY <1>1, CallInv
<1>2. CASE Idle
  BY <1>2, StutterInv DEF Idle
<1>3. ASSUME NEW t \in Traversals, Caller(t)
      PROVE  IInv'
  BY <1>3, LeaveOutInv, EnqueueInv, HandleLeafInv, DescendInv, WaitInv, ReturnInv DEF Caller
<1>4. ASSUME NEW w \in Workers, Worker(w)
      PROVE  IInv'
  BY <1>4, PopInv, RunInv, RunNestedInv, ReleaseInv DEF Worker
<1>5. CASE UNCHANGED vars
  BY <1>5, StutterInv
<1> QED BY <1>1, <1>2, <1>3, <1>4, <1>5 DEF Next

LEMMA Invariance == Spec => []IInv
BY InitInv, NextInv, PTL DEF Spec

-----------------------------------------------------------------------------
\* The semaphore of a traversal that runs lacks one count for each of its jobs
\* and for each that a complete tree has below what the caller has to come to:
\* the branches that are leaves or left out have released for all of theirs.
THEOREM CountsAreJobs == Spec => []SemCountsJobs
<1>1. IInv => SemCountsJobs
  BY DEF IInv
<1> QED BY <1>1, Invariance, PTL

\* When a traversal returns, none of its jobs is in the pool, so none can use
\* the semaphore or the result on the caller's stack, and each leaf of the
\* sequential traversal was handled once, no other ever.
THEOREM ReturnsAreComplete == Spec => []ReturnsComplete
<1>1. IInv => ReturnsComplete
  <2> SUFFICES ASSUME IInv, NEW t \in Traversals, phase[t] = "returned"
               PROVE  /\ JobsOf(t) = {} /\ RunningFor(t) = {}
                      /\ \A l \in Branches \ Inner : handled[t][l] = IF l \in Reference(t) THEN 1 ELSE 0
    BY DEF ReturnsComplete
  <2>1. JobsOf(t) = {} /\ RunningFor(t) = {} /\ todo[t] = <<>>
    BY DEF IInv, PhaseOK
  <2>2. \A l : ~Covered(t, l)
    <3>1. DOMAIN <<>> = {}
      OBVIOUS
    <3>2. \A i : i \in DOMAIN queue => queue[i].of # t
      BY <2>1 DEF JobsOf
    <3>3. \A w \in Workers : \A j \in job[w] : j.of # t
      BY <2>1 DEF RunningFor
    <3>4. \A k, i, b : ~Holds(t, k, i, b)
      BY <2>1, <3>1, <3>2, <3>3 DEF Holds
    <3> QED BY <3>4 DEF Covered
  <2>3. \A l \in Branches \ Inner :
            handled[t][l] = IF l \in Reference(t) /\ phase[t] # "uncalled" /\ ~Covered(t, l) THEN 1 ELSE 0
    BY DEF IInv, HandledOK
  <2> QED BY <2>1, <2>2, <2>3
<1> QED BY <1>1, Invariance, PTL
=============================================================================
