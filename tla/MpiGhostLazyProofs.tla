------------------------- MODULE MpiGhostLazyProofs -------------------------
(***************************************************************************)
(* Proofs about MpiGhostLazy, for any set of colors, any relation of ghost *)
(* owners and shared users, any ragged fields, any tasks and any program.  *)
(*                                                                         *)
(* Each rank decides by itself what to exchange, and a message does not    *)
(* say what it is.  The inductive invariant therefore computes from the    *)
(* program alone what every rank's flags are before a task and which       *)
(* fields each exchange of the task is about.  The exchanges of the        *)
(* program are numbered; a wire holds, in that order, one message for each *)
(* exchange that its sender has passed and its receiver has not, if the    *)
(* two share a field of it, and the message is the one that exchange calls *)
(* for.  Senders may be any number of exchanges ahead.                     *)
(***************************************************************************)
EXTENDS MpiGhostLazy, FiniteSetTheorems, SequenceTheorems, TLAPS

States == {"prolog", "rowsize", "rowsize_wait", "resize", "dense", "dense_wait",
           "sparse", "sparse_wait", "user", "epilog"}

TypeOK ==
    /\ prog \in Programs
    /\ task \in [Colors -> 1..NumTasks + 1]
    /\ pc \in [Colors -> States]
    /\ \A c \in Colors : pc[c] # "prolog" => task[c] \in 1..NumTasks
    /\ shared \in [Colors -> [Fields -> Nat]]
    /\ rows \in [Colors -> [Fields -> Nat]]
    /\ ghost \in [Colors -> [Fields -> [Colors -> Nat]]]
    /\ ghostRows \in [Colors -> [Fields -> [Colors -> Nat]]]
    /\ rowSizes \in [Colors -> [Fields -> [Colors -> Nat]]]
    /\ readable \in [Colors -> [Fields -> BOOLEAN]]
    /\ resized \in [Colors -> [Fields -> BOOLEAN]]
    /\ collected \in [Colors -> [Exchanges -> Seq(Fields)]]
    /\ awaited \in [Colors -> SUBSET Colors]
    /\ seen \in [Colors -> SUBSET [field : Fields, owner : Colors, version : Nat]]

-----------------------------------------------------------------------------
(* What a rank's flags are before task k, and what it exchanges for it *)

Names(t, f) == \E i \in DOMAIN t : t[i].field = f

\* The flags of a field after task t, from those before it.
ReadableThen(t, f, r) ==
    LET at == {i \in DOMAIN t : t[i].field = f /\ Decides(t[i])} IN
    /\ ~Mutates(t, f)
    /\ IF at = {} THEN r \/ ReadsGhost(t, f)
       ELSE t[CHOOSE i \in at : \A j \in at : j <= i].gp \in {"rw", "wo"}
Kept(t, f, z) == z /\ ~(f \in Ragged /\ Names(t, f))
ResizedThen(t, f, z) == Kept(t, f, z) \/ Mutates(t, f)

FlagsThen(t, s) ==
    [readable |-> [f \in Fields |-> ReadableThen(t, f, s.readable[f])],
     resized  |-> [f \in Fields |-> ResizedThen(t, f, s.resized[f])]]

FirstFlags == [readable |-> [f \in Fields |-> TRUE], resized |-> [f \in Fields |-> FALSE]]

\* The flags before each task of program p.
FlagsOf(p) ==
    LET before[k \in 1..NumTasks + 1] ==
            IF k = 1 THEN FirstFlags ELSE FlagsThen(p[k - 1], before[k - 1])
    IN before

\* The fields that task t exchanges with flags s.
ListFor(t, s, x) ==
    LET unread  == {i \in DOMAIN t : ~s.readable[t[i].field] /\ Unfetched(t, i)}
        ragged  == {i \in DOMAIN t : t[i].field \in Ragged}
        wanted  == {i \in unread : Wants(t, i)}
        resizes == {i \in unread : s.resized[t[i].field]}
    IN FieldsAt(t, CASE x = "rowsize" -> resizes \cap ragged
                     [] x = "dense"   -> wanted \ ragged
                     [] x = "sparse"  -> wanted \cap ragged)

List(k, x) == ListFor(prog[k], FlagsOf(prog)[k], x)

-----------------------------------------------------------------------------
(* The exchanges of the program are numbered, and so are the colors' clocks *)

Number == [rowsize |-> 0, dense |-> 1, sparse |-> 2]
Stamp(k, x) == 3 * k + Number[x]

TaskOf(n) == n \div 3
KindOf(n) == CASE n % 3 = 0 -> "rowsize" [] n % 3 = 1 -> "dense" [] OTHER -> "sparse"
ListAt(n) == List(TaskOf(n), KindOf(n))

\* How many exchanges of its task a color has sent its messages for.
Sent(state) ==
    CASE state \in {"prolog", "rowsize"}               -> 0
      [] state \in {"rowsize_wait", "resize", "dense"} -> 1
      [] state \in {"dense_wait", "sparse"}            -> 2
      [] OTHER                                         -> 3

\* The first exchange that color c has not sent for, and the first that it
\* has not done with owner o.
Clock(c)   == 3 * task[c] + Sent(pc[c])
Done(c, o) == IF o \in awaited[c] THEN Clock(c) - 1 ELSE Clock(c)

\* Owner o sends color c a message in exchange n.
Talks(o, c, n) == \E f \in ToSet(ListAt(n)) : c \in SharedUsers[f][o]

\* The exchanges that a message from o to c is under way for.
Due(o, c) == {n \in Done(c, o)..Clock(o) - 1 : Talks(o, c, n)}

-----------------------------------------------------------------------------
(* What the messages must say *)

\* v is the number of the last task before task k that mutates field f.
IsLatestSize(v, f, k) ==
    /\ v \in Nat
    /\ v < k
    /\ v # 0 => Mutates(prog[v], f)
    /\ \A j \in v + 1 .. k - 1 : ~Mutates(prog[j], f)

Newest(k, x, f) ==
    [version |-> IF x = "rowsize" THEN 0 ELSE CHOOSE v \in 0..NumTasks : IsLatest(prog, v, f, k),
     rows    |-> IF x = "dense"   THEN 0 ELSE CHOOSE v \in 0..NumTasks : IsLatestSize(v, f, k)]

\* Of the fields s of an exchange, those that o sends to c.
Between(s, o, c) == Selected(s, {j \in DOMAIN s : c \in SharedUsers[s[j]][o]})
\* The message of exchange n from o to c.
Proper(o, c, n) ==
    LET fields == Between(ListAt(n), o, c) IN
    [kind |-> KindOf(n), fields |-> fields,
     body |-> [j \in DOMAIN fields |-> Newest(TaskOf(n), KindOf(n), fields[j])]]

-----------------------------------------------------------------------------
(* The invariant *)

\* Every rank has the flags that the program gives it.
FlagsOK ==
    \A c \in Colors, f \in Fields :
        LET s == FlagsOf(prog)[task[c]] IN
        /\ readable[c][f] = (s.readable[f] \/ (pc[c] # "prolog" /\ ReadsGhost(prog[task[c]], f)))
        /\ resized[c][f] = IF pc[c] \in {"prolog", "rowsize", "rowsize_wait", "resize"}
                           THEN s.resized[f] ELSE Kept(prog[task[c]], f, s.resized[f])

\* ... and has collected the fields that the program calls for.
CollectedOK ==
    \A c \in Colors, x \in Exchanges :
        collected[c][x] = IF pc[c] = "prolog" THEN <<>> ELSE List(task[c], x)

\* A color awaits owners it shares a field of the exchange with.
AwaitedOK ==
    \A c \in Colors :
        /\ pc[c] \notin {"rowsize_wait", "dense_wait", "sparse_wait"} => awaited[c] = {}
        /\ \A x \in Exchanges : pc[c] = Waiting[x] => awaited[c] \subseteq Awaits(c, x)

\* Nobody has done an exchange with an owner that has yet to send for it.
NoneAhead ==
    \A o, c \in Colors : \A n \in Nat : Talks(o, c, n) /\ n < Done(c, o) => n < Clock(o)

\* The wires hold the messages that are due.
WireOK == wire = [o \in Colors |-> [c \in Colors |->
                     Selected([n \in Nat |-> Proper(o, c, n)], Due(o, c))]]

\* The shared entities and rows hold what the color's own tasks left there.
SharedOK ==
    \A c \in Colors, f \in Fields :
        LET k == IF pc[c] = "epilog" THEN task[c] + 1 ELSE task[c] IN
        IsLatest(prog, shared[c][f], f, k) /\ IsLatestSize(rows[c][f], f, k)

\* A message about field f from owner o is still to come to color c's task.
Pending(c, f, o, x) == f \in ToSet(collected[c][x]) /\ Done(c, o) <= Stamp(task[c], x)

\* Readable ghosts are up to date, or are going to be.
GhostOK ==
    \A c \in Colors, f \in Fields : \A o \in GhostOwners[f][c] :
        IF pc[c] = "epilog" /\ WritesGhost(prog[task[c]], f)
        THEN ghost[c][f][o] = task[c]
        ELSE readable[c][f] /\ ~Pending(c, f, o, "dense") /\ ~Pending(c, f, o, "sparse")
                => IsLatest(prog, ghost[c][f][o], f, task[c])

\* A field that was resized is ragged and unreadable, until a task names it.
ResizedOK ==
    \A c \in Colors, f \in Fields : resized[c][f] =>
        LET before == pc[c] \in {"rowsize", "rowsize_wait", "resize"}
            named  == Names(prog[task[c]], f)
        IN /\ f \in Ragged
           /\ readable[c][f] => before /\ named
           /\ before /\ named => f \in ToSet(collected[c]["rowsize"])
           /\ pc[c] # "prolog" /\ named => before

\* The sizes of a field that was not resized, or whose sizes have come, are
\* its owners'.
RowsOK ==
    \A c \in Colors, f \in Fields : \A o \in GhostOwners[f][c] :
        /\ \/ ~resized[c][f]
           \/ f \in ToSet(collected[c]["rowsize"]) /\ Done(c, o) > Stamp(task[c], "rowsize")
           => IsLatestSize(rowSizes[c][f][o], f, task[c])
        /\ ~resized[c][f] => IsLatestSize(ghostRows[c][f][o], f, task[c])

IInv ==
    /\ TypeOK /\ FlagsOK /\ CollectedOK /\ AwaitedOK /\ NoneAhead /\ WireOK
    /\ SharedOK /\ GhostOK /\ ResizedOK /\ RowsOK

-----------------------------------------------------------------------------
(* Selections *)

\* at lists the numbers of I in order.
Ordered(at, n, I) ==
    /\ at \in [1..n -> I]
    /\ \A j, l \in 1..n : j < l => at[j] < at[l]
    /\ \A i \in I : \E j \in 1..n : at[j] = i

\* The rank of a number tells it from the others, and takes every value.
LEMMA Ranks ==
    ASSUME NEW I \in SUBSET Nat, IsFiniteSet(I)
    PROVE  \E at : Ordered(at, Cardinality(I), I)
<1> DEFINE n == Cardinality(I)
           B(i) == {h \in I : h <= i}
           rank == [i \in I |-> Cardinality(B(i))]
           at == [j \in 1..n |-> CHOOSE i \in I : rank[i] = j]
<1>1. n \in Nat
  BY FS_CardinalityType
<1>2. ASSUME NEW i \in I
      PROVE  rank[i] \in 1..n
  <2>1. IsFiniteSet(B(i)) /\ Cardinality(B(i)) <= n
    BY FS_Subset
  <2>2. Cardinality(B(i)) \in Nat
    BY <2>1, FS_CardinalityType
  <2>3. Cardinality(B(i)) # 0
    BY <2>1, FS_EmptySet
  <2> QED BY <2>1, <2>2, <2>3, <1>1
<1>3. ASSUME NEW i \in I, NEW k \in I, i < k
      PROVE  rank[i] < rank[k]
  <2>1. IsFiniteSet(B(k)) /\ B(i) \in SUBSET B(k) /\ k \in B(k) /\ k \notin B(i)
    <3>1. i \in Nat /\ k \in Nat /\ \A h \in I : h \in Nat
      OBVIOUS
    <3>2. \A h \in B(i) : h \in I /\ h <= k
      BY <1>3, <3>1
    <3>3. k \in B(k) /\ k \notin B(i)
      BY <1>3, <3>1
    <3>4. B(k) \in SUBSET I /\ B(i) \in SUBSET B(k)
      BY <3>2
    <3> HIDE DEF B
    <3> QED BY <3>3, <3>4, FS_Subset
  <2>2. Cardinality(B(i)) <= Cardinality(B(k)) /\ Cardinality(B(i)) # Cardinality(B(k))
    <3> HIDE DEF B
    <3> QED BY <2>1, FS_Subset
  <2>3. rank[i] \in Nat /\ rank[k] \in Nat
    BY <1>1, <1>2
  <2> QED BY <2>2, <2>3
<1>4. rank \in [I -> 1..n]
  BY <1>2
<1>5. rank \in Injection(I, 1..n)
  <2>1. \A i, k \in I : rank[i] = rank[k] => i = k
    <3> SUFFICES ASSUME NEW i \in I, NEW k \in I, rank[i] = rank[k] PROVE i = k
      OBVIOUS
    <3>1. rank[i] \in Nat
      BY <1>1, <1>2
    <3> HIDE DEF rank
    <3> QED BY <1>3, <3>1
  <2> HIDE DEF rank
  <2> QED BY <1>4, <2>1 DEF Injection, IsInjective
<1>6. rank \in Surjection(I, 1..n)
  <2>1. IsFiniteSet(1..n) /\ Cardinality(1..n) = n
    BY <1>1, FS_Interval
  <2> HIDE DEF rank
  <2> QED BY <1>5, <2>1, FS_Injection
<1>7. \A j \in 1..n : at[j] \in I /\ rank[at[j]] = j
  <2> HIDE DEF rank
  <2> QED BY <1>6 DEF Surjection
<1>8. \A j, l \in 1..n : j < l => at[j] < at[l]
  <2> SUFFICES ASSUME NEW j \in 1..n, NEW l \in 1..n, j < l PROVE at[j] < at[l]
    OBVIOUS
  <2> HIDE DEF at, rank
  <2>1. at[j] \in I /\ at[l] \in I /\ rank[at[j]] = j /\ rank[at[l]] = l
    BY <1>7
  <2>2. at[j] \in Nat /\ at[l] \in Nat
    BY <2>1
  <2>3. ~(l < j) /\ l # j
    OBVIOUS
  <2>4. ~(at[l] < at[j]) /\ at[l] # at[j]
    BY <2>1, <2>3, <1>3
  <2> QED BY <2>2, <2>4
<1>9. \A i \in I : \E j \in 1..n : at[j] = i
  <2> SUFFICES ASSUME NEW i \in I PROVE at[rank[i]] = i
    BY <1>2
  <2>1. at[rank[i]] \in I /\ rank[at[rank[i]]] = rank[i]
    <3> HIDE DEF at, rank
    <3> QED BY <1>4, <1>7
  <2> HIDE DEF at, rank
  <2> QED BY <2>1, <1>5 DEF Injection, IsInjective
<1>10. at \in [1..n -> I]
  BY <1>7
<1> HIDE DEF at, rank
<1> QED
  BY <1>8, <1>9, <1>10 DEF Ordered

\* The numbers up to the j-th are j.
LEMMA RankOf ==
    ASSUME NEW n \in Nat, NEW I \in SUBSET Nat, NEW at, Ordered(at, n, I), NEW j \in 1..n
    PROVE  Cardinality({h \in I : h <= at[j]}) = j
<1> DEFINE B == {h \in I : h <= at[j]}
           f == [l \in 1..j |-> at[l]]
<1>1. f \in [1..j -> B]
  <2>1. ASSUME NEW l \in 1..j PROVE at[l] \in B
    <3>1. l \in 1..n /\ (l < j \/ l = j)
      OBVIOUS
    <3>2. at[l] \in I /\ at[j] \in I
      BY <3>1 DEF Ordered
    <3>3. at[l] \in Nat /\ at[j] \in Nat
      BY <3>2
    <3> QED BY <3>1, <3>2, <3>3 DEF Ordered
  <2> QED BY <2>1
<1>2. \A l, m \in 1..j : f[l] = f[m] => l = m
  <2> SUFFICES ASSUME NEW l \in 1..j, NEW m \in 1..j, at[l] = at[m] PROVE l = m
    OBVIOUS
  <2>1. l \in 1..n /\ m \in 1..n
    OBVIOUS
  <2>2. at[l] \in Nat
    BY <2>1 DEF Ordered
  <2> QED BY <2>1, <2>2 DEF Ordered
<1>3. \A h \in B : \E l \in 1..j : f[l] = h
  <2> SUFFICES ASSUME NEW h \in I, h <= at[j] PROVE \E l \in 1..j : at[l] = h
    OBVIOUS
  <2>1. PICK l \in 1..n : at[l] = h
    BY DEF Ordered
  <2>2. h \in Nat /\ at[j] \in Nat
    BY DEF Ordered
  <2>3. ~(j < l)
    BY <2>1, <2>2 DEF Ordered
  <2> QED BY <2>1, <2>3
<1>4. f \in Bijection(1..j, B)
  <2> HIDE DEF f, B
  <2> QED BY <1>1, <1>2, <1>3 DEF Bijection, Injection, IsInjective, Surjection
<1>5. ExistsBijection(1..j, B)
  BY <1>4 DEF ExistsBijection
<1> HIDE DEF B
<1>6. Cardinality(B) = j
  BY <1>5, FS_CountingElements
<1> QED
  BY <1>6 DEF B

\* What a selection is, and that it has no more than one form.
LEMMA SelectedIs ==
    ASSUME NEW n \in Nat, NEW I \in SUBSET Nat, NEW at, Ordered(at, n, I), NEW s
    PROVE  /\ IsFiniteSet(I) /\ Cardinality(I) = n
           /\ Selected(s, I) = [j \in 1..n |-> s[at[j]]]
           /\ DOMAIN Selected(s, I) = 1..n
           /\ \A j \in 1..n : Selected(s, I)[j] = s[at[j]]
<1>1. at \in Bijection(1..n, I)
  <2>1. \A l, m \in 1..n : at[l] = at[m] => l = m
    <3> SUFFICES ASSUME NEW l \in 1..n, NEW m \in 1..n, at[l] = at[m] PROVE l = m
      OBVIOUS
    <3>1. at[l] \in Nat
      BY DEF Ordered
    <3> QED BY <3>1 DEF Ordered
  <2> QED BY <2>1 DEF Bijection, Injection, IsInjective, Surjection, Ordered
<1>2. ExistsBijection(1..n, I)
  BY <1>1 DEF ExistsBijection
<1>3. Cardinality(I) = n
  BY <1>2, FS_CountingElements
<1>4. IsFiniteSet(I)
  BY <1>2, FS_NatBijection
<1>5. ASSUME NEW j \in 1..n
      PROVE  (CHOOSE i \in I : Cardinality({h \in I : h <= i}) = j) = at[j]
  <2>1. at[j] \in I /\ Cardinality({h \in I : h <= at[j]}) = j
    BY RankOf DEF Ordered
  <2>2. ASSUME NEW i \in I, Cardinality({h \in I : h <= i}) = j PROVE i = at[j]
    <3>1. PICK l \in 1..n : at[l] = i
      BY DEF Ordered
    <3>2. l = j
      BY <2>2, <3>1, RankOf
    <3> QED BY <3>1, <3>2
  <2> QED BY <2>1, <2>2
<1>6. Selected(s, I) = [j \in 1..n |-> s[CHOOSE i \in I : Cardinality({h \in I : h <= i}) = j]]
  BY <1>3 DEF Selected
<1> QED
  BY <1>3, <1>4, <1>5, <1>6

LEMMA SelectedAt ==
    ASSUME NEW n \in Nat, NEW I \in SUBSET Nat, NEW at, Ordered(at, n, I), NEW s, NEW j \in 1..n
    PROVE  Selected(s, I)[j] = s[at[j]]
<1>1. Selected(s, I) = [l \in 1..n |-> s[at[l]]]
  BY SelectedIs
<1> QED
  BY <1>1

\* A selection keeps what is selected, and nothing else.
LEMMA SelectedElements ==
    ASSUME NEW I \in SUBSET Nat, IsFiniteSet(I), NEW s
    PROVE  /\ \A S : (\A i \in I : s[i] \in S) => Selected(s, I) \in Seq(S)
           /\ \A e : e \in ToSet(Selected(s, I)) <=> \E i \in I : s[i] = e
           /\ Selected(s, I) = <<>> <=> I = {}
<1>1. PICK at : Ordered(at, Cardinality(I), I)
  BY Ranks
<1> DEFINE n == Cardinality(I)
<1>2. n \in Nat
  BY FS_CardinalityType
<1>3. Selected(s, I) = [j \in 1..n |-> s[at[j]]]
  BY <1>1, <1>2, SelectedIs
<1>4. \A j \in 1..n : at[j] \in I
  BY <1>1 DEF Ordered
<1>5. ASSUME NEW S, \A i \in I : s[i] \in S
      PROVE  Selected(s, I) \in Seq(S)
  <2> HIDE DEF n
  <2>1. [j \in 1..n |-> s[at[j]]] \in [1..n -> S]
    BY <1>4, <1>5
  <2> QED BY <1>2, <1>3, <2>1
<1>6. ASSUME NEW e
      PROVE  e \in ToSet(Selected(s, I)) <=> \E i \in I : s[i] = e
  <2>1. \A i \in I : \E j \in 1..n : at[j] = i
    BY <1>1 DEF Ordered
  <2>2. DOMAIN Selected(s, I) = 1..n /\ \A j \in 1..n : Selected(s, I)[j] = s[at[j]]
    BY <1>3
  <2> HIDE DEF n
  <2>3. e \in ToSet(Selected(s, I)) <=> \E j \in 1..n : s[at[j]] = e
    BY <2>2 DEF ToSet
  <2> QED BY <1>4, <2>1, <2>3
<1>7. Selected(s, I) = <<>> <=> n = 0
  <2> HIDE DEF n
  <2> QED BY <1>2, <1>3
<1>8. n = 0 <=> I = {}
  BY FS_EmptySet
<1> QED
  BY <1>5, <1>6, <1>7, <1>8

At(s, i) == s[i]
IsAbove(i, I) == \A h \in I : h < i
IsLeast(i, I) == i \in I /\ \A h \in I : i <= h

\* One more element, after all others, is appended.
LEMMA SelectedAppend ==
    ASSUME NEW I \in SUBSET Nat, IsFiniteSet(I), NEW s, NEW i \in Nat, IsAbove(i, I)
    PROVE  Selected(s, I \cup {i}) = Append(Selected(s, I), At(s, i))
<1>1. PICK at : Ordered(at, Cardinality(I), I)
  BY Ranks
<1>2. PICK n \in Nat : n = Cardinality(I)
  BY FS_CardinalityType
<1> DEFINE more == [j \in 1..n + 1 |-> IF j = n + 1 THEN i ELSE at[j]]
<1>3. Ordered(more, n + 1, I \cup {i})
  <2>1. \A j \in 1..n : at[j] \in I /\ at[j] < i
    BY <1>1, <1>2 DEF Ordered, IsAbove
  <2>2. more \in [1..n + 1 -> I \cup {i}]
    BY <2>1
  <2>3. \A j, l \in 1..n + 1 : j < l => more[j] < more[l]
    BY <1>1, <1>2, <2>1 DEF Ordered
  <2>4. \A h \in I \cup {i} : \E j \in 1..n + 1 : more[j] = h
    <3>1. more[n + 1] = i /\ n + 1 \in 1..n + 1
      OBVIOUS
    <3>2. \A j \in 1..n : more[j] = at[j] /\ j \in 1..n + 1
      OBVIOUS
    <3>3. \A h \in I : \E j \in 1..n : at[j] = h
      BY <1>1, <1>2 DEF Ordered
    <3> HIDE DEF more
    <3> QED BY <3>1, <3>2, <3>3
  <2> HIDE DEF more
  <2> QED BY <2>2, <2>3, <2>4 DEF Ordered
<1>4. Selected(s, I) = [j \in 1..n |-> s[at[j]]]
  BY <1>1, <1>2, SelectedIs
<1>5. Selected(s, I \cup {i}) = [j \in 1..n + 1 |-> s[more[j]]]
  <2>1. n + 1 \in Nat /\ I \cup {i} \in SUBSET Nat
    OBVIOUS
  <2>2. DOMAIN Selected(s, I \cup {i}) = 1..n + 1
    <3> HIDE DEF more
    <3> QED BY <1>3, <2>1, SelectedIs
  <2>3. \A j \in 1..n + 1 : Selected(s, I \cup {i})[j] = s[more[j]]
    <3> HIDE DEF more
    <3> QED BY <1>3, <2>1, SelectedIs
  <2>4. Selected(s, I \cup {i}) = [j \in 1..n + 1 |-> Selected(s, I \cup {i})[j]]
    BY <2>2 DEF Selected
  <2> HIDE DEF more
  <2> QED BY <2>3, <2>4
<1> DEFINE first == [j \in 1..n |-> s[at[j]]]
<1>6. first \in Seq({s[at[j]] : j \in 1..n}) /\ Len(first) = n
  OBVIOUS
<1>7. Append(first, s[i]) = [j \in 1..n + 1 |-> s[more[j]]]
  <2>1. Append(first, s[i]) = [j \in 1..n + 1 |-> IF j = n + 1 THEN s[i] ELSE first[j]]
    <3> HIDE DEF first
    <3> QED BY <1>6
  <2>2. \A j \in 1..n + 1 : (IF j = n + 1 THEN s[i] ELSE first[j]) = s[more[j]]
    OBVIOUS
  <2> QED BY <2>1, <2>2
<1> QED
  BY <1>4, <1>5, <1>7 DEF At

\* The least element comes first, and the others are the rest.
LEMMA SelectedHead ==
    ASSUME NEW I \in SUBSET Nat, IsFiniteSet(I), NEW s, NEW i, IsLeast(i, I)
    PROVE  /\ Selected(s, I) # <<>>
           /\ Head(Selected(s, I)) = At(s, i)
           /\ Tail(Selected(s, I)) = Selected(s, I \ {i})
<1> USE DEF IsLeast
<1>1. PICK at : Ordered(at, Cardinality(I), I)
  BY Ranks
<1>2. PICK n \in Nat : n = Cardinality(I)
  BY FS_CardinalityType
<1>3. n # 0
  BY <1>2, FS_EmptySet
<1>4. at[1] = i
  <2>1. PICK j \in 1..n : at[j] = i
    BY <1>1, <1>2 DEF Ordered
  <2>2. at[1] \in I /\ 1 \in 1..n
    BY <1>1, <1>2, <1>3 DEF Ordered
  <2>3. at[1] \in Nat /\ at[j] \in Nat /\ at[j] <= at[1]
    BY <2>1, <2>2
  <2>4. ~(1 < j)
    BY <1>1, <1>2, <2>2, <2>3 DEF Ordered
  <2> QED BY <2>1, <2>4
<1> DEFINE rest == [j \in 1..n - 1 |-> at[j + 1]]
<1>5. Ordered(rest, n - 1, I \ {i})
  <2>1. \A j \in 1..n - 1 : j + 1 \in 1..n /\ 1 < j + 1 /\ 1 \in 1..n
    OBVIOUS
  <2>2. \A j \in 1..n - 1 : at[j + 1] \in I /\ at[j + 1] # i
    <3> SUFFICES ASSUME NEW j \in 1..n - 1 PROVE at[j + 1] \in I /\ at[j + 1] # i
      OBVIOUS
    <3>1. at[1] < at[j + 1] /\ at[j + 1] \in I
      BY <1>1, <1>2, <2>1 DEF Ordered
    <3>2. at[1] \in Nat
      BY <1>4
    <3> QED BY <1>4, <3>1, <3>2
  <2>3. rest \in [1..n - 1 -> I \ {i}]
    BY <2>2
  <2>4. \A j, l \in 1..n - 1 : j < l => rest[j] < rest[l]
    <3> SUFFICES ASSUME NEW j \in 1..n - 1, NEW l \in 1..n - 1, j < l
                 PROVE  at[j + 1] < at[l + 1]
      OBVIOUS
    <3>1. j + 1 < l + 1
      OBVIOUS
    <3> QED BY <1>1, <1>2, <2>1, <3>1 DEF Ordered
  <2>5. \A h \in I \ {i} : \E j \in 1..n - 1 : rest[j] = h
    <3> SUFFICES ASSUME NEW h \in I, h # i PROVE \E j \in 1..n - 1 : rest[j] = h
      OBVIOUS
    <3>1. PICK j \in 1..n : at[j] = h
      BY <1>1, <1>2 DEF Ordered
    <3>2. j # 1
      BY <1>4, <3>1
    <3>3. j - 1 \in 1..n - 1 /\ (j - 1) + 1 = j
      BY <3>2
    <3>4. rest[j - 1] = h
      BY <3>1, <3>3
    <3> HIDE DEF rest
    <3> QED BY <3>3, <3>4
  <2> HIDE DEF rest
  <2> QED BY <2>3, <2>4, <2>5 DEF Ordered
<1> DEFINE all == [j \in 1..n |-> s[at[j]]]
<1>6. Selected(s, I) = all
  BY <1>1, <1>2, SelectedIs
<1>7. Selected(s, I \ {i}) = [j \in 1..n - 1 |-> s[rest[j]]]
  <2>1. n - 1 \in Nat /\ I \ {i} \in SUBSET Nat
    BY <1>3
  <2>2. DOMAIN Selected(s, I \ {i}) = 1..n - 1
    <3> HIDE DEF rest
    <3> QED BY <1>5, <2>1, SelectedIs
  <2>3. \A j \in 1..n - 1 : Selected(s, I \ {i})[j] = s[rest[j]]
    <3> HIDE DEF rest
    <3> QED BY <1>5, <2>1, SelectedAt
  <2>4. Selected(s, I \ {i}) = [j \in 1..n - 1 |-> Selected(s, I \ {i})[j]]
    BY <2>2 DEF Selected
  <2> HIDE DEF rest
  <2> QED BY <2>3, <2>4
<1>8. all \in Seq({s[at[j]] : j \in 1..n}) /\ Len(all) = n /\ all[1] = s[at[1]]
  BY <1>3
<1>9. all # <<>> /\ Head(all) = s[i]
  <2> HIDE DEF all
  <2> QED BY <1>3, <1>4, <1>8
<1>10. Tail(all) = [j \in 1..n - 1 |-> s[rest[j]]]
  <2>1. Tail(all) = [j \in 1..n - 1 |-> all[j + 1]]
    <3> DEFINE S == {s[at[j]] : j \in 1..n}
    <3>1. all \in Seq(S) /\ Len(all) = n /\ all # <<>>
      BY <1>8, <1>9
    <3> HIDE DEF all, S
    <3>2. /\ Tail(all) \in Seq(S) /\ Len(Tail(all)) = n - 1
          /\ \A j \in 1..n - 1 : Tail(all)[j] = all[j + 1]
      BY <3>1, HeadTailProperties
    <3>3. Tail(all) = [j \in 1..n - 1 |-> Tail(all)[j]]
      BY <3>2, LenProperties
    <3> QED BY <3>2, <3>3
  <2>2. \A j \in 1..n - 1 : all[j + 1] = s[rest[j]]
    OBVIOUS
  <2> QED BY <2>1, <2>2
<1> QED
  BY <1>6, <1>7, <1>9, <1>10 DEF At

-----------------------------------------------------------------------------
(* The program *)

\* Each task of a program is a sequence of arguments, whose mutators are of
\* ragged fields.
LEMMA TaskFacts ==
    ASSUME prog \in Programs, NEW k \in 1..NumTasks
    PROVE  /\ prog[k] \in Tasks
           /\ Len(prog[k]) \in Nat /\ DOMAIN prog[k] = 1..Len(prog[k])
           /\ \A i \in DOMAIN prog[k] :
                  /\ prog[k][i].field \in Fields
                  /\ prog[k][i].kind \in {"accessor", "mutator"}
                  /\ prog[k][i].kind = "mutator" =>
                         /\ prog[k][i].field \in Ragged
                         /\ prog[k][i].sp = "rw" /\ prog[k][i].gp = "ro"
           /\ \A f \in Fields : WritesGhost(prog[k], f) => WritesShared(prog[k], f)
<1>1. prog[k] \in Tasks
  BY DEF Programs
<1>2. prog[k] \in Seq(Arguments)
  BY <1>1, TasksAssumption
<1>3. \A i \in DOMAIN prog[k] : prog[k][i] \in Arguments
  BY <1>2
<1>4. \A a \in Arguments :
          /\ a.field \in Fields
          /\ a.kind \in {"accessor", "mutator"}
          /\ a.kind = "mutator" => a.sp = "rw" /\ a.gp = "ro"
  BY DEF Arguments, Accessors, Mutators
<1>5. Len(prog[k]) \in Nat /\ DOMAIN prog[k] = 1..Len(prog[k])
  BY <1>2
<1>6. \A i \in DOMAIN prog[k] : prog[k][i].kind = "mutator" => prog[k][i].field \in Ragged
  BY <1>1, RaggedAssumption
<1>7. \A f \in Fields : WritesGhost(prog[k], f) => WritesShared(prog[k], f)
  BY <1>1, TasksAssumption
<1> QED
  BY <1>1, <1>3, <1>4, <1>5, <1>6, <1>7

\* h gives the flags before the first n + 1 tasks of p.
History(p, n, h) ==
    h = [k \in 1..n + 1 |->
            IF k = 1 THEN FirstFlags ELSE FlagsThen(p[k - 1], h[k - 1])]

\* The flags before a program's tasks exist, whatever the program's length.
LEMMA HistoryExists ==
    ASSUME NEW p
    PROVE  \A n \in Nat : \E h : History(p, n, h)
<1> DEFINE S == {n \in Nat : ~\E h : History(p, n, h)}
<1>1. SUFFICES ASSUME S # {} PROVE FALSE
  OBVIOUS
<1>2. S \subseteq Nat
  OBVIOUS
<1>3. \E n \in S : \A m \in S : ~(<<m, n>> \in OpToRel(<, Nat))
  <2> HIDE DEF S
  <2> QED BY <1>1, <1>2, NatLessThanWellFounded, WFMin
<1>4. PICK n \in S : \A m \in S : ~(m < n)
  BY <1>2, <1>3 DEF OpToRel
<1>5. n # 0
  <2> DEFINE h == [k \in 1..0 + 1 |-> FirstFlags]
  <2>1. History(p, 0, h)
    BY DEF History
  <2> QED BY <2>1
<1>6. n - 1 \in Nat /\ n - 1 \notin S
  BY <1>4, <1>5
<1>7. PICK h : History(p, n - 1, h)
  BY <1>6
<1> DEFINE g == [k \in 1..n + 1 |-> IF k <= n THEN h[k] ELSE FlagsThen(p[k - 1], h[k - 1])]
<1>8. History(p, n, g)
  <2>1. n \in Nat /\ (n - 1) + 1 = n
    OBVIOUS
  <2>2. h = [k \in 1..n |-> IF k = 1 THEN FirstFlags ELSE FlagsThen(p[k - 1], h[k - 1])]
    BY <1>7, <2>1 DEF History
  <2>3. \A k \in 1..n + 1 :
            g[k] = IF k = 1 THEN FirstFlags ELSE FlagsThen(p[k - 1], g[k - 1])
    BY <1>5, <2>1, <2>2
  <2> QED BY <2>3 DEF History
<1> QED
  BY <1>4, <1>8

\* The recursion that defines the flags.
LEMMA FlagsOfIs ==
    ASSUME NEW p
    PROVE  /\ FlagsOf(p)[1] = FirstFlags
           /\ \A k \in 1..NumTasks : FlagsOf(p)[k + 1] = FlagsThen(p[k], FlagsOf(p)[k])
<1>1. FlagsOf(p) = CHOOSE h : History(p, NumTasks, h)
  BY DEF FlagsOf, History
<1>2. History(p, NumTasks, FlagsOf(p))
  BY <1>1, HistoryExists, TasksAssumption
<1> QED
  BY <1>2, TasksAssumption DEF History

\* The fields of some arguments of a task.
LEMMA FieldsAtIs ==
    ASSUME prog \in Programs, NEW k \in 1..NumTasks, NEW I \in SUBSET DOMAIN prog[k]
    PROVE  /\ FieldsAt(prog[k], I) \in Seq(Fields)
           /\ \A f : f \in ToSet(FieldsAt(prog[k], I)) <=> \E i \in I : prog[k][i].field = f
<1> DEFINE t == prog[k]
           fields == [i \in DOMAIN t |-> t[i].field]
<1>1. Len(t) \in Nat /\ DOMAIN t = 1..Len(t) /\ \A i \in DOMAIN t : t[i].field \in Fields
  BY TaskFacts
<1>2. I \in SUBSET Nat /\ IsFiniteSet(I)
  <2>1. IsFiniteSet(1..Len(t))
    BY <1>1, FS_Interval
  <2> QED BY <1>1, <2>1, FS_Subset
<1>3. FieldsAt(t, I) = Selected(fields, I)
  BY DEF FieldsAt
<1>4. \A i \in I : fields[i] \in Fields /\ fields[i] = t[i].field
  BY <1>1
<1> HIDE DEF fields
<1>5. FieldsAt(t, I) \in Seq(Fields)
  BY <1>2, <1>3, <1>4, SelectedElements
<1>6. \A f : f \in ToSet(FieldsAt(t, I)) <=> \E i \in I : fields[i] = f
  BY <1>2, <1>3, SelectedElements
<1> QED
  BY <1>4, <1>5, <1>6

LEMMA ListTypes ==
    ASSUME prog \in Programs, NEW k \in 1..NumTasks, NEW x \in Exchanges
    PROVE  List(k, x) \in Seq(Fields)
<1> DEFINE t == prog[k]
           s == FlagsOf(prog)[k]
           unread  == {i \in DOMAIN t : ~s.readable[t[i].field] /\ Unfetched(t, i)}
           ragged  == {i \in DOMAIN t : t[i].field \in Ragged}
           wanted  == {i \in unread : Wants(t, i)}
           resizes == {i \in unread : s.resized[t[i].field]}
<1>1. /\ List(k, "rowsize") = FieldsAt(t, resizes \cap ragged)
      /\ List(k, "dense") = FieldsAt(t, wanted \ ragged)
      /\ List(k, "sparse") = FieldsAt(t, wanted \cap ragged)
  BY DEF List, ListFor
<1>2. /\ resizes \cap ragged \in SUBSET DOMAIN t
      /\ wanted \ ragged \in SUBSET DOMAIN t
      /\ wanted \cap ragged \in SUBSET DOMAIN t
  OBVIOUS
<1> HIDE DEF resizes, wanted, ragged
<1>3. /\ FieldsAt(t, resizes \cap ragged) \in Seq(Fields)
      /\ FieldsAt(t, wanted \ ragged) \in Seq(Fields)
      /\ FieldsAt(t, wanted \cap ragged) \in Seq(Fields)
  BY <1>2, FieldsAtIs
<1> HIDE DEF t
<1> QED
  BY <1>1, <1>3 DEF Exchanges

\* What a task exchanges.
LEMMA ListIs ==
    ASSUME prog \in Programs, NEW k \in 1..NumTasks, NEW f \in Fields
    PROVE  LET t == prog[k]
               s == FlagsOf(prog)[k]
               Unread(i) == t[i].field = f /\ ~s.readable[f] /\ Unfetched(t, i)
           IN /\ f \in ToSet(List(k, "rowsize")) <=>
                     f \in Ragged /\ s.resized[f] /\ \E i \in DOMAIN t : Unread(i)
              /\ f \in ToSet(List(k, "dense")) <=>
                     f \notin Ragged /\ \E i \in DOMAIN t : Unread(i) /\ Wants(t, i)
              /\ f \in ToSet(List(k, "sparse")) <=>
                     f \in Ragged /\ \E i \in DOMAIN t : Unread(i) /\ Wants(t, i)
<1> DEFINE t == prog[k]
           s == FlagsOf(prog)[k]
           unread  == {i \in DOMAIN t : ~s.readable[t[i].field] /\ Unfetched(t, i)}
           ragged  == {i \in DOMAIN t : t[i].field \in Ragged}
           wanted  == {i \in unread : Wants(t, i)}
           resizes == {i \in unread : s.resized[t[i].field]}
<1>1. /\ List(k, "rowsize") = FieldsAt(t, resizes \cap ragged)
      /\ List(k, "dense") = FieldsAt(t, wanted \ ragged)
      /\ List(k, "sparse") = FieldsAt(t, wanted \cap ragged)
  BY DEF List, ListFor
<1>2. /\ resizes \cap ragged \in SUBSET DOMAIN t
      /\ wanted \ ragged \in SUBSET DOMAIN t
      /\ wanted \cap ragged \in SUBSET DOMAIN t
  OBVIOUS
<1>3. f \in ToSet(List(k, "rowsize")) <=> \E i \in resizes \cap ragged : t[i].field = f
  <2> HIDE DEF resizes, wanted, ragged
  <2> QED BY <1>1, <1>2, FieldsAtIs
<1>4. f \in ToSet(List(k, "dense")) <=> \E i \in wanted \ ragged : t[i].field = f
  <2> HIDE DEF resizes, wanted, ragged
  <2> QED BY <1>1, <1>2, FieldsAtIs
<1>5. f \in ToSet(List(k, "sparse")) <=> \E i \in wanted \cap ragged : t[i].field = f
  <2> HIDE DEF resizes, wanted, ragged
  <2> QED BY <1>1, <1>2, FieldsAtIs
<1> HIDE DEF t, s
<1> QED
  BY <1>3, <1>4, <1>5 DEF t, s

\* The numbers of the exchanges.
LEMMA StampIs ==
    ASSUME NEW k \in Nat, NEW x \in Exchanges
    PROVE  /\ Stamp(k, x) \in Nat /\ Stamp(k, x) \in 3 * k..3 * k + 2
           /\ TaskOf(Stamp(k, x)) = k
           /\ KindOf(Stamp(k, x)) = x
           /\ ListAt(Stamp(k, x)) = List(k, x)
<1>1. \A r \in 0..2 : (3 * k + r) \div 3 = k /\ (3 * k + r) % 3 = r
  BY SMT
<1>2. \/ x = "rowsize" /\ Number[x] = 0
      \/ x = "dense" /\ Number[x] = 1
      \/ x = "sparse" /\ Number[x] = 2
  BY DEF Exchanges, Number
<1>3. Stamp(k, x) = 3 * k + Number[x] /\ Number[x] \in 0..2
  BY <1>2 DEF Stamp
<1>4. TaskOf(Stamp(k, x)) = k
  BY <1>1, <1>3 DEF TaskOf
<1>5. Stamp(k, x) % 3 = Number[x]
  BY <1>1, <1>3
<1>6. KindOf(Stamp(k, x)) = x
  BY <1>2, <1>5 DEF KindOf
<1> QED
  BY <1>3, <1>4, <1>6 DEF ListAt

\* Everything that is computed from the program stays.
LEMMA SameProgram ==
    ASSUME prog' = prog
    PROVE  /\ FlagsOf(prog)' = FlagsOf(prog)
           /\ \A k, x : List(k, x)' = List(k, x)
           /\ \A n : ListAt(n)' = ListAt(n)
           /\ \A o, c, n : Talks(o, c, n)' = Talks(o, c, n)
           /\ \A o, c, n : Proper(o, c, n)' = Proper(o, c, n)
           /\ \A v, f, k : IsLatestSize(v, f, k)' = IsLatestSize(v, f, k)
<1>1. FlagsOf(prog)' = FlagsOf(prog)
  OBVIOUS
<1>2. \A k, x : List(k, x)' = List(k, x)
  BY <1>1 DEF List
<1>3. \A n : ListAt(n)' = ListAt(n)
  BY <1>2 DEF ListAt
<1>4. \A o, c, n : Talks(o, c, n)' = Talks(o, c, n)
  BY <1>3 DEF Talks
<1>5. \A k, x, f : Newest(k, x, f)' = Newest(k, x, f)
  BY DEF Newest, IsLatestSize
<1>6. \A o, c, n : Proper(o, c, n)' = Proper(o, c, n)
  BY <1>3, <1>5 DEF Proper
<1>7. \A v, f, k : IsLatestSize(v, f, k)' = IsLatestSize(v, f, k)
  BY DEF IsLatestSize
<1> QED
  BY <1>1, <1>2, <1>3, <1>4, <1>6, <1>7

\* A nonempty set of numbers up to a bound has a greatest.
LEMMA GreatestExists ==
    ASSUME NEW n \in Nat, NEW S, S \subseteq 1..n, S # {}
    PROVE  \E m \in S : \A x \in S : x <= m
<1> DEFINE T == {y \in 0..n : n - y \in S}
<1>1. \A x \in S : x \in Int /\ n - x \in T
  OBVIOUS
<1>2. T \subseteq Nat /\ T # {}
  <2>1. T \subseteq Nat
    OBVIOUS
  <2> HIDE DEF T
  <2> QED BY <1>1, <2>1
<1>3. \E y \in T : \A z \in T : ~(<<z, y>> \in OpToRel(<, Nat))
  <2> HIDE DEF T
  <2> QED BY <1>2, NatLessThanWellFounded, WFMin
<1>4. PICK y \in T : \A z \in T : ~(<<z, y>> \in OpToRel(<, Nat))
  BY <1>3
<1>5. \A z \in T : ~(z < y)
  BY <1>2, <1>4 DEF OpToRel
<1>6. n - y \in S /\ y \in Int
  OBVIOUS
<1>7. \A x \in S : x <= n - y
  <2> SUFFICES ASSUME NEW x \in S PROVE x <= n - y
    OBVIOUS
  <2>1. n - x \in T /\ x \in Int
    BY <1>1
  <2>2. ~(n - x < y)
    BY <1>5, <2>1
  <2> QED BY <2>1, <2>2, <1>6
<1> QED
  BY <1>6, <1>7

\* Each task has a last writer and a last mutator before it, and only one.
LEMMA NewestIs ==
    ASSUME NEW k \in 1..NumTasks + 1, NEW f
    PROVE  /\ \E v \in 0..NumTasks : IsLatest(prog, v, f, k)
           /\ \E v \in 0..NumTasks : IsLatestSize(v, f, k)
           /\ \A v, w : IsLatest(prog, v, f, k) /\ IsLatest(prog, w, f, k) => v = w
           /\ \A v, w : IsLatestSize(v, f, k) /\ IsLatestSize(w, f, k) => v = w
<1>1. k \in Nat /\ k - 1 \in Nat /\ k - 1 <= NumTasks
  BY TasksAssumption
<1>2. \E v \in 0..NumTasks : IsLatest(prog, v, f, k)
  <2> DEFINE S == {v \in 1..k - 1 : WritesShared(prog[v], f)}
  <2>1. CASE S = {}
    <3>1. IsLatest(prog, 0, f, k)
      BY <1>1, <2>1 DEF IsLatest
    <3> QED BY <3>1, TasksAssumption
  <2>2. CASE S # {}
    <3>1. S \subseteq 1..k - 1
      OBVIOUS
    <3>2. PICK m \in S : \A v \in S : v <= m
      <4> HIDE DEF S
      <4> QED BY <1>1, <2>2, <3>1, GreatestExists
    <3>3. m \in 1..k - 1 /\ WritesShared(prog[m], f)
      OBVIOUS
    <3>4. \A j \in m + 1..k - 1 : j \in 1..k - 1 /\ ~(j <= m)
      BY <1>1, <3>3
    <3>5. IsLatest(prog, m, f, k)
      BY <1>1, <3>2, <3>3, <3>4 DEF IsLatest
    <3> QED BY <1>1, <3>3, <3>5, TasksAssumption
  <2> QED BY <2>1, <2>2
<1>3. \E v \in 0..NumTasks : IsLatestSize(v, f, k)
  <2> DEFINE S == {v \in 1..k - 1 : Mutates(prog[v], f)}
  <2>1. CASE S = {}
    <3>1. IsLatestSize(0, f, k)
      BY <1>1, <2>1 DEF IsLatestSize
    <3> QED BY <3>1, TasksAssumption
  <2>2. CASE S # {}
    <3>1. S \subseteq 1..k - 1
      OBVIOUS
    <3>2. PICK m \in S : \A v \in S : v <= m
      <4> HIDE DEF S
      <4> QED BY <1>1, <2>2, <3>1, GreatestExists
    <3>3. m \in 1..k - 1 /\ Mutates(prog[m], f)
      OBVIOUS
    <3>4. \A j \in m + 1..k - 1 : j \in 1..k - 1 /\ ~(j <= m)
      BY <1>1, <3>3
    <3>5. IsLatestSize(m, f, k)
      BY <1>1, <3>2, <3>3, <3>4 DEF IsLatestSize
    <3> QED BY <1>1, <3>3, <3>5, TasksAssumption
  <2> QED BY <2>1, <2>2
<1>4. \A v, w : IsLatest(prog, v, f, k) /\ IsLatest(prog, w, f, k) => v = w
  BY <1>1 DEF IsLatest
<1>5. \A v, w : IsLatestSize(v, f, k) /\ IsLatestSize(w, f, k) => v = w
  BY <1>1 DEF IsLatestSize
<1> QED
  BY <1>2, <1>3, <1>4, <1>5

\* A version stays the latest over a task that does not write.
LEMMA StaysLatest ==
    ASSUME NEW k \in Nat, NEW f, NEW v
    PROVE  /\ ~WritesShared(prog[k], f) /\ IsLatest(prog, v, f, k)
                  => IsLatest(prog, v, f, k + 1)
           /\ ~Mutates(prog[k], f) /\ IsLatestSize(v, f, k) => IsLatestSize(v, f, k + 1)
           /\ WritesShared(prog[k], f) => IsLatest(prog, k, f, k + 1)
           /\ Mutates(prog[k], f) => IsLatestSize(k, f, k + 1)
<1>1. \A w \in Nat : \A j \in w + 1..(k + 1) - 1 : w < k => j = k \/ j \in w + 1..k - 1
  OBVIOUS
<1>2. \A j \in k + 1..(k + 1) - 1 : FALSE
  OBVIOUS
<1> QED
  BY <1>1, <1>2 DEF IsLatest, IsLatestSize

\* What a message says is the latest.
LEMMA NewestSays ==
    ASSUME NEW k \in 1..NumTasks + 1, NEW f, NEW x
    PROVE  /\ x # "rowsize" => /\ Newest(k, x, f).version \in Nat
                               /\ IsLatest(prog, Newest(k, x, f).version, f, k)
           /\ x # "dense" => /\ Newest(k, x, f).rows \in Nat
                             /\ IsLatestSize(Newest(k, x, f).rows, f, k)
<1>1. IsLatest(prog, CHOOSE v \in 0..NumTasks : IsLatest(prog, v, f, k), f, k)
  BY NewestIs
<1>2. IsLatestSize(CHOOSE v \in 0..NumTasks : IsLatestSize(v, f, k), f, k)
  BY NewestIs
<1> QED
  BY <1>1, <1>2 DEF Newest, IsLatest, IsLatestSize

-----------------------------------------------------------------------------
(* The steps of a color *)

Move(c) == Step(c) \/ \E x \in Exchanges : Buffered(c, x)

LEMMA Moves ==
    ASSUME NEW c \in Colors, Move(c)
    PROVE  \/ Prolog(c) \/ Resize(c) \/ Execute(c) \/ Epilog(c)
           \/ \E x \in Exchanges :
                  \/ NoExchange(c, x) \/ Send(c, x) \/ EndExchange(c, x)
                  \/ \E o \in Colors : Receive(c, o, x)
  BY DEF Move, Step, WaitSends, Buffered

\* Nothing moves the program.
LEMMA ProgramStays ==
    ASSUME NEW c \in Colors, Move(c)
    PROVE  prog' = prog
<1> USE Moves
<1> QED
  BY DEF Prolog, Resize, Execute, Epilog, NoExchange, Send, EndExchange, Receive

\* A step of one color moves no other.
LEMMA OthersStay ==
    ASSUME TypeOK, NEW c \in Colors, Move(c), NEW d \in Colors, d # c
    PROVE  /\ task'[d] = task[d] /\ pc'[d] = pc[d]
           /\ shared'[d] = shared[d] /\ rows'[d] = rows[d]
           /\ ghost'[d] = ghost[d] /\ ghostRows'[d] = ghostRows[d] /\ rowSizes'[d] = rowSizes[d]
           /\ readable'[d] = readable[d] /\ resized'[d] = resized[d]
           /\ collected'[d] = collected[d] /\ awaited'[d] = awaited[d]
<1> USE DEF TypeOK, Goto, data, sizes, flags
<1>1. CASE Prolog(c)
  BY <1>1 DEF Prolog
<1>2. CASE Resize(c)
  BY <1>2 DEF Resize
<1>3. CASE Execute(c)
  BY <1>3 DEF Execute
<1>4. CASE Epilog(c)
  BY <1>4 DEF Epilog
<1>5. ASSUME NEW x \in Exchanges, NoExchange(c, x)
      PROVE  UNCHANGED <<task, data, sizes, flags, collected, awaited>> /\ pc'[d] = pc[d]
  BY <1>5 DEF NoExchange
<1>6. ASSUME NEW x \in Exchanges, EndExchange(c, x)
      PROVE  UNCHANGED <<task, data, sizes, flags, collected, awaited>> /\ pc'[d] = pc[d]
  BY <1>6 DEF EndExchange
<1>7. ASSUME NEW x \in Exchanges, Send(c, x)
      PROVE  /\ UNCHANGED <<task, data, sizes, flags, collected>>
             /\ pc'[d] = pc[d] /\ awaited'[d] = awaited[d]
  BY <1>7 DEF Send
<1>8. ASSUME NEW x \in Exchanges, NEW o \in Colors, Receive(c, o, x)
      PROVE  /\ UNCHANGED <<task, pc, shared, rows, ghostRows, flags, collected>>
             /\ awaited'[d] = awaited[d]
             /\ ghost'[d] = ghost[d] /\ rowSizes'[d] = rowSizes[d]
  <2>1. CASE x = "rowsize"
    BY <1>8, <2>1 DEF Receive
  <2>2. CASE x # "rowsize"
    BY <1>8, <2>2 DEF Receive
  <2> QED BY <2>1, <2>2
<1> QED
  BY <1>1, <1>2, <1>3, <1>4, <1>5, <1>6, <1>7, <1>8, Moves

\* Where a color is, and what it has sent.
LEMMA Places ==
    ASSUME TypeOK, NEW c \in Colors
    PROVE  /\ task[c] \in Nat /\ task[c] \in 1..NumTasks + 1
           /\ Sent(pc[c]) \in 0..3 /\ Clock(c) \in Nat
           /\ \A o \in Colors : Done(c, o) \in Int
<1>1. task[c] \in Nat /\ task[c] \in 1..NumTasks + 1
  BY TasksAssumption DEF TypeOK
<1>2. Sent(pc[c]) \in 0..3
  BY DEF Sent
<1>3. Clock(c) \in Nat
  BY <1>1, <1>2 DEF Clock
<1> QED
  BY <1>1, <1>2, <1>3 DEF Done

\* The clock at the places of an exchange.
LEMMA Clocks ==
    ASSUME TypeOK, NEW c \in Colors, NEW x \in Exchanges
    PROVE  /\ pc[c] = x => Sent(pc[c]) = Number[x] /\ Clock(c) = Stamp(task[c], x)
           /\ pc[c] = Waiting[x] => Sent(pc[c]) = Number[x] + 1 /\ Clock(c) = Stamp(task[c], x) + 1
           /\ Sent(After[x]) = Number[x] + 1 /\ Sent(Waiting[x]) = Number[x] + 1
           /\ Number[x] \in 0..2
           /\ pc[c] = x => pc[c] # "prolog" /\ pc[c] \notin {"rowsize_wait", "dense_wait", "sparse_wait"}
           /\ pc[c] = Waiting[x] => pc[c] # "prolog"
           /\ After[x] \in States /\ Waiting[x] \in States
           /\ After[x] # "prolog" /\ Waiting[x] # "prolog"
           /\ After[x] # "epilog" /\ Waiting[x] # "epilog"
           /\ After[x] \notin {"rowsize_wait", "dense_wait", "sparse_wait"}
           /\ Waiting[x] \in {"rowsize_wait", "dense_wait", "sparse_wait"}
<1>1. \/ x = "rowsize" /\ Number[x] = 0 /\ Waiting[x] = "rowsize_wait" /\ After[x] = "resize"
      \/ x = "dense" /\ Number[x] = 1 /\ Waiting[x] = "dense_wait" /\ After[x] = "sparse"
      \/ x = "sparse" /\ Number[x] = 2 /\ Waiting[x] = "sparse_wait" /\ After[x] = "user"
  BY DEF Exchanges, Number, Waiting, After
<1>2. task[c] \in Nat
  BY Places
<1>3. /\ pc[c] = x => Sent(pc[c]) = Number[x]
      /\ pc[c] = Waiting[x] => Sent(pc[c]) = Number[x] + 1
      /\ Sent(After[x]) = Number[x] + 1 /\ Sent(Waiting[x]) = Number[x] + 1
  BY <1>1 DEF Sent
<1>4. Clock(c) = 3 * task[c] + Sent(pc[c]) /\ Stamp(task[c], x) = 3 * task[c] + Number[x]
  BY DEF Clock, Stamp
<1>5. Number[x] \in 0..2
  BY <1>1
<1>6. pc[c] = Waiting[x] => Clock(c) = Stamp(task[c], x) + 1
  BY <1>2, <1>3, <1>4, <1>5
<1>7. pc[c] = x => Clock(c) = Stamp(task[c], x)
  BY <1>3, <1>4
<1>8. /\ After[x] \in States /\ Waiting[x] \in States
      /\ After[x] # "prolog" /\ Waiting[x] # "prolog"
      /\ After[x] # "epilog" /\ Waiting[x] # "epilog"
      /\ After[x] \notin {"rowsize_wait", "dense_wait", "sparse_wait"}
      /\ Waiting[x] \in {"rowsize_wait", "dense_wait", "sparse_wait"}
      /\ x # "prolog" /\ x \notin {"rowsize_wait", "dense_wait", "sparse_wait"}
  BY <1>1 DEF States
<1> QED
  BY <1>3, <1>5, <1>6, <1>7, <1>8

\* What is due is a finite set of numbers.
LEMMA DueIs ==
    ASSUME TypeOK, NEW o \in Colors, NEW c \in Colors
    PROVE  Due(o, c) \in SUBSET Nat /\ IsFiniteSet(Due(o, c))
<1>1. task[c] \in Nat /\ task[c] >= 1 /\ Sent(pc[c]) \in 0..3 /\ Clock(o) \in Nat
  BY Places
<1>2. Clock(c) - 1 \in Nat /\ Clock(c) \in Nat
  BY <1>1 DEF Clock
<1>3. Done(c, o) \in Nat
  BY <1>2 DEF Done
<1>4. Due(o, c) \subseteq Done(c, o)..Clock(o) - 1 /\ Clock(o) - 1 \in Int
  BY <1>1 DEF Due
<1>5. IsFiniteSet(Done(c, o)..Clock(o) - 1)
  BY <1>3, <1>4, FS_Interval
<1>6. Due(o, c) \in SUBSET (Done(c, o)..Clock(o) - 1)
  BY <1>4
<1>7. IsFiniteSet(Due(o, c))
  BY <1>5, <1>6, FS_Subset
<1> QED
  BY <1>3, <1>4, <1>7

\* What is on a wire.
LEMMA OnWire ==
    ASSUME WireOK, NEW o \in Colors, NEW c \in Colors
    PROVE  wire[o][c] = Selected([n \in Nat |-> Proper(o, c, n)], Due(o, c))
  BY DEF WireOK

\* An owner that is awaited shares a field of the exchange.
LEMMA Expected ==
    ASSUME TypeOK, CollectedOK, AwaitedOK, NEW c \in Colors, NEW o \in Colors,
           NEW x \in Exchanges, pc[c] = Waiting[x], o \in awaited[c]
    PROVE  /\ task[c] \in 1..NumTasks /\ collected[c][x] = List(task[c], x)
           /\ Talks(o, c, Stamp(task[c], x))
           /\ Done(c, o) = Stamp(task[c], x) /\ Stamp(task[c], x) \in Nat
<1>1. task[c] \in Nat /\ pc[c] # "prolog"
  BY Places, Clocks
<1>2. collected[c][x] = List(task[c], x) /\ task[c] \in 1..NumTasks
  BY <1>1 DEF CollectedOK, TypeOK
<1>3. PICK f \in ToSet(collected[c][x]) : o \in GhostOwners[f][c]
  BY DEF AwaitedOK, Awaits
<1>4. f \in Fields
  <2>1. collected[c][x] \in Seq(Fields)
    BY DEF TypeOK
  <2> QED BY <1>3, <2>1 DEF ToSet
<1>5. c \in SharedUsers[f][o]
  BY <1>3, <1>4, TopologyAssumption
<1>6. Talks(o, c, Stamp(task[c], x))
  BY <1>1, <1>2, <1>3, <1>5, StampIs DEF Talks
<1>7. Clock(c) = Stamp(task[c], x) + 1 /\ Stamp(task[c], x) \in Nat
  BY <1>1, Clocks, StampIs
<1>8. Done(c, o) = Stamp(task[c], x)
  BY <1>7 DEF Done
<1> QED
  BY <1>2, <1>6, <1>7, <1>8

\* The first message from an owner that is awaited is the one of this exchange.
LEMMA FirstMessage ==
    ASSUME TypeOK, CollectedOK, AwaitedOK, WireOK, NEW c \in Colors, NEW o \in Colors,
           NEW x \in Exchanges, pc[c] = Waiting[x], o \in awaited[c], wire[o][c] # <<>>
    PROVE  LET n == Stamp(task[c], x) IN
           /\ n \in Due(o, c) /\ \A h \in Due(o, c) : n <= h
           /\ Head(wire[o][c]) = Proper(o, c, n)
           /\ Tail(wire[o][c]) = Selected([m \in Nat |-> Proper(o, c, m)], Due(o, c) \ {n})
<1> DEFINE n == Stamp(task[c], x)
           I == Due(o, c)
           s == [m \in Nat |-> Proper(o, c, m)]
<1>1. wire[o][c] = Selected(s, I)
  BY OnWire
<1>2. I \in SUBSET Nat /\ IsFiniteSet(I)
  BY DueIs
<1>3. I # {}
  <2> HIDE DEF s, I
  <2>1. Selected(s, I) = <<>> <=> I = {}
    BY <1>2, SelectedElements
  <2> QED BY <1>1, <2>1
<1>4. Talks(o, c, n) /\ Done(c, o) = n /\ n \in Nat
  BY Expected
<1>5. Clock(o) \in Nat
  BY Places
<1>6. n \in I /\ \A h \in I : n <= h
  <2>1. \A h \in I : h \in n..Clock(o) - 1
    BY <1>4 DEF Due
  <2>2. n <= Clock(o) - 1
    BY <1>3, <1>4, <1>5, <2>1
  <2>3. n \in n..Clock(o) - 1
    BY <1>4, <1>5, <2>2
  <2>4. n \in I
    BY <1>4, <2>3 DEF Due
  <2> QED BY <1>4, <1>5, <2>1, <2>4
<1>7. At(s, n) = Proper(o, c, n)
  BY <1>4 DEF At
<1>8. Head(Selected(s, I)) = At(s, n) /\ Tail(Selected(s, I)) = Selected(s, I \ {n})
  <2> HIDE DEF s, I, n
  <2>1. IsLeast(n, I)
    BY <1>6 DEF IsLeast
  <2> QED BY <1>2, <2>1, SelectedHead
<1> QED
  BY <1>1, <1>6, <1>7, <1>8

\* A selection of a list keeps what the users share.
LEMMA BetweenIs ==
    ASSUME NEW s \in Seq(Fields), NEW o \in Colors, NEW c \in Colors
    PROVE  /\ Between(s, o, c) \in Seq(Fields)
           /\ \A f : f \in ToSet(Between(s, o, c)) <=> f \in ToSet(s) /\ c \in SharedUsers[f][o]
<1> DEFINE I == {j \in DOMAIN s : c \in SharedUsers[s[j]][o]}
<1>1. Len(s) \in Nat /\ DOMAIN s = 1..Len(s)
  OBVIOUS
<1>2. I \in SUBSET Nat /\ IsFiniteSet(I)
  <2>1. IsFiniteSet(1..Len(s))
    BY <1>1, FS_Interval
  <2> QED BY <1>1, <2>1, FS_Subset
<1>3. Between(s, o, c) = Selected(s, I)
  BY DEF Between
<1>4. \A i \in I : s[i] \in Fields
  OBVIOUS
<1>5. Between(s, o, c) \in Seq(Fields)
  <2> HIDE DEF I
  <2> QED BY <1>2, <1>3, <1>4, SelectedElements
<1>6. \A f : f \in ToSet(Between(s, o, c)) <=> \E i \in I : s[i] = f
  <2> HIDE DEF I
  <2> QED BY <1>2, <1>3, SelectedElements
<1>7. \A f : (\E i \in I : s[i] = f) <=> f \in ToSet(s) /\ c \in SharedUsers[f][o]
  BY DEF ToSet
<1> QED
  BY <1>5, <1>6, <1>7

\* What is unpacked is the latest that the owner's tasks left.
LEMMA Unpacked ==
    ASSUME TypeOK, CollectedOK, AwaitedOK, WireOK, NEW c \in Colors, NEW o \in Colors,
           NEW x \in Exchanges, pc[c] = Waiting[x], o \in awaited[c], wire[o][c] # <<>>
    PROVE  LET m == Head(wire[o][c])
               fields == GotFrom(c, o, x)
           IN /\ m.kind = x /\ m.fields = fields
              /\ m.body = [j \in DOMAIN fields |-> Newest(task[c], x, fields[j])]
              /\ \A f : f \in ToSet(fields) <=>
                     f \in ToSet(collected[c][x]) /\ o \in GhostOwners[f][c]
<1> DEFINE n == Stamp(task[c], x)
           s == collected[c][x]
<1>1. s \in Seq(Fields) /\ s = List(task[c], x) /\ task[c] \in Nat
  BY Expected, Places DEF TypeOK
<1>2. Head(wire[o][c]) = Proper(o, c, n)
  BY FirstMessage
<1>3. TaskOf(n) = task[c] /\ KindOf(n) = x /\ ListAt(n) = s
  BY <1>1, StampIs
<1>4. \A f \in Fields : c \in SharedUsers[f][o] <=> o \in GhostOwners[f][c]
  BY TopologyAssumption
<1>5. \A j \in DOMAIN s : s[j] \in Fields
  BY <1>1
<1>6. Between(s, o, c) = GotFrom(c, o, x)
  <2>1. {j \in DOMAIN s : c \in SharedUsers[s[j]][o]} = {j \in DOMAIN s : o \in GhostOwners[s[j]][c]}
    BY <1>4, <1>5
  <2> QED BY <2>1 DEF Between, GotFrom
<1>7. \A f : f \in ToSet(GotFrom(c, o, x)) <=> f \in ToSet(s) /\ o \in GhostOwners[f][c]
  <2>1. \A f : f \in ToSet(GotFrom(c, o, x)) <=> f \in ToSet(s) /\ c \in SharedUsers[f][o]
    BY <1>1, <1>6, BetweenIs
  <2>2. \A f \in ToSet(s) : f \in Fields
    BY <1>5 DEF ToSet
  <2> QED BY <1>4, <2>1, <2>2
<1>8. Proper(o, c, n) = [kind |-> x, fields |-> GotFrom(c, o, x),
         body |-> [j \in DOMAIN GotFrom(c, o, x) |-> Newest(task[c], x, GotFrom(c, o, x)[j])]]
  BY <1>3, <1>6 DEF Proper
<1> QED
  BY <1>2, <1>7, <1>8

-----------------------------------------------------------------------------
(* Types *)

\* The prolog collects what the program calls for.
LEMMA PrologCollects ==
    ASSUME TypeOK, FlagsOK, NEW c \in Colors, Prolog(c)
    PROVE  /\ task[c] \in 1..NumTasks
           /\ \A x \in Exchanges : collected'[c][x] = List(task[c], x)
           /\ collected'[c] \in [Exchanges -> Seq(Fields)]
<1> DEFINE t == prog[task[c]]
           s == FlagsOf(prog)[task[c]]
           ragged  == {i \in DOMAIN t : t[i].field \in Ragged}
           unread  == {i \in DOMAIN t : ~s.readable[t[i].field] /\ Unfetched(t, i)}
           wanted  == {i \in unread : Wants(t, i)}
           resizes == {i \in unread : s.resized[t[i].field]}
<1>1. task[c] \in 1..NumTasks /\ pc[c] = "prolog"
  BY TasksAssumption DEF Prolog, TypeOK
<1>2. \A i \in DOMAIN t : t[i].field \in Fields
  BY <1>1, TaskFacts DEF TypeOK
<1>3. \A f \in Fields : (readable[c][f] <=> s.readable[f]) /\ (resized[c][f] <=> s.resized[f])
  BY <1>1 DEF FlagsOK
<1>4. {i \in DOMAIN t : Modifies(c, i)} = wanted
  BY <1>2, <1>3 DEF Modifies, Current
<1>5. {i \in DOMAIN t : Resizes(c, i)} = resizes
  BY <1>2, <1>3 DEF Resizes, Current
<1>6. collected'[c] = [rowsize |-> FieldsAt(t, resizes \cap ragged),
                       dense   |-> FieldsAt(t, wanted \ ragged),
                       sparse  |-> FieldsAt(t, wanted \cap ragged)]
  BY <1>4, <1>5 DEF Prolog, TypeOK, Current
<1>7. /\ List(task[c], "rowsize") = FieldsAt(t, resizes \cap ragged)
      /\ List(task[c], "dense") = FieldsAt(t, wanted \ ragged)
      /\ List(task[c], "sparse") = FieldsAt(t, wanted \cap ragged)
  BY DEF List, ListFor
<1>8. \A x \in Exchanges : List(task[c], x) \in Seq(Fields)
  BY <1>1, ListTypes DEF TypeOK
<1>9. \A x \in Exchanges : collected'[c][x] = List(task[c], x)
  <2> HIDE DEF resizes, wanted, ragged, t
  <2> QED BY <1>6, <1>7 DEF Exchanges
<1>10. DOMAIN collected'[c] = Exchanges /\ collected'[c] = [x \in Exchanges |-> collected'[c][x]]
  <2> HIDE DEF resizes, wanted, ragged, t
  <2> QED BY <1>6 DEF Exchanges
<1> QED
  BY <1>1, <1>8, <1>9, <1>10

\* The initial state is well typed.
LEMMA TypeInit == Init => TypeOK
<1> SUFFICES ASSUME Init PROVE TypeOK
  OBVIOUS
<1> USE DEF Init
<1>1. task \in [Colors -> 1..NumTasks + 1]
  BY TasksAssumption
<1>2. pc \in [Colors -> States] /\ \A c \in Colors : pc[c] = "prolog"
  BY DEF States
<1>3. shared \in [Colors -> [Fields -> Nat]] /\ rows \in [Colors -> [Fields -> Nat]]
  OBVIOUS
<1>4. /\ ghost \in [Colors -> [Fields -> [Colors -> Nat]]]
      /\ ghostRows \in [Colors -> [Fields -> [Colors -> Nat]]]
      /\ rowSizes \in [Colors -> [Fields -> [Colors -> Nat]]]
  OBVIOUS
<1>5. readable \in [Colors -> [Fields -> BOOLEAN]] /\ resized \in [Colors -> [Fields -> BOOLEAN]]
  OBVIOUS
<1>6. collected \in [Colors -> [Exchanges -> Seq(Fields)]]
  <2>1. [x \in Exchanges |-> <<>>] \in [Exchanges -> Seq(Fields)]
    OBVIOUS
  <2> QED BY <2>1
<1>7. awaited \in [Colors -> SUBSET Colors]
  OBVIOUS
<1>8. seen \in [Colors -> SUBSET [field : Fields, owner : Colors, version : Nat]]
  OBVIOUS
<1>9. prog \in Programs
  OBVIOUS
<1> QED
  BY <1>1, <1>2, <1>3, <1>4, <1>5, <1>6, <1>7, <1>8, <1>9 DEF TypeOK

\* The copies of the given fields from o are the given values.
Unpacks(new, fields, o, values) ==
    \A f \in Fields : f \in ToSet(fields) =>
        \E j \in DOMAIN fields : fields[j] = f /\ new[f][o] = values[j]

\* What Unpack does to the copies of a field from an owner.
LEMMA UnpackIs ==
    ASSUME NEW copies \in [Fields -> [Colors -> Nat]], NEW fields \in Seq(Fields),
           NEW o \in Colors, NEW values \in [DOMAIN fields -> Nat],
           NEW new, new = Unpack(copies, fields, o, values)
    PROVE  /\ new \in [Fields -> [Colors -> Nat]]
           /\ \A f \in Fields, p \in Colors : p # o \/ f \notin ToSet(fields) => new[f][p] = copies[f][p]
           /\ Unpacks(new, fields, o, values)
<1> DEFINE at(f) == CHOOSE j \in DOMAIN fields : fields[j] = f
<1>1. ASSUME NEW f \in ToSet(fields) PROVE at(f) \in DOMAIN fields /\ fields[at(f)] = f
  BY DEF ToSet
<1>2. ASSUME NEW f \in Fields PROVE copies[f] \in [Colors -> Nat]
  OBVIOUS
<1>3. new = [f \in Fields |-> new[f]]
  BY DEF Unpack
<1>4. ASSUME NEW f \in Fields, f \notin ToSet(fields) PROVE new[f] = copies[f]
  BY <1>4 DEF Unpack
<1>5. ASSUME NEW f \in Fields, f \in ToSet(fields)
      PROVE  /\ new[f] \in [Colors -> Nat] /\ new[f][o] = values[at(f)]
             /\ \A p \in Colors : p # o => new[f][p] = copies[f][p]
  <2>1. values[at(f)] \in Nat
    BY <1>1, <1>5
  <2>2. new[f] = [copies[f] EXCEPT ![o] = values[at(f)]]
    BY <1>5 DEF Unpack
  <2> HIDE DEF at
  <2> QED BY <1>2, <2>1, <2>2
<1> HIDE DEF at
<1>6. ASSUME NEW f \in Fields PROVE new[f] \in [Colors -> Nat]
  BY <1>2, <1>4, <1>5
<1>7. new \in [Fields -> [Colors -> Nat]]
  BY <1>3, <1>6
<1>8. \A f \in Fields, p \in Colors : p # o \/ f \notin ToSet(fields) => new[f][p] = copies[f][p]
  BY <1>4, <1>5
<1>9. \A f \in Fields : f \in ToSet(fields) =>
          \E j \in DOMAIN fields : fields[j] = f /\ new[f][o] = values[j]
  BY <1>1, <1>5
<1> QED
  BY <1>7, <1>8, <1>9 DEF Unpacks

\* What a receive unpacks: of the fields of the exchange that it shares with
\* the owner, the versions that the task is to see.
LEMMA ReceiveBrings ==
    ASSUME TypeOK, CollectedOK, AwaitedOK, WireOK,
           NEW c \in Colors, NEW o \in Colors, NEW x \in Exchanges, Receive(c, o, x)
    PROVE  LET Got(f) == f \in ToSet(collected[c][x]) /\ o \in GhostOwners[f][c] IN
           /\ ghost'[c] \in [Fields -> [Colors -> Nat]]
           /\ rowSizes'[c] \in [Fields -> [Colors -> Nat]]
           /\ \A f \in Fields, p \in Colors :
                  /\ x = "rowsize" \/ p # o \/ ~Got(f) => ghost'[c][f][p] = ghost[c][f][p]
                  /\ x # "rowsize" \/ p # o \/ ~Got(f) => rowSizes'[c][f][p] = rowSizes[c][f][p]
           /\ \A f \in Fields : Got(f) =>
                  IF x = "rowsize" THEN IsLatestSize(rowSizes'[c][f][o], f, task[c])
                                   ELSE IsLatest(prog, ghost'[c][f][o], f, task[c])
<1> DEFINE m == Head(wire[o][c])
           fields == GotFrom(c, o, x)
           lengths == [j \in DOMAIN m.body |-> m.body[j].rows]
           versions == [j \in DOMAIN m.body |-> m.body[j].version]
           Got(f) == f \in ToSet(collected[c][x]) /\ o \in GhostOwners[f][c]
<1>1. pc[c] = Waiting[x] /\ o \in awaited[c] /\ wire[o][c] # <<>>
  BY DEF Receive
<1>2. /\ m.body = [j \in DOMAIN fields |-> Newest(task[c], x, fields[j])]
      /\ \A f : f \in ToSet(fields) <=> Got(f)
  BY <1>1, Unpacked
<1>3. task[c] \in 1..NumTasks /\ task[c] \in 1..NumTasks + 1
  BY <1>1, Expected, TasksAssumption
<1>4. fields \in Seq(Fields)
  <2>1. collected[c][x] \in Seq(Fields)
    BY DEF TypeOK
  <2> DEFINE s == collected[c][x]
             I == {j \in DOMAIN s : o \in GhostOwners[s[j]][c]}
  <2>2. Len(s) \in Nat /\ DOMAIN s = 1..Len(s)
    BY <2>1
  <2>3. I \in SUBSET Nat /\ IsFiniteSet(I)
    <3>1. IsFiniteSet(1..Len(s))
      BY <2>2, FS_Interval
    <3> QED BY <2>2, <3>1, FS_Subset
  <2>4. fields = Selected(s, I)
    BY DEF GotFrom
  <2>5. \A i \in I : s[i] \in Fields
    BY <2>1
  <2> HIDE DEF s, I, fields
  <2> QED BY <2>3, <2>4, <2>5, SelectedElements
<1>5. /\ DOMAIN versions = DOMAIN fields /\ DOMAIN lengths = DOMAIN fields
      /\ \A j \in DOMAIN fields :
             /\ versions[j] = Newest(task[c], x, fields[j]).version
             /\ lengths[j] = Newest(task[c], x, fields[j]).rows
  <2> HIDE DEF m, fields
  <2> QED BY <1>2
<1>6. ghost[c] \in [Fields -> [Colors -> Nat]] /\ rowSizes[c] \in [Fields -> [Colors -> Nat]]
  BY DEF TypeOK
<1>7. CASE x = "rowsize"
  <2>1. ghost' = ghost /\ rowSizes'[c] = Unpack(rowSizes[c], fields, o, lengths)
    BY <1>7 DEF Receive, TypeOK
  <2>2. /\ lengths \in [DOMAIN fields -> Nat]
        /\ \A j \in DOMAIN fields : IsLatestSize(lengths[j], fields[j], task[c])
    <3>1. lengths = [j \in DOMAIN fields |-> lengths[j]]
      BY <1>5
    <3> HIDE DEF m, fields, lengths
    <3>2. \A j \in DOMAIN fields : lengths[j] \in Nat /\ IsLatestSize(lengths[j], fields[j], task[c])
      BY <1>3, <1>5, <1>7, NewestSays
    <3> QED BY <3>1, <3>2
  <2> HIDE DEF m, fields, lengths, Got
  <2>3. /\ rowSizes'[c] \in [Fields -> [Colors -> Nat]]
        /\ \A f \in Fields, p \in Colors :
               p # o \/ f \notin ToSet(fields) => rowSizes'[c][f][p] = rowSizes[c][f][p]
        /\ \A f \in Fields : f \in ToSet(fields) =>
               \E j \in DOMAIN fields : fields[j] = f /\ rowSizes'[c][f][o] = lengths[j]
    <3>1. PICK old \in [Fields -> [Colors -> Nat]], fs \in Seq(Fields) :
              old = rowSizes[c] /\ fs = fields
      BY <1>4, <1>6
    <3>2. PICK vs \in [DOMAIN fs -> Nat] : vs = lengths
      BY <2>2, <3>1
    <3>3. PICK new : new = Unpack(old, fs, o, vs)
      OBVIOUS
    <3>4. new \in [Fields -> [Colors -> Nat]]
      BY <3>3, UnpackIs
    <3>5. \A f \in Fields, p \in Colors : p # o \/ f \notin ToSet(fs) => new[f][p] = old[f][p]
      BY <3>3, UnpackIs
    <3>6. Unpacks(new, fs, o, vs)
      BY <3>3, UnpackIs
    <3> QED BY <2>1, <3>1, <3>2, <3>4, <3>5, <3>6, <3>3 DEF Unpacks
  <2>4. \A f \in Fields : Got(f) => IsLatestSize(rowSizes'[c][f][o], f, task[c])
    BY <1>2, <2>2, <2>3
  <2>5. \A f \in Fields, p \in Colors :
            p # o \/ ~Got(f) => rowSizes'[c][f][p] = rowSizes[c][f][p]
    BY <1>2, <2>3
  <2> QED BY <1>6, <1>7, <2>1, <2>3, <2>4, <2>5 DEF Got
<1>8. CASE x # "rowsize"
  <2>1. rowSizes' = rowSizes /\ ghost'[c] = Unpack(ghost[c], fields, o, versions)
    BY <1>8 DEF Receive, TypeOK
  <2>2. /\ versions \in [DOMAIN fields -> Nat]
        /\ \A j \in DOMAIN fields : IsLatest(prog, versions[j], fields[j], task[c])
    <3>1. versions = [j \in DOMAIN fields |-> versions[j]]
      BY <1>5
    <3> HIDE DEF m, fields, versions
    <3>2. \A j \in DOMAIN fields : versions[j] \in Nat /\ IsLatest(prog, versions[j], fields[j], task[c])
      BY <1>3, <1>5, <1>8, NewestSays
    <3> QED BY <3>1, <3>2
  <2> HIDE DEF m, fields, versions, Got
  <2>3. /\ ghost'[c] \in [Fields -> [Colors -> Nat]]
        /\ \A f \in Fields, p \in Colors :
               p # o \/ f \notin ToSet(fields) => ghost'[c][f][p] = ghost[c][f][p]
        /\ \A f \in Fields : f \in ToSet(fields) =>
               \E j \in DOMAIN fields : fields[j] = f /\ ghost'[c][f][o] = versions[j]
    <3>1. PICK old \in [Fields -> [Colors -> Nat]], fs \in Seq(Fields) :
              old = ghost[c] /\ fs = fields
      BY <1>4, <1>6
    <3>2. PICK vs \in [DOMAIN fs -> Nat] : vs = versions
      BY <2>2, <3>1
    <3>3. PICK new : new = Unpack(old, fs, o, vs)
      OBVIOUS
    <3>4. new \in [Fields -> [Colors -> Nat]]
      BY <3>3, UnpackIs
    <3>5. \A f \in Fields, p \in Colors : p # o \/ f \notin ToSet(fs) => new[f][p] = old[f][p]
      BY <3>3, UnpackIs
    <3>6. Unpacks(new, fs, o, vs)
      BY <3>3, UnpackIs
    <3> QED BY <2>1, <3>1, <3>2, <3>4, <3>5, <3>6, <3>3 DEF Unpacks
  <2>4. \A f \in Fields : Got(f) => IsLatest(prog, ghost'[c][f][o], f, task[c])
    BY <1>2, <2>2, <2>3
  <2>5. \A f \in Fields, p \in Colors :
            p # o \/ ~Got(f) => ghost'[c][f][p] = ghost[c][f][p]
    BY <1>2, <2>3
  <2> QED BY <1>6, <1>8, <2>1, <2>3, <2>4, <2>5 DEF Got
<1> QED
  BY <1>7, <1>8

\* Every step of a color keeps the types.
LEMMA TypeStep ==
    ASSUME TypeOK, FlagsOK, CollectedOK, AwaitedOK, WireOK, NEW c \in Colors, Move(c)
    PROVE  TypeOK'
<1> USE TasksAssumption DEF Goto, data, sizes, flags
<1>0. prog' = prog
  BY ProgramStays
<1>1. CASE Prolog(c)
  <2>1. /\ pc' = [pc EXCEPT ![c] = "rowsize"] /\ task' = task /\ awaited' = awaited
        /\ UNCHANGED <<shared, ghost, rows, ghostRows, rowSizes, resized, seen>>
        /\ readable' = [readable EXCEPT ![c] =
               [f \in Fields |-> readable[c][f] \/ ReadsGhost(Current(c), f)]]
    BY <1>1 DEF Prolog, TypeOK
  <2>2. task[c] \in 1..NumTasks /\ collected'[c] \in [Exchanges -> Seq(Fields)]
    BY <1>1, PrologCollects
  <2>3. collected' \in [Colors -> [Exchanges -> Seq(Fields)]]
    <3>1. \A d \in Colors : d # c => collected'[d] = collected[d]
      BY <1>1, Moves, OthersStay DEF Move, Step
    <3>2. collected' = [d \in Colors |-> collected'[d]]
      BY <1>1 DEF Prolog, TypeOK
    <3> QED BY <2>2, <3>1, <3>2 DEF TypeOK
  <2>4. readable' \in [Colors -> [Fields -> BOOLEAN]]
    <3>1. [f \in Fields |-> readable[c][f] \/ ReadsGhost(Current(c), f)] \in [Fields -> BOOLEAN]
      OBVIOUS
    <3> QED BY <2>1, <3>1 DEF TypeOK
  <2>5. pc' \in [Colors -> States] /\ \A d \in Colors : pc'[d] # "prolog" => task'[d] \in 1..NumTasks
    BY <2>1, <2>2 DEF TypeOK, States
  <2> QED BY <1>0, <2>1, <2>3, <2>4, <2>5 DEF TypeOK
<1>2. CASE Resize(c)
  <2>1. /\ pc' = [pc EXCEPT ![c] = "dense"] /\ task' = task /\ awaited' = awaited
        /\ UNCHANGED <<shared, ghost, rows, rowSizes, readable, collected, seen>>
        /\ pc[c] = "resize"
    BY <1>2 DEF Resize
  <2>2. PICK S : /\ ghostRows' = [ghostRows EXCEPT ![c] =
                        [f \in Fields |-> IF f \in S THEN rowSizes[c][f] ELSE ghostRows[c][f]]]
                 /\ resized' = [resized EXCEPT ![c] = [f \in Fields |-> resized[c][f] /\ f \notin S]]
    BY <1>2 DEF Resize, TypeOK
  <2>3. ghostRows' \in [Colors -> [Fields -> [Colors -> Nat]]]
    <3>1. [f \in Fields |-> IF f \in S THEN rowSizes[c][f] ELSE ghostRows[c][f]]
              \in [Fields -> [Colors -> Nat]]
      BY DEF TypeOK
    <3> QED BY <2>2, <3>1 DEF TypeOK
  <2>4. resized' \in [Colors -> [Fields -> BOOLEAN]]
    <3>1. [f \in Fields |-> resized[c][f] /\ f \notin S] \in [Fields -> BOOLEAN]
      OBVIOUS
    <3> QED BY <2>2, <3>1 DEF TypeOK
  <2>5. pc' \in [Colors -> States] /\ \A d \in Colors : pc'[d] # "prolog" => task'[d] \in 1..NumTasks
    BY <2>1 DEF TypeOK, States
  <2> QED BY <1>0, <2>1, <2>3, <2>4, <2>5 DEF TypeOK
<1>3. CASE Execute(c)
  <2>1. /\ pc' = [pc EXCEPT ![c] = "epilog"] /\ task' = task /\ awaited' = awaited
        /\ UNCHANGED <<ghostRows, rowSizes, readable, resized, collected>>
        /\ pc[c] = "user"
    BY <1>3 DEF Execute
  <2>2. task[c] \in 1..NumTasks /\ task[c] \in Nat
    BY <2>1, Places DEF TypeOK
  <2>3. shared' \in [Colors -> [Fields -> Nat]]
    <3>1. [f \in Fields |-> IF WritesShared(Current(c), f) THEN task[c] ELSE shared[c][f]]
              \in [Fields -> Nat]
      BY <2>2 DEF TypeOK
    <3>2. shared' = [shared EXCEPT ![c] =
              [f \in Fields |-> IF WritesShared(Current(c), f) THEN task[c] ELSE shared[c][f]]]
      BY <1>3 DEF Execute, TypeOK
    <3> QED BY <3>1, <3>2 DEF TypeOK
  <2>4. rows' \in [Colors -> [Fields -> Nat]]
    <3>1. [f \in Fields |-> IF Mutates(Current(c), f) THEN task[c] ELSE rows[c][f]]
              \in [Fields -> Nat]
      BY <2>2 DEF TypeOK
    <3>2. rows' = [rows EXCEPT ![c] =
              [f \in Fields |-> IF Mutates(Current(c), f) THEN task[c] ELSE rows[c][f]]]
      BY <1>3 DEF Execute, TypeOK
    <3> QED BY <3>1, <3>2 DEF TypeOK
  <2>5. ghost' \in [Colors -> [Fields -> [Colors -> Nat]]]
    <3>1. [o \in Colors |-> task[c]] \in [Colors -> Nat]
      BY <2>2
    <3>2. [f \in Fields |-> IF WritesGhost(Current(c), f) THEN [o \in Colors |-> task[c]]
                            ELSE ghost[c][f]] \in [Fields -> [Colors -> Nat]]
      BY <3>1 DEF TypeOK
    <3>3. ghost' = [ghost EXCEPT ![c] =
              [f \in Fields |-> IF WritesGhost(Current(c), f) THEN [o \in Colors |-> task[c]]
                                ELSE ghost[c][f]]]
      BY <1>3 DEF Execute, TypeOK
    <3> QED BY <3>2, <3>3 DEF TypeOK
  <2>6. seen' \in [Colors -> SUBSET [field : Fields, owner : Colors, version : Nat]]
    <3> DEFINE R == {r \in [field : Fields, owner : Colors, version : 0..NumTasks] :
                         /\ r.owner \in GhostOwners[r.field][c]
                         /\ ReadsGhost(Current(c), r.field)
                         /\ r.version = ghost[c][r.field][r.owner]}
    <3>1. seen' = [seen EXCEPT ![c] = R]
      BY <1>3 DEF Execute
    <3>2. R \subseteq [field : Fields, owner : Colors, version : Nat]
      OBVIOUS
    <3> HIDE DEF R
    <3> QED BY <3>1, <3>2 DEF TypeOK
  <2>7. pc' \in [Colors -> States] /\ \A d \in Colors : pc'[d] # "prolog" => task'[d] \in 1..NumTasks
    BY <2>1 DEF TypeOK, States
  <2> QED BY <1>0, <2>1, <2>3, <2>4, <2>5, <2>6, <2>7 DEF TypeOK
<1>4. CASE Epilog(c)
  <2>1. /\ pc' = [pc EXCEPT ![c] = "prolog"] /\ task' = [task EXCEPT ![c] = task[c] + 1]
        /\ UNCHANGED <<shared, ghost, rows, ghostRows, rowSizes, awaited, seen>>
        /\ pc[c] = "epilog"
    BY <1>4 DEF Epilog, TypeOK
  <2>2. task[c] \in 1..NumTasks
    BY <2>1 DEF TypeOK
  <2>3. task' \in [Colors -> 1..NumTasks + 1]
    BY <2>1, <2>2 DEF TypeOK
  <2>4. readable' \in [Colors -> [Fields -> BOOLEAN]]
    <3>1. \A f \in Fields : ReadableAfter(c, f) \in BOOLEAN
      BY DEF ReadableAfter, TypeOK
    <3>2. [f \in Fields |-> ReadableAfter(c, f)] \in [Fields -> BOOLEAN]
      BY <3>1
    <3>3. readable' = [readable EXCEPT ![c] = [f \in Fields |-> ReadableAfter(c, f)]]
      BY <1>4 DEF Epilog
    <3> QED BY <3>2, <3>3 DEF TypeOK
  <2>5. resized' \in [Colors -> [Fields -> BOOLEAN]]
    <3>1. [f \in Fields |-> resized[c][f] \/ Mutates(Current(c), f)] \in [Fields -> BOOLEAN]
      OBVIOUS
    <3>2. resized' = [resized EXCEPT ![c] = [f \in Fields |-> resized[c][f] \/ Mutates(Current(c), f)]]
      BY <1>4 DEF Epilog, TypeOK
    <3> QED BY <3>1, <3>2 DEF TypeOK
  <2>6. collected' \in [Colors -> [Exchanges -> Seq(Fields)]]
    <3>1. [x \in Exchanges |-> <<>>] \in [Exchanges -> Seq(Fields)]
      OBVIOUS
    <3>2. collected' = [collected EXCEPT ![c] = [x \in Exchanges |-> <<>>]]
      BY <1>4 DEF Epilog
    <3> QED BY <3>1, <3>2 DEF TypeOK
  <2>7. pc' \in [Colors -> States] /\ \A d \in Colors : pc'[d] # "prolog" => task'[d] \in 1..NumTasks
    BY <2>1 DEF TypeOK, States
  <2> QED BY <1>0, <2>1, <2>3, <2>4, <2>5, <2>6, <2>7 DEF TypeOK
<1>5. ASSUME NEW x \in Exchanges, NoExchange(c, x) \/ EndExchange(c, x)
      PROVE  TypeOK'
  <2>1. /\ pc' = [pc EXCEPT ![c] = After[x]] /\ pc[c] # "prolog"
        /\ UNCHANGED <<task, shared, ghost, rows, ghostRows, rowSizes, readable, resized,
                       collected, awaited, seen>>
    BY <1>5, Clocks DEF NoExchange, EndExchange
  <2>2. After[x] \in States
    BY Clocks
  <2>3. pc' \in [Colors -> States] /\ \A d \in Colors : pc'[d] # "prolog" => task'[d] \in 1..NumTasks
    BY <2>1, <2>2 DEF TypeOK
  <2> QED BY <1>0, <2>1, <2>3 DEF TypeOK
<1>6. ASSUME NEW x \in Exchanges, Send(c, x)
      PROVE  TypeOK'
  <2>1. /\ pc' = [pc EXCEPT ![c] = Waiting[x]] /\ pc[c] # "prolog"
        /\ UNCHANGED <<task, shared, ghost, rows, ghostRows, rowSizes, readable, resized,
                       collected, seen>>
        /\ awaited' = [awaited EXCEPT ![c] = Awaits(c, x)]
    BY <1>6, Clocks DEF Send
  <2>2. Waiting[x] \in States
    BY Clocks
  <2>3. pc' \in [Colors -> States] /\ \A d \in Colors : pc'[d] # "prolog" => task'[d] \in 1..NumTasks
    BY <2>1, <2>2 DEF TypeOK
  <2>4. Awaits(c, x) \subseteq Colors
    <3>1. collected[c][x] \in Seq(Fields)
      BY DEF TypeOK
    <3>2. \A f \in ToSet(collected[c][x]) : f \in Fields
      BY <3>1 DEF ToSet
    <3>3. \A f \in Fields : GhostOwners[f][c] \subseteq Colors
      BY TopologyAssumption
    <3> QED BY <3>2, <3>3 DEF Awaits
  <2>5. awaited' \in [Colors -> SUBSET Colors]
    BY <2>1, <2>4 DEF TypeOK
  <2> QED BY <1>0, <2>1, <2>3, <2>5 DEF TypeOK
<1>7. ASSUME NEW x \in Exchanges, NEW o \in Colors, Receive(c, o, x)
      PROVE  TypeOK'
  <2>1. /\ UNCHANGED <<task, pc, shared, rows, ghostRows, readable, resized, collected, seen>>
        /\ awaited' = [awaited EXCEPT ![c] = awaited[c] \ {o}]
    BY <1>7 DEF Receive, TypeOK
  <2>2. ghost'[c] \in [Fields -> [Colors -> Nat]] /\ rowSizes'[c] \in [Fields -> [Colors -> Nat]]
    BY <1>7, ReceiveBrings
  <2>3. Move(c)
    OBVIOUS
  <2>4. \A d \in Colors : d # c => ghost'[d] = ghost[d] /\ rowSizes'[d] = rowSizes[d]
    BY <2>3, OthersStay
  <2>5. ghost' = [d \in Colors |-> ghost'[d]] /\ rowSizes' = [d \in Colors |-> rowSizes'[d]]
    BY <1>7 DEF Receive, TypeOK
  <2>6. ghost' \in [Colors -> [Fields -> [Colors -> Nat]]]
    BY <2>2, <2>4, <2>5 DEF TypeOK
  <2>7. rowSizes' \in [Colors -> [Fields -> [Colors -> Nat]]]
    BY <2>2, <2>4, <2>5 DEF TypeOK
  <2>8. awaited' \in [Colors -> SUBSET Colors]
    BY <2>1 DEF TypeOK
  <2> QED BY <1>0, <2>1, <2>6, <2>7, <2>8 DEF TypeOK
<1> QED
  BY <1>1, <1>2, <1>3, <1>4, <1>5, <1>6, <1>7, Moves

-----------------------------------------------------------------------------
(* What the ranks decide *)

\* Where a color is at an exchange, and where it goes on.
LEMMA ExchangePlaces ==
    ASSUME NEW x \in Exchanges
    PROVE  LET before == {"prolog", "rowsize", "rowsize_wait", "resize"} IN
           /\ x \in before <=> After[x] \in before
           /\ x \in before <=> Waiting[x] \in before
           /\ After[x] # "prolog" /\ Waiting[x] # "prolog" /\ x # "prolog"
           /\ After[x] # "epilog" /\ Waiting[x] # "epilog" /\ x # "epilog"
           /\ Waiting[x] # x
  BY DEF Exchanges, After, Waiting

\* Every rank keeps the flags that the program gives it.
LEMMA FlagsStep ==
    ASSUME TypeOK, TypeOK', FlagsOK, NEW c \in Colors, Move(c)
    PROVE  FlagsOK'
<1> USE DEF Goto, data, sizes, flags
<1> DEFINE before == {"prolog", "rowsize", "rowsize_wait", "resize"}
           F == FlagsOf(prog)
           OK(d, f, k, state, r, z) ==
               /\ r = (F[k].readable[f] \/ (state # "prolog" /\ ReadsGhost(prog[k], f)))
               /\ z = IF state \in before THEN F[k].resized[f] ELSE Kept(prog[k], f, F[k].resized[f])
<1>1. prog' = prog /\ FlagsOf(prog)' = F
  BY ProgramStays, SameProgram
<1>2. SUFFICES ASSUME NEW d \in Colors, NEW f \in Fields
               PROVE  OK(d, f, task'[d], pc'[d], readable'[d][f], resized'[d][f])
  BY <1>1 DEF FlagsOK
<1>3. OK(d, f, task[d], pc[d], readable[d][f], resized[d][f])
  BY DEF FlagsOK
<1>4. CASE d # c
  BY <1>3, <1>4, OthersStay
<1>5. CASE d = c
  <2> USE <1>5
  <2>1. CASE Prolog(c)
    <3>1. /\ pc[c] = "prolog" /\ pc'[c] = "rowsize" /\ task' = task /\ resized' = resized
          /\ readable'[c][f] = (readable[c][f] \/ ReadsGhost(prog[task[c]], f))
      BY <2>1 DEF Prolog, TypeOK, Current
    <3> HIDE DEF F
    <3> QED BY <1>3, <3>1
  <2>2. CASE Resize(c)
    <3>1. /\ pc[c] = "resize" /\ pc'[c] = "dense" /\ task' = task /\ readable' = readable
          /\ resized'[c][f] = (resized[c][f] /\ ~(f \in Ragged /\ resized[c][f]
                                                    /\ Names(prog[task[c]], f)))
      BY <2>2 DEF Resize, TypeOK, Current, Names
    <3>2. resized[c][f] = F[task[c]].resized[f]
      BY <1>3, <3>1
    <3>3. resized'[c][f] = Kept(prog[task[c]], f, F[task[c]].resized[f])
      <4> HIDE DEF F
      <4>1. resized[c][f] \in BOOLEAN
        BY DEF TypeOK
      <4> QED BY <3>1, <3>2, <4>1 DEF Kept
    <3> HIDE DEF F
    <3> QED BY <1>3, <3>1, <3>3
  <2>3. CASE Execute(c)
    <3>1. /\ pc[c] = "user" /\ pc'[c] = "epilog" /\ task' = task
          /\ readable' = readable /\ resized' = resized
      BY <2>3 DEF Execute, TypeOK
    <3> HIDE DEF F
    <3> QED BY <1>3, <3>1
  <2>4. CASE Epilog(c)
    <3> DEFINE k == task[c]
               t == prog[k]
    <3>1. /\ pc[c] = "epilog" /\ pc'[c] = "prolog" /\ task'[c] = k + 1
          /\ readable'[c][f] = ReadableAfter(c, f)
          /\ resized'[c][f] = (resized[c][f] \/ Mutates(t, f))
      BY <2>4 DEF Epilog, TypeOK, Current
    <3>2. k \in 1..NumTasks
      BY <3>1 DEF TypeOK
    <3>3. F[k + 1] = FlagsThen(t, F[k])
      BY <3>2, FlagsOfIs
    <3>4. /\ F[k + 1].readable[f] = ReadableThen(t, f, F[k].readable[f])
          /\ F[k + 1].resized[f] = ResizedThen(t, f, F[k].resized[f])
      <4> HIDE DEF F, t, k
      <4> QED BY <3>3 DEF FlagsThen
    <3>5. /\ readable[c][f] = (F[k].readable[f] \/ ReadsGhost(t, f))
          /\ resized[c][f] = Kept(t, f, F[k].resized[f])
      <4> HIDE DEF F
      <4> QED BY <1>3, <3>1
    <3>6. ReadableAfter(c, f) = ReadableThen(t, f, F[k].readable[f])
      <4>1. readable[c][f] \in BOOLEAN
        BY DEF TypeOK
      <4> HIDE DEF F
      <4> QED BY <3>5, <4>1 DEF ReadableAfter, ReadableThen, Current
    <3>7. (resized[c][f] \/ Mutates(t, f)) = ResizedThen(t, f, F[k].resized[f])
      <4> HIDE DEF F
      <4> QED BY <3>5 DEF ResizedThen
    <3>8. readable'[c][f] = F[k + 1].readable[f] /\ resized'[c][f] = F[k + 1].resized[f]
      BY <3>1, <3>4, <3>6, <3>7
    <3>9. F[k + 1].readable[f] \in BOOLEAN
      <4> HIDE DEF F, t, k
      <4> QED BY <3>4 DEF ReadableThen
    <3> HIDE DEF F, k
    <3> QED BY <3>1, <3>8, <3>9
  <2>5. ASSUME NEW x \in Exchanges, NoExchange(c, x) \/ EndExchange(c, x)
        PROVE  OK(d, f, task'[d], pc'[d], readable'[d][f], resized'[d][f])
    <3>1. /\ pc[c] = x \/ pc[c] = Waiting[x]
          /\ pc'[c] = After[x] /\ task' = task
          /\ readable' = readable /\ resized' = resized
      BY <2>5 DEF NoExchange, EndExchange, TypeOK
    <3> HIDE DEF F
    <3> QED BY <1>3, <3>1, ExchangePlaces
  <2>6. ASSUME NEW x \in Exchanges, Send(c, x)
        PROVE  OK(d, f, task'[d], pc'[d], readable'[d][f], resized'[d][f])
    <3>1. /\ pc[c] = x /\ pc'[c] = Waiting[x] /\ task' = task
          /\ readable' = readable /\ resized' = resized
      BY <2>6 DEF Send, TypeOK
    <3> HIDE DEF F
    <3> QED BY <1>3, <3>1, ExchangePlaces
  <2>7. ASSUME NEW x \in Exchanges, NEW o \in Colors, Receive(c, o, x)
        PROVE  OK(d, f, task'[d], pc'[d], readable'[d][f], resized'[d][f])
    <3>1. pc' = pc /\ task' = task /\ readable' = readable /\ resized' = resized
      BY <2>7 DEF Receive
    <3> HIDE DEF F
    <3> QED BY <1>3, <3>1
  <2> HIDE DEF OK
  <2> QED BY <2>1, <2>2, <2>3, <2>4, <2>5, <2>6, <2>7, Moves
<1> QED
  BY <1>4, <1>5

\* The fields of a task's exchanges stay what the program calls for.
LEMMA CollectedStep ==
    ASSUME TypeOK, FlagsOK, CollectedOK, NEW c \in Colors, Move(c)
    PROVE  CollectedOK'
<1> USE DEF Goto, data, sizes, flags
<1>1. \A k, x : List(k, x)' = List(k, x)
  BY ProgramStays, SameProgram
<1>2. SUFFICES ASSUME NEW d \in Colors, NEW x \in Exchanges
               PROVE  collected'[d][x] = IF pc'[d] = "prolog" THEN <<>> ELSE List(task'[d], x)
  <2>1. ASSUME NEW k PROVE \A x : List(k, x)' = List(k, x)
    BY <1>1
  <2> QED BY <1>1, ProgramStays DEF CollectedOK, List
<1>3. collected[d][x] = IF pc[d] = "prolog" THEN <<>> ELSE List(task[d], x)
  BY DEF CollectedOK
<1>4. CASE d # c
  BY <1>3, <1>4, OthersStay
<1>5. CASE d = c /\ Prolog(c)
  <2>1. pc'[c] = "rowsize" /\ task' = task
    BY <1>5 DEF Prolog, TypeOK
  <2> QED BY <1>5, <2>1, PrologCollects
<1>6. CASE d = c /\ Epilog(c)
  BY <1>6 DEF Epilog, TypeOK
<1>7. CASE d = c /\ Resize(c)
  BY <1>3, <1>7 DEF Resize, TypeOK
<1>8. CASE d = c /\ Execute(c)
  BY <1>3, <1>8 DEF Execute, TypeOK
<1>9. ASSUME d = c, NEW y \in Exchanges, NoExchange(c, y) \/ EndExchange(c, y)
      PROVE  collected'[d][x] = IF pc'[d] = "prolog" THEN <<>> ELSE List(task'[d], x)
  <2>1. pc[c] \in {y, Waiting[y]} /\ pc'[c] = After[y] /\ task' = task /\ collected' = collected
    BY <1>9 DEF NoExchange, EndExchange, TypeOK
  <2> QED BY <1>3, <1>9, <2>1, ExchangePlaces
<1>10. ASSUME d = c, NEW y \in Exchanges, Send(c, y)
       PROVE  collected'[d][x] = IF pc'[d] = "prolog" THEN <<>> ELSE List(task'[d], x)
  <2>1. pc[c] = y /\ pc'[c] = Waiting[y] /\ task' = task /\ collected' = collected
    BY <1>10 DEF Send, TypeOK
  <2> QED BY <1>3, <1>10, <2>1, ExchangePlaces
<1>11. ASSUME d = c, NEW y \in Exchanges, NEW o \in Colors, Receive(c, o, y)
       PROVE  collected'[d][x] = IF pc'[d] = "prolog" THEN <<>> ELSE List(task'[d], x)
  BY <1>3, <1>11 DEF Receive
<1> QED
  BY <1>4, <1>5, <1>6, <1>7, <1>8, <1>9, <1>10, <1>11, Moves

\* A color awaits owners only in an exchange that is about their fields.
LEMMA AwaitedStep ==
    ASSUME TypeOK, AwaitedOK, NEW c \in Colors, Move(c)
    PROVE  AwaitedOK'
<1> USE DEF Goto, data, sizes, flags
<1> DEFINE waits == {"rowsize_wait", "dense_wait", "sparse_wait"}
<1>1. SUFFICES ASSUME NEW d \in Colors
               PROVE  /\ pc'[d] \notin waits => awaited'[d] = {}
                      /\ \A x \in Exchanges : pc'[d] = Waiting[x] =>
                             awaited'[d] \subseteq UNION {GhostOwners[f][d] : f \in ToSet(collected'[d][x])}
  BY DEF AwaitedOK, Awaits
<1>2. /\ pc[d] \notin waits => awaited[d] = {}
      /\ \A x \in Exchanges : pc[d] = Waiting[x] =>
             awaited[d] \subseteq UNION {GhostOwners[f][d] : f \in ToSet(collected[d][x])}
  BY DEF AwaitedOK, Awaits
<1>3. CASE d # c
  BY <1>2, <1>3, OthersStay
<1>4. \A x \in Exchanges : Waiting[x] \in waits /\ After[x] \notin waits /\ x \notin waits
  BY DEF Exchanges, Waiting, After
<1>5. \A x, y \in Exchanges : Waiting[x] = Waiting[y] => x = y
  BY DEF Exchanges, Waiting
<1>6. CASE d = c /\ (Prolog(c) \/ Resize(c) \/ Execute(c) \/ Epilog(c))
  <2>1. pc[c] \notin waits /\ pc'[c] \notin waits /\ awaited' = awaited
    BY <1>6 DEF Prolog, Resize, Execute, Epilog, TypeOK
  <2> QED BY <1>2, <1>4, <1>6, <2>1
<1>7. ASSUME d = c, NEW x \in Exchanges, NoExchange(c, x) \/ EndExchange(c, x)
      PROVE  pc'[d] \notin waits /\ awaited'[d] = {}
  <2>1. CASE NoExchange(c, x)
    BY <1>2, <1>4, <1>7, <2>1 DEF NoExchange, TypeOK
  <2>2. CASE EndExchange(c, x)
    BY <1>4, <1>7, <2>2 DEF EndExchange, TypeOK
  <2> QED BY <1>7, <2>1, <2>2
<1>8. ASSUME d = c, NEW x \in Exchanges, Send(c, x)
      PROVE  /\ pc'[d] = Waiting[x] /\ collected' = collected
             /\ awaited'[d] = UNION {GhostOwners[f][d] : f \in ToSet(collected[d][x])}
  BY <1>8 DEF Send, Awaits, TypeOK
<1>9. ASSUME d = c, NEW x \in Exchanges, NEW o \in Colors, Receive(c, o, x)
      PROVE  /\ pc' = pc /\ pc[d] = Waiting[x] /\ collected' = collected
             /\ awaited'[d] = awaited[d] \ {o}
  BY <1>9 DEF Receive, TypeOK
<1> HIDE DEF waits
<1>10. CASE d = c /\ \E x \in Exchanges : NoExchange(c, x) \/ EndExchange(c, x)
  BY <1>4, <1>7, <1>10
<1>11. CASE d = c /\ \E x \in Exchanges : Send(c, x)
  BY <1>4, <1>5, <1>8, <1>11
<1>12. CASE d = c /\ \E x \in Exchanges, o \in Colors : Receive(c, o, x)
  BY <1>2, <1>4, <1>5, <1>9, <1>12
<1> QED
  BY <1>3, <1>6, <1>10, <1>11, <1>12, Moves


-----------------------------------------------------------------------------
(* What is under way *)

\* Steps between the exchanges move no clock and no message.
LEMMA QuietSteps ==
    ASSUME TypeOK, TypeOK', NEW c \in Colors, Move(c),
           \/ Prolog(c) \/ Resize(c) \/ Execute(c) \/ Epilog(c)
           \/ \E x \in Exchanges : EndExchange(c, x)
    PROVE  /\ wire' = wire /\ awaited' = awaited
           /\ \A d \in Colors : Clock(d)' = Clock(d)
<1> USE DEF Goto, data, sizes, flags
<1>1. \A d \in Colors : d # c => Clock(d)' = Clock(d)
  BY OthersStay DEF Clock
<1>2. task[c] \in Nat
  BY Places
<1>3. CASE Prolog(c)
  <2>1. pc[c] = "prolog" /\ pc'[c] = "rowsize" /\ task' = task /\ UNCHANGED <<wire, awaited>>
    BY <1>3 DEF Prolog, TypeOK
  <2> QED BY <1>1, <2>1 DEF Clock, Sent
<1>4. CASE Resize(c)
  <2>1. pc[c] = "resize" /\ pc'[c] = "dense" /\ task' = task /\ UNCHANGED <<wire, awaited>>
    BY <1>4 DEF Resize, TypeOK
  <2> QED BY <1>1, <2>1 DEF Clock, Sent
<1>5. CASE Execute(c)
  <2>1. pc[c] = "user" /\ pc'[c] = "epilog" /\ task' = task /\ UNCHANGED <<wire, awaited>>
    BY <1>5 DEF Execute, TypeOK
  <2> QED BY <1>1, <2>1 DEF Clock, Sent
<1>6. CASE Epilog(c)
  <2>1. /\ pc[c] = "epilog" /\ pc'[c] = "prolog" /\ task'[c] = task[c] + 1
        /\ UNCHANGED <<wire, awaited>>
    BY <1>6 DEF Epilog, TypeOK
  <2>2. Sent(pc[c]) = 3 /\ Sent(pc'[c]) = 0
    BY <2>1 DEF Sent
  <2>3. Clock(c) = 3 * task[c] + 3 /\ Clock(c)' = 3 * (task[c] + 1) + 0
    BY <2>1, <2>2 DEF Clock
  <2>4. Clock(c)' = Clock(c)
    BY <1>2, <2>3
  <2> QED BY <1>1, <2>1, <2>4
<1>7. ASSUME NEW x \in Exchanges, EndExchange(c, x)
      PROVE  UNCHANGED <<wire, awaited>> /\ Clock(c)' = Clock(c)
  <2>1. pc[c] = Waiting[x] /\ pc'[c] = After[x] /\ task' = task /\ UNCHANGED <<wire, awaited>>
    BY <1>7 DEF EndExchange, TypeOK
  <2>2. Sent(pc[c]) = Sent(pc'[c])
    BY <2>1, Clocks
  <2> QED BY <2>1, <2>2 DEF Clock
<1> QED
  BY <1>1, <1>3, <1>4, <1>5, <1>6, <1>7

\* The wires hold what is due if each of them does.
LEMMA WireIs ==
    ASSUME prog' = prog, wire' = [o \in Colors |-> [d \in Colors |-> wire'[o][d]]],
           \A o, d \in Colors :
               wire'[o][d] = Selected([n \in Nat |-> Proper(o, d, n)], Due(o, d)')
    PROVE  WireOK'
<1>1. \A o, d : [n \in Nat |-> Proper(o, d, n)]' = [n \in Nat |-> Proper(o, d, n)]
  BY SameProgram
<1>2. WireOK' <=> wire' = [o \in Colors |-> [d \in Colors |->
                     Selected([n \in Nat |-> Proper(o, d, n)]', Due(o, d)')]]
  BY DEF WireOK, Selected
<1> QED
  BY <1>1, <1>2

\* The shape of the wires.
LEMMA WireShape ==
    ASSUME WireOK
    PROVE  /\ wire = [o \in Colors |-> [d \in Colors |-> wire[o][d]]]
           /\ DOMAIN wire = Colors /\ \A o \in Colors : DOMAIN wire[o] = Colors
  BY DEF WireOK

\* ... which leaves everything as it was.
LEMMA QuietWires ==
    ASSUME WireOK, NoneAhead, prog' = prog, wire' = wire, awaited' = awaited,
           \A d \in Colors : Clock(d)' = Clock(d)
    PROVE  WireOK' /\ NoneAhead'
<1>1. \A o, d \in Colors : Done(d, o)' = Done(d, o)
  BY DEF Done
<1>2. \A o, d, n : Talks(o, d, n)' = Talks(o, d, n)
  BY SameProgram
<1>3. \A o, d \in Colors : Due(o, d)' = Due(o, d)
  <2> SUFFICES ASSUME NEW o \in Colors, NEW d \in Colors PROVE Due(o, d)' = Due(o, d)
    OBVIOUS
  <2>1. Done(d, o)' = Done(d, o) /\ Clock(o)' = Clock(o)
    BY <1>1
  <2>2. Due(o, d)' = {n \in Done(d, o)'..Clock(o)' - 1 : Talks(o, d, n)'}
    BY DEF Due
  <2> QED BY <1>2, <2>1, <2>2 DEF Due
<1>4. NoneAhead'
  <2>1. NoneAhead' <=> \A o, d \in Colors : \A n \in Nat :
                            Talks(o, d, n)' /\ n < Done(d, o)' => n < Clock(o)'
    BY DEF NoneAhead
  <2> QED BY <1>1, <1>2, <2>1 DEF NoneAhead
<1>5. \A o, d \in Colors : wire'[o][d] = Selected([n \in Nat |-> Proper(o, d, n)], Due(o, d)')
  BY <1>3, OnWire
<1>6. wire' = [o \in Colors |-> [d \in Colors |-> wire'[o][d]]]
  BY WireShape
<1> QED
  BY <1>4, <1>5, <1>6, WireIs

\* An exchange without a field is one that nobody talks in.
LEMMA NoExchangeWires ==
    ASSUME TypeOK, CollectedOK, AwaitedOK, NoneAhead, WireOK, NEW c \in Colors,
           Move(c), NEW x \in Exchanges, NoExchange(c, x)
    PROVE  WireOK' /\ NoneAhead'
<1> USE DEF Goto, data, sizes, flags
<1> DEFINE n0 == Stamp(task[c], x)
<1>1. /\ pc[c] = x /\ pc'[c] = After[x] /\ task' = task /\ wire' = wire /\ awaited' = awaited
      /\ collected[c][x] = <<>>
  BY DEF NoExchange, TypeOK
<1>2. Clock(c) = n0 /\ n0 \in Nat /\ awaited[c] = {} /\ pc[c] # "prolog" /\ task[c] \in Nat
  BY <1>1, Clocks, StampIs, Places DEF AwaitedOK
<1>3. Sent(pc'[c]) = Sent(pc[c]) + 1 /\ Sent(pc[c]) \in Int
  BY <1>1, Clocks, Places
<1>4. Clock(c)' = n0 + 1
  <2>1. Clock(c)' = 3 * task[c] + Sent(pc'[c]) /\ Clock(c) = 3 * task[c] + Sent(pc[c])
    BY <1>1 DEF Clock
  <2> QED BY <1>2, <1>3, <2>1
<1>5. \A d \in Colors : d # c => Clock(d)' = Clock(d)
  BY OthersStay DEF Clock
<1>6. \A d \in Colors : Clock(d) \in Nat /\ Clock(d)' \in Nat
  BY <1>2, <1>4, <1>5, Places
<1>7. \A o, d \in Colors : ~Talks(o, d, n0)
  <2>1. ListAt(n0) = <<>>
    BY <1>1, <1>2, StampIs DEF CollectedOK
  <2> QED BY <2>1 DEF Talks, ToSet
<1>8. \A o, d, n : Talks(o, d, n)' = Talks(o, d, n)
  BY ProgramStays, SameProgram
<1>9. \A o, d \in Colors :
          /\ d # c => Done(d, o)' = Done(d, o)
          /\ Done(c, o) = n0 /\ Done(c, o)' = n0 + 1
          /\ Done(d, o) \in Int
  BY <1>1, <1>2, <1>4, <1>5, Places DEF Done
<1>10. \A o, d \in Colors : Due(o, d)' = Due(o, d)
  <2> SUFFICES ASSUME NEW o \in Colors, NEW d \in Colors PROVE Due(o, d)' = Due(o, d)
    OBVIOUS
  <2>1. Due(o, d)' = {n \in Done(d, o)'..Clock(o)' - 1 : Talks(o, d, n)'}
    BY DEF Due
  <2>2. Due(o, d)' = {n \in Done(d, o)'..Clock(o)' - 1 : Talks(o, d, n)}
    BY <1>8, <2>1
  <2>3. /\ Done(d, o)' = Done(d, o) \/ (Done(d, o) = n0 /\ Done(d, o)' = n0 + 1)
        /\ Clock(o)' = Clock(o) \/ (Clock(o) = n0 /\ Clock(o)' = n0 + 1)
    BY <1>2, <1>4, <1>5, <1>9
  <2>4. Done(d, o) \in Int /\ Done(d, o)' \in Int
    BY <1>2, <1>9, <2>3
  <2>5. \A n : /\ n \in Done(d, o)'..Clock(o)' - 1 /\ n # n0 => n \in Done(d, o)..Clock(o) - 1
               /\ n \in Done(d, o)..Clock(o) - 1 /\ n # n0 => n \in Done(d, o)'..Clock(o)' - 1
    BY <1>2, <1>6, <2>3, <2>4
  <2>6. Due(o, d) = {n \in Done(d, o)..Clock(o) - 1 : Talks(o, d, n)}
    BY DEF Due
  <2> QED BY <1>7, <2>2, <2>5, <2>6
<1>11. NoneAhead'
  <2> SUFFICES ASSUME NEW o \in Colors, NEW d \in Colors, NEW n \in Nat,
                      Talks(o, d, n), n < Done(d, o)'
               PROVE  n < Clock(o)'
    BY <1>8 DEF NoneAhead
  <2>1. n # n0
    BY <1>7
  <2>2. n < Done(d, o)
    BY <1>2, <1>9, <2>1
  <2>3. n < Clock(o)
    BY <2>2 DEF NoneAhead
  <2> QED BY <1>2, <1>4, <1>5, <1>6, <2>3
<1>12. \A o, d \in Colors : wire'[o][d] = Selected([n \in Nat |-> Proper(o, d, n)], Due(o, d)')
  BY <1>1, <1>10, OnWire
<1>13. wire' = [o \in Colors |-> [d \in Colors |-> wire'[o][d]]]
  BY <1>1, WireShape
<1> QED
  BY <1>11, <1>12, <1>13, WireIs, ProgramStays

\* The message that is sent is the one the exchange calls for.
LEMMA SendsProper ==
    ASSUME TypeOK, CollectedOK, SharedOK, NEW c \in Colors, NEW u \in Colors,
           NEW x \in Exchanges, pc[c] = x
    PROVE  /\ Message(c, u, x) = Proper(c, u, Stamp(task[c], x))
           /\ (\E f \in ToSet(collected[c][x]) : u \in SharedUsers[f][c])
                  <=> Talks(c, u, Stamp(task[c], x))
<1> DEFINE n == Stamp(task[c], x)
           s == collected[c][x]
<1>1. pc[c] # "prolog" /\ pc[c] # "epilog" /\ task[c] \in Nat
  BY ExchangePlaces, Places
<1>2. s = List(task[c], x) /\ task[c] \in 1..NumTasks /\ task[c] \in 1..NumTasks + 1 /\ s \in Seq(Fields)
  BY <1>1 DEF CollectedOK, TypeOK
<1>3. TaskOf(n) = task[c] /\ KindOf(n) = x /\ ListAt(n) = s
  BY <1>1, <1>2, StampIs
<1>4. ASSUME NEW f \in Fields PROVE Packed(c, x, f) = Newest(task[c], x, f)
  <2>1. IsLatest(prog, shared[c][f], f, task[c]) /\ IsLatestSize(rows[c][f], f, task[c])
    BY <1>1 DEF SharedOK
  <2>2. IsLatest(prog, CHOOSE v \in 0..NumTasks : IsLatest(prog, v, f, task[c]), f, task[c])
    BY <1>2, NewestIs
  <2>3. IsLatestSize(CHOOSE v \in 0..NumTasks : IsLatestSize(v, f, task[c]), f, task[c])
    BY <1>2, NewestIs
  <2>4. /\ shared[c][f] = CHOOSE v \in 0..NumTasks : IsLatest(prog, v, f, task[c])
        /\ rows[c][f] = CHOOSE v \in 0..NumTasks : IsLatestSize(v, f, task[c])
    BY <1>2, <2>1, <2>2, <2>3, NewestIs
  <2> QED BY <2>4 DEF Packed, Newest
<1>5. SentTo(c, u, x) = Between(s, c, u)
  BY DEF SentTo, Between
<1>6. Between(s, c, u) \in Seq(Fields)
  BY <1>2, BetweenIs
<1>7. \A j \in DOMAIN Between(s, c, u) :
          Packed(c, x, Between(s, c, u)[j]) = Newest(task[c], x, Between(s, c, u)[j])
  BY <1>4, <1>6
<1>8. Message(c, u, x) = [kind |-> x, fields |-> Between(s, c, u),
          body |-> [j \in DOMAIN Between(s, c, u) |-> Packed(c, x, Between(s, c, u)[j])]]
  BY <1>5 DEF Message
<1>9. Proper(c, u, n) = [kind |-> x, fields |-> Between(s, c, u),
          body |-> [j \in DOMAIN Between(s, c, u) |-> Newest(task[c], x, Between(s, c, u)[j])]]
  BY <1>3 DEF Proper
<1> QED
  BY <1>3, <1>7, <1>8, <1>9 DEF Talks

\* Sending puts the message of the exchange last on the wire to every user
\* that shares a field of it.
LEMMA SendWires ==
    ASSUME TypeOK, CollectedOK, AwaitedOK, SharedOK, NoneAhead, WireOK, NEW c \in Colors,
           Move(c), NEW x \in Exchanges, Send(c, x)
    PROVE  WireOK' /\ NoneAhead'
<1> USE DEF Goto, data, sizes, flags
<1> DEFINE n0 == Stamp(task[c], x)
           Late(o) == o \in Awaits(c, x)
<1>1. /\ pc[c] = x /\ pc'[c] = Waiting[x] /\ task' = task
      /\ awaited' = [awaited EXCEPT ![c] = Awaits(c, x)]
  BY DEF Send, TypeOK
<1>2. Clock(c) = n0 /\ n0 \in Nat /\ awaited[c] = {} /\ pc[c] # "prolog" /\ task[c] \in Nat
  BY <1>1, Clocks, StampIs, Places DEF AwaitedOK
<1>3. Sent(pc'[c]) = Sent(pc[c]) + 1 /\ Sent(pc[c]) \in Int
  BY <1>1, Clocks, Places
<1>4. Clock(c)' = n0 + 1
  <2>1. Clock(c)' = 3 * task[c] + Sent(pc'[c]) /\ Clock(c) = 3 * task[c] + Sent(pc[c])
    BY <1>1 DEF Clock
  <2> QED BY <1>2, <1>3, <2>1
<1>5. \A d \in Colors : d # c => Clock(d)' = Clock(d) /\ awaited'[d] = awaited[d]
  BY OthersStay DEF Clock
<1>6. \A d \in Colors : Clock(d) \in Nat /\ Clock(d)' \in Nat
  BY <1>2, <1>4, <1>5, Places
<1>7. ASSUME NEW o \in Colors PROVE Late(o) <=> Talks(o, c, n0)
  <2>1. collected[c][x] = ListAt(n0) /\ collected[c][x] \in Seq(Fields)
    BY <1>1, <1>2, StampIs DEF CollectedOK, TypeOK
  <2>2. \A f \in ToSet(collected[c][x]) : f \in Fields
    BY <2>1 DEF ToSet
  <2>3. \A f \in ToSet(collected[c][x]) : o \in GhostOwners[f][c] <=> c \in SharedUsers[f][o]
    BY <2>2, TopologyAssumption
  <2> QED BY <2>1, <2>3 DEF Awaits, Talks
<1>8. \A o, d, n : Talks(o, d, n)' = Talks(o, d, n)
  BY ProgramStays, SameProgram
<1>9. \A o, d \in Colors :
          /\ d # c => Done(d, o)' = Done(d, o)
          /\ Done(c, o) = n0 /\ Done(c, o)' = IF Late(o) THEN n0 ELSE n0 + 1
          /\ Done(d, o) \in Int
  <2>1. awaited'[c] = Awaits(c, x)
    BY <1>1 DEF TypeOK
  <2> QED BY <1>2, <1>4, <1>5, <2>1, Places DEF Done
<1>10. ASSUME NEW o \in Colors, NEW d \in Colors
       PROVE  Due(o, d)' = IF o = c /\ Talks(c, d, n0) THEN Due(o, d) \cup {n0} ELSE Due(o, d)
  <2>1. Due(o, d)' = {n \in Done(d, o)'..Clock(o)' - 1 : Talks(o, d, n)'}
    BY DEF Due
  <2>2. Due(o, d)' = {n \in Done(d, o)'..Clock(o)' - 1 : Talks(o, d, n)}
    BY <1>8, <2>1
  <2>3. Due(o, d) = {n \in Done(d, o)..Clock(o) - 1 : Talks(o, d, n)}
    BY DEF Due
  <2>4. Done(d, o)' = Done(d, o) \/ (~Talks(o, d, n0) /\ Done(d, o) = n0 /\ Done(d, o)' = n0 + 1)
    BY <1>7, <1>9
  <2>5. Done(d, o) \in Int /\ Done(d, o)' \in Int
    BY <1>2, <1>9, <2>4
  <2>6. \A n : n # n0 => (n \in Done(d, o)'..Clock(o)' - 1 <=> n \in Done(d, o)..Clock(o) - 1)
    BY <1>2, <1>4, <1>5, <1>6, <2>4, <2>5
  <2>7. CASE o = c
    <3>1. n0 \notin Done(d, o)..Clock(o) - 1
      BY <1>2, <2>7
    <3>2. Talks(o, d, n0) => n0 \in Done(d, o)'..Clock(o)' - 1
      <4>1. SUFFICES ASSUME Talks(o, d, n0) PROVE n0 \in Done(d, o)'..Clock(o)' - 1
        OBVIOUS
      <4>2. Done(d, o)' = Done(d, o)
        BY <2>4, <4>1
      <4>3. ~(n0 < Done(d, o))
        BY <1>2, <2>7, <4>1 DEF NoneAhead
      <4> QED BY <1>2, <1>4, <2>5, <2>7, <4>2, <4>3
    <3> QED BY <2>2, <2>3, <2>6, <2>7, <3>1, <3>2
  <2>8. CASE o # c
    <3>1. Talks(o, d, n0) => (n0 \in Done(d, o)..Clock(o) - 1 <=> n0 \in Done(d, o)'..Clock(o)' - 1)
      BY <1>5, <2>4, <2>8
    <3> QED BY <2>2, <2>3, <2>6, <2>8, <3>1
  <2> QED BY <2>7, <2>8
<1>11. NoneAhead'
  <2> SUFFICES ASSUME NEW o \in Colors, NEW d \in Colors, NEW n \in Nat,
                      Talks(o, d, n), n < Done(d, o)'
               PROVE  n < Clock(o)'
    BY <1>8 DEF NoneAhead
  <2>1. n < Done(d, o)
    BY <1>2, <1>7, <1>9
  <2>2. n < Clock(o)
    BY <2>1 DEF NoneAhead
  <2> QED BY <1>2, <1>4, <1>5, <1>6, <2>2
<1>12. ASSUME NEW o \in Colors, NEW d \in Colors
       PROVE  wire'[o][d] = IF o = c /\ Talks(c, d, n0)
                            THEN Append(wire[c][d], Proper(c, d, n0)) ELSE wire[o][d]
  <2>1. wire'[c] = [u \in Colors |-> IF \E f \in ToSet(collected[c][x]) : u \in SharedUsers[f][c]
                                     THEN Append(wire[c][u], Message(c, u, x)) ELSE wire[c][u]]
    BY WireShape DEF Send
  <2>2. o # c => wire'[o] = wire[o]
    BY WireShape DEF Send
  <2>3. wire'[c][d] = IF Talks(c, d, n0) THEN Append(wire[c][d], Proper(c, d, n0)) ELSE wire[c][d]
    BY <1>1, <2>1, SendsProper
  <2> QED BY <2>2, <2>3
<1>13. ASSUME NEW o \in Colors, NEW d \in Colors
       PROVE  wire'[o][d] = Selected([n \in Nat |-> Proper(o, d, n)], Due(o, d)')
  <2> DEFINE s == [n \in Nat |-> Proper(o, d, n)]
             I == Due(o, d)
  <2>1. wire[o][d] = Selected(s, I)
    BY OnWire
  <2>2. CASE ~(o = c /\ Talks(c, d, n0))
    BY <1>10, <1>12, <2>1, <2>2
  <2>3. CASE o = c /\ Talks(c, d, n0)
    <3>1. I \in SUBSET Nat /\ IsFiniteSet(I)
      BY DueIs
    <3>2. IsAbove(n0, I)
      <4>1. \A n \in I : n \in Int /\ n <= Clock(o) - 1
        BY <1>6, <1>9 DEF Due
      <4> QED BY <1>2, <2>3, <4>1 DEF IsAbove
    <3>3. At(s, n0) = Proper(c, d, n0)
      BY <1>2, <2>3 DEF At
    <3>4. Selected(s, I \cup {n0}) = Append(Selected(s, I), At(s, n0))
      <4> HIDE DEF s, I, n0
      <4> QED BY <1>2, <3>1, <3>2, SelectedAppend
    <3> QED BY <1>10, <1>12, <2>1, <2>3, <3>3, <3>4
  <2> QED BY <2>2, <2>3
<1>14. wire' = [o \in Colors |-> [d \in Colors |-> wire'[o][d]]]
  <2>1. wire' = [wire EXCEPT ![c] = [u \in Colors |->
           IF \E f \in ToSet(collected[c][x]) : u \in SharedUsers[f][c]
           THEN Append(wire[c][u], Message(c, u, x)) ELSE wire[c][u]]]
    BY WireShape DEF Send
  <2> QED BY <2>1, WireShape
<1> QED
  BY <1>11, <1>13, <1>14, WireIs, ProgramStays

\* Receiving takes the message of the exchange off the wire.
LEMMA ReceiveWires ==
    ASSUME TypeOK, CollectedOK, AwaitedOK, NoneAhead, WireOK, NEW c \in Colors,
           Move(c), NEW x \in Exchanges, NEW p \in Colors, Receive(c, p, x)
    PROVE  /\ WireOK' /\ NoneAhead'
           /\ Done(c, p) = Stamp(task[c], x) /\ Done(c, p)' = Stamp(task[c], x) + 1
           /\ \A o \in Colors : o # p => Done(c, o)' = Done(c, o)
<1> USE DEF data, sizes, flags
<1> DEFINE n0 == Stamp(task[c], x)
<1>1. /\ pc' = pc /\ pc[c] = Waiting[x] /\ task' = task /\ p \in awaited[c] /\ wire[p][c] # <<>>
      /\ awaited' = [awaited EXCEPT ![c] = awaited[c] \ {p}]
  BY DEF Receive, TypeOK
<1>2. \A d \in Colors : Clock(d)' = Clock(d) /\ Clock(d) \in Nat
  BY <1>1, Places DEF Clock
<1>3. /\ n0 \in Due(p, c) /\ n0 \in Nat
      /\ Tail(wire[p][c]) = Selected([m \in Nat |-> Proper(p, c, m)], Due(p, c) \ {n0})
  BY <1>1, FirstMessage, Expected
<1>4. Clock(c) = n0 + 1 /\ n0 < Clock(p)
  <2>1. n0 \in Int /\ n0 <= Clock(p) - 1
    BY <1>2, <1>3, Places DEF Due
  <2> QED BY <1>1, <1>2, <2>1, Clocks
<1>5. /\ Done(c, p) = n0 /\ Done(c, p)' = n0 + 1
      /\ \A o, d \in Colors : (o # p \/ d # c) => Done(d, o)' = Done(d, o)
      /\ \A o, d \in Colors : Done(d, o) \in Int
  <2>1. p \notin awaited'[c] /\ \A o, d \in Colors : (o # p \/ d # c) => (o \in awaited'[d] <=> o \in awaited[d])
    BY <1>1 DEF TypeOK
  <2> QED BY <1>1, <1>2, <1>3, <1>4, <2>1, Places DEF Done
<1>6. \A o, d, n : Talks(o, d, n)' = Talks(o, d, n)
  BY ProgramStays, SameProgram
<1>7. ASSUME NEW o \in Colors, NEW d \in Colors
      PROVE  Due(o, d)' = IF o = p /\ d = c THEN Due(o, d) \ {n0} ELSE Due(o, d)
  <2>1. Due(o, d)' = {n \in Done(d, o)'..Clock(o)' - 1 : Talks(o, d, n)'}
    BY DEF Due
  <2>2. Due(o, d)' = {n \in Done(d, o)'..Clock(o) - 1 : Talks(o, d, n)}
    BY <1>2, <1>6, <2>1
  <2>3. Due(o, d) = {n \in Done(d, o)..Clock(o) - 1 : Talks(o, d, n)}
    BY DEF Due
  <2>4. CASE o = p /\ d = c
    <3>1. \A n : n \in (n0 + 1)..Clock(o) - 1 <=> n \in n0..Clock(o) - 1 /\ n # n0
      BY <1>2, <1>3
    <3> QED BY <1>5, <2>2, <2>3, <2>4, <3>1
  <2>5. CASE ~(o = p /\ d = c)
    BY <1>5, <2>2, <2>3, <2>5
  <2> QED BY <2>4, <2>5
<1>8. NoneAhead'
  <2> SUFFICES ASSUME NEW o \in Colors, NEW d \in Colors, NEW n \in Nat,
                      Talks(o, d, n), n < Done(d, o)'
               PROVE  n < Clock(o)
    BY <1>2, <1>6 DEF NoneAhead
  <2>1. CASE n < Done(d, o)
    BY <2>1 DEF NoneAhead
  <2>2. CASE ~(n < Done(d, o))
    <3>1. o = p /\ d = c /\ n = n0
      BY <1>3, <1>5, <2>2
    <3> QED BY <1>4, <3>1
  <2> QED BY <2>1, <2>2
<1>9. wire' = [wire EXCEPT ![p] = [wire[p] EXCEPT ![c] = Tail(wire[p][c])]]
  BY WireShape DEF Receive
<1>10. ASSUME NEW o \in Colors, NEW d \in Colors
       PROVE  wire'[o][d] = Selected([n \in Nat |-> Proper(o, d, n)], Due(o, d)')
  <2>1. wire'[o][d] = IF o = p /\ d = c THEN Tail(wire[p][c]) ELSE wire[o][d]
    BY <1>9, WireShape
  <2> QED BY <1>3, <1>7, <2>1, OnWire
<1>11. wire' = [o \in Colors |-> [d \in Colors |-> wire'[o][d]]]
  BY <1>9, WireShape
<1> QED
  BY <1>5, <1>8, <1>10, <1>11, WireIs, ProgramStays

\* Whoever moves, the wires hold what is due, and nobody has got ahead.
LEMMA WireStep ==
    ASSUME TypeOK, TypeOK', CollectedOK, AwaitedOK, SharedOK, NoneAhead, WireOK,
           NEW c \in Colors, Move(c)
    PROVE  WireOK' /\ NoneAhead'
<1>1. CASE \/ Prolog(c) \/ Resize(c) \/ Execute(c) \/ Epilog(c)
           \/ \E x \in Exchanges : EndExchange(c, x)
  BY <1>1, QuietSteps, QuietWires, ProgramStays
<1>2. CASE \E x \in Exchanges : NoExchange(c, x)
  BY <1>2, NoExchangeWires
<1>3. CASE \E x \in Exchanges : Send(c, x)
  BY <1>3, SendWires
<1>4. CASE \E x \in Exchanges, o \in Colors : Receive(c, o, x)
  BY <1>4, ReceiveWires
<1> QED
  BY <1>1, <1>2, <1>3, <1>4, Moves

-----------------------------------------------------------------------------
(* The data *)

\* What the steps of an exchange leave as it is.
LEMMA ExchangeKeeps ==
    ASSUME TypeOK, NEW c \in Colors, NEW x \in Exchanges,
           \/ NoExchange(c, x) \/ Send(c, x) \/ EndExchange(c, x)
           \/ \E o \in Colors : Receive(c, o, x)
    PROVE  /\ task' = task /\ shared' = shared /\ rows' = rows /\ ghostRows' = ghostRows
           /\ readable' = readable /\ resized' = resized /\ collected' = collected
           /\ pc[c] \in {x, Waiting[x]} /\ pc'[c] \in {x, Waiting[x], After[x]}
           /\ pc[c] \notin {"prolog", "epilog"} /\ pc'[c] \notin {"prolog", "epilog"}
           /\ pc[c] \in {"rowsize", "rowsize_wait", "resize"}
                  <=> pc'[c] \in {"rowsize", "rowsize_wait", "resize"}
<1> USE DEF Goto, data, sizes, flags
<1>1. CASE NoExchange(c, x)
  BY <1>1, ExchangePlaces DEF NoExchange, TypeOK
<1>2. CASE Send(c, x)
  BY <1>2, ExchangePlaces DEF Send, TypeOK
<1>3. CASE EndExchange(c, x)
  BY <1>3, ExchangePlaces DEF EndExchange, TypeOK
<1>4. ASSUME NEW o \in Colors, Receive(c, o, x)
      PROVE  /\ UNCHANGED <<task, shared, rows, ghostRows, readable, resized, collected, pc>>
             /\ pc[c] = Waiting[x]
  BY <1>4 DEF Receive
<1> QED
  BY <1>1, <1>2, <1>3, <1>4, ExchangePlaces

\* The shared entities hold what the color's own tasks left.
LEMMA SharedStep ==
    ASSUME TypeOK, SharedOK, NEW c \in Colors, Move(c)
    PROVE  SharedOK'
<1> USE DEF Goto, data, sizes, flags
<1> DEFINE OK(d, f, k, v, r) == IsLatest(prog, v, f, k) /\ IsLatestSize(r, f, k)
           upto(d) == IF pc[d] = "epilog" THEN task[d] + 1 ELSE task[d]
           upto2(d) == IF pc'[d] = "epilog" THEN task'[d] + 1 ELSE task'[d]
<1>1. SUFFICES ASSUME NEW d \in Colors, NEW f \in Fields
               PROVE  OK(d, f, upto2(d), shared'[d][f], rows'[d][f])
  BY ProgramStays DEF SharedOK, IsLatestSize
<1>2. OK(d, f, upto(d), shared[d][f], rows[d][f])
  BY DEF SharedOK
<1>3. CASE d # c
  BY <1>2, <1>3, OthersStay
<1>4. CASE d = c /\ Prolog(c)
  BY <1>2, <1>4 DEF Prolog, TypeOK
<1>5. CASE d = c /\ Resize(c)
  BY <1>2, <1>5 DEF Resize, TypeOK
<1>6. CASE d = c /\ Execute(c)
  <2> DEFINE k == task[c]
             t == prog[k]
  <2>1. /\ pc[c] = "user" /\ pc'[c] = "epilog" /\ task' = task
        /\ shared'[c][f] = IF WritesShared(t, f) THEN k ELSE shared[c][f]
        /\ rows'[c][f] = IF Mutates(t, f) THEN k ELSE rows[c][f]
    BY <1>6 DEF Execute, Current, TypeOK
  <2>2. k \in Nat /\ IsLatest(prog, shared[c][f], f, k) /\ IsLatestSize(rows[c][f], f, k)
    BY <1>2, <1>6, <2>1, Places
  <2>3. IsLatest(prog, shared'[c][f], f, k + 1)
    BY <2>1, <2>2, StaysLatest
  <2>4. IsLatestSize(rows'[c][f], f, k + 1)
    BY <2>1, <2>2, StaysLatest
  <2> QED BY <1>6, <2>1, <2>3, <2>4
<1>7. CASE d = c /\ Epilog(c)
  <2>1. /\ pc[c] = "epilog" /\ pc'[c] = "prolog" /\ task'[c] = task[c] + 1
        /\ shared' = shared /\ rows' = rows
    BY <1>7 DEF Epilog, TypeOK
  <2> QED BY <1>2, <1>7, <2>1
<1>8. ASSUME d = c, NEW x \in Exchanges,
             \/ NoExchange(c, x) \/ Send(c, x) \/ EndExchange(c, x)
             \/ \E o \in Colors : Receive(c, o, x)
      PROVE  OK(d, f, upto2(d), shared'[d][f], rows'[d][f])
  BY <1>2, <1>8, ExchangeKeeps
<1> HIDE DEF OK, upto2
<1> QED
  BY <1>3, <1>4, <1>5, <1>6, <1>7, <1>8, Moves

\* Of the arguments that name a field, or read its ghosts, one is the first.
LEMMA FirstArgument ==
    ASSUME prog \in Programs, NEW k \in 1..NumTasks, NEW f
    PROVE  LET t == prog[k] IN
           /\ Names(t, f) => \E i \in DOMAIN t : t[i].field = f /\ Unfetched(t, i)
           /\ ReadsGhost(t, f) => \E i \in DOMAIN t : t[i].field = f /\ Wants(t, i) /\ Unfetched(t, i)
<1> DEFINE t == prog[k]
<1>1. Len(t) \in Nat /\ DOMAIN t = 1..Len(t)
  BY TaskFacts
<1>2. ASSUME NEW S, S \subseteq DOMAIN t, S # {}
      PROVE  \E i \in S : \A j \in 1..i - 1 : j \notin S
  <2>1. S \subseteq Nat
    BY <1>1, <1>2
  <2>2. \E i \in S : \A j \in S : ~(<<j, i>> \in OpToRel(<, Nat))
    BY <1>2, <2>1, NatLessThanWellFounded, WFMin
  <2>3. PICK i \in S : \A j \in S : ~(j < i)
    BY <2>1, <2>2 DEF OpToRel
  <2>4. \A j \in 1..i - 1 : j < i
    BY <2>1
  <2> QED BY <2>3, <2>4
<1>3. ASSUME Names(t, f) PROVE \E i \in DOMAIN t : t[i].field = f /\ Unfetched(t, i)
  <2> DEFINE S == {i \in DOMAIN t : t[i].field = f}
  <2>1. S # {}
    BY <1>3 DEF Names
  <2>2. PICK i \in S : \A j \in 1..i - 1 : j \notin S
    <3>1. S \subseteq DOMAIN t
      OBVIOUS
    <3> HIDE DEF S
    <3> QED BY <1>2, <2>1, <3>1
  <2>3. \A j \in 1..i - 1 : j \in DOMAIN t
    BY <1>1
  <2> QED BY <2>2, <2>3 DEF Unfetched
<1>4. ASSUME ReadsGhost(t, f)
      PROVE  \E i \in DOMAIN t : t[i].field = f /\ Wants(t, i) /\ Unfetched(t, i)
  <2> DEFINE S == {i \in DOMAIN t : t[i].field = f /\ Wants(t, i)}
  <2>1. S # {}
    BY <1>4 DEF ReadsGhost, Wants
  <2>2. PICK i \in S : \A j \in 1..i - 1 : j \notin S
    <3>1. S \subseteq DOMAIN t
      OBVIOUS
    <3> HIDE DEF S
    <3> QED BY <1>2, <2>1, <3>1
  <2>3. \A j \in 1..i - 1 : j \in DOMAIN t
    BY <1>1
  <2> QED BY <2>2, <2>3 DEF Unfetched
<1> QED
  BY <1>3, <1>4

\* Of a field that the task reads and whose ghosts are not readable, the
\* prolog collects the data; of one it names that was resized, the sizes.
LEMMA PrologMisses ==
    ASSUME TypeOK, FlagsOK, NEW c \in Colors, Prolog(c), NEW f \in Fields, ~readable[c][f]
    PROVE  /\ ReadsGhost(prog[task[c]], f) =>
                  f \in ToSet(collected'[c]["dense"]) \/ f \in ToSet(collected'[c]["sparse"])
           /\ resized[c][f] /\ f \in Ragged /\ Names(prog[task[c]], f) =>
                  f \in ToSet(collected'[c]["rowsize"])
<1> DEFINE t == prog[task[c]]
           s == FlagsOf(prog)[task[c]]
<1>1. task[c] \in 1..NumTasks /\ prog \in Programs
  BY PrologCollects DEF TypeOK
<1>2. pc[c] = "prolog"
  BY DEF Prolog
<1>3. (readable[c][f] <=> s.readable[f]) /\ (resized[c][f] <=> s.resized[f])
  BY <1>2 DEF FlagsOK
<1>4. /\ collected'[c]["rowsize"] = List(task[c], "rowsize")
      /\ collected'[c]["dense"] = List(task[c], "dense")
      /\ collected'[c]["sparse"] = List(task[c], "sparse")
  BY PrologCollects DEF Exchanges
<1> HIDE DEF s
<1>5. ReadsGhost(t, f) => f \in ToSet(List(task[c], "dense")) \/ f \in ToSet(List(task[c], "sparse"))
  BY <1>1, <1>3, FirstArgument, ListIs DEF s
<1>6. resized[c][f] /\ f \in Ragged /\ Names(t, f) => f \in ToSet(List(task[c], "rowsize"))
  BY <1>1, <1>3, FirstArgument, ListIs DEF s
<1> QED
  BY <1>4, <1>5, <1>6

\* A message that is to come is still to come, until it is received.
LEMMA PendingStays ==
    ASSUME TypeOK, CollectedOK, AwaitedOK, NoneAhead, WireOK, NEW c \in Colors, Move(c),
           NEW x \in Exchanges,
           \/ NoExchange(c, x) \/ Send(c, x) \/ EndExchange(c, x)
           \/ \E p \in Colors : Receive(c, p, x),
           NEW f \in Fields, NEW o \in GhostOwners[f][c], NEW y \in Exchanges,
           f \in ToSet(collected[c][y]), Done(c, o) <= Stamp(task[c], y)
    PROVE  \/ Done(c, o)' <= Stamp(task[c], y)
           \/ y = x /\ Receive(c, o, x)
<1> USE DEF Goto, data, sizes, flags
<1> DEFINE n0 == Stamp(task[c], x)
<1>0. o \in Colors /\ task[c] \in Nat /\ n0 \in Nat /\ Stamp(task[c], y) \in Nat /\ Clock(c) \in Nat
  BY TopologyAssumption, Places, StampIs
<1>1. y # x => Stamp(task[c], y) # n0
  <2>1. y # x => Number[y] # Number[x]
    BY DEF Exchanges, Number
  <2> QED BY <1>0, <2>1, Clocks DEF Stamp
<1>2. CASE NoExchange(c, x)
  <2>1. /\ pc[c] = x /\ pc'[c] = After[x] /\ task' = task /\ awaited' = awaited
        /\ collected[c][x] = <<>>
    BY <1>2 DEF NoExchange, TypeOK
  <2>2. Clock(c) = n0 /\ awaited[c] = {} /\ Sent(pc'[c]) = Sent(pc[c]) + 1 /\ Sent(pc[c]) \in Int
    BY <2>1, Clocks, Places DEF AwaitedOK
  <2>3. Clock(c)' = n0 + 1
    <3>1. Clock(c)' = 3 * task[c] + Sent(pc'[c]) /\ Clock(c) = 3 * task[c] + Sent(pc[c])
      BY <2>1 DEF Clock
    <3> QED BY <1>0, <2>2, <3>1
  <2>4. Done(c, o) = n0 /\ Done(c, o)' = n0 + 1
    BY <2>1, <2>2, <2>3 DEF Done
  <2>5. y # x
    BY <2>1 DEF ToSet
  <2> QED BY <1>0, <1>1, <2>4, <2>5
<1>3. CASE Send(c, x)
  <2>1. /\ pc[c] = x /\ pc'[c] = Waiting[x] /\ task' = task /\ awaited'[c] = Awaits(c, x)
    BY <1>3 DEF Send, TypeOK
  <2>2. Clock(c) = n0 /\ awaited[c] = {} /\ Sent(pc'[c]) = Sent(pc[c]) + 1 /\ Sent(pc[c]) \in Int
    BY <2>1, Clocks, Places DEF AwaitedOK
  <2>3. Clock(c)' = n0 + 1
    <3>1. Clock(c)' = 3 * task[c] + Sent(pc'[c]) /\ Clock(c) = 3 * task[c] + Sent(pc[c])
      BY <2>1 DEF Clock
    <3> QED BY <1>0, <2>2, <3>1
  <2>4. Done(c, o) = n0 /\ Done(c, o)' = IF o \in Awaits(c, x) THEN n0 ELSE n0 + 1
    BY <1>0, <2>1, <2>2, <2>3 DEF Done
  <2>5. y = x => o \in Awaits(c, x)
    BY DEF Awaits
  <2> QED BY <1>0, <1>1, <2>4, <2>5
<1>4. CASE EndExchange(c, x)
  <2>1. awaited' = awaited /\ Clock(c)' = Clock(c)
    <3>1. TypeOK'
      <4>1. \A d \in Colors : pc'[d] # "prolog" => task[d] \in 1..NumTasks
        BY <1>4, ExchangePlaces DEF EndExchange, TypeOK
      <4>2. After[x] \in States
        BY Clocks
      <4> QED BY <1>4, <4>1, <4>2 DEF EndExchange, TypeOK
    <3> QED BY <1>4, <3>1, QuietSteps
  <2> QED BY <2>1 DEF Done
<1>5. ASSUME NEW p \in Colors, Receive(c, p, x)
      PROVE  \/ Done(c, o)' <= Stamp(task[c], y)
             \/ y = x /\ Receive(c, o, x)
  <2>1. /\ Done(c, p) = n0 /\ Done(c, p)' = n0 + 1
        /\ \A q \in Colors : q # p => Done(c, q)' = Done(c, q)
    BY <1>5, ReceiveWires
  <2>2. CASE o # p
    BY <1>0, <2>1, <2>2
  <2>3. CASE o = p
    BY <1>0, <1>1, <1>5, <2>1, <2>3
  <2> QED BY <2>2, <2>3
<1> QED
  BY <1>2, <1>3, <1>4, <1>5

\* A ghost that the epilog leaves readable holds the last version.
LEMMA EpilogLeaves ==
    ASSUME TypeOK, AwaitedOK, GhostOK, NEW c \in Colors, pc[c] = "epilog",
           NEW f \in Fields, NEW o \in GhostOwners[f][c], ReadableAfter(c, f)
    PROVE  IsLatest(prog, ghost[c][f][o], f, task[c] + 1)
<1> DEFINE k == task[c]
           t == prog[k]
           at == {i \in DOMAIN t : t[i].field = f /\ Decides(t[i])}
<1>0. o \in Colors /\ k \in Nat
  BY Places, TopologyAssumption
<1>1. k \in 1..NumTasks /\ k \in Nat /\ prog \in Programs /\ o \in Colors
  BY <1>0 DEF TypeOK
<1>2. Len(t) \in Nat /\ DOMAIN t = 1..Len(t) /\ (WritesGhost(t, f) => WritesShared(t, f))
  BY <1>1, TaskFacts
<1>3. \A i \in DOMAIN t : t[i].kind \in {"accessor", "mutator"}
  BY <1>1, TaskFacts
<1>4. CASE at = {}
  <2>1. readable[c][f] /\ ~Mutates(t, f)
    BY <1>4 DEF ReadableAfter, Current
  <2>2. ~WritesShared(t, f)
    <3>1. ASSUME NEW i \in DOMAIN t, t[i].field = f, t[i].sp \in {"wo", "rw"} PROVE FALSE
      <4>1. t[i].kind = "accessor" => i \in at
        BY <3>1 DEF Decides
      <4>2. t[i].kind = "mutator" => Mutates(t, f)
        BY <3>1 DEF Mutates
      <4> QED BY <1>3, <1>4, <2>1, <4>1, <4>2
    <3> QED BY <3>1 DEF WritesShared
  <2>3. ~WritesGhost(t, f)
    BY <1>2, <2>2
  <2>4. ~Pending(c, f, o, "dense") /\ ~Pending(c, f, o, "sparse")
    <3>1. awaited[c] = {} /\ Sent(pc[c]) = 3
      BY DEF AwaitedOK, Sent
    <3>2. Done(c, o) = 3 * k + 3
      BY <3>1 DEF Done, Clock
    <3> QED BY <1>1, <3>2 DEF Pending, Stamp, Number
  <2>5. IsLatest(prog, ghost[c][f][o], f, k)
    BY <2>1, <2>3, <2>4 DEF GhostOK
  <2> QED BY <1>1, <2>2, <2>5, StaysLatest
<1>5. CASE at # {}
  <2>1. at \subseteq 1..Len(t)
    BY <1>2
  <2>2. \E m \in at : \A j \in at : j <= m
    <3> HIDE DEF at
    <3> QED BY <1>2, <1>5, <2>1, GreatestExists
  <2> DEFINE last == CHOOSE i \in at : \A j \in at : j <= i
  <2>3. last \in at
    <3> HIDE DEF at
    <3> QED BY <2>2
  <2>4. t[last].gp \in {"rw", "wo"}
    BY <1>5 DEF ReadableAfter, Current
  <2>5. WritesGhost(t, f)
    <3> HIDE DEF last
    <3> QED BY <2>3, <2>4 DEF WritesGhost
  <2>6. ghost[c][f][o] = k
    BY <2>5 DEF GhostOK
  <2>7. IsLatest(prog, k, f, k + 1)
    BY <1>1, <1>2, <2>5, StaysLatest
  <2> QED BY <2>6, <2>7
<1> QED
  BY <1>4, <1>5

\* Readable ghosts stay up to date, or are going to be.
LEMMA GhostStep ==
    ASSUME TypeOK, TypeOK', FlagsOK, CollectedOK, AwaitedOK, NoneAhead, WireOK, GhostOK,
           NEW c \in Colors, Move(c)
    PROVE  GhostOK'
<1> USE DEF Goto, data, sizes, flags
<1> DEFINE Pends(d, f, o, x) == f \in ToSet(collected'[d][x]) /\ Done(d, o)' <= Stamp(task'[d], x)
           New(d, f, o) ==
               IF pc'[d] = "epilog" /\ WritesGhost(prog[task'[d]], f)
               THEN ghost'[d][f][o] = task'[d]
               ELSE readable'[d][f] /\ ~Pends(d, f, o, "dense") /\ ~Pends(d, f, o, "sparse")
                       => IsLatest(prog, ghost'[d][f][o], f, task'[d])
           Old(d, f, o) ==
               IF pc[d] = "epilog" /\ WritesGhost(prog[task[d]], f)
               THEN ghost[d][f][o] = task[d]
               ELSE readable[d][f] /\ ~Pending(d, f, o, "dense") /\ ~Pending(d, f, o, "sparse")
                       => IsLatest(prog, ghost[d][f][o], f, task[d])
<1>1. SUFFICES ASSUME NEW d \in Colors, NEW f \in Fields, NEW o \in GhostOwners[f][d]
               PROVE  New(d, f, o)
  BY ProgramStays DEF GhostOK, Pending, Stamp
<1>2. Old(d, f, o)
  BY DEF GhostOK
<1>3. o \in Colors /\ task[d] \in Nat
  BY TopologyAssumption, Places
<1>4. CASE d # c
  <2>1. Done(d, o)' = Done(d, o)
    BY <1>4, OthersStay DEF Done, Clock
  <2> QED BY <1>2, <1>4, <2>1, OthersStay DEF Pending
<1>5. \/ Prolog(c) \/ Resize(c) \/ Execute(c) \/ Epilog(c)
      \/ \E x \in Exchanges : EndExchange(c, x)
      => Done(c, o)' = Done(c, o)
  BY <1>3, QuietSteps DEF Done
<1>6. CASE d = c /\ Prolog(c)
  <2>1. /\ pc[c] = "prolog" /\ pc'[c] = "rowsize" /\ task' = task /\ ghost' = ghost
        /\ readable'[c][f] = (readable[c][f] \/ ReadsGhost(prog[task[c]], f))
    BY <1>6 DEF Prolog, TypeOK, Current
  <2>2. CASE readable[c][f]
    <3>1. collected[c]["dense"] = <<>> /\ collected[c]["sparse"] = <<>>
      BY <2>1 DEF CollectedOK, Exchanges
    <3>2. ~Pending(c, f, o, "dense") /\ ~Pending(c, f, o, "sparse")
      BY <3>1 DEF Pending, ToSet
    <3> QED BY <1>2, <1>6, <2>1, <2>2, <3>2
  <2>3. CASE ~readable[c][f] /\ ReadsGhost(prog[task[c]], f)
    <3>1. f \in ToSet(collected'[c]["dense"]) \/ f \in ToSet(collected'[c]["sparse"])
      BY <1>6, <2>3, PrologMisses
    <3>2. awaited[c] = {} /\ Sent(pc[c]) = 0
      BY <2>1 DEF AwaitedOK, Sent
    <3>3. Done(c, o) = 3 * task[c] + 0
      BY <1>6, <3>2 DEF Done, Clock
    <3>4. Done(c, o)' <= Stamp(task'[c], "dense") /\ Done(c, o)' <= Stamp(task'[c], "sparse")
      BY <1>3, <1>5, <1>6, <2>1, <3>3 DEF Stamp, Number
    <3> QED BY <1>6, <2>1, <3>1, <3>4
  <2> QED BY <1>6, <2>1, <2>2, <2>3
<1>7. CASE d = c /\ Resize(c)
  <2>1. /\ pc[c] = "resize" /\ pc'[c] = "dense"
        /\ UNCHANGED <<task, ghost, readable, collected>>
    BY <1>7 DEF Resize, TypeOK
  <2> QED BY <1>2, <1>5, <1>7, <2>1 DEF Pending
<1>8. CASE d = c /\ Execute(c)
  <2>1. /\ pc[c] = "user" /\ pc'[c] = "epilog" /\ UNCHANGED <<task, readable, collected>>
        /\ ghost'[c][f] = IF WritesGhost(prog[task[c]], f) THEN [p \in Colors |-> task[c]]
                          ELSE ghost[c][f]
    BY <1>8 DEF Execute, TypeOK, Current
  <2>2. CASE WritesGhost(prog[task[c]], f)
    BY <1>3, <1>8, <2>1, <2>2
  <2>3. CASE ~WritesGhost(prog[task[c]], f)
    BY <1>2, <1>5, <1>8, <2>1, <2>3 DEF Pending
  <2> QED BY <2>2, <2>3
<1>9. CASE d = c /\ Epilog(c)
  <2>1. /\ pc[c] = "epilog" /\ pc'[c] = "prolog" /\ task'[c] = task[c] + 1
        /\ ghost' = ghost /\ readable'[c][f] = ReadableAfter(c, f)
    BY <1>9 DEF Epilog, TypeOK
  <2> QED BY <1>9, <2>1, EpilogLeaves
<1>10. ASSUME d = c, NEW x \in Exchanges,
              \/ NoExchange(c, x) \/ Send(c, x) \/ EndExchange(c, x)
              \/ \E p \in Colors : Receive(c, p, x)
       PROVE  New(d, f, o)
  <2>1. /\ task' = task /\ readable' = readable /\ collected' = collected
        /\ pc[c] # "epilog" /\ pc'[c] # "epilog"
    BY <1>10, ExchangeKeeps
  <2>2. SUFFICES ASSUME readable[c][f], ~Pends(c, f, o, "dense"), ~Pends(c, f, o, "sparse")
                 PROVE  IsLatest(prog, ghost'[c][f][o], f, task[c])
    BY <1>10, <2>1
  <2>3. ASSUME NEW y \in {"dense", "sparse"}, Pending(c, f, o, y)
        PROVE  y = x /\ Receive(c, o, x)
    <3>1. y \in Exchanges /\ ~(Done(c, o)' <= Stamp(task[c], y)) /\ f \in ToSet(collected[c][y])
      BY <2>1, <2>2, <2>3 DEF Exchanges, Pending
    <3>2. Done(c, o) <= Stamp(task[c], y) /\ o \in GhostOwners[f][c]
      BY <1>10, <2>3 DEF Pending
    <3> QED BY <1>10, <3>1, <3>2, PendingStays
  <2>4. CASE \E y \in {"dense", "sparse"} : Pending(c, f, o, y)
    <3>1. x # "rowsize" /\ f \in ToSet(collected[c][x]) /\ Receive(c, o, x)
      BY <2>3, <2>4 DEF Pending
    <3> QED BY <1>3, <1>10, <3>1, ReceiveBrings
  <2>5. CASE ~\E y \in {"dense", "sparse"} : Pending(c, f, o, y)
    <3>1. IsLatest(prog, ghost[c][f][o], f, task[c])
      BY <1>2, <1>10, <2>1, <2>2, <2>5
    <3>2. CASE \E p \in Colors : Receive(c, p, x)
      <4>1. PICK p \in Colors : Receive(c, p, x)
        BY <3>2
      <4>2. ghost'[c][f][o] = ghost[c][f][o] \/ IsLatest(prog, ghost'[c][f][o], f, task[c])
        BY <1>3, <4>1, ReceiveBrings
      <4> QED BY <3>1, <4>2
    <3>3. CASE NoExchange(c, x) \/ Send(c, x) \/ EndExchange(c, x)
      <4>1. ghost' = ghost
        BY <3>3 DEF NoExchange, Send, EndExchange
      <4> QED BY <3>1, <4>1
    <3> QED BY <1>10, <3>2, <3>3
  <2> QED BY <2>4, <2>5
<1> HIDE DEF New
<1> QED
  BY <1>4, <1>6, <1>7, <1>8, <1>9, <1>10, Moves

\* What was resized is ragged and unreadable until a task names it.
LEMMA ResizedStep ==
    ASSUME TypeOK, FlagsOK, CollectedOK, ResizedOK, NEW c \in Colors, Move(c)
    PROVE  ResizedOK'
<1> USE DEF Goto, data, sizes, flags
<1> DEFINE places == {"rowsize", "rowsize_wait", "resize"}
           New(d, f) == resized'[d][f] =>
               /\ f \in Ragged
               /\ readable'[d][f] => pc'[d] \in places /\ Names(prog[task'[d]], f)
               /\ pc'[d] \in places /\ Names(prog[task'[d]], f) => f \in ToSet(collected'[d]["rowsize"])
               /\ pc'[d] # "prolog" /\ Names(prog[task'[d]], f) => pc'[d] \in places
           Old(d, f) == resized[d][f] =>
               /\ f \in Ragged
               /\ readable[d][f] => pc[d] \in places /\ Names(prog[task[d]], f)
               /\ pc[d] \in places /\ Names(prog[task[d]], f) => f \in ToSet(collected[d]["rowsize"])
               /\ pc[d] # "prolog" /\ Names(prog[task[d]], f) => pc[d] \in places
<1>1. SUFFICES ASSUME NEW d \in Colors, NEW f \in Fields PROVE New(d, f)
  BY ProgramStays DEF ResizedOK
<1>2. Old(d, f)
  BY DEF ResizedOK
<1>3. CASE d # c
  BY <1>2, <1>3, OthersStay
<1>4. CASE d = c /\ Prolog(c)
  <2>1. /\ pc[c] = "prolog" /\ pc'[c] = "rowsize" /\ task' = task /\ resized' = resized
        /\ readable'[c][f] = (readable[c][f] \/ ReadsGhost(prog[task[c]], f))
    BY <1>4 DEF Prolog, TypeOK, Current
  <2>2. ReadsGhost(prog[task[c]], f) => Names(prog[task[c]], f)
    BY DEF ReadsGhost, Names
  <2>3. SUFFICES ASSUME resized[c][f] PROVE New(d, f)
    BY <1>4, <2>1
  <2>4. f \in Ragged /\ ~readable[c][f]
    BY <1>2, <1>4, <2>1, <2>3
  <2>5. Names(prog[task[c]], f) => f \in ToSet(collected'[c]["rowsize"])
    BY <1>4, <2>3, <2>4, PrologMisses
  <2> QED BY <1>4, <2>1, <2>2, <2>4, <2>5
<1>5. CASE d = c /\ Resize(c)
  <2>1. /\ pc[c] = "resize" /\ pc'[c] = "dense" /\ task' = task /\ readable' = readable
        /\ resized'[c][f] = (resized[c][f] /\ ~(f \in Ragged /\ resized[c][f]
                                                  /\ Names(prog[task[c]], f)))
    BY <1>5 DEF Resize, TypeOK, Current, Names
  <2> QED BY <1>2, <1>5, <2>1
<1>6. CASE d = c /\ Execute(c)
  <2>1. /\ pc[c] = "user" /\ pc'[c] = "epilog"
        /\ UNCHANGED <<task, readable, resized, collected>>
    BY <1>6 DEF Execute, TypeOK
  <2> QED BY <1>2, <1>6, <2>1
<1>7. CASE d = c /\ Epilog(c)
  <2> DEFINE t == prog[task[c]]
  <2>1. /\ pc[c] = "epilog" /\ pc'[c] = "prolog"
        /\ readable'[c][f] = ReadableAfter(c, f)
        /\ resized'[c][f] = (resized[c][f] \/ Mutates(t, f))
    BY <1>7 DEF Epilog, TypeOK, Current
  <2>2. CASE Mutates(t, f)
    <3>1. task[c] \in 1..NumTasks /\ prog \in Programs
      BY <2>1 DEF TypeOK
    <3>2. f \in Ragged
      BY <2>2, <3>1, TaskFacts DEF Mutates
    <3>3. ~ReadableAfter(c, f)
      BY <2>2 DEF ReadableAfter, Current
    <3> QED BY <1>7, <2>1, <3>2, <3>3
  <2>3. CASE ~Mutates(t, f) /\ resized[c][f]
    <3>1. f \in Ragged /\ ~readable[c][f] /\ ~Names(t, f)
      BY <1>2, <1>7, <2>1, <2>3
    <3>2. {i \in DOMAIN t : t[i].field = f /\ Decides(t[i])} = {}
      BY <3>1 DEF Names
    <3>3. ~ReadableAfter(c, f)
      BY <3>1, <3>2 DEF ReadableAfter, Current
    <3> QED BY <1>7, <2>1, <3>1, <3>3
  <2>4. CASE ~Mutates(t, f) /\ ~resized[c][f]
    BY <1>7, <2>1, <2>4
  <2> QED BY <2>2, <2>3, <2>4
<1>8. ASSUME d = c, NEW x \in Exchanges,
             \/ NoExchange(c, x) \/ Send(c, x) \/ EndExchange(c, x)
             \/ \E p \in Colors : Receive(c, p, x)
      PROVE  New(d, f)
  BY <1>2, <1>8, ExchangeKeeps
<1> HIDE DEF New
<1> QED
  BY <1>3, <1>4, <1>5, <1>6, <1>7, <1>8, Moves

\* The sizes of the ghost rows stay their owners'.
LEMMA RowsStep ==
    ASSUME TypeOK, TypeOK', FlagsOK, CollectedOK, AwaitedOK, NoneAhead, WireOK, ResizedOK, RowsOK,
           NEW c \in Colors, Move(c)
    PROVE  RowsOK'
<1> USE DEF Goto, data, sizes, flags
<1> DEFINE New(d, f, o) ==
               /\ \/ ~resized'[d][f]
                  \/ f \in ToSet(collected'[d]["rowsize"]) /\ Done(d, o)' > Stamp(task'[d], "rowsize")
                  => IsLatestSize(rowSizes'[d][f][o], f, task'[d])
               /\ ~resized'[d][f] => IsLatestSize(ghostRows'[d][f][o], f, task'[d])
           Old(d, f, o) ==
               /\ \/ ~resized[d][f]
                  \/ f \in ToSet(collected[d]["rowsize"]) /\ Done(d, o) > Stamp(task[d], "rowsize")
                  => IsLatestSize(rowSizes[d][f][o], f, task[d])
               /\ ~resized[d][f] => IsLatestSize(ghostRows[d][f][o], f, task[d])
<1>1. SUFFICES ASSUME NEW d \in Colors, NEW f \in Fields, NEW o \in GhostOwners[f][d]
               PROVE  New(d, f, o)
  BY ProgramStays DEF RowsOK, IsLatestSize, Stamp
<1>2. Old(d, f, o)
  BY DEF RowsOK
<1>3. o \in Colors /\ task[d] \in Nat /\ Done(d, o) \in Int
  BY TopologyAssumption, Places
<1>4. CASE d # c
  <2>1. Done(d, o)' = Done(d, o)
    BY <1>4, OthersStay DEF Done, Clock
  <2> QED BY <1>2, <1>4, <2>1, OthersStay
<1>5. Prolog(c) \/ Resize(c) \/ Execute(c) \/ Epilog(c) => Done(c, o)' = Done(c, o)
  BY <1>3, QuietSteps DEF Done
<1>6. CASE d = c /\ Prolog(c)
  <2>1. /\ pc[c] = "prolog" /\ UNCHANGED <<task, rowSizes, ghostRows, resized>>
    BY <1>6 DEF Prolog
  <2>2. awaited[c] = {} /\ Sent(pc[c]) = 0
    BY <2>1 DEF AwaitedOK, Sent
  <2>3. Done(c, o) = 3 * task[c] + 0
    BY <1>6, <2>2 DEF Done, Clock
  <2>4. ~(Done(c, o)' > Stamp(task'[c], "rowsize"))
    BY <1>3, <1>5, <1>6, <2>1, <2>3 DEF Stamp, Number
  <2> QED BY <1>2, <1>6, <2>1, <2>4
<1>7. CASE d = c /\ Resize(c)
  <2> DEFINE stale == f \in Ragged /\ resized[c][f] /\ Names(prog[task[c]], f)
  <2>1. /\ pc[c] = "resize" /\ UNCHANGED <<task, rowSizes, collected>>
        /\ resized'[c][f] = (resized[c][f] /\ ~stale)
        /\ ghostRows'[c][f] = IF stale THEN rowSizes[c][f] ELSE ghostRows[c][f]
    BY <1>7 DEF Resize, TypeOK, Current, Names
  <2>2. awaited[c] = {} /\ Sent(pc[c]) = 1
    BY <2>1 DEF AwaitedOK, Sent
  <2>3. Done(c, o) = 3 * task[c] + 1
    BY <1>7, <2>2 DEF Done, Clock
  <2>4. Done(c, o) > Stamp(task[c], "rowsize")
    BY <1>3, <1>7, <2>3 DEF Stamp, Number
  <2>5. stale => f \in ToSet(collected[c]["rowsize"])
    BY <2>1 DEF ResizedOK
  <2>6. stale => IsLatestSize(rowSizes[c][f][o], f, task[c])
    BY <1>2, <1>7, <2>4, <2>5
  <2> HIDE DEF stale
  <2> QED BY <1>2, <1>5, <1>7, <2>1, <2>6
<1>8. CASE d = c /\ Execute(c)
  <2>1. UNCHANGED <<task, rowSizes, ghostRows, resized, collected>>
    BY <1>8 DEF Execute
  <2> QED BY <1>2, <1>5, <1>8, <2>1
<1>9. CASE d = c /\ Epilog(c)
  <2>1. /\ pc[c] = "epilog" /\ task'[c] = task[c] + 1
        /\ rowSizes' = rowSizes /\ ghostRows' = ghostRows
        /\ resized'[c][f] = (resized[c][f] \/ Mutates(prog[task[c]], f))
        /\ collected'[c]["rowsize"] = <<>>
    BY <1>9 DEF Epilog, TypeOK, Current, Exchanges
  <2>2. f \notin ToSet(collected'[c]["rowsize"])
    BY <2>1 DEF ToSet
  <2>3. CASE resized'[c][f]
    BY <1>9, <2>2, <2>3
  <2>4. CASE ~resized'[c][f]
    <3>1. ~resized[c][f] /\ ~Mutates(prog[task[c]], f)
      BY <2>1, <2>4
    <3>2. IsLatestSize(rowSizes[c][f][o], f, task[c] + 1)
      BY <1>2, <1>3, <1>9, <3>1, StaysLatest
    <3>3. IsLatestSize(ghostRows[c][f][o], f, task[c] + 1)
      BY <1>2, <1>3, <1>9, <3>1, StaysLatest
    <3> QED BY <1>9, <2>1, <3>2, <3>3
  <2> QED BY <2>3, <2>4
<1>10. ASSUME d = c, NEW x \in Exchanges,
              \/ NoExchange(c, x) \/ Send(c, x) \/ EndExchange(c, x)
              \/ \E p \in Colors : Receive(c, p, x)
       PROVE  New(d, f, o)
  <2>1. /\ task' = task /\ resized' = resized /\ collected' = collected /\ ghostRows' = ghostRows
    BY <1>10, ExchangeKeeps
  <2> DEFINE S == Stamp(task[c], "rowsize")
             listed == f \in ToSet(collected[c]["rowsize"])
  <2>2. SUFFICES ASSUME ~resized[c][f] \/ (listed /\ Done(c, o)' > S)
                 PROVE  IsLatestSize(rowSizes'[c][f][o], f, task[c])
    BY <1>2, <1>10, <2>1
  <2>3. CASE listed /\ x = "rowsize" /\ Receive(c, o, x)
    BY <1>3, <1>10, <2>3, ReceiveBrings
  <2>4. CASE ~(listed /\ x = "rowsize" /\ Receive(c, o, x))
    <3>1. ~resized[c][f] \/ (listed /\ Done(c, o) > S)
      <4>1. SUFFICES ASSUME listed, Done(c, o) <= S, Done(c, o)' > S PROVE FALSE
        BY <1>3, <1>10, <2>2, StampIs DEF Exchanges
      <4>2. "rowsize" \in Exchanges /\ S \in Nat /\ o \in GhostOwners[f][c]
        BY <1>3, <1>10, StampIs DEF Exchanges
      <4>3. Done(c, o)' <= S
        BY <1>10, <2>4, <4>1, <4>2, PendingStays
      <4>4. Done(c, o)' \in Int
        <5>1. task'[c] \in Nat /\ Sent(pc'[c]) \in 0..3
          BY <1>3, <1>10, <2>1 DEF Sent
        <5> QED BY <5>1 DEF Done, Clock
      <4> QED BY <4>1, <4>2, <4>3, <4>4
    <3>2. IsLatestSize(rowSizes[c][f][o], f, task[c])
      BY <1>2, <1>10, <3>1
    <3>3. CASE \E p \in Colors : Receive(c, p, x)
      <4>1. PICK p \in Colors : Receive(c, p, x)
        BY <3>3
      <4>2. rowSizes'[c][f][o] = rowSizes[c][f][o]
        BY <1>3, <2>4, <4>1, ReceiveBrings
      <4> QED BY <3>2, <4>2
    <3>4. CASE NoExchange(c, x) \/ Send(c, x) \/ EndExchange(c, x)
      <4>1. rowSizes' = rowSizes
        BY <3>4 DEF NoExchange, Send, EndExchange
      <4> QED BY <3>2, <4>1
    <3> QED BY <1>10, <3>3, <3>4
  <2> QED BY <2>3, <2>4
<1> HIDE DEF New
<1> QED
  BY <1>4, <1>6, <1>7, <1>8, <1>9, <1>10, Moves

-----------------------------------------------------------------------------
(* Theorems *)

\* At the user function every exchange of the task is done.
LEMMA AllReceived ==
    ASSUME TypeOK, AwaitedOK, NEW c \in Colors, pc[c] = "user", NEW f, NEW o \in Colors,
           NEW x \in Exchanges
    PROVE  ~Pending(c, f, o, x)
<1>1. awaited[c] = {} /\ Sent(pc[c]) = 3 /\ task[c] \in Nat
  BY Places DEF AwaitedOK, Sent
<1>2. Done(c, o) = 3 * task[c] + 3
  BY <1>1 DEF Done, Clock
<1>3. Number[x] \in 0..2
  BY Clocks
<1> QED
  BY <1>1, <1>2, <1>3 DEF Pending, Stamp

LEMMA IInvInit == Init => IInv
<1> SUFFICES ASSUME Init PROVE IInv
  OBVIOUS
<1>1. TypeOK
  BY TypeInit
<1>2. \A c \in Colors : task[c] = 1 /\ pc[c] = "prolog" /\ awaited[c] = {}
  BY DEF Init
<1>3. \A c \in Colors : Clock(c) = 3
  <2> SUFFICES ASSUME NEW c \in Colors PROVE Clock(c) = 3
    OBVIOUS
  <2>1. task[c] = 1 /\ Sent(pc[c]) = 0
    BY <1>2 DEF Sent
  <2> QED BY <2>1 DEF Clock
<1>4. \A o, c \in Colors : Done(c, o) = 3
  BY <1>2, <1>3 DEF Done
<1>5. FlagsOK
  <2> DEFINE F == FlagsOf(prog)
  <2>1. F[1] = FirstFlags
    BY FlagsOfIs
  <2> HIDE DEF F
  <2>2. \A f \in Fields : F[1].readable[f] = TRUE /\ F[1].resized[f] = FALSE
    BY <2>1 DEF FirstFlags
  <2>3. \A c \in Colors, f \in Fields :
            readable[c][f] = TRUE /\ resized[c][f] = FALSE /\ task[c] = 1 /\ pc[c] = "prolog"
    BY DEF Init
  <2>4. ASSUME NEW c \in Colors, NEW f \in Fields
        PROVE  /\ readable[c][f] = (F[task[c]].readable[f]
                                    \/ (pc[c] # "prolog" /\ ReadsGhost(prog[task[c]], f)))
               /\ resized[c][f] = IF pc[c] \in {"prolog", "rowsize", "rowsize_wait", "resize"}
                                  THEN F[task[c]].resized[f]
                                  ELSE Kept(prog[task[c]], f, F[task[c]].resized[f])
    <3>1. readable[c][f] = TRUE /\ resized[c][f] = FALSE /\ task[c] = 1 /\ pc[c] = "prolog"
      BY <2>3
    <3>2. F[task[c]].readable[f] = TRUE /\ F[task[c]].resized[f] = FALSE
      BY <2>2, <3>1
    <3> QED BY <3>1, <3>2
  <2> QED BY <2>4 DEF FlagsOK, F
<1>6. CollectedOK /\ AwaitedOK
  <2>1. \A x \in Exchanges : Waiting[x] # "prolog"
    BY ExchangePlaces
  <2> QED BY <1>2, <2>1 DEF Init, CollectedOK, AwaitedOK
<1>7. NoneAhead
  BY <1>3, <1>4 DEF NoneAhead
<1>8. WireOK
  <2>1. ASSUME NEW o \in Colors, NEW c \in Colors
        PROVE  Selected([n \in Nat |-> Proper(o, c, n)], Due(o, c)) = <<>>
    <3> DEFINE s == [n \in Nat |-> Proper(o, c, n)]
               I == Due(o, c)
    <3>1. I = {}
      BY <1>3, <1>4 DEF Due
    <3>2. I \in SUBSET Nat /\ IsFiniteSet(I)
      BY <1>1, DueIs
    <3> HIDE DEF s, I
    <3>3. Selected(s, I) = <<>> <=> I = {}
      BY <3>2, SelectedElements
    <3> QED BY <3>1, <3>3 DEF s, I
  <2>2. wire = [o \in Colors |-> [c \in Colors |-> <<>>]]
    BY DEF Init
  <2> QED BY <2>1, <2>2 DEF WireOK
<1>9. SharedOK
  BY <1>2 DEF Init, SharedOK, IsLatest, IsLatestSize
<1>10. GhostOK
  <2>1. ASSUME NEW c \in Colors, NEW f \in Fields, NEW o \in GhostOwners[f][c]
        PROVE  ghost[c][f][o] = 0 /\ task[c] = 1 /\ pc[c] = "prolog"
    <3>1. o \in Colors
      BY TopologyAssumption
    <3> QED BY <3>1 DEF Init
  <2>2. \A f : IsLatest(prog, 0, f, 1)
    BY DEF IsLatest
  <2> QED BY <2>1, <2>2 DEF GhostOK
<1>11. ResizedOK
  BY DEF Init, ResizedOK
<1>12. RowsOK
  <2>1. ASSUME NEW c \in Colors, NEW f \in Fields, NEW o \in GhostOwners[f][c]
        PROVE  rowSizes[c][f][o] = 0 /\ ghostRows[c][f][o] = 0 /\ task[c] = 1
    <3>1. o \in Colors
      BY TopologyAssumption
    <3> QED BY <3>1 DEF Init
  <2>2. \A f : IsLatestSize(0, f, 1)
    BY DEF IsLatestSize
  <2> QED BY <2>1, <2>2 DEF RowsOK
<1> QED
  BY <1>1, <1>5, <1>6, <1>7, <1>8, <1>9, <1>10, <1>11, <1>12 DEF IInv

LEMMA IInvNext == IInv /\ [Next]_vars => IInv'
<1> SUFFICES ASSUME IInv, [Next]_vars PROVE IInv'
  OBVIOUS
<1>1. CASE UNCHANGED vars
  <2>1. /\ UNCHANGED <<prog, task, pc, shared, ghost, rows, ghostRows, rowSizes>>
        /\ UNCHANGED <<readable, resized, collected, awaited, wire, seen>>
    BY <1>1 DEF vars, data, sizes, flags
  <2>2. \A c \in Colors : Clock(c)' = Clock(c)
    BY <2>1 DEF Clock
  <2>3. WireOK' /\ NoneAhead'
    BY <2>1, <2>2, QuietWires DEF IInv
  <2>4. TypeOK'
    BY <2>1 DEF IInv, TypeOK
  <2>5. \A c, o \in Colors : Done(c, o)' = Done(c, o)
    BY <2>1, <2>2 DEF Done
  <2>6. FlagsOK' /\ CollectedOK'
    BY <2>1 DEF IInv, FlagsOK, CollectedOK, List
  <2>7. AwaitedOK' /\ SharedOK' /\ ResizedOK'
    BY <2>1 DEF IInv, AwaitedOK, Awaits, SharedOK, IsLatestSize, ResizedOK
  <2>8. GhostOK' /\ RowsOK'
    <3>1. \A c \in Colors, f \in Fields : \A o \in GhostOwners[f][c] : Done(c, o)' = Done(c, o)
      BY <2>5, TopologyAssumption
    <3>2. \A c \in Colors, f \in Fields : \A o \in GhostOwners[f][c], x \in {"dense", "sparse"} :
              Pending(c, f, o, x)' = Pending(c, f, o, x)
      BY <2>1, <3>1 DEF Pending, Stamp
    <3>3. GhostOK'
      BY <2>1, <3>2 DEF IInv, GhostOK
    <3>4. RowsOK'
      BY <2>1, <3>1 DEF IInv, RowsOK, IsLatestSize, Stamp
    <3> QED BY <3>3, <3>4
  <2> QED BY <2>3, <2>4, <2>6, <2>7, <2>8 DEF IInv
<1>2. ASSUME NEW c \in Colors, Move(c) PROVE IInv'
  <2>1. TypeOK'
    BY <1>2, TypeStep DEF IInv
  <2>2. FlagsOK' /\ CollectedOK' /\ AwaitedOK'
    BY <1>2, <2>1, FlagsStep, CollectedStep, AwaitedStep DEF IInv
  <2>3. WireOK' /\ NoneAhead' /\ SharedOK'
    BY <1>2, <2>1, WireStep, SharedStep DEF IInv
  <2>4. GhostOK' /\ ResizedOK' /\ RowsOK'
    BY <1>2, <2>1, GhostStep, ResizedStep, RowsStep DEF IInv
  <2> QED BY <2>1, <2>2, <2>3, <2>4 DEF IInv
<1> QED
  BY <1>1, <1>2 DEF Next, Terminated, Move

LEMMA Invariance == Spec => []IInv
  BY IInvInit, IInvNext, PTL DEF Spec

\* Ghosts that a user function reads are up to date, whatever the topology,
\* the program and the order in which the ranks run (task_prolog_t,
\* task_epilog_t): the flags each rank keeps for itself are enough.
THEOREM ReadsAreCoherent == Spec => []GhostCoherent
<1>1. IInv => GhostCoherent
  <2> SUFFICES ASSUME IInv, NEW c \in Colors, pc[c] = "user",
                      NEW f \in Fields, ReadsGhost(prog[task[c]], f),
                      NEW o \in GhostOwners[f][c]
               PROVE  IsLatest(prog, ghost[c][f][o], f, task[c])
    BY DEF GhostCoherent, Current
  <2>1. readable[c][f]
    BY DEF IInv, FlagsOK
  <2>2. o \in Colors /\ "dense" \in Exchanges /\ "sparse" \in Exchanges
    BY TopologyAssumption DEF Exchanges
  <2>3. ~Pending(c, f, o, "dense") /\ ~Pending(c, f, o, "sparse")
    BY <2>2, AllReceived DEF IInv
  <2> QED BY <2>1, <2>3 DEF IInv, GhostOK
<1> QED
  BY <1>1, Invariance, PTL

\* Though all messages have one tag and no header, and senders may be any
\* number of exchanges ahead, a receive gets the message it was posted for
\* (the launch_..._exchange functions).
THEOREM ReceivesMatchSends == Spec => []MessagesMatch
<1>1. IInv => MessagesMatch
  <2> SUFFICES ASSUME IInv, NEW c \in Colors, NEW x \in Exchanges, pc[c] = Waiting[x],
                      NEW o \in awaited[c], wire[o][c] # <<>>
               PROVE  Head(wire[o][c]).kind = x /\ Head(wire[o][c]).fields = GotFrom(c, o, x)
    BY DEF MessagesMatch
  <2>1. o \in Colors
    BY DEF IInv, TypeOK
  <2> QED BY <2>1, Unpacked DEF IInv
<1> QED
  BY <1>1, Invariance, PTL

\* The rows that ragged data is unpacked into have been given the sizes it
\* was packed with (row_resize_t).
THEOREM RaggedDataFits == Spec => []RowsFit
<1>1. IInv => RowsFit
  <2> SUFFICES ASSUME IInv, NEW c \in Colors, pc[c] = "sparse_wait",
                      NEW o \in awaited[c], wire[o][c] # <<>>,
                      NEW j \in DOMAIN Head(wire[o][c]).body
               PROVE  LET m == Head(wire[o][c]) IN
                      /\ rowSizes[c][m.fields[j]][o] = m.body[j].rows
                      /\ ghostRows[c][m.fields[j]][o] = m.body[j].rows
    BY DEF RowsFit
  <2> USE DEF IInv
  <2> DEFINE k == task[c]
             fields == GotFrom(c, o, "sparse")
             f == fields[j]
  <2>1. o \in Colors /\ "sparse" \in Exchanges /\ pc[c] = Waiting["sparse"]
    BY DEF TypeOK, Exchanges, Waiting
  <2>2. /\ Head(wire[o][c]).fields = fields
        /\ Head(wire[o][c]).body = [i \in DOMAIN fields |-> Newest(k, "sparse", fields[i])]
        /\ \A g : g \in ToSet(fields) <=> g \in ToSet(collected[c]["sparse"]) /\ o \in GhostOwners[g][c]
    BY <2>1, Unpacked
  <2>3. j \in DOMAIN fields /\ Head(wire[o][c]).body[j] = Newest(k, "sparse", f)
    <3> HIDE DEF fields
    <3> QED BY <2>2
  <2>4. f \in ToSet(collected[c]["sparse"]) /\ o \in GhostOwners[f][c]
    <3>1. f \in ToSet(fields)
      BY <2>3 DEF ToSet
    <3> HIDE DEF fields, f
    <3> QED BY <2>2, <3>1
  <2>5. /\ k \in 1..NumTasks /\ k \in 1..NumTasks + 1
        /\ collected[c]["sparse"] = List(k, "sparse") /\ collected[c]["sparse"] \in Seq(Fields)
    <3>1. k \in 1..NumTasks /\ collected[c]["sparse"] = List(k, "sparse")
      <4> HIDE DEF k
      <4> QED BY <2>1, Expected DEF k
    <3>2. collected[c]["sparse"] \in Seq(Fields)
      BY <2>1 DEF TypeOK
    <3> QED BY <3>1, <3>2, TasksAssumption
  <2>6. f \in Fields
    <3> HIDE DEF f
    <3> QED BY <2>4, <2>5 DEF ToSet
  <2>7. Names(prog[k], f)
    <3> HIDE DEF f
    <3>1. prog \in Programs
      BY DEF TypeOK
    <3>2. \E i \in DOMAIN prog[k] : prog[k][i].field = f
      <4> HIDE DEF k, IInv
      <4> QED BY <2>4, <2>5, <2>6, <3>1, ListIs
    <3> QED BY <3>2 DEF Names
  <2>8. ~resized[c][f]
    <3> HIDE DEF f
    <3> QED BY <2>6, <2>7 DEF ResizedOK
  <2>9. IsLatestSize(rowSizes[c][f][o], f, k) /\ IsLatestSize(ghostRows[c][f][o], f, k)
    <3> HIDE DEF f
    <3> QED BY <2>4, <2>6, <2>8 DEF RowsOK
  <2>10. IsLatestSize(Newest(k, "sparse", f).rows, f, k)
    <3> HIDE DEF f
    <3> QED BY <2>5, NewestSays
  <2>11. /\ rowSizes[c][f][o] = Newest(k, "sparse", f).rows
         /\ ghostRows[c][f][o] = Newest(k, "sparse", f).rows
    <3> HIDE DEF f
    <3> QED BY <2>5, <2>9, <2>10, NewestIs
  <2> HIDE DEF fields
  <2> QED BY <2>2, <2>3, <2>11
<1> QED
  BY <1>1, Invariance, PTL

-----------------------------------------------------------------------------
(* Refinement *)

\* Both specifications speak of the same programs.
LEMMA SamePrograms ==
    /\ Sequential!Programs = Programs
    /\ \A t, f : Sequential!ReadsGhost(t, f) <=> ReadsGhost(t, f)
    /\ \A p, v, f, k : Sequential!IsLatest(p, v, f, k) <=> IsLatest(p, v, f, k)
  BY DEF Programs, Sequential!Programs, ReadsGhost, Sequential!ReadsGhost,
         IsLatest, Sequential!IsLatest, WritesShared, Sequential!WritesShared

\* The user function is the step of the sequential program ...
LEMMA ExecuteRuns ==
    ASSUME IInv, GhostCoherent, NEW c \in Colors, Execute(c)
    PROVE  Sequential!Run(c)
<1> USE DEF IInv
<1> DEFINE ran == [d \in Colors |-> IF pc[d] = "epilog" THEN task[d] ELSE task[d] - 1]
           k == task[c]
<1>1. /\ pc[c] = "user" /\ pc' = [pc EXCEPT ![c] = "epilog"] /\ task' = task
      /\ k \in 1..NumTasks /\ prog' = prog
  BY DEF Execute, Goto, TypeOK
<1>2. ran[c] < NumTasks /\ ran[c] + 1 = k
  BY <1>1, TasksAssumption
<1>3. ran' = [ran EXCEPT ![c] = @ + 1]
  <2>1. \A d \in Colors : ran'[d] = IF d = c THEN k ELSE ran[d]
    BY <1>1 DEF TypeOK
  <2> QED BY <1>2, <2>1
<1>4. seen' = [seen EXCEPT ![c] = Sequential!CoherentReads(c, k)]
  <2>1. ASSUME NEW f \in Fields, ReadsGhost(prog[k], f), NEW o \in GhostOwners[f][c],
               NEW v \in 0..NumTasks
        PROVE  v = ghost[c][f][o] <=> v \in 0..k - 1 /\ IsLatest(prog, v, f, k)
    <3>1. IsLatest(prog, ghost[c][f][o], f, k)
      BY <1>1, <2>1 DEF GhostCoherent, Current
    <3>2. k \in Nat /\ k \in 1..NumTasks + 1
      BY <1>1, TasksAssumption
    <3>3. v = ghost[c][f][o] => v \in 0..k - 1
      BY <3>1, <3>2 DEF IsLatest
    <3> QED BY <3>1, <3>2, <3>3, NewestIs
  <2>2. {r \in [field : Fields, owner : Colors, version : 0..NumTasks] :
             /\ r.owner \in GhostOwners[r.field][c]
             /\ ReadsGhost(prog[k], r.field)
             /\ r.version = ghost[c][r.field][r.owner]}
        = Sequential!CoherentReads(c, k)
    <3>1. 0..k - 1 \subseteq 0..NumTasks
      BY <1>1, TasksAssumption
    <3> QED BY <2>1, <3>1, SamePrograms DEF Sequential!CoherentReads
  <2> QED BY <2>2 DEF Execute, Current
<1> QED
  BY <1>1, <1>2, <1>3, <1>4 DEF Sequential!Run

\* ... and no other step is seen by it.
LEMMA OthersStutter ==
    ASSUME IInv, NEW c \in Colors, Move(c), ~Execute(c)
    PROVE  UNCHANGED Sequential!vars
<1> USE DEF IInv
<1>1. prog' = prog
  BY ProgramStays
<1>2. seen' = seen
  <2> USE Moves
  <2> QED BY DEF Prolog, Resize, Epilog, NoExchange, Send, EndExchange, Receive
<1>3. (IF pc'[c] = "epilog" THEN task'[c] ELSE task'[c] - 1)
          = IF pc[c] = "epilog" THEN task[c] ELSE task[c] - 1
  <2>1. CASE Prolog(c) \/ Resize(c)
    BY <2>1 DEF Prolog, Resize, Goto, TypeOK
  <2>2. CASE Epilog(c)
    <3>1. pc[c] = "epilog" /\ pc'[c] = "prolog" /\ task'[c] = task[c] + 1 /\ task[c] \in Nat
      BY <2>2, Places DEF Epilog, Goto, TypeOK
    <3> QED BY <3>1
  <2>3. ASSUME NEW x \in Exchanges,
               \/ NoExchange(c, x) \/ Send(c, x) \/ EndExchange(c, x)
               \/ \E o \in Colors : Receive(c, o, x)
        PROVE  task' = task /\ pc[c] # "epilog" /\ pc'[c] # "epilog"
    BY <2>3, ExchangeKeeps
  <2> QED BY <2>1, <2>2, <2>3, Moves
<1>4. \A d \in Colors : (IF pc'[d] = "epilog" THEN task'[d] ELSE task'[d] - 1)
                            = IF pc[d] = "epilog" THEN task[d] ELSE task[d] - 1
  BY <1>3, OthersStay
<1> QED
  BY <1>1, <1>2, <1>4 DEF Sequential!vars

\* Whatever the ranks do, each runs its tasks in order and reads in each what
\* the sequential program would: the aggregated exchange implements the
\* coherence that GhostCoherence promises.
THEOREM ImplementsSequential == Spec => Sequential!SafeSpec
<1>1. Init => Sequential!Init
  <2>1. ASSUME Init
        PROVE  [c \in Colors |-> IF pc[c] = "epilog" THEN task[c] ELSE task[c] - 1]
                  = [c \in Colors |-> 0]
    BY <2>1 DEF Init
  <2> QED BY <2>1, SamePrograms DEF Init, Sequential!Init
<1>2. IInv /\ GhostCoherent /\ [Next]_vars => [Sequential!Next]_(Sequential!vars)
  <2> SUFFICES ASSUME IInv, GhostCoherent, [Next]_vars
               PROVE  [Sequential!Next]_(Sequential!vars)
    OBVIOUS
  <2>1. CASE UNCHANGED vars
    BY <2>1 DEF vars, Sequential!vars
  <2>2. ASSUME NEW c \in Colors, Move(c) PROVE [Sequential!Next]_(Sequential!vars)
    BY <2>2, ExecuteRuns, OthersStutter DEF Sequential!Next
  <2> QED BY <2>1, <2>2 DEF Next, Terminated, Move
<1> QED
  BY <1>1, <1>2, Invariance, ReadsAreCoherent, PTL DEF Spec, Sequential!SafeSpec
=============================================================================
