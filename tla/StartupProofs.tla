--------------------------- MODULE StartupProofs ----------------------------
(***************************************************************************)
(* Proofs about Startup: whatever the order of the file-scope statements,  *)
(* the sort gives each graph one order, the actions run in it, and fields  *)
(* are found where they were registered.                                   *)
(***************************************************************************)
EXTENDS Startup, FiniteSetTheorems, SequenceTheorems, TLAPS

(* The inductive invariant *)

\* The types of the graphs; an edge makes both its nodes.
GraphOK ==
    /\ nodes \in [Phases -> SUBSET Names] /\ actions \in [Phases -> SUBSET Names]
    /\ edges \in [Phases -> [Names -> [Names -> Nat]]]
    /\ \A p \in Phases :
          /\ IsFiniteSet(nodes[p])
          /\ actions[p] \subseteq nodes[p]
          /\ \A to, from \in Names : edges[p][to][from] > 0 => to \in nodes[p] /\ from \in nodes[p]

\* n waits for nothing but the first k of the line.
Ready(n, k) == ReadyAfter(phase, n, line, k)

\* The i-th of the line was ready before the j-th, or together with it and has
\* the lower hash, as far as the sort has come.
Before(i, j) ==
    \/ \E k \in 0..count : Ready(line[i], k) /\ ~Ready(line[j], k)
    \/ line[i] < line[j] /\ \A k \in 0..count : Ready(line[i], k) <=> Ready(line[j], k)

\* The line and the list part the nodes among them.
LineOK ==
    /\ phase \in Phases
    /\ line \in Seq(Names) /\ count \in 0..Len(line)
    /\ \A i, j \in 1..Len(line) : line[i] = line[j] => i = j
    /\ \A n : (\E i \in 1..Len(line) : line[i] = n) <=> n \in nodes[phase] \ nodeList
    /\ Len(line) = Cardinality(nodes[phase] \ nodeList)
    /\ nodeList \subseteq nodes[phase]
    /\ scan \subseteq nodeList

\* The loop has taken the edges to the root from those it has passed; the
\* others have lost those to earlier roots.
TallyOK ==
    /\ tally \in [Names -> [Names -> Nat]]
    /\ \A n \in nodeList : \A m \in Names :
          tally[n][m] = IF \E i \in 1..count : line[i] = m /\ (n \in scan => i # count)
                        THEN 0 ELSE edges[phase][n][m]

\* A node enters the line when it is ready, in the first loop after it is.
ReadyOK ==
    /\ \A j \in 1..Len(line) :
          /\ Ready(line[j], j - 1)
          /\ Ready(line[j], count)
          /\ \/ count > 0 /\ Ready(line[j], count - 1)
             \/ \A n \in scan : line[j] < n
    /\ \A n \in scan : count > 0 => ~Ready(n, count - 1)
    /\ \A n \in nodeList \ scan : ~Ready(n, count)
    /\ \A j \in 1..Len(line) : \A i \in 1..j - 1 : Before(i, j)

SortOK == at = "sort" => LineOK /\ TallyOK /\ ReadyOK

\* The graph of phase p leaves no order but s.
IsOrder(p, s) ==
    /\ s \in Seq(Names)
    /\ \A i, j \in DOMAIN s : s[i] = s[j] => i = j
    /\ Len(s) = Cardinality(nodes[p]) /\ {s[i] : i \in DOMAIN s} = nodes[p]
    /\ \A j \in DOMAIN s :
          /\ ReadyAfter(p, s[j], s, j - 1)
          /\ \A i \in 1..j - 1 :
                \/ \E k \in 0..Len(s) : ReadyAfter(p, s[i], s, k) /\ ~ReadyAfter(p, s[j], s, k)
                \/ s[i] < s[j] /\ \A k \in 0..Len(s) :
                       ReadyAfter(p, s[i], s, k) <=> ReadyAfter(p, s[j], s, k)

SortedOK ==
    /\ sorted \in [Phases -> Seq(Names)] /\ sortedPhases \subseteq Phases
    /\ \A p \in sortedPhases : IsOrder(p, sorted[p])
    /\ \A p \in Phases \ sortedPhases : sorted[p] = <<>>
    /\ at = "fatal" => phase \in Phases /\ \E S \in SUBSET nodes[phase] : Cycle(phase, S)

\* The walkers stand in tuples of the policy, after every phase was sorted.
WalkOK ==
    /\ at = "walk" => stack \in Seq([tuple : Tuples, next : Nat \ {0}]) /\ Len(stack) > 0
    /\ at = "walk" \/ (at = "idle" /\ sortedPhases # {}) => Unsorted = {}

\* The actions called so far are the first of the phase's order.
CallsOK ==
    /\ ran \in Seq(Names)
    /\ ran # <<>> => at \in {"walk", "threw"}
    /\ at = "walk" /\ ran # <<>> =>
          /\ ~AtEnd /\ Element.cycle = FALSE
          /\ Len(ran) <= Len(sorted[Element.phase])
          /\ \A i \in 1..Len(ran) : /\ ran[i] = sorted[Element.phase][i]
                                    /\ ran[i] \in actions[Element.phase]

\* The graphs say what the statements executed so far say; all have been
\* before main() begins.
Executed == program.statements \ pending
ActionsOf(D, p) == {st.name : st \in {d \in D : d.what = "action" /\ d.phase = p}}
EdgeIn(D, p, to, from) ==
    \E st \in D : st.what = "edge" /\ st.phase = p /\ st.to = to /\ st.from = from
StatementsOK ==
    /\ program \in Programs /\ pending \subseteq program.statements
    /\ pc \notin {"file_scope", "aborted"} => pending = {}
    /\ \A p \in Phases :
          /\ actions[p] = ActionsOf(Executed, p)
          /\ \A to, from \in Names : edges[p][to][from] > 0 <=> EdgeIn(Executed, p, to, from)

\* Nothing is sorted at file scope.
ScopeOK == pc # "top_level_driver" => at \in {"idle", "fatal", "threw"}
FirstOK == pc = "file_scope" => at = "idle" /\ sortedPhases = {}

OrderInv == GraphOK /\ StatementsOK /\ SortOK /\ SortedOK /\ WalkOK /\ CallsOK /\ ScopeOK /\ FirstOK

-----------------------------------------------------------------------------
(* Lemmas about the sort *)

\* A node that waits for nothing but the first k waits for nothing but more.
LEMMA ReadyGrows ==
    ASSUME NEW n, NEW k \in Nat, NEW l \in Nat, k <= l, Ready(n, k)
    PROVE  Ready(n, l)
BY DEF Ready, ReadyAfter

\* What enters the line later does not matter to its beginning.
LEMMA ReadyOfAppended ==
    ASSUME NEW p, NEW s \in Seq(Names), NEW x, NEW n \in Names, NEW k \in 0..Len(s)
    PROVE  ReadyAfter(p, x, Append(s, n), k) <=> ReadyAfter(p, x, s, k)
BY DEF ReadyAfter

\* The first of a set of hashes.
LEMMA FirstIsLeast ==
    ASSUME NEW S, S \subseteq Nat, S # {}
    PROVE  First(S) \in S /\ \A y \in S : First(S) <= y
<1>1. \E x \in S : \A y \in S : ~(<<y, x>> \in OpToRel(<, Nat))
  BY NatLessThanWellFounded, WFMin
<1>2. \A x, y \in Nat : <<y, x>> \in OpToRel(<, Nat) <=> y < x
  BY DEF OpToRel
<1>3. \E x \in S : \A y \in S : x <= y
  <2>1. PICK x \in S : \A y \in S : ~(<<y, x>> \in OpToRel(<, Nat))
    BY <1>1
  <2>2. \A y \in S : ~(y < x)
    BY <1>2, <2>1
  <2>3. \A y \in S : x <= y
    BY <2>2
  <2> QED BY <2>3
<1> QED BY <1>3 DEF First

\* The node the loop comes to: what it has left, and when it is ready.
LEMMA ScannedNode ==
    ASSUME GraphOK, LineOK, TallyOK, scan # {}
    PROVE  LET n    == First(scan)
               list == IF count = 0 THEN tally[n] ELSE Without(tally[n], line[count])
           IN /\ n \in scan /\ n \in Names /\ \A y \in scan : n <= y
              /\ list \in [Names -> Nat]
              /\ \A m \in Names : list[m] = IF \E i \in 1..count : line[i] = m
                                            THEN 0 ELSE edges[phase][n][m]
              /\ (\A m \in Names : list[m] = 0) <=> Ready(n, count)
<1> DEFINE n    == First(scan)
           list == IF count = 0 THEN tally[n] ELSE Without(tally[n], line[count])
<1>1. /\ scan \subseteq Names /\ scan \subseteq nodeList /\ phase \in Phases
      /\ count \in Nat /\ count <= Len(line) /\ line \in Seq(Names)
  <2>1. nodes[phase] \subseteq Names
    BY DEF GraphOK, LineOK
  <2> QED BY <2>1 DEF LineOK
<1>2. n \in scan /\ n \in Names /\ \A y \in scan : n <= y
  BY <1>1, FirstIsLeast, NamesAssumption
<1>3. tally[n] \in [Names -> Nat]
  BY <1>2 DEF TallyOK
<1>4. list \in [Names -> Nat]
  BY <1>3 DEF Without
<1>5. ASSUME NEW m \in Names
      PROVE  tally[n][m] = IF \E i \in 1..count : line[i] = m /\ i # count
                           THEN 0 ELSE edges[phase][n][m]
  BY <1>1, <1>2 DEF TallyOK
<1>6. ASSUME NEW m \in Names
      PROVE  list[m] = IF \E i \in 1..count : line[i] = m THEN 0 ELSE edges[phase][n][m]
  <2>1. CASE count = 0
    BY <2>1, <1>5
  <2>2. CASE count # 0
    <3>1. list[m] = IF m = line[count] THEN 0 ELSE tally[n][m]
      BY <2>2, <1>3 DEF Without
    <3> QED BY <3>1, <1>1, <1>5, <2>2
  <2> QED BY <2>1, <2>2
<1>7. \A m \in Names : edges[phase][n][m] \in Nat
  BY <1>1, <1>2 DEF GraphOK
<1>8. (\A m \in Names : list[m] = 0) <=> Ready(n, count)
  <2>1. Ready(n, count) <=> \A m \in Names : edges[phase][n][m] > 0 => \E i \in 1..count : line[i] = m
    BY DEF Ready, ReadyAfter
  <2> HIDE DEF list, n
  <2> QED BY <1>6, <1>7, <2>1
<1> QED BY <1>2, <1>4, <1>6, <1>8

\* A step of the loop over a node that still waits for others.
LEMMA ScanKeeps ==
    ASSUME GraphOK, LineOK, TallyOK, ReadyOK, Scan, ~Ready(First(scan), count)
    PROVE  LineOK' /\ TallyOK' /\ ReadyOK'
<1> DEFINE n    == First(scan)
           list == IF count = 0 THEN tally[n] ELSE Without(tally[n], line[count])
<1>1. /\ n \in scan /\ n \in Names /\ \A y \in scan : n <= y
      /\ list \in [Names -> Nat]
      /\ \A m \in Names : list[m] = IF \E i \in 1..count : line[i] = m
                                    THEN 0 ELSE edges[phase][n][m]
      /\ ~\A m \in Names : list[m] = 0
  BY ScannedNode DEF Scan
<1>2. /\ UNCHANGED <<nodes, edges, phase, count, line, nodeList>>
      /\ scan' = scan \ {n}
      /\ tally' = [tally EXCEPT ![n] = list]
  BY <1>1 DEF Scan, dagVars
<1>3. LineOK'
  BY <1>2 DEF LineOK
<1>4. TallyOK'
  <2> HIDE DEF n, list
  <2>1. tally' \in [Names -> [Names -> Nat]]
    BY <1>1, <1>2 DEF TallyOK
  <2>2. ASSUME NEW x \in nodeList, NEW m \in Names
        PROVE  tally'[x][m] = IF \E i \in 1..count : line[i] = m /\ (x \in scan' => i # count)
                              THEN 0 ELSE edges[phase][x][m]
    <3>1. CASE x = n
      <4>1. tally'[x][m] = list[m] /\ x \notin scan'
        BY <3>1, <1>1, <1>2 DEF TallyOK
      <4> QED BY <4>1, <3>1, <1>1
    <3>2. CASE x # n
      <4>1. tally'[x][m] = tally[x][m] /\ (x \in scan' <=> x \in scan)
        BY <3>2, <1>2 DEF TallyOK
      <4> QED BY <4>1 DEF TallyOK
    <3> QED BY <3>1, <3>2
  <2> QED BY <2>1, <2>2, <1>2 DEF TallyOK
<1>5. ReadyOK'
  <2> HIDE DEF n, list
  <2>1. \A x, k : Ready(x, k)' <=> Ready(x, k)
    BY <1>2 DEF Ready, ReadyAfter
  <2>2. \A i, j : Before(i, j)' <=> Before(i, j)
    BY <1>2, <2>1 DEF Before
  <2>3. ~Ready(n, count)
    BY DEF n
  <2> QED BY <1>1, <1>2, <2>1, <2>2, <2>3 DEF ReadyOK
<1> QED BY <1>3, <1>4, <1>5

\* A step of the loop over a node that waits for nothing but what is sorted.
LEMMA ScanAppends ==
    ASSUME GraphOK, LineOK, TallyOK, ReadyOK, Scan, Ready(First(scan), count)
    PROVE  LineOK' /\ TallyOK' /\ ReadyOK'
<1> DEFINE n    == First(scan)
           list == IF count = 0 THEN tally[n] ELSE Without(tally[n], line[count])
           last == Len(line) + 1
           ReadyNow(x, k) == ReadyAfter(phase, x, line', k)
<1>1. /\ n \in scan /\ n \in Names /\ \A y \in scan : n <= y
      /\ list \in [Names -> Nat]
      /\ \A m \in Names : list[m] = 0
  BY ScannedNode DEF Scan
<1>2. /\ UNCHANGED <<nodes, edges, phase, count>>
      /\ line' = Append(line, n)
      /\ nodeList' = nodeList \ {n}
      /\ scan' = scan \ {n}
      /\ tally' = [tally EXCEPT ![n] = list]
  BY <1>1 DEF Scan, dagVars
<1> HIDE DEF n, list
<1>3. /\ line \in Seq(Names) /\ count \in Nat /\ count <= Len(line) /\ Len(line) \in Nat
      /\ n \in nodeList /\ n \in nodes[phase] /\ phase \in Phases
      /\ \A x \in nodes[phase] : x \in Names
      /\ scan \subseteq Nat
  <2>1. nodes[phase] \subseteq Names
    BY DEF GraphOK, LineOK
  <2>2. /\ line \in Seq(Names) /\ count \in Nat /\ count <= Len(line) /\ Len(line) \in Nat
        /\ scan \subseteq nodeList /\ nodeList \subseteq nodes[phase] /\ phase \in Phases
    BY DEF LineOK
  <2> QED BY <1>1, <2>1, <2>2, NamesAssumption
<1>4. /\ line' \in Seq(Names) /\ Len(line') = last /\ line'[last] = n
      /\ \A i \in 1..Len(line) : line'[i] = line[i]
  BY <1>1, <1>2, <1>3
<1>5. \A i \in 1..Len(line) : line[i] # n
  BY <1>3 DEF LineOK
<1>6. LineOK'
  <2>1. \A i, j \in 1..Len(line') : line'[i] = line'[j] => i = j
    <3>1. \A i, j \in 1..Len(line) : line[i] = line[j] => i = j
      BY DEF LineOK
    <3> QED BY <3>1, <1>3, <1>4, <1>5
  <2>2. (nodes[phase] \ nodeList') = (nodes[phase] \ nodeList) \cup {n} /\ n \notin nodes[phase] \ nodeList
    BY <1>2, <1>3
  <2>3. \A x : (\E i \in 1..Len(line') : line'[i] = x) <=> x \in nodes[phase] \ nodeList'
    <3>1. \A x : (\E i \in 1..Len(line) : line[i] = x) <=> x \in nodes[phase] \ nodeList
      BY DEF LineOK
    <3>2. ASSUME NEW x
          PROVE  (\E i \in 1..Len(line') : line'[i] = x) <=> (\E i \in 1..Len(line) : line[i] = x) \/ x = n
      BY <1>3, <1>4
    <3> QED BY <3>1, <3>2, <2>2
  <2>4. Len(line') = Cardinality(nodes[phase] \ nodeList')
    <3>1. IsFiniteSet(nodes[phase] \ nodeList)
      BY <1>3, FS_Subset DEF GraphOK
    <3>2. Cardinality((nodes[phase] \ nodeList) \cup {n}) = Cardinality(nodes[phase] \ nodeList) + 1
      BY <3>1, <2>2, FS_AddElement
    <3>3. Len(line) = Cardinality(nodes[phase] \ nodeList)
      BY DEF LineOK
    <3> QED BY <3>2, <3>3, <2>2, <1>4
  <2>5. nodeList' \subseteq nodes[phase] /\ scan' \subseteq nodeList'
    BY <1>2 DEF LineOK
  <2>6. line' \in Seq(Names) /\ count \in 0..Len(line') /\ phase \in Phases
    BY <1>3, <1>4
  <2>7. nodes' = nodes /\ phase' = phase /\ count' = count
    BY <1>2
  <2> QED BY <2>1, <2>3, <2>4, <2>5, <2>6, <2>7 DEF LineOK
<1>7. TallyOK'
  <2>1. tally' \in [Names -> [Names -> Nat]]
    BY <1>1, <1>2 DEF TallyOK
  <2>2. ASSUME NEW x \in nodeList', NEW m \in Names
        PROVE  tally'[x][m] = IF \E i \in 1..count : line'[i] = m /\ (x \in scan' => i # count)
                              THEN 0 ELSE edges[phase][x][m]
    <3>1. tally'[x][m] = tally[x][m] /\ (x \in scan' <=> x \in scan) /\ x \in nodeList
      BY <1>2 DEF TallyOK
    <3>2. \A i \in 1..count : line'[i] = line[i]
      BY <1>3, <1>4
    <3> QED BY <3>1, <3>2 DEF TallyOK
  <2>3. edges' = edges /\ phase' = phase /\ count' = count
    BY <1>2
  <2> QED BY <2>1, <2>2, <2>3 DEF TallyOK
<1>8. \A x : \A k \in 0..Len(line) : ReadyNow(x, k) <=> Ready(x, k)
  BY <1>1, <1>2, <1>3, ReadyOfAppended DEF Ready
<1>9. \A x, k : Ready(x, k)' <=> ReadyNow(x, k)
  BY <1>2 DEF Ready, ReadyAfter
<1> HIDE DEF ReadyNow
<1>10. ReadyOK'
  <2>1. Ready(n, count)
    BY DEF n
  <2>2. ASSUME NEW j \in 1..Len(line')
        PROVE  /\ ReadyNow(line'[j], j - 1)
               /\ ReadyNow(line'[j], count)
               /\ \/ count > 0 /\ ReadyNow(line'[j], count - 1)
                  \/ \A x \in scan' : line'[j] < x
    <3>1. CASE j = last
      <4>1. ReadyNow(n, count) /\ ReadyNow(n, Len(line))
        BY <2>1, <1>3, <1>8, ReadyGrows
      <4>2. \A x \in scan' : n < x
        BY <1>1, <1>2, <1>3
      <4> QED BY <3>1, <4>1, <4>2, <1>3, <1>4
    <3>2. CASE j # last
      <4>1. j \in 1..Len(line) /\ line'[j] = line[j] /\ j - 1 \in 0..Len(line)
            /\ count \in 0..Len(line) /\ (count > 0 => count - 1 \in 0..Len(line))
        BY <3>2, <1>3, <1>4
      <4> QED BY <4>1, <1>2, <1>8 DEF ReadyOK
    <3> QED BY <3>1, <3>2
  <2>3. \A x \in scan' : count > 0 => ~ReadyNow(x, count - 1)
    BY <1>2, <1>3, <1>8 DEF ReadyOK
  <2>4. \A x \in nodeList' \ scan' : ~ReadyNow(x, count)
    BY <1>2, <1>3, <1>8 DEF ReadyOK
  <2>5. ASSUME NEW j \in 1..Len(line'), NEW i \in 1..j - 1
        PROVE  Before(i, j)'
    <3>1. i \in 1..Len(line) /\ line'[i] = line[i] /\ count \in 0..Len(line) /\ 0..count \subseteq 0..Len(line)
      BY <1>3, <1>4
    <3>2. CASE j = last
      <4>1. line'[j] = n
        BY <3>2, <1>4
      <4>2. CASE count > 0 /\ Ready(line[i], count - 1)
        <5>1. count - 1 \in 0..count /\ ~Ready(n, count - 1) /\ count - 1 \in 0..Len(line)
          BY <4>2, <1>1, <1>3 DEF ReadyOK
        <5>2. ReadyNow(line[i], count - 1) /\ ~ReadyNow(n, count - 1)
          BY <5>1, <4>2, <1>8
        <5> QED BY <5>1, <5>2, <3>1, <4>1, <1>2, <1>9 DEF Before
      <4>3. CASE ~(count > 0 /\ Ready(line[i], count - 1))
        <5>1. line[i] < n
          BY <4>3, <3>1, <1>1 DEF ReadyOK
        <5>2. Ready(line[i], count)
          BY <3>1 DEF ReadyOK
        <5>3. ASSUME NEW k \in 0..count
              PROVE  Ready(line[i], k) <=> Ready(n, k)
          <6>1. CASE k = count
            BY <6>1, <5>2, <2>1
          <6>2. CASE k # count
            <7>1. k \in Nat /\ count > 0 /\ count - 1 \in Nat /\ k <= count - 1
              BY <6>2, <1>3
            <7>2. ~Ready(line[i], count - 1) /\ ~Ready(n, count - 1)
              BY <7>1, <4>3, <1>1 DEF ReadyOK
            <7> QED BY <7>1, <7>2, ReadyGrows
          <6> QED BY <6>1, <6>2
        <5>4. \A k \in 0..count : ReadyNow(line[i], k) <=> ReadyNow(n, k)
          BY <5>3, <3>1, <1>8
        <5> QED BY <5>1, <5>4, <3>1, <4>1, <1>2, <1>9 DEF Before
      <4> QED BY <4>2, <4>3
    <3>3. CASE j # last
      <4>1. j \in 1..Len(line) /\ line'[j] = line[j]
        BY <3>3, <1>3, <1>4
      <4>2. Before(i, j)
        BY <4>1 DEF ReadyOK
      <4> QED BY <4>1, <4>2, <3>1, <1>2, <1>8, <1>9 DEF Before
    <3> QED BY <3>2, <3>3
  <2> QED BY <2>2, <2>3, <2>4, <2>5, <1>2, <1>9 DEF ReadyOK
<1> QED BY <1>6, <1>7, <1>10

\* The front of the queue becomes the root of the next loop.
LEMMA PopSorts ==
    ASSUME GraphOK, LineOK, TallyOK, ReadyOK, Pop
    PROVE  LineOK' /\ TallyOK' /\ ReadyOK'
<1>1. /\ UNCHANGED <<nodes, edges, phase, line, nodeList, tally>>
      /\ scan = {} /\ scan' = nodeList
      /\ count' = count + 1 /\ count < Len(line)
  BY DEF Pop, dagVars
<1>2. count \in Nat /\ count' \in 0..Len(line) /\ count' - 1 = count /\ count' > 0
  BY <1>1 DEF LineOK
<1>3. LineOK'
  BY <1>1, <1>2 DEF LineOK
<1>4. TallyOK'
  <2>1. ASSUME NEW n \in nodeList, NEW m \in Names
        PROVE  tally[n][m] = IF \E i \in 1..count' : line[i] = m /\ (n \in scan' => i # count')
                             THEN 0 ELSE edges[phase][n][m]
    <3>1. (\E i \in 1..count' : line[i] = m /\ (n \in scan' => i # count'))
          <=> (\E i \in 1..count : line[i] = m)
      BY <1>1, <1>2
    <3>2. tally[n][m] = IF \E i \in 1..count : line[i] = m THEN 0 ELSE edges[phase][n][m]
      BY <1>1 DEF TallyOK
    <3> QED BY <3>1, <3>2
  <2>2. tally \in [Names -> [Names -> Nat]]
    BY DEF TallyOK
  <2> QED BY <1>1, <2>1, <2>2 DEF TallyOK
<1>5. \A x, k : Ready(x, k)' <=> Ready(x, k)
  BY <1>1 DEF Ready, ReadyAfter
<1>6. \A j \in 1..Len(line) : Ready(line[j], count) /\ Ready(line[j], count')
  <2>1. \A j \in 1..Len(line) : Ready(line[j], count)
    BY DEF ReadyOK
  <2>2. count' \in Nat /\ count <= count'
    BY <1>1, <1>2
  <2> QED BY <2>1, <2>2, <1>2, ReadyGrows
<1>7. ASSUME NEW j \in 1..Len(line), NEW i \in 1..j - 1
      PROVE  Before(i, j)'
  <2>1. Before(i, j) /\ i \in 1..Len(line)
    <3>1. i \in 1..Len(line)
      BY <1>1, <1>2
    <3> QED BY <3>1 DEF ReadyOK
  <2>2. CASE \E k \in 0..count : Ready(line[i], k) /\ ~Ready(line[j], k)
    BY <2>2, <1>1, <1>2, <1>5 DEF Before
  <2>3. CASE line[i] < line[j] /\ \A k \in 0..count : Ready(line[i], k) <=> Ready(line[j], k)
    <3>1. \A k \in 0..count' : Ready(line[i], k) <=> Ready(line[j], k)
      BY <2>1, <2>3, <1>1, <1>2, <1>6
    <3> QED BY <2>3, <3>1, <1>1, <1>5 DEF Before
  <2> QED BY <2>1, <2>2, <2>3 DEF Before
<1>8. ReadyOK'
  <2>1. \A j \in 1..Len(line) : Ready(line[j], j - 1)
    BY DEF ReadyOK
  <2>2. \A n \in scan' : ~Ready(n, count)
    BY <1>1 DEF ReadyOK
  <2> QED BY <2>1, <2>2, <1>1, <1>2, <1>5, <1>6, <1>7 DEF ReadyOK
<1> QED BY <1>3, <1>4, <1>8

\* A sort begins with every node in its list and every edge in place.
LEMMA StartSorts ==
    ASSUME GraphOK, sortedPhases \subseteq Phases, StartSort
    PROVE  LineOK' /\ TallyOK' /\ ReadyOK'
<1>1. /\ UNCHANGED <<nodes, edges>>
      /\ phase' = First(Unsorted) /\ Unsorted # {} /\ Unsorted \subseteq Phases
      /\ line' = <<>> /\ count' = 0
      /\ nodeList' = nodes[phase'] /\ tally' = edges[phase'] /\ scan' = nodes[phase']
  BY DEF StartSort, dagVars, Unsorted
<1>2. phase' \in Phases
  BY <1>1, FirstIsLeast, NamesAssumption
<1>3. nodes[phase'] \ nodeList' = {} /\ Cardinality({}) = 0 /\ Len(line') = 0
  BY <1>1, FS_EmptySet
<1>4. LineOK'
  <2>1. line' \in Seq(Names) /\ count' \in 0..Len(line') /\ 1..Len(line') = {}
    BY <1>1, <1>3
  <2> QED BY <2>1, <1>1, <1>2, <1>3 DEF LineOK
<1>5. TallyOK'
  <2>1. edges[phase'] \in [Names -> [Names -> Nat]]
    BY <1>2 DEF GraphOK
  <2> QED BY <1>1, <2>1 DEF TallyOK
<1>6. ReadyOK'
  BY <1>1 DEF ReadyOK
<1> QED BY <1>4, <1>5, <1>6

\* When the queue is empty, all nodes are sorted or those left are a cycle.
LEMMA SortEnds ==
    ASSUME GraphOK, LineOK, TallyOK, ReadyOK, scan = {}, count = Len(line)
    PROVE  IF count # Cardinality(nodes[phase])
           THEN \E S \in SUBSET nodes[phase] : Cycle(phase, S)
           ELSE IsOrder(phase, line)
<1>1. /\ phase \in Phases /\ nodes[phase] \subseteq Names /\ IsFiniteSet(nodes[phase])
      /\ nodeList \subseteq nodes[phase]
  BY DEF GraphOK, LineOK
<1>2. CASE count # Cardinality(nodes[phase])
  <2>1. nodeList # {}
    <3>1. SUFFICES ASSUME nodeList = {} PROVE FALSE
      OBVIOUS
    <3>2. nodes[phase] \ nodeList = nodes[phase]
      BY <3>1
    <3> QED BY <1>2, <3>2 DEF LineOK
  <2>2. ASSUME NEW n \in nodeList
        PROVE  \E m \in nodeList : edges[phase][n][m] > 0
    <3>1. ~Ready(n, count)
      BY DEF ReadyOK
    <3>2. PICK m \in Names : edges[phase][n][m] > 0 /\ ~\E i \in 1..count : line[i] = m
      BY <3>1 DEF Ready, ReadyAfter
    <3>3. m \in nodes[phase]
      BY <1>1, <3>2 DEF GraphOK
    <3>4. m \in nodeList
      BY <3>2, <3>3 DEF LineOK
    <3> QED BY <3>2, <3>4
  <2>3. Cycle(phase, nodeList)
    BY <2>1, <2>2 DEF Cycle
  <2> QED BY <1>1, <1>2, <2>3
<1>3. CASE count = Cardinality(nodes[phase])
  <2>1. nodes[phase] \ nodeList = nodes[phase]
    <3>1. Cardinality(nodes[phase] \ nodeList) = Cardinality(nodes[phase])
      BY <1>3 DEF LineOK
    <3> QED BY <3>1, <1>1, FS_Subset
  <2>2. line \in Seq(Names) /\ DOMAIN line = 1..Len(line)
    BY DEF LineOK
  <2>3. {line[i] : i \in DOMAIN line} = nodes[phase]
    <3>1. \A n : (\E i \in 1..Len(line) : line[i] = n) <=> n \in nodes[phase]
      BY <2>1 DEF LineOK
    <3> QED BY <3>1, <2>2
  <2>4. \A i, j \in DOMAIN line : line[i] = line[j] => i = j
    BY <2>2 DEF LineOK
  <2>5. ASSUME NEW j \in DOMAIN line
        PROVE  /\ ReadyAfter(phase, line[j], line, j - 1)
               /\ \A i \in 1..j - 1 :
                     \/ \E k \in 0..Len(line) : ReadyAfter(phase, line[i], line, k)
                                                /\ ~ReadyAfter(phase, line[j], line, k)
                     \/ line[i] < line[j] /\ \A k \in 0..Len(line) :
                            ReadyAfter(phase, line[i], line, k) <=> ReadyAfter(phase, line[j], line, k)
    BY <2>2 DEF ReadyOK, Before, Ready
  <2> QED BY <1>3, <2>2, <2>3, <2>4, <2>5 DEF IsOrder
<1> QED BY <1>2, <1>3

-----------------------------------------------------------------------------
(* Steps of the control model *)

\* What a walker is at.
LEMMA ElementOK ==
    ASSUME WalkOK, at = "walk"
    PROVE  /\ Len(stack) \in Nat \ {0}
           /\ Walker \in [tuple : Tuples, next : Nat \ {0}]
           /\ ~AtEnd => \/ Element.cycle = FALSE /\ Element.phase \in Phases
                        \/ Element.cycle = TRUE /\ Element.tuple \in Tuples
<1> DEFINE Walkers == [tuple : Tuples, next : Nat \ {0}]
<1>1. stack \in Seq(Walkers) /\ Len(stack) > 0
  BY DEF WalkOK
<1>2. Len(stack) \in Nat \ {0} /\ stack[Len(stack)] \in Walkers
  <2> HIDE DEF Walkers
  <2> QED BY <1>1
<1>3. Walker.tuple \in Tuples /\ Walker.next \in Nat \ {0}
  BY <1>2 DEF Walker
<1>4. ASSUME ~AtEnd
      PROVE  \/ Element.cycle = FALSE /\ Element.phase \in Phases
             \/ Element.cycle = TRUE /\ Element.tuple \in Tuples
  <2>1. Len(Walker.tuple) \in Nat
    BY <1>3, WalkAssumption
  <2>2. Walker.next \in 1..Len(Walker.tuple)
    BY <1>3, <1>4, <2>1 DEF AtEnd
  <2> QED BY <1>3, <2>2, WalkAssumption DEF Element
<1> QED BY <1>2, <1>4 DEF Walker

\* The graphs do not change any more, nor do the orders they leave.
LEMMA OrdersStay ==
    ASSUME UNCHANGED dagVars
    PROVE  /\ GraphOK => GraphOK'
           /\ \A p, s : IsOrder(p, s)' <=> IsOrder(p, s)
           /\ \A p, S : Cycle(p, S)' <=> Cycle(p, S)
<1>1. nodes' = nodes /\ actions' = actions /\ edges' = edges
  BY DEF dagVars
<1>2. GraphOK => GraphOK'
  BY <1>1 DEF GraphOK
<1>3. \A p, s, n, k : ReadyAfter(p, n, s, k)' <=> ReadyAfter(p, n, s, k)
  BY <1>1 DEF ReadyAfter
<1>4. \A p, s : IsOrder(p, s)' <=> IsOrder(p, s)
  BY <1>1, <1>3 DEF IsOrder
<1>5. \A p, S : Cycle(p, S)' <=> Cycle(p, S)
  BY <1>1 DEF Cycle
<1> QED BY <1>2, <1>4, <1>5

ControlInv == GraphOK /\ SortOK /\ SortedOK /\ WalkOK /\ CallsOK

\* Steps that sort keep the invariant.
LEMMA SortSteps ==
    ASSUME ControlInv, StartSort \/ Scan \/ Pop \/ FinishSort
    PROVE  ControlInv'
<1>1. /\ UNCHANGED dagVars /\ UNCHANGED walkVars
      /\ at \in {"phases", "sort"} /\ at' \in {"phases", "sort", "fatal"}
  BY DEF StartSort, Scan, Pop, FinishSort
<1>2. GraphOK' /\ GraphOK
  BY <1>1, OrdersStay DEF ControlInv
<1>3. CallsOK'
  BY <1>1 DEF ControlInv, CallsOK, walkVars
<1>4. WalkOK'
  BY <1>1 DEF WalkOK
<1>5. CASE StartSort
  <2>1. LineOK' /\ TallyOK' /\ ReadyOK'
    BY <1>2, <1>5, StartSorts DEF ControlInv, SortedOK
  <2>2. SortedOK'
    BY <1>1, <1>5, OrdersStay DEF ControlInv, SortedOK, StartSort, orderVars
  <2> QED BY <2>1, <2>2, <1>2, <1>3, <1>4 DEF ControlInv, SortOK
<1>6. CASE Scan \/ Pop
  <2>1. LineOK /\ TallyOK /\ ReadyOK
    BY <1>6 DEF ControlInv, SortOK, Scan, Pop
  <2>2. LineOK' /\ TallyOK' /\ ReadyOK'
    BY <1>2, <1>6, <2>1, ScanKeeps, ScanAppends, PopSorts
  <2>3. SortedOK'
    BY <1>1, <1>6, OrdersStay DEF ControlInv, SortedOK, Scan, Pop, orderVars
  <2> QED BY <2>2, <2>3, <1>2, <1>3, <1>4 DEF ControlInv, SortOK
<1>7. CASE FinishSort
  <2>1. /\ scan = {} /\ count = Len(line) /\ UNCHANGED phase
        /\ LineOK /\ TallyOK /\ ReadyOK
    BY <1>7 DEF ControlInv, SortOK, FinishSort, sortVars
  <2>2. IF count # Cardinality(nodes[phase])
        THEN \E S \in SUBSET nodes[phase] : Cycle(phase, S)
        ELSE IsOrder(phase, line)
    BY <1>2, <2>1, SortEnds
  <2>3. phase \in Phases /\ line \in Seq(Names) /\ nodes' = nodes
    BY <1>1, <2>1 DEF LineOK, dagVars
  <2>4. SortedOK'
    <3>1. CASE count # Cardinality(nodes[phase])
      <4>1. at' = "fatal" /\ UNCHANGED <<sorted, sortedPhases>>
        BY <1>7, <3>1 DEF FinishSort, orderVars
      <4>2. PICK S \in SUBSET nodes[phase] : Cycle(phase, S)
        BY <2>2, <3>1
      <4> QED BY <4>1, <4>2, <2>1, <2>3, <1>1, OrdersStay DEF ControlInv, SortedOK
    <3>2. CASE count = Cardinality(nodes[phase])
      <4>1. /\ at' = "phases" /\ sorted' = [sorted EXCEPT ![phase] = line]
            /\ sortedPhases' = sortedPhases \cup {phase}
        BY <1>7, <3>2 DEF FinishSort
      <4>2. \A p \in sortedPhases' : IsOrder(p, sorted'[p])
        BY <4>1, <2>2, <2>3, <3>2 DEF ControlInv, SortedOK
      <4> QED BY <4>1, <4>2, <2>3, <1>1, OrdersStay DEF ControlInv, SortedOK
    <3> QED BY <3>1, <3>2
  <2>5. SortOK'
    BY <1>7 DEF FinishSort, SortOK
  <2> QED BY <2>4, <2>5, <1>2, <1>3, <1>4 DEF ControlInv
<1> QED BY <1>5, <1>6, <1>7

\* Entering the walk.
LEMMA WalkBegins ==
    ASSUME ControlInv, Execute \/ StartWalk
    PROVE  ControlInv'
<1>1. /\ UNCHANGED dagVars /\ UNCHANGED orderVars /\ UNCHANGED ran
      /\ at \in {"idle", "phases"} /\ at' \in {"phases", "walk"}
      /\ at' = "walk" => /\ stack' = <<[tuple |-> Walk, next |-> 1]>>
                         /\ Unsorted = {} \/ (at = "idle" /\ sortedPhases # {})
  BY DEF Execute, StartWalk
<1>2. GraphOK'
  BY <1>1, OrdersStay DEF ControlInv
<1>3. SortOK'
  BY <1>1 DEF SortOK
<1>4. SortedOK'
  BY <1>1, OrdersStay DEF ControlInv, SortedOK, orderVars
<1>5. WalkOK'
  <2>1. Unsorted' = Unsorted
    BY <1>1 DEF Unsorted, dagVars, orderVars
  <2>2. ASSUME at' = "walk"
        PROVE  stack' \in Seq([tuple : Tuples, next : Nat \ {0}]) /\ Len(stack') > 0
    <3> DEFINE walker  == [tuple |-> Walk, next |-> 1]
               Walkers == [tuple : Tuples, next : Nat \ {0}]
    <3>1. walker \in Walkers
      BY WalkAssumption
    <3>2. stack' = <<walker>>
      BY <1>1, <2>2
    <3> HIDE DEF walker, Walkers
    <3>3. stack' \in Seq(Walkers) /\ Len(stack') > 0
      BY <3>1, <3>2
    <3> QED BY <3>3 DEF Walkers
  <2> QED BY <1>1, <2>1, <2>2 DEF ControlInv, WalkOK
<1>6. CallsOK'
  BY <1>1 DEF ControlInv, CallsOK
<1> QED BY <1>2, <1>3, <1>4, <1>5, <1>6 DEF ControlInv

\* A walker advances, or another begins or ends: no action was called in the
\* visit of a phase that follows.
LEMMA WalkersOK ==
    ASSUME ControlInv, at = "walk",
           LeavePhase \/ EnterRound \/ LeaveCycle \/ LeaveWalker
    PROVE  /\ at' = "walk" => stack' \in Seq([tuple : Tuples, next : Nat \ {0}]) /\ Len(stack') > 0
           /\ at' \in {"walk", "idle"}
           /\ ran' = <<>>
<1> DEFINE Walkers == [tuple : Tuples, next : Nat \ {0}]
<1>1. stack \in Seq(Walkers) /\ Len(stack) \in Nat \ {0} /\ Walker \in Walkers
  BY ElementOK DEF ControlInv, WalkOK
<1>2. CASE LeavePhase \/ LeaveCycle
  <2>1. stack' = [stack EXCEPT ![Len(stack)].next = @ + 1] /\ at' = "walk"
    BY <1>2 DEF LeavePhase, LeaveCycle, Advanced
  <2>2. [stack[Len(stack)] EXCEPT !.next = @ + 1] \in Walkers
    BY <1>1 DEF Walker
  <2>3. stack' \in Seq(Walkers) /\ Len(stack') = Len(stack)
    <3> HIDE DEF Walkers
    <3> QED BY <1>1, <2>1, <2>2
  <2>4. ran' = <<>>
    BY <1>2 DEF LeavePhase, LeaveCycle, ControlInv, CallsOK
  <2> QED BY <1>1, <2>1, <2>3, <2>4
<1>3. CASE EnterRound
  <2>1. stack' = Append(stack, [tuple |-> Element.tuple, next |-> 1]) /\ at' = "walk"
        /\ ~AtEnd /\ Element.cycle = TRUE /\ ran' = ran
    BY <1>3 DEF EnterRound
  <2>2. [tuple |-> Element.tuple, next |-> 1] \in Walkers
    <3>1. Element.tuple \in Tuples
      BY <2>1, ElementOK DEF ControlInv
    <3> QED BY <3>1
  <2>3. stack' \in Seq(Walkers) /\ Len(stack') > 0
    <3> HIDE DEF Walkers
    <3> QED BY <1>1, <2>1, <2>2
  <2>4. ran = <<>>
    BY <2>1 DEF ControlInv, CallsOK
  <2> QED BY <2>1, <2>3, <2>4
<1>4. CASE LeaveWalker
  <2>1. stack' = SubSeq(stack, 1, Len(stack) - 1) /\ AtEnd /\ ran' = ran
        /\ at' = IF Len(stack) = 1 THEN "idle" ELSE at
    BY <1>4 DEF LeaveWalker
  <2>2. stack' \in Seq(Walkers) /\ Len(stack') = Len(stack) - 1
    <3> HIDE DEF Walkers
    <3> DEFINE less == SubSeq(stack, 1, Len(stack) - 1)
    <3>1. \A i \in 1..Len(stack) - 1 : stack[i] \in Walkers
      BY <1>1
    <3>2. 1 \in Int /\ Len(stack) - 1 \in Int
      BY <1>1
    <3>3. less \in Seq(Walkers) /\ Len(less) = IF 1 <= Len(stack) - 1 THEN (Len(stack) - 1) - 1 + 1 ELSE 0
      BY <3>1, <3>2, SubSeqProperties
    <3>4. stack' = less
      BY <2>1
    <3> HIDE DEF less, Walkers
    <3> QED BY <1>1, <3>3, <3>4
  <2>3. ran = <<>>
    BY <2>1 DEF ControlInv, CallsOK
  <2> QED BY <1>1, <2>1, <2>2, <2>3
<1> QED BY <1>2, <1>3, <1>4

\* Steps of the walk keep the invariant.
LEMMA WalkSteps ==
    ASSUME ControlInv, LeavePhase \/ EnterRound \/ LeaveCycle \/ LeaveWalker
    PROVE  ControlInv'
<1>1. /\ UNCHANGED dagVars /\ sorted' = sorted /\ at = "walk"
      /\ sortedPhases \subseteq sortedPhases' /\ sortedPhases' \subseteq Phases
      /\ \A p \in sortedPhases' \ sortedPhases : nodes[p] = {}
  <2>1. CASE LeavePhase
    <3>1. Element.phase \in Phases /\ Unsorted = {} /\ sortedPhases \subseteq Phases
      BY <2>1, ElementOK DEF LeavePhase, ControlInv, WalkOK, SortedOK
    <3> QED BY <2>1, <3>1 DEF LeavePhase, Unsorted
  <2>2. CASE EnterRound \/ LeaveCycle \/ LeaveWalker
    BY <2>2 DEF EnterRound, LeaveCycle, LeaveWalker, orderVars, ControlInv, SortedOK
  <2> QED BY <2>1, <2>2
<1>2. GraphOK'
  BY <1>1, OrdersStay DEF ControlInv
<1>3. /\ at' = "walk" => stack' \in Seq([tuple : Tuples, next : Nat \ {0}]) /\ Len(stack') > 0
      /\ at' \in {"walk", "idle"}
      /\ ran' = <<>>
  BY <1>1, WalkersOK
<1>4. SortOK'
  BY <1>3 DEF SortOK
<1>5. SortedOK'
  <2>1. ASSUME NEW p \in sortedPhases' \ sortedPhases
        PROVE  IsOrder(p, sorted[p])
    <3>1. sorted[p] = <<>> /\ nodes[p] = {} /\ p \in Phases
      BY <1>1 DEF ControlInv, SortedOK
    <3>2. Cardinality({}) = 0
      BY FS_EmptySet
    <3>3. <<>> \in Seq(Names) /\ Len(<<>>) = 0 /\ DOMAIN <<>> = {}
      OBVIOUS
    <3>4. {<<>>[i] : i \in DOMAIN <<>>} = {}
      BY <3>3
    <3> QED BY <3>1, <3>2, <3>3, <3>4 DEF IsOrder
  <2> QED BY <1>1, <1>3, <2>1, OrdersStay DEF ControlInv, SortedOK
<1>6. WalkOK'
  BY <1>1, <1>3 DEF ControlInv, WalkOK, Unsorted, dagVars
<1>7. CallsOK'
  BY <1>3 DEF CallsOK
<1> QED BY <1>2, <1>4, <1>5, <1>6, <1>7 DEF ControlInv

\* A call of an action.
LEMMA CallSteps ==
    ASSUME ControlInv, CallAction
    PROVE  ControlInv'
<1>1. /\ UNCHANGED dagVars /\ UNCHANGED orderVars /\ UNCHANGED stack
      /\ at = "walk" /\ ~AtEnd /\ Element.cycle = FALSE
      /\ Len(ran) < Len(sorted[Element.phase])
  BY DEF CallAction
<1>2. GraphOK'
  BY <1>1, OrdersStay DEF ControlInv
<1>3. at' \in {"walk", "threw"}
  BY <1>1 DEF CallAction
<1>4. SortOK'
  BY <1>3 DEF SortOK
<1>5. SortedOK'
  BY <1>1, <1>3, OrdersStay DEF ControlInv, SortedOK, orderVars
<1>6. WalkOK'
  BY <1>1, <1>3 DEF ControlInv, WalkOK, Unsorted, dagVars, orderVars
<1>7. CallsOK'
  <2> DEFINE s == sorted[Element.phase]
             n == s[Len(ran) + 1]
  <2>1. Element.phase \in Phases /\ s \in Seq(Names) /\ ran \in Seq(Names)
    BY <1>1, ElementOK DEF ControlInv, SortedOK, CallsOK
  <2>2. n \in Names
    BY <1>1, <2>1
  <2>3. AtEnd' = AtEnd /\ Element' = Element /\ sorted' = sorted /\ actions' = actions
    BY <1>1 DEF AtEnd, Element, Walker, orderVars, dagVars
  <2>4. CASE n \in actions[Element.phase]
    <3>1. ran' = Append(ran, n) /\ at' = "walk"
      BY <1>1, <2>4 DEF CallAction
    <3>2. ran' \in Seq(Names) /\ Len(ran') = Len(ran) + 1 /\ ran'[Len(ran) + 1] = n
          /\ \A i \in 1..Len(ran) : ran'[i] = ran[i]
      <4> HIDE DEF n
      <4> QED BY <2>1, <2>2, <3>1
    <3>3. \A i \in 1..Len(ran) : ran[i] = s[i] /\ ran[i] \in actions[Element.phase]
      <4>1. CASE ran = <<>>
        BY <4>1
      <4>2. CASE ran # <<>>
        BY <1>1, <4>2 DEF ControlInv, CallsOK
      <4> QED BY <4>1, <4>2
    <3>4. ASSUME NEW i \in 1..Len(ran')
          PROVE  ran'[i] = s[i] /\ ran'[i] \in actions[Element.phase]
      <4>1. Len(ran) \in Nat
        BY <2>1
      <4>2. i \in 1..Len(ran) \/ i = Len(ran) + 1
        BY <3>2, <4>1
      <4> QED BY <4>2, <3>2, <3>3, <2>4
    <3>5. Len(ran') <= Len(s)
      BY <1>1, <2>1, <3>2
    <3> HIDE DEF s, n
    <3> QED BY <1>1, <2>3, <3>1, <3>2, <3>4, <3>5 DEF CallsOK, s
  <2>5. CASE n \notin actions[Element.phase]
    <3>1. at' = "threw" /\ ran' = ran
      BY <1>1, <2>5 DEF CallAction
    <3> QED BY <2>1, <3>1 DEF CallsOK
  <2> QED BY <2>4, <2>5
<1> QED BY <1>2, <1>4, <1>5, <1>6, <1>7 DEF ControlInv

-----------------------------------------------------------------------------
(* Steps at file scope *)

\* A statement may still change the graphs: nothing was sorted by them.
LEMMA ScopeControl ==
    ASSUME OrderInv, NEW st, FileScope(st), GraphOK'
    PROVE  ControlInv' /\ at' = "idle" /\ sortedPhases' = {}
<1>1. /\ UNCHANGED orderVars /\ UNCHANGED at /\ UNCHANGED walkVars
      /\ at = "idle" /\ sortedPhases = {}
  BY DEF FileScope, OrderInv, FirstOK
<1>2. SortOK' /\ WalkOK'
  BY <1>1 DEF SortOK, WalkOK, orderVars
<1>3. SortedOK'
  BY <1>1 DEF OrderInv, SortedOK, orderVars
<1>4. CallsOK'
  BY <1>1 DEF OrderInv, CallsOK, walkVars
<1> QED BY <1>1, <1>2, <1>3, <1>4 DEF ControlInv, orderVars

\* One statement more has been executed.
LEMMA ScopeExecuted ==
    ASSUME OrderInv, NEW st, FileScope(st)
    PROVE  /\ Executed' = Executed \cup {st} /\ st \in program.statements
           /\ program' = program /\ program \in Programs
           /\ pending' \subseteq program.statements
           /\ pc = "file_scope"
<1>1. /\ st \in pending /\ pending' = pending \ {st} /\ program' = program
      /\ pc = "file_scope"
  BY DEF FileScope
<1>2. pending \subseteq program.statements /\ program \in Programs
  BY DEF OrderInv, StatementsOK
<1>3. Executed' = program.statements \ pending'
  BY <1>1 DEF Executed
<1> QED BY <1>1, <1>2, <1>3 DEF Executed

\* What one statement more says.
LEMMA OneMore ==
    ASSUME NEW D, NEW st, NEW p
    PROVE  /\ ActionsOf(D \cup {st}, p) = IF st.what = "action" /\ st.phase = p
                                         THEN ActionsOf(D, p) \cup {st.name} ELSE ActionsOf(D, p)
           /\ \A to, from : EdgeIn(D \cup {st}, p, to, from) <=>
                 \/ EdgeIn(D, p, to, from)
                 \/ st.what = "edge" /\ st.phase = p /\ st.to = to /\ st.from = from
BY DEF ActionsOf, EdgeIn

\* initialize_node adds one node, and nothing else.
LEMMA ActionStatements ==
    ASSUME OrderInv, NEW st \in pending, ActionStatement(st)
    PROVE  GraphOK' /\ StatementsOK' /\ pc' = "file_scope"
<1>1. /\ nodes' = [nodes EXCEPT ![st.phase] = @ \cup {st.name}]
      /\ actions' = [actions EXCEPT ![st.phase] = @ \cup {st.name}]
      /\ edges' = edges /\ st.what = "action" /\ pc' = pc /\ FileScope(st)
  BY DEF ActionStatement, RegisterAction
<1>2. /\ Executed' = Executed \cup {st} /\ st \in program.statements
      /\ program' = program /\ program \in Programs /\ pending' \subseteq program.statements
      /\ pc = "file_scope"
  BY <1>1, ScopeExecuted
<1>3. st.phase \in Phases /\ st.name \in Names
  BY <1>1, <1>2, ProgramsAssumption
<1>4. GraphOK'
  <2>1. GraphOK
    BY DEF OrderInv
  <2>2. \A p \in Phases : IsFiniteSet(nodes'[p])
    BY <1>1, <2>1, FS_AddElement DEF GraphOK
  <2> QED BY <1>1, <1>3, <2>1, <2>2 DEF GraphOK
<1>5. ASSUME NEW p \in Phases
      PROVE  /\ actions'[p] = ActionsOf(Executed', p)
             /\ \A to, from \in Names :
                   edges[p][to][from] > 0 <=> EdgeIn(Executed', p, to, from)
  <2>1. /\ actions[p] = ActionsOf(Executed, p)
        /\ \A to, from \in Names :
              edges[p][to][from] > 0 <=> EdgeIn(Executed, p, to, from)
    BY DEF OrderInv, StatementsOK
  <2>2. actions'[p] = IF p = st.phase THEN actions[p] \cup {st.name} ELSE actions[p]
    BY <1>1 DEF OrderInv, GraphOK
  <2>3. actions'[p] = ActionsOf(Executed', p)
    <3>1. ActionsOf(Executed', p) = IF st.phase = p THEN ActionsOf(Executed, p) \cup {st.name}
                                    ELSE ActionsOf(Executed, p)
      BY <1>1, <1>2, OneMore
    <3> QED BY <2>1, <2>2, <3>1
  <2>4. ASSUME NEW to \in Names, NEW from \in Names
        PROVE  edges[p][to][from] > 0 <=> EdgeIn(Executed', p, to, from)
    BY <1>1, <1>2, <2>1, OneMore
  <2> QED BY <2>3, <2>4
<1>6. StatementsOK'
  BY <1>1, <1>2, <1>5 DEF StatementsOK
<1> QED BY <1>1, <1>2, <1>4, <1>6

\* add_edge counts one more edge, and adds its nodes.
LEMMA EdgeStatements ==
    ASSUME OrderInv, NEW st \in pending, EdgeStatement(st)
    PROVE  GraphOK' /\ StatementsOK' /\ pc' = "file_scope"
<1>1. /\ nodes' = [nodes EXCEPT ![st.phase] = @ \cup {st.to, st.from}]
      /\ edges' = [edges EXCEPT ![st.phase][st.to][st.from] = @ + 1]
      /\ actions' = actions /\ st.what = "edge" /\ pc' = pc /\ FileScope(st)
  BY DEF EdgeStatement, AddEdge
<1>2. /\ Executed' = Executed \cup {st} /\ st \in program.statements
      /\ program' = program /\ program \in Programs /\ pending' \subseteq program.statements
      /\ pc = "file_scope"
  BY <1>1, ScopeExecuted
<1>3. st.phase \in Phases /\ st.to \in Names /\ st.from \in Names
  BY <1>1, <1>2, ProgramsAssumption
<1>4. /\ edges' \in [Phases -> [Names -> [Names -> Nat]]]
      /\ \A p \in Phases : \A to, from \in Names :
            edges'[p][to][from] = IF p = st.phase /\ to = st.to /\ from = st.from
                                  THEN edges[p][to][from] + 1 ELSE edges[p][to][from]
  BY <1>1, <1>3 DEF OrderInv, GraphOK
<1>5. GraphOK'
  <2>1. GraphOK
    BY DEF OrderInv
  <2>2. \A p \in Phases : IsFiniteSet(nodes[p] \cup {st.to} \cup {st.from})
    <3>1. ASSUME NEW p \in Phases
          PROVE  IsFiniteSet(nodes[p] \cup {st.to} \cup {st.from})
      <4>1. IsFiniteSet(nodes[p])
        BY <2>1 DEF GraphOK
      <4>2. IsFiniteSet(nodes[p] \cup {st.to})
        BY <4>1, FS_AddElement
      <4> QED BY <4>2, FS_AddElement
    <3> QED BY <3>1
  <2>3. \A p \in Phases : nodes'[p] = IF p = st.phase THEN nodes[p] \cup {st.to} \cup {st.from} ELSE nodes[p]
    BY <1>1, <2>1 DEF GraphOK
  <2>4. \A p \in Phases : IsFiniteSet(nodes'[p])
    BY <2>1, <2>2, <2>3 DEF GraphOK
  <2>5. nodes' \in [Phases -> SUBSET Names]
    BY <1>1, <1>3, <2>1 DEF GraphOK
  <2>6. \A p \in Phases : actions[p] \subseteq nodes'[p]
    BY <2>1, <2>3 DEF GraphOK
  <2>7. ASSUME NEW p \in Phases, NEW to \in Names, NEW from \in Names, edges'[p][to][from] > 0
        PROVE  to \in nodes'[p] /\ from \in nodes'[p]
    <3>1. CASE p = st.phase /\ to = st.to /\ from = st.from
      BY <2>3, <3>1
    <3>2. CASE ~(p = st.phase /\ to = st.to /\ from = st.from)
      <4>1. edges[p][to][from] > 0
        BY <1>4, <2>7, <3>2
      <4> QED BY <4>1, <2>1, <2>3 DEF GraphOK
    <3> QED BY <3>1, <3>2
  <2> QED BY <1>1, <1>4, <2>1, <2>4, <2>5, <2>6, <2>7 DEF GraphOK
<1>6. ASSUME NEW p \in Phases
      PROVE  /\ actions[p] = ActionsOf(Executed', p)
             /\ \A to, from \in Names :
                   edges'[p][to][from] > 0 <=> EdgeIn(Executed', p, to, from)
  <2>1. /\ actions[p] = ActionsOf(Executed, p)
        /\ \A to, from \in Names :
              edges[p][to][from] > 0 <=> EdgeIn(Executed, p, to, from)
    BY DEF OrderInv, StatementsOK
  <2>2. actions[p] = ActionsOf(Executed', p)
    <3>1. st.what # "action" /\ Executed' = Executed \cup {st}
      BY <1>1, <1>2
    <3>2. ActionsOf(Executed \cup {st}, p) = ActionsOf(Executed, p)
      BY <3>1, OneMore
    <3> QED BY <2>1, <3>1, <3>2
  <2>3. ASSUME NEW to \in Names, NEW from \in Names
        PROVE  edges'[p][to][from] > 0 <=> EdgeIn(Executed', p, to, from)
    <3>1. edges[p][to][from] \in Nat
      BY DEF OrderInv, GraphOK
    <3>2. edges'[p][to][from] > 0 <=> edges[p][to][from] > 0 \/ (p = st.phase /\ to = st.to /\ from = st.from)
      BY <1>4, <3>1
    <3>3. st.what = "edge" /\ Executed' = Executed \cup {st}
      BY <1>1, <1>2
    <3>4. EdgeIn(Executed \cup {st}, p, to, from) <=>
              \/ EdgeIn(Executed, p, to, from)
              \/ st.what = "edge" /\ st.phase = p /\ st.to = to /\ st.from = from
      BY OneMore
    <3> QED BY <2>1, <3>2, <3>3, <3>4
  <2> QED BY <2>2, <2>3
<1>7. StatementsOK'
  BY <1>1, <1>2, <1>6 DEF StatementsOK
<1> QED BY <1>1, <1>2, <1>5, <1>7

\* The other statements leave the graphs alone.
LEMMA OtherStatements ==
    ASSUME OrderInv, NEW st \in pending,
           ClientStatement(st) \/ FieldStatement(st) \/ HandlerStatement(st) \/ DriverStatement(st)
    PROVE  GraphOK' /\ StatementsOK' /\ pc' \in {"file_scope", "aborted"}
<1>1. /\ UNCHANGED dagVars /\ FileScope(st)
      /\ st.what # "action" /\ st.what # "edge"
      /\ pc' = pc \/ pc' = "aborted"
  BY DEF ClientStatement, FieldStatement, HandlerStatement, DriverStatement, Abort
<1>2. /\ Executed' = Executed \cup {st} /\ st \in program.statements
      /\ program' = program /\ program \in Programs /\ pending' \subseteq program.statements
      /\ pc = "file_scope"
  BY <1>1, ScopeExecuted
<1>3. GraphOK'
  BY <1>1, OrdersStay DEF OrderInv
<1>4. ASSUME NEW p \in Phases
      PROVE  /\ actions[p] = ActionsOf(Executed', p)
             /\ \A to, from \in Names :
                   edges[p][to][from] > 0 <=> EdgeIn(Executed', p, to, from)
  <2>1. /\ actions[p] = ActionsOf(Executed, p)
        /\ \A to, from \in Names :
              edges[p][to][from] > 0 <=> EdgeIn(Executed, p, to, from)
    BY DEF OrderInv, StatementsOK
  <2>2. st.what # "action" /\ st.what # "edge" /\ Executed' = Executed \cup {st}
    BY <1>1, <1>2
  <2>3. ActionsOf(Executed \cup {st}, p) = ActionsOf(Executed, p)
    BY <2>2, OneMore
  <2>4. \A to, from : EdgeIn(Executed \cup {st}, p, to, from) <=> EdgeIn(Executed, p, to, from)
    BY <2>2, OneMore
  <2> QED BY <2>1, <2>2, <2>3, <2>4
<1>5. StatementsOK'
  BY <1>1, <1>2, <1>4 DEF StatementsOK, dagVars
<1> QED BY <1>1, <1>2, <1>3, <1>5

-----------------------------------------------------------------------------
(* The invariant *)

\* Before static initialization there is nothing in the graphs, nothing sorted.
LEMMA InitEstablishes == Init => OrderInv
<1> SUFFICES ASSUME Init PROVE OrderInv
  OBVIOUS
<1>1. /\ nodes = [p \in Phases |-> {}] /\ actions = [p \in Phases |-> {}]
      /\ edges = [p \in Phases |-> NoEdges]
      /\ sorted = [p \in Phases |-> <<>>] /\ sortedPhases = {}
      /\ at = "idle" /\ ran = <<>>
      /\ program \in Programs /\ pending = program.statements /\ pc = "file_scope"
  BY DEF Init, ControlInit
<1>2. NoEdges \in [Names -> [Names -> Nat]] /\ \A to, from \in Names : ~(NoEdges[to][from] > 0)
  BY DEF NoEdges
<1>3. /\ \A p \in Phases : nodes[p] = {} /\ actions[p] = {} /\ edges[p] = NoEdges
      /\ nodes \in [Phases -> SUBSET Names] /\ actions \in [Phases -> SUBSET Names]
      /\ edges \in [Phases -> [Names -> [Names -> Nat]]]
  BY <1>1, <1>2
<1>4. GraphOK
  <2>1. IsFiniteSet({})
    BY FS_EmptySet
  <2> QED BY <1>2, <1>3, <2>1 DEF GraphOK
<1>5. StatementsOK
  <2>1. Executed = {}
    BY <1>1 DEF Executed
  <2>2. \A p : ActionsOf({}, p) = {}
    BY DEF ActionsOf
  <2>3. \A p, to, from : ~EdgeIn({}, p, to, from)
    BY DEF EdgeIn
  <2>4. \A p \in Phases : actions[p] = {} /\ \A to, from \in Names : ~(edges[p][to][from] > 0)
    BY <1>2, <1>3
  <2> QED BY <1>1, <2>1, <2>2, <2>3, <2>4 DEF StatementsOK
<1>6. SortOK
  BY <1>1 DEF SortOK
<1>7. SortedOK
  <2>1. <<>> \in Seq(Names)
    OBVIOUS
  <2>2. sorted \in [Phases -> Seq(Names)] /\ \A p \in Phases : sorted[p] = <<>>
    BY <1>1, <2>1
  <2> QED BY <1>1, <2>2 DEF SortedOK
<1>8. WalkOK /\ ScopeOK /\ FirstOK
  BY <1>1 DEF WalkOK, ScopeOK, FirstOK
<1>9. CallsOK
  <2>1. <<>> \in Seq(Names)
    OBVIOUS
  <2> QED BY <1>1, <2>1 DEF CallsOK
<1> QED BY <1>4, <1>5, <1>6, <1>7, <1>8, <1>9 DEF OrderInv

\* Steps of main() and of the runtime driver, which leave the control model alone.
LEMMA MainSteps ==
    ASSUME OrderInv, UNCHANGED <<controlVars, program, pending>>,
           \/ UNCHANGED pc
           \/ pc' # "file_scope" /\ pc \in {"options", "clients", "fields"}
           \/ pc' # "file_scope" /\ pc = "file_scope" /\ pending = {}
           \/ pc' # "file_scope" /\ pc \in {"top_level_driver", "finalize"} /\ at \in {"idle", "fatal", "threw"}
    PROVE  OrderInv'
<1>1. /\ UNCHANGED <<nodes, actions, edges, sorted, sortedPhases, at, phase, line, count>>
      /\ UNCHANGED <<nodeList, tally, scan, stack, ran, rounds, program, pending>>
  BY DEF controlVars, dagVars, orderVars, sortVars, walkVars
<1>2. UNCHANGED dagVars /\ GraphOK'
  BY <1>1, OrdersStay DEF OrderInv, dagVars
<1>3. SortOK'
  <2>1. SortOK
    BY DEF OrderInv
  <2>2. LineOK => LineOK'
    BY <1>1 DEF LineOK
  <2>3. TallyOK => TallyOK'
    <3>1. /\ tally' = tally /\ edges' = edges /\ phase' = phase /\ line' = line
          /\ count' = count /\ scan' = scan /\ nodeList' = nodeList
      BY <1>1
    <3>2. ASSUME TallyOK, NEW n \in nodeList, NEW m \in Names
          PROVE  tally'[n][m] = IF \E i \in 1..count' : line'[i] = m /\ (n \in scan' => i # count')
                                THEN 0 ELSE edges'[phase'][n][m]
      <4>1. tally[n][m] = IF \E i \in 1..count : line[i] = m /\ (n \in scan => i # count)
                          THEN 0 ELSE edges[phase][n][m]
        BY <3>2 DEF TallyOK
      <4> QED BY <3>1, <4>1
    <3> QED BY <3>1, <3>2 DEF TallyOK
  <2>4. ReadyOK => ReadyOK'
    <3>1. \A x, k : Ready(x, k)' <=> Ready(x, k)
      BY <1>1 DEF Ready, ReadyAfter
    <3>2. \A i, j : Before(i, j)' <=> Before(i, j)
      BY <1>1, <3>1 DEF Before
    <3> QED BY <1>1, <3>1, <3>2 DEF ReadyOK
  <2> QED BY <1>1, <2>1, <2>2, <2>3, <2>4 DEF SortOK
<1>4. SortedOK'
  BY <1>1, <1>2, OrdersStay DEF OrderInv, SortedOK
<1>5. WalkOK' /\ CallsOK'
  BY <1>1 DEF OrderInv, WalkOK, CallsOK, Unsorted, AtEnd, Element, Walker
<1>6. StatementsOK'
  BY <1>1 DEF OrderInv, StatementsOK, Executed
<1>7. ScopeOK' /\ FirstOK'
  BY <1>1 DEF OrderInv, ScopeOK, FirstOK
<1> QED BY <1>2, <1>3, <1>4, <1>5, <1>6, <1>7 DEF OrderInv

\* Steps of the control model, under the top level driver.
LEMMA DriverSteps ==
    ASSUME OrderInv, CallExecute \/ ControlModelStep
    PROVE  OrderInv'
<1>1. /\ pc = "top_level_driver" /\ UNCHANGED <<program, pending>>
      /\ \/ Execute /\ UNCHANGED pc
         \/ ControlStep /\ pc' = IF at' \in {"fatal", "threw"} THEN "aborted" ELSE pc
  <2>1. CASE CallExecute
    BY <2>1 DEF CallExecute
  <2>2. CASE ControlModelStep
    BY <2>2 DEF ControlModelStep
  <2> QED BY <2>1, <2>2
<1>2. ControlInv
  BY DEF OrderInv, ControlInv
<1>3. ControlInv'
  BY <1>1, <1>2, SortSteps, WalkSteps, WalkBegins, CallSteps DEF ControlStep
<1>4. UNCHANGED dagVars
  BY <1>1 DEF ControlStep, Execute, StartSort, Scan, Pop, FinishSort, StartWalk, CallAction,
              LeavePhase, EnterRound, LeaveCycle, LeaveWalker
<1>5. StatementsOK'
  BY <1>1, <1>4 DEF OrderInv, StatementsOK, Executed, dagVars
<1>6. ScopeOK' /\ FirstOK'
  BY <1>1 DEF ScopeOK, FirstOK
<1> QED BY <1>3, <1>5, <1>6 DEF OrderInv, ControlInv

\* Every statement, callback and step of the control model keeps the invariant.
LEMMA StepPreserves == OrderInv /\ [Next]_vars => OrderInv'
<1> SUFFICES ASSUME OrderInv, [Next]_vars PROVE OrderInv'
  OBVIOUS
<1>1. ASSUME NEW st \in pending,
             \/ ActionStatement(st) \/ EdgeStatement(st) \/ ClientStatement(st)
             \/ FieldStatement(st) \/ HandlerStatement(st) \/ DriverStatement(st)
      PROVE  OrderInv'
  <2>1. FileScope(st)
    BY <1>1 DEF ActionStatement, EdgeStatement, ClientStatement, FieldStatement,
                HandlerStatement, DriverStatement
  <2>2. GraphOK' /\ StatementsOK' /\ pc' \in {"file_scope", "aborted"}
    BY <1>1, ActionStatements, EdgeStatements, OtherStatements
  <2>3. ControlInv' /\ at' = "idle" /\ sortedPhases' = {}
    BY <2>1, <2>2, ScopeControl
  <2>4. ScopeOK' /\ FirstOK'
    BY <2>3 DEF ScopeOK, FirstOK
  <2> QED BY <2>2, <2>3, <2>4 DEF OrderInv, ControlInv
<1>2. CASE CallExecute \/ ControlModelStep
  BY <1>2, DriverSteps
<1>3. ASSUME NEW c \in clientRegistry, ClientCallback(c)
      PROVE  OrderInv'
  BY <1>3, MainSteps DEF ClientCallback
<1>4. CASE InitializeRuntimes
  BY <1>4, MainSteps DEF InitializeRuntimes
<1>5. CASE Options \/ FieldCallbacks \/ FieldInfos
  BY <1>5, MainSteps DEF Options, FieldCallbacks, FieldInfos, Abort
<1>6. CASE DriverReturns
  BY <1>6, MainSteps DEF DriverReturns, Abort
<1>7. CASE FinalizeRuntimes
  <2>1. at \in {"idle", "fatal", "threw"}
    BY <1>7 DEF FinalizeRuntimes, OrderInv, ScopeOK
  <2> QED BY <1>7, <2>1, MainSteps DEF FinalizeRuntimes
<1>8. CASE UNCHANGED vars
  BY <1>8, MainSteps DEF vars
<1> QED BY <1>1, <1>2, <1>3, <1>4, <1>5, <1>6, <1>7, <1>8 DEF Next

LEMMA OrderInvariant == Spec => []OrderInv
BY InitEstablishes, StepPreserves, PTL DEF Spec

-----------------------------------------------------------------------------
(* Lemmas about the calls *)

\* While the top level driver runs, the graphs are those of all the statements.
LEMMA GraphsOfStatements ==
    ASSUME OrderInv, pc = "top_level_driver", NEW p \in Phases
    PROVE  /\ actions[p] = {a.name : a \in {a \in Statements("action") : a.phase = p}}
           /\ \A n \in Names : \A m : m \in DependsOn(p, n) => m \in Names /\ edges[p][n][m] > 0
<1>1. pending = {} /\ Executed = program.statements /\ program \in Programs
  BY DEF OrderInv, StatementsOK, Executed
<1>2. actions[p] = {a.name : a \in {a \in Statements("action") : a.phase = p}}
  <2>1. actions[p] = ActionsOf(program.statements, p)
    BY <1>1 DEF OrderInv, StatementsOK
  <2> QED BY <2>1 DEF ActionsOf, Statements
<1>3. ASSUME NEW n \in Names, NEW m, m \in DependsOn(p, n)
      PROVE  m \in Names /\ edges[p][n][m] > 0
  <2>1. PICK e \in program.statements : e.what = "edge" /\ e.phase = p /\ e.to = n /\ e.from = m
    BY <1>3 DEF DependsOn, Statements
  <2>2. m \in Names
    BY <1>1, <2>1, ProgramsAssumption
  <2>3. EdgeIn(Executed, p, n, m)
    BY <1>1, <2>1 DEF EdgeIn
  <2> QED BY <2>2, <2>3 DEF OrderInv, StatementsOK
<1> QED BY <1>2, <1>3

\* Of actions that all wait for one another, none can be the first of an order.
LEMMA NoCycleWhileWalking ==
    ASSUME OrderInv, pc = "top_level_driver", at = "walk"
    PROVE  ~Cyclic
<1> SUFFICES ASSUME NEW p \in Phases, NEW S \in (SUBSET Names) \ {{}},
                    \A n \in S : DependsOn(p, n) \cap S # {}
             PROVE  FALSE
  BY DEF Cyclic
<1>1. \A n \in S : \E m \in S : edges[p][n][m] > 0
  <2>1. ASSUME NEW n \in S
        PROVE  \E m \in S : edges[p][n][m] > 0
    <3>1. PICK m \in S : m \in DependsOn(p, n)
      OBVIOUS
    <3>2. edges[p][n][m] > 0
      BY <3>1, GraphsOfStatements
    <3> QED BY <3>2
  <2> QED BY <2>1
<1>2. S \subseteq nodes[p] /\ nodes[p] # {}
  <2>1. \A n, m \in Names : edges[p][n][m] > 0 => n \in nodes[p]
    BY DEF OrderInv, GraphOK
  <2>2. \A n \in S : n \in nodes[p]
    BY <1>1, <2>1
  <2> QED BY <2>2
<1>3. IsOrder(p, sorted[p])
  BY <1>2 DEF OrderInv, WalkOK, Unsorted, SortedOK
<1>4. PICK s \in Seq(Names) : IsOrder(p, s) /\ {s[i] : i \in DOMAIN s} = nodes[p]
  BY <1>3 DEF IsOrder
<1> DEFINE J == {i \in DOMAIN s : s[i] \in S}
<1>5. DOMAIN s = 1..Len(s) /\ Len(s) \in Nat
  BY <1>4
<1>6. J \subseteq Nat /\ J # {}
  <2>1. PICK n \in S : n \in nodes[p]
    BY <1>2
  <2>2. PICK i \in DOMAIN s : s[i] = n
    BY <1>4, <2>1
  <2>3. i \in J
    BY <2>1, <2>2
  <2>4. \A x \in J : x \in Nat
    BY <1>5
  <2> QED BY <2>3, <2>4
<1>7. First(J) \in J /\ \A i \in J : First(J) <= i
  <2> HIDE DEF J
  <2> QED BY <1>6, FirstIsLeast
<1>8. PICK j \in DOMAIN s : s[j] \in S /\ \A i \in DOMAIN s : s[i] \in S => j <= i
  BY <1>7
<1>9. PICK m \in S : edges[p][s[j]][m] > 0
  BY <1>1, <1>8
<1>10. PICK i \in 1..j - 1 : s[i] = m
  <2>1. ReadyAfter(p, s[j], s, j - 1)
    BY <1>4, <1>8 DEF IsOrder
  <2> QED BY <2>1, <1>9 DEF ReadyAfter
<1> HIDE DEF J
<1>11. j \in 1..Len(s)
  BY <1>5
<1>12. i \in 1..Len(s) /\ ~(j <= i)
  BY <1>5, <1>11
<1> QED BY <1>5, <1>8, <1>10, <1>12

\* What has been called is the beginning of the order of the phase.
LEMMA CalledInOrder ==
    ASSUME OrderInv, at = "walk", ~AtEnd, Element.cycle = FALSE
    PROVE  /\ Element.phase \in Phases
           /\ sorted[Element.phase] \in Seq(Names) /\ ran \in Seq(Names)
           /\ \A i \in 1..Len(ran) : ran[i] = sorted[Element.phase][i]
           /\ sorted[Element.phase] # <<>> => IsOrder(Element.phase, sorted[Element.phase])
<1>1. Element.phase \in Phases
  BY ElementOK DEF OrderInv
<1>2. sorted[Element.phase] \in Seq(Names) /\ ran \in Seq(Names)
  BY <1>1 DEF OrderInv, SortedOK, CallsOK
<1>3. \A i \in 1..Len(ran) : ran[i] = sorted[Element.phase][i]
  <2>1. CASE ran = <<>>
    BY <2>1
  <2>2. CASE ran # <<>>
    BY <2>2 DEF OrderInv, CallsOK
  <2> QED BY <2>1, <2>2
<1>4. sorted[Element.phase] # <<>> => IsOrder(Element.phase, sorted[Element.phase])
  BY <1>1 DEF OrderInv, SortedOK
<1> QED BY <1>1, <1>2, <1>3, <1>4

\* A call: the action is a new one, and what it waits for has been called.
LEMMA CallInOrder ==
    ASSUME OrderInv, pc = "top_level_driver", CallAction, ran' # ran
    PROVE  /\ ran' # <<>>
           /\ ran'[Len(ran')] \notin {ran[i] : i \in DOMAIN ran}
           /\ DependsOn(Element.phase, ran'[Len(ran')]) \subseteq {ran[i] : i \in DOMAIN ran}
<1>1. /\ at = "walk" /\ ~AtEnd /\ Element.cycle = FALSE
      /\ Len(ran) < Len(sorted[Element.phase])
      /\ ran' = Append(ran, sorted[Element.phase][Len(ran) + 1])
  BY DEF CallAction
<1>2. PICK p \in Phases : p = Element.phase
  BY <1>1, CalledInOrder
<1>3. PICK s \in Seq(Names) : s = sorted[p]
  BY <1>1, <1>2, CalledInOrder
<1>4. /\ ran \in Seq(Names) /\ \A i \in 1..Len(ran) : ran[i] = s[i]
      /\ s # <<>> => IsOrder(p, s)
  BY <1>1, <1>2, <1>3, CalledInOrder
<1>5. /\ DOMAIN s = 1..Len(s) /\ Len(s) \in Nat
      /\ DOMAIN ran = 1..Len(ran) /\ Len(ran) \in Nat
  BY <1>4
<1>6. PICK k \in Nat : k = Len(ran) + 1
  BY <1>5
<1>7. k \in DOMAIN s /\ k - 1 = Len(ran) /\ s # <<>>
  <2>1. Len(ran) < Len(s)
    BY <1>1, <1>2, <1>3
  <2>2. k \in 1..Len(s) /\ k - 1 = Len(ran)
    BY <2>1, <1>5, <1>6
  <2>3. Len(s) # 0
    BY <2>2
  <2> QED BY <2>2, <2>3, <1>5
<1>8. PICK n \in Names : n = s[k]
  BY <1>7
<1>9. IsOrder(p, s)
  BY <1>4, <1>7
<1>10. ran' = Append(ran, n) /\ ran' # <<>> /\ ran'[Len(ran')] = n
  <2>1. ran' = Append(ran, n)
    BY <1>1, <1>2, <1>3, <1>6, <1>8
  <2>2. Len(ran') = k /\ ran'[k] = n
    BY <2>1, <1>4, <1>6
  <2> QED BY <2>1, <2>2, <1>6
<1>11. ASSUME NEW i \in DOMAIN ran, ran[i] = n
       PROVE  FALSE
  <2>1. i \in DOMAIN s /\ i # k /\ s[i] = s[k]
    BY <1>4, <1>5, <1>7, <1>8, <1>11
  <2> QED BY <2>1, <1>7, <1>9 DEF IsOrder
<1>12. ASSUME NEW m \in DependsOn(p, n)
       PROVE  m \in {ran[i] : i \in DOMAIN ran}
  <2>1. m \in Names /\ edges[p][n][m] > 0
    BY GraphsOfStatements
  <2>2. ReadyAfter(p, n, s, Len(ran))
    BY <1>7, <1>8, <1>9 DEF IsOrder
  <2>3. PICK i \in 1..Len(ran) : s[i] = m
    BY <2>1, <2>2 DEF ReadyAfter
  <2> QED BY <2>3, <1>4, <1>5
<1> QED BY <1>2, <1>10, <1>11, <1>12

\* A phase is left when all that its statements named has been called.
LEMMA LeftComplete ==
    ASSUME OrderInv, pc = "top_level_driver", LeavePhase, ran' # ran
    PROVE  /\ ran' = <<>>
           /\ {ran[i] : i \in DOMAIN ran}
              = {a.name : a \in {a \in Statements("action") : a.phase = Element.phase}}
<1>1. /\ at = "walk" /\ ~AtEnd /\ Element.cycle = FALSE
      /\ Len(ran) = Len(sorted[Element.phase]) /\ ran' = <<>> /\ ran # <<>>
  BY DEF LeavePhase
<1>2. PICK p \in Phases : p = Element.phase
  BY <1>1, CalledInOrder
<1>3. PICK s \in Seq(Names) : s = sorted[p]
  BY <1>1, <1>2, CalledInOrder
<1>4. /\ ran \in Seq(Names) /\ \A i \in 1..Len(ran) : ran[i] = s[i]
      /\ s # <<>> => IsOrder(p, s)
  BY <1>1, <1>2, <1>3, CalledInOrder
<1>5. DOMAIN s = 1..Len(s) /\ DOMAIN ran = 1..Len(ran) /\ Len(s) = Len(ran)
  BY <1>1, <1>2, <1>3, <1>4
<1>6. s # <<>>
  BY <1>1, <1>4, <1>5
<1>7. {ran[i] : i \in DOMAIN ran} = nodes[p]
  <2>1. {s[i] : i \in DOMAIN s} = nodes[p]
    BY <1>4, <1>6 DEF IsOrder
  <2> QED BY <2>1, <1>4, <1>5
<1>8. \A i \in 1..Len(ran) : ran[i] \in actions[p]
  BY <1>1, <1>2 DEF OrderInv, CallsOK
<1>9. actions[p] \subseteq nodes[p]
  BY DEF OrderInv, GraphOK
<1>10. {ran[i] : i \in DOMAIN ran} = actions[p]
  BY <1>5, <1>7, <1>8, <1>9
<1>11. actions[p] = {a.name : a \in {a \in Statements("action") : a.phase = p}}
  BY GraphsOfStatements
<1> QED BY <1>1, <1>2, <1>10, <1>11

-----------------------------------------------------------------------------
(* Theorems *)

\* dag_u::sort: whatever the order of the file-scope statements, a sorted phase
\* has the one order that its graph leaves, and sort() fails of cycles alone.
THEOREM SortsInTheGraphsOrder == Spec => []OrderIsTheGraphs
<1>1. OrderInv => OrderIsTheGraphs
  BY DEF OrderInv, SortedOK, IsOrder, OrderIsTheGraphs
<1> QED BY <1>1, OrderInvariant, PTL

\* control_u::execute with the phase walkers: actions are called once a visit,
\* after what they wait for, and none at all of a program with a cycle.
THEOREM ActionsRunInOrder == Spec => RunsInOrder
<1> DEFINE Ordered ==
        ran' # ran =>
          /\ ~Cyclic
          /\ IF ran' = <<>>
             THEN {ran[i] : i \in DOMAIN ran}
                  = {a.name : a \in {a \in Statements("action") : a.phase = Element.phase}}
             ELSE LET called == {ran[i] : i \in DOMAIN ran} IN
                  /\ ran'[Len(ran')] \notin called
                  /\ DependsOn(Element.phase, ran'[Len(ran')]) \subseteq called
<1>1. ASSUME OrderInv, [Next]_vars, ran' # ran
      PROVE  pc = "top_level_driver" /\ at = "walk" /\ (CallAction \/ LeavePhase)
  <2>1. CASE ControlModelStep
    <3>1. pc = "top_level_driver" /\ ControlStep
      BY <2>1 DEF ControlModelStep
    <3>2. CallAction \/ LeavePhase
      BY <3>1, <1>1 DEF ControlStep, StartSort, Scan, Pop, FinishSort, StartWalk, EnterRound,
                        LeaveCycle, LeaveWalker, walkVars
    <3> QED BY <3>1, <3>2 DEF CallAction, LeavePhase
  <2>2. CASE ~ControlModelStep
    <3>1. CASE \E st \in pending : FileScope(st)
      BY <3>1, <1>1 DEF FileScope, walkVars
    <3>2. CASE CallExecute
      BY <3>2, <1>1 DEF CallExecute, Execute
    <3>3. CASE UNCHANGED controlVars
      BY <3>3, <1>1 DEF controlVars, walkVars
    <3>4. CASE UNCHANGED vars
      BY <3>4, <1>1 DEF vars, controlVars, walkVars
    <3> QED BY <1>1, <2>2, <3>1, <3>2, <3>3, <3>4
        DEF Next, ActionStatement, EdgeStatement, ClientStatement, FieldStatement,
            HandlerStatement, DriverStatement, InitializeRuntimes, Options, ClientCallback,
            FieldCallbacks, FieldInfos, DriverReturns, FinalizeRuntimes
  <2> QED BY <2>1, <2>2
<1>2. OrderInv /\ [Next]_vars => Ordered
  <2> SUFFICES ASSUME OrderInv, [Next]_vars, ran' # ran
               PROVE  Ordered
    OBVIOUS
  <2>1. pc = "top_level_driver" /\ at = "walk" /\ (CallAction \/ LeavePhase)
    BY <1>1
  <2>2. ~Cyclic
    BY <2>1, NoCycleWhileWalking
  <2>3. CASE CallAction
    BY <2>1, <2>2, <2>3, CallInOrder
  <2>4. CASE LeavePhase
    BY <2>1, <2>2, <2>4, LeftComplete
  <2> QED BY <2>1, <2>3, <2>4
<1>3. OrderInv /\ [Next]_vars => [Ordered]_vars
  BY <1>2
<1>4. RunsInOrder <=> [][Ordered]_vars
  BY DEF RunsInOrder
<1> HIDE DEF Ordered
<1> QED BY <1>3, <1>4, OrderInvariant, PTL DEF Spec
-----------------------------------------------------------------------------
(* The registries *)

\* The registry: no two fields have the same id, and ids up to lastId are taken.
IdsOK ==
    /\ lastId \in Nat
    /\ \A k \in DOMAIN fieldRegistry : k = <<k[1], k[2]>> /\ fieldRegistry[k].id \in 1..lastId
    /\ \A k, l \in DOMAIN fieldRegistry :
          k # l => fieldRegistry[k].id # fieldRegistry[l].id

KeyOf(f) == <<f.type, f.key>>

\* A list of fields to register.
FieldList(list) == Len(list) \in Nat /\ list = [i \in 1..Len(list) |-> list[i]]

\* The last of a list to have a key.
LEMMA LastExists ==
    ASSUME NEW n \in Nat, NEW S \in SUBSET (1..n), S # {}
    PROVE  \E i \in S : \A j \in S : j <= i
<1> DEFINE T == {n - i : i \in S}
<1>1. T \in SUBSET Nat /\ T # {}
  <2>1. PICK i \in S : TRUE
    OBVIOUS
  <2>2. n - i \in T
    BY <2>1
  <2>3. \A j \in S : n - j \in Nat
    OBVIOUS
  <2> QED BY <2>2, <2>3
<1> HIDE DEF T
<1>2. \E x \in T : \A y \in T : ~(<<y, x>> \in OpToRel(<, Nat))
  BY <1>1, NatLessThanWellFounded, WFMin
<1> USE DEF T
<1>3. PICK x \in T : \A y \in T : ~(<<y, x>> \in OpToRel(<, Nat))
  BY <1>2
<1>4. PICK i \in S : x = n - i
  BY <1>3
<1>5. ASSUME NEW j \in S PROVE j <= i
  <2>1. n - j \in T /\ n - j \in Nat /\ x \in Nat
    BY <1>4
  <2>2. ~(n - j < x)
    BY <1>3, <2>1 DEF OpToRel
  <2> QED BY <1>4, <2>1, <2>2
<1> QED BY <1>5

\* register_field gives each key of the list the next ids, and leaves the others.
LEMMA FieldsRegistered ==
    ASSUME IdsOK, NEW list, FieldList(list), RegisterFields(list)
    PROVE  /\ IdsOK'
           /\ DOMAIN fieldRegistry' = DOMAIN fieldRegistry \cup {KeyOf(list[i]) : i \in DOMAIN list}
           /\ \A k \in DOMAIN fieldRegistry :
                 (\A i \in DOMAIN list : KeyOf(list[i]) # k) => fieldRegistry'[k] = fieldRegistry[k]
           /\ \A i \in DOMAIN list : \E j \in DOMAIN list :
                 /\ KeyOf(list[j]) = KeyOf(list[i])
                 /\ fieldRegistry'[KeyOf(list[i])].space = list[j].space
                 /\ fieldRegistry'[KeyOf(list[i])].class = list[j].class
<1> DEFINE last(k) == CHOOSE i \in DOMAIN list :
                          KeyOf(list[i]) = k /\ \A j \in DOMAIN list : KeyOf(list[j]) = k => j <= i
           keys == {KeyOf(list[i]) : i \in DOMAIN list}
<1>1. ASSUME NEW k \in keys
      PROVE  last(k) \in DOMAIN list /\ KeyOf(list[last(k)]) = k
  <2> DEFINE S == {i \in DOMAIN list : KeyOf(list[i]) = k}
  <2>1. S \in SUBSET (1..Len(list)) /\ S # {} /\ Len(list) \in Nat
    BY DEF FieldList
  <2>2. \E i \in S : \A j \in S : j <= i
    BY <2>1, LastExists
  <2> QED BY <2>2
<1> HIDE DEF last
<1>2. /\ fieldRegistry' = [k \in DOMAIN fieldRegistry \cup keys |->
              IF k \in keys THEN [id |-> lastId + last(k), space |-> list[last(k)].space,
                                  class |-> list[last(k)].class]
              ELSE fieldRegistry[k]]
      /\ lastId' = lastId + Len(list)
  <2>1. \A k : k \in keys <=> \E i \in DOMAIN list : KeyOf(list[i]) = k
    OBVIOUS
  <2> QED BY <2>1 DEF RegisterFields, KeyOf, last
<1>3. \A k \in keys : k = <<k[1], k[2]>>
  BY DEF KeyOf
<1> HIDE DEF keys
<1>4. DOMAIN fieldRegistry' = DOMAIN fieldRegistry \cup keys
  BY <1>2
<1>5. \A k \in keys :
          /\ fieldRegistry'[k].id = lastId + last(k)
          /\ fieldRegistry'[k].space = list[last(k)].space
          /\ fieldRegistry'[k].class = list[last(k)].class
  BY <1>2
<1>6. \A k \in DOMAIN fieldRegistry : k \notin keys => fieldRegistry'[k] = fieldRegistry[k]
  BY <1>2
<1>7. \A k \in keys : last(k) \in 1..Len(list)
  BY <1>1 DEF FieldList
<1>8. /\ lastId \in Nat /\ Len(list) \in Nat /\ lastId' = lastId + Len(list)
      /\ \A k \in DOMAIN fieldRegistry : k = <<k[1], k[2]>> /\ fieldRegistry[k].id \in 1..lastId
      /\ \A k, l \in DOMAIN fieldRegistry :
            k # l => fieldRegistry[k].id # fieldRegistry[l].id
  BY <1>2 DEF IdsOK, FieldList
<1>9. IdsOK'
  <2>1. \A k \in DOMAIN fieldRegistry' : k = <<k[1], k[2]>> /\ fieldRegistry'[k].id \in 1..lastId'
    BY <1>3, <1>4, <1>5, <1>6, <1>7, <1>8
  <2>2. ASSUME NEW k \in DOMAIN fieldRegistry', NEW l \in DOMAIN fieldRegistry', k # l
        PROVE  fieldRegistry'[k].id # fieldRegistry'[l].id
    <3>1. CASE k \in keys /\ l \in keys
      <4>1. last(k) # last(l)
        BY <1>1, <2>2, <3>1
      <4> QED BY <1>5, <1>7, <1>8, <3>1, <4>1
    <3>2. CASE k \in keys /\ l \notin keys
      BY <1>4, <1>5, <1>6, <1>7, <1>8, <2>2, <3>2
    <3>3. CASE k \notin keys /\ l \in keys
      BY <1>4, <1>5, <1>6, <1>7, <1>8, <2>2, <3>3
    <3>4. CASE k \notin keys /\ l \notin keys
      BY <1>4, <1>6, <1>8, <2>2, <3>4
    <3> QED BY <3>1, <3>2, <3>3, <3>4
  <2> QED BY <1>8, <2>1, <2>2 DEF IdsOK
<1>10. \A i \in DOMAIN list : KeyOf(list[i]) \in keys
  BY DEF keys
<1>11. \A k : (\A i \in DOMAIN list : KeyOf(list[i]) # k) => k \notin keys
  BY DEF keys
<1>12. DOMAIN fieldRegistry' = DOMAIN fieldRegistry \cup {KeyOf(list[i]) : i \in DOMAIN list}
  BY <1>4 DEF keys
<1> QED BY <1>1, <1>5, <1>6, <1>9, <1>10, <1>11, <1>12

\* What a client has the runtime driver register.
InternalFields(c) ==
    IF Layout[c[1]].kind = "mesh" THEN MeshFields(c)
    ELSE IF Layout[c[1]].kind = "set" THEN SetFields(c) ELSE <<>>

\* Fields of client c, those with the same key in the same index space.
FieldsOf(c, list) ==
    /\ FieldList(list)
    /\ \A i \in DOMAIN list :
          /\ list[i].type = c[1]
          /\ \E what, index : list[i].key = <<c[2], what, index>>
    /\ \A i, j \in DOMAIN list : list[i].key = list[j].key => list[i].space = list[j].space


\* Every element of r is an element of s or t.
Among(x, s) == \E j \in DOMAIN s : x = s[j]
AllAmong(r, s, t) == \A i \in DOMAIN r : Among(r[i], s) \/ Among(r[i], t)

\* The elements of one sequence after another are elements of one of them.
LEMMA OneOfTwo ==
    ASSUME NEW s, NEW t, FieldList(s), FieldList(t)
    PROVE  FieldList(s \o t) /\ AllAmong(s \o t, s, t)
<1> DEFINE S == {s[i] : i \in 1..Len(s)} \cup {t[i] : i \in 1..Len(t)}
<1>1. s \in Seq(S) /\ t \in Seq(S)
  BY DEF FieldList
<1> HIDE DEF S
<1>2. PICK r \in Seq(S) : r = s \o t
  <2>1. s \o t \in Seq(S)
    BY <1>1
  <2> QED BY <2>1
<1>3. /\ Len(r) = Len(s) + Len(t) /\ DOMAIN r = 1..Len(r) /\ r = [i \in 1..Len(r) |-> r[i]]
      /\ Len(s) \in Nat /\ Len(t) \in Nat
      /\ DOMAIN s = 1..Len(s) /\ DOMAIN t = 1..Len(t)
  <2>1. Len(r) = Len(s) + Len(t)
    BY <1>1, <1>2
  <2> QED BY <1>1, <1>2, <2>1, LenProperties
<1>4. ASSUME NEW i \in DOMAIN r PROVE Among(r[i], s) \/ Among(r[i], t)
  <2>1. r[i] = IF i <= Len(s) THEN s[i] ELSE t[i - Len(s)]
    BY <1>1, <1>2, <1>3
  <2>2. i \in DOMAIN s \/ (~(i <= Len(s)) /\ i - Len(s) \in DOMAIN t)
    BY <1>3
  <2> QED BY <1>3, <2>1, <2>2 DEF Among
<1> QED BY <1>2, <1>3, <1>4 DEF FieldList, AllAmong

\* A field of client c that it asks for itself.
Says(c, f, what, index, space) ==
    f.type = c[1] /\ f.key = <<c[2], what, index>> /\ f.space = space
Meant(c, what, index, space) ==
    \/ what \in {"entity data", "entity id", "adjacency index"} /\ index = space
    \/ /\ what = "adjacency offset"
       /\ \E i \in DOMAIN Layout[c[1]].adjacencies :
             LET a == Layout[c[1]].adjacencies[i] IN index = a.index /\ space = a.from
    \/ /\ what = "subspace"
       /\ \E i \in DOMAIN Layout[c[1]].subspaces :
             LET s == Layout[c[1]].subspaces[i] IN index = s.subspace /\ space = s.index
MeshField(c, f) ==
    \E what, index, space : Meant(c, what, index, space) /\ Says(c, f, what, index, space)
SetField(c, f) == \E what, e : Says(c, f, what, e, e)

\* What a mesh registers, and a set.
LEMMA MeshFieldsAre ==
    ASSUME NEW c, c[1] \in DOMAIN Layout
    PROVE  /\ FieldList(MeshFields(c))
           /\ \A i \in DOMAIN MeshFields(c) : MeshField(c, MeshFields(c)[i])
<1> DEFINE E == Layout[c[1]].entities
           A == Layout[c[1]].adjacencies
           B == Layout[c[1]].subspaces
           entity(s)   == Internal(c, "entity data", s, s, "dense")
           entityId(s) == Internal(c, "entity id", s, s, "dense")
           index(a)    == Internal(c, "adjacency index", a.index, a.index, "dense")
           offset(a)   == Internal(c, "adjacency offset", a.index, a.from, "dense")
           subspace(s) == Internal(c, "subspace", s.subspace, s.index, "subspace")
           s1 == [i \in 1..2 * Len(E) |->
                     IF i % 2 = 1 THEN entity(E[(i + 1) \div 2]) ELSE entityId(E[i \div 2])]
           s2 == [i \in 1..2 * Len(A) |->
                     IF i % 2 = 1 THEN index(A[(i + 1) \div 2]) ELSE offset(A[i \div 2])]
           s3 == [i \in DOMAIN B |-> subspace(B[i])]
<1>1. MeshFields(c) = s1 \o s2 \o s3
  BY DEF MeshFields, TwoEach
<1>2. /\ Len(E) \in Nat /\ DOMAIN E = 1..Len(E)
      /\ Len(A) \in Nat /\ DOMAIN A = 1..Len(A)
      /\ Len(B) \in Nat /\ DOMAIN B = 1..Len(B)
  BY LayoutAssumption
<1>3. /\ \A e : MeshField(c, entity(e)) /\ MeshField(c, entityId(e))
      /\ \A j \in DOMAIN A : MeshField(c, index(A[j])) /\ MeshField(c, offset(A[j]))
      /\ \A j \in DOMAIN B : MeshField(c, subspace(B[j]))
  <2>1. \A e : /\ Meant(c, "entity data", e, e) /\ Says(c, entity(e), "entity data", e, e)
               /\ Meant(c, "entity id", e, e) /\ Says(c, entityId(e), "entity id", e, e)
    BY DEF Meant, Says, Internal
  <2>2. ASSUME NEW j \in DOMAIN A, NEW a, a = A[j]
        PROVE  /\ Meant(c, "adjacency index", a.index, a.index)
               /\ Says(c, index(a), "adjacency index", a.index, a.index)
               /\ Meant(c, "adjacency offset", a.index, a.from)
               /\ Says(c, offset(a), "adjacency offset", a.index, a.from)
    BY <2>2 DEF Meant, Says, Internal
  <2>3. ASSUME NEW j \in DOMAIN B, NEW b, b = B[j]
        PROVE  /\ Meant(c, "subspace", b.subspace, b.index)
               /\ Says(c, subspace(b), "subspace", b.subspace, b.index)
    BY <2>3 DEF Meant, Says, Internal
  <2> HIDE DEF A, B, entity, entityId, index, offset, subspace
  <2> QED BY <2>1, <2>2, <2>3 DEF MeshField
<1> HIDE DEF E, A, B, entity, entityId, index, offset, subspace
<1>4. \A n \in Nat : \A i \in 1..2 * n :
          IF i % 2 = 1 THEN (i + 1) \div 2 \in 1..n ELSE i \div 2 \in 1..n
  OBVIOUS
<1>5. /\ FieldList(s1) /\ DOMAIN s1 = 1..2 * Len(E)
      /\ \A i \in DOMAIN s1 : \E j \in DOMAIN E : s1[i] = entity(E[j]) \/ s1[i] = entityId(E[j])
  <2>1. Len(s1) = 2 * Len(E) /\ DOMAIN s1 = 1..2 * Len(E)
    BY <1>2
  <2>2. FieldList(s1)
    BY <1>2, <2>1 DEF FieldList
  <2>3. ASSUME NEW i \in DOMAIN s1
        PROVE  \E j \in DOMAIN E : s1[i] = entity(E[j]) \/ s1[i] = entityId(E[j])
    <3>1. CASE i % 2 = 1
      BY <1>2, <1>4, <2>1, <3>1
    <3>2. CASE i % 2 # 1
      BY <1>2, <1>4, <2>1, <3>2
    <3> QED BY <3>1, <3>2
  <2> QED BY <2>1, <2>2, <2>3
<1>6. /\ FieldList(s2)
      /\ \A i \in DOMAIN s2 : \E j \in DOMAIN A : s2[i] = index(A[j]) \/ s2[i] = offset(A[j])
  <2>1. Len(s2) = 2 * Len(A)
    BY <1>2
  <2> QED BY <1>2, <1>4, <2>1 DEF FieldList
<1>7. FieldList(s3) /\ \A i \in DOMAIN s3 : \E j \in DOMAIN B : s3[i] = subspace(B[j])
  <2>1. Len(s3) = Len(B)
    BY <1>2
  <2> QED BY <1>2, <2>1 DEF FieldList
<1> HIDE DEF s1, s2, s3
<1>8. PICK s : s = s1 \o s2 /\ FieldList(s) /\ AllAmong(s, s1, s2)
  BY <1>5, <1>6, OneOfTwo
<1>9. PICK r : r = s \o s3 /\ FieldList(r) /\ AllAmong(r, s, s3)
  BY <1>7, <1>8, OneOfTwo
<1>10. ASSUME NEW i \in DOMAIN r PROVE MeshField(c, r[i])
  <2> DEFINE f == r[i]
  <2> SUFFICES MeshField(c, f)
    OBVIOUS
  <2>1. Among(f, s1) \/ Among(f, s2) \/ Among(f, s3)
    BY <1>8, <1>9 DEF Among, AllAmong
  <2> HIDE DEF f
  <2>2. CASE Among(f, s1)
    BY <1>3, <1>5, <2>2 DEF Among
  <2>3. CASE Among(f, s2)
    BY <1>3, <1>6, <2>3 DEF Among
  <2>4. CASE Among(f, s3)
    BY <1>3, <1>7, <2>4 DEF Among
  <2> QED BY <2>1, <2>2, <2>3, <2>4
<1> QED BY <1>1, <1>8, <1>9, <1>10

LEMMA SetFieldsAre ==
    ASSUME NEW c, c[1] \in DOMAIN Layout
    PROVE  /\ FieldList(SetFields(c))
           /\ \A i \in DOMAIN SetFields(c) : SetField(c, SetFields(c)[i])
<1> DEFINE E == Layout[c[1]].entities
           data(s)   == Internal(c, "entity data", s, s, "local")
           active(s) == Internal(c, "active entity data", s, s, "local")
           moving(s) == Internal(c, "migrate entity data", s, s, "local")
           field(i) == LET s == E[(i + 2) \div 3] IN
                       CASE i % 3 = 1 -> data(s) [] i % 3 = 2 -> active(s) [] i % 3 = 0 -> moving(s)
           list == [i \in 1..3 * Len(E) |-> field(i)]
<1>1. SetFields(c) = list
  BY DEF SetFields
<1>2. Len(E) \in Nat /\ DOMAIN E = 1..Len(E)
  BY LayoutAssumption
<1>3. \A n \in Nat : \A i \in 1..3 * n :
          (i + 2) \div 3 \in 1..n /\ (i % 3 = 0 \/ i % 3 = 1 \/ i % 3 = 2)
  OBVIOUS
<1>4. ASSUME NEW i \in 1..3 * Len(E) PROVE SetField(c, field(i))
  <2>1. (i + 2) \div 3 \in DOMAIN E /\ (i % 3 = 0 \/ i % 3 = 1 \/ i % 3 = 2)
    BY <1>2, <1>3
  <2> DEFINE s == E[(i + 2) \div 3]
  <2> HIDE DEF data, active, moving
  <2>2. field(i) = data(s) \/ field(i) = active(s) \/ field(i) = moving(s)
    BY <2>1
  <2> HIDE DEF field
  <2> HIDE DEF s
  <2>3. /\ Says(c, data(s), "entity data", s, s)
        /\ Says(c, active(s), "active entity data", s, s)
        /\ Says(c, moving(s), "migrate entity data", s, s)
    BY DEF data, active, moving, Internal, Says
  <2> QED BY <2>2, <2>3 DEF SetField
<1> HIDE DEF E, field
<1>5. FieldList(list) /\ DOMAIN list = 1..3 * Len(E)
  <2>1. Len(list) = 3 * Len(E)
    BY <1>2
  <2> QED BY <1>2, <2>1 DEF FieldList
<1> QED BY <1>1, <1>4, <1>5

\* So the fields of a client are its own, each in one index space.
LEMMA InternalFieldsAre ==
    ASSUME NEW c, c[1] \in DOMAIN Layout
    PROVE  FieldsOf(c, InternalFields(c))
<1>1. ASSUME NEW f, MeshField(c, f) \/ SetField(c, f)
      PROVE  f.type = c[1] /\ \E what, index : f.key = <<c[2], what, index>>
  <2>1. \E what, index, space : Says(c, f, what, index, space)
    BY <1>1 DEF MeshField, SetField
  <2> QED BY <2>1 DEF Says
<1>2. ASSUME NEW f, NEW g, f.key = g.key, NEW a, NEW b, NEW i, NEW j, NEW x, NEW y,
             Says(c, f, a, i, x), Says(c, g, b, j, y)
      PROVE  a = b /\ i = j /\ f.space = x /\ g.space = y
  <2>1. <<c[2], a, i>> = <<c[2], b, j>>
    BY <1>2 DEF Says
  <2>2. a = b /\ i = j
    BY <2>1
  <2> QED BY <1>2, <2>2 DEF Says
<1>3. ASSUME NEW f, NEW g, f.key = g.key, MeshField(c, f), MeshField(c, g)
      PROVE  f.space = g.space
  <2>1. PICK what, index, x : Meant(c, what, index, x) /\ Says(c, f, what, index, x)
    BY <1>3 DEF MeshField
  <2>2. PICK y : Meant(c, what, index, y) /\ Says(c, g, what, index, y)
    <3>1. PICK b, j, y : Meant(c, b, j, y) /\ Says(c, g, b, j, y)
      BY <1>3 DEF MeshField
    <3> QED BY <1>2, <1>3, <2>1, <3>1
  <2> DEFINE A == Layout[c[1]].adjacencies
             B == Layout[c[1]].subspaces
  <2>3. /\ \A i, j \in DOMAIN A : A[i].index = A[j].index => A[i].from = A[j].from
        /\ \A i, j \in DOMAIN B : B[i].subspace = B[j].subspace => B[i].index = B[j].index
    BY LayoutAssumption
  <2>4. x = y
    <3>1. CASE what = "adjacency offset"
      <4>1. PICK i \in DOMAIN A, j \in DOMAIN A :
                A[i].index = index /\ A[i].from = x /\ A[j].index = index /\ A[j].from = y
        BY <2>1, <2>2, <3>1 DEF Meant
      <4> HIDE DEF A
      <4> QED BY <2>3, <4>1
    <3>2. CASE what = "subspace"
      <4>1. PICK i \in DOMAIN B, j \in DOMAIN B :
                B[i].subspace = index /\ B[i].index = x /\ B[j].subspace = index /\ B[j].index = y
        BY <2>1, <2>2, <3>2 DEF Meant
      <4> HIDE DEF B
      <4> QED BY <2>3, <4>1
    <3> QED BY <2>1, <2>2, <3>1, <3>2 DEF Meant
  <2> QED BY <1>2, <1>3, <2>1, <2>2, <2>4
<1>4. ASSUME NEW f, NEW g, f.key = g.key, SetField(c, f), SetField(c, g)
      PROVE  f.space = g.space
  BY <1>2, <1>4 DEF SetField
<1>5. CASE Layout[c[1]].kind = "mesh"
  <2>1. FieldList(MeshFields(c)) /\ \A i \in DOMAIN MeshFields(c) : MeshField(c, MeshFields(c)[i])
    BY MeshFieldsAre
  <2> QED BY <1>1, <1>3, <1>5, <2>1 DEF FieldsOf, InternalFields
<1>6. CASE Layout[c[1]].kind = "set"
  <2>1. FieldList(SetFields(c)) /\ \A i \in DOMAIN SetFields(c) : SetField(c, SetFields(c)[i])
    BY SetFieldsAre
  <2> QED BY <1>1, <1>4, <1>6, <2>1 DEF FieldsOf, InternalFields
<1>7. CASE Layout[c[1]].kind # "mesh" /\ Layout[c[1]].kind # "set"
  BY <1>7 DEF FieldsOf, InternalFields, FieldList
<1> QED BY <1>5, <1>6, <1>7

-----------------------------------------------------------------------------
(* The invariant of the registries *)

UserKey(st, v) == <<st.type, <<st.name, v>>>>

\* Each version of a field of the program is what one of its statements said.
UserFieldsOK ==
    \A st \in Executed : st.what = "field" => \A v \in 0..st.versions - 1 :
        /\ UserKey(st, v) \in DOMAIN fieldRegistry
        /\ \E d \in Statements("field") :
              /\ d.type = st.type /\ d.name = st.name
              /\ d.space = fieldRegistry[UserKey(st, v)].space
              /\ d.class = fieldRegistry[UserKey(st, v)].class

\* The clients are those of the statements, and those whose callbacks the
\* driver has called have their fields, in the index spaces they belong to.
HasFields(c) ==
    \A i \in DOMAIN InternalFields(c) :
        LET f == InternalFields(c)[i] IN
        KeyOf(f) \in DOMAIN fieldRegistry /\ fieldRegistry[KeyOf(f)].space = f.space
ClientsOK ==
    /\ \A c \in clientRegistry : \E st \in Statements("client") : c = <<st.type, st.key>>
    /\ \A st \in Executed : st.what = "client" => <<st.type, st.key>> \in clientRegistry
    /\ clientFields \subseteq invoked /\ invoked \subseteq clientRegistry
    /\ pc = "file_scope" => invoked = {}
    /\ \A c \in invoked : HasFields(c)

\* The field information is that of the registry, which no longer changes.
InfoOK ==
    /\ pc \in {"fields", "top_level_driver"} =>
          /\ invoked = clientRegistry
          /\ fieldInfo = {Info(k) : k \in DOMAIN fieldRegistry}
          /\ serdezRegistry = {f.id : f \in {f \in fieldInfo : f.class \in {"ragged", "sparse"}}}
    /\ pc = "top_level_driver" =>
          /\ fieldInfoMap = fieldInfo
          /\ fieldNameMap = [k \in {KeyOf(f) : f \in fieldInfo} |->
                LET f == CHOOSE f \in fieldInfo : KeyOf(f) = k IN <<f.space, f.id>>]
          /\ ghostFlags = {<<f.space, f.id>> : f \in fieldInfo}

RegistryInv == IdsOK /\ UserFieldsOK /\ ClientsOK /\ InfoOK

\* The keys of a program's fields are not those of a client's.
LEMMA KeysApart ==
    ASSUME NEW c, NEW d, c = <<c[1], c[2]>>, d = <<d[1], d[2]>>, NEW f, NEW g,
           f.type = c[1], g.type = d[1], \E what, index : f.key = <<c[2], what, index>>,
           \E what, index : g.key = <<d[2], what, index>>
    PROVE  /\ \A st, v : KeyOf(f) # UserKey(st, v)
           /\ KeyOf(f) = KeyOf(g) => c = d
<1>1. PICK w, i : f.key = <<c[2], w, i>>
  OBVIOUS
<1>2. PICK x, j : g.key = <<d[2], x, j>>
  OBVIOUS
<1>3. KeyOf(f) = <<c[1], <<c[2], w, i>>>> /\ KeyOf(g) = <<d[1], <<d[2], x, j>>>>
  BY <1>1, <1>2 DEF KeyOf
<1>4. \A y, z, a, b : <<y, a>> = <<z, b>> => y = z /\ a = b
  OBVIOUS
<1>5. \A y, z, a, b, p, q : <<y, a, p>> = <<z, b, q>> => y = z
  OBVIOUS
<1>6. \A a, b, p, q, r : <<a, b>> # <<p, q, r>>
  OBVIOUS
<1>7. ASSUME NEW st, NEW v PROVE KeyOf(f) # UserKey(st, v)
  BY <1>3, <1>4, <1>6 DEF UserKey
<1>8. ASSUME KeyOf(f) = KeyOf(g) PROVE c = d
  <2>1. c[1] = d[1] /\ <<c[2], w, i>> = <<d[2], x, j>>
    BY <1>3, <1>4, <1>8
  <2>2. c[2] = d[2]
    BY <1>5, <2>1
  <2> QED BY <2>1, <2>2
<1> QED BY <1>7, <1>8

\* Where nothing is registered.
LEMMA RegistryStays ==
    ASSUME RegistryInv, StatementsOK,
           UNCHANGED <<program, fieldRegistry, lastId, clientRegistry, clientFields, invoked>>,
           \/ UNCHANGED pending
           \/ \E st \in pending : pending' = pending \ {st} /\ st.what \notin {"field", "client"},
           pc' = "file_scope" => pc = "file_scope", InfoOK'
    PROVE  RegistryInv'
<1>1. IdsOK'
  BY DEF RegistryInv, IdsOK
<1>2. \A st \in Executed' : st.what \in {"field", "client"} => st \in Executed
  BY DEF Executed
<1>3. UserFieldsOK'
  BY <1>2 DEF RegistryInv, UserFieldsOK, Statements
<1>4. ClientsOK'
  BY <1>2 DEF RegistryInv, ClientsOK, HasFields, Statements
<1> QED BY <1>1, <1>3, <1>4 DEF RegistryInv

\* Statements of fields, and of clients, at file scope.
LEMMA FieldStep ==
    ASSUME RegistryInv, StatementsOK, NEW st \in pending, FieldStatement(st)
    PROVE  RegistryInv'
<1> DEFINE list == FieldVersions(st.type, st.name, st.versions, st.space, st.class)
<1>1. /\ pc = "file_scope" /\ pc' = pc /\ program' = program /\ pending' = pending \ {st}
      /\ UNCHANGED <<clientRegistry, clientFields, invoked>>
      /\ st.what = "field" /\ RegisterFields(list)
  BY DEF FieldStatement, FileScope
<1>2. st \in program.statements /\ program \in Programs
  BY DEF StatementsOK
<1>3. st.versions \in Nat
  BY <1>1, <1>2, ProgramsAssumption
<1>4. /\ FieldList(list) /\ DOMAIN list = 1..st.versions
      /\ \A i \in 1..st.versions : /\ KeyOf(list[i]) = UserKey(st, i - 1)
                                   /\ list[i].space = st.space /\ list[i].class = st.class
  BY <1>3 DEF FieldVersions, FieldList, KeyOf, UserKey
<1> HIDE DEF list
<1>5. /\ IdsOK'
      /\ DOMAIN fieldRegistry' = DOMAIN fieldRegistry \cup {KeyOf(list[i]) : i \in DOMAIN list}
      /\ \A k \in DOMAIN fieldRegistry :
            (\A i \in DOMAIN list : KeyOf(list[i]) # k) => fieldRegistry'[k] = fieldRegistry[k]
      /\ \A i \in DOMAIN list : \E j \in DOMAIN list :
            /\ KeyOf(list[j]) = KeyOf(list[i])
            /\ fieldRegistry'[KeyOf(list[i])].space = list[j].space
            /\ fieldRegistry'[KeyOf(list[i])].class = list[j].class
  <2>1. IdsOK
    BY DEF RegistryInv
  <2> QED BY <1>1, <1>4, <2>1, FieldsRegistered
<1>6. ASSUME NEW i \in 1..st.versions
      PROVE  /\ UserKey(st, i - 1) \in DOMAIN fieldRegistry'
             /\ fieldRegistry'[UserKey(st, i - 1)].space = st.space
             /\ fieldRegistry'[UserKey(st, i - 1)].class = st.class
  <2>1. i \in DOMAIN list /\ KeyOf(list[i]) = UserKey(st, i - 1)
    BY <1>4
  <2>2. PICK j \in DOMAIN list : /\ fieldRegistry'[KeyOf(list[i])].space = list[j].space
                                 /\ fieldRegistry'[KeyOf(list[i])].class = list[j].class
    BY <1>5, <2>1
  <2>3. list[j].space = st.space /\ list[j].class = st.class
    BY <1>4, <2>2
  <2>4. KeyOf(list[i]) \in DOMAIN fieldRegistry'
    BY <1>5, <2>1
  <2> QED BY <2>1, <2>2, <2>3, <2>4
<1>7. st \in Statements("field")' /\ Statements("field")' = Statements("field")
  BY <1>1, <1>2 DEF Statements
<1>8. UserFieldsOK'
  <2>1. SUFFICES ASSUME NEW s \in Executed', s.what = "field", NEW v \in 0..s.versions - 1
                 PROVE  /\ UserKey(s, v) \in DOMAIN fieldRegistry'
                        /\ \E d \in Statements("field") :
                              /\ d.type = s.type /\ d.name = s.name
                              /\ d.space = fieldRegistry'[UserKey(s, v)].space
                              /\ d.class = fieldRegistry'[UserKey(s, v)].class
    BY <1>7 DEF UserFieldsOK, UserKey
  <2>2. CASE \E i \in 1..st.versions : UserKey(s, v) = UserKey(st, i - 1)
    <3>1. s.type = st.type /\ s.name = st.name
      BY <2>2 DEF UserKey
    <3> QED BY <1>6, <1>7, <2>2, <3>1
  <2>3. CASE \A i \in 1..st.versions : UserKey(s, v) # UserKey(st, i - 1)
    <3>1. s # st
      <4>1. CASE s = st
        <5>1. v + 1 \in 1..st.versions /\ v = (v + 1) - 1
          BY <1>3, <2>1, <4>1
        <5> QED BY <2>3, <4>1, <5>1
      <4> QED BY <4>1
    <3>2. s \in Executed
      BY <1>1, <2>1, <3>1 DEF Executed
    <3>3. /\ UserKey(s, v) \in DOMAIN fieldRegistry
          /\ \E d \in Statements("field") :
                /\ d.type = s.type /\ d.name = s.name
                /\ d.space = fieldRegistry[UserKey(s, v)].space
                /\ d.class = fieldRegistry[UserKey(s, v)].class
      BY <2>1, <3>2 DEF RegistryInv, UserFieldsOK
    <3>4. fieldRegistry'[UserKey(s, v)] = fieldRegistry[UserKey(s, v)]
      BY <1>4, <1>5, <2>3, <3>3
    <3> QED BY <1>5, <3>3, <3>4
  <2> QED BY <2>2, <2>3
<1>9. ClientsOK'
  <2>1. \A s \in Executed' : s.what = "client" => s \in Executed
    BY <1>1 DEF Executed
  <2> QED BY <1>1, <2>1 DEF RegistryInv, ClientsOK, Statements
<1>10. InfoOK'
  BY <1>1 DEF InfoOK
<1> QED BY <1>5, <1>8, <1>9, <1>10 DEF RegistryInv

LEMMA ClientStep ==
    ASSUME RegistryInv, StatementsOK, NEW st \in pending, ClientStatement(st)
    PROVE  RegistryInv'
<1>1. /\ pc = "file_scope" /\ pc' \in {"file_scope", "aborted"}
      /\ program' = program /\ pending' = pending \ {st}
      /\ UNCHANGED <<fieldRegistry, clientFields, invoked>>
      /\ st.what = "client" /\ lastId' \in {lastId, lastId + 1}
      /\ clientRegistry' = clientRegistry \cup {<<st.type, st.key>>}
  BY DEF ClientStatement, FileScope, Abort, RegisterClient
<1>2. st \in Statements("client") /\ Statements("client")' = Statements("client")
  BY <1>1 DEF StatementsOK, Statements
<1>3. IdsOK'
  BY <1>1 DEF RegistryInv, IdsOK
<1>4. \A s \in Executed' : s \in Executed \/ s = st
  BY <1>1 DEF Executed
<1>5. UserFieldsOK'
  BY <1>1, <1>4 DEF RegistryInv, UserFieldsOK, Statements
<1>6. ClientsOK'
  BY <1>1, <1>2, <1>4 DEF RegistryInv, ClientsOK
<1>7. InfoOK'
  BY <1>1 DEF InfoOK
<1> QED BY <1>3, <1>5, <1>6, <1>7 DEF RegistryInv

\* register_callback of a client.
LEMMA CallbackStep ==
    ASSUME RegistryInv, StatementsOK, NEW c \in clientRegistry, ClientCallback(c)
    PROVE  RegistryInv'
<1> DEFINE list == InternalFields(c)
<1>1. /\ pc = "clients" /\ UNCHANGED <<pc, program, pending, clientRegistry>>
      /\ c \notin invoked /\ invoked' = invoked \cup {c}
  BY DEF ClientCallback, InvokeClient
<1>2. ASSUME NEW d \in clientRegistry
      PROVE  d = <<d[1], d[2]>> /\ d[1] \in DOMAIN Layout /\ FieldsOf(d, InternalFields(d))
  <2>1. PICK st \in program.statements : st.what = "client" /\ d = <<st.type, st.key>>
    BY DEF RegistryInv, ClientsOK, Statements
  <2>2. st.type \in DOMAIN Layout
    BY <2>1, ProgramsAssumption DEF StatementsOK
  <2> QED BY <2>1, <2>2, InternalFieldsAre
<1>3. clientFields' \subseteq invoked' /\ invoked' \subseteq clientRegistry
  BY <1>1 DEF ClientCallback, InvokeClient, RegistryInv, ClientsOK
<1>4. \/ RegisterFields(list)
      \/ list = <<>> /\ UNCHANGED <<fieldRegistry, lastId>>
  <2>1. NewClient(c)
    BY <1>1 DEF RegistryInv, ClientsOK, NewClient
  <2> QED BY <2>1 DEF ClientCallback, InvokeClient, InternalFields
<1>5. FieldsOf(c, list)
  BY <1>2
<1> HIDE DEF list
<1>6. /\ IdsOK'
      /\ DOMAIN fieldRegistry \subseteq DOMAIN fieldRegistry'
      /\ \A k \in DOMAIN fieldRegistry :
            (\A i \in DOMAIN list : KeyOf(list[i]) # k) => fieldRegistry'[k] = fieldRegistry[k]
      /\ \A i \in DOMAIN list : 
            /\ KeyOf(list[i]) \in DOMAIN fieldRegistry'
            /\ \E j \in DOMAIN list :
                  /\ KeyOf(list[j]) = KeyOf(list[i])
                  /\ fieldRegistry'[KeyOf(list[i])].space = list[j].space
  <2>1. IdsOK
    BY DEF RegistryInv
  <2>2. CASE RegisterFields(list)
    <3>1. /\ IdsOK'
          /\ DOMAIN fieldRegistry' = DOMAIN fieldRegistry \cup {KeyOf(list[i]) : i \in DOMAIN list}
          /\ \A k \in DOMAIN fieldRegistry :
                (\A i \in DOMAIN list : KeyOf(list[i]) # k) => fieldRegistry'[k] = fieldRegistry[k]
          /\ \A i \in DOMAIN list : \E j \in DOMAIN list :
                /\ KeyOf(list[j]) = KeyOf(list[i])
                /\ fieldRegistry'[KeyOf(list[i])].space = list[j].space
                /\ fieldRegistry'[KeyOf(list[i])].class = list[j].class
      BY <1>5, <2>1, <2>2, FieldsRegistered DEF FieldsOf
    <3> QED BY <3>1
  <2>3. CASE list = <<>> /\ UNCHANGED <<fieldRegistry, lastId>>
    BY <2>1, <2>3 DEF IdsOK
  <2> QED BY <1>4, <2>2, <2>3
<1>7. UserFieldsOK'
  <2>1. ASSUME NEW st, NEW v, NEW i \in DOMAIN list PROVE KeyOf(list[i]) # UserKey(st, v)
    BY <1>2, <1>5, KeysApart DEF FieldsOf
  <2> QED BY <1>1, <1>6, <2>1 DEF RegistryInv, UserFieldsOK, Executed, Statements
<1>8. ASSUME NEW d \in invoked PROVE HasFields(d)'
  <2> DEFINE fs == InternalFields(d)
  <2>1. d \in clientRegistry /\ d # c /\ FieldsOf(d, fs)
    BY <1>1, <1>2 DEF RegistryInv, ClientsOK
  <2>2. ASSUME NEW i \in DOMAIN fs
        PROVE  KeyOf(fs[i]) \in DOMAIN fieldRegistry /\ fieldRegistry[KeyOf(fs[i])].space = fs[i].space
    BY DEF RegistryInv, ClientsOK, HasFields
  <2> HIDE DEF fs
  <2>3. ASSUME NEW i \in DOMAIN fs, NEW j \in DOMAIN list PROVE KeyOf(list[j]) # KeyOf(fs[i])
    BY <1>2, <1>5, <2>1, KeysApart DEF FieldsOf
  <2>4. ASSUME NEW i \in DOMAIN fs
        PROVE  KeyOf(fs[i]) \in DOMAIN fieldRegistry' /\ fieldRegistry'[KeyOf(fs[i])].space = fs[i].space
    BY <1>6, <2>2, <2>3
  <2> QED BY <2>4 DEF HasFields, fs
<1>9. HasFields(c)'
  <2>1. \A i, j \in DOMAIN list : KeyOf(list[i]) = KeyOf(list[j]) => list[i].space = list[j].space
    BY <1>5 DEF FieldsOf, KeyOf
  <2> QED BY <1>6, <2>1 DEF HasFields, list
<1>10. ClientsOK'
  BY <1>1, <1>3, <1>8, <1>9 DEF RegistryInv, ClientsOK, Executed, Statements
<1>11. InfoOK'
  BY <1>1 DEF InfoOK
<1> QED BY <1>6, <1>7, <1>10, <1>11 DEF RegistryInv

\* The loop over the field registry.
LEMMA InfoSteps ==
    ASSUME RegistryInv, StatementsOK, FieldCallbacks \/ FieldInfos
    PROVE  RegistryInv'
<1>1. CASE FieldCallbacks
  <2>1. /\ pc' = "fields" /\ invoked' = clientRegistry'
        /\ fieldRegistry' = fieldRegistry
        /\ fieldInfo' = {Info(k) : k \in DOMAIN fieldRegistry}
        /\ serdezRegistry' = {f.id : f \in {f \in fieldInfo' : f.class \in {"ragged", "sparse"}}}
    BY <1>1 DEF FieldCallbacks, InvokeFields
  <2>2. {Info(k) : k \in DOMAIN fieldRegistry} = {Info(k) : k \in DOMAIN fieldRegistry}'
    BY <2>1 DEF Info
  <2>3. InfoOK'
    BY <2>1, <2>2 DEF InfoOK
  <2> QED BY <1>1, <2>3, RegistryStays DEF FieldCallbacks, InvokeFields
<1>2. CASE FieldInfos
  <2>1. /\ pc = "fields" /\ pc' = "top_level_driver"
        /\ UNCHANGED <<fieldRegistry, invoked, clientRegistry, fieldInfo, serdezRegistry>>
        /\ fieldInfoMap' = fieldInfo
        /\ fieldNameMap' = [k \in {KeyOf(f) : f \in fieldInfo} |->
               LET f == CHOOSE f \in fieldInfo : KeyOf(f) = k IN <<f.space, f.id>>]
        /\ ghostFlags' = {<<f.space, f.id>> : f \in fieldInfo}
    BY <1>2 DEF FieldInfos, PutFieldInfo, KeyOf
  <2>2. {Info(k) : k \in DOMAIN fieldRegistry} = {Info(k) : k \in DOMAIN fieldRegistry}'
    BY <2>1 DEF Info
  <2>3. InfoOK'
    BY <2>1, <2>2 DEF RegistryInv, InfoOK
  <2> QED BY <1>2, <2>3, RegistryStays DEF FieldInfos, PutFieldInfo
<1> QED BY <1>1, <1>2

\* Every step keeps the invariant, which holds before the first.
LEMMA RegistryStep == RegistryInv /\ StatementsOK /\ [Next]_vars => RegistryInv'
<1> SUFFICES ASSUME RegistryInv, StatementsOK, [Next]_vars PROVE RegistryInv'
  OBVIOUS
<1>1. ASSUME UNCHANGED registryVars,
             \/ UNCHANGED pc
             \/ pc' \notin {"file_scope", "fields", "top_level_driver"},
             \/ UNCHANGED pending
             \/ \E st \in pending : pending' = pending \ {st} /\ st.what \notin {"field", "client"},
             UNCHANGED program
      PROVE  RegistryInv'
  <2>1. UNCHANGED <<clientRegistry, fieldRegistry, lastId, clientFields, invoked>>
    BY <1>1 DEF registryVars
  <2>2. UNCHANGED <<fieldInfo, fieldInfoMap, fieldNameMap, serdezRegistry, ghostFlags>>
    BY <1>1 DEF registryVars, infoVars
  <2>3. {Info(k) : k \in DOMAIN fieldRegistry} = {Info(k) : k \in DOMAIN fieldRegistry}'
    BY <2>1 DEF Info
  <2>4. InfoOK'
    BY <1>1, <2>1, <2>2, <2>3 DEF RegistryInv, InfoOK
  <2> QED BY <1>1, <2>1, <2>4, RegistryStays
<1>2. ASSUME NEW st \in pending,
             ActionStatement(st) \/ EdgeStatement(st) \/ HandlerStatement(st) \/ DriverStatement(st)
      PROVE  RegistryInv'
  <2>1. /\ UNCHANGED registryVars /\ pc' = pc /\ program' = program
        /\ pending' = pending \ {st} /\ st.what \notin {"field", "client"}
    BY <1>2 DEF ActionStatement, EdgeStatement, HandlerStatement, DriverStatement, FileScope, registryVars
  <2> QED BY <1>1, <2>1
<1>3. ASSUME NEW st \in pending, ClientStatement(st) \/ FieldStatement(st)
      PROVE  RegistryInv'
  BY <1>3, ClientStep, FieldStep
<1>4. CASE InitializeRuntimes \/ Options \/ DriverReturns \/ FinalizeRuntimes
  BY <1>1, <1>4 DEF InitializeRuntimes, Options, DriverReturns, FinalizeRuntimes, Abort
<1>5. CASE \E c \in clientRegistry : ClientCallback(c)
  BY <1>5, CallbackStep
<1>6. CASE FieldCallbacks \/ FieldInfos
  BY <1>6, InfoSteps
<1>7. CASE CallExecute \/ ControlModelStep
  BY <1>1, <1>7 DEF CallExecute, ControlModelStep
<1>8. CASE UNCHANGED vars
  BY <1>1, <1>8 DEF vars
<1> QED BY <1>2, <1>3, <1>4, <1>5, <1>6, <1>7, <1>8 DEF Next

LEMMA RegistryInit == Init => RegistryInv
<1> SUFFICES ASSUME Init PROVE RegistryInv
  OBVIOUS
<1>1. /\ clientRegistry = {} /\ DOMAIN fieldRegistry = {} /\ lastId = 0
      /\ clientFields = {} /\ invoked = {} /\ pending = program.statements /\ pc = "file_scope"
  BY DEF Init, RegistrationInit
<1> QED BY <1>1 DEF RegistryInv, IdsOK, UserFieldsOK, ClientsOK, InfoOK, Executed

\* A key finds the field that was registered with it.
LEMMA FieldsFound ==
    ASSUME RegistryInv, pc = "top_level_driver"
    PROVE  /\ DOMAIN fieldNameMap = DOMAIN fieldRegistry
           /\ \A k \in DOMAIN fieldRegistry :
                 /\ fieldNameMap[k] = <<fieldRegistry[k].space, fieldRegistry[k].id>>
                 /\ Info(k) \in FieldInfo(k[1], k[2])
                 /\ Info(k) \in fieldInfo
<1>1. /\ fieldInfo = {Info(k) : k \in DOMAIN fieldRegistry} /\ fieldInfoMap = fieldInfo
      /\ fieldNameMap = [k \in {KeyOf(f) : f \in fieldInfo} |->
            LET f == CHOOSE f \in fieldInfo : KeyOf(f) = k IN <<f.space, f.id>>]
  BY DEF RegistryInv, InfoOK
<1>2. \A k \in DOMAIN fieldRegistry : k = <<k[1], k[2]>> /\ KeyOf(Info(k)) = k
  BY DEF RegistryInv, IdsOK, KeyOf, Info
<1>3. DOMAIN fieldNameMap = DOMAIN fieldRegistry
  BY <1>1, <1>2
<1>4. ASSUME NEW k \in DOMAIN fieldRegistry
      PROVE  /\ fieldNameMap[k] = <<fieldRegistry[k].space, fieldRegistry[k].id>>
             /\ Info(k) \in FieldInfo(k[1], k[2])
             /\ Info(k) \in fieldInfo
  <2>1. (CHOOSE f \in fieldInfo : KeyOf(f) = k) = Info(k)
    BY <1>1, <1>2
  <2>2. fieldNameMap[k] = <<Info(k).space, Info(k).id>> /\ Info(k) \in fieldInfo
    BY <1>1, <1>2, <2>1
  <2>3. /\ Info(k).space = fieldRegistry[k].space /\ Info(k).id = fieldRegistry[k].id
        /\ Info(k).type = k[1]
    BY DEF Info
  <2> QED BY <1>1, <1>2, <1>3, <2>2, <2>3 DEF FieldInfo
<1> QED BY <1>3, <1>4

\* register_field_info and put_field_info: every field of a program and of its
\* clients is found where it was registered, under an id of its own.
THEOREM FieldsAreFound == Spec => []FieldsResolve
<1>1. RegistryInv /\ StatementsOK => FieldsResolve
  <2> SUFFICES ASSUME RegistryInv, StatementsOK, pc = "top_level_driver"
               PROVE  FieldsResolve
    BY DEF FieldsResolve
  <2>1. pending = {} /\ Executed = program.statements
    BY DEF StatementsOK, Executed
  <2>2. /\ DOMAIN fieldNameMap = DOMAIN fieldRegistry
        /\ \A k \in DOMAIN fieldRegistry :
              /\ fieldNameMap[k] = <<fieldRegistry[k].space, fieldRegistry[k].id>>
              /\ Info(k) \in FieldInfo(k[1], k[2])
              /\ Info(k) \in fieldInfo
    BY FieldsFound
  <2>3. ASSUME NEW k \in DOMAIN fieldRegistry
        PROVE  /\ <<Info(k).space, Info(k).id>> \in ghostFlags
               /\ (Info(k).id \in serdezRegistry) = (Info(k).class \in {"ragged", "sparse"})
    <3>1. /\ ghostFlags = {<<f.space, f.id>> : f \in fieldInfo}
          /\ serdezRegistry = {f.id : f \in {f \in fieldInfo : f.class \in {"ragged", "sparse"}}}
          /\ fieldInfo = {Info(l) : l \in DOMAIN fieldRegistry}
      BY DEF RegistryInv, InfoOK
    <3>2. \A l \in DOMAIN fieldRegistry : Info(l).id = Info(k).id => l = k
      BY DEF RegistryInv, IdsOK, Info
    <3>3. Info(k).id \in serdezRegistry => Info(k).class \in {"ragged", "sparse"}
      <4>1. ASSUME Info(k).id \in serdezRegistry PROVE Info(k).class \in {"ragged", "sparse"}
        <5>1. PICK l \in DOMAIN fieldRegistry :
                  Info(l).class \in {"ragged", "sparse"} /\ Info(l).id = Info(k).id
          BY <3>1, <4>1
        <5> QED BY <3>2, <5>1
      <4> QED BY <4>1
    <3>4. Info(k).class \in {"ragged", "sparse"} => Info(k).id \in serdezRegistry
      BY <2>2, <3>1
    <3> QED BY <2>2, <3>1, <3>3, <3>4
  <2>4. ASSUME NEW st \in Statements("field"), NEW v \in 0..st.versions - 1
        PROVE  \E f \in FieldInfo(st.type, <<st.name, v>>) :
                   /\ \E d \in Statements("field") :
                         /\ d.type = st.type /\ d.name = st.name
                         /\ d.space = f.space /\ d.class = f.class
                   /\ <<f.space, f.id>> \in ghostFlags
                   /\ (f.id \in serdezRegistry) = (f.class \in {"ragged", "sparse"})
    <3> DEFINE k == UserKey(st, v)
    <3>1. /\ k \in DOMAIN fieldRegistry
          /\ \E d \in Statements("field") :
                /\ d.type = st.type /\ d.name = st.name
                /\ d.space = fieldRegistry[k].space /\ d.class = fieldRegistry[k].class
      BY <2>1 DEF RegistryInv, UserFieldsOK, Statements
    <3>2. Info(k).space = fieldRegistry[k].space /\ Info(k).class = fieldRegistry[k].class
      BY DEF Info
    <3>3. k[1] = st.type /\ k[2] = <<st.name, v>>
      BY DEF UserKey
    <3> HIDE DEF k
    <3>4. Info(k) \in FieldInfo(st.type, <<st.name, v>>)
      BY <2>2, <3>1, <3>3
    <3> QED BY <2>3, <3>1, <3>2, <3>4
  <2>5. ASSUME NEW st \in Statements("client")
        PROVE  LET fields == InternalFields(<<st.type, st.key>>)
               IN  \A i \in DOMAIN fields :
                       \E f \in FieldInfo(st.type, fields[i].key) : f.space = fields[i].space
    <3> DEFINE c == <<st.type, st.key>>
               fields == InternalFields(c)
    <3>1. c \in clientRegistry /\ c \in invoked /\ c[1] = st.type
      BY <2>1 DEF RegistryInv, ClientsOK, InfoOK, Statements
    <3>2. st.type \in DOMAIN Layout
      BY ProgramsAssumption DEF Statements, StatementsOK
    <3>3. FieldsOf(c, fields) /\ HasFields(c)
      BY <3>1, <3>2, InternalFieldsAre DEF RegistryInv, ClientsOK
    <3> HIDE DEF c
    <3>4. ASSUME NEW i \in DOMAIN fields
          PROVE  \E f \in FieldInfo(st.type, fields[i].key) : f.space = fields[i].space
      <4> DEFINE k == KeyOf(fields[i])
      <4>1. k \in DOMAIN fieldRegistry /\ fieldRegistry[k].space = fields[i].space
        BY <3>3 DEF HasFields
      <4>2. k[1] = st.type /\ k[2] = fields[i].key
        BY <3>1, <3>3 DEF KeyOf, FieldsOf
      <4> HIDE DEF k, fields
      <4>3. Info(k) \in FieldInfo(st.type, fields[i].key)
        BY <2>2, <4>1, <4>2
      <4>4. Info(k).space = fields[i].space
        BY <4>1 DEF Info
      <4> QED BY <4>3, <4>4
    <3> QED BY <3>4 DEF c
  <2>6. \A k, l \in DOMAIN fieldNameMap : k # l => fieldNameMap[k][2] # fieldNameMap[l][2]
    BY <2>2 DEF RegistryInv, IdsOK
  <2>7. ASSUME NEW st \in Statements("client")
        PROVE  InternalFields(<<st.type, st.key>>) =
                   IF Layout[st.type].kind = "mesh" THEN MeshFields(<<st.type, st.key>>)
                   ELSE IF Layout[st.type].kind = "set" THEN SetFields(<<st.type, st.key>>)
                   ELSE <<>>
    BY DEF InternalFields
  <2>8. ASSUME NEW st \in Statements("client")
        PROVE  LET fields == IF Layout[st.type].kind = "mesh" THEN MeshFields(<<st.type, st.key>>)
                             ELSE IF Layout[st.type].kind = "set" THEN SetFields(<<st.type, st.key>>)
                             ELSE <<>>
               IN  \A i \in DOMAIN fields :
                       \E f \in FieldInfo(st.type, fields[i].key) : f.space = fields[i].space
    <3> DEFINE fields == InternalFields(<<st.type, st.key>>)
    <3>1. \A i \in DOMAIN fields : \E f \in FieldInfo(st.type, fields[i].key) : f.space = fields[i].space
      BY <2>5
    <3> HIDE DEF fields
    <3>2. fields = IF Layout[st.type].kind = "mesh" THEN MeshFields(<<st.type, st.key>>)
                   ELSE IF Layout[st.type].kind = "set" THEN SetFields(<<st.type, st.key>>)
                   ELSE <<>>
      BY <2>7 DEF fields
    <3> QED BY <3>1, <3>2
  <2> QED BY ONLY <2>4, <2>6, <2>8 DEF FieldsResolve
<1>2. OrderInv => StatementsOK
  BY DEF OrderInv
<1>3. Spec => []RegistryInv
  BY <1>2, RegistryInit, RegistryStep, OrderInvariant, PTL DEF Spec
<1> QED BY <1>1, <1>2, <1>3, OrderInvariant, PTL
=============================================================================
