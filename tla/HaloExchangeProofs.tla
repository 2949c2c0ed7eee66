------------------------- MODULE HaloExchangeProofs -------------------------
(***************************************************************************)
(* Proofs about HaloExchange, for every mesh, every partition of it and    *)
(* any number of colors: each step, whether of one color, of a collective  *)
(* or of a message, takes the colors from stage to stage of IInv, and the  *)
(* properties follow from what HaloExchangeLemmas says of the stages.      *)
(***************************************************************************)
EXTENDS HaloExchangeLemmas

-----------------------------------------------------------------------------
(* One color goes on, the others stay *)

\* The number of each stage.
LEMMA StageOfIs ==
    ASSUME NEW s
    PROVE  /\ StageOf("intersection", s) = 0 /\ StageOf("nn_requests", s) = 1
           /\ StageOf("nn_answers", s) = 2 /\ StageOf("all_requests", s) = 3
           /\ StageOf("all_answers", s) = 4 /\ StageOf("request_counts", s) = 5
           /\ StageOf("requests", s) = 6 /\ StageOf("answers", s) = 7
           /\ StageOf("migrate", s) = 8 /\ StageOf("sizes", s) = 9
           /\ StageOf("to_homes", s) = 10 /\ StageOf("from_homes", s) = 11
           /\ StageOf("edge_homes", s) = 12 /\ StageOf("edge_counts", s) = 13
           /\ StageOf("edge_ids", s) = 14 /\ StageOf("shared_cells", s) = 15
           /\ StageOf("claims", s) = 16 /\ StageOf("ghost_requests", s) = 17
           /\ StageOf("owners", s) = 18 /\ StageOf("connectivity", s) = 19
           /\ StageOf("info", s) = 20 /\ StageOf("colored", s) = 21
           /\ StageOf("map", s) = 26 /\ StageOf("done", s) = 35
           /\ StageOf("aborted", s) = 99
  BY DEF StageOf

LEMMA LoopStages ==
    /\ StageOf("renumber", "cells") = 22 /\ StageOf("renumber", "vertices") = 24
    /\ StageOf("collect", "cells") = 23 /\ StageOf("collect", "vertices") = 25
    /\ StageOf("send_entities", "cells") = 27 /\ StageOf("send_entities", "vertices") = 29
    /\ StageOf("get_entities", "cells") = 28 /\ StageOf("get_entities", "vertices") = 30
    /\ StageOf("send_rows", "cells") = 31 /\ StageOf("send_rows", "vertices") = 33
    /\ StageOf("get_rows", "cells") = 32 /\ StageOf("get_rows", "vertices") = 34
  BY DEF StageOf

\* The stages of a color in each way of coloring, and its collectives.
LEMMA StagesAre ==
    ASSUME Given
    PROVE  /\ \A n : n \in Stages <=> \/ scheme = "closure" /\ n \in 0..7
                                      \/ scheme = "dcrs" /\ n \in 8..19
                                      \/ n \in 20..35
           /\ \A n \in Stages : n \in Nat /\ n \in 0..35 /\ Calls(n) \in Nat \ {0}
           /\ scheme = "closure" => /\ \A n \in 0..5 : Calls(n) = n + 1
                                    /\ Calls(6) = 6 /\ Calls(7) = 6
                                    /\ \A n \in 20..35 : Calls(n) = 7
           /\ scheme = "dcrs" => /\ \A n \in 8..19 : Calls(n) = n - 7
                                 /\ \A n \in 20..35 : Calls(n) = 13
<1>1. \A n : n \in Stages <=> \/ scheme = "closure" /\ n \in 0..7
                              \/ scheme = "dcrs" /\ n \in 8..19
                              \/ n \in 20..35
  BY DEF Stages, ColoringStages, Given
<1>2. scheme = "closure" => /\ \A n \in 0..5 : Calls(n) = n + 1
                            /\ Calls(6) = 6 /\ Calls(7) = 6
                            /\ \A n \in 20..35 : Calls(n) = 7
  BY DEF Calls
<1>3. scheme = "dcrs" => /\ \A n \in 8..19 : Calls(n) = n - 7
                         /\ \A n \in 20..35 : Calls(n) = 13
  BY DEF Calls
<1>4. \A n \in Stages : n \in Nat /\ n \in 0..35 /\ Calls(n) \in Nat \ {0}
  <2> TAKE n \in Stages
  <2>1. CASE scheme = "closure" /\ n \in 0..7
    <3>1. n \in 0..5 \/ n = 6 \/ n = 7
      BY <2>1
    <3> QED BY <1>2, <2>1, <3>1
  <2>2. CASE scheme = "dcrs" /\ n \in 8..19
    BY <1>3, <2>2
  <2>3. CASE n \in 20..35
    BY <1>2, <1>3, <2>3 DEF Given
  <2> QED BY <1>1, <2>1, <2>2, <2>3
<1> QED BY <1>1, <1>2, <1>3, <1>4

LEMMA ExceptIs ==
    ASSUME NEW f, f = [q \in Colors |-> f[q]], NEW r \in Colors, NEW v,
           NEW g, g = [f EXCEPT ![r] = v]
    PROVE  /\ g = [q \in Colors |-> g[q]] /\ g[r] = v
           /\ \A q \in Colors \ {r} : g[q] = f[q]
  OBVIOUS

\* What the other colors have.
OthersStay(r) == \A q \in Colors \ {r} :
    /\ pc'[q] = pc[q] /\ space'[q] = space[q] /\ posted'[q] = posted[q] /\ mine'[q] = mine[q]
    /\ coloring'[q] = coloring[q] /\ info'[q] = info[q]
    /\ indexMap'[q] = indexMap[q] /\ rows'[q] = rows[q] /\ ents'[q] = ents[q]

\* A color that does nothing knows what it knew.
LEMMA KnowsStays ==
    ASSUME Frozen, NEW r, mine'[r] = mine[r], NEW n
    PROVE  /\ ClosureKnows(r, n) => ClosureKnows(r, n)'
           /\ DcrsKnows(r, n) => DcrsKnows(r, n)'
           /\ KnowsAll(r, n) => KnowsAll(r, n)'
<1>1. \A name, val : Knows(r, name, val) => name \in DOMAIN mine'[r] /\ mine'[r][name] = val
  BY DEF Knows
<1>2. ClosureKnows(r, n) => ClosureKnows(r, n)'
  BY <1>1, ClosureStays DEF ClosureKnows, Knows
<1>3. DcrsKnows(r, n) => DcrsKnows(r, n)'
  <2> SUFFICES ASSUME DcrsKnows(r, n) PROVE DcrsKnows(r, n)'
    OBVIOUS
  <2>1. ((n > 8) => Knows(r, "cells", CellsOf(r)))'
    BY <1>1, MeshStays, DcrsStays DEF DcrsKnows, Knows
  <2>2. ((n > 9) => Knows(r, "dist", Dist))'
    BY <1>1, MeshStays, DcrsStays DEF DcrsKnows, Knows
  <2>3. ((n = 10) => Knows(r, "incidence", Incidence(Primary(r))))'
    BY <1>1, MeshStays, DcrsStays DEF DcrsKnows, Knows
  <2>4. ((n > 10) => Knows(r, "incidence", Incidence(Primary(r)) \cup HomedHere(r)))'
    BY <1>1, MeshStays, DcrsStays DEF DcrsKnows, Knows
  <2>5. ((n > 11) => Knows(r, "cellColoring", DcrsCells(r)))'
    BY <1>1, MeshStays, DcrsStays DEF DcrsKnows, Knows
  <2>6. ((n > 12) => Knows(r, "homed", Homed(r)))'
    BY <1>1, MeshStays, DcrsStays DEF DcrsKnows, Knows
  <2>7. ((n > 12) => Knows(r, "senders", [q \in Colors |-> ToSet(EdgesSent(q, r))]))'
    BY <1>1, MeshStays, DcrsStays DEF DcrsKnows, Knows
  <2>8. ((n = 14) => Knows(r, "edgeIds", EdgeIds(r)))'
    BY <1>1, MeshStays, DcrsStays DEF DcrsKnows, Knows
  <2>9. ((n > 14) => Knows(r, "edgeIds", AllEdgeIds(r)))'
    BY <1>1, MeshStays, DcrsStays DEF DcrsKnows, Knows
  <2>10. ((n > 15) => Knows(r, "potentialGhost", PGhost(r)))'
    BY <1>1, MeshStays, DcrsStays DEF DcrsKnows, Knows
  <2>11. ((n = 17) => Knows(r, "owners", HomeOwners(r)))'
    BY <1>1, MeshStays, DcrsStays DEF DcrsKnows, Knows
  <2>12. ((n > 17) => Knows(r, "owners", HomeTable(r)))'
    BY <1>1, MeshStays, DcrsStays DEF DcrsKnows, Knows
  <2>13. ((n > 18) => Knows(r, "vertexColoring", DcrsVertices(r)))'
    BY <1>1, MeshStays, DcrsStays DEF DcrsKnows, Knows
  <2>14. ((n > 19) => Knows(r, "ghostCells", GhostVertsOf(r)))'
    BY <1>1, MeshStays, DcrsStays DEF DcrsKnows, Knows
  <2> QED BY <2>1, <2>2, <2>3, <2>4, <2>5, <2>6, <2>7, <2>8, <2>9, <2>10, <2>11, <2>12, <2>13, <2>14 DEF DcrsKnows
<1> QED BY <1>2, <1>3 DEF KnowsAll, Frozen

LEMMA PlacesStay ==
    ASSUME Frozen
    PROVE  /\ \A n : InfoAt(n)' = InfoAt(n)
           /\ \A r, n, after : Exchanged(r, n, after)' = Exchanged(r, n, after)
           /\ (Given => Given')
<1>1. \A n : InfoAt(n)' = InfoAt(n)
  BY ExchangeStays DEF InfoAt
<1>2. \A r, n, after : Exchanged(r, n, after)' = Exchanged(r, n, after)
  BY ExchangeStays DEF Exchanged
<1>3. Given => Given'
  BY MeshStays DEF Given, Frozen
<1> QED BY <1>1, <1>2, <1>3

\* A color that has what a stage takes is at that stage.
LEMMA AtThen ==
    ASSUME Frozen, NEW r, NEW b, Stage(r)' = b, b \in Stages, space'[r] \in Spaces,
           pc'[r] \notin Looping => space'[r] = "cells",
           posted'[r] = [k \in 1..Calls(b) |-> Gives(r, k)],
           KnowsAll(r, b)',
           coloring'[r] = ColoredAs(r, b),
           info'[r] = InfoAt(b),
           b > 26 => /\ indexMap'[r] = [s \in Spaces |-> Local(r, s)]
                     /\ ents'[r] = Exchanged(r, b, 28)
                     /\ rows'[r] = Exchanged(r, b, 32)
    PROVE  At(r)'
<1>1. Situated(r, b)'
  <2>1. (b \in Stages)' /\ (space[r] \in Spaces)' /\ (pc[r] \notin Looping => space[r] = "cells")'
    BY ExchangeStays DEF Spaces, Looping
  <2>2. (posted[r] = [k \in 1..Calls(b) |-> Gives(r, k)])'
    BY ExchangeStays
  <2>3. (coloring[r] = ColoredAs(r, b))' /\ (info[r] = InfoAt(b))'
    BY ExchangeStays, PlacesStay
  <2>4. (b > 26 => /\ indexMap[r] = [s \in Spaces |-> Local(r, s)]
                   /\ ents[r] = Exchanged(r, b, 28)
                   /\ rows[r] = Exchanged(r, b, 32))'
    BY ExchangeStays, PlacesStay
  <2> QED BY <2>1, <2>2, <2>3, <2>4 DEF Situated
<1> QED BY <1>1 DEF At

\* A color that does nothing is where it was.
LEMMA AtStays ==
    ASSUME Frozen, NEW r \in Colors, OthersStay(r), NEW q \in Colors \ {r}
    PROVE  Stage(q)' = Stage(q) /\ (At(q) => At(q)')
<1>1. Stage(q)' = Stage(q)
  BY DEF Stage, OthersStay
<1>2. ASSUME At(q) PROVE At(q)'
  <2> SUFFICES ASSUME NEW n, Stage(q) = n PROVE At(q)'
    OBVIOUS
  <2>1. Situated(q, n)
    BY <1>2 DEF At
  <2>2. KnowsAll(q, n)
    BY <2>1 DEF Situated
  <2>3. KnowsAll(q, n)'
    BY <2>2, KnowsStays DEF OthersStay
  <2>4. Stage(q)' = n
    BY <1>1
  <2> QED BY <2>1, <2>3, <2>4, AtThen DEF Situated, OthersStay
<1> QED BY <1>1, <1>2

\* A step of one color keeps the invariant if it puts that color where it
\* should be, and the channels are right.
LEMMA Moves ==
    ASSUME IInv, Frozen, NEW r \in Colors, NEW a, NEW b, Goes(r, a, b), Shapes', OthersStay(r),
           At(r)', wire' = Messages', NothingEarly',
           b <= 20 \/ a > 20 \/ \A q \in Colors : Stage(q) >= 20
    PROVE  IInv'
<1>1. Given'
  BY PlacesStay DEF IInv
<1>2. (\A q \in Colors : At(q))'
  <2>1. \A q \in Colors : At(q)'
    BY AtStays DEF IInv
  <2> QED BY <2>1
<1>3. Together'
  <2>0. Together /\ \A q \in Colors : Stage(q) \in Nat
    BY StagesAre DEF IInv, At, Situated
  <2>1. \A q, p \in Colors : Stage(q)' > 20 => Stage(p)' >= 20
    <3> TAKE q, p \in Colors
    <3>1. CASE q # r
      <4>1. Stage(q)' > 20 => Stage(p) >= 20
        BY <2>0, <3>1 DEF Goes, Together
      <4> QED BY <2>0, <4>1 DEF Goes
    <3>2. CASE q = r
      <4>1. Stage(q)' > 20 => Stage(p) >= 20
        BY <2>0, <3>2 DEF Goes, Together
      <4> QED BY <2>0, <4>1 DEF Goes
    <3> QED BY <3>1, <3>2
  <2> QED BY <2>1 DEF Together
<1> QED BY <1>1, <1>2, <1>3 DEF IInv

LEMMA GoesIs ==
    ASSUME NEW r \in Colors, NEW a \in Nat, NEW b \in Nat, a < b, Stage(r) = a, Stage(r)' = b,
           Frozen, OthersStay(r)
    PROVE  Goes(r, a, b)
  BY AtStays DEF Goes

-----------------------------------------------------------------------------
(* From one collective to the next *)

KnowsNext(r, name, val) == name \in DOMAIN mine'[r] /\ mine'[r][name] = val

\* Keep adds to what a color knows.
LEMMA KeepIs ==
    ASSUME NEW r \in Colors, NEW new, Keep(r, new), mine = [q \in Colors |-> mine[q]]
    PROVE  /\ mine' = [q \in Colors |-> mine'[q]]
           /\ \A q \in Colors \ {r} : mine'[q] = mine[q]
           /\ \A name \in DOMAIN new : KnowsNext(r, name, new[name])
           /\ \A name, val : name \notin DOMAIN new /\ Knows(r, name, val) => KnowsNext(r, name, val)
<1> DEFINE m == [x \in DOMAIN new \cup DOMAIN mine[r] |-> IF x \in DOMAIN new THEN new[x] ELSE mine[r][x]]
<1>1. mine' = [mine EXCEPT ![r] = m]
  BY DEF Keep
<1>2. /\ DOMAIN m = DOMAIN new \cup DOMAIN mine[r]
      /\ \A x \in DOMAIN new : m[x] = new[x]
      /\ \A x \in DOMAIN mine[r] \ DOMAIN new : m[x] = mine[r][x]
  OBVIOUS
<1> HIDE DEF m
<1>3. mine'[r] = m
  BY <1>1
<1>4. mine' = [q \in Colors |-> mine'[q]]
  BY <1>1
<1>5. \A q \in Colors \ {r} : mine'[q] = mine[q]
  BY <1>1
<1> QED BY <1>2, <1>3, <1>4, <1>5 DEF Knows, KnowsNext

ClosureKnowsNext(r, n) ==
    /\ n > 0 => KnowsNext(r, "intersections", NearMeets(r))
    /\ n > 1 => KnowsNext(r, "users", NearUserMap(r))
    /\ n > 2 => KnowsNext(r, "nearest", NearCells(r))
    /\ n > 4 => KnowsNext(r, "vertices", OwnVertices0(r)) /\ KnowsNext(r, "requests", NeedMap(r))
    /\ n > 5 => KnowsNext(r, "counts", CountsFor(r))

DcrsKnowsNext(r, n) ==
    /\ n > 8 => KnowsNext(r, "cells", CellsOf(r))
    /\ n > 9 => KnowsNext(r, "dist", Dist)
    /\ n = 10 => KnowsNext(r, "incidence", Incidence(Primary(r)))
    /\ n > 10 => KnowsNext(r, "incidence", Incidence(Primary(r)) \cup HomedHere(r))
    /\ n > 11 => KnowsNext(r, "cellColoring", DcrsCells(r))
    /\ n > 12 => KnowsNext(r, "homed", Homed(r))
    /\ n > 12 => KnowsNext(r, "senders", [q \in Colors |-> ToSet(EdgesSent(q, r))])
    /\ n = 14 => KnowsNext(r, "edgeIds", EdgeIds(r))
    /\ n > 14 => KnowsNext(r, "edgeIds", AllEdgeIds(r))
    /\ n > 15 => KnowsNext(r, "potentialGhost", PGhost(r))
    /\ n = 17 => KnowsNext(r, "owners", HomeOwners(r))
    /\ n > 17 => KnowsNext(r, "owners", HomeTable(r))
    /\ n > 18 => KnowsNext(r, "vertexColoring", DcrsVertices(r))
    /\ n > 19 => KnowsNext(r, "ghostCells", GhostVertsOf(r))

LEMMA KnowsThen ==
    ASSUME Frozen, NEW r, NEW n,
           scheme = "closure" => ClosureKnowsNext(r, n),
           scheme = "dcrs" => DcrsKnowsNext(r, n)
    PROVE  KnowsAll(r, n)'
<1>1. ASSUME ClosureKnowsNext(r, n) PROVE ClosureKnows(r, n)'
  BY <1>1, ClosureStays DEF ClosureKnowsNext, KnowsNext, ClosureKnows, Knows
<1>2. ASSUME DcrsKnowsNext(r, n) PROVE DcrsKnows(r, n)'
  <2>1. ((n > 8) => Knows(r, "cells", CellsOf(r)))'
    BY <1>2, MeshStays, DcrsStays DEF DcrsKnowsNext, KnowsNext, Knows
  <2>2. ((n > 9) => Knows(r, "dist", Dist))'
    BY <1>2, MeshStays, DcrsStays DEF DcrsKnowsNext, KnowsNext, Knows
  <2>3. ((n = 10) => Knows(r, "incidence", Incidence(Primary(r))))'
    BY <1>2, MeshStays, DcrsStays DEF DcrsKnowsNext, KnowsNext, Knows
  <2>4. ((n > 10) => Knows(r, "incidence", Incidence(Primary(r)) \cup HomedHere(r)))'
    BY <1>2, MeshStays, DcrsStays DEF DcrsKnowsNext, KnowsNext, Knows
  <2>5. ((n > 11) => Knows(r, "cellColoring", DcrsCells(r)))'
    BY <1>2, MeshStays, DcrsStays DEF DcrsKnowsNext, KnowsNext, Knows
  <2>6. ((n > 12) => Knows(r, "homed", Homed(r)))'
    BY <1>2, MeshStays, DcrsStays DEF DcrsKnowsNext, KnowsNext, Knows
  <2>7. ((n > 12) => Knows(r, "senders", [q \in Colors |-> ToSet(EdgesSent(q, r))]))'
    BY <1>2, MeshStays, DcrsStays DEF DcrsKnowsNext, KnowsNext, Knows
  <2>8. ((n = 14) => Knows(r, "edgeIds", EdgeIds(r)))'
    BY <1>2, MeshStays, DcrsStays DEF DcrsKnowsNext, KnowsNext, Knows
  <2>9. ((n > 14) => Knows(r, "edgeIds", AllEdgeIds(r)))'
    BY <1>2, MeshStays, DcrsStays DEF DcrsKnowsNext, KnowsNext, Knows
  <2>10. ((n > 15) => Knows(r, "potentialGhost", PGhost(r)))'
    BY <1>2, MeshStays, DcrsStays DEF DcrsKnowsNext, KnowsNext, Knows
  <2>11. ((n = 17) => Knows(r, "owners", HomeOwners(r)))'
    BY <1>2, MeshStays, DcrsStays DEF DcrsKnowsNext, KnowsNext, Knows
  <2>12. ((n > 17) => Knows(r, "owners", HomeTable(r)))'
    BY <1>2, MeshStays, DcrsStays DEF DcrsKnowsNext, KnowsNext, Knows
  <2>13. ((n > 18) => Knows(r, "vertexColoring", DcrsVertices(r)))'
    BY <1>2, MeshStays, DcrsStays DEF DcrsKnowsNext, KnowsNext, Knows
  <2>14. ((n > 19) => Knows(r, "ghostCells", GhostVertsOf(r)))'
    BY <1>2, MeshStays, DcrsStays DEF DcrsKnowsNext, KnowsNext, Knows
  <2> QED BY <2>1, <2>2, <2>3, <2>4, <2>5, <2>6, <2>7, <2>8, <2>9, <2>10, <2>11, <2>12, <2>13, <2>14 DEF DcrsKnows
<1> QED BY <1>1, <1>2 DEF KnowsAll, Frozen

\* What each color has given to a collective.
LEMMA GatheredIs ==
    ASSUME IInv, NEW r \in Colors, NEW at, Gathered(r, at)
    PROVE  /\ Received(r) = [q \in Colors |-> Gives(q, Calls(Stage(r)))]
           /\ \A q \in Colors : Calls(Stage(q)) >= Calls(Stage(r))
<1>1. \A q \in Colors : /\ Stage(q) \in Stages /\ Calls(Stage(q)) \in Nat \ {0}
                        /\ posted[q] = [k \in 1..Calls(Stage(q)) |-> Gives(q, k)]
  BY StagesAre DEF IInv, At, Situated
<1>2. \A q \in Colors : Len(posted[q]) = Calls(Stage(q))
  <2> TAKE q \in Colors
  <2> DEFINE n == Calls(Stage(q))
  <2>1. n \in Nat /\ posted[q] = [k \in 1..n |-> Gives(q, k)]
    BY <1>1
  <2> HIDE DEF n
  <2>2. Len([k \in 1..n |-> Gives(q, k)]) = n
    BY <2>1
  <2> QED BY <2>1, <2>2 DEF n
<1>3. \A q \in Colors : Calls(Stage(q)) >= Calls(Stage(r))
  BY <1>2 DEF Gathered
<1> DEFINE n == Calls(Stage(r))
<1>4. n \in Nat \ {0} /\ n = Len(posted[r])
  BY <1>1, <1>2
<1>5. \A q \in Colors : n \in 1..Calls(Stage(q))
  BY <1>1, <1>3, <1>4
<1> HIDE DEF n
<1>6. \A q \in Colors : posted[q][n] = Gives(q, n)
  BY <1>1, <1>5
<1>7. Received(r) = [q \in Colors |-> Gives(q, n)]
  BY <1>4, <1>6 DEF Received
<1> QED BY <1>3, <1>7 DEF n

LEMMA QuietStages ==
    \A a \in (0..4) \cup (8..21) : Quiet(a, a + 1)
<1> SUFFICES ASSUME NEW a \in (0..4) \cup (8..21), NEW k \in 1..8
             PROVE  /\ ~(a <= SentAt[k] /\ SentAt[k] < a + 1)
                    /\ ~(a <= TakenAt[k] /\ TakenAt[k] < a + 1)
  BY DEF Quiet
<1>1. SentAt[k] \in {5, 6, 22, 24, 27, 29, 31, 33} /\ TakenAt[k] \in {6, 7, 23, 25, 28, 30, 32, 34}
  <2>1. k \in {1, 2, 3, 4, 5, 6, 7, 8}
    OBVIOUS
  <2> QED BY <2>1 DEF SentAt, TakenAt
<1> QED BY <1>1

\* One post more.
LEMMA PostIs ==
    ASSUME NEW r \in Colors, NEW n \in Nat, posted[r] = [k \in 1..n |-> Gives(r, k)],
           posted = [q \in Colors |-> posted[q]], Post(r, Gives(r, n + 1))
    PROVE  /\ posted' = [q \in Colors |-> posted'[q]]
           /\ \A q \in Colors \ {r} : posted'[q] = posted[q]
           /\ posted'[r] = [k \in 1..n + 1 |-> Gives(r, k)]
<1>1. posted' = [posted EXCEPT ![r] = Append(posted[r], Gives(r, n + 1))]
  BY DEF Post
<1>2. Append(posted[r], Gives(r, n + 1)) = [k \in 1..n + 1 |-> Gives(r, k)]
  OBVIOUS
<1> QED BY <1>1, <1>2

\* A step from one collective to the next keeps the invariant if it makes the
\* color know and give what it should.
LEMMA RoundMoves ==
    ASSUME IInv, NEW r \in Colors, NEW at, NEW next, NEW new, NEW val,
           NEW a, a \in Stages, a + 1 \in Stages, a \in (0..4) \cup (8..18),
           pc[r] = at, Stage(r) = a, at \notin Looping, next \notin Looping,
           \A s : StageOf(next, s) = a + 1,
           Round(r, next, new, val), UNCHANGED <<space, fieldVars>>,
           val = Gives(r, Calls(a) + 1),
           scheme = "closure" => ClosureKnowsNext(r, a + 1),
           scheme = "dcrs" => DcrsKnowsNext(r, a + 1)
    PROVE  IInv'
<1>1. Given /\ Shapes /\ At(r) /\ Situated(r, a) /\ NothingEarly /\ wire = Messages
  BY DEF IInv, At
<1>2. /\ pc' = [pc EXCEPT ![r] = next] /\ Keep(r, new) /\ Post(r, val)
      /\ Frozen /\ wire' = wire /\ coloring' = coloring /\ info' = info
      /\ space' = space /\ indexMap' = indexMap /\ rows' = rows /\ ents' = ents
  BY DEF Round, Goto, Frozen, fieldVars
<1>3. Calls(a) \in Nat /\ Calls(a + 1) = Calls(a) + 1 /\ a \in Nat /\ a < 20 /\ a + 1 < 20
  <2>1. Calls(a) \in Nat
    BY <1>1, StagesAre
  <2>2. CASE scheme = "closure" /\ a \in 0..7
    <3>1. a \in 0..5 /\ a + 1 \in 0..5
      BY <2>2
    <3> QED BY <1>1, <2>1, <2>2, <3>1, StagesAre
  <2>3. CASE scheme = "dcrs" /\ a \in 8..19
    <3>1. a \in 8..19 /\ a + 1 \in 8..19
      BY <2>3
    <3> QED BY <1>1, <2>1, <2>3, <3>1, StagesAre
  <2>4. ~(a \in 20..35)
    OBVIOUS
  <2> QED BY <1>1, <2>2, <2>3, <2>4, StagesAre
<1>4. /\ posted' = [q \in Colors |-> posted'[q]]
      /\ \A q \in Colors \ {r} : posted'[q] = posted[q]
      /\ posted'[r] = [k \in 1..Calls(a + 1) |-> Gives(r, k)]
  BY <1>1, <1>2, <1>3, PostIs DEF Shapes, Situated
<1>5. mine' = [q \in Colors |-> mine'[q]] /\ \A q \in Colors \ {r} : mine'[q] = mine[q]
  BY <1>1, <1>2, KeepIs DEF Shapes
<1>6. pc' = [q \in Colors |-> pc'[q]] /\ pc'[r] = next /\ \A q \in Colors \ {r} : pc'[q] = pc[q]
  BY <1>1, <1>2, ExceptIs DEF Shapes
<1>7. Shapes' /\ OthersStay(r)
  BY <1>1, <1>2, <1>4, <1>5, <1>6 DEF Shapes, OthersStay
<1>8. Stage(r)' = a + 1
  BY <1>6 DEF Stage
<1>9. Goes(r, a, a + 1)
  BY <1>2, <1>3, <1>7, <1>8, GoesIs
<1>10. \A q \in Colors : Stage(q) \in Nat
  BY StagesAre DEF IInv, At, Situated
<1>11. Quiet(a, a + 1)
  <2>1. a \in (0..4) \cup (8..21)
    OBVIOUS
  <2> QED BY <2>1, QuietStages
<1>12. wire' = Messages' /\ NothingEarly'
  BY <1>1, <1>2, <1>9, <1>10, <1>11, QuietStep, QuietIsNotEarly
<1>13. KnowsAll(r, a + 1)'
  <2> SUFFICES ASSUME NEW b, b = a + 1 PROVE KnowsAll(r, b)'
    OBVIOUS
  <2> QED BY <1>2, KnowsThen
<1>14. At(r)'
  <2> SUFFICES ASSUME NEW b, b = a + 1 PROVE At(r)'
    OBVIOUS
  <2>1. space'[r] = "cells" /\ space'[r] \in Spaces
    BY <1>1, <1>2 DEF Situated
  <2>2. coloring'[r] = ColoredAs(r, b) /\ info'[r] = InfoAt(b)
    <3>1. coloring[r] = ColoredAs(r, a) /\ info[r] = InfoAt(a)
      BY <1>1 DEF Situated
    <3>2. ColoredAs(r, a) = ColoredAs(r, b) /\ InfoAt(a) = InfoAt(b)
      BY <1>3 DEF ColoredAs, InfoAt
    <3> QED BY <1>2, <3>1, <3>2
  <2>3. ~(b > 26)
    BY <1>3
  <2> QED BY <1>2, <1>4, <1>8, <1>13, <2>1, <2>2, <2>3, AtThen
<1> QED BY <1>2, <1>3, <1>7, <1>9, <1>12, <1>14, Moves

-----------------------------------------------------------------------------
(* The collectives of DcrsColoring *)

LEMMA DcrsGivesAre ==
    ASSUME NEW r
    PROVE  /\ DcrsGives(r, 1) = DcrsStart(r)
           /\ DcrsGives(r, 2) = Len(CellsOf(r))
           /\ DcrsGives(r, 3) = [q \in Colors |-> HomedFrom(r, q)]
           /\ DcrsGives(r, 4) = [q \in Colors |-> HomeReply(r, q)]
           /\ DcrsGives(r, 5) = [q \in Colors |-> EdgesSent(r, q)]
           /\ DcrsGives(r, 6) = Len(Homed(r))
           /\ DcrsGives(r, 7) = [q \in Colors |-> EdgeIdsTo(r, q)]
           /\ DcrsGives(r, 8) = [q \in Colors |-> SharedTo(r, q)]
           /\ DcrsGives(r, 9) = [q \in Colors |-> IF q = r THEN {} ELSE ClaimsTo(r, q)]
           /\ DcrsGives(r, 10) = [q \in Colors |-> GhostRequests(r, q)]
           /\ DcrsGives(r, 11) = [q \in Colors |-> EntriesTo(r, q)]
           /\ DcrsGives(r, 12) = [q \in Colors |-> CellVertices(r, q)]
           /\ DcrsGives(r, 13) = ColSizes(r)
  BY DEF DcrsGives

\* A color that has gathered the results of its collective.
LEMMA DcrsPlace ==
    ASSUME IInv, scheme = "dcrs", NEW r \in Colors, NEW at, NEW a \in 8..19,
           \A s : StageOf(at, s) = a, Gathered(r, at)
    PROVE  /\ Stage(r) = a /\ pc[r] = at /\ Given /\ DcrsKnows(r, a) /\ Shapes
           /\ \A q \in Colors : Received(r)[q] = DcrsGives(q, a - 7)
           /\ Received(r) = [q \in Colors |-> DcrsGives(q, a - 7)]
           /\ Calls(a) = a - 7 /\ a \in Stages
<1>1. pc[r] = at /\ Stage(r) = a
  BY DEF Gathered, Stage
<1>2. Given /\ Shapes /\ Situated(r, a)
  BY <1>1 DEF IInv, At
<1>3. DcrsKnows(r, a)
  BY <1>2 DEF Situated, KnowsAll
<1>4. Calls(a) = a - 7 /\ a \in Stages
  BY <1>2, StagesAre
<1>5. Received(r) = [q \in Colors |-> Gives(q, a - 7)]
  BY <1>1, <1>4, GatheredIs
<1>6. \A q \in Colors : Gives(q, a - 7) = DcrsGives(q, a - 7)
  BY DEF Gives
<1> QED BY <1>1, <1>2, <1>3, <1>4, <1>5, <1>6

\* The same of DcrsColoring.
LEMMA DcrsMoves ==
    ASSUME IInv, scheme = "dcrs", NEW r \in Colors, NEW at, NEW next, NEW new, NEW val,
           NEW a \in 8..18, \A s : StageOf(at, s) = a, \A s : StageOf(next, s) = a + 1,
           at \notin Looping, next \notin Looping, pc[r] = at,
           Round(r, next, new, val), UNCHANGED <<space, fieldVars>>,
           val = DcrsGives(r, a - 6), DcrsKnowsNext(r, a + 1)
    PROVE  IInv'
<1>1. Stage(r) = a
  BY DEF Stage
<1>2. Given
  BY DEF IInv
<1>3. a \in Stages /\ a + 1 \in Stages /\ Calls(a) + 1 = a - 6
  BY <1>2, StagesAre
<1>4. val = Gives(r, Calls(a) + 1)
  BY <1>3 DEF Gives
<1>5. a \in (0..4) \cup (8..18) /\ scheme # "closure"
  OBVIOUS
<1> QED BY <1>1, <1>3, <1>4, <1>5, RoundMoves

\* Each action keeps the invariant.
LEMMA MigrateMoves ==
    ASSUME IInv, scheme = "dcrs", NEW r \in Colors, Migrate(r), UNCHANGED <<space, fieldVars>>
    PROVE  IInv'
<1> DEFINE others == [i \in 1..NumColors |-> IF i - 1 = r THEN <<>> ELSE Received(r)[i - 1][r]]
           cells == CellsFor(r, r) \o FlattenSeq(others)
           new == [cells |-> cells]
<1>1. Gathered(r, "migrate") /\ Round(r, "sizes", new, Len(cells))
  BY DEF Migrate
<1>2. \A s : StageOf("migrate", s) = 8 /\ StageOf("sizes", s) = 9
  BY StageOfIs
<1>3. /\ pc[r] = "migrate" /\ DcrsKnows(r, 8) /\ Shapes
      /\ \A q \in Colors : Received(r)[q] = DcrsGives(q, 1)
  BY <1>1, <1>2, DcrsPlace
<1>4. cells = CellsOf(r)
  <2>1. \A i \in 1..NumColors : i - 1 \in Colors
    BY ColorsAre
  <2>2. \A i \in 1..NumColors : Received(r)[i - 1][r] = CellsFor(i - 1, r)
    BY <1>3, <2>1, DcrsGivesAre DEF DcrsStart
  <2> QED BY <2>2 DEF CellsOf
<1> HIDE DEF cells
<1>5. Len(cells) = DcrsGives(r, 2)
  BY <1>4, DcrsGivesAre
<1>6. DcrsKnowsNext(r, 9)
  <2>1. DOMAIN new = {"cells"} /\ new["cells"] = cells
    OBVIOUS
  <2> HIDE DEF new
  <2>2. KnowsNext(r, "cells", cells)
    BY <1>1, <1>3, <2>1, KeepIs DEF Round, Shapes
  <2> QED BY <1>4, <2>2 DEF DcrsKnowsNext
<1> HIDE DEF new
<1> QED BY <1>1, <1>2, <1>3, <1>5, <1>6, DcrsMoves DEF Looping

LEMMA DistributeMoves ==
    ASSUME IInv, scheme = "dcrs", NEW r \in Colors, Distribute(r), UNCHANGED <<space, fieldVars>>
    PROVE  IInv'
<1> DEFINE dist == Sums(Received(r))
           known == LocalIncidence(r, dist)
           new == [dist |-> dist, incidence |-> known]
           val == [q \in Colors |-> IF q = r THEN {} ELSE HomedAt(q, known)]
<1>1. Gathered(r, "sizes") /\ Round(r, "to_homes", new, val)
  BY DEF Distribute
<1>2. \A s : StageOf("sizes", s) = 9 /\ StageOf("to_homes", s) = 10
  BY StageOfIs
<1>3. /\ pc[r] = "sizes" /\ DcrsKnows(r, 9) /\ Shapes /\ Given
      /\ Received(r) = [q \in Colors |-> DcrsGives(q, 2)]
  BY <1>1, <1>2, DcrsPlace
<1>4. dist = Dist
  <2>1. Received(r) = CellCounts
    BY <1>3, DcrsGivesAre DEF CellCounts
  <2> QED BY <2>1 DEF Dist
<1>5. Knows(r, "cells", CellsOf(r))
  BY <1>3 DEF DcrsKnows
<1>6. known = Incidence(Primary(r))
  BY <1>3, <1>4, <1>5, FromCells
<1> HIDE DEF dist, known
<1>7. val = DcrsGives(r, 3)
  BY <1>6, DcrsGivesAre DEF HomedFrom
<1>8. DcrsKnowsNext(r, 10)
  <2>1. DOMAIN new = {"dist", "incidence"} /\ new["dist"] = dist /\ new["incidence"] = known
    OBVIOUS
  <2> HIDE DEF new
  <2>2. KnowsNext(r, "dist", dist) /\ KnowsNext(r, "incidence", known)
        /\ KnowsNext(r, "cells", CellsOf(r))
    BY <1>1, <1>3, <1>5, <2>1, KeepIs DEF Round, Shapes
  <2> QED BY <1>4, <1>6, <2>2 DEF DcrsKnowsNext
<1> HIDE DEF new, val
<1> QED BY <1>1, <1>2, <1>3, <1>7, <1>8, DcrsMoves DEF Looping

LEMMA AnswerFromHomeMoves ==
    ASSUME IInv, scheme = "dcrs", NEW r \in Colors, AnswerFromHome(r), UNCHANGED <<space, fieldVars>>
    PROVE  IInv'
<1> DEFINE got == [q \in Colors |-> Received(r)[q][r]]
           known == mine[r].incidence \cup UNION {got[q] : q \in Colors}
           new == [incidence |-> known]
           val == [q \in Colors |-> {p \in known : \E x \in got[q] : x[1] = p[1]}]
           all == Incidence(Primary(r)) \cup HomedHere(r)
<1>1. Gathered(r, "to_homes") /\ Round(r, "from_homes", new, val)
  BY DEF AnswerFromHome
<1>2. \A s : StageOf("to_homes", s) = 10 /\ StageOf("from_homes", s) = 11
  BY StageOfIs
<1>3. /\ pc[r] = "to_homes" /\ DcrsKnows(r, 10) /\ Shapes /\ Given
      /\ \A q \in Colors : Received(r)[q] = DcrsGives(q, 3)
  BY <1>1, <1>2, DcrsPlace
<1>4. \A q \in Colors : got[q] = HomedFrom(q, r)
  BY <1>3, DcrsGivesAre
<1>5. /\ Knows(r, "cells", CellsOf(r)) /\ Knows(r, "dist", Dist)
      /\ Knows(r, "incidence", Incidence(Primary(r)))
  BY <1>3 DEF DcrsKnows
<1>6. known = all
  <2>1. mine[r].incidence = Incidence(Primary(r))
    BY <1>5 DEF Knows
  <2>2. {got[q] : q \in Colors} = {HomedFrom(q, r) : q \in Colors}
    BY <1>4
  <2> HIDE DEF got
  <2> QED BY <1>3, <2>1, <2>2, HomeKnows
<1> HIDE DEF got, known
<1>7. val = DcrsGives(r, 4)
  <2>1. \A q \in Colors : {p \in known : \E x \in got[q] : x[1] = p[1]} = HomeReply(r, q)
    <3> TAKE q \in Colors
    <3>1. {p \in known : \E x \in got[q] : x[1] = p[1]} = {p \in all : \E x \in HomedFrom(q, r) : x[1] = p[1]}
      BY <1>4, <1>6
    <3> QED BY <1>3, <3>1, HomeKnows
  <2> QED BY <2>1, DcrsGivesAre
<1>8. DcrsKnowsNext(r, 11)
  <2>1. DOMAIN new = {"incidence"} /\ new["incidence"] = known
    OBVIOUS
  <2> HIDE DEF new, all
  <2>2. /\ KnowsNext(r, "cells", CellsOf(r)) /\ KnowsNext(r, "dist", Dist)
        /\ KnowsNext(r, "incidence", all)
    BY <1>1, <1>3, <1>5, <1>6, <2>1, KeepIs DEF Round, Shapes
  <2> QED BY <2>2 DEF DcrsKnowsNext, all
<1> HIDE DEF new, val, all
<1> QED BY <1>1, <1>2, <1>3, <1>7, <1>8, DcrsMoves DEF Looping

LEMMA ColorCellsMoves ==
    ASSUME IInv, scheme = "dcrs", NEW r \in Colors, ColorCells(r), UNCHANGED <<space, fieldVars>>
    PROVE  IInv'
<1> DEFINE known == mine[r].incidence \cup UNION {Received(r)[q][r] : q \in Colors}
           neighbors == [i \in DOMAIN mine[r].cells |-> DcrsNeighbors(r, known, i)]
           cells == OwnerInfo(r, neighbors)
           new == [cellColoring |-> cells]
           val == [q \in Colors |-> IF q = r THEN <<>> ELSE EdgesAt(r, q)]
           all == Incidence(Primary(r)) \cup HomedHere(r)
<1>1. Gathered(r, "from_homes") /\ Round(r, "edge_homes", new, val)
  BY DEF ColorCells
<1>2. \A s : StageOf("from_homes", s) = 11 /\ StageOf("edge_homes", s) = 12
  BY StageOfIs
<1>3. /\ pc[r] = "from_homes" /\ DcrsKnows(r, 11) /\ Shapes /\ Given
      /\ \A q \in Colors : Received(r)[q] = DcrsGives(q, 4)
  BY <1>1, <1>2, DcrsPlace
<1>4. \A q \in Colors : Received(r)[q][r] = HomeReply(q, r)
  BY <1>3, DcrsGivesAre
<1>5. /\ Knows(r, "cells", CellsOf(r)) /\ Knows(r, "dist", Dist)
      /\ Knows(r, "incidence", all)
  BY <1>3 DEF DcrsKnows
<1>6. cells = DcrsCells(r)
  <2>1. mine[r].incidence = all
    BY <1>5 DEF Knows
  <2>2. {Received(r)[q][r] : q \in Colors} = {HomeReply(q, r) : q \in Colors}
    BY <1>4
  <2>3. known = Learned(r)
    BY <2>1, <2>2 DEF Learned
  <2> HIDE DEF known
  <2>4. neighbors = [i \in DOMAIN mine[r].cells |-> DcrsNeighbors(r, Learned(r), i)]
    BY <2>3
  <2> HIDE DEF neighbors
  <2>5. OwnerInfo(r, [i \in DOMAIN mine[r].cells |-> DcrsNeighbors(r, Learned(r), i)]) = DcrsCells(r)
    BY <1>3, <1>5, CellColoringIs
  <2> QED BY <2>4, <2>5
<1> HIDE DEF cells
<1>7. val = DcrsGives(r, 5)
  BY <1>3, <1>5, FromCells, DcrsGivesAre DEF EdgesSent
<1>8. DcrsKnowsNext(r, 12)
  <2>1. DOMAIN new = {"cellColoring"} /\ new["cellColoring"] = cells
    OBVIOUS
  <2> HIDE DEF new, all
  <2>2. /\ KnowsNext(r, "cells", CellsOf(r)) /\ KnowsNext(r, "dist", Dist)
        /\ KnowsNext(r, "incidence", all) /\ KnowsNext(r, "cellColoring", cells)
    BY <1>1, <1>3, <1>5, <2>1, KeepIs DEF Round, Shapes
  <2> QED BY <1>6, <2>2 DEF DcrsKnowsNext, all
<1> HIDE DEF new, val, all
<1> QED BY <1>1, <1>2, <1>3, <1>7, <1>8, DcrsMoves DEF Looping

\* What a color knows from make_dcrs_distributed and get_owner_info on.
DcrsBasics(r) ==
    /\ Knows(r, "cells", CellsOf(r)) /\ Knows(r, "dist", Dist)
    /\ Knows(r, "incidence", Incidence(Primary(r)) \cup HomedHere(r))
    /\ Knows(r, "cellColoring", DcrsCells(r))
DcrsBasicsNext(r) ==
    /\ KnowsNext(r, "cells", CellsOf(r)) /\ KnowsNext(r, "dist", Dist)
    /\ KnowsNext(r, "incidence", Incidence(Primary(r)) \cup HomedHere(r))
    /\ KnowsNext(r, "cellColoring", DcrsCells(r))
EdgesHomed(r) == Knows(r, "homed", Homed(r)) /\ Knows(r, "senders", [q \in Colors |-> ToSet(EdgesSent(q, r))])
EdgesHomedNext(r) ==
    KnowsNext(r, "homed", Homed(r)) /\ KnowsNext(r, "senders", [q \in Colors |-> ToSet(EdgesSent(q, r))])

\* What a color has known since make_dcrs_distributed stays.
LEMMA BasicsStay ==
    ASSUME NEW r \in Colors, NEW new, Keep(r, new), Shapes,
           \A name \in DOMAIN new : name \in {"homed", "senders", "edgeIds", "potentialGhost", "owners",
                                              "vertexColoring", "ghostCells"}
    PROVE  /\ DcrsBasics(r) => DcrsBasicsNext(r)
           /\ (DOMAIN new \cap {"homed", "senders"} = {} /\ EdgesHomed(r)) => EdgesHomedNext(r)
<1>1. mine = [q \in Colors |-> mine[q]]
  BY DEF Shapes
<1>2. \A name, val : name \notin DOMAIN new /\ Knows(r, name, val) => KnowsNext(r, name, val)
  BY <1>1, KeepIs
<1>3. /\ "cells" \notin DOMAIN new /\ "dist" \notin DOMAIN new /\ "incidence" \notin DOMAIN new
      /\ "cellColoring" \notin DOMAIN new
  OBVIOUS
<1> QED BY <1>2, <1>3 DEF DcrsBasics, DcrsBasicsNext, EdgesHomed, EdgesHomedNext

LEMMA NumberEdgesMoves ==
    ASSUME IInv, scheme = "dcrs", NEW r \in Colors, NumberEdges(r), UNCHANGED <<space, fieldVars>>
    PROVE  IInv'
<1> DEFINE got == [i \in 1..NumColors |-> Received(r)[i - 1][r]]
           here == Distinct(EdgesAt(r, r) \o FlattenSeq(got))
           from == [q \in Colors |-> ToSet(got[q + 1])]
           new == [homed |-> here, senders |-> from]
<1>1. Gathered(r, "edge_homes") /\ Round(r, "edge_counts", new, Len(here))
  BY DEF NumberEdges
<1>2. \A s : StageOf("edge_homes", s) = 12 /\ StageOf("edge_counts", s) = 13
  BY StageOfIs
<1>3. /\ pc[r] = "edge_homes" /\ DcrsKnows(r, 12) /\ Shapes /\ Given
      /\ \A q \in Colors : Received(r)[q] = DcrsGives(q, 5)
  BY <1>1, <1>2, DcrsPlace
<1>4. \A q \in Colors : Received(r)[q][r] = EdgesSent(q, r)
  BY <1>3, DcrsGivesAre
<1>5. DcrsBasics(r)
  BY <1>3 DEF DcrsKnows, DcrsBasics
<1>6. here = Homed(r)
  <2>1. \A i \in 1..NumColors : Received(r)[i - 1][r] = EdgesSent(i - 1, r)
    BY <1>4, ColorsAre
  <2>2. got = [i \in 1..NumColors |-> EdgesSent(i - 1, r)]
    BY <2>1
  <2> HIDE DEF got
  <2>3. EdgesAt(r, r) = EdgeList(r, r)
    BY <1>3, <1>5, FromCells DEF DcrsBasics
  <2> QED BY <2>2, <2>3 DEF Homed
<1>7. from = [q \in Colors |-> ToSet(EdgesSent(q, r))]
  <2>1. \A q \in Colors : q + 1 \in 1..NumColors /\ (q + 1) - 1 = q
    BY ColorsAre
  <2>2. \A q \in Colors : got[q + 1] = EdgesSent(q, r)
    BY <1>4, <2>1
  <2> HIDE DEF got
  <2> QED BY <2>2
<1> HIDE DEF here, from
<1>8. Len(here) = DcrsGives(r, 6)
  BY <1>6, DcrsGivesAre
<1>9. DcrsKnowsNext(r, 13)
  <2>1. DOMAIN new = {"homed", "senders"} /\ new["homed"] = here /\ new["senders"] = from
    OBVIOUS
  <2> HIDE DEF new
  <2>2. KnowsNext(r, "homed", here) /\ KnowsNext(r, "senders", from)
    BY <1>1, <1>3, <2>1, KeepIs DEF Round, Shapes
  <2>3. DcrsBasicsNext(r)
    BY <1>1, <1>3, <1>5, <2>1, BasicsStay DEF Round
  <2> QED BY <1>6, <1>7, <2>2, <2>3 DEF DcrsKnowsNext, DcrsBasicsNext
<1> HIDE DEF new
<1> QED BY <1>1, <1>2, <1>3, <1>8, <1>9, DcrsMoves DEF Looping

LEMMA ShareEdgeIdsMoves ==
    ASSUME IInv, scheme = "dcrs", NEW r \in Colors, ShareEdgeIds(r), UNCHANGED <<space, fieldVars>>
    PROVE  IInv'
<1> DEFINE id == [i \in DOMAIN mine[r].homed |-> EdgeBase(r, Received(r)) + i - 1]
           ids == {<<mine[r].homed[i], id[i]>> : i \in DOMAIN id}
           new == [edgeIds |-> ids]
           val == [q \in Colors |-> {p \in ids : q # r /\ p[1] \in mine[r].senders[q]}]
<1>1. Gathered(r, "edge_counts") /\ Round(r, "edge_ids", new, val)
  BY DEF ShareEdgeIds
<1>2. \A s : StageOf("edge_counts", s) = 13 /\ StageOf("edge_ids", s) = 14
  BY StageOfIs
<1>3. /\ pc[r] = "edge_counts" /\ DcrsKnows(r, 13) /\ Shapes /\ Given
      /\ Received(r) = [q \in Colors |-> DcrsGives(q, 6)]
  BY <1>1, <1>2, DcrsPlace
<1>4. DcrsBasics(r) /\ EdgesHomed(r)
  BY <1>3 DEF DcrsKnows, DcrsBasics, EdgesHomed
<1>5. EdgeBase(r, Received(r)) = EdgeDist[r]
  <2>1. Received(r) = EdgeCounts
    BY <1>3, DcrsGivesAre DEF EdgeCounts
  <2> QED BY <2>1 DEF EdgeBase, EdgeDist
<1>6. mine[r].homed = Homed(r) /\ mine[r].senders = [q \in Colors |-> ToSet(EdgesSent(q, r))]
  BY <1>4 DEF EdgesHomed, Knows
<1>7. ids = EdgeIds(r)
  <2>1. id = [i \in DOMAIN Homed(r) |-> EdgeDist[r] + i - 1]
    BY <1>5, <1>6
  <2>2. DOMAIN id = DOMAIN Homed(r) /\ \A i \in DOMAIN Homed(r) : id[i] = EdgeDist[r] + i - 1
    BY <2>1
  <2> HIDE DEF id
  <2>3. ids = {<<Homed(r)[i], id[i]>> : i \in DOMAIN Homed(r)}
    BY <1>6, <2>2
  <2>4. \A i \in DOMAIN Homed(r) : <<Homed(r)[i], id[i]>> = <<Homed(r)[i], EdgeDist[r] + i - 1>>
    BY <2>2
  <2> HIDE DEF ids
  <2> QED BY <2>3, <2>4 DEF EdgeIds
<1> HIDE DEF ids
<1>8. val = DcrsGives(r, 7)
  <2>1. \A q \in Colors : {p \in ids : q # r /\ p[1] \in mine[r].senders[q]} = EdgeIdsTo(r, q)
    BY <1>6, <1>7 DEF EdgeIdsTo
  <2> QED BY <2>1, DcrsGivesAre
<1>9. DcrsKnowsNext(r, 14)
  <2>1. DOMAIN new = {"edgeIds"} /\ new["edgeIds"] = ids
    OBVIOUS
  <2> HIDE DEF new
  <2>2. KnowsNext(r, "edgeIds", ids)
    BY <1>1, <1>3, <2>1, KeepIs DEF Round, Shapes
  <2>3. DcrsBasicsNext(r) /\ EdgesHomedNext(r)
    BY <1>1, <1>3, <1>4, <2>1, BasicsStay DEF Round
  <2> QED BY <1>7, <2>2, <2>3 DEF DcrsKnowsNext, DcrsBasicsNext, EdgesHomedNext
<1> HIDE DEF new, val
<1> QED BY <1>1, <1>2, <1>3, <1>8, <1>9, DcrsMoves DEF Looping

LEMMA MatchIdsMoves ==
    ASSUME IInv, scheme = "dcrs", NEW r \in Colors, MatchIds(r), UNCHANGED <<space, fieldVars>>
    PROVE  IInv'
<1> DEFINE ids == mine[r].edgeIds \cup UNION {Received(r)[q][r] : q \in Colors}
           new == [edgeIds |-> ids]
           val == [q \in Colors |-> UNION {VerticesOf(r, c) :
                 c \in {x \in mine[r].cellColoring.shared : q # r /\ q \in x.shared}}]
<1>1. Gathered(r, "edge_ids") /\ Round(r, "shared_cells", new, val)
  BY DEF MatchIds
<1>2. \A s : StageOf("edge_ids", s) = 14 /\ StageOf("shared_cells", s) = 15
  BY StageOfIs
<1>3. /\ pc[r] = "edge_ids" /\ DcrsKnows(r, 14) /\ Shapes /\ Given
      /\ \A q \in Colors : Received(r)[q] = DcrsGives(q, 7)
  BY <1>1, <1>2, DcrsPlace
<1>4. DcrsBasics(r) /\ EdgesHomed(r) /\ Knows(r, "edgeIds", EdgeIds(r))
  BY <1>3 DEF DcrsKnows, DcrsBasics, EdgesHomed
<1>5. ids = AllEdgeIds(r)
  <2>1. \A q \in Colors : Received(r)[q][r] = EdgeIdsTo(q, r)
    BY <1>3, DcrsGivesAre
  <2>2. {Received(r)[q][r] : q \in Colors} = {EdgeIdsTo(q, r) : q \in Colors}
    BY <2>1
  <2>3. mine[r].edgeIds = EdgeIds(r)
    BY <1>4 DEF Knows
  <2> QED BY <2>2, <2>3 DEF AllEdgeIds
<1> HIDE DEF ids
<1>6. val = DcrsGives(r, 8)
  <2>1. \A q : UNION {VerticesOf(r, c) :
                 c \in {x \in mine[r].cellColoring.shared : q # r /\ q \in x.shared}} = SharedTo(r, q)
    BY <1>3, <1>4, FromSharedCells DEF DcrsBasics
  <2> QED BY <2>1, DcrsGivesAre
<1>7. DcrsKnowsNext(r, 15)
  <2>1. DOMAIN new = {"edgeIds"} /\ new["edgeIds"] = ids
    OBVIOUS
  <2> HIDE DEF new
  <2>2. KnowsNext(r, "edgeIds", ids)
    BY <1>1, <1>3, <2>1, KeepIs DEF Round, Shapes
  <2>3. DcrsBasicsNext(r) /\ EdgesHomedNext(r)
    BY <1>1, <1>3, <1>4, <2>1, BasicsStay DEF Round
  <2> QED BY <1>5, <2>2, <2>3 DEF DcrsKnowsNext, DcrsBasicsNext, EdgesHomedNext
<1> HIDE DEF new, val
<1> QED BY <1>1, <1>2, <1>3, <1>6, <1>7, DcrsMoves DEF Looping

\* What a color knows from match_ids on.
Matched(r) == DcrsBasics(r) /\ EdgesHomed(r) /\ Knows(r, "edgeIds", AllEdgeIds(r))
MatchedNext(r) == DcrsBasicsNext(r) /\ EdgesHomedNext(r) /\ KnowsNext(r, "edgeIds", AllEdgeIds(r))

\* So does what it has known since match_ids.
LEMMA MatchedStay ==
    ASSUME NEW r \in Colors, NEW new, Keep(r, new), Shapes, Matched(r),
           \A name \in DOMAIN new : name \in {"potentialGhost", "owners", "vertexColoring", "ghostCells"}
    PROVE  MatchedNext(r)
<1>1. mine = [q \in Colors |-> mine[q]]
  BY DEF Shapes
<1>2. \A name, val : name \notin DOMAIN new /\ Knows(r, name, val) => KnowsNext(r, name, val)
  BY <1>1, KeepIs
<1>3. "edgeIds" \notin DOMAIN new /\ DOMAIN new \cap {"homed", "senders"} = {}
  OBVIOUS
<1>4. DcrsBasicsNext(r) /\ EdgesHomedNext(r)
  BY <1>3, BasicsStay DEF Matched
<1> QED BY <1>2, <1>3, <1>4 DEF Matched, MatchedNext

LEMMA ClaimVerticesMoves ==
    ASSUME IInv, scheme = "dcrs", NEW r \in Colors, ClaimVertices(r), UNCHANGED <<space, fieldVars>>
    PROVE  IInv'
<1> DEFINE ghosts == UNION {Received(r)[q][r] : q \in Colors}
           new == [potentialGhost |-> ghosts]
           val == [q \in Colors |-> IF q = r THEN {} ELSE Claims(r, q)]
<1>1. Gathered(r, "shared_cells") /\ Round(r, "claims", new, val)
  BY DEF ClaimVertices
<1>2. \A s : StageOf("shared_cells", s) = 15 /\ StageOf("claims", s) = 16
  BY StageOfIs
<1>3. /\ pc[r] = "shared_cells" /\ DcrsKnows(r, 15) /\ Shapes /\ Given
      /\ \A q \in Colors : Received(r)[q] = DcrsGives(q, 8)
  BY <1>1, <1>2, DcrsPlace
<1>4. Matched(r)
  BY <1>3 DEF DcrsKnows, DcrsBasics, EdgesHomed, Matched
<1>5. ghosts = PGhost(r)
  <2>1. \A q \in Colors : Received(r)[q][r] = SharedTo(q, r)
    BY <1>3, DcrsGivesAre
  <2>2. {Received(r)[q][r] : q \in Colors} = {SharedTo(q, r) : q \in Colors}
    BY <2>1
  <2> QED BY <1>3, <2>2, ToldOfGhosts
<1> HIDE DEF ghosts
<1>6. val = DcrsGives(r, 9)
  BY <1>3, <1>4, ClaimsAre, DcrsGivesAre DEF Matched, DcrsBasics
<1>7. DcrsKnowsNext(r, 16)
  <2>1. DOMAIN new = {"potentialGhost"} /\ new["potentialGhost"] = ghosts
    OBVIOUS
  <2> HIDE DEF new
  <2>2. KnowsNext(r, "potentialGhost", ghosts)
    BY <1>1, <1>3, <2>1, KeepIs DEF Round, Shapes
  <2>3. MatchedNext(r)
    BY <1>1, <1>3, <1>4, <2>1, MatchedStay DEF Round
  <2> QED BY <1>5, <2>2, <2>3 DEF DcrsKnowsNext, MatchedNext, DcrsBasicsNext, EdgesHomedNext
<1> HIDE DEF new, val
<1> QED BY <1>1, <1>2, <1>3, <1>6, <1>7, DcrsMoves DEF Looping

LEMMA ClaimGhostsMoves ==
    ASSUME IInv, scheme = "dcrs", NEW r \in Colors, ClaimGhosts(r), UNCHANGED <<space, fieldVars>>
    PROVE  IInv'
<1> DEFINE claims == Claims(r, r) \cup UNION {Received(r)[q][r] : q \in Colors}
           owners == Lowest(claims)
           new == [owners |-> owners]
           val == [q \in Colors |-> {v \in mine[r].potentialGhost : q # r /\ Home(v) = q}]
<1>1. Gathered(r, "claims") /\ Round(r, "ghost_requests", new, val)
  BY DEF ClaimGhosts
<1>2. \A s : StageOf("claims", s) = 16 /\ StageOf("ghost_requests", s) = 17
  BY StageOfIs
<1>3. /\ pc[r] = "claims" /\ DcrsKnows(r, 16) /\ Shapes /\ Given
      /\ \A q \in Colors : Received(r)[q] = DcrsGives(q, 9)
  BY <1>1, <1>2, DcrsPlace
<1>4. Matched(r) /\ Knows(r, "potentialGhost", PGhost(r))
  BY <1>3 DEF DcrsKnows, DcrsBasics, EdgesHomed, Matched
<1>5. owners = HomeOwners(r)
  <2>1. \A q \in Colors : Received(r)[q][r] = IF q = r THEN {} ELSE ClaimsTo(q, r)
    <3> TAKE q \in Colors
    <3>1. Received(r)[q] = [p \in Colors |-> IF p = q THEN {} ELSE ClaimsTo(q, p)]
      BY <1>3, DcrsGivesAre
    <3>2. Received(r)[q][r] = IF r = q THEN {} ELSE ClaimsTo(q, r)
      BY <3>1
    <3> QED BY <3>2
  <2>2. Claims(r, r) = ClaimsTo(r, r)
    BY <1>3, <1>4, ClaimsAre DEF Matched, DcrsBasics
  <2>3. \A x : x \in claims => x \in UNION {ClaimsTo(q, r) : q \in Colors}
    BY <2>1, <2>2
  <2>4. \A x : x \in UNION {ClaimsTo(q, r) : q \in Colors} => x \in claims
    BY <2>1, <2>2
  <2> HIDE DEF claims
  <2>5. claims = UNION {ClaimsTo(q, r) : q \in Colors}
    BY <2>3, <2>4
  <2> QED BY <1>3, <2>5, OwnersFound
<1> HIDE DEF owners
<1>6. val = DcrsGives(r, 10)
  <2>1. mine[r].potentialGhost = PGhost(r)
    BY <1>4 DEF Knows
  <2> QED BY <2>1, DcrsGivesAre DEF GhostRequests
<1>7. DcrsKnowsNext(r, 17)
  <2>1. DOMAIN new = {"owners"} /\ new["owners"] = owners
    OBVIOUS
  <2> HIDE DEF new
  <2>2. KnowsNext(r, "owners", owners) /\ KnowsNext(r, "potentialGhost", PGhost(r))
    BY <1>1, <1>3, <1>4, <2>1, KeepIs DEF Round, Shapes
  <2>3. MatchedNext(r)
    BY <1>1, <1>3, <1>4, <2>1, MatchedStay DEF Round
  <2> QED BY <1>5, <2>2, <2>3 DEF DcrsKnowsNext, MatchedNext, DcrsBasicsNext, EdgesHomedNext
<1> HIDE DEF new, val
<1> QED BY <1>1, <1>2, <1>3, <1>6, <1>7, DcrsMoves DEF Looping

LEMMA ReturnOwnersMoves ==
    ASSUME IInv, scheme = "dcrs", NEW r \in Colors, ReturnOwners(r), UNCHANGED <<space, fieldVars>>
    PROVE  IInv'
<1> DEFINE table == {[e EXCEPT !.shared = GhostRanks(r, e)] : e \in mine[r].owners}
           wanted == HomedAt(r, {<<v, r>> : v \in mine[r].potentialGhost})
                  \cup UNION {{<<v, q>> : v \in Received(r)[q][r]} : q \in Colors}
           new == [owners |-> table]
           val == [q \in Colors |-> {e \in table : q # r /\ (q = e.rank \/ q \in e.shared)}]
<1>1. Gathered(r, "ghost_requests")
  BY DEF ReturnOwners
<1>2. \A s : StageOf("ghost_requests", s) = 17 /\ StageOf("owners", s) = 18
  BY StageOfIs
<1>3. /\ pc[r] = "ghost_requests" /\ DcrsKnows(r, 17) /\ Shapes /\ Given
      /\ \A q \in Colors : Received(r)[q] = DcrsGives(q, 10)
  BY <1>1, <1>2, DcrsPlace
<1>4. Matched(r) /\ Knows(r, "potentialGhost", PGhost(r)) /\ Knows(r, "owners", HomeOwners(r))
  BY <1>3 DEF DcrsKnows, DcrsBasics, EdgesHomed, Matched
<1>5. table = HomeTable(r) /\ \A w \in wanted : \E e \in HomeTable(r) : e.id = w[1]
  <2>1. \A q \in Colors : Received(r)[q][r] = GhostRequests(q, r)
    BY <1>3, DcrsGivesAre
  <2> QED BY <1>3, <1>4, <2>1, TableFound
<1>6. Round(r, "owners", new, val)
  <2>1. IF \E w \in wanted : \A e \in table : e.id # w[1] THEN Abort(r) ELSE Round(r, "owners", new, val)
    BY DEF ReturnOwners
  <2> HIDE DEF wanted, table
  <2>2. ~\E w \in wanted : \A e \in table : e.id # w[1]
    BY <1>5
  <2> QED BY <2>1, <2>2
<1> HIDE DEF table
<1>7. val = DcrsGives(r, 11)
  BY <1>5, DcrsGivesAre DEF EntriesTo
<1>8. DcrsKnowsNext(r, 18)
  <2>1. DOMAIN new = {"owners"} /\ new["owners"] = table
    OBVIOUS
  <2> HIDE DEF new
  <2>2. KnowsNext(r, "owners", table) /\ KnowsNext(r, "potentialGhost", PGhost(r))
    BY <1>3, <1>4, <1>6, <2>1, KeepIs DEF Round, Shapes
  <2>3. MatchedNext(r)
    BY <1>3, <1>4, <1>6, <2>1, MatchedStay DEF Round
  <2> QED BY <1>5, <2>2, <2>3 DEF DcrsKnowsNext, MatchedNext, DcrsBasicsNext, EdgesHomedNext
<1> HIDE DEF new, val
<1> QED BY <1>2, <1>3, <1>6, <1>7, <1>8, DcrsMoves DEF Looping

LEMMA ColorEntitiesMoves ==
    ASSUME IInv, scheme = "dcrs", NEW r \in Colors, ColorEntities(r), UNCHANGED <<space, fieldVars>>
    PROVE  IInv'
<1> DEFINE table == mine[r].owners \cup UNION {Received(r)[q][r] : q \in Colors}
           verts == VertexColoring(r, table)
           new == [vertexColoring |-> verts]
           val == [q \in Colors |-> IF q = r THEN {} ELSE ConnectivityFor(r, q)]
<1>1. Gathered(r, "owners")
  BY DEF ColorEntities
<1>2. \A s : StageOf("owners", s) = 18 /\ StageOf("connectivity", s) = 19
  BY StageOfIs
<1>3. /\ pc[r] = "owners" /\ DcrsKnows(r, 18) /\ Shapes /\ Given
      /\ \A q \in Colors : Received(r)[q] = DcrsGives(q, 11)
  BY <1>1, <1>2, DcrsPlace
<1>4. Matched(r) /\ Knows(r, "potentialGhost", PGhost(r)) /\ Knows(r, "owners", HomeTable(r))
  BY <1>3 DEF DcrsKnows, DcrsBasics, EdgesHomed, Matched
<1>5. table = HomeTable(r) \cup UNION {EntriesTo(q, r) : q \in Colors}
  <2>1. \A q \in Colors : Received(r)[q][r] = EntriesTo(q, r)
    BY <1>3, DcrsGivesAre
  <2>2. {Received(r)[q][r] : q \in Colors} = {EntriesTo(q, r) : q \in Colors}
    BY <2>1
  <2>3. mine[r].owners = HomeTable(r)
    BY <1>4 DEF Knows
  <2> QED BY <2>2, <2>3
<1> HIDE DEF table
<1>6. /\ verts = DcrsVertices(r)
      /\ \A d, e \in table : d.id = e.id => d = e
      /\ \A e \in DcrsVertices(r).shared : e.shared # {}
  BY <1>3, <1>4, <1>5, VertexColoringIs DEF Matched, DcrsBasics
<1>7. Round(r, "connectivity", new, val)
  <2>1. IF \/ \E d, e \in table : d.id = e.id /\ d # e
           \/ \E e \in verts.shared : e.shared = {}
        THEN Abort(r) ELSE Round(r, "connectivity", new, val)
    BY DEF ColorEntities, table
  <2> HIDE DEF verts
  <2>2. ~(\E d, e \in table : d.id = e.id /\ d # e) /\ ~\E e \in verts.shared : e.shared = {}
    BY <1>6
  <2> QED BY <2>1, <2>2
<1> HIDE DEF verts
<1>8. val = DcrsGives(r, 12)
  <2>1. \A q : q # r => ConnectivityFor(r, q) = CellVertices(r, q)
    BY <1>3, <1>4, FromSharedCells DEF Matched, DcrsBasics
  <2>2. CellVertices(r, r) = {}
    BY DEF CellVertices
  <2> QED BY <2>1, <2>2, DcrsGivesAre
<1>9. DcrsKnowsNext(r, 19)
  <2>1. DOMAIN new = {"vertexColoring"} /\ new["vertexColoring"] = verts
    OBVIOUS
  <2> HIDE DEF new
  <2>2. /\ KnowsNext(r, "vertexColoring", verts) /\ KnowsNext(r, "potentialGhost", PGhost(r))
        /\ KnowsNext(r, "owners", HomeTable(r))
    BY <1>3, <1>4, <1>7, <2>1, KeepIs DEF Round, Shapes
  <2>3. MatchedNext(r)
    BY <1>3, <1>4, <1>7, <2>1, MatchedStay DEF Round
  <2> QED BY <1>6, <2>2, <2>3 DEF DcrsKnowsNext, MatchedNext, DcrsBasicsNext, EdgesHomedNext
<1> HIDE DEF new, val
<1> QED BY <1>2, <1>3, <1>7, <1>8, <1>9, DcrsMoves DEF Looping

-----------------------------------------------------------------------------
(* From the colorings to the index maps *)

LEMMA BySpace ==
    ASSUME NEW x, NEW y, NEW f, f = [s \in Spaces |-> f[s]], f["cells"] = x, f["vertices"] = y
    PROVE  [cells |-> x, vertices |-> y] = f
<1>1. Spaces = {"cells", "vertices"}
  BY DEF Spaces
<1>2. DOMAIN [cells |-> x, vertices |-> y] = {"cells", "vertices"}
  OBVIOUS
<1> QED BY <1>1, <1>2

\* The colorings as they are before remap_shared_entities.
LEMMA ColoredFirst ==
    ASSUME Given, NEW r \in Colors
    PROVE  /\ \A n \in 20..22 : ColoredAs(r, n) = [s \in Spaces |-> Col(r, s)]
           /\ [cells |-> Col(r, "cells"), vertices |-> Col(r, "vertices")] = ColoredAs(r, 20)
           /\ [cells |-> Sizes(Col(r, "cells")), vertices |-> Sizes(Col(r, "vertices"))] = ColSizes(r)
<1>1. \A s \in Spaces : Col(r, s) = [exclusive |-> Col(r, s).exclusive, shared |-> Col(r, s).shared,
                                     ghost |-> Col(r, s).ghost]
  BY ColoringsMatch DEF Entire
<1>2. \A n \in 20..22 : ColoredAs(r, n) = [s \in Spaces |-> Col(r, s)]
  <2> TAKE n \in 20..22
  <2>1. ~(n < 20) /\ ~(n > 22) /\ ~(n > 23) /\ ~(n > 24) /\ ~(n > 25)
    OBVIOUS
  <2>2. ColoredAs(r, n) = [s \in Spaces |->
           [exclusive |-> Col(r, s).exclusive, shared |-> Col(r, s).shared, ghost |-> Col(r, s).ghost]]
    BY <2>1 DEF ColoredAs
  <2> QED BY <1>1, <2>2
<1>3. [cells |-> Col(r, "cells"), vertices |-> Col(r, "vertices")] = ColoredAs(r, 20)
  <2> DEFINE f == [s \in Spaces |-> Col(r, s)]
  <2>1. f = [s \in Spaces |-> f[s]] /\ f["cells"] = Col(r, "cells") /\ f["vertices"] = Col(r, "vertices")
    BY DEF Spaces
  <2>2. ColoredAs(r, 20) = f
    BY <1>2
  <2> HIDE DEF f
  <2> QED BY <2>1, <2>2, BySpace
<1>4. [cells |-> Sizes(Col(r, "cells")), vertices |-> Sizes(Col(r, "vertices"))] = ColSizes(r)
  <2> DEFINE f == [s \in Spaces |-> Sizes(Col(r, s))]
  <2>1. f = [s \in Spaces |-> f[s]] /\ f["cells"] = Sizes(Col(r, "cells")) /\ f["vertices"] = Sizes(Col(r, "vertices"))
    BY DEF Spaces
  <2>2. ColSizes(r) = f
    BY DEF ColSizes
  <2> HIDE DEF f
  <2> QED BY <2>1, <2>2, BySpace
<1> QED BY <1>2, <1>3, <1>4

LEMMA GhostConnectivityMoves ==
    ASSUME IInv, scheme = "dcrs", NEW r \in Colors, GhostConnectivity(r), UNCHANGED <<space, fieldVars>>
    PROVE  IInv'
<1> DEFINE told == UNION {Received(r)[q][r] : q \in Colors}
           new == [ghostCells |-> told]
           cells == mine[r].cellColoring
           verts == mine[r].vertexColoring
<1>1. /\ Gathered(r, "connectivity") /\ Keep(r, new)
      /\ coloring' = [coloring EXCEPT ![r] = [cells |-> cells, vertices |-> verts]]
      /\ Post(r, [cells |-> Sizes(cells), vertices |-> Sizes(verts)])
      /\ pc' = [pc EXCEPT ![r] = "info"]
      /\ Frozen /\ wire' = wire /\ info' = info
      /\ space' = space /\ indexMap' = indexMap /\ rows' = rows /\ ents' = ents
  BY DEF GhostConnectivity, Goto, Frozen, fieldVars
<1>2. \A s : StageOf("connectivity", s) = 19 /\ StageOf("info", s) = 20
  BY StageOfIs
<1>3. /\ pc[r] = "connectivity" /\ DcrsKnows(r, 19) /\ Shapes /\ Given /\ Stage(r) = 19
      /\ \A q \in Colors : Received(r)[q] = DcrsGives(q, 12)
      /\ Calls(19) = 12
  BY <1>1, <1>2, DcrsPlace
<1>4. /\ Matched(r) /\ Knows(r, "potentialGhost", PGhost(r)) /\ Knows(r, "owners", HomeTable(r))
      /\ Knows(r, "vertexColoring", DcrsVertices(r))
  BY <1>3 DEF DcrsKnows, DcrsBasics, EdgesHomed, Matched
<1>5. cells = Col(r, "cells") /\ verts = Col(r, "vertices")
  BY <1>4 DEF Matched, DcrsBasics, Knows, Col
<1>6. told = GhostVertsOf(r)
  <2>1. \A q \in Colors : Received(r)[q][r] = CellVertices(q, r)
    BY <1>3, DcrsGivesAre
  <2>2. {Received(r)[q][r] : q \in Colors} = {CellVertices(q, r) : q \in Colors}
    BY <2>1
  <2> QED BY <1>3, <2>2, ToldOfGhosts
<1> HIDE DEF told, cells, verts
<1>7. DcrsKnowsNext(r, 20)
  <2>1. DOMAIN new = {"ghostCells"} /\ new["ghostCells"] = told
    OBVIOUS
  <2> HIDE DEF new
  <2>2. /\ KnowsNext(r, "vertexColoring", DcrsVertices(r)) /\ KnowsNext(r, "potentialGhost", PGhost(r))
        /\ KnowsNext(r, "owners", HomeTable(r)) /\ KnowsNext(r, "ghostCells", told)
    BY <1>1, <1>3, <1>4, <2>1, KeepIs DEF Shapes
  <2>3. MatchedNext(r)
    BY <1>1, <1>3, <1>4, <2>1, MatchedStay
  <2> QED BY <1>6, <2>2, <2>3 DEF DcrsKnowsNext, MatchedNext, DcrsBasicsNext, EdgesHomedNext
<1>8. coloring'[r] = ColoredAs(r, 20) /\ coloring' = [q \in Colors |-> coloring'[q]]
      /\ \A q \in Colors \ {r} : coloring'[q] = coloring[q]
  BY <1>1, <1>3, <1>5, ColoredFirst, ExceptIs DEF Shapes
<1>9. Situated(r, 19) /\ NothingEarly /\ wire = Messages /\ \A q \in Colors : Stage(q) \in Nat
  BY <1>3, StagesAre DEF IInv, At, Situated
<1>10. /\ posted' = [q \in Colors |-> posted'[q]]
       /\ \A q \in Colors \ {r} : posted'[q] = posted[q]
       /\ posted'[r] = [k \in 1..Calls(20) |-> Gives(r, k)]
  <2>1. Gives(r, 13) = [cells |-> Sizes(cells), vertices |-> Sizes(verts)]
    BY <1>3, <1>5, ColoredFirst, DcrsGivesAre DEF Gives
  <2> DEFINE n == 12
  <2>2. posted[r] = [k \in 1..n |-> Gives(r, k)] /\ Post(r, Gives(r, n + 1)) /\ n \in Nat
    BY <1>1, <1>3, <1>9, <2>1 DEF Situated
  <2>3. Calls(20) = n + 1
    BY <1>3, StagesAre
  <2>4. posted = [q \in Colors |-> posted[q]]
    BY <1>3 DEF Shapes
  <2> HIDE DEF n
  <2> QED BY <2>2, <2>3, <2>4, PostIs
<1>11. mine' = [q \in Colors |-> mine'[q]] /\ \A q \in Colors \ {r} : mine'[q] = mine[q]
  BY <1>1, <1>3, KeepIs DEF Shapes
<1>12. pc' = [q \in Colors |-> pc'[q]] /\ pc'[r] = "info" /\ \A q \in Colors \ {r} : pc'[q] = pc[q]
  BY <1>1, <1>3, ExceptIs DEF Shapes
<1>13. Shapes' /\ OthersStay(r)
  BY <1>1, <1>3, <1>8, <1>10, <1>11, <1>12 DEF Shapes, OthersStay
<1>14. Stage(r)' = 20
  BY <1>2, <1>12 DEF Stage
<1>15. Goes(r, 19, 20)
  BY <1>1, <1>3, <1>13, <1>14, GoesIs
<1>16. Quiet(19, 20)
  <2>1. 19 \in (0..4) \cup (8..21) /\ 19 + 1 = 20
    OBVIOUS
  <2> QED BY <2>1, QuietStages
<1>17. wire' = Messages' /\ NothingEarly'
  BY <1>1, <1>9, <1>15, <1>16, QuietStep, QuietIsNotEarly
<1>18. At(r)'
  <2>1. KnowsAll(r, 20)'
    BY <1>1, <1>7, KnowsThen
  <2>2. 20 \in Stages
    BY <1>3, StagesAre
  <2>3. space'[r] = "cells" /\ space'[r] \in Spaces
    BY <1>1, <1>3, <1>9 DEF Situated, Looping
  <2>4. info'[r] = InfoAt(20)
    BY <1>1, <1>9 DEF Situated, InfoAt
  <2>5. ~(20 > 26) /\ Frozen
    BY <1>1
  <2> QED BY <1>8, <1>10, <1>14, <2>1, <2>2, <2>3, <2>4, <2>5, AtThen
<1> QED BY <1>1, <1>13, <1>15, <1>17, <1>18, Moves

\* A color forgets nothing after the coloring.
LEMMA KnowsLater ==
    ASSUME NEW r, NEW a \in 20..35, NEW b \in 20..35, KnowsAll(r, a)
    PROVE  KnowsAll(r, b)
  BY DEF KnowsAll, ClosureKnows, DcrsKnows

\* From the exchange of sizes on, nothing is posted and nothing is learned.
LEMMA LaterMoves ==
    ASSUME IInv, Frozen, NEW r \in Colors, NEW a \in 20..34, NEW b \in 21..35, a < b,
           Stage(r) = a, Stage(r)' = b, posted' = posted, mine' = mine, Shapes', OthersStay(r),
           space'[r] \in Spaces, pc'[r] \notin Looping => space'[r] = "cells",
           coloring'[r] = ColoredAs(r, b), info'[r] = InfoAt(b),
           b > 26 => /\ indexMap'[r] = [s \in Spaces |-> Local(r, s)]
                     /\ ents'[r] = Exchanged(r, b, 28)
                     /\ rows'[r] = Exchanged(r, b, 32),
           wire' = Messages', NothingEarly',
           a > 20 \/ \A q \in Colors : Stage(q) >= 20
    PROVE  IInv'
<1>1. Given /\ Situated(r, a)
  BY DEF IInv, At
<1>2. Goes(r, a, b)
  BY GoesIs
<1>3. b \in Stages /\ Calls(a) = Calls(b)
  <2>1. a \in 20..35 /\ b \in 20..35
    OBVIOUS
  <2> QED BY <1>1, <2>1, StagesAre DEF Given
<1>4. posted'[r] = [k \in 1..Calls(b) |-> Gives(r, k)]
  BY <1>1, <1>3 DEF Situated
<1>5. KnowsAll(r, b)'
  <2>1. KnowsAll(r, b)
    BY <1>1, KnowsLater DEF Situated
  <2> QED BY <2>1, KnowsStays
<1>6. At(r)'
  BY <1>3, <1>4, <1>5, AtThen
<1> QED BY <1>2, <1>6, Moves

\* What the invariant says of one color.
LEMMA Placed ==
    ASSUME IInv, NEW r \in Colors
    PROVE  /\ Given /\ Shapes /\ NothingEarly /\ wire = Messages
           /\ Situated(r, Stage(r)) /\ Stage(r) \in Stages
           /\ \A q \in Colors : Stage(q) \in Nat
  BY StagesAre DEF IInv, At, Situated

\* The sizes a color was told.
LEMMA SizesAre ==
    ASSUME IInv, NEW r \in Colors, NEW s \in Spaces, Stage(r) > 20
    PROVE  /\ NumExclusive(r, s) = Some(r, s, "exclusive")
           /\ NumShared(r, s) = Some(r, s, "shared")
           /\ NumOwned(r, s) = Held0(r, s)
<1>1. info[r] = InfoAt(Stage(r)) /\ Given
  BY Placed DEF Situated
<1>2. info[r][s][r].sizes = Sizes(Col(r, s))
  BY <1>1 DEF InfoAt
<1>3. DOMAIN Col(r, s) = {"exclusive", "shared", "ghost"}
  BY <1>1, ColoringsMatch DEF Entire
<1>4. /\ Sizes(Col(r, s)).exclusive = Cardinality(Col(r, s).exclusive)
      /\ Sizes(Col(r, s)).shared = Cardinality(Col(r, s).shared)
  BY <1>3 DEF Sizes
<1>5. NumExclusive(r, s) = Some(r, s, "exclusive") /\ NumShared(r, s) = Some(r, s, "shared")
  BY <1>2, <1>4 DEF NumExclusive, NumShared, Some
<1> QED BY <1>5 DEF NumOwned, Held0, Some

LEMMA GatherColoringInfoMoves ==
    ASSUME IInv, NEW r \in Colors, GatherColoringInfo(r), UNCHANGED <<space, fieldVars>>
    PROVE  IInv'
<1> DEFINE told == [s \in Spaces |-> [q \in Colors |->
                   [sizes |-> Received(r)[q][s], shared_users |-> {}, ghost_owners |-> {}]]]
<1>1. /\ Gathered(r, "info") /\ info' = [info EXCEPT ![r] = told] /\ pc' = [pc EXCEPT ![r] = "colored"]
      /\ Frozen /\ posted' = posted /\ wire' = wire /\ mine' = mine /\ coloring' = coloring
      /\ space' = space /\ indexMap' = indexMap /\ rows' = rows /\ ents' = ents
  BY DEF GatherColoringInfo, Goto, Frozen, fieldVars
<1>2. pc[r] = "info" /\ Stage(r) = 20
  BY <1>1, StageOfIs DEF Gathered, Stage
<1>3. Given /\ Shapes /\ NothingEarly /\ wire = Messages /\ Situated(r, 20)
      /\ \A q \in Colors : Stage(q) \in Nat
  BY <1>2, Placed
<1>4. \A q \in Colors : Received(r)[q] = ColSizes(q)
  <2>1. Received(r) = [q \in Colors |-> Gives(q, Calls(20))]
    BY <1>1, <1>2, GatheredIs
  <2>2. \A q \in Colors : Gives(q, Calls(20)) = ColSizes(q)
    <3>1. CASE scheme = "closure"
      <4>1. Calls(20) = 7
        BY <1>3, <3>1, StagesAre
      <4> QED BY <3>1, <4>1 DEF Gives, ClosureGives
    <3>2. CASE scheme = "dcrs"
      <4>1. Calls(20) = 13
        BY <1>3, <3>2, StagesAre
      <4> QED BY <3>2, <4>1, DcrsGivesAre DEF Gives
    <3> QED BY <1>3, <3>1, <3>2 DEF Given
  <2> QED BY <2>1, <2>2
<1>5. told = InfoAt(21)
  <2>1. \A s \in Spaces : \A q \in Colors : Received(r)[q][s] = Sizes(Col(q, s))
    BY <1>4 DEF ColSizes
  <2>2. 21 > 20
    OBVIOUS
  <2> QED BY <2>1, <2>2 DEF InfoAt
<1>6. \A q \in Colors : Stage(q) >= 20
  <2> SUFFICES ASSUME NEW q \in Colors PROVE Stage(q) >= 20
    OBVIOUS
  <2> DEFINE n == Stage(q)
  <2>1. n \in Stages
    BY Placed
  <2>2. Calls(n) >= Calls(20)
    BY <1>1, <1>2, GatheredIs
  <2> HIDE DEF n
  <2>3. CASE scheme = "closure" /\ n \in 0..7
    <3>1. n \in 0..5 \/ n = 6 \/ n = 7
      BY <2>3
    <3> QED BY <1>3, <2>2, <2>3, <3>1, StagesAre
  <2>4. CASE scheme = "dcrs" /\ n \in 8..19
    BY <1>3, <2>2, <2>4, StagesAre
  <2>5. CASE n \in 20..35
    BY <2>5 DEF n
  <2> QED BY <1>3, <2>1, <2>3, <2>4, <2>5, StagesAre
<1> HIDE DEF told
<1>7. /\ info' = [q \in Colors |-> info'[q]] /\ info'[r] = InfoAt(21)
      /\ \A q \in Colors \ {r} : info'[q] = info[q]
  BY <1>1, <1>3, <1>5, ExceptIs DEF Shapes
<1>8. pc' = [q \in Colors |-> pc'[q]] /\ pc'[r] = "colored" /\ \A q \in Colors \ {r} : pc'[q] = pc[q]
  BY <1>1, <1>3, ExceptIs DEF Shapes
<1>9. Shapes' /\ OthersStay(r)
  BY <1>1, <1>3, <1>7, <1>8 DEF Shapes, OthersStay
<1>10. Stage(r)' = 21
  BY <1>8, StageOfIs DEF Stage
<1>11. Goes(r, 20, 21)
  BY <1>1, <1>2, <1>9, <1>10, GoesIs
<1>12. Quiet(20, 21)
  <2>1. 20 \in (0..4) \cup (8..21) /\ 20 + 1 = 21
    OBVIOUS
  <2> QED BY <2>1, QuietStages
<1>13. wire' = Messages' /\ NothingEarly'
  BY <1>1, <1>3, <1>11, <1>12, QuietStep, QuietIsNotEarly
<1>14. coloring'[r] = ColoredAs(r, 21)
  <2>1. coloring[r] = ColoredAs(r, 20)
    BY <1>3 DEF Situated
  <2>2. ColoredAs(r, 20) = ColoredAs(r, 21)
    BY <1>3, ColoredFirst
  <2> QED BY <1>1, <2>1, <2>2
<1>15. space'[r] = "cells" /\ space'[r] \in Spaces
  BY <1>1, <1>2, <1>3 DEF Situated, Looping
<1> DEFINE a == 20
           b == 21
<1>16. a \in 20..34 /\ b \in 21..35 /\ a < b /\ ~(b > 26)
  OBVIOUS
<1>17. /\ Stage(r) = a /\ Stage(r)' = b /\ coloring'[r] = ColoredAs(r, b) /\ info'[r] = InfoAt(b)
       /\ Frozen /\ posted' = posted /\ mine' = mine
  BY <1>1, <1>2, <1>7, <1>10, <1>14
<1> HIDE DEF a, b
<1> QED BY <1>6, <1>9, <1>13, <1>15, <1>16, <1>17, LaterMoves

LEMMA StartRemapMoves ==
    ASSUME IInv, NEW r \in Colors, StartRemap(r)
    PROVE  IInv'
<1>1. /\ pc[r] = "colored" /\ pc' = [pc EXCEPT ![r] = "renumber"]
      /\ Frozen /\ posted' = posted /\ wire' = wire /\ mine' = mine /\ coloring' = coloring
      /\ info' = info /\ space' = space /\ indexMap' = indexMap /\ rows' = rows /\ ents' = ents
  BY DEF StartRemap, Goto, Frozen, fieldVars
<1>2. Stage(r) = 21
  BY <1>1, StageOfIs DEF Stage
<1>3. Given /\ Shapes /\ NothingEarly /\ wire = Messages /\ Situated(r, 21)
      /\ \A q \in Colors : Stage(q) \in Nat
  BY <1>2, Placed
<1>4. pc' = [q \in Colors |-> pc'[q]] /\ pc'[r] = "renumber" /\ \A q \in Colors \ {r} : pc'[q] = pc[q]
  BY <1>1, <1>3, ExceptIs DEF Shapes
<1>5. Shapes' /\ OthersStay(r)
  BY <1>1, <1>3, <1>4 DEF Shapes, OthersStay
<1>6. space[r] = "cells"
  BY <1>1, <1>3 DEF Situated, Looping
<1>7. Stage(r)' = 22
  BY <1>1, <1>4, <1>6, LoopStages DEF Stage
<1>8. Goes(r, 21, 22)
  BY <1>1, <1>2, <1>5, <1>7, GoesIs
<1>9. Quiet(21, 22)
  <2>1. 21 \in (0..4) \cup (8..21) /\ 21 + 1 = 22
    OBVIOUS
  <2> QED BY <2>1, QuietStages
<1>10. wire' = Messages' /\ NothingEarly'
  BY <1>1, <1>3, <1>8, <1>9, QuietStep, QuietIsNotEarly
<1>11. coloring'[r] = ColoredAs(r, 22)
  <2>1. coloring[r] = ColoredAs(r, 21)
    BY <1>3 DEF Situated
  <2>2. ColoredAs(r, 21) = ColoredAs(r, 22)
    BY <1>3, ColoredFirst
  <2> QED BY <1>1, <2>1, <2>2
<1>12. info'[r] = InfoAt(22)
  BY <1>1, <1>3 DEF Situated, InfoAt
<1>13. space'[r] = "cells" /\ space'[r] \in Spaces
  BY <1>1, <1>6 DEF Spaces
<1> DEFINE a == 21
           b == 22
<1>14. a \in 20..34 /\ b \in 21..35 /\ a < b /\ ~(b > 26) /\ a > 20
  OBVIOUS
<1>15. /\ Stage(r) = a /\ Stage(r)' = b /\ coloring'[r] = ColoredAs(r, b) /\ info'[r] = InfoAt(b)
       /\ Frozen /\ posted' = posted /\ mine' = mine
  BY <1>1, <1>2, <1>7, <1>11, <1>12
<1> HIDE DEF a, b
<1> QED BY <1>5, <1>10, <1>13, <1>14, <1>15, LaterMoves

\* The coloring after remap_shared_entities.
LEMMA Remapped ==
    ASSUME Given, NEW r \in Colors, NEW s \in Spaces, NEW n \in 26..35
    PROVE  /\ ColoredAs(r, n)[s] = [exclusive |-> Col(r, s).exclusive, shared |-> Renumbered(r, s),
                                    ghost |-> Located(r, s)]
           /\ ColoredAs(r, n) = ColoredAs(r, 26) /\ InfoAt(n) = InfoAt(26)
<1>1. \A m \in 26..35 : ColoredAs(r, m) = [x \in Spaces |->
         [exclusive |-> Col(r, x).exclusive, shared |-> Renumbered(r, x), ghost |-> Located(r, x)]]
  <2> TAKE m \in 26..35
  <2>1. ~(m < 20) /\ m > 22 /\ m > 24 /\ m > 22 + 1 /\ m > 24 + 1
    OBVIOUS
  <2> QED BY <2>1 DEF ColoredAs
<1>2. 26 \in 26..35 /\ n > 20 /\ 26 > 20
  OBVIOUS
<1> QED BY <1>1, <1>2 DEF InfoAt

LEMMA MapIndicesMoves ==
    ASSUME IInv, NEW r \in Colors, MapIndices(r)
    PROVE  IInv'
<1> DEFINE written(s) == [i \in DOMAIN LocalIds(r, s) |->
                          IF i <= NumOwned(r, s) THEN LocalIds(r, s)[i] ELSE None]
           im == [s \in Spaces |-> LocalIds(r, s)]
           wr == [s \in Spaces |-> written(s)]
<1>1. /\ pc[r] = "map" /\ pc' = [pc EXCEPT ![r] = "send_entities"]
      /\ indexMap' = [indexMap EXCEPT ![r] = im]
      /\ rows' = [rows EXCEPT ![r] = wr] /\ ents' = [ents EXCEPT ![r] = wr]
      /\ Frozen /\ posted' = posted /\ wire' = wire /\ mine' = mine /\ coloring' = coloring
      /\ info' = info /\ space' = space
  BY DEF MapIndices, Goto, Frozen
<1>2. Stage(r) = 26
  BY <1>1, StageOfIs DEF Stage
<1>3. Given /\ Shapes /\ NothingEarly /\ wire = Messages /\ Situated(r, 26)
      /\ \A q \in Colors : Stage(q) \in Nat
  BY <1>2, Placed
<1>4. coloring[r] = ColoredAs(r, 26)
  BY <1>3 DEF Situated
<1>5. \A s \in Spaces : LocalIds(r, s) = Local(r, s)
  <2> TAKE s \in Spaces
  <2>1. 26 \in 26..35
    OBVIOUS
  <2>2. coloring[r][s] = [exclusive |-> Col(r, s).exclusive, shared |-> Renumbered(r, s),
                          ghost |-> Located(r, s)]
    BY <1>3, <1>4, <2>1, Remapped
  <2>3. Ids(Renumbered(r, s)) = Ids(Col(r, s).shared)
    <3>1. SharedLike(Renumbered(r, s), r, s) /\ SharedLike(Col(r, s).shared, r, s)
      BY <1>3, RenumberedIs
    <3> QED BY <3>1, SameIds DEF SharedLike
  <2>4. Ids(Located(r, s)) = Ids(Col(r, s).ghost)
    <3>1. GhostsLike(Located(r, s), r, s) /\ GhostsLike(Col(r, s).ghost, r, s)
      BY <1>3, LocatedIs
    <3> QED BY <3>1, SameIds DEF GhostsLike
  <2> QED BY <2>2, <2>3, <2>4 DEF LocalIds, Local
<1>6. im = [s \in Spaces |-> Local(r, s)]
  BY <1>5
<1>7. wr = Exchanged(r, 27, 28) /\ wr = Exchanged(r, 27, 32)
  <2>1. \A s \in Spaces : written(s) = Written(r, s)
    BY <1>2, <1>5, SizesAre DEF Written
  <2>2. wr = [s \in Spaces |-> Written(r, s)]
    BY <2>1
  <2>3. ~(27 > 28) /\ ~(27 > 28 + 2) /\ ~(27 > 32) /\ ~(27 > 32 + 2)
    OBVIOUS
  <2> HIDE DEF wr
  <2> QED BY <2>2, <2>3 DEF Exchanged, Holds
<1> HIDE DEF im, wr
<1>8. /\ pc' = [q \in Colors |-> pc'[q]] /\ pc'[r] = "send_entities"
      /\ \A q \in Colors \ {r} : pc'[q] = pc[q]
  BY <1>1, <1>3, ExceptIs DEF Shapes
<1>9. /\ indexMap' = [q \in Colors |-> indexMap'[q]] /\ indexMap'[r] = im
      /\ \A q \in Colors \ {r} : indexMap'[q] = indexMap[q]
  BY <1>1, <1>3, ExceptIs DEF Shapes
<1>10. /\ rows' = [q \in Colors |-> rows'[q]] /\ rows'[r] = wr
       /\ \A q \in Colors \ {r} : rows'[q] = rows[q]
  BY <1>1, <1>3, ExceptIs DEF Shapes
<1>11. /\ ents' = [q \in Colors |-> ents'[q]] /\ ents'[r] = wr
       /\ \A q \in Colors \ {r} : ents'[q] = ents[q]
  BY <1>1, <1>3, ExceptIs DEF Shapes
<1>12. Shapes' /\ OthersStay(r)
  BY <1>1, <1>3, <1>8, <1>9, <1>10, <1>11 DEF Shapes, OthersStay
<1>13. space[r] = "cells"
  BY <1>1, <1>3 DEF Situated, Looping
<1>14. Stage(r)' = 27
  BY <1>1, <1>8, <1>13, LoopStages DEF Stage
<1>15. Goes(r, 26, 27)
  BY <1>1, <1>2, <1>12, <1>14, GoesIs
<1>16. Quiet(26, 27)
  <2> SUFFICES ASSUME NEW k \in 1..8
               PROVE  ~(26 <= SentAt[k] /\ SentAt[k] < 27) /\ ~(26 <= TakenAt[k] /\ TakenAt[k] < 27)
    BY DEF Quiet
  <2>1. k \in {1, 2, 3, 4, 5, 6, 7, 8}
    OBVIOUS
  <2> QED BY <2>1 DEF SentAt, TakenAt
<1>17. wire' = Messages' /\ NothingEarly'
  BY <1>1, <1>3, <1>15, <1>16, QuietStep, QuietIsNotEarly
<1>18. coloring'[r] = ColoredAs(r, 27) /\ info'[r] = InfoAt(27)
  <2>1. 27 \in 26..35
    OBVIOUS
  <2>2. ColoredAs(r, 27) = ColoredAs(r, 26) /\ InfoAt(27) = InfoAt(26)
    <3>1. "cells" \in Spaces
      BY DEF Spaces
    <3> QED BY <1>3, <2>1, <3>1, Remapped
  <2> QED BY <1>1, <1>3, <2>2 DEF Situated
<1>19. space'[r] = "cells" /\ space'[r] \in Spaces
  BY <1>1, <1>13 DEF Spaces
<1>20. 26 \in 20..34 /\ 27 \in 21..35 /\ 26 > 20
  OBVIOUS
<1> QED BY <1>1, <1>2, <1>6, <1>7, <1>9, <1>10, <1>11, <1>12, <1>14, <1>17, <1>18, <1>19, <1>20, LaterMoves

-----------------------------------------------------------------------------
(* The collectives of ClosureColoring *)

LEMMA ClosureGivesAre ==
    ASSUME NEW r
    PROVE  /\ ClosureGives(r, 1) = Ordered(Nearest(r))
           /\ ClosureGives(r, 2) = Ordered(Nearest(r))
           /\ ClosureGives(r, 3) = [q \in Colors |-> AnswersTo(r, q, Ordered(Nearest(q)))]
           /\ ClosureGives(r, 4) = Ordered(AllNeighbors(r))
           /\ ClosureGives(r, 5) = [q \in Colors |-> AnswersTo(r, q, Ordered(AllNeighbors(q)))]
           /\ ClosureGives(r, 6) = NeedCounts(r)
           /\ ClosureGives(r, 7) = ColSizes(r)
  BY DEF ClosureGives

\* What a color has got that goes on from a collective.
LEMMA ClosurePlace ==
    ASSUME IInv, scheme = "closure", NEW r \in Colors, NEW at, NEW a \in 0..5,
           \A s : StageOf(at, s) = a, Gathered(r, at)
    PROVE  /\ Stage(r) = a /\ pc[r] = at /\ Given /\ ClosureKnows(r, a) /\ Shapes
           /\ \A q \in Colors : Received(r)[q] = ClosureGives(q, a + 1)
           /\ Received(r) = [q \in Colors |-> ClosureGives(q, a + 1)]
           /\ Calls(a) = a + 1 /\ a \in Stages
<1>1. pc[r] = at /\ Stage(r) = a
  BY DEF Gathered, Stage
<1>2. Given /\ Shapes /\ Situated(r, a)
  BY <1>1 DEF IInv, At
<1>3. ClosureKnows(r, a)
  BY <1>2 DEF Situated, KnowsAll
<1>4. Calls(a) = a + 1 /\ a \in Stages
  <2>1. a \in 0..7
    OBVIOUS
  <2> QED BY <1>2, <2>1, StagesAre
<1>5. Received(r) = [q \in Colors |-> Gives(q, a + 1)]
  BY <1>1, <1>4, GatheredIs
<1>6. \A q \in Colors : Gives(q, a + 1) = ClosureGives(q, a + 1)
  BY DEF Gives
<1> QED BY <1>1, <1>2, <1>3, <1>4, <1>5, <1>6

\* The same of ClosureColoring.
LEMMA ClosureMoves ==
    ASSUME IInv, scheme = "closure", NEW r \in Colors, NEW at, NEW next, NEW new, NEW val,
           NEW a \in 0..4, \A s : StageOf(at, s) = a, \A s : StageOf(next, s) = a + 1,
           at \notin Looping, next \notin Looping, pc[r] = at,
           Round(r, next, new, val), UNCHANGED <<space, fieldVars>>,
           val = ClosureGives(r, a + 2), ClosureKnowsNext(r, a + 1)
    PROVE  IInv'
<1>1. Stage(r) = a
  BY DEF Stage
<1>2. Given
  BY DEF IInv
<1>3. a \in Stages /\ a + 1 \in Stages /\ Calls(a) + 1 = a + 2
  <2>1. a \in 0..7 /\ a + 1 \in 0..7 /\ a \in 0..5
    OBVIOUS
  <2> QED BY <1>2, <2>1, StagesAre
<1>4. val = Gives(r, Calls(a) + 1)
  BY <1>3 DEF Gives
<1>5. a \in (0..4) \cup (8..18) /\ scheme # "dcrs"
  OBVIOUS
<1> QED BY <1>1, <1>3, <1>4, <1>5, RoundMoves

\* The neighbors of a color, as it has them in a list.
LEMMA ListedIs ==
    ASSUME Given, NEW S \in SUBSET Cells
    PROVE  ToSet(Ordered(S)) = S
<1>1. S \subseteq Int /\ IsFiniteSet(S)
  BY SomeCells
<1>2. /\ DOMAIN Ordered(S) = 1..Cardinality(S)
      /\ \A i \in 1..Cardinality(S) : Ordered(S)[i] \in S
      /\ \A x \in S : \E i \in 1..Cardinality(S) : Ordered(S)[i] = x
  BY <1>1, OrderedIs
<1> QED BY <1>2 DEF ToSet

LEMMA GetIntersectionInfoMoves ==
    ASSUME IInv, scheme = "closure", NEW r \in Colors, GetIntersectionInfo(r),
           UNCHANGED <<space, fieldVars>>
    PROVE  IInv'
<1> DEFINE meets == [q \in Colors \ {r} |-> ToSet(Received(r)[q]) \cap Nearest(r)]
           new == [intersections |-> meets]
           val == Ordered(Nearest(r))
<1>1. Gathered(r, "intersection") /\ Round(r, "nn_requests", new, val)
  BY DEF GetIntersectionInfo
<1>2. \A s : StageOf("intersection", s) = 0 /\ StageOf("nn_requests", s) = 1
  BY StageOfIs
<1>3. /\ pc[r] = "intersection" /\ Shapes /\ Given
      /\ \A q \in Colors : Received(r)[q] = ClosureGives(q, 1)
  <2> DEFINE a == 0
  <2>1. a \in 0..5 /\ \A s : StageOf("intersection", s) = a
    BY <1>2
  <2>2. a + 1 = 1
    OBVIOUS
  <2> HIDE DEF a
  <2> QED BY <1>1, <2>1, <2>2, ClosurePlace
<1>4. meets = NearMeets(r)
  <2>1. \A q \in Colors : ToSet(Received(r)[q]) = Nearest(q)
    BY <1>3, ClosureGivesAre, ClosureIs, ListedIs
  <2> QED BY <2>1 DEF NearMeets
<1> HIDE DEF meets
<1>5. val = ClosureGives(r, 2)
  BY ClosureGivesAre
<1>6. ClosureKnowsNext(r, 1)
  <2>1. DOMAIN new = {"intersections"} /\ new["intersections"] = meets
    OBVIOUS
  <2> HIDE DEF new
  <2>2. KnowsNext(r, "intersections", meets)
    BY <1>1, <1>3, <2>1, KeepIs DEF Round, Shapes
  <2> QED BY <1>4, <2>2 DEF ClosureKnowsNext
<1> HIDE DEF new, val
<1> DEFINE a == 0
<1>7. a \in 0..4 /\ a + 1 = 1 /\ a + 2 = 2 /\ \A s : StageOf("intersection", s) = a
  BY <1>2
<1> HIDE DEF a
<1> QED BY <1>1, <1>2, <1>3, <1>5, <1>6, <1>7, ClosureMoves DEF Looping

\* The answers a color gives to the requests it got.
LEMMA AnswersGiven ==
    ASSUME Given, NEW r \in Colors, NEW list,
           \A q \in Colors : Received(r)[q] = list[q]
    PROVE  Answers(r) = [q \in Colors |-> AnswersTo(r, q, list[q])]
  BY DEF Answers, AnswersTo

LEMMA AnswerNearestMoves ==
    ASSUME IInv, scheme = "closure", NEW r \in Colors, AnswerNearest(r),
           UNCHANGED <<space, fieldVars>>
    PROVE  IInv'
<1> DEFINE told == LocalUsers(r)
           new == [users |-> told]
           val == Answers(r)
<1>1. Gathered(r, "nn_requests") /\ Round(r, "nn_answers", new, val)
  BY DEF AnswerNearest
<1>2. \A s : StageOf("nn_requests", s) = 1 /\ StageOf("nn_answers", s) = 2
  BY StageOfIs
<1>3. /\ pc[r] = "nn_requests" /\ Shapes /\ Given /\ ClosureKnows(r, 1)
      /\ \A q \in Colors : Received(r)[q] = ClosureGives(q, 2)
  <2> DEFINE a == 1
  <2>1. a \in 0..5 /\ a + 1 = 2 /\ \A s : StageOf("nn_requests", s) = a
    BY <1>2
  <2> HIDE DEF a
  <2>2. ClosureKnows(r, a) /\ pc[r] = "nn_requests" /\ Shapes /\ Given
        /\ \A q \in Colors : Received(r)[q] = ClosureGives(q, a + 1)
    BY <1>1, <2>1, ClosurePlace
  <2> QED BY <2>1, <2>2 DEF a
<1>4. \A q \in Colors : Received(r)[q] = Ordered(Nearest(q))
  BY <1>3, ClosureGivesAre
<1>5. told = NearUserMap(r)
  <2>1. \A q \in Colors : ToSet(Received(r)[q]) = Nearest(q)
    BY <1>3, <1>4, ClosureIs, ListedIs
  <2>2. \A c : {q \in Colors \ {r} : c \in ToSet(Received(r)[q])} = NearUsers(r, c)
    BY <2>1 DEF NearUsers
  <2> QED BY <2>2 DEF LocalUsers, NearUserMap
<1>6. val = ClosureGives(r, 3)
  <2> DEFINE list == [q \in Colors |-> Ordered(Nearest(q))]
  <2>1. \A q \in Colors : Received(r)[q] = list[q]
    BY <1>4
  <2>2. Answers(r) = [q \in Colors |-> AnswersTo(r, q, list[q])]
    <3> HIDE DEF list
    <3> QED BY <1>3, <2>1, AnswersGiven
  <2> QED BY <2>2, ClosureGivesAre
<1> HIDE DEF told
<1>7. ClosureKnowsNext(r, 2)
  <2>1. DOMAIN new = {"users"} /\ new["users"] = told
    OBVIOUS
  <2> HIDE DEF new
  <2>2. Knows(r, "intersections", NearMeets(r))
    BY <1>3 DEF ClosureKnows
  <2>3. KnowsNext(r, "users", told) /\ KnowsNext(r, "intersections", NearMeets(r))
    BY <1>1, <1>3, <2>1, <2>2, KeepIs DEF Round, Shapes
  <2> QED BY <1>5, <2>3 DEF ClosureKnowsNext
<1> HIDE DEF new, val
<1> DEFINE a == 1
<1>8. a \in 0..4 /\ a + 1 = 2 /\ a + 2 = 3 /\ \A s : StageOf("nn_requests", s) = a
  BY <1>2
<1> HIDE DEF a
<1> QED BY <1>1, <1>2, <1>3, <1>6, <1>7, <1>8, ClosureMoves DEF Looping

LEMMA CollectNearestMoves ==
    ASSUME IInv, scheme = "closure", NEW r \in Colors, CollectNearest(r),
           UNCHANGED <<space, fieldVars>>
    PROVE  IInv'
<1> DEFINE told == RemoteInfo(r, Nearest(r))
           new == [nearest |-> told]
           val == Ordered(AllNeighbors(r))
<1>1. Gathered(r, "nn_answers") /\ Round(r, "all_requests", new, val)
  BY DEF CollectNearest
<1>2. \A s : StageOf("nn_answers", s) = 2 /\ StageOf("all_requests", s) = 3
  BY StageOfIs
<1>3. /\ pc[r] = "nn_answers" /\ Shapes /\ Given /\ ClosureKnows(r, 2)
      /\ \A q \in Colors : Received(r)[q] = ClosureGives(q, 3)
  <2> DEFINE a == 2
  <2>1. a \in 0..5 /\ a + 1 = 3 /\ \A s : StageOf("nn_answers", s) = a
    BY <1>2
  <2> HIDE DEF a
  <2>2. ClosureKnows(r, a) /\ pc[r] = "nn_answers" /\ Shapes /\ Given
        /\ \A q \in Colors : Received(r)[q] = ClosureGives(q, a + 1)
    BY <1>1, <2>1, ClosurePlace
  <2> QED BY <2>1, <2>2 DEF a
<1>4. told = NearCells(r)
  <2>1. \A q \in Colors : Received(r)[q][r] = AnswersTo(q, r, Ordered(Nearest(r)))
    BY <1>3, ClosureGivesAre
  <2>2. Nearest(r) \in SUBSET Cells /\ Nearest(r) \cap Primary(r) = {}
    BY <1>3, ClosureIs
  <2> QED BY <1>3, <2>1, <2>2, AnswersAre DEF NearCells
<1>5. val = ClosureGives(r, 4)
  BY ClosureGivesAre
<1> HIDE DEF told
<1>6. ClosureKnowsNext(r, 3)
  <2>1. DOMAIN new = {"nearest"} /\ new["nearest"] = told
    OBVIOUS
  <2> HIDE DEF new
  <2>2. Knows(r, "intersections", NearMeets(r)) /\ Knows(r, "users", NearUserMap(r))
    BY <1>3 DEF ClosureKnows
  <2>3. KnowsNext(r, "nearest", told) /\ KnowsNext(r, "intersections", NearMeets(r))
        /\ KnowsNext(r, "users", NearUserMap(r))
    BY <1>1, <1>3, <2>1, <2>2, KeepIs DEF Round, Shapes
  <2> QED BY <1>4, <2>3 DEF ClosureKnowsNext
<1> HIDE DEF new, val
<1> DEFINE a == 2
<1>7. a \in 0..4 /\ a + 1 = 3 /\ a + 2 = 4 /\ \A s : StageOf("nn_answers", s) = a
  BY <1>2
<1> HIDE DEF a
<1> QED BY <1>1, <1>2, <1>3, <1>5, <1>6, <1>7, ClosureMoves DEF Looping

LEMMA AnswerAllMoves ==
    ASSUME IInv, scheme = "closure", NEW r \in Colors, AnswerAll(r),
           UNCHANGED <<space, fieldVars>>
    PROVE  IInv'
<1> DEFINE new == mine[r]
           val == Answers(r)
<1>1. Gathered(r, "all_requests") /\ Round(r, "all_answers", new, val)
  BY DEF AnswerAll
<1>2. \A s : StageOf("all_requests", s) = 3 /\ StageOf("all_answers", s) = 4
  BY StageOfIs
<1>3. /\ pc[r] = "all_requests" /\ Shapes /\ Given /\ ClosureKnows(r, 3)
      /\ \A q \in Colors : Received(r)[q] = ClosureGives(q, 4)
  <2> DEFINE a == 3
  <2>1. a \in 0..5 /\ a + 1 = 4 /\ \A s : StageOf("all_requests", s) = a
    BY <1>2
  <2> HIDE DEF a
  <2>2. ClosureKnows(r, a) /\ pc[r] = "all_requests" /\ Shapes /\ Given
        /\ \A q \in Colors : Received(r)[q] = ClosureGives(q, a + 1)
    BY <1>1, <2>1, ClosurePlace
  <2> QED BY <2>1, <2>2 DEF a
<1>4. \A q \in Colors : Received(r)[q] = Ordered(AllNeighbors(q))
  BY <1>3, ClosureGivesAre
<1>5. val = ClosureGives(r, 5)
  <2> DEFINE list == [q \in Colors |-> Ordered(AllNeighbors(q))]
  <2>1. \A q \in Colors : Received(r)[q] = list[q]
    BY <1>4
  <2>2. Answers(r) = [q \in Colors |-> AnswersTo(r, q, list[q])]
    <3> HIDE DEF list
    <3> QED BY <1>3, <2>1, AnswersGiven
  <2> QED BY <2>2, ClosureGivesAre
<1>6. ClosureKnowsNext(r, 4)
  <2>1. /\ Knows(r, "intersections", NearMeets(r)) /\ Knows(r, "users", NearUserMap(r))
        /\ Knows(r, "nearest", NearCells(r))
    BY <1>3 DEF ClosureKnows
  <2>2. \A name \in DOMAIN mine[r] : KnowsNext(r, name, mine[r][name])
    BY <1>1, <1>3, KeepIs DEF Round, Shapes
  <2>3. /\ KnowsNext(r, "intersections", NearMeets(r)) /\ KnowsNext(r, "users", NearUserMap(r))
        /\ KnowsNext(r, "nearest", NearCells(r))
    BY <2>1, <2>2 DEF Knows
  <2> QED BY <2>3 DEF ClosureKnowsNext
<1> HIDE DEF new, val
<1> DEFINE a == 3
<1>7. a \in 0..4 /\ a + 1 = 4 /\ a + 2 = 5 /\ \A s : StageOf("all_requests", s) = a
  BY <1>2
<1> HIDE DEF a
<1> QED BY <1>1, <1>2, <1>3, <1>5, <1>6, <1>7, ClosureMoves DEF Looping

LEMMA ColorVerticesMoves ==
    ASSUME IInv, scheme = "closure", NEW r \in Colors, ColorVertices(r),
           UNCHANGED <<space, fieldVars>>
    PROVE  IInv'
<1> DEFINE remote == RemoteInfo(r, AllNeighbors(r))
           own == OwnVertices(r, remote)
           requests == [q \in Colors |-> IF q = r THEN {} ELSE OwnedBy(q, r, remote)]
           new == [vertices |-> own, requests |-> requests]
           val == [q \in Colors |-> Cardinality(requests[q])]
<1>1. Gathered(r, "all_answers") /\ Round(r, "request_counts", new, val)
  BY DEF ColorVertices
<1>2. \A s : StageOf("all_answers", s) = 4 /\ StageOf("request_counts", s) = 5
  BY StageOfIs
<1>3. /\ pc[r] = "all_answers" /\ Shapes /\ Given /\ ClosureKnows(r, 4)
      /\ \A q \in Colors : Received(r)[q] = ClosureGives(q, 5)
  <2> DEFINE a == 4
  <2>1. a \in 0..5 /\ a + 1 = 5 /\ \A s : StageOf("all_answers", s) = a
    BY <1>2
  <2> HIDE DEF a
  <2>2. ClosureKnows(r, a) /\ pc[r] = "all_answers" /\ Shapes /\ Given
        /\ \A q \in Colors : Received(r)[q] = ClosureGives(q, a + 1)
    BY <1>1, <2>1, ClosurePlace
  <2> QED BY <2>1, <2>2 DEF a
<1>4. remote = KnownCells(AllNeighbors(r))
  <2>1. \A q \in Colors : Received(r)[q][r] = AnswersTo(q, r, Ordered(AllNeighbors(r)))
    BY <1>3, ClosureGivesAre
  <2>2. AllNeighbors(r) \in SUBSET Cells /\ AllNeighbors(r) \cap Primary(r) = {}
    BY <1>3, ClosureIs
  <2> QED BY <1>3, <2>1, <2>2, AnswersAre
<1> HIDE DEF remote
<1>5. \A v \in EntityClosure(r) : MinRank(r, v, remote) = VertexColor(v)
  BY <1>3, <1>4, MinRankIs
<1>6. OwnedBy(r, r, remote) = OwnVerts(r)
  BY <1>5 DEF OwnedBy, OwnVerts
<1>7. /\ Knows(r, "intersections", NearMeets(r)) /\ Knows(r, "users", NearUserMap(r))
      /\ Knows(r, "nearest", NearCells(r))
  BY <1>3 DEF ClosureKnows
<1>8. own = OwnVertices0(r)
  <2>1. \A v \in OwnVerts(r) : Sharers(r, v, remote) = HolderColors(r, v)
    BY <1>3, <1>4, <1>7, SharersAre
  <2> QED BY <1>6, <2>1 DEF OwnVertices, OwnVertices0
<1>9. requests = NeedMap(r)
  <2>1. \A q \in Colors : requests[q] = Needs(r, q)
    BY <1>5 DEF OwnedBy, Needs
  <2> QED BY <2>1 DEF NeedMap
<1> HIDE DEF requests, own
<1>10. val = ClosureGives(r, 6)
  BY <1>9, ClosureGivesAre DEF NeedCounts, NeedMap
<1>11. ClosureKnowsNext(r, 5)
  <2>1. DOMAIN new = {"vertices", "requests"} /\ new["vertices"] = own /\ new["requests"] = requests
    OBVIOUS
  <2> HIDE DEF new
  <2>2. KnowsNext(r, "vertices", own) /\ KnowsNext(r, "requests", requests)
        /\ KnowsNext(r, "intersections", NearMeets(r)) /\ KnowsNext(r, "users", NearUserMap(r))
        /\ KnowsNext(r, "nearest", NearCells(r))
    BY <1>1, <1>3, <1>7, <2>1, KeepIs DEF Round, Shapes
  <2> QED BY <1>8, <1>9, <2>2 DEF ClosureKnowsNext
<1> HIDE DEF new, val
<1> DEFINE a == 4
<1>12. a \in 0..4 /\ a + 1 = 5 /\ a + 2 = 6 /\ \A s : StageOf("all_answers", s) = a
  BY <1>2
<1> HIDE DEF a
<1> QED BY <1>1, <1>2, <1>3, <1>10, <1>11, <1>12, ClosureMoves DEF Looping

-----------------------------------------------------------------------------
(* Steps that send or take messages *)

\* No color sends to itself.
LEMMA SelfIsQuiet ==
    ASSUME Given
    PROVE  NoSelfTalk
<1> SUFFICES ASSUME NEW r \in Colors, NEW k \in 1..8, Talks(k, r, r) PROVE FALSE
  BY DEF NoSelfTalk
<1>1. CASE k = 1 \/ k = 2
  <2>1. Needs(r, r) = {}
    BY DEF Needs
  <2>2. CASE k = 1
    BY <2>1, <2>2 DEF Talks
  <2>3. CASE k = 2
    BY <2>1, <2>3 DEF Talks
  <2> QED BY <1>1, <2>2, <2>3
<1>2. CASE k > 2
  <2> DEFINE s == SpaceOf(k)
  <2>1. s \in Spaces
    BY DEF SpaceOf, Spaces
  <2>2. r \in UsersOf(r, s)
    BY <1>2 DEF Talks
  <2> HIDE DEF s
  <2>3. \A e \in Col(r, s).shared : e.shared \in SUBSET (Colors \ {r})
    BY <2>1, ColoringsMatch DEF Entire
  <2> QED BY <2>2, <2>3 DEF UsersOf
<1> QED BY <1>1, <1>2

\* Whom a color sends to and takes from at each stage.
LEMMA TalkersAre ==
    ASSUME NEW r \in Colors, NEW k \in 1..8
    PROVE  /\ Receivers0(r, SentAt[k]) = {q \in Colors : Talks(k, r, q)}
           /\ Senders0(r, TakenAt[k]) = {q \in Colors : Talks(k, q, r)}
           /\ k # 2 => Senders0(r, SentAt[k]) = {}
           /\ k # 1 => Receivers0(r, TakenAt[k]) = {}
           /\ Past(SentAt[k], SentAt[k] + 1) /\ Past(TakenAt[k], TakenAt[k] + 1)
           /\ SentAt[k] \in Nat /\ TakenAt[k] \in Nat
<1>1. /\ \A j \in 1..8 : SentAt[j] \in Nat /\ TakenAt[j] \in Nat
      /\ \A i, j \in 1..8 : SentAt[i] = SentAt[j] \/ TakenAt[i] = TakenAt[j] => i = j
  BY TimesAre
<1>2. \A i, j \in 1..8 : SentAt[i] = TakenAt[j] => i = 2 /\ j = 1
  <2> SUFFICES ASSUME NEW i \in 1..8, NEW j \in 1..8, SentAt[i] = TakenAt[j] PROVE i = 2 /\ j = 1
    OBVIOUS
  <2>1. i \in {1, 2, 3, 4, 5, 6, 7, 8} /\ j \in {1, 2, 3, 4, 5, 6, 7, 8}
    OBVIOUS
  <2>2. TakenAt[j] \in {6, 7, 23, 25, 28, 30, 32, 34}
    BY <2>1 DEF TakenAt
  <2>3. SentAt[i] = 6 /\ i = 2
    BY <2>1, <2>2 DEF SentAt
  <2> QED BY <2>1, <2>3 DEF TakenAt
<1>3. Receivers0(r, SentAt[k]) = {q \in Colors : Talks(k, r, q)}
  BY <1>1 DEF Receivers0
<1>4. Senders0(r, TakenAt[k]) = {q \in Colors : Talks(k, q, r)}
  BY <1>1 DEF Senders0
<1>5. k # 2 => Senders0(r, SentAt[k]) = {}
  BY <1>2 DEF Senders0
<1>6. k # 1 => Receivers0(r, TakenAt[k]) = {}
  BY <1>2 DEF Receivers0
<1>7. \A a \in Nat : Past(a, a + 1)
  BY <1>1 DEF Past
<1> QED BY <1>1, <1>3, <1>4, <1>5, <1>6, <1>7

\* A step that sends leaves the channels right.
LEMMA SentNow ==
    ASSUME Given, Frozen, NothingEarly, wire = Messages, \A q \in Colors : Stage(q) \in Nat,
           NEW r \in Colors, NEW k \in 1..8, k # 2, NEW b, b = SentAt[k] + 1, Goes(r, SentAt[k], b),
           NEW Tos, Tos = {q \in Colors : Talks(k, r, q)}, NEW Msg, Deliver(r, {}, Tos, Msg),
           \A q \in Tos : Msg[q] = Says(k, r, q)
    PROVE  wire' = Messages' /\ NothingEarly'
<1> DEFINE a == SentAt[k]
<1>1. Receivers0(r, a) = Tos /\ Senders0(r, a) = {} /\ Past(a, b) /\ Goes(r, a, b)
  BY TalkersAre
<1>2. \A j \in 1..8 : SentAt[j] = a => j = k
  BY TimesAre
<1> HIDE DEF a
<1>3. Arrived(r, Senders0(r, a)) /\ NoSelfTalk
  BY <1>1, SelfIsQuiet DEF Arrived
<1>4. \A q \in Receivers0(r, a) : \A j \in 1..8 : SentAt[j] = a => Msg[q] = Says(j, r, q)
  BY <1>1, <1>2
<1>5. wire' = Messages'
  BY <1>1, <1>3, <1>4, DeliverIs
<1>6. NothingEarly'
  BY <1>1, <1>3, TakenIsNotEarly
<1> QED BY <1>5, <1>6

\* A step that takes leaves the channels right.
LEMMA TakenNow ==
    ASSUME Given, Frozen, NothingEarly, wire = Messages, \A q \in Colors : Stage(q) \in Nat,
           NEW r \in Colors, NEW k \in 1..8, k # 1, NEW b, Past(TakenAt[k], b), Goes(r, TakenAt[k], b),
           NEW Froms, Froms = {q \in Colors : Talks(k, q, r)}, NEW Msg, Deliver(r, Froms, {}, Msg),
           Arrived(r, Froms), \A q \in Receivers0(r, TakenAt[k]) : FALSE
    PROVE  wire' = Messages' /\ NothingEarly'
<1> DEFINE a == TakenAt[k]
<1>1. Receivers0(r, a) = {} /\ Senders0(r, a) = Froms /\ Past(a, b) /\ Goes(r, a, b)
  BY TalkersAre
<1> HIDE DEF a
<1>2. Arrived(r, Senders0(r, a)) /\ NoSelfTalk
  BY <1>1, SelfIsQuiet
<1>3. \A q \in Receivers0(r, a) : \A j \in 1..8 : SentAt[j] = a => Msg[q] = Says(j, r, q)
  BY <1>1
<1>4. wire' = Messages'
  BY <1>1, <1>2, <1>3, DeliverIs
<1>5. NothingEarly'
  BY <1>1, <1>2, TakenIsNotEarly
<1> QED BY <1>4, <1>5

-----------------------------------------------------------------------------
(* The offsets of vertices: get_entity_info *)

\* Vertices that one color needs of another are the other's own.
LEMMA NeedsAre ==
    ASSUME Given, NEW q \in Colors, NEW r \in Colors
    PROVE  /\ Needs(q, r) \subseteq Int /\ IsFiniteSet(Needs(q, r))
           /\ OwnVerts(r) \subseteq Int /\ IsFiniteSet(OwnVerts(r))
           /\ Needs(q, r) \subseteq OwnVerts(r)
           /\ (Cardinality(Needs(q, r)) > 0 <=> Needs(q, r) # {})
<1>1. OwnVerts(r) \in SUBSET Vertices /\ Needs(q, r) \in SUBSET OwnVerts(r)
  BY OwnVertsAre
<1>2. Needs(q, r) \in SUBSET Vertices
  BY <1>1
<1>3. IsFiniteSet(Needs(q, r)) /\ Cardinality(Needs(q, r)) \in Nat
  BY <1>2, SomeVertices
<1>4. Cardinality(Needs(q, r)) = 0 <=> Needs(q, r) = {}
  BY <1>3, FS_EmptySet
<1> QED BY <1>1, <1>2, <1>3, <1>4, SomeVertices

\* A step from request to answer and on: nothing is posted.
LEMMA AskingMoves ==
    ASSUME IInv, Frozen, scheme = "closure", NEW r \in Colors, NEW a \in {5, 6}, NEW b, b = a + 1,
           Stage(r) = a, Stage(r)' = b, posted' = posted, coloring' = coloring, info' = info,
           space' = space, pc'[r] \notin Looping, pc[r] \notin Looping,
           Shapes', OthersStay(r), ClosureKnowsNext(r, b), wire' = Messages', NothingEarly'
    PROVE  IInv'
<1>1. Given /\ Situated(r, a)
  BY DEF IInv, At
<1>2. b \in Stages /\ Calls(b) = Calls(a)
  <2>1. CASE a = 5
    <3>1. 5 \in 0..5 /\ b = 6 /\ 6 \in 0..7
      BY <2>1
    <3> QED BY <1>1, <2>1, <3>1, StagesAre
  <2>2. CASE a = 6
    <3>1. b = 7 /\ 7 \in 0..7
      BY <2>2
    <3> QED BY <1>1, <2>2, <3>1, StagesAre
  <2> QED BY <2>1, <2>2
<1>3. KnowsAll(r, b)'
  <2>1. scheme # "dcrs"
    OBVIOUS
  <2> QED BY <2>1, KnowsThen
<1>4. posted'[r] = [k \in 1..Calls(b) |-> Gives(r, k)]
  BY <1>1, <1>2 DEF Situated
<1>5. coloring'[r] = ColoredAs(r, b) /\ info'[r] = InfoAt(b)
  <2>1. coloring[r] = ColoredAs(r, a) /\ info[r] = InfoAt(a)
    BY <1>1 DEF Situated
  <2>2. a < 20 /\ b < 20 /\ ~(a > 20) /\ ~(b > 20)
    OBVIOUS
  <2> QED BY <2>1, <2>2 DEF ColoredAs, InfoAt
<1>6. space'[r] = "cells" /\ space'[r] \in Spaces
  BY <1>1 DEF Situated
<1>7. ~(b > 26) /\ b <= 20 /\ a < b /\ a \in Nat /\ b \in Nat
  OBVIOUS
<1>8. At(r)'
  BY <1>2, <1>3, <1>4, <1>5, <1>6, <1>7, AtThen
<1>9. Goes(r, a, b)
  BY <1>7, GoesIs
<1> QED BY <1>7, <1>8, <1>9, Moves

LEMMA SendRequestsMoves ==
    ASSUME IInv, scheme = "closure", NEW r \in Colors, SendRequests(r), UNCHANGED <<space, fieldVars>>
    PROVE  IInv'
<1> DEFINE told == [q \in Colors |-> Received(r)[q][r]]
           new == [counts |-> told]
           msg == [q \in Colors |-> Ordered(mine[r].requests[q])]
<1>1. /\ Gathered(r, "request_counts") /\ Keep(r, new) /\ Deliver(r, {}, Asking(r), msg)
      /\ pc' = [pc EXCEPT ![r] = "requests"]
      /\ Frozen /\ posted' = posted /\ coloring' = coloring /\ info' = info
      /\ space' = space /\ indexMap' = indexMap /\ rows' = rows /\ ents' = ents
  BY DEF SendRequests, Goto, Frozen, fieldVars
<1>2. \A s : StageOf("request_counts", s) = 5 /\ StageOf("requests", s) = 6
  BY StageOfIs
<1>3. /\ pc[r] = "request_counts" /\ Stage(r) = 5 /\ Shapes /\ Given /\ ClosureKnows(r, 5)
      /\ \A q \in Colors : Received(r)[q] = ClosureGives(q, 6)
  <2> DEFINE a == 5
  <2>1. a \in 0..5 /\ a + 1 = 6 /\ \A s : StageOf("request_counts", s) = a
    BY <1>2
  <2> HIDE DEF a
  <2>2. ClosureKnows(r, a) /\ pc[r] = "request_counts" /\ Shapes /\ Given /\ Stage(r) = a
        /\ \A q \in Colors : Received(r)[q] = ClosureGives(q, a + 1)
    BY <1>1, <2>1, ClosurePlace
  <2> QED BY <2>1, <2>2 DEF a
<1>4. told = CountsFor(r)
  BY <1>3, ClosureGivesAre DEF CountsFor, NeedCounts
<1>5. /\ Knows(r, "intersections", NearMeets(r)) /\ Knows(r, "users", NearUserMap(r))
      /\ Knows(r, "nearest", NearCells(r)) /\ Knows(r, "vertices", OwnVertices0(r))
      /\ Knows(r, "requests", NeedMap(r))
  BY <1>3 DEF ClosureKnows
<1>6. /\ Asking(r) = {q \in Colors : Talks(1, r, q)}
      /\ \A q \in Colors : msg[q] = Says(1, r, q)
  BY <1>5 DEF Asking, Knows, NeedMap, Talks, Says
<1> HIDE DEF told, msg
<1>7. ClosureKnowsNext(r, 6)
  <2>1. DOMAIN new = {"counts"} /\ new["counts"] = told
    OBVIOUS
  <2> HIDE DEF new
  <2>2. /\ KnowsNext(r, "counts", told)
        /\ KnowsNext(r, "intersections", NearMeets(r)) /\ KnowsNext(r, "users", NearUserMap(r))
        /\ KnowsNext(r, "nearest", NearCells(r)) /\ KnowsNext(r, "vertices", OwnVertices0(r))
        /\ KnowsNext(r, "requests", NeedMap(r))
    BY <1>1, <1>3, <1>5, <2>1, KeepIs DEF Shapes
  <2> QED BY <1>4, <2>2 DEF ClosureKnowsNext
<1>8. mine' = [q \in Colors |-> mine'[q]] /\ \A q \in Colors \ {r} : mine'[q] = mine[q]
  BY <1>1, <1>3, KeepIs DEF Shapes
<1>9. pc' = [q \in Colors |-> pc'[q]] /\ pc'[r] = "requests" /\ \A q \in Colors \ {r} : pc'[q] = pc[q]
  BY <1>1, <1>3, ExceptIs DEF Shapes
<1>10. Shapes' /\ OthersStay(r)
  BY <1>1, <1>3, <1>8, <1>9 DEF Shapes, OthersStay
<1>11. Stage(r)' = 6
  BY <1>2, <1>9 DEF Stage
<1>12. Goes(r, 5, 6)
  BY <1>1, <1>3, <1>10, <1>11, GoesIs
<1>13. NothingEarly /\ wire = Messages /\ \A q \in Colors : Stage(q) \in Nat
  BY Placed
<1>14. wire' = Messages' /\ NothingEarly'
  <2> DEFINE k == 1
             b == 6
  <2>1. k \in 1..8 /\ k # 2 /\ b = SentAt[k] + 1 /\ SentAt[k] = 5
    BY DEF SentAt
  <2>2. Goes(r, SentAt[k], b) /\ Asking(r) = {q \in Colors : Talks(k, r, q)}
        /\ \A q \in Asking(r) : msg[q] = Says(k, r, q)
    BY <1>6, <1>12, <2>1
  <2> HIDE DEF k, b
  <2> QED BY <1>1, <1>3, <1>13, <2>1, <2>2, SentNow
<1> DEFINE a == 5
           b == 6
<1>15. a \in {5, 6} /\ b = a + 1 /\ Stage(r) = a /\ Stage(r)' = b /\ ClosureKnowsNext(r, b)
  BY <1>3, <1>7, <1>11
<1> HIDE DEF a, b
<1> QED BY <1>1, <1>3, <1>9, <1>10, <1>14, <1>15, AskingMoves DEF Looping

\* What an owner answers.
LEMMA OffsetsAre ==
    ASSUME Given, NEW r \in Colors, NEW v \in OwnVerts(r)
    PROVE  LET vs == OwnVertices0(r) IN
           (IF \E e \in vs : e.id = v THEN (CHOOSE e \in vs : e.id = v).offset ELSE 0)
           = Position(v, OwnVerts(r))
<1> DEFINE vs == OwnVertices0(r)
           x == CHOOSE e \in vs : e.id = v
<1>1. \A e \in vs : \E w \in OwnVerts(r) : e.id = w /\ e.offset = Position(w, OwnVerts(r))
  BY DEF OwnVertices0, Entity
<1>2. \E e \in vs : e.id = v
  <2> DEFINE w == Entity(v, r, Position(v, OwnVerts(r)), HolderColors(r, v))
  <2>1. w \in vs
    BY DEF OwnVertices0
  <2>2. w.id = v
    BY DEF Entity
  <2> HIDE DEF vs, w
  <2> QED BY <2>1, <2>2
<1> HIDE DEF vs
<1>3. x \in vs /\ x.id = v
  BY <1>2
<1>4. x.offset = Position(v, OwnVerts(r))
  BY <1>1, <1>3
<1> QED BY <1>2, <1>4 DEF vs

LEMMA AnswerRequestsMoves ==
    ASSUME IInv, scheme = "closure", NEW r \in Colors, AnswerRequests(r), UNCHANGED <<space, fieldVars>>
    PROVE  IInv'
<1> DEFINE askers == {q \in Colors : mine[r].counts[q] > 0}
           offset(v) == IF \E e \in mine[r].vertices : e.id = v
                        THEN (CHOOSE e \in mine[r].vertices : e.id = v).offset
                        ELSE 0
           msg == [q \in Colors |->
                      IF q \in askers
                      THEN [i \in DOMAIN Head(wire[q][r]) |-> offset(Head(wire[q][r])[i])]
                      ELSE <<>>]
<1>1. /\ pc[r] = "requests" /\ Arrived(r, askers) /\ Deliver(r, askers, askers, msg)
      /\ pc' = [pc EXCEPT ![r] = "answers"]
      /\ Frozen /\ posted' = posted /\ mine' = mine /\ coloring' = coloring /\ info' = info
      /\ space' = space /\ indexMap' = indexMap /\ rows' = rows /\ ents' = ents
  BY DEF AnswerRequests, Goto, Frozen, fieldVars
<1>2. Stage(r) = 6 /\ \A s : StageOf("answers", s) = 7
  BY <1>1, StageOfIs DEF Stage
<1>3. Given /\ Shapes /\ NothingEarly /\ wire = Messages /\ Situated(r, 6)
      /\ \A q \in Colors : Stage(q) \in Nat
  BY <1>2, Placed
<1>4. ClosureKnows(r, 6)
  BY <1>3 DEF Situated, KnowsAll
<1>5. /\ Knows(r, "intersections", NearMeets(r)) /\ Knows(r, "users", NearUserMap(r))
      /\ Knows(r, "nearest", NearCells(r)) /\ Knows(r, "vertices", OwnVertices0(r))
      /\ Knows(r, "requests", NeedMap(r)) /\ Knows(r, "counts", CountsFor(r))
  BY <1>4 DEF ClosureKnows
<1>6. \A q \in Colors : mine[r].counts[q] = Cardinality(Needs(q, r))
  BY <1>5 DEF Knows, CountsFor
<1>7. askers = {q \in Colors : Talks(1, q, r)} /\ askers = {q \in Colors : Talks(2, r, q)}
  <2>1. \A q \in Colors : mine[r].counts[q] > 0 <=> Needs(q, r) # {}
    BY <1>3, <1>6, NeedsAre
  <2> QED BY <2>1 DEF Talks
<1>8. \A q \in askers : Head(wire[q][r]) = Ordered(Needs(q, r))
  <2> TAKE q \in askers
  <2> DEFINE k == 1
  <2>1. k \in 1..8 /\ Stage(r) = TakenAt[k] /\ Talks(k, q, r) /\ q \in Colors /\ wire[q][r] # <<>>
    BY <1>1, <1>2, <1>7 DEF TakenAt, Arrived
  <2>2. Says(k, q, r) = Ordered(Needs(q, r))
    BY DEF Says
  <2> HIDE DEF k
  <2> QED BY <1>3, <2>1, <2>2, HeadIs
<1>9. \A v \in OwnVerts(r) : offset(v) = Position(v, OwnVerts(r))
  <2>1. mine[r].vertices = OwnVertices0(r)
    BY <1>5 DEF Knows
  <2> QED BY <1>3, <2>1, OffsetsAre
<1> HIDE DEF offset
<1>10. \A q \in askers : msg[q] = Says(2, r, q)
  <2> TAKE q \in askers
  <2> DEFINE list == Ordered(Needs(q, r))
  <2>1. q \in Colors
    OBVIOUS
  <2>2. \A i \in DOMAIN list : list[i] \in OwnVerts(r)
    <3>1. Needs(q, r) \subseteq Int /\ IsFiniteSet(Needs(q, r)) /\ Needs(q, r) \subseteq OwnVerts(r)
      BY <1>3, <2>1, NeedsAre
    <3> QED BY <3>1, OrderedIs
  <2>3. msg[q] = [i \in DOMAIN list |-> offset(list[i])]
    BY <1>8, <2>1
  <2>4. Says(2, r, q) = [i \in DOMAIN list |-> Position(list[i], OwnVerts(r))]
    BY DEF Says
  <2> HIDE DEF list, msg
  <2> QED BY <1>9, <2>2, <2>3, <2>4
<1> HIDE DEF askers, msg
<1>11. pc' = [q \in Colors |-> pc'[q]] /\ pc'[r] = "answers" /\ \A q \in Colors \ {r} : pc'[q] = pc[q]
  BY <1>1, <1>3, ExceptIs DEF Shapes
<1>12. Shapes' /\ OthersStay(r)
  BY <1>1, <1>3, <1>11 DEF Shapes, OthersStay
<1>13. Stage(r)' = 7
  BY <1>2, <1>11 DEF Stage
<1>14. Goes(r, 6, 7)
  BY <1>1, <1>2, <1>12, <1>13, GoesIs
<1>15. wire' = Messages' /\ NothingEarly'
  <2> DEFINE a == 6
             b == 7
  <2>1. /\ Senders0(r, a) = askers /\ Receivers0(r, a) = askers /\ Past(a, b)
        /\ \A k \in 1..8 : SentAt[k] = a => k = 2
    <3> DEFINE one == 1
               two == 2
    <3>1. one \in 1..8 /\ two \in 1..8 /\ TakenAt[one] = a /\ SentAt[two] = a /\ a + 1 = b
      BY DEF TakenAt, SentAt
    <3>2. askers = {q \in Colors : Talks(one, q, r)} /\ askers = {q \in Colors : Talks(two, r, q)}
      BY <1>7
    <3>3. \A k \in 1..8 : SentAt[k] = a => k = two
      BY <3>1, TimesAre
    <3> HIDE DEF a, b, one, two
    <3>4. Senders0(r, a) = askers /\ Receivers0(r, a) = askers /\ Past(a, b)
      BY <3>1, <3>2, TalkersAre
    <3> QED BY <3>3, <3>4 DEF two
  <2>2. Goes(r, a, b)
    BY <1>14
  <2> HIDE DEF a, b
  <2>3. \A q \in Receivers0(r, a) : \A k \in 1..8 : SentAt[k] = a => msg[q] = Says(k, r, q)
    BY <1>10, <2>1
  <2>4. NoSelfTalk
    BY <1>3, SelfIsQuiet
  <2>5. Arrived(r, Senders0(r, a)) /\ Deliver(r, Senders0(r, a), Receivers0(r, a), msg)
    BY <1>1, <2>1
  <2>6. wire' = Messages'
    BY <1>1, <1>3, <2>1, <2>2, <2>3, <2>4, <2>5, DeliverIs
  <2>7. NothingEarly'
    BY <1>1, <1>3, <2>1, <2>2, <2>5, TakenIsNotEarly
  <2> QED BY <2>6, <2>7
<1>16. ClosureKnowsNext(r, 7)
  BY <1>1, <1>5 DEF ClosureKnowsNext, KnowsNext, Knows
<1> DEFINE a == 6
           b == 7
<1>17. a \in {5, 6} /\ b = a + 1 /\ Stage(r) = a /\ Stage(r)' = b /\ ClosureKnowsNext(r, b)
  BY <1>2, <1>13, <1>16
<1> HIDE DEF a, b
<1> QED BY <1>1, <1>11, <1>12, <1>15, <1>17, AskingMoves DEF Looping

\* A color's requests, answered.
LEMMA AnswersInOrder ==
    ASSUME Given, NEW q \in Colors, NEW r \in Colors
    PROVE  LET list == Ordered(Needs(r, q))
               n == Cardinality(Needs(r, q))
           IN  /\ n \in Nat /\ DOMAIN list = 1..n
               /\ DOMAIN Ordered(ToSet(Says(2, q, r))) = 1..n
               /\ \A i \in 1..n : /\ list[i] \in Needs(r, q)
                                  /\ Ordered(ToSet(Says(2, q, r)))[i] = Position(list[i], OwnVerts(q))
               /\ \A v \in Needs(r, q) : \E i \in 1..n : list[i] = v
<1> DEFINE N == Needs(r, q)
           X == OwnVerts(q)
           list == Ordered(N)
           n == Cardinality(N)
           said == [i \in 1..n |-> Position(list[i], X)]
           P == ToSet(said)
<1>1. N \subseteq Int /\ IsFiniteSet(N) /\ X \subseteq Int /\ IsFiniteSet(X) /\ N \subseteq X
  BY NeedsAre
<1> HIDE DEF N, X
<1>2. /\ n \in Nat /\ DOMAIN list = 1..n
      /\ \A i \in 1..n : list[i] \in N
      /\ \A i, j \in 1..n : i < j => list[i] < list[j]
      /\ \A v \in N : \E i \in 1..n : list[i] = v
  <2>1. \A v \in N : Position(v, N) + 1 \in 1..n /\ list[Position(v, N) + 1] = v
    BY <1>1, OrderedIs
  <2>2. \A v \in N : \E i \in 1..n : list[i] = v
    BY <2>1
  <2> QED BY <1>1, <2>2, OrderedIs
<1>3. Says(2, q, r) = said
  BY <1>2 DEF Says, N, X
<1> HIDE DEF list, n
<1>4. /\ \A i \in 1..n : said[i] \in Int
      /\ \A i, j \in 1..n : i < j => said[i] < said[j]
  <2>1. /\ \A v \in X : Position(v, X) \in Nat
        /\ \A v, w \in X : v < w => Position(v, X) < Position(w, X)
    BY <1>1, PositionIs, OrderedIs
  <2>2. \A i \in 1..n : said[i] = Position(list[i], X) /\ list[i] \in X
    BY <1>1, <1>2
  <2> HIDE DEF said
  <2>3. \A i \in 1..n : said[i] \in Int
    BY <2>1, <2>2
  <2>4. \A i, j \in 1..n : i < j => said[i] < said[j]
    BY <1>2, <2>1, <2>2
  <2> QED BY <2>3, <2>4
<1>5. DOMAIN said = 1..n
  OBVIOUS
<1>6. P \subseteq Int /\ IsFiniteSet(P) /\ (\A i \in 1..n : said[i] \in P)
      /\ \A x \in P : \E i \in 1..n : said[i] = x
  <2>1. (\A i \in 1..n : said[i] \in P) /\ \A x \in P : \E i \in 1..n : said[i] = x
    BY <1>5 DEF ToSet
  <2>2. IsFiniteSet(P)
    <3>1. IsFiniteSet(1..n)
      BY <1>2, FS_Interval
    <3>2. said \in Surjection(1..n, P)
      <4> HIDE DEF P
      <4> QED BY <2>1 DEF Surjection
    <3> HIDE DEF said, P
    <3> QED BY <3>1, <3>2, FS_Surjection
  <2>3. \A x \in P : x \in Int
    BY <1>4, <2>1
  <2>4. P \subseteq Int
    BY <2>3
  <2> QED BY <2>1, <2>2, <2>4
<1>7. said = [i \in 1..n |-> said[i]]
  OBVIOUS
<1>8. Ordered(P) = said
  <2>1. /\ \A i \in 1..n : said[i] \in P
        /\ \A i, j \in 1..n : i < j => said[i] < said[j]
        /\ \A x \in P : \E i \in 1..n : said[i] = x
        /\ P \subseteq Int /\ IsFiniteSet(P) /\ n \in Nat /\ said = [i \in 1..n |-> said[i]]
    <3> HIDE DEF said, P
    <3> QED BY <1>2, <1>4, <1>6, <1>7
  <2> HIDE DEF said, P
  <2>2. Lists(said, n, P)
    BY <2>1 DEF Lists
  <2> QED BY <2>2, OrderedIsOnly
<1>9. \A i \in 1..n : said[i] = Position(list[i], X)
  OBVIOUS
<1> HIDE DEF said
<1> QED BY <1>2, <1>3, <1>5, <1>8, <1>9 DEF N, X, list, n

\* The offsets that come back are those of the vertices asked for.
LEMMA GhostVerticesAre ==
    ASSUME Given, NEW r \in Colors, Knows(r, "requests", NeedMap(r)),
           \A q \in Colors : Needs(r, q) # {} => Head(wire[q][r]) = Says(2, q, r)
    PROVE  GhostVertices(r) = ClosureVertices(r).ghost
<1> DEFINE ids(q) == Ordered(mine[r].requests[q])
           offsets(q) == Ordered(ToSet(Head(wire[q][r])))
           E(q, i) == Entity(ids(q)[i], q, IF i \in DOMAIN offsets(q) THEN offsets(q)[i] ELSE None, {})
           V(v) == Entity(v, VertexColor(v), Position(v, OwnVerts(VertexColor(v))), {})
           G == {x \in EntityClosure(r) : VertexColor(x) # r}
<1>1. GhostVertices(r) = UNION {{E(q, i) : i \in DOMAIN ids(q)} : q \in Asking(r)}
  BY DEF GhostVertices
<1>2. \A q \in Colors : mine[r].requests[q] = Needs(r, q)
  BY DEF Knows, NeedMap
<1>3. Asking(r) = {q \in Colors : Needs(r, q) # {}}
  BY <1>2 DEF Asking
<1>4. ClosureVertices(r).ghost = {V(v) : v \in G}
  BY DEF ClosureVertices
<1>5. \A v, q : q \in Colors /\ v \in Needs(r, q) <=> v \in G /\ VertexColor(v) = q
  <2>1. \A v \in G : VertexColor(v) \in Colors
    BY VertexColorIs
  <2> QED BY <2>1 DEF Needs
<1>6. ASSUME NEW q \in Asking(r)
      PROVE  /\ \A i \in DOMAIN ids(q) : ids(q)[i] \in Needs(r, q) /\ E(q, i) = V(ids(q)[i])
             /\ \A v \in Needs(r, q) : \E i \in DOMAIN ids(q) : ids(q)[i] = v
  <2> DEFINE n == Cardinality(Needs(r, q))
             o == offsets(q)
             l == ids(q)
  <2>1. q \in Colors /\ Needs(r, q) # {} /\ Head(wire[q][r]) = Says(2, q, r)
    BY <1>3
  <2>2. l = Ordered(Needs(r, q)) /\ o = Ordered(ToSet(Says(2, q, r)))
    BY <1>2, <2>1
  <2>3. /\ DOMAIN l = 1..n /\ DOMAIN o = 1..n
        /\ \A i \in 1..n : l[i] \in Needs(r, q) /\ o[i] = Position(l[i], OwnVerts(q))
        /\ \A v \in Needs(r, q) : \E i \in 1..n : l[i] = v
    BY <2>1, <2>2, AnswersInOrder
  <2> HIDE DEF n
  <2>4. ASSUME NEW i \in DOMAIN l PROVE l[i] \in Needs(r, q) /\ E(q, i) = V(l[i])
    <3>1. E(q, i) = Entity(l[i], q, IF i \in DOMAIN o THEN o[i] ELSE None, {})
      OBVIOUS
    <3>2. l[i] \in Needs(r, q) /\ o[i] = Position(l[i], OwnVerts(q)) /\ i \in DOMAIN o
      BY <2>3
    <3>3. VertexColor(l[i]) = q
      BY <1>5, <2>1, <3>2
    <3> HIDE DEF E, l, o
    <3> QED BY <3>1, <3>2, <3>3
  <2> HIDE DEF V, E
  <2> QED BY <2>3, <2>4
<1> HIDE DEF E, V, ids, offsets, G
<1>7. \A x \in GhostVertices(r) : x \in ClosureVertices(r).ghost
  BY <1>1, <1>3, <1>4, <1>5, <1>6
<1>8. \A x \in ClosureVertices(r).ghost : x \in GhostVertices(r)
  <2> TAKE x \in ClosureVertices(r).ghost
  <2>1. PICK v \in G : x = V(v)
    BY <1>4
  <2>2. VertexColor(v) \in Asking(r) /\ v \in Needs(r, VertexColor(v))
    BY <1>3, <1>5
  <2>3. PICK i \in DOMAIN ids(VertexColor(v)) : ids(VertexColor(v))[i] = v
    BY <1>6, <2>2
  <2>4. x = E(VertexColor(v), i)
    BY <1>6, <2>1, <2>2, <2>3
  <2> QED BY <1>1, <2>2, <2>3, <2>4
<1> QED BY <1>7, <1>8

\* The cells of add_colorings, exclusive and shared.
LEMMA CellEntitiesAre ==
    ASSUME Given, NEW r \in Colors, Knows(r, "users", NearUserMap(r))
    PROVE  /\ {e \in CellEntities(r) : e.shared = {}} = ClosureCells(r).exclusive
           /\ {e \in CellEntities(r) : e.shared # {}} = ClosureCells(r).shared
<1> DEFINE E(c) == Entity(c, r, Position(c, Primary(r)), mine[r].users[c])
           A(c) == Entity(c, r, OffsetOf(r, c), {})
           B(c) == Entity(c, r, OffsetOf(r, c), NearUsers(r, c))
<1>1. \A c \in Primary(r) : mine[r].users[c] = NearUsers(r, c)
  BY DEF Knows, NearUserMap
<1>2. \A c \in Primary(r) : E(c) = B(c) /\ E(c).shared = NearUsers(r, c)
                            /\ (NearUsers(r, c) = {} => E(c) = A(c))
  BY <1>1 DEF Entity, OffsetOf
<1>3. CellEntities(r) = {E(c) : c \in Primary(r)}
  BY DEF CellEntities
<1>4. /\ ClosureCells(r).exclusive = {A(c) : c \in {x \in Primary(r) : NearUsers(r, x) = {}}}
      /\ ClosureCells(r).shared = {B(c) : c \in {x \in Primary(r) : NearUsers(r, x) # {}}}
  BY DEF ClosureCells
<1> HIDE DEF E, A, B
<1>5. {e \in CellEntities(r) : e.shared = {}} = ClosureCells(r).exclusive
  BY <1>2, <1>3, <1>4
<1>6. {e \in CellEntities(r) : e.shared # {}} = ClosureCells(r).shared
  BY <1>2, <1>3, <1>4
<1> QED BY <1>5, <1>6

LEMMA FinishColoringMoves ==
    ASSUME IInv, scheme = "closure", NEW r \in Colors, FinishColoring(r), UNCHANGED <<space, fieldVars>>
    PROVE  IInv'
<1> DEFINE split(own, ghosts) ==
               [exclusive |-> {e \in own : e.shared = {}},
                shared    |-> {e \in own : e.shared # {}}, ghost |-> ghosts]
           cells == split(CellEntities(r), mine[r].nearest)
           verts == split(mine[r].vertices, GhostVertices(r))
<1>1. /\ pc[r] = "answers" /\ Arrived(r, Asking(r)) /\ Deliver(r, Asking(r), {}, <<>>)
      /\ coloring' = [coloring EXCEPT ![r] = [cells |-> cells, vertices |-> verts]]
      /\ Post(r, [cells |-> Sizes(cells), vertices |-> Sizes(verts)])
      /\ pc' = [pc EXCEPT ![r] = "info"]
      /\ Frozen /\ mine' = mine /\ info' = info
      /\ space' = space /\ indexMap' = indexMap /\ rows' = rows /\ ents' = ents
  BY DEF FinishColoring, Goto, Frozen, fieldVars
<1>2. Stage(r) = 7 /\ \A s : StageOf("info", s) = 20
  BY <1>1, StageOfIs DEF Stage
<1>3. Given /\ Shapes /\ NothingEarly /\ wire = Messages /\ Situated(r, 7)
      /\ \A q \in Colors : Stage(q) \in Nat
  BY <1>2, Placed
<1>4. ClosureKnows(r, 7)
  BY <1>3 DEF Situated, KnowsAll
<1>5. /\ Knows(r, "users", NearUserMap(r))
      /\ Knows(r, "nearest", NearCells(r)) /\ Knows(r, "vertices", OwnVertices0(r))
      /\ Knows(r, "requests", NeedMap(r))
  BY <1>4 DEF ClosureKnows
<1>6. Asking(r) = {q \in Colors : Talks(2, q, r)} /\ Asking(r) = {q \in Colors : Needs(r, q) # {}}
  <2>1. Asking(r) = {q \in Colors : Needs(r, q) # {}}
    BY <1>5 DEF Asking, Knows, NeedMap
  <2> QED BY <2>1 DEF Talks
<1>7. \A q \in Colors : Needs(r, q) # {} => Head(wire[q][r]) = Says(2, q, r)
  <2> SUFFICES ASSUME NEW q \in Colors, Needs(r, q) # {} PROVE Head(wire[q][r]) = Says(2, q, r)
    OBVIOUS
  <2> DEFINE k == 2
  <2>1. k \in 1..8 /\ Stage(r) = TakenAt[k] /\ Talks(k, q, r) /\ wire[q][r] # <<>>
    BY <1>1, <1>2, <1>6 DEF TakenAt, Arrived
  <2>2. Head(wire[q][r]) = Says(k, q, r)
    <3> HIDE DEF k
    <3> QED BY <1>3, <2>1, HeadIs
  <2> QED BY <2>2
<1>8. cells = Col(r, "cells")
  <2>1. /\ {e \in CellEntities(r) : e.shared = {}} = ClosureCells(r).exclusive
        /\ {e \in CellEntities(r) : e.shared # {}} = ClosureCells(r).shared
    BY <1>3, <1>5, CellEntitiesAre
  <2>2. mine[r].nearest = ClosureCells(r).ghost
    BY <1>5 DEF Knows, ClosureCells
  <2>3. Col(r, "cells") = ClosureCells(r)
    BY DEF Col
  <2>4. ClosureCells(r) = [exclusive |-> ClosureCells(r).exclusive,
             shared |-> ClosureCells(r).shared, ghost |-> ClosureCells(r).ghost]
    BY DEF ClosureCells
  <2> QED BY <2>1, <2>2, <2>3, <2>4
<1>9. verts = Col(r, "vertices")
  <2>1. GhostVertices(r) = ClosureVertices(r).ghost
    BY <1>3, <1>5, <1>7, GhostVerticesAre
  <2>2. /\ {e \in mine[r].vertices : e.shared = {}} = ClosureVertices(r).exclusive
        /\ {e \in mine[r].vertices : e.shared # {}} = ClosureVertices(r).shared
    BY <1>5 DEF Knows, ClosureVertices
  <2>3. Col(r, "vertices") = ClosureVertices(r)
    BY DEF Col
  <2>4. ClosureVertices(r) = [exclusive |-> ClosureVertices(r).exclusive,
             shared |-> ClosureVertices(r).shared, ghost |-> ClosureVertices(r).ghost]
    BY DEF ClosureVertices
  <2> QED BY <2>1, <2>2, <2>3, <2>4
<1> HIDE DEF cells, verts
<1>10. coloring'[r] = ColoredAs(r, 20) /\ coloring' = [q \in Colors |-> coloring'[q]]
       /\ \A q \in Colors \ {r} : coloring'[q] = coloring[q]
  BY <1>1, <1>3, <1>8, <1>9, ColoredFirst, ExceptIs DEF Shapes
<1>11. 7 \in 0..7 /\ 20 \in 20..35
  OBVIOUS
<1>12. Calls(7) = 6 /\ Calls(20) = 7 /\ 20 \in Stages
  BY <1>3, <1>11, StagesAre
<1>13. /\ posted' = [q \in Colors |-> posted'[q]]
       /\ \A q \in Colors \ {r} : posted'[q] = posted[q]
       /\ posted'[r] = [k \in 1..Calls(20) |-> Gives(r, k)]
  <2>1. Gives(r, 7) = [cells |-> Sizes(cells), vertices |-> Sizes(verts)]
    BY <1>3, <1>8, <1>9, ColoredFirst, ClosureGivesAre DEF Gives
  <2> DEFINE n == 6
  <2>2. posted[r] = [k \in 1..n |-> Gives(r, k)] /\ Post(r, Gives(r, n + 1)) /\ n \in Nat
        /\ Calls(20) = n + 1
    BY <1>1, <1>3, <1>12, <2>1 DEF Situated
  <2>3. posted = [q \in Colors |-> posted[q]]
    BY <1>3 DEF Shapes
  <2> HIDE DEF n
  <2> QED BY <2>2, <2>3, PostIs
<1>14. pc' = [q \in Colors |-> pc'[q]] /\ pc'[r] = "info" /\ \A q \in Colors \ {r} : pc'[q] = pc[q]
  BY <1>1, <1>3, ExceptIs DEF Shapes
<1>15. Shapes' /\ OthersStay(r)
  BY <1>1, <1>3, <1>10, <1>13, <1>14 DEF Shapes, OthersStay
<1>16. Stage(r)' = 20
  BY <1>2, <1>14 DEF Stage
<1>17. Goes(r, 7, 20)
  BY <1>1, <1>2, <1>15, <1>16, GoesIs
<1>18. wire' = Messages' /\ NothingEarly'
  <2> DEFINE k == 2
             b == 20
  <2>1. k \in 1..8 /\ k # 1 /\ Goes(r, TakenAt[k], b) /\ Asking(r) = {q \in Colors : Talks(k, q, r)}
    BY <1>6, <1>17 DEF TakenAt
  <2>2. Past(TakenAt[k], b)
    <3> SUFFICES ASSUME NEW j \in 1..8
                 PROVE  /\ 7 <= SentAt[j] /\ SentAt[j] < 20 => SentAt[j] = 7
                        /\ 7 <= TakenAt[j] /\ TakenAt[j] < 20 => TakenAt[j] = 7
      BY DEF Past, TakenAt
    <3>1. j \in {1, 2, 3, 4, 5, 6, 7, 8}
      OBVIOUS
    <3>2. SentAt[j] \in {5, 6, 22, 24, 27, 29, 31, 33} /\ TakenAt[j] \in {6, 7, 23, 25, 28, 30, 32, 34}
      BY <3>1 DEF SentAt, TakenAt
    <3> QED BY <3>2
  <2> HIDE DEF k, b
  <2>3. \A q \in Receivers0(r, TakenAt[k]) : FALSE
    BY <2>1, TalkersAre
  <2> QED BY <1>1, <1>3, <2>1, <2>2, <2>3, TakenNow
<1>19. At(r)'
  <2>1. KnowsAll(r, 20)'
    <3>1. KnowsAll(r, 20)
      <4>1. ClosureKnows(r, 20)
        BY <1>4 DEF ClosureKnows
      <4> QED BY <4>1 DEF KnowsAll
    <3> QED BY <1>1, <3>1, KnowsStays
  <2>2. space'[r] = "cells" /\ space'[r] \in Spaces
    BY <1>1, <1>3 DEF Situated, Looping
  <2>3. info'[r] = InfoAt(20)
    BY <1>1, <1>3 DEF Situated, InfoAt
  <2>4. ~(20 > 26) /\ Frozen
    BY <1>1
  <2> QED BY <1>10, <1>12, <1>13, <1>16, <2>1, <2>2, <2>3, <2>4, AtThen
<1> QED BY <1>1, <1>15, <1>17, <1>18, <1>19, Moves

-----------------------------------------------------------------------------
(* The loops over the two index spaces *)

\* The message of a loop, of those whose first is f.
Nth(f, s) == IF s = "cells" THEN f ELSE f + 1

\* The kinds of messages of a loop, one for each index space.
LEMMA NthIs ==
    ASSUME NEW s \in Spaces, NEW f \in {3, 5, 7}
    PROVE  /\ Nth(f, s) \in 1..8 /\ Nth(f, s) \notin {1, 2} /\ SpaceOf(Nth(f, s)) = s
           /\ \A q, r : Talks(Nth(f, s), q, r) <=> r \in UsersOf(q, s)
           /\ \A q, r : Says(Nth(f, s), q, r) = IF f = 3 THEN Numbers(q, r, s) ELSE Traded(q, r, s)
           /\ TakenAt[Nth(f, s)] = SentAt[Nth(f, s)] + 1
           /\ SentAt[Nth(f, s)] = (CASE f = 3 -> 22 [] f = 5 -> 27 [] f = 7 -> 31)
                                  + (IF s = "cells" THEN 0 ELSE 2)
<1>1. s = "cells" \/ s = "vertices"
  BY DEF Spaces
<1>2. Nth(f, s) \in 3..8 /\ SpaceOf(Nth(f, s)) = s
  BY <1>1 DEF Nth, SpaceOf
<1>3. \A q, r : Talks(Nth(f, s), q, r) <=> r \in UsersOf(q, s)
  <2> DEFINE k == Nth(f, s)
  <2>1. k > 2 /\ k # 1 /\ k # 2 /\ SpaceOf(k) = s
    BY <1>2
  <2> HIDE DEF k
  <2>2. \A q, r : Talks(k, q, r) = (r \in UsersOf(q, SpaceOf(k)))
    BY <2>1 DEF Talks
  <2> QED BY <2>1, <2>2 DEF k
<1>4. \A q, r : Says(Nth(f, s), q, r) = IF f = 3 THEN Numbers(q, r, s) ELSE Traded(q, r, s)
  <2>1. CASE f = 3
    <3>1. Nth(f, s) \in {3, 4}
      BY <2>1 DEF Nth
    <3> QED BY <1>2, <2>1, <3>1 DEF Says
  <2>2. CASE f # 3
    <3>1. Nth(f, s) > 4
      BY <2>2 DEF Nth
    <3> QED BY <1>2, <2>2, <3>1 DEF Says
  <2> QED BY <2>1, <2>2
<1>5. SentAt[Nth(f, s)] = (CASE f = 3 -> 22 [] f = 5 -> 27 [] f = 7 -> 31)
                          + (IF s = "cells" THEN 0 ELSE 2)
  BY <1>1 DEF Nth, SentAt
<1>6. TakenAt[Nth(f, s)] = SentAt[Nth(f, s)] + 1
  BY <1>1 DEF Nth, SentAt, TakenAt
<1> QED BY <1>2, <1>3, <1>4, <1>5, <1>6

\* The stages of a loop's sends and receives.
LEMMA LoopPlace ==
    ASSUME NEW r, NEW s \in Spaces, space[r] = s
    PROVE  /\ pc[r] = "renumber" => Stage(r) = SentAt[Nth(3, s)]
           /\ pc[r] = "collect" => Stage(r) = TakenAt[Nth(3, s)]
           /\ pc[r] = "send_entities" => Stage(r) = SentAt[Nth(5, s)]
           /\ pc[r] = "get_entities" => Stage(r) = TakenAt[Nth(5, s)]
           /\ pc[r] = "send_rows" => Stage(r) = SentAt[Nth(7, s)]
           /\ pc[r] = "get_rows" => Stage(r) = TakenAt[Nth(7, s)]
<1>1. s = "cells" \/ s = "vertices"
  BY DEF Spaces
<1> QED BY <1>1, LoopStages DEF Stage, Nth, SentAt, TakenAt

\* A color that has sent waits for the answers, at the same index space.
Waits(at, f) == <<f, at>> \in {<<3, "collect">>, <<5, "get_entities">>, <<7, "get_rows">>}

\* A color goes on from a send.
ToWait(r, s, f, next) ==
    /\ Shapes
    /\ r \in Colors /\ s \in Spaces /\ f \in {3, 5, 7}
    /\ space[r] = s /\ space' = space
    /\ pc' = [pc EXCEPT ![r] = next] /\ Waits(next, f)

\* It then waits for the same index space.
LEMMA AfterSending ==
    ASSUME NEW r, NEW s, NEW f, NEW next, ToWait(r, s, f, next)
    PROVE  /\ pc' = [q \in Colors |-> pc'[q]] /\ \A q \in Colors \ {r} : pc'[q] = pc[q]
           /\ space' = [q \in Colors |-> space'[q]] /\ \A q \in Colors \ {r} : space'[q] = space[q]
           /\ Stage(r)' = TakenAt[Nth(f, s)]
           /\ space'[r] \in Spaces /\ (pc'[r] \notin Looping => space'[r] = "cells")
<1>0. /\ Shapes /\ r \in Colors /\ s \in Spaces /\ f \in {3, 5, 7} /\ space[r] = s /\ space' = space
      /\ pc' = [pc EXCEPT ![r] = next] /\ Waits(next, f)
  BY DEF ToWait
<1>1. next \in Looping /\ StageOf(next, s) = TakenAt[Nth(f, s)]
  <2>1. s = "cells" \/ s = "vertices"
    BY <1>0 DEF Spaces
  <2> QED BY <1>0, <2>1, LoopStages DEF Waits, Looping, Nth, TakenAt
<1>2. pc' = [q \in Colors |-> pc'[q]] /\ pc'[r] = next /\ \A q \in Colors \ {r} : pc'[q] = pc[q]
  <2>1. pc = [q \in Colors |-> pc[q]] /\ pc' = [pc EXCEPT ![r] = next]
    BY <1>0 DEF Shapes
  <2> QED BY ONLY <1>0, <2>1, ExceptIs
<1>3. Stage(r)' = StageOf(next, s)
  BY <1>0, <1>2 DEF Stage
<1> QED BY <1>0, <1>1, <1>2, <1>3 DEF Shapes, Spaces

\* A color that has taken goes to the other index space, or past the loop.
LEMMA AfterTaking ==
    ASSUME Shapes, NEW r \in Colors, NEW s \in Spaces, space[r] = s, NEW f \in {3, 5, 7},
           NextSpace(r, CASE f = 3 -> "renumber" [] f = 5 -> "send_entities" [] f = 7 -> "send_rows",
                        CASE f = 3 -> "map" [] f = 5 -> "send_rows" [] f = 7 -> "done")
    PROVE  /\ pc' = [q \in Colors |-> pc'[q]] /\ \A q \in Colors \ {r} : pc'[q] = pc[q]
           /\ space' = [q \in Colors |-> space'[q]] /\ \A q \in Colors \ {r} : space'[q] = space[q]
           /\ Stage(r)' = TakenAt[Nth(f, s)] + 1
           /\ space'[r] \in Spaces /\ (pc'[r] \notin Looping => space'[r] = "cells")
<1> DEFINE again == CASE f = 3 -> "renumber" [] f = 5 -> "send_entities" [] f = 7 -> "send_rows"
           after == CASE f = 3 -> "map" [] f = 5 -> "send_rows" [] f = 7 -> "done"
           next == IF s = "cells" THEN again ELSE after
           other == IF s = "cells" THEN "vertices" ELSE "cells"
<1>1. s = "cells" \/ s = "vertices"
  BY DEF Spaces
<1>2. /\ StageOf(next, other) = TakenAt[Nth(f, s)] + 1
      /\ other \in Spaces /\ (next \notin Looping => other = "cells")
  <2>1. CASE s = "cells"
    <3>1. next = again /\ other = "vertices" /\ again \in Looping
      BY <2>1 DEF Looping
    <3>2. StageOf(again, "vertices") = TakenAt[f] + 1
      BY LoopStages DEF TakenAt
    <3> QED BY <2>1, <3>1, <3>2 DEF Nth, Spaces
  <2>2. CASE s = "vertices"
    <3>1. next = after /\ other = "cells"
      BY <2>2
    <3>2. StageOf(after, "cells") = TakenAt[f + 1] + 1
      BY LoopStages, StageOfIs DEF TakenAt
    <3> QED BY <2>2, <3>1, <3>2 DEF Nth, Spaces
  <2> QED BY <1>1, <2>1, <2>2
<1>3. pc' = [pc EXCEPT ![r] = next] /\ space' = [space EXCEPT ![r] = other]
  BY DEF NextSpace, Goto
<1> HIDE DEF next, other
<1>4. /\ pc' = [q \in Colors |-> pc'[q]] /\ pc'[r] = next /\ \A q \in Colors \ {r} : pc'[q] = pc[q]
      /\ space' = [q \in Colors |-> space'[q]] /\ space'[r] = other
      /\ \A q \in Colors \ {r} : space'[q] = space[q]
  BY <1>3, ExceptIs DEF Shapes
<1>5. Stage(r)' = StageOf(next, other)
  BY <1>4 DEF Stage
<1> QED BY <1>2, <1>4, <1>5

-----------------------------------------------------------------------------
(* remap_shared_entities *)

WithShared(col, s, E) == [col EXCEPT ![s].shared = E]
WithGhosts(col, s, E) == [col EXCEPT ![s].ghost = E]

\* The colorings around a message of the first loop.
LEMMA ColoredThen ==
    ASSUME Given, NEW r \in Colors, NEW s \in Spaces, NEW a, a = SentAt[Nth(3, s)]
    PROVE  /\ ColoredAs(r, a)[s].shared = Col(r, s).shared
           /\ ColoredAs(r, a)[s].ghost = Col(r, s).ghost
           /\ ColoredAs(r, a + 1) = WithShared(ColoredAs(r, a), s, Renumbered(r, s))
           /\ ColoredAs(r, a + 1)[s].ghost = Col(r, s).ghost
           /\ ColoredAs(r, a + 2) = WithGhosts(ColoredAs(r, a + 1), s, Located(r, s))
<1> DEFINE made(x, sh, gh) == [exclusive |-> Col(r, x).exclusive,
                               shared |-> IF sh THEN Renumbered(r, x) ELSE Col(r, x).shared,
                               ghost |-> IF gh THEN Located(r, x) ELSE Col(r, x).ghost]
           C(n) == ColoredAs(r, n)
<1>0. a = IF s = "cells" THEN 22 ELSE 24
  <2>1. 3 \in {3, 5, 7}
    OBVIOUS
  <2> QED BY <2>1, NthIs
<1>1. Spaces = {"cells", "vertices"}
  BY DEF Spaces
<1>2. ASSUME NEW n \in 22..26
      PROVE  /\ C(n) = [x \in Spaces |-> C(n)[x]]
             /\ C(n)["cells"] = made("cells", n > 22, n > 23)
             /\ C(n)["vertices"] = made("vertices", n > 24, n > 25)
  <2>1. ~(n < 20)
    OBVIOUS
  <2>2. C(n) = [x \in Spaces |-> C(n)[x]]
    BY DEF ColoredAs
  <2>3. C(n)["cells"] = made("cells", n > 22, n > 22 + 1)
    BY <1>1, <2>1 DEF ColoredAs
  <2>4. C(n)["vertices"] = made("vertices", n > 24, n > 24 + 1)
    BY <1>1, <2>1 DEF ColoredAs
  <2> QED BY <2>2, <2>3, <2>4
<1>3. \A x : [made(x, FALSE, FALSE) EXCEPT !.shared = Renumbered(r, x)] = made(x, TRUE, FALSE)
  OBVIOUS
<1>4. \A x : [made(x, TRUE, FALSE) EXCEPT !.ghost = Located(r, x)] = made(x, TRUE, TRUE)
  OBVIOUS
<1>5. \A x : /\ made(x, FALSE, FALSE).shared = Col(r, x).shared
             /\ made(x, FALSE, FALSE).ghost = Col(r, x).ghost
             /\ made(x, TRUE, FALSE).ghost = Col(r, x).ghost
  OBVIOUS
<1> HIDE DEF made, C
<1> DEFINE Goal == /\ C(a)[s].shared = Col(r, s).shared
                   /\ C(a)[s].ghost = Col(r, s).ghost
                   /\ C(a + 1) = [C(a) EXCEPT ![s].shared = Renumbered(r, s)]
                   /\ C(a + 1)[s].ghost = Col(r, s).ghost
                   /\ C(a + 2) = [C(a + 1) EXCEPT ![s].ghost = Located(r, s)]
<1>6. ASSUME s = "cells" PROVE Goal
  <2>1. a = 22 /\ a + 1 = 23 /\ a + 2 = 24
    BY <1>0, <1>6
  <2>2. /\ C(22)["cells"] = made("cells", FALSE, FALSE) /\ C(23)["cells"] = made("cells", TRUE, FALSE)
        /\ C(24)["cells"] = made("cells", TRUE, TRUE)
        /\ C(22)["vertices"] = C(23)["vertices"] /\ C(23)["vertices"] = C(24)["vertices"]
    <3>1. 22 \in 22..26 /\ 23 \in 22..26 /\ 24 \in 22..26
      OBVIOUS
    <3>2. /\ (22 > 22) = FALSE /\ (22 > 23) = FALSE /\ (23 > 22) = TRUE /\ (23 > 23) = FALSE
          /\ (24 > 22) = TRUE /\ (24 > 23) = TRUE
          /\ (22 > 24) = FALSE /\ (22 > 25) = FALSE /\ (23 > 24) = FALSE /\ (23 > 25) = FALSE
          /\ (24 > 24) = FALSE /\ (24 > 25) = FALSE
      OBVIOUS
    <3>3. /\ C(22)["cells"] = made("cells", FALSE, FALSE) /\ C(22)["vertices"] = made("vertices", FALSE, FALSE)
          /\ C(23)["cells"] = made("cells", TRUE, FALSE) /\ C(23)["vertices"] = made("vertices", FALSE, FALSE)
          /\ C(24)["cells"] = made("cells", TRUE, TRUE) /\ C(24)["vertices"] = made("vertices", FALSE, FALSE)
      BY <1>2, <3>1, <3>2
    <3> QED BY <3>3
  <2>3. \A n \in 22..26 : C(n) = [x \in Spaces |-> C(n)[x]]
    BY <1>2
  <2>4. C(22) = [x \in Spaces |-> C(22)[x]] /\ C(23) = [x \in Spaces |-> C(23)[x]]
        /\ C(24) = [x \in Spaces |-> C(24)[x]]
    BY <2>3
  <2>5. C(23) = [C(22) EXCEPT !["cells"].shared = Renumbered(r, "cells")]
    BY <1>1, <1>3, <2>2, <2>4
  <2>6. C(24) = [C(23) EXCEPT !["cells"].ghost = Located(r, "cells")]
    BY <1>1, <1>4, <2>2, <2>4
  <2>7. C(a) = C(22) /\ C(a + 1) = C(23) /\ C(a + 2) = C(24)
    BY <2>1
  <2>8. C(a)[s].shared = Col(r, s).shared /\ C(a)[s].ghost = Col(r, s).ghost
    BY <1>5, <1>6, <2>2, <2>7
  <2>9. C(a + 1)[s].ghost = Col(r, s).ghost
    BY <1>5, <1>6, <2>2, <2>7
  <2>10. C(a + 1) = [C(a) EXCEPT ![s].shared = Renumbered(r, s)]
    BY <1>6, <2>5, <2>7
  <2>11. C(a + 2) = [C(a + 1) EXCEPT ![s].ghost = Located(r, s)]
    BY <1>6, <2>6, <2>7
  <2> QED BY <2>8, <2>9, <2>10, <2>11
<1>7. ASSUME s = "vertices" PROVE Goal
  <2>1. a = 24 /\ a + 1 = 25 /\ a + 2 = 26
    BY <1>0, <1>7
  <2>2. /\ C(24)["vertices"] = made("vertices", FALSE, FALSE) /\ C(25)["vertices"] = made("vertices", TRUE, FALSE)
        /\ C(26)["vertices"] = made("vertices", TRUE, TRUE)
        /\ C(24)["cells"] = C(25)["cells"] /\ C(25)["cells"] = C(26)["cells"]
    <3>1. 24 \in 22..26 /\ 25 \in 22..26 /\ 26 \in 22..26
      OBVIOUS
    <3>2. /\ (24 > 24) = FALSE /\ (24 > 25) = FALSE /\ (25 > 24) = TRUE /\ (25 > 25) = FALSE
          /\ (26 > 24) = TRUE /\ (26 > 25) = TRUE
          /\ (24 > 22) = TRUE /\ (24 > 23) = TRUE /\ (25 > 22) = TRUE /\ (25 > 23) = TRUE
          /\ (26 > 22) = TRUE /\ (26 > 23) = TRUE
      OBVIOUS
    <3>3. /\ C(24)["vertices"] = made("vertices", FALSE, FALSE) /\ C(24)["cells"] = made("cells", TRUE, TRUE)
          /\ C(25)["vertices"] = made("vertices", TRUE, FALSE) /\ C(25)["cells"] = made("cells", TRUE, TRUE)
          /\ C(26)["vertices"] = made("vertices", TRUE, TRUE) /\ C(26)["cells"] = made("cells", TRUE, TRUE)
      BY <1>2, <3>1, <3>2
    <3> QED BY <3>3
  <2>3. \A n \in 22..26 : C(n) = [x \in Spaces |-> C(n)[x]]
    BY <1>2
  <2>4. C(24) = [x \in Spaces |-> C(24)[x]] /\ C(25) = [x \in Spaces |-> C(25)[x]]
        /\ C(26) = [x \in Spaces |-> C(26)[x]]
    BY <2>3
  <2>5. C(25) = [C(24) EXCEPT !["vertices"].shared = Renumbered(r, "vertices")]
    BY <1>1, <1>3, <2>2, <2>4
  <2>6. C(26) = [C(25) EXCEPT !["vertices"].ghost = Located(r, "vertices")]
    BY <1>1, <1>4, <2>2, <2>4
  <2>7. C(a) = C(24) /\ C(a + 1) = C(25) /\ C(a + 2) = C(26)
    BY <2>1
  <2>8. C(a)[s].shared = Col(r, s).shared /\ C(a)[s].ghost = Col(r, s).ghost
    BY <1>5, <1>7, <2>2, <2>7
  <2>9. C(a + 1)[s].ghost = Col(r, s).ghost
    BY <1>5, <1>7, <2>2, <2>7
  <2>10. C(a + 1) = [C(a) EXCEPT ![s].shared = Renumbered(r, s)]
    BY <1>7, <2>5, <2>7
  <2>11. C(a + 2) = [C(a + 1) EXCEPT ![s].ghost = Located(r, s)]
    BY <1>7, <2>6, <2>7
  <2> QED BY <2>8, <2>9, <2>10, <2>11
<1> QED BY <1>1, <1>6, <1>7 DEF C, WithShared, WithGhosts

\* Nobody is its own user or owner.
LEMMA UsersAre ==
    ASSUME Given, NEW r \in Colors, NEW s \in Spaces
    PROVE  /\ UsersOf(r, s) \in SUBSET (Colors \ {r})
           /\ {g.rank : g \in Col(r, s).ghost} = {q \in Colors : r \in UsersOf(q, s)}
           /\ r \notin {g.rank : g \in Col(r, s).ghost}
<1>1. /\ \A e \in Col(r, s).shared : e.shared \in SUBSET (Colors \ {r})
      /\ \A g \in Col(r, s).ghost : g.rank \in Colors \ {r}
  BY ColoringsMatch DEF Entire
<1>2. \A q \in Colors : r \in UsersOf(q, s) <=> \E g \in Col(r, s).ghost : g.rank = q
  BY TradedIs
<1> QED BY <1>1, <1>2 DEF UsersOf

LEMMA RenumberSharedMoves ==
    ASSUME IInv, NEW r \in Colors, RenumberShared(r, space[r])
    PROVE  IInv'
<1> DEFINE s == space[r]
           a == SentAt[Nth(3, s)]
           list == Shared(r, s)
           renumbered == {[list[i] EXCEPT !.offset = i - 1] : i \in DOMAIN list}
           msg == [q \in Colors |-> [k \in DOMAIN UsedBy(q, list) |-> UsedBy(q, list)[k] - 1]]
<1>1. /\ pc[r] = "renumber"
      /\ IF r \in Users(r, s) \cup Owners(r, s) THEN Abort(r) /\ UNCHANGED space
         ELSE /\ coloring' = [coloring EXCEPT ![r][s].shared = renumbered]
              /\ Deliver(r, {}, Users(r, s), msg)
              /\ Goto(r, "collect")
              /\ UNCHANGED <<space, mesh, part, scheme, posted, mine, info>>
      /\ UNCHANGED fieldVars
  BY DEF RenumberShared
<1>2. space[r] \in Spaces
  BY Placed DEF Situated
<1> HIDE DEF s
<1>3. s \in Spaces /\ space[r] = s /\ Stage(r) = a
  <2>1. s \in Spaces /\ space[r] = s
    BY <1>2 DEF s
  <2> QED BY <1>1, <2>1, LoopPlace
<1> HIDE DEF a
<1>4. Given /\ Shapes /\ NothingEarly /\ wire = Messages /\ Situated(r, a)
      /\ \A q \in Colors : Stage(q) \in Nat
  BY <1>3, Placed
<1>5. a \in {22, 24}
  <2>1. 3 \in {3, 5, 7}
    OBVIOUS
  <2> QED BY <1>3, <2>1, NthIs DEF a
<1>6. /\ coloring[r] = ColoredAs(r, a)
      /\ coloring[r][s].shared = Col(r, s).shared /\ coloring[r][s].ghost = Col(r, s).ghost
      /\ ColoredAs(r, a + 1) = WithShared(coloring[r], s, Renumbered(r, s))
  <2>1. a = SentAt[Nth(3, s)] /\ coloring[r] = ColoredAs(r, a)
    BY <1>4 DEF a, Situated
  <2>2. /\ ColoredAs(r, a)[s].shared = Col(r, s).shared
        /\ ColoredAs(r, a)[s].ghost = Col(r, s).ghost
        /\ ColoredAs(r, a + 1) = WithShared(ColoredAs(r, a), s, Renumbered(r, s))
    BY ONLY <1>3, <1>4, <2>1, r \in Colors, ColoredThen
  <2> QED BY <2>1, <2>2
<1>7. Users(r, s) = UsersOf(r, s) /\ Owners(r, s) = {g.rank : g \in Col(r, s).ghost}
  BY <1>6 DEF Users, UsersOf, Owners
<1>8. r \notin Users(r, s) \cup Owners(r, s)
  BY <1>3, <1>4, <1>7, UsersAre
<1>9. /\ coloring' = [coloring EXCEPT ![r][s].shared = renumbered]
      /\ Deliver(r, {}, Users(r, s), msg)
      /\ pc' = [pc EXCEPT ![r] = "collect"]
      /\ Frozen /\ space' = space /\ posted' = posted /\ mine' = mine /\ info' = info
      /\ indexMap' = indexMap /\ rows' = rows /\ ents' = ents
  BY <1>1, <1>8 DEF Goto, Frozen, fieldVars
<1>10. list = ById(Col(r, s).shared)
  BY <1>6 DEF Shared
<1>11. renumbered = Renumbered(r, s)
  BY <1>3, <1>4, <1>10, RenumberedIs
<1>12. \A q \in Colors : msg[q] = Numbers(r, q, s)
  BY <1>3, <1>4, <1>10, NumbersAre
<1> HIDE DEF list, renumbered, msg
<1>13. coloring'[r] = ColoredAs(r, a + 1)
  <2>1. ColoredAs(r, a + 1) = WithShared(coloring[r], s, Renumbered(r, s))
    BY <1>6
  <2>2. coloring = [q \in Colors |-> coloring[q]]
    BY <1>4 DEF Shapes
  <2>3. coloring'[r] = WithShared(coloring[r], s, renumbered)
    BY <1>9, <2>2 DEF WithShared
  <2> QED BY <1>11, <2>1, <2>3
<1>14. coloring' = [q \in Colors |-> coloring'[q]] /\ \A q \in Colors \ {r} : coloring'[q] = coloring[q]
  <2>1. coloring = [q \in Colors |-> coloring[q]]
    BY <1>4 DEF Shapes
  <2> QED BY <1>9, <2>1
<1> DEFINE b == a + 1
<1>15. /\ pc' = [q \in Colors |-> pc'[q]] /\ \A q \in Colors \ {r} : pc'[q] = pc[q]
       /\ space' = [q \in Colors |-> space'[q]] /\ \A q \in Colors \ {r} : space'[q] = space[q]
       /\ Stage(r)' = b
       /\ space'[r] \in Spaces /\ (pc'[r] \notin Looping => space'[r] = "cells")
  <2> DEFINE f == 3
             next == "collect"
  <2>1. /\ f \in {3, 5, 7} /\ b = SentAt[Nth(f, s)] + 1
        /\ Waits(next, f) /\ pc' = [pc EXCEPT ![r] = next]
    BY <1>9 DEF a, Waits
  <2>2. Shapes /\ s \in Spaces /\ space[r] = s /\ space' = space
    BY <1>3, <1>4, <1>9
  <2>6. ToWait(r, s, f, next)
    BY <2>1, <2>2 DEF ToWait
  <2> HIDE DEF f, b, next
  <2>3. Stage(r)' = TakenAt[Nth(f, s)]
    BY ONLY <2>6, AfterSending
  <2>4. /\ pc' = [q \in Colors |-> pc'[q]] /\ \A q \in Colors \ {r} : pc'[q] = pc[q]
        /\ space' = [q \in Colors |-> space'[q]] /\ \A q \in Colors \ {r} : space'[q] = space[q]
        /\ space'[r] \in Spaces /\ (pc'[r] \notin Looping => space'[r] = "cells")
    BY ONLY <2>6, AfterSending
  <2>5. b = TakenAt[Nth(f, s)]
    BY <1>3, <2>1, NthIs
  <2> QED BY <2>3, <2>4, <2>5
<1>16. Shapes' /\ OthersStay(r)
  BY <1>4, <1>9, <1>14, <1>15 DEF Shapes, OthersStay
<1>17. a \in 20..34 /\ b \in 21..35 /\ a < b /\ a > 20 /\ ~(b > 26) /\ b > 20 /\ a \in Nat /\ b \in Nat
  BY <1>5
<1>18. info'[r] = InfoAt(b)
  BY <1>4, <1>9, <1>17 DEF Situated, InfoAt
<1> HIDE DEF b
<1>19. Goes(r, a, b)
  BY <1>3, <1>9, <1>15, <1>16, <1>17, GoesIs
<1>20. wire' = Messages' /\ NothingEarly'
  <2> DEFINE f == 3
             k == Nth(f, s)
  <2>1. f \in {3, 5, 7} /\ a = SentAt[Nth(f, s)]
    BY DEF a
  <2> HIDE DEF f
  <2>2. /\ k \in 1..8 /\ k # 2 /\ b = SentAt[k] + 1 /\ Goes(r, SentAt[k], b)
        /\ \A q : Talks(k, r, q) <=> q \in UsersOf(r, s)
    BY <1>3, <1>19, <2>1, NthIs DEF b
  <2>3. \A q : Says(k, r, q) = Numbers(r, q, s)
    BY <1>3, <2>1, NthIs DEF f
  <2> HIDE DEF k
  <2>4. Users(r, s) = {q \in Colors : Talks(k, r, q)}
    BY <1>3, <1>4, <1>7, <2>2, UsersAre
  <2>5. \A q \in Users(r, s) : msg[q] = Says(k, r, q)
    BY <1>12, <2>3, <2>4
  <2> QED BY <1>4, <1>9, <2>2, <2>4, <2>5, SentNow
<1>21. coloring'[r] = ColoredAs(r, b)
  BY <1>13 DEF b
<1>22. Frozen /\ posted' = posted /\ mine' = mine
  BY <1>9
<1> QED BY <1>3, <1>15, <1>16, <1>17, <1>18, <1>20, <1>21, <1>22, LaterMoves

\* The turn of a ghost among those of its owner; ghosts with offsets.
Turn(list, i) == Cardinality({j \in 1..i : list[j].rank = list[i].rank})
WithNumbers(list, number) == {Entity(list[i].id, list[i].rank, number[i], {}) : i \in DOMAIN list}

\* The place of a ghost among those of its owner.
LEMMA TurnIs ==
    ASSUME NEW list, NEW i, NEW q, q = list[i].rank
    PROVE  Turn(list, i) = Cardinality({j \in 1..i : list[j].rank = q})
  BY DEF Turn

\* The number a ghost finds in its owner's message.
LEMMA NumberFound ==
    ASSUME Given, NEW r \in Colors, NEW s \in Spaces, NEW i \in DOMAIN ById(Col(r, s).ghost),
           NEW q \in Colors, q = ById(Col(r, s).ghost)[i].rank
    PROVE  /\ Turn(ById(Col(r, s).ghost), i) \in DOMAIN Numbers(q, r, s)
           /\ Numbers(q, r, s)[Turn(ById(Col(r, s).ghost), i)]
              = Position(ById(Col(r, s).ghost)[i].id, SharedIds(q, s))
<1> DEFINE list == ById(Col(r, s).ghost)
<1>1. \A x \in DOMAIN list : list[x].rank = q =>
          LET k == Cardinality({j \in 1..x : list[j].rank = q})
          IN  k \in DOMAIN Numbers(q, r, s) /\ Numbers(q, r, s)[k] = Position(list[x].id, SharedIds(q, s))
  BY NumbersAre
<1>2. i \in DOMAIN list /\ list[i].rank = q
  OBVIOUS
<1> HIDE DEF list
<1>3. Turn(list, i) = Cardinality({j \in 1..i : list[j].rank = q})
  BY <1>2, TurnIs
<1>4. LET k == Cardinality({j \in 1..i : list[j].rank = q})
      IN  k \in DOMAIN Numbers(q, r, s) /\ Numbers(q, r, s)[k] = Position(list[i].id, SharedIds(q, s))
  BY <1>1, <1>2
<1>5. Turn(list, i) \in DOMAIN Numbers(q, r, s)
      /\ Numbers(q, r, s)[Turn(list, i)] = Position(list[i].id, SharedIds(q, s))
  BY <1>3, <1>4
<1> QED BY <1>5 DEF list

\* Ghosts with the numbers that have come in are as they should be.
LEMMA LocatedFound ==
    ASSUME Given, NEW r \in Colors, NEW s \in Spaces, NEW number,
           \A i \in DOMAIN ById(Col(r, s).ghost) :
               number[i] = Position(ById(Col(r, s).ghost)[i].id, SharedIds(ById(Col(r, s).ghost)[i].rank, s))
    PROVE  WithNumbers(ById(Col(r, s).ghost), number) = Located(r, s)
<1> DEFINE list == ById(Col(r, s).ghost)
<1>1. {Entity(list[i].id, list[i].rank, Position(list[i].id, SharedIds(list[i].rank, s)), {}) : i \in DOMAIN list}
      = Located(r, s)
  BY LocatedIs
<1>2. \A i \in DOMAIN list : number[i] = Position(list[i].id, SharedIds(list[i].rank, s))
  OBVIOUS
<1> HIDE DEF list
<1>3. WithNumbers(list, number) = Located(r, s)
  BY <1>1, <1>2 DEF WithNumbers
<1> QED BY <1>3 DEF list

LEMMA CollectOffsetsMoves ==
    ASSUME IInv, NEW r \in Colors, CollectOffsets(r, space[r])
    PROVE  IInv'
<1> DEFINE s == space[r]
           k == Nth(3, s)
           a == TakenAt[k]
           list == Ghosts(r, s)
           Place(i) == Cardinality({j \in 1..i : list[j].rank = list[i].rank})
           Number(i) == LET sent == Head(wire[list[i].rank][r]) IN
                        IF Place(i) \in DOMAIN sent THEN sent[Place(i)] ELSE 0
           located == {Entity(list[i].id, list[i].rank, Number(i), {}) : i \in DOMAIN list}
<1>1. /\ pc[r] = "collect" /\ Arrived(r, Owners(r, s))
      /\ IF \E q \in Owners(r, s) : Len(Head(wire[q][r])) > Len(OwnedHere(q, list))
         THEN Abort(r) /\ UNCHANGED space
         ELSE /\ coloring' = [coloring EXCEPT ![r][s].ghost = located]
              /\ Deliver(r, Owners(r, s), {}, <<>>)
              /\ NextSpace(r, "renumber", "map")
              /\ UNCHANGED <<mesh, part, scheme, posted, mine, info>>
      /\ UNCHANGED fieldVars
  BY DEF CollectOffsets
<1>2. space[r] \in Spaces
  BY Placed DEF Situated
<1> HIDE DEF s
<1>3. s \in Spaces /\ space[r] = s /\ Stage(r) = a
  <2>1. s \in Spaces /\ space[r] = s
    BY <1>2 DEF s
  <2> QED BY <1>1, <2>1, LoopPlace
<1>4. /\ a = SentAt[k] + 1 /\ a \in {23, 25} /\ k \in 1..8 /\ k # 1 /\ SentAt[k] \in {22, 24}
      /\ \A q : Talks(k, q, r) <=> r \in UsersOf(q, s)
      /\ \A q : Says(k, q, r) = Numbers(q, r, s)
  <2>1. 3 \in {3, 5, 7}
    OBVIOUS
  <2> QED BY <1>3, <2>1, NthIs
<1>5. TakenAt[k] = a /\ SentAt[Nth(3, s)] = a - 1
  BY <1>4
<1> HIDE DEF a, k
<1>6. Given /\ Shapes /\ NothingEarly /\ wire = Messages /\ Situated(r, a)
      /\ \A q \in Colors : Stage(q) \in Nat
  BY <1>3, Placed
<1>7. coloring[r] = ColoredAs(r, a) /\ coloring[r][s].ghost = Col(r, s).ghost
      /\ ColoredAs(r, a + 1) = WithGhosts(coloring[r], s, Located(r, s))
  <2> DEFINE c == a - 1
  <2>1. c = SentAt[Nth(3, s)] /\ c + 1 = a /\ c + 2 = a + 1
    BY <1>4, <1>5
  <2> HIDE DEF c
  <2>2. /\ ColoredAs(r, c + 1)[s].ghost = Col(r, s).ghost
        /\ ColoredAs(r, c + 2) = WithGhosts(ColoredAs(r, c + 1), s, Located(r, s))
    BY ONLY <1>3, <1>6, <2>1, r \in Colors, ColoredThen
  <2>3. coloring[r] = ColoredAs(r, a)
    BY <1>6 DEF Situated
  <2> QED BY <2>1, <2>2, <2>3
<1>8. Owners(r, s) = {q \in Colors : Talks(k, q, r)}
  <2>1. Owners(r, s) = {g.rank : g \in Col(r, s).ghost}
    BY <1>7 DEF Owners
  <2> QED BY <1>3, <1>4, <1>6, <2>1, UsersAre
<1>9. \A q \in Owners(r, s) : q \in Colors /\ Head(wire[q][r]) = Numbers(q, r, s)
  <2> TAKE q \in Owners(r, s)
  <2>1. q \in Colors /\ Talks(k, q, r) /\ wire[q][r] # <<>>
    BY <1>1, <1>8 DEF Arrived
  <2> QED BY <1>3, <1>4, <1>5, <1>6, <2>1, HeadIs
<1>10. list = ById(Col(r, s).ghost)
  BY <1>7 DEF Ghosts
<1>11. \A q \in Owners(r, s) : Len(Head(wire[q][r])) = Len(OwnedHere(q, list))
                               /\ Len(Head(wire[q][r])) \in Nat
  <2> TAKE q \in Owners(r, s)
  <2>1. q \in Colors /\ Head(wire[q][r]) = Numbers(q, r, s)
    BY <1>9
  <2>2. Len(Numbers(q, r, s)) = Len(OwnedHere(q, list))
    BY <1>3, <1>6, <1>10, <2>1, NumbersAre
  <2>3. Len(Numbers(q, r, s)) \in Nat
    <3> DEFINE m == Cardinality(Lent(q, r, s))
               t == Traded(q, r, s)
    <3>1. m \in Nat /\ DOMAIN t = 1..m
      BY <1>3, <1>6, <2>1, TradedIs
    <3>2. Numbers(q, r, s) = [j \in DOMAIN t |-> Position(t[j], SharedIds(q, s))]
      BY DEF Numbers
    <3> HIDE DEF m, t
    <3> QED BY <3>1, <3>2
  <2> QED BY <2>1, <2>2, <2>3
<1>12. ~\E q \in Owners(r, s) : Len(Head(wire[q][r])) > Len(OwnedHere(q, list))
  BY <1>11
<1>13. /\ coloring' = [coloring EXCEPT ![r][s].ghost = located]
       /\ Deliver(r, Owners(r, s), {}, <<>>)
       /\ NextSpace(r, "renumber", "map")
       /\ Frozen /\ posted' = posted /\ mine' = mine /\ info' = info
       /\ indexMap' = indexMap /\ rows' = rows /\ ents' = ents
  BY <1>1, <1>12 DEF Frozen, fieldVars
<1>14. located = Located(r, s)
  <2> DEFINE number == [i \in DOMAIN list |-> Number(i)]
  <2>1. \A i \in DOMAIN list : list[i] \in Col(r, s).ghost
    BY <1>3, <1>6, <1>10, LocatedIs
  <2>2. ASSUME NEW i \in DOMAIN list
        PROVE  number[i] = Position(list[i].id, SharedIds(list[i].rank, s))
    <3> DEFINE q == list[i].rank
    <3>1. q \in Owners(r, s)
      BY <1>7, <2>1 DEF Owners
    <3>2. q \in Colors /\ Head(wire[q][r]) = Numbers(q, r, s)
      BY <1>9, <3>1
    <3>3. q = list[i].rank /\ Place(i) = Turn(list, i)
      BY DEF Turn
    <3>4. number[i] = IF Place(i) \in DOMAIN Numbers(q, r, s) THEN Numbers(q, r, s)[Place(i)] ELSE 0
      BY <3>2
    <3> HIDE DEF list, q, Place, number
    <3>5. /\ Turn(list, i) \in DOMAIN Numbers(q, r, s)
          /\ Numbers(q, r, s)[Turn(list, i)] = Position(list[i].id, SharedIds(q, s))
      BY <1>3, <1>6, <1>10, <3>2, <3>3, NumberFound
    <3> QED BY <3>3, <3>4, <3>5
  <2>3. located = WithNumbers(list, number)
    BY DEF WithNumbers
  <2> HIDE DEF number, Number, list, located
  <2>4. \A i \in DOMAIN list : number[i] = Position(list[i].id, SharedIds(list[i].rank, s))
    BY <2>2
  <2>5. WithNumbers(list, number) = Located(r, s)
    BY <1>3, <1>6, <1>10, <2>4, LocatedFound
  <2> QED BY <2>3, <2>5
<1> HIDE DEF list, located
<1> DEFINE b == a + 1
<1>15. coloring'[r] = ColoredAs(r, b)
  <2>1. coloring = [q \in Colors |-> coloring[q]]
    BY <1>6 DEF Shapes
  <2>2. coloring'[r] = WithGhosts(coloring[r], s, located)
    BY <1>13, <2>1 DEF WithGhosts
  <2> QED BY <1>7, <1>14, <2>2
<1>16. coloring' = [q \in Colors |-> coloring'[q]] /\ \A q \in Colors \ {r} : coloring'[q] = coloring[q]
  <2>1. coloring = [q \in Colors |-> coloring[q]]
    BY <1>6 DEF Shapes
  <2> QED BY <1>13, <2>1
<1>17. /\ pc' = [q \in Colors |-> pc'[q]] /\ \A q \in Colors \ {r} : pc'[q] = pc[q]
       /\ space' = [q \in Colors |-> space'[q]] /\ \A q \in Colors \ {r} : space'[q] = space[q]
       /\ Stage(r)' = b
       /\ space'[r] \in Spaces /\ (pc'[r] \notin Looping => space'[r] = "cells")
  <2> DEFINE f == 3
  <2>1. /\ f \in {3, 5, 7} /\ b = TakenAt[Nth(f, s)] + 1
        /\ NextSpace(r, CASE f = 3 -> "renumber" [] f = 5 -> "send_entities" [] f = 7 -> "send_rows",
                     CASE f = 3 -> "map" [] f = 5 -> "send_rows" [] f = 7 -> "done")
    BY <1>5, <1>13 DEF k
  <2> HIDE DEF f, b
  <2> QED BY <1>3, <1>6, <2>1, AfterTaking
<1>18. Shapes' /\ OthersStay(r)
  BY <1>6, <1>13, <1>16, <1>17 DEF Shapes, OthersStay
<1>19. a \in 20..34 /\ b \in 21..35 /\ a < b /\ a > 20 /\ ~(b > 26) /\ b > 20 /\ a \in Nat /\ b \in Nat
  BY <1>4
<1>20. info'[r] = InfoAt(b)
  BY <1>6, <1>13, <1>19 DEF Situated, InfoAt
<1>21. Past(TakenAt[k], b)
  BY <1>3, <1>4, <1>5, TalkersAre
<1> HIDE DEF b
<1>22. Goes(r, a, b)
  BY <1>3, <1>13, <1>17, <1>18, <1>19, GoesIs
<1>23. wire' = Messages' /\ NothingEarly'
  <2>1. \A q \in Receivers0(r, TakenAt[k]) : FALSE
    BY <1>4, TalkersAre
  <2>2. Goes(r, TakenAt[k], b)
    BY <1>5, <1>22
  <2> QED BY <1>1, <1>4, <1>6, <1>8, <1>13, <1>21, <2>1, <2>2, TakenNow
<1>24. Frozen /\ posted' = posted /\ mine' = mine
  BY <1>13
<1> QED BY <1>3, <1>15, <1>17, <1>18, <1>19, <1>20, <1>23, <1>24, LaterMoves

-----------------------------------------------------------------------------
(* The exchanges *)

WithSpace(held, s, v) == [held EXCEPT ![s] = v]

\* What an exchange changes, and when.
Turning(r, s, f, a, x, y, before, after) ==
    /\ r \in Colors /\ a \in Nat /\ a = TakenAt[Nth(f, s)] /\ x \in Nat /\ x = TakenAt[f]
    /\ y \in Nat /\ (y = 28 \/ y = 32) /\ y # x
    /\ before \in Nat /\ before = a - 1 /\ after \in Nat /\ after = a + 1

\* An exchange replaces what is held of one index space.
LEMMA HeldThen ==
    ASSUME NEW r, NEW s \in Spaces, NEW f \in {5, 7}, NEW a, NEW x, NEW y, NEW before, NEW after,
           Turning(r, s, f, a, x, y, before, after)
    PROVE  /\ Exchanged(r, a, x)[s] = Written(r, s)
           /\ Exchanged(r, before, x)[s] = Written(r, s)
           /\ Exchanged(r, after, x) = WithSpace(Exchanged(r, a, x), s, Local(r, s))
           /\ Exchanged(r, before, x) = Exchanged(r, a, x)
           /\ Exchanged(r, before, y) = Exchanged(r, a, y)
           /\ Exchanged(r, after, y) = Exchanged(r, a, y)
           /\ Exchanged(r, before, y)[s] \in {Local(r, s), Written(r, s)}
           /\ Exchanged(r, a, y)[s] \in {Local(r, s), Written(r, s)}
<1> USE DEF Turning
<1>1. Spaces = {"cells", "vertices"} /\ "cells" # "vertices"
  BY DEF Spaces
<1>2. /\ a = x + (IF s = "cells" THEN 0 ELSE 2)
      /\ f = 5 => x = 28 /\ y = 32
      /\ f = 7 => x = 32 /\ y = 28
  <2>1. x = IF f = 5 THEN 28 ELSE 32
    BY DEF TakenAt
  <2>2. f = 5 => x = 28 /\ y = 32
    BY <2>1
  <2>3. f = 7 => x = 32 /\ y = 28
    BY <2>1
  <2>4. s = "cells" => a = x
    BY DEF Nth
  <2>5. s = "vertices" => a = x + 2
    <3>1. s = "vertices" => Nth(f, s) = f + 1
      BY DEF Nth
    <3> QED BY <2>1, <3>1 DEF TakenAt
  <2>6. a = x + (IF s = "cells" THEN 0 ELSE 2)
    BY <1>1, <2>1, <2>4, <2>5
  <2> QED BY <2>2, <2>3, <2>6
<1> DEFINE E(n, m) == Exchanged(r, n, m)
<1>3. \A n, m :
         /\ E(n, m) = [z \in Spaces |-> E(n, m)[z]]
         /\ E(n, m)["cells"] = IF n > m THEN Local(r, "cells") ELSE Written(r, "cells")
         /\ E(n, m)["vertices"] = IF n > m + 2 THEN Local(r, "vertices") ELSE Written(r, "vertices")
  BY <1>1 DEF Exchanged, Holds
<1> HIDE DEF E
<1>4. \A n, m, l, j : E(n, m)["cells"] = E(l, j)["cells"] /\ E(n, m)["vertices"] = E(l, j)["vertices"]
                          => E(n, m) = E(l, j)
  <2> TAKE n, m, l, j
  <2> HAVE E(n, m)["cells"] = E(l, j)["cells"] /\ E(n, m)["vertices"] = E(l, j)["vertices"]
  <2>1. E(n, m) = [z \in Spaces |-> E(n, m)[z]] /\ E(l, j) = [z \in Spaces |-> E(l, j)[z]]
    BY <1>3
  <2>2. \A z \in Spaces : E(n, m)[z] = E(l, j)[z]
    BY <1>1
  <2> QED BY <2>1, <2>2
<1>5. E(a, x)[s] = Written(r, s) /\ E(a - 1, x)[s] = Written(r, s) /\ E(a + 1, x)[s] = Local(r, s)
  BY <1>1, <1>2, <1>3
<1>6. \A z \in Spaces \ {s} : E(a, x)[z] = E(a + 1, x)[z] /\ E(a, x)[z] = E(a - 1, x)[z]
  BY <1>1, <1>2, <1>3
<1>7. E(a + 1, x) = [E(a, x) EXCEPT ![s] = Local(r, s)]
  <2>1. E(a, x) = [z \in Spaces |-> E(a, x)[z]] /\ E(a + 1, x) = [z \in Spaces |-> E(a + 1, x)[z]]
    BY <1>3
  <2> QED BY <1>5, <1>6, <2>1
<1>8. E(a - 1, x) = E(a, x)
  BY <1>1, <1>4, <1>5, <1>6
<1>9. /\ E(a - 1, y)["cells"] = E(a, y)["cells"] /\ E(a + 1, y)["cells"] = E(a, y)["cells"]
      /\ E(a - 1, y)["vertices"] = E(a, y)["vertices"] /\ E(a + 1, y)["vertices"] = E(a, y)["vertices"]
  <2>1. (a - 1 > y <=> a > y) /\ (a + 1 > y <=> a > y)
        /\ (a - 1 > y + 2 <=> a > y + 2) /\ (a + 1 > y + 2 <=> a > y + 2)
    BY <1>1, <1>2
  <2> QED BY <1>3, <2>1
<1>10. E(a - 1, y) = E(a, y) /\ E(a + 1, y) = E(a, y)
  BY <1>4, <1>9
<1>11. E(a, y)[s] \in {Local(r, s), Written(r, s)}
  BY <1>1, <1>3
<1>12. E(after, x) = E(a + 1, x) /\ E(before, x) = E(a - 1, x)
       /\ E(after, y) = E(a + 1, y) /\ E(before, y) = E(a - 1, y)
  OBVIOUS
<1>13. E(after, x) = WithSpace(E(a, x), s, Local(r, s))
  BY <1>7, <1>12 DEF WithSpace
<1> QED BY <1>5, <1>8, <1>10, <1>11, <1>12, <1>13 DEF E

LEMMA HeldBefore ==
    ASSUME NEW r, NEW s \in Spaces, NEW f \in {5, 7}, NEW a, NEW x, NEW y, NEW before, NEW after,
           Turning(r, s, f, a, x, y, before, after)
    PROVE  /\ Exchanged(r, before, x) = Exchanged(r, a, x)
           /\ Exchanged(r, before, y) = Exchanged(r, a, y)
           /\ Exchanged(r, before, x)[s] = Written(r, s)
           /\ Exchanged(r, before, y)[s] \in {Local(r, s), Written(r, s)}
  BY HeldThen

\* The lists that a color walks, and with whom.
LEMMA Prepared ==
    ASSUME IInv, NEW r \in Colors, NEW s \in Spaces, Stage(r) \in 27..35
    PROVE  /\ Shared(r, s) = ById(Renumbered(r, s)) /\ SharedLike(Renumbered(r, s), r, s)
           /\ Ghosts(r, s) = ById(Located(r, s)) /\ GhostsLike(Located(r, s), r, s)
           /\ Users(r, s) = {q \in Colors : q \in UsersOf(r, s)}
           /\ Owners(r, s) = {q \in Colors : r \in UsersOf(q, s)}
           /\ \A g \in Located(r, s) : g.rank \in Owners(r, s)
           /\ NumExclusive(r, s) = Some(r, s, "exclusive") /\ NumOwned(r, s) = Held0(r, s)
           /\ indexMap[r][s] = Local(r, s)
           /\ coloring[r][s] = [exclusive |-> Col(r, s).exclusive, shared |-> Renumbered(r, s),
                                ghost |-> Located(r, s)]
<1> SUFFICES ASSUME NEW n, n = Stage(r), n \in 27..35
             PROVE  /\ Shared(r, s) = ById(Renumbered(r, s)) /\ SharedLike(Renumbered(r, s), r, s)
                    /\ Ghosts(r, s) = ById(Located(r, s)) /\ GhostsLike(Located(r, s), r, s)
                    /\ Users(r, s) = {q \in Colors : q \in UsersOf(r, s)}
                    /\ Owners(r, s) = {q \in Colors : r \in UsersOf(q, s)}
                    /\ \A g \in Located(r, s) : g.rank \in Owners(r, s)
                    /\ NumExclusive(r, s) = Some(r, s, "exclusive") /\ NumOwned(r, s) = Held0(r, s)
                    /\ indexMap[r][s] = Local(r, s)
                    /\ coloring[r][s] = [exclusive |-> Col(r, s).exclusive, shared |-> Renumbered(r, s),
                                         ghost |-> Located(r, s)]
  OBVIOUS
<1>1. Given /\ Situated(r, n) /\ n > 20 /\ n > 26 /\ n \in 26..35
  BY Placed
<1>2. coloring[r][s] = [exclusive |-> Col(r, s).exclusive, shared |-> Renumbered(r, s),
                        ghost |-> Located(r, s)]
  <2>1. coloring[r] = ColoredAs(r, n)
    BY <1>1 DEF Situated
  <2> QED BY <1>1, <2>1, Remapped
<1>3. coloring[r][s].shared = Renumbered(r, s) /\ coloring[r][s].ghost = Located(r, s)
  BY <1>2
<1>4. Shared(r, s) = ById(Renumbered(r, s)) /\ Ghosts(r, s) = ById(Located(r, s))
  BY <1>3 DEF Shared, Ghosts
<1>5. SharedLike(Renumbered(r, s), r, s) /\ GhostsLike(Located(r, s), r, s)
  BY <1>1, RenumberedIs, LocatedIs
<1>6. Users(r, s) = {q \in Colors : q \in UsersOf(r, s)}
  <2>1. UsersOf(r, s) \subseteq Colors
    BY <1>1, UsersAre
  <2>2. \A e \in Renumbered(r, s) : \E d \in Col(r, s).shared : d.shared = e.shared
    BY <1>1, RenumberedIs
  <2>3. \A d \in Col(r, s).shared : \E e \in Renumbered(r, s) : d.shared = e.shared
    BY <1>1, RenumberedIs
  <2>4. \A q : q \in Users(r, s) <=> q \in UsersOf(r, s)
    BY <1>3, <2>2, <2>3 DEF Users, UsersOf
  <2> QED BY <2>1, <2>4
<1>7. Owners(r, s) = {g.rank : g \in Col(r, s).ghost}
  BY <1>1, <1>3, LocatedIs DEF Owners
<1>8. Owners(r, s) = {q \in Colors : r \in UsersOf(q, s)}
  BY <1>1, <1>7, UsersAre
<1>9. \A g \in Located(r, s) : g.rank \in Owners(r, s)
  BY <1>3 DEF Owners
<1>10. NumExclusive(r, s) = Some(r, s, "exclusive") /\ NumOwned(r, s) = Held0(r, s)
  BY <1>1, SizesAre
<1>11. indexMap[r][s] = Local(r, s)
  BY <1>1 DEF Situated
<1> QED BY <1>2, <1>4, <1>5, <1>6, <1>8, <1>9, <1>10, <1>11

\* The offsets at which the entities for another color are.
LEMMA OffsetsFor ==
    ASSUME IInv, NEW r \in Colors, NEW q \in Colors, NEW s \in Spaces, Stage(r) \in 27..35
    PROVE  LET list == Shared(r, s)
               at == UsedBy(q, list)
               t == Traded(r, q, s)
           IN  /\ DOMAIN at = 1..Cardinality(Lent(r, q, s))
               /\ \A k \in DOMAIN at : list[at[k]].offset = Position(t[k], SharedIds(r, s))
<1> DEFINE list == Shared(r, s)
           at == UsedBy(q, list)
           t == Traded(r, q, s)
           E == Renumbered(r, s)
<1>1. Given /\ list = ById(E) /\ SharedLike(E, r, s)
  BY Placed, Prepared
<1>2. \A e \in E : e.offset = Position(e.id, SharedIds(r, s))
  BY <1>1, RenumberedIs
<1>3. DOMAIN at = 1..Cardinality(Lent(r, q, s))
      /\ \A k \in 1..Cardinality(Lent(r, q, s)) : list[at[k]] \in E /\ list[at[k]].id = t[k]
  <2> HIDE DEF E
  <2> QED BY <1>1, SenderIs
<1> HIDE DEF list, at, t, E
<1>4. \A k \in DOMAIN at : list[at[k]].offset = Position(t[k], SharedIds(r, s))
  BY <1>2, <1>3
<1> QED BY <1>3, <1>4 DEF list, at, t

\* A step that sends the messages of a loop, and one that takes them.
Sends(r, s, f, next, Tos, msg) ==
    /\ space[r] = s /\ Stage(r) = SentAt[Nth(f, s)] /\ Waits(next, f)
    /\ pc' = [pc EXCEPT ![r] = next]
    /\ Tos = {q \in Colors : q \in UsersOf(r, s)}
    /\ \A q \in Tos : msg[q] = Traded(r, q, s)
    /\ Deliver(r, {}, Tos, msg)
    /\ Frozen /\ space' = space /\ posted' = posted /\ mine' = mine /\ coloring' = coloring
    /\ info' = info /\ indexMap' = indexMap /\ rows' = rows /\ ents' = ents
Takes(r, s, f, Froms, msg) ==
    /\ space[r] = s /\ Stage(r) = TakenAt[Nth(f, s)]
    /\ NextSpace(r, CASE f = 3 -> "renumber" [] f = 5 -> "send_entities" [] f = 7 -> "send_rows",
                    CASE f = 3 -> "map" [] f = 5 -> "send_rows" [] f = 7 -> "done")
    /\ Froms = {q \in Colors : r \in UsersOf(q, s)}
    /\ Arrived(r, Froms) /\ Deliver(r, Froms, {}, msg)
    /\ Frozen /\ posted' = posted /\ mine' = mine /\ coloring' = coloring
    /\ info' = info /\ indexMap' = indexMap
    /\ ents' = [q \in Colors |-> ents'[q]] /\ \A q \in Colors \ {r} : ents'[q] = ents[q]
    /\ ents'[r] = IF f = 5 THEN WithSpace(ents[r], s, Local(r, s)) ELSE ents[r]
    /\ rows' = [q \in Colors |-> rows'[q]] /\ \A q \in Colors \ {r} : rows'[q] = rows[q]
    /\ rows'[r] = IF f = 7 THEN WithSpace(rows[r], s, Local(r, s)) ELSE rows[r]

\* Sending what the invariant asks for keeps it.
LEMMA SendMoves ==
    ASSUME IInv, NEW r \in Colors, NEW s \in Spaces, NEW f \in {5, 7}, NEW next, NEW Tos, NEW msg,
           Sends(r, s, f, next, Tos, msg)
    PROVE  IInv'
<1> USE DEF Sends
<1> DEFINE k == Nth(f, s)
           a == SentAt[k]
           b == a + 1
           other == 60 - TakenAt[f]
<1>0. f \in {3, 5, 7}
  OBVIOUS
<1>1. /\ k \in 1..8 /\ k # 2 /\ a \in 27..33 /\ b \in 28..34 /\ b = TakenAt[k]
      /\ \A q : Talks(k, r, q) <=> q \in UsersOf(r, s)
      /\ \A q : Says(k, r, q) = Traded(r, q, s)
  BY <1>0, NthIs
<1>2. Stage(r)' = b
  <2>1. ToWait(r, s, f, next)
    BY <1>0 DEF IInv, ToWait
  <2>2. Stage(r)' = TakenAt[Nth(f, s)]
    BY ONLY <2>1, AfterSending
  <2> QED BY <1>1, <2>2
<1>3. /\ pc' = [q \in Colors |-> pc'[q]] /\ \A q \in Colors \ {r} : pc'[q] = pc[q]
      /\ space' = [q \in Colors |-> space'[q]] /\ \A q \in Colors \ {r} : space'[q] = space[q]
      /\ space'[r] \in Spaces /\ (pc'[r] \notin Looping => space'[r] = "cells")
  <2>1. ToWait(r, s, f, next)
    BY <1>0 DEF IInv, ToWait
  <2> QED BY ONLY <2>1, AfterSending
<1>4. Given /\ Shapes /\ NothingEarly /\ wire = Messages /\ Situated(r, a)
      /\ \A q \in Colors : Stage(q) \in Nat
  BY Placed
<1>5. Shapes' /\ OthersStay(r)
  BY <1>3, <1>4 DEF Shapes, OthersStay
<1>6. coloring'[r] = ColoredAs(r, b) /\ info'[r] = InfoAt(b)
  <2>1. a \in 26..35 /\ b \in 26..35
    BY <1>1
  <2> HIDE DEF a, b
  <2>2. \A n \in 26..35 : ColoredAs(r, n) = ColoredAs(r, 26) /\ InfoAt(n) = InfoAt(26)
    BY <1>4, Remapped
  <2> QED BY <1>4, <2>1, <2>2 DEF Situated
<1>7. /\ indexMap'[r] = [x \in Spaces |-> Local(r, x)]
      /\ ents'[r] = Exchanged(r, b, 28) /\ rows'[r] = Exchanged(r, b, 32)
  <2>1. /\ indexMap[r] = [x \in Spaces |-> Local(r, x)]
        /\ ents[r] = Exchanged(r, a, 28) /\ rows[r] = Exchanged(r, a, 32)
    <3>1. a > 26
      BY <1>1
    <3> QED BY <1>4, <3>1 DEF Situated
  <2>2. Exchanged(r, b, 28) = Exchanged(r, a, 28) /\ Exchanged(r, b, 32) = Exchanged(r, a, 32)
    <3> DEFINE x == TakenAt[f]
               y == 60 - x
               c == b + 1
    <3>1. /\ b \in Nat /\ b = TakenAt[Nth(f, s)] /\ a \in Nat /\ a = b - 1 /\ c \in Nat /\ c = b + 1
      BY <1>1
    <3>2. x = 28 \/ x = 32
      BY DEF TakenAt
    <3>3. x \in Nat /\ x = TakenAt[f] /\ y \in Nat /\ (y = 28 \/ y = 32) /\ y # x
          /\ (x = 28 => y = 32) /\ (x = 32 => y = 28)
      BY <3>2
    <3> HIDE DEF a, b, c, x, y
    <3>5. Turning(r, s, f, b, x, y, a, c)
      BY <3>1, <3>3 DEF Turning
    <3>4. Exchanged(r, a, x) = Exchanged(r, b, x) /\ Exchanged(r, a, y) = Exchanged(r, b, y)
      BY ONLY <3>5, s \in Spaces, f \in {5, 7}, HeldBefore
    <3> QED BY <3>2, <3>3, <3>4
  <2> QED BY <2>1, <2>2
<1>8. a \in 20..34 /\ b \in 21..35 /\ a < b /\ a > 20 /\ a \in Nat /\ b \in Nat /\ b = SentAt[k] + 1
  BY <1>1
<1>9. Tos = {q \in Colors : Talks(k, r, q)} /\ \A q \in Tos : msg[q] = Says(k, r, q)
  BY <1>1
<1> HIDE DEF b
<1>10. Goes(r, SentAt[k], b)
  BY <1>2, <1>5, <1>8, GoesIs
<1> HIDE DEF k
<1>11. wire' = Messages' /\ NothingEarly'
  BY <1>1, <1>4, <1>8, <1>9, <1>10, SentNow
<1> HIDE DEF a
<1>12. Stage(r) = a
  BY DEF a, k
<1> QED BY <1>2, <1>3, <1>5, <1>6, <1>7, <1>8, <1>11, <1>12, LaterMoves

\* Taking what the invariant says is there keeps it.
LEMMA TakeMoves ==
    ASSUME IInv, NEW r \in Colors, NEW s \in Spaces, NEW f \in {5, 7}, NEW Froms, NEW msg,
           Takes(r, s, f, Froms, msg)
    PROVE  IInv'
<1> USE DEF Takes
<1> DEFINE k == Nth(f, s)
           a == TakenAt[k]
           b == a + 1
<1>0. f \in {3, 5, 7} /\ Shapes
  BY DEF IInv
<1>1. /\ k \in 1..8 /\ k # 1 /\ a \in 28..34 /\ b \in 29..35
      /\ \A q : Talks(k, q, r) <=> r \in UsersOf(q, s)
  BY <1>0, NthIs
<1>2. /\ pc' = [q \in Colors |-> pc'[q]] /\ \A q \in Colors \ {r} : pc'[q] = pc[q]
      /\ space' = [q \in Colors |-> space'[q]] /\ \A q \in Colors \ {r} : space'[q] = space[q]
      /\ Stage(r)' = b
      /\ space'[r] \in Spaces /\ (pc'[r] \notin Looping => space'[r] = "cells")
  <2> HIDE DEF b
  <2>1. b = TakenAt[Nth(f, s)] + 1
    BY DEF b
  <2> QED BY <1>0, <2>1, AfterTaking
<1>3. Given /\ Shapes /\ NothingEarly /\ wire = Messages /\ Situated(r, a)
      /\ \A q \in Colors : Stage(q) \in Nat
  BY Placed
<1>4. Shapes' /\ OthersStay(r)
  BY <1>2, <1>3 DEF Shapes, OthersStay
<1>5. coloring'[r] = ColoredAs(r, b) /\ info'[r] = InfoAt(b)
  <2>1. a \in 26..35 /\ b \in 26..35
    BY <1>1
  <2> HIDE DEF a, b
  <2>2. \A n \in 26..35 : ColoredAs(r, n) = ColoredAs(r, 26) /\ InfoAt(n) = InfoAt(26)
    BY <1>3, Remapped
  <2> QED BY <1>3, <2>1, <2>2 DEF Situated
<1>6. /\ indexMap'[r] = [x \in Spaces |-> Local(r, x)]
      /\ ents'[r] = Exchanged(r, b, 28) /\ rows'[r] = Exchanged(r, b, 32)
  <2>1. /\ indexMap[r] = [x \in Spaces |-> Local(r, x)]
        /\ ents[r] = Exchanged(r, a, 28) /\ rows[r] = Exchanged(r, a, 32)
    <3>1. a > 26
      BY <1>1
    <3> QED BY <1>3, <3>1 DEF Situated
  <2> DEFINE x == TakenAt[f]
             y == 60 - x
             c == a - 1
  <2>2. /\ a \in Nat /\ a = TakenAt[Nth(f, s)] /\ c \in Nat /\ c = a - 1 /\ b \in Nat /\ b = a + 1
    BY <1>1
  <2>3. /\ f = 5 => x = 28
        /\ f = 7 => x = 32
    BY DEF TakenAt
  <2>4. x \in Nat /\ x = TakenAt[f] /\ y \in Nat /\ (y = 28 \/ y = 32) /\ y # x
        /\ (x = 28 => y = 32) /\ (x = 32 => y = 28)
    BY <2>3
  <2> HIDE DEF a, b, c, x, y
  <2>8. Turning(r, s, f, a, x, y, c, b)
    BY <2>2, <2>4 DEF Turning
  <2>5. Exchanged(r, b, x) = WithSpace(Exchanged(r, a, x), s, Local(r, s))
        /\ Exchanged(r, b, y) = Exchanged(r, a, y)
    BY ONLY <2>8, s \in Spaces, f \in {5, 7}, HeldThen
  <2>6. CASE f = 5
    BY <2>1, <2>3, <2>4, <2>5, <2>6
  <2>7. CASE f = 7
    BY <2>1, <2>3, <2>4, <2>5, <2>7
  <2> QED BY <2>6, <2>7
<1>7. a \in 20..34 /\ b \in 21..35 /\ a < b /\ a > 20 /\ a \in Nat /\ b \in Nat
  BY <1>1
<1>8. Froms = {q \in Colors : Talks(k, q, r)}
  BY <1>1
<1>9. Past(TakenAt[k], b) /\ \A q \in Receivers0(r, TakenAt[k]) : FALSE
  BY <1>1, TalkersAre
<1> HIDE DEF b
<1>10. Goes(r, TakenAt[k], b)
  BY <1>2, <1>4, <1>7, GoesIs
<1> HIDE DEF k
<1>11. wire' = Messages' /\ NothingEarly'
  BY <1>1, <1>3, <1>8, <1>9, <1>10, TakenNow
<1> HIDE DEF a
<1>12. Stage(r) = a
  BY DEF a, k
<1> QED BY <1>2, <1>4, <1>5, <1>6, <1>7, <1>11, <1>12, LaterMoves

\* The places a color packs from and unpacks to.
OffsetList(r, s, q) ==
    LET list == Shared(r, s)
        at   == UsedBy(q, list)
    IN [k \in DOMAIN at |-> list[at[k]].offset]
PlaceList(r, s, q) ==
    LET at == OwnedHere(q, Ghosts(r, s)) IN [k \in DOMAIN at |-> at[k] - 1]

\* The places a message is packed from are those of the ids it is about,
LEMMA PackingPlaces ==
    ASSUME IInv, NEW r \in Colors, NEW q \in Colors, NEW s \in Spaces, Stage(r) \in 27..35
    PROVE  /\ DOMAIN OffsetList(r, s, q) = 1..Cardinality(Lent(r, q, s))
           /\ \A k \in DOMAIN OffsetList(r, s, q) :
                 OffsetList(r, s, q)[k] = Position(Traded(r, q, s)[k], SharedIds(r, s))
           /\ Expand(SharedIndices(r, s, q)) = OffsetList(r, s, q)
           /\ FieldSize(SharedIndices(r, s, q)) = Cardinality(Lent(r, q, s))
<1> DEFINE list == Shared(r, s)
           at == UsedBy(q, list)
           t == Traded(r, q, s)
           m == Cardinality(Lent(r, q, s))
           o == OffsetList(r, s, q)
<1>1. Given
  BY Placed
<1>2. DOMAIN at = 1..m /\ \A k \in DOMAIN at : list[at[k]].offset = Position(t[k], SharedIds(r, s))
  BY OffsetsFor
<1>3. m \in Nat /\ \A k \in 1..m : t[k] \in SharedIds(r, s)
  BY <1>1, TradedIs
<1>4. \A x \in SharedIds(r, s) : Position(x, SharedIds(r, s)) \in Nat
  BY <1>1, LocalIs
<1>5. o = [k \in DOMAIN at |-> list[at[k]].offset]
  BY DEF OffsetList
<1>6. SharedIndices(r, s, q) = Runs(o)
  BY <1>5 DEF SharedIndices
<1> HIDE DEF list, at, t, m, o
<1>7. DOMAIN o = 1..m /\ \A k \in 1..m : o[k] = Position(t[k], SharedIds(r, s))
  BY <1>2, <1>5
<1>8. o \in Seq(Nat) /\ Len(o) = m
  <2>1. \A k \in 1..m : o[k] \in Nat
    BY <1>3, <1>4, <1>7
  <2>2. o \in [1..m -> Nat]
    BY <1>2, <1>5, <1>7, <2>1
  <2> QED BY <1>3, <2>2
<1>9. Expand(SharedIndices(r, s, q)) = o
  BY <1>6, <1>8, ExpandRuns
<1>10. FieldSize(SharedIndices(r, s, q)) = m
  BY <1>8, <1>9 DEF FieldSize
<1> QED BY <1>7, <1>9, <1>10 DEF o, t, m

\* and so are those it is unpacked to.
LEMMA UnpackingPlaces ==
    ASSUME IInv, NEW r \in Colors, NEW q \in Colors, NEW s \in Spaces, Stage(r) \in 27..35
    PROVE  /\ DOMAIN PlaceList(r, s, q) = 1..Cardinality(Lent(q, r, s))
           /\ \A k \in DOMAIN PlaceList(r, s, q) :
                 PlaceList(r, s, q)[k] = OwnedHere(q, ById(Located(r, s)))[k] - 1
           /\ Expand(GhostIndices(r, s, q)) = PlaceList(r, s, q)
           /\ FieldSize(GhostIndices(r, s, q)) = Cardinality(Lent(q, r, s))
           /\ Cardinality(Lent(q, r, s)) \in Nat
<1> DEFINE F == Located(r, s)
           at == OwnedHere(q, Ghosts(r, s))
           m == Cardinality(Lent(q, r, s))
           p == PlaceList(r, s, q)
<1>1. Given /\ Ghosts(r, s) = ById(F) /\ GhostsLike(F, r, s)
  BY Placed, Prepared
<1>2. at = OwnedHere(q, ById(F))
  BY <1>1
<1>3. DOMAIN at = 1..m /\ at \in Seq(Nat) /\ \A k \in 1..m : at[k] \in DOMAIN ById(F)
  <2> DEFINE o == OwnedHere(q, ById(F))
  <2>1. DOMAIN o = 1..m /\ o \in Seq(Nat) /\ \A k \in 1..m : o[k] \in DOMAIN ById(F)
    <3> HIDE DEF F
    <3> QED BY <1>1, ReceiverIs
  <2> HIDE DEF o, at
  <2>2. at = o
    BY <1>2 DEF o
  <2> QED BY <2>1, <2>2
<1>4. DOMAIN ById(F) = 1..Cardinality(F) /\ Cardinality(F) \in Nat
  <2> HIDE DEF F
  <2> QED BY <1>1, ByIdIs DEF GhostsLike
<1>5. m \in Nat
  BY <1>1, TradedIs
<1>6. p = [k \in DOMAIN at |-> at[k] - 1]
  BY DEF PlaceList
<1>7. GhostIndices(r, s, q) = Runs(p)
  BY <1>6 DEF GhostIndices
<1> HIDE DEF at, m, p, F
<1>8. DOMAIN p = 1..m /\ \A k \in 1..m : p[k] = at[k] - 1
  BY <1>3, <1>6
<1>9. p \in Seq(Nat) /\ Len(p) = m
  <2>1. \A k \in 1..m : p[k] \in Nat
    BY <1>3, <1>4, <1>8
  <2>2. p \in [1..m -> Nat]
    BY <1>3, <1>6, <2>1
  <2> QED BY <1>5, <2>2
<1>10. Expand(GhostIndices(r, s, q)) = p
  BY <1>7, <1>9, ExpandRuns
<1>11. FieldSize(GhostIndices(r, s, q)) = m
  BY <1>9, <1>10 DEF FieldSize
<1> QED BY <1>2, <1>5, <1>8, <1>10, <1>11 DEF p, m, F

\* What arrives in an exchange.
LEMMA ArrivingRows ==
    ASSUME IInv, NEW r \in Colors, NEW s \in Spaces, NEW f \in {5, 7}, Stage(r) = TakenAt[Nth(f, s)],
           NEW Froms, Froms = {q \in Colors : r \in UsersOf(q, s)}, Arrived(r, Froms)
    PROVE  \A q \in Froms : Head(wire[q][r]) = Traded(q, r, s)
<1> DEFINE k == Nth(f, s)
<1>1. /\ k \in 1..8 /\ Stage(r) = TakenAt[k]
      /\ \A q : Talks(k, q, r) <=> r \in UsersOf(q, s)
      /\ \A q : Says(k, q, r) = Traded(q, r, s)
  <2>1. f \in {3, 5, 7} /\ f # 3
    OBVIOUS
  <2> QED BY <2>1, NthIs
<1> HIDE DEF k
<1>2. wire = Messages /\ \A q \in Colors : Stage(q) \in Nat
  BY Placed
<1> TAKE q \in Froms
<1>3. q \in Colors /\ Talks(k, q, r) /\ wire[q][r] # <<>>
  BY <1>1 DEF Arrived
<1> QED BY <1>1, <1>2, <1>3, HeadIs

\* What a color's slots hold when it sends and when it takes.
LEMMA SlotsThen ==
    ASSUME IInv, NEW r \in Colors, NEW s \in Spaces, NEW f \in {5, 7},
           Stage(r) = SentAt[Nth(f, s)] \/ Stage(r) = TakenAt[Nth(f, s)]
    PROVE  /\ Stage(r) \in 27..35
           /\ f = 5 => ents[r][s] = Written(r, s)
           /\ f = 7 => rows[r][s] = Written(r, s)
<1> DEFINE a == TakenAt[Nth(f, s)]
           x == TakenAt[f]
           y == 60 - x
           before == a - 1
           after == a + 1
<1>1. SentAt[Nth(f, s)] = before /\ a \in 28..34
  <2>1. f \in {3, 5, 7}
    OBVIOUS
  <2> QED BY <2>1, NthIs
<1>2. (f = 5 => x = 28) /\ (f = 7 => x = 32)
  BY DEF TakenAt
<1>3. Turning(r, s, f, a, x, y, before, after)
  BY <1>1, <1>2 DEF Turning
<1>4. Stage(r) \in 27..35 /\ Stage(r) > 26
  BY <1>1
<1>5. ents[r] = Exchanged(r, Stage(r), 28) /\ rows[r] = Exchanged(r, Stage(r), 32)
  <2>1. Situated(r, Stage(r))
    BY Placed
  <2> QED BY <1>4, <2>1 DEF Situated
<1> HIDE DEF a, x, y, before, after
<1>6. Exchanged(r, before, x)[s] = Written(r, s)
  BY <1>3, HeldBefore
<1>7. Exchanged(r, a, x)[s] = Written(r, s)
  BY <1>3, HeldThen
<1>8. Stage(r) = a \/ Stage(r) = before
  BY <1>1 DEF a
<1>9. Exchanged(r, Stage(r), x)[s] = Written(r, s)
  BY <1>6, <1>7, <1>8
<1> QED BY <1>2, <1>4, <1>5, <1>9

\* What a color packs.
LEMMA PackedNow ==
    ASSUME IInv, NEW r \in Colors, NEW q \in Colors, NEW s \in Spaces, Stage(r) \in 27..35
    PROVE  Pack(Written(r, s), Some(r, s, "exclusive"), OffsetList(r, s, q)) = Traded(r, q, s)
<1>1. Given
  BY Placed
<1> DEFINE o == OffsetList(r, s, q)
           buf == Written(r, s)
<1>2. DOMAIN o = 1..Cardinality(Lent(r, q, s))
  BY PackingPlaces
<1>3. \A k \in DOMAIN o : o[k] = Position(Traded(r, q, s)[k], SharedIds(r, s))
  BY PackingPlaces
<1>4. buf = Local(r, s) \/ buf = Written(r, s)
  OBVIOUS
<1> HIDE DEF o, buf
<1>5. Pack(buf, Some(r, s, "exclusive"), o) = Traded(r, q, s)
  <2>1. Packs(buf, o, r, q, s)
    BY <1>2, <1>3, <1>4 DEF Packs
  <2> QED BY <1>1, <2>1, PackedIs
<1> QED BY <1>5 DEF o, buf

LEMMA SendEntitiesMoves ==
    ASSUME IInv, NEW r \in Colors, SendEntities(r, space[r])
    PROVE  IInv'
<1>1. PICK s : s = space[r]
  OBVIOUS
<1> DEFINE Tos == Users(r, s)
           msg == [q \in Colors |-> IF q \in Users(r, s)
                      THEN Pack(ents[r][s], NumExclusive(r, s), OffsetList(r, s, q)) ELSE <<>>]
           f == 5
           next == "get_entities"
<1>2. /\ pc[r] = "send_entities" /\ Deliver(r, {}, Tos, msg) /\ pc' = [pc EXCEPT ![r] = next]
      /\ Frozen /\ space' = space /\ posted' = posted /\ mine' = mine /\ coloring' = coloring
      /\ info' = info /\ indexMap' = indexMap /\ rows' = rows /\ ents' = ents
  <2>1. SendEntities(r, s)
    BY <1>1
  <2> QED BY <2>1 DEF SendEntities, OffsetList, Goto, Frozen, fieldVars
<1>3. s \in Spaces /\ Stage(r) = SentAt[Nth(f, s)]
  <2>1. space[r] \in Spaces
    BY Placed DEF Situated
  <2> QED BY <1>1, <1>2, <2>1, LoopPlace
<1>4. f \in {5, 7} /\ f = 5 /\ Waits(next, f)
  BY DEF Waits
<1> HIDE DEF f, next
<1>5. Stage(r) \in 27..35 /\ ents[r][s] = Written(r, s)
  BY <1>3, <1>4, SlotsThen
<1>6. NumExclusive(r, s) = Some(r, s, "exclusive") /\ Tos = {q \in Colors : q \in UsersOf(r, s)}
  BY <1>3, <1>5, Prepared
<1>7. \A q \in Tos : msg[q] = Traded(r, q, s)
  <2> TAKE q \in Tos
  <2>1. q \in Colors /\ q \in Users(r, s)
    BY <1>6
  <2>2. msg[q] = Pack(ents[r][s], NumExclusive(r, s), OffsetList(r, s, q))
    BY <2>1
  <2>5. Pack(Written(r, s), Some(r, s, "exclusive"), OffsetList(r, s, q)) = Traded(r, q, s)
    BY <1>3, <1>5, <2>1, PackedNow
  <2> HIDE DEF msg, Tos
  <2> QED BY <1>5, <1>6, <2>2, <2>5
<1> HIDE DEF msg, Tos
<1>8. Sends(r, s, f, next, Tos, msg)
  BY <1>1, <1>2, <1>3, <1>4, <1>6, <1>7 DEF Sends, next
<1> QED BY <1>3, <1>4, <1>8, SendMoves

LEMMA SendRowsMoves ==
    ASSUME IInv, NEW r \in Colors, SendRows(r, space[r])
    PROVE  IInv'
<1>1. PICK s : s = space[r]
  OBVIOUS
<1> DEFINE Tos == Receivers(r, s)
           msg == [q \in Colors |-> Pack(rows[r][s], NumExclusive(r, s), Expand(SharedIndices(r, s, q)))]
           f == 7
           next == "get_rows"
<1>2. /\ pc[r] = "send_rows" /\ Deliver(r, {}, Tos, msg) /\ pc' = [pc EXCEPT ![r] = next]
      /\ Frozen /\ space' = space /\ posted' = posted /\ mine' = mine /\ coloring' = coloring
      /\ info' = info /\ indexMap' = indexMap /\ rows' = rows /\ ents' = ents
  <2>1. SendRows(r, s)
    BY <1>1
  <2> QED BY <2>1 DEF SendRows, Goto, Frozen, fieldVars
<1>3. s \in Spaces /\ Stage(r) = SentAt[Nth(f, s)]
  <2>1. space[r] \in Spaces
    BY Placed DEF Situated
  <2> QED BY <1>1, <1>2, <2>1, LoopPlace
<1>4. f \in {5, 7} /\ f = 7 /\ Waits(next, f)
  BY DEF Waits
<1> HIDE DEF f, next
<1>5. Stage(r) \in 27..35 /\ rows[r][s] = Written(r, s)
  BY <1>3, <1>4, SlotsThen
<1>6. NumExclusive(r, s) = Some(r, s, "exclusive") /\ Given
  BY <1>3, <1>5, Prepared, Placed
<1>7. Tos = {q \in Colors : q \in UsersOf(r, s)}
  <2>1. \A q \in Colors : FieldSize(SharedIndices(r, s, q)) > 0 <=> q \in UsersOf(r, s)
    <3> TAKE q \in Colors
    <3>1. FieldSize(SharedIndices(r, s, q)) = Cardinality(Lent(r, q, s))
      BY <1>3, <1>5, PackingPlaces
    <3>2. Cardinality(Lent(r, q, s)) > 0 <=> q \in UsersOf(r, s)
      BY <1>3, <1>6, TradedIs
    <3> QED BY <3>1, <3>2
  <2> QED BY <2>1 DEF Receivers
<1>8. \A q \in Tos : msg[q] = Traded(r, q, s)
  <2> TAKE q \in Tos
  <2>1. q \in Colors
    BY <1>7
  <2>2. msg[q] = Pack(rows[r][s], NumExclusive(r, s), Expand(SharedIndices(r, s, q)))
    BY <2>1
  <2>3. Expand(SharedIndices(r, s, q)) = OffsetList(r, s, q)
    BY <1>3, <1>5, <2>1, PackingPlaces
  <2>5. Pack(Written(r, s), Some(r, s, "exclusive"), OffsetList(r, s, q)) = Traded(r, q, s)
    BY <1>3, <1>5, <2>1, PackedNow
  <2> HIDE DEF msg, Tos
  <2> QED BY <1>5, <1>6, <2>2, <2>3, <2>5
<1> HIDE DEF msg, Tos
<1>9. Sends(r, s, f, next, Tos, msg)
  BY <1>1, <1>2, <1>3, <1>4, <1>7, <1>8 DEF Sends, next
<1> QED BY <1>3, <1>4, <1>9, SendMoves

\* The slots after an exchange has been unpacked.
LEMMA UnpackedThen ==
    ASSUME IInv, NEW r \in Colors, NEW s \in Spaces, NEW f \in {5, 7}, Stage(r) = TakenAt[Nth(f, s)],
           NEW Froms, Froms = {q \in Colors : r \in UsersOf(q, s)}, Arrived(r, Froms),
           NEW places, \A q \in Froms : places[q] = PlaceList(r, s, q)
    PROVE  Unpack(Written(r, s), NumOwned(r, s), places, Got(r, Froms)) = Local(r, s)
<1> DEFINE F == Located(r, s)
           msg == Got(r, Froms)
<1>0. Stage(r) \in 27..35
  BY SlotsThen
<1>1. /\ Given /\ GhostsLike(F, r, s) /\ NumOwned(r, s) = Held0(r, s)
      /\ \A g \in F : g.rank \in Owners(r, s)
      /\ Owners(r, s) = Froms
  BY <1>0, Placed, Prepared
<1>2. Froms \in SUBSET Colors /\ DOMAIN msg = Froms /\ \A g \in F : g.rank \in Froms
  BY <1>1 DEF Got
<1>3. \A q \in Froms : Head(wire[q][r]) = Traded(q, r, s)
  BY ArrivingRows
<1>4. \A q \in Froms : msg[q] = Traded(q, r, s)
  BY <1>3 DEF Got
<1>5. \A q \in Froms : /\ DOMAIN places[q] = 1..Cardinality(Lent(q, r, s))
                       /\ \A k \in DOMAIN places[q] : places[q][k] = OwnedHere(q, ById(F))[k] - 1
  BY <1>0, <1>2, UnpackingPlaces
<1> HIDE DEF F, msg
<1>6. Unpack(Written(r, s), Held0(r, s), places, msg) = Local(r, s)
  <2>1. Incoming(r, s, F, Froms, places, msg)
    BY <1>1, <1>2, <1>4, <1>5 DEF Incoming
  <2> QED BY <1>1, <2>1, UnpackedIs
<1> QED BY <1>1, <1>6 DEF msg

LEMMA GetEntitiesMoves ==
    ASSUME IInv, NEW r \in Colors, GetEntities(r, space[r])
    PROVE  IInv'
<1>1. PICK s : s = space[r]
  OBVIOUS
<1> DEFINE Froms == Owners(r, s)
           places == [q \in Froms |-> PlaceList(r, s, q)]
           f == 5
           msg == <<>>
<1>2. /\ pc[r] = "get_entities" /\ Arrived(r, Froms) /\ Deliver(r, Froms, {}, msg)
      /\ ents' = [ents EXCEPT ![r][s] = Unpack(@, NumOwned(r, s), places, Got(r, Froms))]
      /\ NextSpace(r, "send_entities", "send_rows")
      /\ Frozen /\ posted' = posted /\ mine' = mine /\ coloring' = coloring
      /\ info' = info /\ indexMap' = indexMap /\ rows' = rows
  <2>1. GetEntities(r, s)
    BY <1>1
  <2> QED BY <2>1 DEF GetEntities, PlaceList, Frozen
<1>3. s \in Spaces /\ Stage(r) = TakenAt[Nth(f, s)]
  <2>1. space[r] \in Spaces
    BY Placed DEF Situated
  <2> QED BY <1>1, <1>2, <2>1, LoopPlace
<1>4. /\ f \in {5, 7} /\ f = 5
      /\ NextSpace(r, CASE f = 3 -> "renumber" [] f = 5 -> "send_entities" [] f = 7 -> "send_rows",
                      CASE f = 3 -> "map" [] f = 5 -> "send_rows" [] f = 7 -> "done")
  BY <1>2
<1> HIDE DEF f, msg
<1>5. Stage(r) \in 27..35 /\ ents[r][s] = Written(r, s)
  BY <1>3, <1>4, SlotsThen
<1>6. Froms = {q \in Colors : r \in UsersOf(q, s)}
  BY <1>3, <1>5, Prepared
<1>7. \A q \in Froms : places[q] = PlaceList(r, s, q)
  OBVIOUS
<1> HIDE DEF Froms, places
<1>8. Unpack(Written(r, s), NumOwned(r, s), places, Got(r, Froms)) = Local(r, s)
  BY <1>2, <1>3, <1>4, <1>6, <1>7, UnpackedThen
<1>9. ents = [q \in Colors |-> ents[q]] /\ rows = [q \in Colors |-> rows[q]]
  BY DEF IInv, Shapes
<1>10. ents' = [q \in Colors |-> ents'[q]] /\ \A q \in Colors \ {r} : ents'[q] = ents[q]
  BY <1>2, <1>9
<1>11. ents'[r] = WithSpace(ents[r], s, Local(r, s))
  <2>1. ents'[r] = [ents[r] EXCEPT ![s] = Unpack(ents[r][s], NumOwned(r, s), places, Got(r, Froms))]
    BY <1>2, <1>9
  <2> QED BY <1>5, <1>8, <2>1 DEF WithSpace
<1>12. /\ ents'[r] = IF f = 5 THEN WithSpace(ents[r], s, Local(r, s)) ELSE ents[r]
       /\ rows'[r] = IF f = 7 THEN WithSpace(rows[r], s, Local(r, s)) ELSE rows[r]
       /\ rows' = [q \in Colors |-> rows'[q]] /\ \A q \in Colors \ {r} : rows'[q] = rows[q]
  BY <1>2, <1>4, <1>9, <1>11
<1>13. Takes(r, s, f, Froms, msg)
  BY <1>1, <1>2, <1>3, <1>4, <1>6, <1>10, <1>12 DEF Takes
<1> QED BY <1>3, <1>4, <1>13, TakeMoves

LEMMA GetRowsMoves ==
    ASSUME IInv, NEW r \in Colors, GetRows(r, space[r])
    PROVE  IInv'
<1>1. PICK s : s = space[r]
  OBVIOUS
<1> DEFINE Froms == Senders(r, s)
           places == [q \in Froms |-> Expand(GhostIndices(r, s, q))]
           f == 7
           msg == <<>>
           long == \E q \in Froms : Len(Head(wire[q][r])) > FieldSize(GhostIndices(r, s, q))
<1>2. /\ pc[r] = "get_rows" /\ Arrived(r, Froms)
      /\ IF long THEN Abort(r) /\ UNCHANGED <<rows, space>>
         ELSE /\ rows' = [rows EXCEPT ![r][s] = Unpack(@, NumOwned(r, s), places, Got(r, Froms))]
              /\ Deliver(r, Froms, {}, msg)
              /\ NextSpace(r, "send_rows", "done")
              /\ UNCHANGED <<mesh, part, scheme, posted, mine, coloring, info>>
      /\ UNCHANGED <<indexMap, ents>>
  <2>1. GetRows(r, s)
    BY <1>1
  <2> QED BY <2>1 DEF GetRows
<1>3. s \in Spaces /\ Stage(r) = TakenAt[Nth(f, s)]
  <2>1. space[r] \in Spaces
    BY Placed DEF Situated
  <2> QED BY <1>1, <1>2, <2>1, LoopPlace
<1>4. /\ f \in {5, 7} /\ f = 7
  OBVIOUS
<1> HIDE DEF f, msg
<1>5. Stage(r) \in 27..35 /\ rows[r][s] = Written(r, s) /\ Given
  BY <1>3, <1>4, SlotsThen, Placed
<1>6. Froms = {q \in Colors : r \in UsersOf(q, s)}
  <2>1. \A q \in Colors : FieldSize(GhostIndices(r, s, q)) > 0 <=> r \in UsersOf(q, s)
    <3> TAKE q \in Colors
    <3>1. FieldSize(GhostIndices(r, s, q)) = Cardinality(Lent(q, r, s))
      BY <1>3, <1>5, UnpackingPlaces
    <3>2. Cardinality(Lent(q, r, s)) > 0 <=> r \in UsersOf(q, s)
      BY <1>3, <1>5, TradedIs
    <3> QED BY <3>1, <3>2
  <2> QED BY <2>1 DEF Senders
<1>7. \A q \in Froms : places[q] = PlaceList(r, s, q)
  <2> TAKE q \in Froms
  <2>1. places[q] = Expand(GhostIndices(r, s, q)) /\ q \in Colors
    BY <1>6
  <2> QED BY <1>3, <1>5, <2>1, UnpackingPlaces
<1>8. ~long
  <2> SUFFICES ASSUME NEW q \in Froms
               PROVE  ~(Len(Head(wire[q][r])) > FieldSize(GhostIndices(r, s, q)))
    OBVIOUS
  <2>0. q \in Colors
    BY <1>6
  <2> HIDE DEF Froms, places
  <2>1. Head(wire[q][r]) = Traded(q, r, s)
    BY <1>2, <1>3, <1>4, <1>6, ArrivingRows
  <2>2. Len(Traded(q, r, s)) = Cardinality(Lent(q, r, s)) /\ Cardinality(Lent(q, r, s)) \in Nat
    BY <1>3, <1>5, <2>0, TradedIs
  <2>3. FieldSize(GhostIndices(r, s, q)) = Cardinality(Lent(q, r, s))
    BY <1>3, <1>5, <2>0, UnpackingPlaces
  <2> QED BY <2>1, <2>2, <2>3
<1> HIDE DEF Froms, places, long
<1>9. Unpack(Written(r, s), NumOwned(r, s), places, Got(r, Froms)) = Local(r, s)
  BY <1>2, <1>3, <1>4, <1>6, <1>7, UnpackedThen
<1>10. ents = [q \in Colors |-> ents[q]] /\ rows = [q \in Colors |-> rows[q]]
  BY DEF IInv, Shapes
<1>11. /\ rows' = [rows EXCEPT ![r][s] = Unpack(@, NumOwned(r, s), places, Got(r, Froms))]
       /\ Deliver(r, Froms, {}, msg) /\ NextSpace(r, "send_rows", "done")
       /\ Frozen /\ posted' = posted /\ mine' = mine /\ coloring' = coloring
       /\ info' = info /\ indexMap' = indexMap /\ ents' = ents
  BY <1>2, <1>8 DEF Frozen
<1>12. NextSpace(r, CASE f = 3 -> "renumber" [] f = 5 -> "send_entities" [] f = 7 -> "send_rows",
                    CASE f = 3 -> "map" [] f = 5 -> "send_rows" [] f = 7 -> "done")
  BY <1>11 DEF f
<1>13. rows' = [q \in Colors |-> rows'[q]] /\ \A q \in Colors \ {r} : rows'[q] = rows[q]
  BY <1>10, <1>11
<1>14. rows'[r] = WithSpace(rows[r], s, Local(r, s))
  <2>1. rows'[r] = [rows[r] EXCEPT ![s] = Unpack(rows[r][s], NumOwned(r, s), places, Got(r, Froms))]
    BY <1>10, <1>11
  <2> QED BY <1>5, <1>9, <2>1 DEF WithSpace
<1>15. /\ ents'[r] = IF f = 5 THEN WithSpace(ents[r], s, Local(r, s)) ELSE ents[r]
       /\ rows'[r] = IF f = 7 THEN WithSpace(rows[r], s, Local(r, s)) ELSE rows[r]
       /\ ents' = [q \in Colors |-> ents'[q]] /\ \A q \in Colors \ {r} : ents'[q] = ents[q]
  BY <1>4, <1>10, <1>11, <1>14
<1>16. Takes(r, s, f, Froms, msg)
  BY <1>1, <1>2, <1>3, <1>6, <1>11, <1>12, <1>13, <1>15 DEF Takes
<1> QED BY <1>3, <1>4, <1>16, TakeMoves

-----------------------------------------------------------------------------
\* Every step keeps the invariant,
LEMMA StepKeeps ==
    ASSUME IInv, NEW r \in Colors, Step(r)
    PROVE  IInv'
<1>2. CASE Color(r)
  <2>0. UNCHANGED <<space, fieldVars>>
    BY <1>2 DEF Color
  <2>1. CASE ClosureStep(r)
    <3>1. scheme = "closure"
      BY <2>1 DEF ClosureStep
    <3>2. CASE GetIntersectionInfo(r)
      BY <2>0, <3>1, <3>2, GetIntersectionInfoMoves
    <3>3. CASE AnswerNearest(r)
      BY <2>0, <3>1, <3>3, AnswerNearestMoves
    <3>4. CASE CollectNearest(r)
      BY <2>0, <3>1, <3>4, CollectNearestMoves
    <3>5. CASE AnswerAll(r)
      BY <2>0, <3>1, <3>5, AnswerAllMoves
    <3>6. CASE ColorVertices(r)
      BY <2>0, <3>1, <3>6, ColorVerticesMoves
    <3>7. CASE SendRequests(r)
      BY <2>0, <3>1, <3>7, SendRequestsMoves
    <3>8. CASE AnswerRequests(r)
      BY <2>0, <3>1, <3>8, AnswerRequestsMoves
    <3>9. CASE FinishColoring(r)
      BY <2>0, <3>1, <3>9, FinishColoringMoves
    <3> QED BY <2>1, <3>2, <3>3, <3>4, <3>5, <3>6, <3>7, <3>8, <3>9 DEF ClosureStep
  <2>2. CASE DcrsStep(r)
    <3>1. scheme = "dcrs"
      BY <2>2 DEF DcrsStep
    <3>2. CASE Migrate(r)
      BY <2>0, <3>1, <3>2, MigrateMoves
    <3>3. CASE Distribute(r)
      BY <2>0, <3>1, <3>3, DistributeMoves
    <3>4. CASE AnswerFromHome(r)
      BY <2>0, <3>1, <3>4, AnswerFromHomeMoves
    <3>5. CASE ColorCells(r)
      BY <2>0, <3>1, <3>5, ColorCellsMoves
    <3>6. CASE NumberEdges(r)
      BY <2>0, <3>1, <3>6, NumberEdgesMoves
    <3>7. CASE ShareEdgeIds(r)
      BY <2>0, <3>1, <3>7, ShareEdgeIdsMoves
    <3>8. CASE MatchIds(r)
      BY <2>0, <3>1, <3>8, MatchIdsMoves
    <3>9. CASE ClaimVertices(r)
      BY <2>0, <3>1, <3>9, ClaimVerticesMoves
    <3>10. CASE ClaimGhosts(r)
      BY <2>0, <3>1, <3>10, ClaimGhostsMoves
    <3>11. CASE ReturnOwners(r)
      BY <2>0, <3>1, <3>11, ReturnOwnersMoves
    <3>12. CASE ColorEntities(r)
      BY <2>0, <3>1, <3>12, ColorEntitiesMoves
    <3>13. CASE GhostConnectivity(r)
      BY <2>0, <3>1, <3>13, GhostConnectivityMoves
    <3> QED BY <2>2, <3>2, <3>3, <3>4, <3>5, <3>6, <3>7, <3>8, <3>9, <3>10, <3>11, <3>12, <3>13 DEF DcrsStep
  <2>3. CASE GatherColoringInfo(r)
    BY <2>0, <2>3, GatherColoringInfoMoves
  <2> QED BY <1>2, <2>1, <2>2, <2>3 DEF Color
<1>3. CASE StartRemap(r)
  BY <1>3, StartRemapMoves
<1>4. CASE MapIndices(r)
  BY <1>4, MapIndicesMoves
<1>5. CASE RenumberShared(r, space[r])
  BY <1>5, RenumberSharedMoves
<1>6. CASE CollectOffsets(r, space[r])
  BY <1>6, CollectOffsetsMoves
<1>7. CASE SendEntities(r, space[r])
  BY <1>7, SendEntitiesMoves
<1>8. CASE GetEntities(r, space[r])
  BY <1>8, GetEntitiesMoves
<1>9. CASE SendRows(r, space[r])
  BY <1>9, SendRowsMoves
<1>10. CASE GetRows(r, space[r])
  BY <1>10, GetRowsMoves
<1> QED BY <1>2, <1>3, <1>4, <1>5, <1>6, <1>7, <1>8, <1>9, <1>10 DEF Step

\* which holds at the start,
LEMMA InitIs ==
    ASSUME Init
    PROVE  IInv
<1> DEFINE n == IF scheme = "dcrs" THEN 8 ELSE 0
<1>1. Given
  BY DEF Init, Given
<1>2. Shapes
  <2>1. pc = [r \in Colors |-> pc[r]] /\ space = [r \in Colors |-> space[r]]
    BY DEF Init
  <2>2. posted = [r \in Colors |-> posted[r]] /\ mine = [r \in Colors |-> mine[r]]
    BY DEF Init
  <2>3. coloring = [r \in Colors |-> coloring[r]] /\ info = [r \in Colors |-> info[r]]
    BY DEF Init
  <2>4. indexMap = [r \in Colors |-> indexMap[r]] /\ rows = [r \in Colors |-> rows[r]]
        /\ ents = [r \in Colors |-> ents[r]]
    BY DEF Init
  <2> QED BY <2>1, <2>2, <2>3, <2>4 DEF Shapes
<1>3. \A r \in Colors : Stage(r) = n
  <2> TAKE r \in Colors
  <2>1. pc[r] = (IF scheme = "dcrs" THEN "migrate" ELSE "intersection")
    BY DEF Init
  <2>2. CASE scheme = "dcrs"
    BY <2>1, <2>2, StageOfIs DEF Stage
  <2>3. CASE scheme # "dcrs"
    BY <2>1, <2>3, StageOfIs DEF Stage
  <2> QED BY <2>2, <2>3
<1>4. n \in {0, 8} /\ n \in Stages /\ Calls(n) = 1
  BY <1>1, StagesAre DEF Given
<1>5. ASSUME NEW r \in Colors PROVE Situated(r, n)
  <2>1. n \in Stages /\ space[r] \in Spaces /\ (pc[r] \notin Looping => space[r] = "cells")
    BY <1>4 DEF Init, Spaces
  <2>2. posted[r] = [k \in 1..Calls(n) |-> Gives(r, k)]
    <3>1. posted[r] = <<IF scheme = "dcrs" THEN DcrsStart(r) ELSE ClosureStart(r)>>
      BY DEF Init
    <3>2. Gives(r, 1) = IF scheme = "dcrs" THEN DcrsStart(r) ELSE ClosureStart(r)
      <4>1. CASE scheme = "closure"
        BY <4>1 DEF Gives, ClosureGives, ClosureStart
      <4>2. CASE scheme = "dcrs"
        BY <4>2, DcrsGivesAre DEF Gives
      <4> QED BY <1>1, <4>1, <4>2 DEF Given
    <3> DEFINE v == Gives(r, 1)
    <3>3. [k \in 1..1 |-> Gives(r, k)] = <<v>>
      <4>1. \A k \in 1..1 : Gives(r, k) = v
        OBVIOUS
      <4> HIDE DEF v
      <4>2. [k \in 1..1 |-> Gives(r, k)] = [k \in 1..1 |-> v]
        BY <4>1
      <4>3. [k \in 1..1 |-> v] = <<v>>
        OBVIOUS
      <4> QED BY <4>2, <4>3
    <3> QED BY <1>4, <3>1, <3>2, <3>3
  <2>3. KnowsAll(r, n)
    <3>1. CASE scheme = "closure"
      <4>1. n = 0
        BY <3>1
      <4> QED BY <3>1, <4>1 DEF KnowsAll, ClosureKnows
    <3>2. CASE scheme = "dcrs"
      <4>1. n = 8
        BY <3>2
      <4> QED BY <3>2, <4>1 DEF KnowsAll, DcrsKnows
    <3> QED BY <1>1, <3>1, <3>2 DEF Given
  <2>4. coloring[r] = ColoredAs(r, n)
    <3>1. n < 20
      BY <1>4
    <3> QED BY <3>1 DEF ColoredAs, Init
  <2>5. info[r] = InfoAt(n)
    <3>1. ~(n > 20)
      BY <1>4
    <3> QED BY <3>1 DEF InfoAt, Init
  <2>6. ~(n > 26)
    BY <1>4
  <2> HIDE DEF n
  <2> QED BY <2>1, <2>2, <2>3, <2>4, <2>5, <2>6 DEF Situated
<1>6. ASSUME NEW q \in Colors, NEW r \in Colors, NEW k \in 1..8, Talks(k, q, r)
      PROVE  ~(Stage(q) > SentAt[k]) /\ ~(Stage(r) > TakenAt[k])
  <2>1. k \in 1..2 => scheme = "closure"
    <3>1. k = 1 => scheme = "closure"
      BY <1>6 DEF Talks
    <3>2. k = 2 => scheme = "closure"
      BY <1>6 DEF Talks
    <3> QED BY <3>1, <3>2
  <2>2. k \in 1..2 => n = 0
    BY <2>1
  <2>3. SentAt[k] \in Nat /\ TakenAt[k] \in Nat
    BY TimesAre
  <2>4. k \in 3..8 => SentAt[k] > 8 /\ TakenAt[k] > 8
    BY DEF SentAt, TakenAt
  <2> QED BY <1>3, <1>4, <2>2, <2>3, <2>4
<1>7. wire = Messages
  <2>1. \A q, r \in Colors : Pending(q, r) = {}
    BY <1>6 DEF Pending
  <2>2. \A said : InTurn({}, said) = <<>>
    BY NoneInTurn
  <2>3. \A q, r \in Colors : InTurn(Pending(q, r), Says8(q, r)) = <<>>
    BY <2>1, <2>2
  <2>4. Messages = [q \in Colors |-> [r \in Colors |-> <<>>]]
    BY <2>3 DEF Messages
  <2> QED BY <2>4 DEF Init
<1>8. NothingEarly
  BY <1>6 DEF NothingEarly
<1>9. Together
  BY <1>3, <1>4 DEF Together
<1> QED BY <1>1, <1>2, <1>3, <1>5, <1>7, <1>8, <1>9 DEF IInv, At

\* and while nothing happens.
LEMMA StutterKeeps ==
    ASSUME IInv, UNCHANGED vars
    PROVE  IInv'
<1>0. /\ Frozen /\ pc' = pc /\ posted' = posted /\ wire' = wire /\ mine' = mine /\ coloring' = coloring
      /\ info' = info /\ space' = space /\ indexMap' = indexMap /\ rows' = rows /\ ents' = ents
  BY DEF vars, coloringVars, Frozen
<1>1. Given'
  BY <1>0, PlacesStay DEF IInv
<1>2. Shapes'
  BY <1>0 DEF IInv, Shapes
<1>3. \A q : Stage(q)' = Stage(q)
  BY <1>0 DEF Stage
<1>4. ASSUME NEW q \in Colors PROVE At(q)'
  <2> SUFFICES ASSUME NEW n, Stage(q) = n PROVE At(q)'
    OBVIOUS
  <2>1. Situated(q, n) /\ KnowsAll(q, n)
    BY DEF IInv, At, Situated
  <2>2. KnowsAll(q, n)' /\ Stage(q)' = n
    BY <1>0, <1>3, <2>1, KnowsStays
  <2> QED BY <1>0, <2>1, <2>2, AtThen DEF Situated
<1>5. \A k, q, r : Talks(k, q, r)' = Talks(k, q, r) /\ Says(k, q, r)' = Says(k, q, r)
  BY <1>0, ExchangeStays
<1>6. Messages' = Messages
  BY <1>3, <1>5 DEF Messages, Pending, InTurn, Says8
<1>7. NothingEarly'
  BY <1>3, <1>5 DEF IInv, NothingEarly
<1>8. Together'
  BY <1>3 DEF IInv, Together
<1>9. (\A q \in Colors : At(q))'
  BY <1>4
<1> QED BY <1>0, <1>1, <1>2, <1>6, <1>7, <1>8, <1>9 DEF IInv

\* Hence it holds at all times.
LEMMA Inductive ==
    Spec => []IInv
<1>1. Init => IInv
  BY InitIs
<1>2. IInv /\ [Next]_vars => IInv'
  BY StepKeeps, StutterKeeps DEF Next
<1> QED BY <1>1, <1>2, PTL DEF Spec

-----------------------------------------------------------------------------
(* What the invariant says of the properties *)

\* No color is aborted, and at the end the channels are empty.
LEMMA GetThrough ==
    ASSUME IInv
    PROVE  AllGetThrough
<1>1. \A r \in Colors : Given /\ Stage(r) \in Stages /\ Stage(r) \in 0..35
  BY Placed, StagesAre
<1>2. \A r \in Colors : pc[r] # "aborted"
  <2> SUFFICES ASSUME NEW r \in Colors, pc[r] = "aborted" PROVE FALSE
    OBVIOUS
  <2>1. Stage(r) = 99
    BY StageOfIs DEF Stage
  <2> QED BY <1>1, <2>1
<1>3. ASSUME \A r \in Colors : pc[r] = "done"
      PROVE  wire = [q \in Colors |-> [r \in Colors |-> <<>>]]
  <2>1. \A r \in Colors : Stage(r) = 35
    BY <1>3, StageOfIs DEF Stage
  <2>2. \A k \in 1..8 : TakenAt[k] \in Nat /\ TakenAt[k] < 35
    BY DEF TakenAt
  <2>3. \A q, r \in Colors : Pending(q, r) = {}
    BY <2>1, <2>2 DEF Pending
  <2>4. \A said : InTurn({}, said) = <<>>
    BY NoneInTurn
  <2>5. \A q, r \in Colors : InTurn(Pending(q, r), Says8(q, r)) = <<>>
    BY <2>3, <2>4
  <2>6. Messages = [q \in Colors |-> [r \in Colors |-> <<>>]]
    BY <2>5 DEF Messages
  <2> QED BY <2>6 DEF IInv
<1> QED BY <1>2, <1>3 DEF AllGetThrough

\* A color with index maps is past remap_shared_entities.
LEMMA MappedStage ==
    ASSUME IInv, NEW r \in Colors, Mapped(r)
    PROVE  Stage(r) \in 27..35
<1>1. space[r] = "cells" \/ space[r] = "vertices"
  BY Placed DEF Situated, Spaces
<1> QED BY <1>1, LoopStages, StageOfIs DEF Mapped, Stage

-----------------------------------------------------------------------------
Pairs(S) == {<<e.id, e.offset>> : e \in S}
OfRank(F, q) == {h \in F : h.rank = q}
ReadBy(E, r) == {d \in E : r \in d.shared}

\* Ghosts and shared entities agree when the colorings are made,
LEMMA FreshMatch ==
    ASSUME Given, NEW q \in Colors, NEW r \in Colors, NEW s \in Spaces
    PROVE  Pairs(OfRank(Col(r, s).ghost, q)) = Pairs(ReadBy(Col(q, s).shared, r))
<1> DEFINE E == Col(q, s).shared
           F == Col(r, s).ghost
<1>1. /\ \A g \in F : g.rank = q => \E e \in E : r \in e.shared /\ e.id = g.id /\ e.offset = g.offset
      /\ \A e \in E : r \in e.shared => \E g \in F : g.rank = q /\ g.id = e.id /\ g.offset = e.offset
  BY ColoringsMatch DEF Agree
<1> HIDE DEF E, F
<1>2. \A p : p \in Pairs(OfRank(F, q)) => p \in Pairs(ReadBy(E, r))
  BY <1>1 DEF Pairs, OfRank, ReadBy
<1>3. \A p : p \in Pairs(ReadBy(E, r)) => p \in Pairs(OfRank(F, q))
  BY <1>1 DEF Pairs, OfRank, ReadBy
<1>4. Pairs(OfRank(F, q)) = Pairs(ReadBy(E, r))
  BY <1>2, <1>3
<1> QED BY <1>4 DEF E, F

\* and when they have been renumbered and located;
LEMMA MappedMatch ==
    ASSUME Given, NEW q \in Colors, NEW r \in Colors, NEW s \in Spaces
    PROVE  Pairs(OfRank(Located(r, s), q)) = Pairs(ReadBy(Renumbered(q, s), r))
<1> DEFINE X == SharedIds(q, s)
           F == Located(r, s)
           E == Renumbered(q, s)
           S == Col(q, s).shared
           G == Col(r, s).ghost
<1>1. \A x : (\E e \in S : e.id = x /\ r \in e.shared) <=> (\E g \in G : g.id = x /\ g.rank = q)
  <2>1. IdsOf(Lent(q, r, s)) = IdsOf({g \in G : g.rank = q})
    BY TradedIs
  <2>2. \A x : x \in IdsOf(Lent(q, r, s)) <=> \E e \in S : e.id = x /\ r \in e.shared
    BY DEF IdsOf, Lent
  <2>3. \A x : x \in IdsOf({g \in G : g.rank = q}) <=> \E g \in G : g.id = x /\ g.rank = q
    BY DEF IdsOf
  <2> QED BY <2>1, <2>2, <2>3
<1>2. /\ \A e \in F : e.offset = Position(e.id, SharedIds(e.rank, s))
      /\ \A e \in F : \E g \in G : g.id = e.id /\ g.rank = e.rank
      /\ \A g \in G : \E e \in F : g.id = e.id /\ g.rank = e.rank
  BY LocatedIs
<1>3. /\ \A e \in E : e.offset = Position(e.id, X)
      /\ \A e \in E : \E d \in S : d.id = e.id /\ d.shared = e.shared
      /\ \A d \in S : \E e \in E : d.id = e.id /\ d.shared = e.shared
  BY RenumberedIs
<1> HIDE DEF X, F, E, S, G
<1>4. ASSUME NEW p \in Pairs(OfRank(F, q)) PROVE p \in Pairs(ReadBy(E, r))
  <2>1. PICK e \in F : e.rank = q /\ p = <<e.id, e.offset>>
    BY DEF Pairs, OfRank
  <2>2. e.offset = Position(e.id, X)
    BY <1>2, <2>1 DEF X
  <2>5. PICK g \in G : g.id = e.id /\ g.rank = q
    BY <1>2, <2>1
  <2>6. PICK c \in S : c.id = e.id /\ r \in c.shared
    BY <1>1, <2>5
  <2>3. PICK d \in E : d.id = e.id /\ r \in d.shared
    BY <1>3, <2>6
  <2>4. d.offset = e.offset
    BY <1>3, <2>2, <2>3
  <2> QED BY <2>1, <2>3, <2>4 DEF Pairs, ReadBy
<1>5. ASSUME NEW p \in Pairs(ReadBy(E, r)) PROVE p \in Pairs(OfRank(F, q))
  <2>1. PICK d \in E : r \in d.shared /\ p = <<d.id, d.offset>>
    BY DEF Pairs, ReadBy
  <2>4. PICK c \in S : c.id = d.id /\ r \in c.shared
    BY <1>3, <2>1
  <2>5. PICK g \in G : g.id = d.id /\ g.rank = q
    BY <1>1, <2>4
  <2>2. PICK e \in F : e.id = d.id /\ e.rank = q
    BY <1>2, <2>5
  <2>3. e.offset = Position(e.id, X) /\ d.offset = Position(d.id, X)
    BY <1>2, <1>3, <2>2 DEF X
  <2> QED BY <2>1, <2>2, <2>3 DEF Pairs, OfRank
<1>6. Pairs(OfRank(F, q)) = Pairs(ReadBy(E, r))
  BY <1>4, <1>5
<1> QED BY <1>6 DEF F, E

\* and colors compare only when both are before or after.
LEMMA MatchShared ==
    ASSUME IInv
    PROVE  GhostsMatchShared
<1> SUFFICES ASSUME NEW q \in Colors, NEW r \in Colors, NEW s \in Spaces,
                    (Fresh(q) /\ Fresh(r)) \/ (Mapped(q) /\ Mapped(r))
             PROVE  Pairs(OfRank(coloring[r][s].ghost, q)) = Pairs(ReadBy(coloring[q][s].shared, r))
  BY DEF GhostsMatchShared, Pairs, OfRank, ReadBy
<1>1. Given
  BY Placed
<1>2. CASE Fresh(q) /\ Fresh(r)
  <2>1. \A p \in Colors : Fresh(p) => /\ coloring[p][s].shared = Col(p, s).shared
                                      /\ coloring[p][s].ghost = Col(p, s).ghost
    <3> SUFFICES ASSUME NEW p \in Colors, Fresh(p)
                 PROVE  /\ coloring[p][s].shared = Col(p, s).shared
                        /\ coloring[p][s].ghost = Col(p, s).ghost
      OBVIOUS
    <3>1. Stage(p) = 20 \/ Stage(p) = 21
      BY StageOfIs DEF Fresh, Stage
    <3>2. coloring[p] = ColoredAs(p, Stage(p))
      BY Placed DEF Situated
    <3>3. \A n : n = 20 \/ n = 21 => ~(n < 20) /\ ~(n > 22) /\ ~(n > 23) /\ ~(n > 24) /\ ~(n > 25)
      OBVIOUS
    <3>4. \A n : n = 20 \/ n = 21 => /\ ColoredAs(p, n)[s].shared = Col(p, s).shared
                                     /\ ColoredAs(p, n)[s].ghost = Col(p, s).ghost
      BY <3>3 DEF ColoredAs
    <3> QED BY <3>1, <3>2, <3>4
  <2> QED BY <1>1, <1>2, <2>1, FreshMatch
<1>3. CASE Mapped(q) /\ Mapped(r)
  <2>1. \A p \in Colors : Mapped(p) => /\ coloring[p][s].shared = Renumbered(p, s)
                                       /\ coloring[p][s].ghost = Located(p, s)
    <3> SUFFICES ASSUME NEW p \in Colors, Mapped(p)
                 PROVE  /\ coloring[p][s].shared = Renumbered(p, s)
                        /\ coloring[p][s].ghost = Located(p, s)
      OBVIOUS
    <3>1. Stage(p) \in 27..35
      BY MappedStage
    <3>2. coloring[p][s] = [exclusive |-> Col(p, s).exclusive, shared |-> Renumbered(p, s),
                            ghost |-> Located(p, s)]
      BY <3>1, Prepared
    <3> QED BY <3>2
  <2> QED BY <1>1, <1>3, <2>1, MappedMatch
<1> QED BY <1>2, <1>3

\* The rows and entities of a color that is done.
LEMMA RowsAreOwners ==
    ASSUME IInv
    PROVE  GhostRowsAreOwners
<1> SUFFICES ASSUME NEW r \in Colors, pc[r] = "done"
             PROVE  /\ \A s \in Spaces : \A i \in DOMAIN indexMap[r][s] :
                          rows[r][s][i] = indexMap[r][s][i] /\ ents[r][s][i] = indexMap[r][s][i]
                    /\ \A s \in Spaces : ToSet(indexMap[r][s]) = {e.id : e \in Held(r, s)}
  BY DEF GhostRowsAreOwners
<1>1. Stage(r) = 35 /\ Stage(r) \in 27..35
  BY StageOfIs DEF Stage
<1>2. /\ indexMap[r] = [s \in Spaces |-> Local(r, s)]
      /\ ents[r] = Exchanged(r, 35, 28) /\ rows[r] = Exchanged(r, 35, 32)
  <2>1. Situated(r, 35) /\ 35 > 26
    BY <1>1, Placed
  <2> QED BY <2>1 DEF Situated
<1>3. \A s \in Spaces : rows[r][s] = Local(r, s) /\ ents[r][s] = Local(r, s)
  <2> TAKE s \in Spaces
  <2>1. 35 > 28 /\ 35 > 28 + 2 /\ 35 > 32 /\ 35 > 32 + 2
    OBVIOUS
  <2>2. Exchanged(r, 35, 28)[s] = Local(r, s)
    BY <2>1 DEF Exchanged, Holds
  <2>3. Exchanged(r, 35, 32)[s] = Local(r, s)
    BY <2>1 DEF Exchanged, Holds
  <2> QED BY <1>2, <2>2, <2>3
<1>4. \A s \in Spaces : \A i \in DOMAIN indexMap[r][s] :
         rows[r][s][i] = indexMap[r][s][i] /\ ents[r][s][i] = indexMap[r][s][i]
  BY <1>2, <1>3
<1>5. ASSUME NEW s \in Spaces PROVE ToSet(indexMap[r][s]) = {e.id : e \in Held(r, s)}
  <2>1. Given
    BY Placed
  <2>2. coloring[r][s] = [exclusive |-> Col(r, s).exclusive, shared |-> Renumbered(r, s),
                          ghost |-> Located(r, s)]
    BY <1>1, Prepared
  <2>3. ToSet(Local(r, s)) = IdsOf(Col(r, s).exclusive) \cup IdsOf(Col(r, s).shared)
                             \cup IdsOf(Col(r, s).ghost)
    BY <2>1, LocalIs
  <2>4. IdsOf(Renumbered(r, s)) = IdsOf(Col(r, s).shared)
    <3>1. SharedLike(Renumbered(r, s), r, s)
      BY <2>1, RenumberedIs
    <3> QED BY <3>1 DEF SharedLike, SharedIds
  <2>5. IdsOf(Located(r, s)) = IdsOf(Col(r, s).ghost)
    <3>1. GhostsLike(Located(r, s), r, s)
      BY <2>1, LocatedIs
    <3> QED BY <3>1 DEF GhostsLike
  <2>6. \A x : x \in {e.id : e \in Held(r, s)} <=>
               \/ x \in IdsOf(Col(r, s).exclusive) \/ x \in IdsOf(Renumbered(r, s))
               \/ x \in IdsOf(Located(r, s))
    <3>1. \A e : e \in Held(r, s) <=> \/ e \in Col(r, s).exclusive \/ e \in Renumbered(r, s)
                                      \/ e \in Located(r, s)
      BY <2>2 DEF Held, Kinds
    <3> QED BY <3>1 DEF IdsOf
  <2>7. indexMap[r][s] = Local(r, s)
    BY <1>2
  <2> QED BY <2>3, <2>4, <2>5, <2>6, <2>7
<1> QED BY <1>4, <1>5

-----------------------------------------------------------------------------
(* Every entity has one owner, and what it touches is held *)

\* The number that stands for an entity of the mesh.
NumberOf(s, x) == IF s = "cells" /\ scheme = "dcrs" THEN Id(x) ELSE x
OwnIds(r, s)   == IdsOf(Col(r, s).exclusive) \cup IdsOf(Col(r, s).shared)
GhostIds(r, s) == IdsOf(Col(r, s).ghost)

\* The cells of other colors that touch those of r, and what r has of the mesh.
Near(r) == {x \in Cells : part[x] # r /\ \E d \in Primary(r) : Meet(d, x)}
VerticesAt(r) == UNION {mesh[c] : c \in Primary(r) \cup Near(r)}

\* The entities that are a color's own, and that they are divided among them.
Mine(r, s) == IF s = "cells" THEN Primary(r)
              ELSE IF scheme = "closure" THEN OwnVerts(r)
              ELSE (OwnVertexSet(r) \ PShared(r)) \cup {v \in Claimed : Owner(v) = r}
Divided(s) ==
    /\ \A r \in Colors : \A i : i \in OwnIds(r, s) <=> \E x \in Mine(r, s) : i = NumberOf(s, x)
    /\ \A r \in Colors : IdsOf(Col(r, s).exclusive) \cap IdsOf(Col(r, s).shared) = {}
    /\ \A r \in Colors : Mine(r, s) \subseteq Entities(s)
    /\ \A x \in Entities(s) : \E r \in Colors : x \in Mine(r, s)
    /\ \A q, r \in Colors : \A x \in Mine(q, s) : x \in Mine(r, s) => q = r

LEMMA EntityIs ==
    \A i, rank, offset, users : /\ Entity(i, rank, offset, users).id = i
                                /\ Entity(i, rank, offset, users).rank = rank
                                /\ Entity(i, rank, offset, users).shared = users
  BY DEF Entity

\* The entities are divided among the colors: cells of add_colorings,
LEMMA ClosureCellsDivided ==
    ASSUME Given, scheme = "closure"
    PROVE  Divided("cells")
<1>1. \A r : Col(r, "cells") = ClosureCells(r)
  BY DEF Col
<1>2. \A r, i : i \in IdsOf(Col(r, "cells").exclusive) <=> i \in Primary(r) /\ NearUsers(r, i) = {}
  <2> TAKE r, i
  <2>1. \A e : e \in Col(r, "cells").exclusive
              <=> \E c \in Primary(r) : NearUsers(r, c) = {} /\ e = Entity(c, r, OffsetOf(r, c), {})
    BY <1>1 DEF ClosureCells
  <2>2. i \in IdsOf(Col(r, "cells").exclusive) <=> \E e \in Col(r, "cells").exclusive : e.id = i
    BY IdsOfIs
  <2>3. ASSUME NEW e \in Col(r, "cells").exclusive, e.id = i
        PROVE  i \in Primary(r) /\ NearUsers(r, i) = {}
    BY <2>1, <2>3, EntityIs
  <2>4. ASSUME i \in Primary(r), NearUsers(r, i) = {}
        PROVE  \E e \in Col(r, "cells").exclusive : e.id = i
    <3>1. Entity(i, r, OffsetOf(r, i), {}) \in Col(r, "cells").exclusive
      BY <2>1, <2>4
    <3> QED BY <3>1, EntityIs
  <2> QED BY <2>2, <2>3, <2>4
<1>3. \A r, i : i \in IdsOf(Col(r, "cells").shared) <=> i \in Primary(r) /\ NearUsers(r, i) # {}
  <2> TAKE r, i
  <2>1. \A e : e \in Col(r, "cells").shared
              <=> \E c \in Primary(r) : /\ NearUsers(r, c) # {}
                                        /\ e = Entity(c, r, OffsetOf(r, c), NearUsers(r, c))
    BY <1>1 DEF ClosureCells
  <2> QED BY <2>1, IdsOfIs, EntityIs
<1>4. \A r, x : NumberOf("cells", x) = x /\ Mine(r, "cells") = Primary(r)
  BY DEF NumberOf, Mine
<1>5. \A x : x \in Entities("cells") <=> x \in Cells
  BY DEF Entities
<1>6. /\ \A x \in Cells : part[x] \in Colors
      /\ \A r, x : x \in Primary(r) <=> x \in Cells /\ part[x] = r
  BY MeshIs, PrimaryIs
<1>7. \A r \in Colors : \A i : i \in OwnIds(r, "cells") <=> \E x \in Mine(r, "cells") : i = NumberOf("cells", x)
  BY <1>2, <1>3, <1>4 DEF OwnIds
<1>8. \A r \in Colors : IdsOf(Col(r, "cells").exclusive) \cap IdsOf(Col(r, "cells").shared) = {}
  BY <1>2, <1>3
<1>9. \A r \in Colors : Mine(r, "cells") \subseteq Entities("cells")
  BY <1>4, <1>5, <1>6
<1>10. \A x \in Entities("cells") : \E r \in Colors : x \in Mine(r, "cells")
  BY <1>4, <1>5, <1>6
<1>11. \A q, r \in Colors : \A x \in Mine(q, "cells") : x \in Mine(r, "cells") => q = r
  BY <1>4, <1>6
<1> QED BY <1>7, <1>8, <1>9, <1>10, <1>11 DEF Divided

\* vertices of color_entity,
LEMMA ClosureVerticesDivided ==
    ASSUME Given, scheme = "closure"
    PROVE  Divided("vertices")
<1>1. \A r : Col(r, "vertices") = ClosureVertices(r)
  BY DEF Col
<1>2. \A r, e : e \in OwnVertices0(r)
               <=> \E v \in OwnVerts(r) : e = Entity(v, r, Position(v, OwnVerts(r)), HolderColors(r, v))
  BY DEF OwnVertices0
<1>3. \A r, i : i \in IdsOf(Col(r, "vertices").exclusive) <=> i \in OwnVerts(r) /\ HolderColors(r, i) = {}
  <2> TAKE r, i
  <2>1. \A e : e \in Col(r, "vertices").exclusive <=> e \in OwnVertices0(r) /\ e.shared = {}
    BY <1>1 DEF ClosureVertices
  <2> QED BY <1>2, <2>1, IdsOfIs, EntityIs
<1>4. \A r, i : i \in IdsOf(Col(r, "vertices").shared) <=> i \in OwnVerts(r) /\ HolderColors(r, i) # {}
  <2> TAKE r, i
  <2>1. \A e : e \in Col(r, "vertices").shared <=> e \in OwnVertices0(r) /\ e.shared # {}
    BY <1>1 DEF ClosureVertices
  <2> QED BY <1>2, <2>1, IdsOfIs, EntityIs
<1>5. \A r, x : NumberOf("vertices", x) = x /\ Mine(r, "vertices") = OwnVerts(r)
  BY DEF NumberOf, Mine
<1>6. \A x : x \in Entities("vertices") <=> x \in Vertices
  BY DEF Entities
<1>7. /\ \A x \in Vertices : VertexColor(x) \in Colors
      /\ \A r, x : x \in OwnVerts(r) <=> x \in Vertices /\ VertexColor(x) = r
  BY VertexColorIs, OwnVertsAre
<1>8. \A r \in Colors : \A i :
         i \in OwnIds(r, "vertices") <=> \E x \in Mine(r, "vertices") : i = NumberOf("vertices", x)
  BY <1>3, <1>4, <1>5 DEF OwnIds
<1>9. \A r \in Colors : IdsOf(Col(r, "vertices").exclusive) \cap IdsOf(Col(r, "vertices").shared) = {}
  BY <1>3, <1>4
<1>10. \A r \in Colors : Mine(r, "vertices") \subseteq Entities("vertices")
  BY <1>5, <1>6, <1>7
<1>11. \A x \in Entities("vertices") : \E r \in Colors : x \in Mine(r, "vertices")
  BY <1>5, <1>6, <1>7
<1>12. \A q, r \in Colors : \A x \in Mine(q, "vertices") : x \in Mine(r, "vertices") => q = r
  BY <1>5, <1>7
<1> QED BY <1>8, <1>9, <1>10, <1>11, <1>12 DEF Divided

\* cells of get_owner_info,
LEMMA DcrsCellsDivided ==
    ASSUME Given, scheme = "dcrs"
    PROVE  Divided("cells")
<1>1. \A r : Col(r, "cells") = DcrsCells(r)
  BY DEF Col
<1>2. \A r, i : i \in IdsOf(Col(r, "cells").exclusive)
               <=> \E c \in Primary(r) : i = Id(c) /\ CellUsers(c) = {}
  <2> TAKE r, i
  <2>1. \A e : e \in Col(r, "cells").exclusive
              <=> \E c \in Primary(r) : CellUsers(c) = {} /\ e = Entity(Id(c), r, Index(c) - 1, {})
    <3>1. DcrsCells(r).exclusive = {Entity(Id(c), r, Index(c) - 1, {}) :
                                          c \in {x \in Primary(r) : CellUsers(x) = {}}}
      BY DEF DcrsCells
    <3> QED BY <1>1, <3>1
  <2> QED BY <2>1, IdsOfIs, EntityIs
<1>3. \A r, i : i \in IdsOf(Col(r, "cells").shared)
               <=> \E c \in Primary(r) : i = Id(c) /\ CellUsers(c) # {}
  <2> TAKE r, i
  <2>1. \A e : e \in Col(r, "cells").shared
              <=> \E c \in Primary(r) : /\ CellUsers(c) # {}
                                        /\ e = Entity(Id(c), r, Index(c) - 1, CellUsers(c))
    <3>1. DcrsCells(r).shared = {Entity(Id(c), r, Index(c) - 1, CellUsers(c)) :
                                       c \in {x \in Primary(r) : CellUsers(x) # {}}}
      BY DEF DcrsCells
    <3> QED BY <1>1, <3>1
  <2> QED BY <2>1, IdsOfIs, EntityIs
<1>4. \A r, x : NumberOf("cells", x) = Id(x) /\ Mine(r, "cells") = Primary(r)
  BY DEF NumberOf, Mine
<1>5. \A x : x \in Entities("cells") <=> x \in Cells
  BY DEF Entities
<1>6. /\ \A x \in Cells : part[x] \in Colors
      /\ \A r, x : x \in Primary(r) <=> x \in Cells /\ part[x] = r
      /\ \A c, d \in Cells : Id(c) = Id(d) => c = d
  BY MeshIs, PrimaryIs, IdIs
<1>7. \A r \in Colors : \A i : i \in OwnIds(r, "cells") <=> \E x \in Mine(r, "cells") : i = NumberOf("cells", x)
  <2> TAKE r \in Colors
  <2> TAKE i
  <2>1. i \in OwnIds(r, "cells") <=> \E x \in Primary(r) : i = Id(x)
    BY <1>2, <1>3 DEF OwnIds
  <2> QED BY <1>4, <2>1
<1>8. \A r \in Colors : IdsOf(Col(r, "cells").exclusive) \cap IdsOf(Col(r, "cells").shared) = {}
  <2> SUFFICES ASSUME NEW r \in Colors, NEW i, i \in IdsOf(Col(r, "cells").exclusive),
                      i \in IdsOf(Col(r, "cells").shared)
               PROVE  FALSE
    OBVIOUS
  <2>1. PICK c \in Primary(r) : i = Id(c) /\ CellUsers(c) = {}
    BY <1>2
  <2>2. PICK d \in Primary(r) : i = Id(d) /\ CellUsers(d) # {}
    BY <1>3
  <2> QED BY <1>6, <2>1, <2>2
<1>9. \A r \in Colors : Mine(r, "cells") \subseteq Entities("cells")
  BY <1>4, <1>5, <1>6
<1>10. \A x \in Entities("cells") : \E r \in Colors : x \in Mine(r, "cells")
  BY <1>4, <1>5, <1>6
<1>11. \A q, r \in Colors : \A x \in Mine(q, "cells") : x \in Mine(r, "cells") => q = r
  BY <1>4, <1>6
<1> QED BY <1>7, <1>8, <1>9, <1>10, <1>11 DEF Divided

\* With one vertex in common, cells are neighbors: both colors have it in a
\* shared cell, and each in a ghost.
LEMMA MeetingIsShared ==
    ASSUME Given, MinConnections = 1, NEW q \in Colors, NEW r \in Colors, q # r,
           NEW v, v \in OwnVertexSet(q), v \in OwnVertexSet(r)
    PROVE  v \in PShared(q) /\ v \in PGhost(q)
<1>1. PICK c \in Primary(q) : v \in mesh[c]
  BY DEF OwnVertexSet
<1>2. PICK d \in Primary(r) : v \in mesh[d]
  BY DEF OwnVertexSet
<1>3. c \in Cells /\ d \in Cells /\ part[c] = q /\ part[d] = r
  BY PrimaryIs
<1>4. Cardinality(mesh[c] \cap mesh[d]) > 0 /\ Cardinality(mesh[c] \cap mesh[d]) \in Nat
  BY <1>1, <1>2, <1>3, CommonVertices
<1>5. Cardinality(mesh[c] \cap mesh[d]) >= MinConnections
  BY <1>4
<1>6. Touches(c, d) /\ Touches(d, c)
  BY <1>3, <1>5, TouchesIs DEF Touches
<1>7. r \in CellUsers(c) /\ q \in CellUsers(d)
  BY <1>3, <1>6, CellUsersAre
<1>8. c \in {x \in Primary(q) : CellUsers(x) # {}} /\ d \in {x \in Cells : q \in CellUsers(x)}
  BY <1>3, <1>7
<1> QED BY <1>1, <1>2, <1>8 DEF PShared, PGhost

\* vertices of color_entities: colors with cells at one vertex are neighbors,
\* so each vertex of two colors is claimed.
LEMMA DcrsVerticesDivided ==
    ASSUME Given, scheme = "dcrs", MinConnections = 1
    PROVE  Divided("vertices")
<1>1. \A r : Col(r, "vertices") = DcrsVertices(r)
  BY DEF Col
<1>2. \A r, i : i \in IdsOf(Col(r, "vertices").exclusive) <=> i \in OwnVertexSet(r) /\ i \notin PShared(r)
  <2> TAKE r, i
  <2>1. \A e : e \in Col(r, "vertices").exclusive
              <=> \E v \in OwnVertexSet(r) \ PShared(r) : e = Entity(v, r, LocalOffset(r, v), {})
    BY <1>1 DEF DcrsVertices, Claim
  <2> QED BY <2>1, IdsOfIs, EntityIs
<1>3. \A r, i : i \in IdsOf(Col(r, "vertices").shared) <=> i \in Claimed /\ Owner(i) = r
  <2> TAKE r, i
  <2>1. \A e : e \in Col(r, "vertices").shared
              <=> \E v \in Claimed : /\ Owner(v) = r
                                     /\ e = Entity(v, Owner(v), LocalOffset(Owner(v), v), Wanting(v))
    BY <1>1 DEF DcrsVertices, Entry
  <2> QED BY <2>1, IdsOfIs, EntityIs
<1>4. \A x : NumberOf("vertices", x) = x
  BY DEF NumberOf
<1>5. \A r, x : x \in Mine(r, "vertices")
               <=> (x \in OwnVertexSet(r) /\ x \notin PShared(r)) \/ (x \in Claimed /\ Owner(x) = r)
  BY DEF Mine
<1>6. \A x : x \in Entities("vertices") <=> x \in Vertices
  BY DEF Entities
<1>7. /\ \A r \in Colors : OwnVertexSet(r) \subseteq Vertices
      /\ \A r \in Colors : \A v : v \in PShared(r) => v \in OwnVertexSet(r)
      /\ \A v \in Claimed : v \in Vertices
  BY LocalVertsAre, PSharedIs
<1>8. \A v \in Claimed : Owner(v) \in Colors /\ v \in PShared(Owner(v))
  BY OwnerIs
<1>9. \A r \in Colors : \A i :
         i \in OwnIds(r, "vertices") <=> \E x \in Mine(r, "vertices") : i = NumberOf("vertices", x)
  BY <1>2, <1>3, <1>4, <1>5 DEF OwnIds
<1>10. \A r \in Colors : IdsOf(Col(r, "vertices").exclusive) \cap IdsOf(Col(r, "vertices").shared) = {}
  BY <1>2, <1>3, <1>8
<1>11. \A r \in Colors : Mine(r, "vertices") \subseteq Entities("vertices")
  BY <1>5, <1>6, <1>7
<1>12. \A x \in Entities("vertices") : \E r \in Colors : x \in Mine(r, "vertices")
  <2> SUFFICES ASSUME NEW x \in Vertices
               PROVE  \E r \in Colors : x \in Mine(r, "vertices")
    BY <1>6
  <2>1. CASE x \in Claimed
    BY <1>5, <1>8, <2>1
  <2>2. CASE x \notin Claimed
    <3>1. PICK c \in Cells : x \in mesh[c]
      BY DEF Vertices
    <3>2. part[c] \in Colors /\ x \in OwnVertexSet(part[c])
      BY <3>1, MeshIs, PrimaryIs DEF OwnVertexSet
    <3>3. x \notin PShared(part[c])
      BY <2>2, <3>2 DEF Claimed
    <3> QED BY <1>5, <3>2, <3>3
  <2> QED BY <2>1, <2>2
<1>13. \A q, r \in Colors : \A x \in Mine(q, "vertices") : x \in Mine(r, "vertices") => q = r
  <2> SUFFICES ASSUME NEW q \in Colors, NEW r \in Colors, q # r,
                      NEW x, x \in Mine(q, "vertices"), x \in Mine(r, "vertices")
               PROVE  FALSE
    OBVIOUS
  <2>1. x \in OwnVertexSet(q) /\ x \in OwnVertexSet(r)
    BY <1>5, <1>7, <1>8
  <2>2. x \in PShared(q) /\ x \in PShared(r)
    BY <2>1, MeetingIsShared
  <2> QED BY <1>5, <2>2
<1> QED BY <1>9, <1>10, <1>11, <1>12, <1>13 DEF Divided

\* Hence all.
LEMMA AllDivided ==
    ASSUME Given, MinConnections = 1, NEW s \in Spaces
    PROVE  Divided(s)
<1>1. s = "cells" \/ s = "vertices"
  BY DEF Spaces
<1>2. scheme = "closure" \/ scheme = "dcrs"
  BY DEF Given
<1> QED BY <1>1, <1>2, ClosureCellsDivided, ClosureVerticesDivided, DcrsCellsDivided, DcrsVerticesDivided

\* A color has the cells that touch its own for ghosts, and the vertices of all.
Surrounded(r) ==
    /\ \A i : i \in GhostIds(r, "cells") <=> \E x \in Near(r) : i = NumberOf("cells", x)
    /\ \A v : v \in OwnIds(r, "vertices") \cup GhostIds(r, "vertices") <=> v \in VerticesAt(r)

\* A color holds the cells around its own and their vertices.
LEMMA ClosureSurrounds ==
    ASSUME Given, scheme = "closure", NEW r \in Colors
    PROVE  Surrounded(r)
<1>1. Near(r) = Nearest(r)
  BY ClosureIs DEF Near
<1>2. VerticesAt(r) = EntityClosure(r)
  BY <1>1, ClosureIs DEF VerticesAt, EntityClosure
<1>3. \A i : i \in GhostIds(r, "cells") <=> i \in Nearest(r)
  <2> TAKE i
  <2>1. Col(r, "cells").ghost = KnownCells(Nearest(r))
    BY DEF Col, ClosureCells, NearCells
  <2>2. \A e : e \in Col(r, "cells").ghost
              <=> \E c \in Nearest(r) : e = Entity(c, part[c], OffsetOf(part[c], c), {})
    BY <2>1 DEF KnownCells
  <2> QED BY <2>2, IdsOfIs, EntityIs DEF GhostIds
<1>4. \A x : NumberOf("cells", x) = x /\ NumberOf("vertices", x) = x
  BY DEF NumberOf
<1>5. \A v : v \in GhostIds(r, "vertices") <=> v \in EntityClosure(r) /\ VertexColor(v) # r
  <2> TAKE v
  <2>1. Col(r, "vertices").ghost = ClosureVertices(r).ghost
    BY DEF Col
  <2>2. \A e : e \in ClosureVertices(r).ghost
              <=> \E x \in EntityClosure(r) :
                     /\ VertexColor(x) # r
                     /\ e = Entity(x, VertexColor(x), Position(x, OwnVerts(VertexColor(x))), {})
    BY DEF ClosureVertices
  <2> QED BY <2>1, <2>2, IdsOfIs, EntityIs DEF GhostIds
<1>6. \A v : v \in OwnIds(r, "vertices") <=> v \in EntityClosure(r) /\ VertexColor(v) = r
  <2>1. \A v : v \in OwnIds(r, "vertices") <=> \E x \in Mine(r, "vertices") : v = NumberOf("vertices", x)
    BY ClosureVerticesDivided DEF Divided
  <2>2. \A v : v \in Mine(r, "vertices") <=> v \in EntityClosure(r) /\ VertexColor(v) = r
    BY DEF Mine, OwnVerts
  <2> QED BY <1>4, <2>1, <2>2
<1> QED BY <1>1, <1>2, <1>3, <1>4, <1>5, <1>6 DEF Surrounded

\* With one vertex in common, cells that meet are neighbors.
LEMMA MeetingTouches ==
    ASSUME Given, MinConnections = 1
    PROVE  /\ \A c, d \in Cells : Touches(c, d) <=> c # d /\ Meet(c, d)
           /\ \A c, d \in Cells : Cardinality(mesh[c] \cap mesh[d]) >= MinConnections <=> Meet(c, d)
<1> SUFFICES ASSUME NEW c \in Cells, NEW d \in Cells
             PROVE  /\ Touches(c, d) <=> c # d /\ Meet(c, d)
                    /\ Cardinality(mesh[c] \cap mesh[d]) >= MinConnections <=> Meet(c, d)
  OBVIOUS
<1>1. /\ Cardinality(mesh[c] \cap mesh[d]) \in Nat
      /\ Cardinality(mesh[c] \cap mesh[d]) > 0 <=> Meet(c, d)
  BY CommonVertices DEF Meet
<1>2. Cardinality(mesh[c] \cap mesh[d]) >= MinConnections <=> Cardinality(mesh[c] \cap mesh[d]) > 0
  BY <1>1
<1> QED BY <1>1, <1>2 DEF Touches

\* The same of the other way of coloring,
LEMMA DcrsSurrounds ==
    ASSUME Given, scheme = "dcrs", MinConnections = 1, NEW r \in Colors
    PROVE  Surrounded(r)
<1>1. \A c \in Cells : r \in CellUsers(c) <=> c \in Near(r)
  <2> TAKE c \in Cells
  <2>1. r \in CellUsers(c) <=> part[c] # r /\ \E d \in Primary(r) : Touches(d, c)
    BY CellUsersAre
  <2>2. \A d \in Primary(r) : d \in Cells /\ part[d] = r
    BY PrimaryIs
  <2>3. \A d \in Primary(r) : Touches(d, c) <=> d # c /\ Meet(d, c)
    BY <2>2, MeetingTouches
  <2> QED BY <2>1, <2>2, <2>3 DEF Near
<1>2. \A i : i \in GhostIds(r, "cells") <=> \E x \in Near(r) : i = NumberOf("cells", x)
  <2> TAKE i
  <2>1. DcrsCells(r).ghost = {Entity(Id(c), part[c], Index(c) - 1, {r}) :
                                 c \in {x \in Cells : r \in CellUsers(x)}}
    BY DEF DcrsCells
  <2>2. Col(r, "cells").ghost = DcrsCells(r).ghost
    BY DEF Col
  <2>3. \A e : e \in Col(r, "cells").ghost
              <=> \E c \in Near(r) : e = Entity(Id(c), part[c], Index(c) - 1, {r})
    BY <1>1, <2>1, <2>2 DEF Near
  <2>4. i \in GhostIds(r, "cells") <=> \E c \in Near(r) : i = Id(c)
    BY <2>3, IdsOfIs, EntityIs DEF GhostIds
  <2> QED BY <2>4 DEF NumberOf
<1>3. \A v : v \in VerticesAt(r) <=> v \in OwnVertexSet(r) \/ v \in PGhost(r)
  BY <1>1 DEF VerticesAt, OwnVertexSet, PGhost, Near
<1>4. \A v : v \in GhostIds(r, "vertices") <=> v \in PGhost(r) /\ Owner(v) # r
  <2> TAKE v
  <2>1. Col(r, "vertices").ghost = {[Entry(x) EXCEPT !.shared = {}] :
                                       x \in {y \in PGhost(r) : Owner(y) # r}}
    BY DEF Col, DcrsVertices
  <2>2. \A x : [Entry(x) EXCEPT !.shared = {}].id = x
    BY DEF Entry, Entity
  <2>3. \A e : e \in Col(r, "vertices").ghost
              <=> \E x \in PGhost(r) : Owner(x) # r /\ e = [Entry(x) EXCEPT !.shared = {}]
    BY <2>1
  <2>4. v \in GhostIds(r, "vertices") <=> \E e \in Col(r, "vertices").ghost : e.id = v
    BY IdsOfIs DEF GhostIds
  <2>5. ASSUME v \in PGhost(r), Owner(v) # r
        PROVE  \E e \in Col(r, "vertices").ghost : e.id = v
    BY <2>2, <2>3, <2>5
  <2>6. ASSUME NEW e \in Col(r, "vertices").ghost, e.id = v
        PROVE  v \in PGhost(r) /\ Owner(v) # r
    <3>1. PICK x \in PGhost(r) : Owner(x) # r /\ e = [Entry(x) EXCEPT !.shared = {}]
      BY <2>3
    <3>2. e.id = x
      BY <2>2, <3>1
    <3> QED BY <2>6, <3>1, <3>2
  <2> QED BY <2>4, <2>5, <2>6
<1>5. \A v : v \in OwnIds(r, "vertices")
            <=> (v \in OwnVertexSet(r) /\ v \notin PShared(r)) \/ (v \in Claimed /\ Owner(v) = r)
  <2>1. \A v : v \in OwnIds(r, "vertices") <=> \E x \in Mine(r, "vertices") : v = NumberOf("vertices", x)
    BY DcrsVerticesDivided DEF Divided
  <2>2. \A v : v \in Mine(r, "vertices")
              <=> (v \in OwnVertexSet(r) /\ v \notin PShared(r)) \/ (v \in Claimed /\ Owner(v) = r)
    BY DEF Mine
  <2> QED BY <2>1, <2>2 DEF NumberOf
<1>6. \A v : v \in OwnIds(r, "vertices") \cup GhostIds(r, "vertices") <=> v \in VerticesAt(r)
  <2> TAKE v
  <2>1. /\ \A q : v \in PShared(q) => v \in OwnVertexSet(q)
        /\ v \in PGhost(r) => v \in Claimed
        /\ v \in PShared(r) => v \in Claimed
        /\ v \in Claimed => Owner(v) \in Colors /\ v \in PShared(Owner(v))
    BY PSharedIs, OwnerIs DEF Claimed
  <2>2. ASSUME v \in OwnVertexSet(r), v \in Claimed, Owner(v) # r
        PROVE  v \in PGhost(r)
    BY <2>1, <2>2, MeetingIsShared
  <2> QED BY <1>3, <1>4, <1>5, <2>1, <2>2
<1> QED BY <1>2, <1>6 DEF Surrounded

-----------------------------------------------------------------------------
(* What the colors have when all are colored *)

\* Once one color has the color information, all are through the collectives.
LEMMA AllThere ==
    ASSUME IInv, AllColored
    PROVE  \A r \in Colors : Stage(r) \in 20..35
<1>1. PICK q \in Colors : info[q] # <<>>
  BY DEF AllColored
<1>2. Stage(q) > 20
  <2>1. info[q] = InfoAt(Stage(q)) /\ Stage(q) \in Nat
    BY Placed DEF Situated
  <2> QED BY <1>1, <2>1 DEF InfoAt
<1>3. \A r \in Colors : Stage(r) >= 20
  BY <1>2 DEF IInv, Together
<1>4. \A r \in Colors : Stage(r) \in Stages
  BY Placed
<1>5. \A n \in Stages : n >= 20 => n \in 20..35
  BY DEF Stages, ColoringStages
<1> QED BY <1>3, <1>4, <1>5

\* A number leads back to the entity it was made for.
LEMMA NamesAre ==
    ASSUME IInv, \A r \in Colors : Stage(r) \in 20..35, NEW s \in Spaces, NEW x \in Entities(s)
    PROVE  Named(s, NumberOf(s, x)) = x
<1>1. CASE s = "cells" /\ scheme = "dcrs"
  <2>1. \A r \in Colors : mine[r].cells = CellsOf(r)
    <3> TAKE r \in Colors
    <3>1. KnowsAll(r, Stage(r))
      BY Placed DEF Situated
    <3>2. Stage(r) > 8
      BY Stage(r) \in 20..35
    <3> QED BY <1>1, <3>1, <3>2 DEF KnowsAll, DcrsKnows, Knows
  <2>2. [i \in 1..NumColors |-> mine[i - 1].cells] = [i \in 1..NumColors |-> CellsOf(i - 1)]
    <3>1. \A i \in 1..NumColors : mine[i - 1].cells = CellsOf(i - 1)
      BY <2>1, ColorsAre
    <3> QED BY <3>1
  <2>3. x \in Cells /\ Given
    BY <1>1 DEF Entities, IInv
  <2>4. FlattenSeq([i \in 1..NumColors |-> CellsOf(i - 1)])[Id(x) + 1] = x
    BY <2>3, NumberedIs
  <2>5. Named(s, Id(x)) = FlattenSeq([i \in 1..NumColors |-> mine[i - 1].cells])[Id(x) + 1]
    BY <1>1 DEF Named
  <2> QED BY <1>1, <2>2, <2>4, <2>5 DEF NumberOf
<1>2. CASE ~(s = "cells" /\ scheme = "dcrs")
  BY <1>2 DEF Named, NumberOf
<1> QED BY <1>1, <1>2

\* The ids in the colorings stay what they were.
LEMMA ColoredIs ==
    ASSUME IInv, NEW r \in Colors, NEW s \in Spaces, Stage(r) \in 20..35
    PROVE  /\ IsEntities(coloring[r][s].exclusive) /\ IsEntities(coloring[r][s].shared)
           /\ IdsOf(coloring[r][s].exclusive) = IdsOf(Col(r, s).exclusive)
           /\ IdsOf(coloring[r][s].shared) = IdsOf(Col(r, s).shared)
           /\ IdsOf(coloring[r][s].ghost) = GhostIds(r, s)
           /\ \A e \in Owned(r, s) : e.rank = r
<1> DEFINE n == Stage(r)
<1>1. Given /\ n \in 20..35 /\ coloring[r] = ColoredAs(r, n)
  BY Placed DEF Situated
<1>2. ~(n < 20)
  BY <1>1
<1> HIDE DEF n
<1>3. ColoredAs(r, n)[s].exclusive = Col(r, s).exclusive
  BY <1>2 DEF ColoredAs
<1>4. ColoredAs(r, n)[s].shared = Renumbered(r, s) \/ ColoredAs(r, n)[s].shared = Col(r, s).shared
  BY <1>2 DEF ColoredAs
<1>5. ColoredAs(r, n)[s].ghost = Located(r, s) \/ ColoredAs(r, n)[s].ghost = Col(r, s).ghost
  BY <1>2 DEF ColoredAs
<1>6. Entire(r, s)
  BY <1>1, ColoringsMatch
<1>7. /\ IsEntities(Col(r, s).exclusive) /\ IsEntities(Col(r, s).shared)
      /\ \A e \in Col(r, s).exclusive : e = Entity(e.id, r, e.offset, {})
      /\ \A e \in Col(r, s).shared : e = Entity(e.id, r, e.offset, e.shared)
  BY <1>6 DEF Entire
<1>8. /\ \A e \in Col(r, s).exclusive : e.rank = r
      /\ \A e \in Col(r, s).shared : e.rank = r
  BY <1>7, EntityIs
<1>9. /\ IsEntities(Renumbered(r, s)) /\ IdsOf(Renumbered(r, s)) = IdsOf(Col(r, s).shared)
      /\ \A e \in Renumbered(r, s) : \E d \in Col(r, s).shared : d.rank = e.rank
  BY <1>1, RenumberedIs DEF SharedLike, SharedIds
<1>10. IdsOf(Located(r, s)) = IdsOf(Col(r, s).ghost)
  BY <1>1, LocatedIs DEF GhostsLike
<1>11. IsEntities(coloring[r][s].exclusive) /\ IdsOf(coloring[r][s].exclusive) = IdsOf(Col(r, s).exclusive)
  BY <1>1, <1>3, <1>7
<1>12. IsEntities(coloring[r][s].shared) /\ IdsOf(coloring[r][s].shared) = IdsOf(Col(r, s).shared)
  BY <1>1, <1>4, <1>7, <1>9
<1>13. IdsOf(coloring[r][s].ghost) = GhostIds(r, s)
  BY <1>1, <1>5, <1>10 DEF GhostIds
<1>14. \A e \in Owned(r, s) : e.rank = r
  BY <1>1, <1>3, <1>4, <1>8, <1>9 DEF Owned
<1> QED BY <1>11, <1>12, <1>13, <1>14

\* An owned entity stands for one of the color's own, and another for another.
LEMMA OwnedStands ==
    ASSUME IInv, MinConnections = 1, \A r \in Colors : Stage(r) \in 20..35, NEW s \in Spaces
    PROVE  /\ \A r \in Colors : \A e \in Owned(r, s) :
                 \E x \in Mine(r, s) : /\ x \in Entities(s) /\ e.id = NumberOf(s, x)
                                       /\ Named(s, e.id) = x /\ e.rank = r
           /\ \A r \in Colors : \A x \in Mine(r, s) :
                 \E e \in Owned(r, s) : e.id = NumberOf(s, x) /\ Named(s, e.id) = x /\ e.rank = r
           /\ \A r \in Colors : \A d, e \in Owned(r, s) : d.id = e.id => d = e
<1>1. Divided(s)
  BY AllDivided DEF IInv
<1>2. \A r \in Colors : \A i : i \in OwnIds(r, s) <=> \E e \in Owned(r, s) : e.id = i
  BY ColoredIs, IdsOfIs DEF OwnIds, Owned
<1>3. \A r \in Colors : \A e \in Owned(r, s) : e.rank = r
  BY ColoredIs
<1>4. \A r \in Colors : \A x \in Mine(r, s) : x \in Entities(s) /\ Named(s, NumberOf(s, x)) = x
  BY <1>1, NamesAre DEF Divided
<1>5. ASSUME NEW r \in Colors, NEW e \in Owned(r, s)
      PROVE  \E x \in Mine(r, s) : /\ x \in Entities(s) /\ e.id = NumberOf(s, x)
                                   /\ Named(s, e.id) = x /\ e.rank = r
  <2>1. e.id \in OwnIds(r, s)
    BY <1>2
  <2>2. PICK x \in Mine(r, s) : e.id = NumberOf(s, x)
    BY <1>1, <2>1 DEF Divided
  <2> QED BY <1>3, <1>4, <2>2
<1>6. ASSUME NEW r \in Colors, NEW x \in Mine(r, s)
      PROVE  \E e \in Owned(r, s) : e.id = NumberOf(s, x) /\ Named(s, e.id) = x /\ e.rank = r
  <2>1. NumberOf(s, x) \in OwnIds(r, s)
    BY <1>1 DEF Divided
  <2>2. PICK e \in Owned(r, s) : e.id = NumberOf(s, x)
    BY <1>2, <2>1
  <2> QED BY <1>3, <1>4, <2>2
<1>7. ASSUME NEW r \in Colors, NEW d \in Owned(r, s), NEW e \in Owned(r, s), d.id = e.id
      PROVE  d = e
  <2> DEFINE X == coloring[r][s].exclusive
             S == coloring[r][s].shared
  <2>1. IsEntities(X) /\ IsEntities(S) /\ IdsOf(X) \cap IdsOf(S) = {}
    <3>1. IdsOf(Col(r, s).exclusive) \cap IdsOf(Col(r, s).shared) = {}
      BY <1>1 DEF Divided
    <3> QED BY <3>1, ColoredIs
  <2>2. d \in X \cup S /\ e \in X \cup S
    BY DEF Owned
  <2> HIDE DEF X, S
  <2>3. \A x \in X, y \in S : x.id # y.id
    BY <2>1, IdsOfIs
  <2>4. /\ \A x, y \in X : x.id = y.id => x = y
        /\ \A x, y \in S : x.id = y.id => x = y
    BY <2>1 DEF IsEntities
  <2> QED BY <1>7, <2>2, <2>3, <2>4
<1> QED BY <1>5, <1>6, <1>7

\* What the division of the entities says of the colorings.
LEMMA OwnedIsOnce ==
    ASSUME IInv, MinConnections = 1
    PROVE  OwnedOnce
<1> SUFFICES ASSUME AllColored
             PROVE  /\ \A s \in Spaces : \A x \in Entities(s) :
                          \E r \in Colors : \E e \in Owned(r, s) :
                              /\ Named(s, e.id) = x
                              /\ e.rank = r
                              /\ s = "cells" => r = part[x]
                              /\ \A q \in Colors : \A d \in Owned(q, s) :
                                    Named(s, d.id) = x => q = r /\ d = e
                    /\ \A r \in Colors, s \in Spaces : NamedIn(s, Owned(r, s)) \subseteq Entities(s)
  BY DEF OwnedOnce
<1>1. \A r \in Colors : Stage(r) \in 20..35
  BY AllThere
<1>2. ASSUME NEW s \in Spaces, NEW x \in Entities(s)
      PROVE  \E r \in Colors : \E e \in Owned(r, s) :
                /\ Named(s, e.id) = x
                /\ e.rank = r
                /\ s = "cells" => r = part[x]
                /\ \A q \in Colors : \A d \in Owned(q, s) :
                      Named(s, d.id) = x => q = r /\ d = e
  <2>1. Divided(s)
    BY AllDivided DEF IInv
  <2>2. PICK r \in Colors : x \in Mine(r, s)
    BY <2>1 DEF Divided
  <2>3. PICK e \in Owned(r, s) : e.id = NumberOf(s, x) /\ Named(s, e.id) = x /\ e.rank = r
    BY <1>1, <2>2, OwnedStands
  <2>4. s = "cells" => r = part[x]
    BY <2>2, PrimaryIs DEF Mine, IInv
  <2>5. ASSUME NEW q \in Colors, NEW d \in Owned(q, s), Named(s, d.id) = x
        PROVE  q = r /\ d = e
    <3>1. PICK y \in Mine(q, s) : y \in Entities(s) /\ d.id = NumberOf(s, y) /\ Named(s, d.id) = y
      BY <1>1, OwnedStands
    <3>2. y = x /\ q = r
      BY <2>1, <2>2, <2>5, <3>1 DEF Divided
    <3>3. \A a, b \in Owned(r, s) : a.id = b.id => a = b
      BY <1>1, OwnedStands
    <3> QED BY <2>3, <3>1, <3>2, <3>3
  <2> QED BY <2>3, <2>4, <2>5
<1>3. ASSUME NEW r \in Colors, NEW s \in Spaces
      PROVE  NamedIn(s, Owned(r, s)) \subseteq Entities(s)
  <2>1. \A e \in Owned(r, s) : Named(s, e.id) \in Entities(s)
    BY <1>1, OwnedStands
  <2> QED BY <2>1 DEF NamedIn
<1> QED BY <1>2, <1>3

\* hence of both.
LEMMA AllSurrounded ==
    ASSUME Given, MinConnections = 1, NEW r \in Colors
    PROVE  Surrounded(r)
<1>1. scheme = "closure" \/ scheme = "dcrs"
  BY DEF Given
<1> QED BY <1>1, ClosureSurrounds, DcrsSurrounds

\* What is around a color's cells, in the colorings.
LEMMA HaloIsComplete ==
    ASSUME IInv, MinConnections = 1
    PROVE  HaloComplete
<1> SUFFICES ASSUME AllColored, NEW r \in Colors
             PROVE  LET own == NamedIn("cells", Owned(r, "cells")) IN
                    /\ NamedIn("cells", coloring[r]["cells"].ghost)
                       = {c \in Cells \ own : \E d \in own :
                             Cardinality(mesh[c] \cap mesh[d]) >= MinConnections}
                    /\ UNION {mesh[c] : c \in NamedIn("cells", Held(r, "cells"))}
                       = NamedIn("vertices", Held(r, "vertices"))
  BY DEF HaloComplete
<1> DEFINE own == NamedIn("cells", Owned(r, "cells"))
<1>1. \A q \in Colors : Stage(q) \in 20..35
  BY AllThere
<1>2. Given /\ "cells" \in Spaces /\ "vertices" \in Spaces
  BY DEF IInv, Spaces
<1>3. own = Primary(r)
  <2>1. \A e \in Owned(r, "cells") : Named("cells", e.id) \in Primary(r)
    <3>1. \A e \in Owned(r, "cells") : \E x \in Mine(r, "cells") : Named("cells", e.id) = x
      BY <1>1, <1>2, OwnedStands
    <3> QED BY <3>1 DEF Mine
  <2>2. \A x \in Primary(r) : \E e \in Owned(r, "cells") : Named("cells", e.id) = x
    <3>1. \A x \in Mine(r, "cells") : \E e \in Owned(r, "cells") : Named("cells", e.id) = x
      BY <1>1, <1>2, OwnedStands
    <3> QED BY <3>1 DEF Mine
  <2> QED BY <2>1, <2>2 DEF NamedIn
<1>4. Surrounded(r)
  BY <1>2, AllSurrounded
<1>5. \A c \in Cells : Named("cells", NumberOf("cells", c)) = c
  BY <1>1, <1>2, NamesAre DEF Entities
<1>6. NamedIn("cells", coloring[r]["cells"].ghost) = Near(r)
  <2> DEFINE G == coloring[r]["cells"].ghost
  <2>1. IdsOf(G) = GhostIds(r, "cells")
    BY <1>1, <1>2, ColoredIs
  <2> HIDE DEF G
  <2>2. \A c \in Near(r) : c \in Cells
    BY DEF Near
  <2>3. ASSUME NEW g \in G
        PROVE  Named("cells", g.id) \in Near(r)
    <3>1. g.id \in GhostIds(r, "cells")
      BY <2>1, IdsOfIs
    <3>2. PICK c \in Near(r) : g.id = NumberOf("cells", c)
      BY <1>4, <3>1 DEF Surrounded
    <3> QED BY <1>5, <2>2, <3>2
  <2>4. ASSUME NEW c \in Near(r)
        PROVE  \E g \in G : Named("cells", g.id) = c
    <3>1. NumberOf("cells", c) \in GhostIds(r, "cells")
      BY <1>4 DEF Surrounded
    <3>2. PICK g \in G : g.id = NumberOf("cells", c)
      BY <2>1, <3>1, IdsOfIs
    <3> QED BY <1>5, <2>2, <3>2
  <2>5. NamedIn("cells", G) = Near(r)
    BY <2>3, <2>4 DEF NamedIn
  <2> QED BY <2>5 DEF G
<1>7. Near(r) = {c \in Cells \ Primary(r) : \E d \in Primary(r) :
                    Cardinality(mesh[c] \cap mesh[d]) >= MinConnections}
  <2>1. \A c : c \in Primary(r) <=> c \in Cells /\ part[c] = r
    BY <1>2, PrimaryIs
  <2>2. \A c, d \in Cells : Cardinality(mesh[c] \cap mesh[d]) >= MinConnections <=> Meet(c, d)
    BY <1>2, MeetingTouches
  <2>3. \A c, d : Meet(c, d) <=> Meet(d, c)
    BY DEF Meet
  <2> QED BY <2>1, <2>2, <2>3 DEF Near
<1>8. \A s \in Spaces : \A e : e \in Held(r, s) <=> e \in Owned(r, s) \/ e \in coloring[r][s].ghost
  BY DEF Held, Owned, Kinds
<1>9. NamedIn("cells", Held(r, "cells")) = Primary(r) \cup Near(r)
  BY <1>2, <1>3, <1>6, <1>8 DEF NamedIn
<1>10. NamedIn("vertices", Held(r, "vertices")) = VerticesAt(r)
  <2>1. \A i : Named("vertices", i) = i
    BY DEF Named
  <2>2. /\ IdsOf(coloring[r]["vertices"].exclusive) \cup IdsOf(coloring[r]["vertices"].shared)
           = OwnIds(r, "vertices")
        /\ IdsOf(coloring[r]["vertices"].ghost) = GhostIds(r, "vertices")
    BY <1>1, <1>2, ColoredIs DEF OwnIds
  <2>3. \A i : (\E e \in Held(r, "vertices") : e.id = i)
              <=> i \in OwnIds(r, "vertices") \cup GhostIds(r, "vertices")
    BY <1>2, <1>8, <2>2, IdsOfIs DEF Owned
  <2>4. \A i : (\E e \in Held(r, "vertices") : e.id = i) <=> i \in VerticesAt(r)
    BY <1>4, <2>3 DEF Surrounded
  <2> QED BY <2>1, <2>4 DEF NamedIn
<1> HIDE DEF own
<1>11. NamedIn("cells", coloring[r]["cells"].ghost)
       = {c \in Cells \ own : \E d \in own : Cardinality(mesh[c] \cap mesh[d]) >= MinConnections}
  BY <1>3, <1>6, <1>7
<1>12. UNION {mesh[c] : c \in NamedIn("cells", Held(r, "cells"))} = NamedIn("vertices", Held(r, "vertices"))
  BY <1>9, <1>10 DEF VerticesAt
<1> QED BY <1>11, <1>12 DEF own

-----------------------------------------------------------------------------
(* The numbers of the edges *)

\* The home keeps each edge once.
LEMMA DistinctIs ==
    ASSUME NEW S, NEW s \in Seq(S)
    PROVE  LET d == Distinct(s)
           IN  /\ d \in Seq(S) /\ Len(d) \in Nat /\ DOMAIN d = 1..Len(d)
               /\ ToSet(d) = ToSet(s)
               /\ \A k, l \in 1..Len(d) : d[k] = d[l] => k = l
<1> DEFINE F == {i \in DOMAIN s : \A j \in 1..i - 1 : s[j] # s[i]}
           first == Ordered(F)
           m == Cardinality(F)
           d == [k \in DOMAIN first |-> s[first[k]]]
<1>1. DOMAIN s = 1..Len(s) /\ Len(s) \in Nat /\ \A i \in 1..Len(s) : s[i] \in S
  OBVIOUS
<1>2. F \subseteq Int /\ IsFiniteSet(F) /\ F \subseteq 1..Len(s)
  <2>1. F \subseteq 1..Len(s) /\ IsFiniteSet(1..Len(s))
    BY <1>1, FS_Interval
  <2> HIDE DEF F
  <2>2. F \in SUBSET (1..Len(s)) /\ \A x \in 1..Len(s) : x \in Int
    BY <2>1
  <2>3. IsFiniteSet(F)
    BY <2>1, <2>2, FS_Subset
  <2> QED BY <2>2, <2>3
<1>3. Distinct(s) = d
  BY DEF Distinct
<1>4. /\ m \in Nat /\ DOMAIN first = 1..m /\ \A k \in 1..m : first[k] \in F
      /\ \A k, l \in 1..m : k < l => first[k] < first[l]
      /\ \A x \in F : \E k \in 1..m : first[k] = x
  <2>1. \A x \in F : Position(x, F) + 1 \in 1..m /\ first[Position(x, F) + 1] = x
    <3> HIDE DEF F
    <3> QED BY <1>2, OrderedIs
  <2>2. /\ m \in Nat /\ DOMAIN first = 1..m /\ \A k \in 1..m : first[k] \in F
        /\ \A k, l \in 1..m : k < l => first[k] < first[l]
    <3> HIDE DEF F
    <3> QED BY <1>2, OrderedIs
  <2> HIDE DEF F, m, first
  <2> QED BY <2>1, <2>2
<1>5. \A i \in F : \A j \in 1..i - 1 : s[j] # s[i]
  OBVIOUS
<1>6. \A i \in 1..Len(s) : \E a \in F : s[a] = s[i]
  <2> TAKE i \in 1..Len(s)
  <2> DEFINE I == {j \in 1..Len(s) : s[j] = s[i]}
  <2>1. I \in SUBSET Nat /\ I # {}
    BY <1>1
  <2>2. PICK a \in I : \A j \in I : a <= j
    <3> HIDE DEF I
    <3> QED BY <2>1, LeastIs
  <2>3. \A j \in 1..a - 1 : j \in 1..Len(s) /\ j < a /\ ~(a <= j)
    BY <1>1, <2>2
  <2>4. a \in F
    BY <1>1, <2>2, <2>3
  <2> QED BY <2>2, <2>4
<1> HIDE DEF F, first, m
<1>7. /\ DOMAIN d = 1..m /\ \A k \in 1..m : d[k] = s[first[k]] /\ d[k] \in S
      /\ \A k \in 1..m : first[k] \in 1..Len(s)
  BY <1>1, <1>2, <1>4
<1>8. d \in Seq(S) /\ Len(d) = m
  <2>1. d = [k \in 1..m |-> s[first[k]]] /\ \A k \in 1..m : s[first[k]] \in S
    BY <1>4, <1>7
  <2> QED BY <1>4, <2>1
<1>9. \A k, l \in 1..m : d[k] = d[l] => k = l
  <2>1. ASSUME NEW k \in 1..m, NEW l \in 1..m, k < l
        PROVE  d[k] # d[l]
    <3>1. first[k] < first[l] /\ first[l] \in F /\ first[k] \in 1..Len(s) /\ first[l] \in 1..Len(s)
      BY <1>4, <1>7, <2>1
    <3>2. first[k] \in 1..first[l] - 1
      BY <3>1
    <3> QED BY <1>5, <1>7, <3>1, <3>2
  <2> HIDE DEF d
  <2> TAKE k, l \in 1..m
  <2>2. k < l \/ l < k \/ k = l
    BY <1>4
  <2> QED BY <2>1, <2>2
<1>10. ToSet(d) = ToSet(s)
  <2>1. \A x : x \in ToSet(d) <=> \E k \in 1..m : s[first[k]] = x
    BY <1>7 DEF ToSet
  <2>2. \A x : x \in ToSet(s) <=> \E i \in 1..Len(s) : s[i] = x
    BY <1>1 DEF ToSet
  <2> HIDE DEF d
  <2>3. \A x : x \in ToSet(d) => x \in ToSet(s)
    BY <1>7, <2>1, <2>2
  <2>4. \A x : x \in ToSet(s) => x \in ToSet(d)
    <3> SUFFICES ASSUME NEW i \in 1..Len(s)
                 PROVE  s[i] \in ToSet(d)
      BY <2>2
    <3>1. PICK a \in F : s[a] = s[i]
      BY <1>6
    <3>2. PICK k \in 1..m : first[k] = a
      BY <1>4
    <3> QED BY <2>1, <3>1, <3>2
  <2> QED BY <2>3, <2>4
<1> QED BY <1>3, <1>4, <1>7, <1>8, <1>9, <1>10

\* Quotient and remainder are unique.
LEMMA QuotientIs ==
    ASSUME NEW K \in Nat, NEW a \in Nat, NEW c \in Nat, NEW b \in 0..K - 1, NEW d \in 0..K - 1,
           a * K + b = c * K + d
    PROVE  a = c /\ b = d
<1>1. ASSUME NEW x \in Nat, NEW y \in Nat, NEW u \in 0..K - 1, NEW v \in 0..K - 1, x < y
      PROVE  x * K + u < y * K + v
  <2> DEFINE t == y - x - 1
  <2>1. t \in Nat /\ y = x + 1 + t
    BY <1>1
  <2> HIDE DEF t
  <2>2. y * K = x * K + K + t * K
    BY <2>1
  <2>3. x * K \in Nat /\ t * K \in Nat /\ u < K /\ v >= 0
    BY <2>1
  <2> QED BY <2>2, <2>3
<1>2. a * K \in Nat /\ c * K \in Nat
  OBVIOUS
<1>3. ~(a < c)
  BY <1>1, <1>2
<1>4. ~(c < a)
  BY <1>1, <1>2
<1>5. a = c
  BY <1>3, <1>4
<1> QED BY <1>2, <1>5

\* An edge is its two vertices.
IsEdge(e) == e \in SUBSET Vertices /\ Cardinality(e) = 2

\* An edge is its two vertices.
LEMMA EdgeIs ==
    ASSUME Given, NEW e, IsEdge(e)
    PROVE  /\ Smallest(e) \in e /\ Largest(e) \in e /\ e = {Smallest(e), Largest(e)}
           /\ Smallest(e) \in Vertices /\ Smallest(e) \in Nat
           /\ Largest(Vertices) \in Nat /\ Largest(e) \in 0..Largest(Vertices)
<1> DEFINE s == Smallest(e)
           l == Largest(e)
           f == e \ {s}
<1>1. /\ IsFiniteSet(e) /\ e \in SUBSET Nat /\ e \in SUBSET Vertices /\ Cardinality(e) = 2
      /\ Vertices \in SUBSET Nat /\ IsFiniteSet(Vertices) /\ Vertices # {}
  <2>1. e \in SUBSET Vertices /\ Cardinality(e) = 2
    BY DEF IsEdge
  <2> QED BY <2>1, MeshIs, SomeVertices
<1>2. e # {}
  BY <1>1, FS_EmptySet
<1>3. s \in e /\ \A y \in e : s <= y
  BY <1>1, <1>2, LeastIs
<1>4. l \in e /\ \A y \in e : y <= l
  BY <1>1, <1>2, GreatestIs
<1>5. Largest(Vertices) \in Vertices /\ \A y \in Vertices : y <= Largest(Vertices)
  BY <1>1, GreatestIs
<1> HIDE DEF s, l
<1>6. IsFiniteSet(f) /\ Cardinality(f) = 1
  BY <1>1, <1>3, FS_RemoveElement
<1>7. PICK x : f = {x}
  <2> HIDE DEF f
  <2> QED BY <1>6, FS_Singleton
<1>8. x \in e /\ x # s /\ \A y \in e : y = s \/ y = x
  <2>1. x \in f
    BY <1>7
  <2>2. \A y \in e : y = s \/ y \in f
    OBVIOUS
  <2> QED BY <1>7, <2>1, <2>2
<1>9. s \in Nat /\ l \in Nat /\ x \in Nat
  BY <1>1, <1>3, <1>4, <1>8
<1>10. l = x
  <2>1. s <= x /\ x <= l /\ (l = s \/ l = x)
    BY <1>3, <1>4, <1>8
  <2> QED BY <1>8, <1>9, <2>1
<1>11. e = {s, l}
  BY <1>3, <1>4, <1>8, <1>10
<1>12. Largest(Vertices) \in Nat /\ l \in 0..Largest(Vertices) /\ s \in Vertices
  <2>1. l \in Vertices /\ s \in Vertices /\ Largest(Vertices) \in Nat
    BY <1>1, <1>3, <1>4, <1>5
  <2>2. l <= Largest(Vertices)
    BY <1>5, <2>1
  <2> QED BY <1>9, <2>1, <2>2
<1> QED BY <1>3, <1>4, <1>9, <1>11, <1>12 DEF s, l

\* Edges have distinct keys.
LEMMA EdgeKeyIs ==
    ASSUME Given, NEW e, NEW f, IsEdge(e), IsEdge(f)
    PROVE  EdgeKey(e) \in Int /\ (EdgeKey(e) = EdgeKey(f) => e = f)
<1> DEFINE K == 1 + Largest(Vertices)
<1>1. /\ e = {Smallest(e), Largest(e)} /\ Smallest(e) \in Nat
      /\ Largest(Vertices) \in Nat /\ Largest(e) \in 0..Largest(Vertices)
  BY EdgeIs
<1>2. f = {Smallest(f), Largest(f)} /\ Smallest(f) \in Nat /\ Largest(f) \in 0..Largest(Vertices)
  BY EdgeIs
<1>3. K \in Nat /\ Largest(e) \in 0..K - 1 /\ Largest(f) \in 0..K - 1
  BY <1>1, <1>2
<1>4. EdgeKey(e) = Smallest(e) * K + Largest(e) /\ EdgeKey(f) = Smallest(f) * K + Largest(f)
  BY DEF EdgeKey
<1> HIDE DEF K
<1>5. Smallest(e) * K + Largest(e) \in Int
  BY <1>1, <1>3
<1>6. EdgeKey(e) = EdgeKey(f) => Smallest(e) = Smallest(f) /\ Largest(e) = Largest(f)
  BY <1>1, <1>2, <1>3, <1>4, QuotientIs
<1> QED BY <1>1, <1>2, <1>4, <1>5, <1>6

\* The edges that a color sends to a home, each once.
LEMMA EdgeListIs ==
    ASSUME Given, NEW r, NEW q
    PROVE  /\ EdgeList(r, q) \in Seq(SUBSET Vertices)
           /\ ToSet(EdgeList(r, q)) = {e \in EdgesFrom(r) : Home(Smallest(e)) = q}
           /\ \A e \in EdgesFrom(r) : IsEdge(e)
<1> DEFINE S == {e \in EdgesFrom(r) : Home(Smallest(e)) = q}
           key == [e \in S |-> EdgeKey(e)]
<1>1. \A e \in EdgesFrom(r) : IsEdge(e)
  <2> SUFFICES ASSUME NEW c \in Primary(r), NEW e \in kSubset(2, mesh[c])
               PROVE  IsEdge(e)
    BY DEF EdgesFrom
  <2>1. c \in Cells /\ e \in SUBSET mesh[c] /\ Cardinality(e) = 2
    BY PrimaryIs DEF kSubset
  <2> QED BY <2>1 DEF IsEdge, Vertices
<1>2. IsFiniteSet(S)
  <2>1. S \in SUBSET (SUBSET Vertices)
    BY <1>1 DEF IsEdge
  <2>2. IsFiniteSet(SUBSET Vertices)
    BY MeshIs, FS_SUBSET
  <2> HIDE DEF S
  <2> QED BY <2>1, <2>2, FS_Subset
<1>3. \A e \in S : IsEdge(e) /\ e \in SUBSET Vertices
  BY <1>1 DEF IsEdge
<1>4. IsKey(key, S)
  <2> HIDE DEF S
  <2>1. \A e \in S : key[e] \in Int /\ key[e] = EdgeKey(e)
    BY <1>3, EdgeKeyIs
  <2>2. \A e, f \in S : EdgeKey(e) = EdgeKey(f) => e = f
    BY <1>3, EdgeKeyIs
  <2> HIDE DEF key
  <2> QED BY <1>2, <2>1, <2>2 DEF IsKey
<1>5. EdgeList(r, q) = OrderedBy(S, key)
  BY DEF EdgeList
<1> HIDE DEF S, key
<1>6. OrderedBy(S, key) \in Seq(S) /\ ToSet(OrderedBy(S, key)) = S
  BY <1>4, OrderedByIs
<1>7. OrderedBy(S, key) \in Seq(SUBSET Vertices)
  BY <1>3, <1>6
<1> QED BY <1>1, <1>5, <1>6, <1>7 DEF S

\* A home has the edges whose lowest vertex is there, each once.
LEMMA HomedIs ==
    ASSUME Given, NEW r \in Colors
    PROVE  /\ Len(Homed(r)) \in Nat /\ DOMAIN Homed(r) = 1..Len(Homed(r))
           /\ \A k, l \in 1..Len(Homed(r)) : Homed(r)[k] = Homed(r)[l] => k = l
           /\ \A k \in 1..Len(Homed(r)) : Home(Smallest(Homed(r)[k])) = r
           /\ \A q \in Colors : \A e \in EdgesFrom(q) : Home(Smallest(e)) = r =>
                 \E k \in 1..Len(Homed(r)) : Homed(r)[k] = e
<1> DEFINE V == SUBSET Vertices
           others == [i \in 1..NumColors |-> EdgesSent(i - 1, r)]
           s == EdgeList(r, r)
           t == FlattenSeq(others)
           h == Homed(r)
<1>1. \A q : /\ EdgeList(q, r) \in Seq(V)
             /\ \A e : e \in ToSet(EdgeList(q, r)) <=> e \in EdgesFrom(q) /\ Home(Smallest(e)) = r
  BY EdgeListIs
<1>2. \A q : /\ EdgesSent(q, r) \in Seq(V)
             /\ \A e : e \in ToSet(EdgesSent(q, r)) <=>
                   q # r /\ e \in EdgesFrom(q) /\ Home(Smallest(e)) = r
  <2> TAKE q
  <2>1. CASE q = r
    <3>1. EdgesSent(q, r) = <<>>
      BY <2>1 DEF EdgesSent
    <3>2. <<>> \in Seq(V) /\ \A e : e \notin ToSet(<<>>)
      BY DEF ToSet
    <3> HIDE DEF V
    <3> QED BY <2>1, <3>1, <3>2
  <2>2. CASE q # r
    <3>1. EdgesSent(q, r) = EdgeList(q, r)
      BY <2>2 DEF EdgesSent
    <3> HIDE DEF V
    <3> QED BY <1>1, <2>2, <3>1
  <2> QED BY <2>1, <2>2
<1>3. /\ DOMAIN others = 1..NumColors /\ others = [i \in 1..NumColors |-> others[i]]
      /\ \A i \in 1..NumColors : others[i] = EdgesSent(i - 1, r)
  OBVIOUS
<1> HIDE DEF V, others
<1>4. t \in Seq(V) /\ ToSet(t) = UNION {ToSet(others[i]) : i \in 1..NumColors}
  <2>1. \A i \in 1..NumColors : others[i] \in Seq(V)
    BY <1>2, <1>3
  <2> QED BY <1>3, <2>1, FlattenColors DEF Flat
<1>5. s \in Seq(V)
  BY <1>1
<1>6. Homed(r) = Distinct(s \o t)
  BY DEF Homed, others
<1> HIDE DEF s, t
<1>7. s \o t \in Seq(V) /\ ToSet(s \o t) = ToSet(s) \cup ToSet(t)
  <2>1. /\ s \o t \in Seq(V) /\ Len(s \o t) = Len(s) + Len(t)
        /\ Len(s) \in Nat /\ Len(t) \in Nat
        /\ \A i \in 1..Len(s) : (s \o t)[i] = s[i]
        /\ \A i \in 1..Len(t) : (s \o t)[Len(s) + i] = t[i]
    BY <1>4, <1>5
  <2>2. \A x : /\ x \in ToSet(s) <=> \E i \in 1..Len(s) : s[i] = x
               /\ x \in ToSet(t) <=> \E i \in 1..Len(t) : t[i] = x
               /\ x \in ToSet(s \o t) <=> \E i \in 1..Len(s \o t) : (s \o t)[i] = x
    BY <1>4, <1>5, <2>1 DEF ToSet
  <2>3. \A x : x \in ToSet(s) => x \in ToSet(s \o t)
    <3> SUFFICES ASSUME NEW i \in 1..Len(s)
                 PROVE  s[i] \in ToSet(s \o t)
      BY <2>2
    <3>1. i \in 1..Len(s \o t)
      BY <2>1
    <3> QED BY <2>1, <2>2, <3>1
  <2>4. \A x : x \in ToSet(t) => x \in ToSet(s \o t)
    <3> SUFFICES ASSUME NEW i \in 1..Len(t)
                 PROVE  t[i] \in ToSet(s \o t)
      BY <2>2
    <3>1. Len(s) + i \in 1..Len(s \o t)
      BY <2>1
    <3> QED BY <2>1, <2>2, <3>1
  <2>5. \A x : x \in ToSet(s \o t) => x \in ToSet(s) \/ x \in ToSet(t)
    <3> SUFFICES ASSUME NEW i \in 1..Len(s \o t)
                 PROVE  (s \o t)[i] \in ToSet(s) \/ (s \o t)[i] \in ToSet(t)
      BY <2>2
    <3>1. CASE i \in 1..Len(s)
      BY <2>1, <2>2, <3>1
    <3>2. CASE i \notin 1..Len(s)
      <4>1. i - Len(s) \in 1..Len(t) /\ Len(s) + (i - Len(s)) = i
        BY <2>1, <3>2
      <4>2. PICK j \in 1..Len(t) : i = Len(s) + j
        BY <4>1
      <4>3. (s \o t)[i] = t[j]
        BY <2>1, <4>2
      <4> QED BY <2>2, <4>3
    <3> QED BY <3>1, <3>2
  <2> QED BY <2>1, <2>3, <2>4, <2>5
<1>8. /\ h \in Seq(V) /\ Len(h) \in Nat /\ DOMAIN h = 1..Len(h)
      /\ ToSet(h) = ToSet(s) \cup ToSet(t)
      /\ \A k, l \in 1..Len(h) : h[k] = h[l] => k = l
  <2> DEFINE w == s \o t
  <2>1. w \in Seq(V) /\ ToSet(w) = ToSet(s) \cup ToSet(t) /\ h = Distinct(w)
    BY <1>6, <1>7
  <2> HIDE DEF w, h
  <2> QED BY <2>1, DistinctIs
<1>9. \A e : e \in ToSet(t) <=> \E q \in Colors : e \in ToSet(EdgesSent(q, r))
  <2>1. \A i \in 1..NumColors : i - 1 \in Colors
    BY ColorsAre
  <2>2. \A q \in Colors : q + 1 \in 1..NumColors /\ others[q + 1] = EdgesSent(q, r)
    <3> TAKE q \in Colors
    <3>1. PICK i \in 1..NumColors : i = q + 1 /\ i - 1 = q
      BY ColorsAre
    <3>2. others[i] = EdgesSent(q, r)
      BY <1>3, <3>1
    <3> QED BY <3>1, <3>2
  <2>3. ASSUME NEW e PROVE e \in ToSet(t) <=> \E i \in 1..NumColors : e \in ToSet(others[i])
    BY <1>4
  <2>4. \A i \in 1..NumColors : others[i] = EdgesSent(i - 1, r)
    BY <1>3
  <2> QED BY <2>1, <2>2, <2>3, <2>4
<1>10. \A e : e \in ToSet(h) <=> \E q \in Colors : e \in EdgesFrom(q) /\ Home(Smallest(e)) = r
  <2>1. \A e : e \in ToSet(s) <=> e \in EdgesFrom(r) /\ Home(Smallest(e)) = r
    BY <1>1 DEF s
  <2> HIDE DEF h
  <2> QED BY <1>2, <1>8, <1>9, <2>1
<1>11. \A e : e \in ToSet(h) <=> \E k \in 1..Len(h) : h[k] = e
  <2> HIDE DEF h
  <2> QED BY <1>8 DEF ToSet
<1>12. \A k \in 1..Len(h) : Home(Smallest(h[k])) = r
  BY <1>10, <1>11
<1>13. \A q \in Colors : \A e \in EdgesFrom(q) : Home(Smallest(e)) = r => \E k \in 1..Len(h) : h[k] = e
  BY <1>10, <1>11
<1> QED BY <1>8, <1>12, <1>13

-----------------------------------------------------------------------------
\* N pairs things with the numbers below T, one to one.
Numbering(N, T) ==
    /\ T \in Nat
    /\ \A p \in N : p[2] \in 0..T - 1
    /\ \A k \in 0..T - 1 : \E p \in N : p[2] = k
    /\ \A p, q \in N : p[2] = q[2] => p = q
    /\ \A p, q \in N : p[1] = q[1] => p = q

\* Pairs that differ in both parts and fill a range of numbers are as many as it.
LEMMA NumberingIs ==
    ASSUME NEW N, NEW T, Numbering(N, T)
    PROVE  /\ Cardinality({p[1] : p \in N}) = Cardinality(N)
           /\ {p[2] : p \in N} = 0..Cardinality(N) - 1
<1> DEFINE I == 0..T - 1
           f == [k \in I |-> CHOOSE p \in N : p[2] = k]
           X == {p[1] : p \in N}
           g == [p \in N |-> p[1]]
<1>1. T \in Nat /\ IsFiniteSet(I) /\ Cardinality(I) = T
  <2>1. T \in Nat
    BY DEF Numbering
  <2>2. IsFiniteSet(I) /\ Cardinality(I) = IF 0 > T - 1 THEN 0 ELSE T - 1 - 0 + 1
    BY <2>1, FS_Interval
  <2> QED BY <2>1, <2>2
<1> HIDE DEF I
<1>2. \A k \in I : f[k] \in N /\ f[k][2] = k
  BY DEF Numbering, I
<1>3. f \in Surjection(I, N)
  <2>1. f \in [I -> N]
    BY <1>2
  <2>2. ASSUME NEW p \in N PROVE \E k \in I : f[k] = p
    <3>1. p[2] \in I
      BY DEF Numbering, I
    <3>2. f[p[2]] \in N /\ f[p[2]][2] = p[2]
      BY <1>2, <3>1
    <3>3. f[p[2]] = p
      <4> HIDE DEF f
      <4> QED BY <3>2 DEF Numbering
    <3> QED BY <3>1, <3>3
  <2> HIDE DEF f
  <2> QED BY <2>1, <2>2 DEF Surjection
<1>4. f \in Injection(I, N)
  <2>1. f \in [I -> N]
    BY <1>2
  <2>2. \A k, l \in I : f[k] = f[l] => k = l
    <3> HIDE DEF f
    <3> QED BY <1>2
  <2> HIDE DEF f
  <2> QED BY <2>1, <2>2 DEF Injection, IsInjective
<1> HIDE DEF f
<1>5. IsFiniteSet(N) /\ Cardinality(N) = T
  BY <1>1, <1>3, <1>4, FS_Surjection
<1>6. g \in Surjection(N, X)
  BY DEF Surjection
<1>7. g \in Injection(N, X)
  <2>1. g \in [N -> X] /\ \A p, q \in N : g[p] = g[q] => p = q
    BY DEF Numbering
  <2> QED BY <2>1 DEF Injection, IsInjective
<1> HIDE DEF g, X
<1>8. Cardinality(X) = Cardinality(N)
  BY <1>5, <1>6, <1>7, FS_Surjection
<1>9. {p[2] : p \in N} = I
  BY DEF Numbering, I
<1> QED BY <1>5, <1>8, <1>9 DEF I, X

EdgeNumbers == UNION {EdgeIds(r) : r \in Colors}

\* Each edge has one number over all homes.
LEMMA EdgesNumbered ==
    ASSUME Given
    PROVE  Numbering(EdgeNumbers, EdgeDist[NumColors])
<1> DEFINE T == EdgeDist[NumColors]
           D == EdgeDist
           h == [r \in Colors |-> Homed(r)]
           N == EdgeNumbers
<1>1. \A r \in Colors : /\ h[r] = Homed(r) /\ Len(h[r]) \in Nat /\ DOMAIN h[r] = 1..Len(h[r])
                        /\ \A k, l \in 1..Len(h[r]) : h[r][k] = h[r][l] => k = l
                        /\ \A k \in 1..Len(h[r]) : Home(Smallest(h[r][k])) = r
  BY HomedIs
<1>2. /\ D \in [0..NumColors -> Nat] /\ D[0] = 0
      /\ \A q \in 0..NumColors - 1 : D[q + 1] = D[q] + Len(h[q])
      /\ \A p, q \in 0..NumColors : p <= q => D[p] <= D[q]
  <2>1. \A q \in Colors : EdgeCounts[q] \in Nat /\ EdgeCounts[q] = Len(h[q])
    BY <1>1 DEF EdgeCounts
  <2>2. \A q \in 0..NumColors - 1 : q \in Colors
    BY DEF Colors
  <2> HIDE DEF h
  <2> QED BY <2>1, <2>2, SumsAre DEF EdgeDist
<1>3. \A p : p \in N <=> \E r \in Colors : \E k \in 1..Len(h[r]) : p = <<h[r][k], D[r] + k - 1>>
  BY <1>1 DEF EdgeNumbers, EdgeIds
<1>4. \A r \in Colors : r \in 0..NumColors - 1 /\ r \in 0..NumColors /\ r + 1 \in 0..NumColors /\ r \in Nat
  BY ColorsAssumption DEF Colors
<1>5. NumColors \in 0..NumColors /\ NumColors \in Nat \ {0}
  BY ColorsAssumption
<1> HIDE DEF D, h, N
<1>6. \A r \in Colors : /\ D[r] \in Nat /\ D[r + 1] \in Nat /\ D[r + 1] = D[r] + Len(h[r])
                        /\ D[r + 1] <= D[NumColors] /\ D[NumColors] \in Nat
  <2> TAKE r \in Colors
  <2>1. r + 1 <= NumColors
    BY <1>4, <1>5
  <2> QED BY <1>2, <1>4, <1>5, <2>1
<1>7. \A r \in Colors : \A k \in 1..Len(h[r]) :
         D[r] + k - 1 \in Nat /\ D[r] <= D[r] + k - 1 /\ D[r] + k - 1 < D[r + 1]
  BY <1>1, <1>6
<1>8. T \in Nat
  BY <1>2, <1>5 DEF D
<1>9. ASSUME NEW p \in N PROVE p[2] \in 0..T - 1
  <2>1. PICK r \in Colors : \E k \in 1..Len(h[r]) : p = <<h[r][k], D[r] + k - 1>>
    BY <1>3
  <2>2. PICK k \in 1..Len(h[r]) : p = <<h[r][k], D[r] + k - 1>>
    BY <2>1
  <2>3. p[2] = D[r] + k - 1
    BY <2>2
  <2>4. D[r + 1] <= T
    BY <1>6 DEF D
  <2> QED BY <1>6, <1>7, <1>8, <2>3, <2>4
<1>10. ASSUME NEW n \in 0..T - 1 PROVE \E p \in N : p[2] = n
  <2> DEFINE S == {q \in 0..NumColors : D[q] > n}
  <2>1. S \in SUBSET Nat /\ S # {}
    <3>1. NumColors \in S
      BY <1>5, <1>8, <1>10 DEF D
    <3> QED BY <3>1
  <2>2. PICK b \in S : \A q \in S : b <= q
    <3> HIDE DEF S
    <3> QED BY <2>1, LeastIs
  <2>3. b \in 0..NumColors /\ D[b] > n /\ b # 0
    BY <1>2, <1>10, <2>2
  <2>4. PICK r \in Colors : b = r + 1
    <3>1. b - 1 \in Colors /\ b = b - 1 + 1
      BY <1>5, <2>3 DEF Colors
    <3> QED BY <3>1
  <2>5. ~(D[r] > n)
    <3>1. r \in S => b <= r
      BY <2>2
    <3>2. ~(b <= r) /\ r \in 0..NumColors
      BY <1>4, <2>4
    <3> QED BY <3>1, <3>2
  <2>6. D[r] <= n /\ n < D[r] + Len(h[r]) /\ n \in Nat
    BY <1>6, <1>8, <2>3, <2>4, <2>5
  <2>7. PICK k \in 1..Len(h[r]) : n = D[r] + k - 1
    <3>1. n - D[r] + 1 \in 1..Len(h[r]) /\ n = D[r] + (n - D[r] + 1) - 1
      BY <1>1, <1>6, <2>6
    <3> QED BY <3>1
  <2>8. <<h[r][k], D[r] + k - 1>> \in N
    BY <1>3
  <2>9. <<h[r][k], D[r] + k - 1>>[2] = n
    BY <2>7
  <2> QED BY <2>8, <2>9
<1>11. ASSUME NEW p \in N, NEW q \in N
       PROVE  (p[2] = q[2] => p = q) /\ (p[1] = q[1] => p = q)
  <2>1. PICK r \in Colors : \E k \in 1..Len(h[r]) : p = <<h[r][k], D[r] + k - 1>>
    BY <1>3
  <2>2. PICK k \in 1..Len(h[r]) : p = <<h[r][k], D[r] + k - 1>>
    BY <2>1
  <2>3. PICK t \in Colors : \E l \in 1..Len(h[t]) : q = <<h[t][l], D[t] + l - 1>>
    BY <1>3
  <2>4. PICK l \in 1..Len(h[t]) : q = <<h[t][l], D[t] + l - 1>>
    BY <2>3
  <2>5. /\ p[1] = h[r][k] /\ p[2] = D[r] + k - 1
        /\ q[1] = h[t][l] /\ q[2] = D[t] + l - 1
    BY <2>2, <2>4
  <2>6. \A x, y \in Colors : x < y => D[x + 1] <= D[y]
    <3> TAKE x, y \in Colors
    <3>1. x < y => x + 1 <= y /\ x + 1 \in 0..NumColors /\ y \in 0..NumColors
      BY <1>4
    <3> QED BY <1>2, <3>1
  <2>7. p[2] = q[2] => r = t
    <3>1. D[r] + k - 1 = D[t] + l - 1 => ~(r < t) /\ ~(t < r)
      <4>1. /\ D[r] + k - 1 \in Nat /\ D[r] <= D[r] + k - 1 /\ D[r] + k - 1 < D[r + 1]
            /\ D[t] + l - 1 \in Nat /\ D[t] <= D[t] + l - 1 /\ D[t] + l - 1 < D[t + 1]
        BY <1>7
      <4>2. D[r] \in Nat /\ D[t] \in Nat /\ D[r + 1] \in Nat /\ D[t + 1] \in Nat
        BY <1>6
      <4>3. (r < t => D[r + 1] <= D[t]) /\ (t < r => D[t + 1] <= D[r])
        BY <2>6
      <4> QED BY <4>1, <4>2, <4>3
    <3>2. r \in Nat /\ t \in Nat
      BY <1>4
    <3> QED BY <2>5, <3>1, <3>2
  <2>8. p[1] = q[1] => r = t
    <3>1. Home(Smallest(h[r][k])) = r /\ Home(Smallest(h[t][l])) = t
      BY <1>1
    <3>2. p[1] = q[1] => Home(Smallest(h[r][k])) = Home(Smallest(h[t][l]))
      BY <2>5
    <3> QED BY <3>1, <3>2
  <2>9. r = t /\ (p[2] = q[2] \/ p[1] = q[1]) => k = l
    <3>1. CASE p[2] = q[2] /\ r = t
      BY <1>6, <2>5, <3>1
    <3>2. CASE p[1] = q[1] /\ r = t
      BY <1>1, <2>5, <3>2
    <3> QED BY <3>1, <3>2
  <2> QED BY <2>2, <2>4, <2>7, <2>8, <2>9
<1> QED BY <1>8, <1>9, <1>10, <1>11 DEF Numbering, N

\* Every color has the number of each of its edges, from the edge's home.
LEMMA EdgesKnown ==
    ASSUME Given, NEW r \in Colors
    PROVE  /\ EdgesFrom(r) \subseteq {p[1] : p \in AllEdgeIds(r)}
           /\ EdgeIds(r) \subseteq AllEdgeIds(r) /\ AllEdgeIds(r) \subseteq EdgeNumbers
<1>1. \A q \in Colors : EdgeIds(q) \subseteq EdgeNumbers
  BY DEF EdgeNumbers
<1>2. \A q : EdgeIdsTo(q, r) \subseteq EdgeIds(q)
  BY DEF EdgeIdsTo
<1>3. EdgeIds(r) \subseteq AllEdgeIds(r) /\ AllEdgeIds(r) \subseteq EdgeNumbers
  BY <1>1, <1>2 DEF AllEdgeIds
<1>4. ASSUME NEW e \in EdgesFrom(r)
      PROVE  \E p \in AllEdgeIds(r) : p[1] = e
  <2>1. IsEdge(e)
    BY EdgeListIs
  <2>2. PICK q \in Colors : Home(Smallest(e)) = q
    <3>1. Smallest(e) \in Vertices
      BY <2>1, EdgeIs
    <3> QED BY <3>1, HomeIs
  <2>3. PICK k \in 1..Len(Homed(q)) : Homed(q)[k] = e
    BY <2>2, HomedIs
  <2>4. DOMAIN Homed(q) = 1..Len(Homed(q))
    BY HomedIs
  <2> DEFINE p == <<Homed(q)[k], EdgeDist[q] + k - 1>>
  <2>5. p \in EdgeIds(q)
    BY <2>4 DEF EdgeIds
  <2>6. p[1] = e
    BY <2>3
  <2> HIDE DEF p
  <2>7. CASE q = r
    BY <1>3, <2>5, <2>6, <2>7
  <2>8. CASE q # r
    <3>1. EdgesSent(r, q) = EdgeList(r, q)
      BY <2>8 DEF EdgesSent
    <3>2. e \in ToSet(EdgesSent(r, q))
      BY <2>2, <3>1, EdgeListIs
    <3>3. p \in EdgeIdsTo(q, r)
      BY <2>5, <2>6, <2>8, <3>2 DEF EdgeIdsTo
    <3>4. p \in AllEdgeIds(r)
      BY <3>3 DEF AllEdgeIds
    <3> QED BY <2>6, <3>4
  <2> QED BY <2>7, <2>8
<1>5. EdgesFrom(r) \subseteq {p[1] : p \in AllEdgeIds(r)}
  BY <1>4
<1> QED BY <1>3, <1>5

\* What a color knows of edges and ghost cells when it is done.
LEMMA NumbersAgree ==
    ASSUME IInv
    PROVE  IdsAgree
<1> SUFFICES ASSUME AllColored, scheme = "dcrs"
             PROVE  LET numbers == UNION {mine[r].edgeIds : r \in Colors} IN
                    /\ Cardinality({p[1] : p \in numbers}) = Cardinality(numbers)
                    /\ {p[2] : p \in numbers} = 0..Cardinality(numbers) - 1
                    /\ \A r \in Colors :
                          /\ EdgesOf(r) \subseteq {p[1] : p \in mine[r].edgeIds}
                          /\ mine[r].ghostCells = {<<g.id, mesh[Named("cells", g.id)]>> :
                                                      g \in coloring[r]["cells"].ghost}
  BY DEF IdsAgree
<1> DEFINE numbers == UNION {mine[r].edgeIds : r \in Colors}
<1>1. \A r \in Colors : Stage(r) \in 20..35
  BY AllThere
<1>2. Given /\ "cells" \in Spaces
  BY DEF IInv, Spaces
<1>3. \A r \in Colors : /\ Knows(r, "cells", CellsOf(r))
                        /\ mine[r].edgeIds = AllEdgeIds(r)
                        /\ mine[r].ghostCells = GhostVertsOf(r)
  <2> TAKE r \in Colors
  <2>1. KnowsAll(r, Stage(r))
    BY Placed DEF Situated
  <2>2. Stage(r) > 8 /\ Stage(r) > 14 /\ Stage(r) > 19
    BY <1>1
  <2> QED BY <2>1, <2>2 DEF KnowsAll, DcrsKnows, Knows
<1>4. numbers = EdgeNumbers
  <2>1. \A p : p \in numbers => p \in EdgeNumbers
    BY <1>2, <1>3, EdgesKnown
  <2>2. \A p : p \in EdgeNumbers => p \in numbers
    BY <1>2, <1>3, EdgesKnown DEF EdgeNumbers
  <2> QED BY <2>1, <2>2
<1> HIDE DEF numbers
<1>5. /\ Cardinality({p[1] : p \in numbers}) = Cardinality(numbers)
      /\ {p[2] : p \in numbers} = 0..Cardinality(numbers) - 1
  <2>1. Numbering(numbers, EdgeDist[NumColors])
    BY <1>2, <1>4, EdgesNumbered
  <2> QED BY <2>1, NumberingIs
<1>6. ASSUME NEW r \in Colors
      PROVE  EdgesOf(r) \subseteq {p[1] : p \in mine[r].edgeIds}
  <2>1. EdgesOf(r) = EdgesFrom(r)
    BY <1>2, <1>3, FromCells
  <2> QED BY <1>2, <1>3, <2>1, EdgesKnown
<1>7. ASSUME NEW r \in Colors
      PROVE  mine[r].ghostCells = {<<g.id, mesh[Named("cells", g.id)]>> :
                                      g \in coloring[r]["cells"].ghost}
  <2> DEFINE G == coloring[r]["cells"].ghost
             C == {x \in Cells : r \in CellUsers(x)}
  <2>1. IdsOf(G) = GhostIds(r, "cells")
    BY <1>1, <1>2, ColoredIs
  <2>2. \A i : i \in GhostIds(r, "cells") <=> \E c \in C : i = Id(c)
    <3> TAKE i
    <3>1. DcrsCells(r).ghost = {Entity(Id(c), part[c], Index(c) - 1, {r}) : c \in C}
      BY DEF DcrsCells
    <3>2. Col(r, "cells").ghost = DcrsCells(r).ghost
      BY DEF Col
    <3> HIDE DEF C
    <3>3. \A e : e \in Col(r, "cells").ghost
                <=> \E c \in C : e = Entity(Id(c), part[c], Index(c) - 1, {r})
      BY <3>1, <3>2
    <3> QED BY <3>3, IdsOfIs, EntityIs DEF GhostIds
  <2>3. \A c \in C : Named("cells", Id(c)) = c
    <3>1. \A c \in Cells : Named("cells", NumberOf("cells", c)) = c
      BY <1>1, <1>2, NamesAre DEF Entities
    <3> QED BY <3>1 DEF NumberOf
  <2>4. mine[r].ghostCells = {<<Id(c), mesh[c]>> : c \in C}
    BY <1>3 DEF GhostVertsOf
  <2> HIDE DEF G, C
  <2>5. ASSUME NEW g \in G
        PROVE  <<g.id, mesh[Named("cells", g.id)]>> \in {<<Id(c), mesh[c]>> : c \in C}
    <3>1. g.id \in GhostIds(r, "cells")
      BY <2>1, IdsOfIs
    <3>3. PICK c \in C : g.id = Id(c)
      BY <2>2, <3>1
    <3>2. Named("cells", g.id) = c
      BY <2>3, <3>3
    <3> QED BY <3>2, <3>3
  <2>6. ASSUME NEW c \in C
        PROVE  <<Id(c), mesh[c]>> \in {<<g.id, mesh[Named("cells", g.id)]>> : g \in G}
    <3>1. PICK g \in G : g.id = Id(c)
      BY <2>1, <2>2, IdsOfIs
    <3>2. Named("cells", g.id) = c
      BY <2>3, <3>1
    <3> QED BY <3>1, <3>2
  <2>7. mine[r].ghostCells = {<<g.id, mesh[Named("cells", g.id)]>> : g \in G}
    BY <2>4, <2>5, <2>6
  <2> QED BY <2>7 DEF G
<1> QED BY <1>5, <1>6, <1>7 DEF numbers

-----------------------------------------------------------------------------
(* The properties *)

\* Nothing that remap_shared_entities or a coloring asserts or looks up fails
\* (assert, map::at), whatever the order in which the colors get on, and when
\* all are done no message is left over.
THEOREM ColorsGetThrough == Spec => []AllGetThrough
  BY Inductive, GetThrough, PTL

\* The ghosts that color_entity and color_entities give a color of another are
\* what they give the other to share with it, at the offset it is kept at,
\* before remap_shared_entities and after.
THEOREM GhostsAgree == Spec => []GhostsMatchShared
  BY Inductive, MatchShared, PTL

\* After the exchanges (client_handler for the mesh, launch_dense_exchange for
\* fields) each ghost slot holds the row of the entity that its index map
\* names, as its owner wrote it.
THEOREM GhostsHoldOwnersRows == Spec => []GhostRowsAreOwners
  BY Inductive, RowsAreOwners, PTL

\* match_ids numbers each edge once and without holes, and
\* ghost_connectivity gives each color the vertices of its ghost cells.
THEOREM EdgeNumbersAgree == Spec => []IdsAgree
  BY Inductive, NumbersAgree, PTL

\* Each cell and vertex is exclusive or shared at one color and once: what
\* color_entities and the closure coloring decide color by color comes to one
\* owner for each.  With more connections than one asked for, a vertex may be
\* exclusive on two colors (dcrs_utils.h:813).
THEOREM EntitiesHaveOneOwner ==
    ASSUME MinConnections = 1
    PROVE  Spec => []OwnedOnce
<1>1. IInv => OwnedOnce
  BY OwnedIsOnce
<1> QED BY <1>1, Inductive, PTL

\* The ghost cells of a color are those that touch its own, and it holds every
\* vertex of every cell that it holds (the closures that the colorings take).
THEOREM HalosAreComplete ==
    ASSUME MinConnections = 1
    PROVE  Spec => []HaloComplete
<1>1. IInv => HaloComplete
  BY HaloIsComplete
<1> QED BY <1>1, Inductive, PTL
=============================================================================
