---------------------------- MODULE DcrsColoring ----------------------------
(***************************************************************************)
(* dcrs_utils.h: every rank has its part of the mesh.  migrate sends the   *)
(* cells to the colors the partitioner gave them and renumbers them;       *)
(* make_dcrs_distributed finds the neighbors of each cell through homes,   *)
(* ranks among which the vertex ids are divided; get_owner_info colors the *)
(* cells; match_ids numbers the edges, and color_entities colors the       *)
(* vertices, again through their homes; ghost_connectivity tells each      *)
(* color the vertices of its ghost cells.                                  *)
(***************************************************************************)
EXTENDS Coloring

CONSTANT MinConnections   \* the vertices that neighbors have in common

ASSUME ConnectionsAssumption == MinConnections \in Nat \ {0}

\* subdivide: where each part of n ids begins; the last parts get the rest.
Subdivide(n) == [r \in 0..NumColors |->
    LET quot == n \div NumColors
        rem  == n % NumColors
        late == r - (NumColors - rem)
    IN r * quot + IF late > 0 THEN late ELSE 0]

\* rank_owner: upper_bound, one back.
RankOwner(dist, i) == Cardinality({r \in 1..NumColors : dist[r] <= i})

\* The first cells of a rank, before any coloring.
NaiveCells(r) == {c \in Cells : RankOwner(Subdivide(Cardinality(Cells)), c) = r}

-----------------------------------------------------------------------------
(* migrate *)

CellsFor(r, q) == Ordered({c \in NaiveCells(r) : part[c] = q})
DcrsStart(r) == [q \in Colors |-> CellsFor(r, q)]

\* The cells that stay keep their order; those received follow, rank by rank.
Migrate(r) ==
    LET others == [i \in 1..NumColors |->
                      IF i - 1 = r THEN <<>> ELSE Received(r)[i - 1][r]]
        cells  == CellsFor(r, r) \o FlattenSeq(others)
    IN
    /\ Gathered(r, "migrate")
    /\ Round(r, "sizes", [cells |-> cells], Len(cells))

(* make_dcrs_distributed *)

\* The numbers of the cells begin at dist[r] on color r.
CellId(r, dist, i) == dist[r] + i - 1
Largest(S) == CHOOSE x \in S : \A y \in S : y <= x
Home(v) == RankOwner(Subdivide(1 + Largest(Vertices)), v)

\* The pairs of a vertex and a cell, all that color r knows and those for q.
LocalIncidence(r, dist) ==
    UNION {{<<v, CellId(r, dist, i)>> : v \in mesh[mine[r].cells[i]]} :
           i \in DOMAIN mine[r].cells}
HomedAt(q, pairs) == {p \in pairs : Home(p[1]) = q}

Distribute(r) ==
    LET dist == Sums(Received(r)) IN
    /\ Gathered(r, "sizes")
    /\ Round(r, "to_homes",
             [dist |-> dist, incidence |-> LocalIncidence(r, dist)],
             [q \in Colors |-> IF q = r THEN {}
                               ELSE HomedAt(q, LocalIncidence(r, dist))])

\* The home adds what it received, and answers each sender about its vertices.
AnswerFromHome(r) ==
    LET got   == [q \in Colors |-> Received(r)[q][r]]
        known == mine[r].incidence \cup UNION {got[q] : q \in Colors}
    IN
    /\ Gathered(r, "to_homes")
    /\ Round(r, "from_homes", [incidence |-> known],
             [q \in Colors |-> {p \in known : \E x \in got[q] : x[1] = p[1]}])

\* The vertices cell number i of r has in common with any other cell.
Connections(r, known, i, d) ==
    Cardinality({v \in mesh[mine[r].cells[i]] : <<v, d>> \in known})
\* Mutant: strictly more vertices than asked for.
NeighborsBeyond(r, known, i) ==
    {d \in {p[2] : p \in known} \ {CellId(r, mine[r].dist, i)} :
        Connections(r, known, i, d) > MinConnections}
DcrsNeighbors(r, known, i) ==
    {d \in {p[2] : p \in known} \ {CellId(r, mine[r].dist, i)} :
        Connections(r, known, i, d) >= MinConnections}

(* get_owner_info *)

\* The coloring of the cells: a cell with a neighbor elsewhere is shared with
\* the neighbor's owner, and the neighbor is a ghost.
OwnerInfo(r, neighbors) ==
    LET dist  == mine[r].dist
        away  == [i \in DOMAIN neighbors |->
                     {d \in neighbors[i] : RankOwner(dist, d) # r}]
        own   == {Entity(CellId(r, dist, i), r, i - 1,
                         {RankOwner(dist, d) : d \in away[i]}) : i \in DOMAIN neighbors}
    IN [exclusive |-> {e \in own : e.shared = {}},
        shared    |-> {e \in own : e.shared # {}},
        ghost     |-> {Entity(d, RankOwner(dist, d), d - dist[RankOwner(dist, d)], {r}) :
                          d \in UNION {away[i] : i \in DOMAIN neighbors}}]

\* The edges of r's cells in the order of its mesh definition, to the homes of
\* their lowest vertices.
EdgesOf(r) == UNION {kSubset(2, mesh[mine[r].cells[i]]) : i \in DOMAIN mine[r].cells}
EdgesAt(r, q) ==
    LET edges == {e \in EdgesOf(r) : Home(Smallest(e)) = q}
    IN OrderedBy(edges, [e \in edges |-> Smallest(e) * (1 + Largest(Vertices)) + Largest(e)])

ColorCells(r) ==
    LET known     == mine[r].incidence \cup UNION {Received(r)[q][r] : q \in Colors}
        neighbors == [i \in DOMAIN mine[r].cells |-> DcrsNeighbors(r, known, i)]
    IN
    /\ Gathered(r, "from_homes")
    /\ Round(r, "edge_homes", [cellColoring |-> OwnerInfo(r, neighbors)],
             [q \in Colors |-> IF q = r THEN <<>> ELSE EdgesAt(r, q)])

-----------------------------------------------------------------------------
(* match_ids *)

\* The home numbers its own edges, then those it received, each once.
Distinct(s) ==
    LET firsts == Ordered({i \in DOMAIN s : \A j \in 1..i - 1 : s[j] # s[i]})
    IN [k \in DOMAIN firsts |-> s[firsts[k]]]

NumberEdges(r) ==
    LET got  == [i \in 1..NumColors |-> Received(r)[i - 1][r]]
        here == Distinct(EdgesAt(r, r) \o FlattenSeq(got))
    IN
    /\ Gathered(r, "edge_homes")
    /\ Round(r, "edge_counts",
             [homed |-> here, senders |-> [q \in Colors |-> ToSet(got[q + 1])]], Len(here))

\* Mutant: each home numbers from zero.
NoBase(r, counts) == 0

\* Its numbers begin after those of the homes before it.
EdgeBase(r, counts) == Sums(counts)[r]

ShareEdgeIds(r) ==
    LET id == [i \in DOMAIN mine[r].homed |-> EdgeBase(r, Received(r)) + i - 1]
        ids == {<<mine[r].homed[i], id[i]>> : i \in DOMAIN id}
    IN
    /\ Gathered(r, "edge_counts")
    /\ Round(r, "edge_ids", [edgeIds |-> ids],
             [q \in Colors |-> {p \in ids : q # r /\ p[1] \in mine[r].senders[q]}])

(* color_entities *)

\* The specialization's order of a rank's vertices; here, any but that of ids.
LocalVertices(r) ==
    Reverse(Ordered(UNION {mesh[mine[r].cells[i]] : i \in DOMAIN mine[r].cells}))
VerticesOf(r, c) == mesh[mine[r].cells[c.offset + 1]]

MatchIds(r) ==
    /\ Gathered(r, "edge_ids")
    /\ Round(r, "shared_cells",
             [edgeIds |-> mine[r].edgeIds \cup UNION {Received(r)[q][r] : q \in Colors}],
             [q \in Colors |-> UNION {VerticesOf(r, c) :
                 c \in {x \in mine[r].cellColoring.shared : q # r /\ q \in x.shared}}])

\* The vertices of shared cells may be shared: their homes learn who has them.
PotentialShared(r) == UNION {VerticesOf(r, c) : c \in mine[r].cellColoring.shared}
Claims(r, q) ==
    {Entity(LocalVertices(r)[i], r, i - 1, {}) :
        i \in {j \in DOMAIN LocalVertices(r) :
                  /\ LocalVertices(r)[j] \in PotentialShared(r)
                  /\ Home(LocalVertices(r)[j]) = q}}

ClaimVertices(r) ==
    /\ Gathered(r, "shared_cells")
    /\ Round(r, "claims", [potentialGhost |-> UNION {Received(r)[q][r] : q \in Colors}],
             [q \in Colors |-> IF q = r THEN {} ELSE Claims(r, q)])

\* Mutant: the home keeps what each color claims.
EveryClaim(claims) == claims

\* The lowest claimant owns a vertex.
Lowest(claims) == {e \in claims : \A d \in claims : d.id = e.id => e.rank <= d.rank}

ClaimGhosts(r) ==
    /\ Gathered(r, "claims")
    /\ Round(r, "ghost_requests",
             [owners |-> Lowest(Claims(r, r) \cup UNION {Received(r)[q][r] : q \in Colors})],
             [q \in Colors |-> {v \in mine[r].potentialGhost : q # r /\ Home(v) = q}])

\* The home adds the colors that want a vertex as a ghost to its entry, and
\* tells them and the owner; a vertex that nobody claims ends the program.
GhostRanks(r, e) ==
    {q \in Colors : IF q = r THEN Home(e.id) = r /\ e.id \in mine[r].potentialGhost
                             ELSE e.id \in Received(r)[q][r]} \ {e.rank}
ReturnOwners(r) ==
    LET table  == {[e EXCEPT !.shared = GhostRanks(r, e)] : e \in mine[r].owners}
        wanted == HomedAt(r, {<<v, r>> : v \in mine[r].potentialGhost})
                  \cup UNION {{<<v, q>> : v \in Received(r)[q][r]} : q \in Colors}
    IN
    /\ Gathered(r, "ghost_requests")
    /\ IF \E w \in wanted : \A e \in table : e.id # w[1] THEN Abort(r)
       ELSE Round(r, "owners", [owners |-> table],
                  [q \in Colors |-> {e \in table : q # r /\ (q = e.rank \/ q \in e.shared)}])

\* The coloring of the vertices, from the home's own entries and those received.
VertexColoring(r, table) ==
    [exclusive |-> {Entity(LocalVertices(r)[i], r, i - 1, {}) :
                       i \in {j \in DOMAIN LocalVertices(r) :
                                 LocalVertices(r)[j] \notin PotentialShared(r)}},
     shared    |-> {e \in table : e.rank = r},
     ghost     |-> {[e EXCEPT !.shared = {}] :
                       e \in {x \in table : x.rank # r /\ x.id \in mine[r].potentialGhost}}]

\* ghost_connectivity: the sharers of a cell get its vertices.
ConnectivityFor(r, q) ==
    {<<c.id, VerticesOf(r, c)>> : c \in {x \in mine[r].cellColoring.shared : q \in x.shared}}

\* Two owners of a vertex, or one without users, fail an assertion.
ColorEntities(r) ==
    LET table    == mine[r].owners \cup UNION {Received(r)[q][r] : q \in Colors}
        vertices == VertexColoring(r, table)
    IN
    /\ Gathered(r, "owners")
    /\ IF \/ \E d, e \in table : d.id = e.id /\ d # e
          \/ \E e \in vertices.shared : e.shared = {}
       THEN Abort(r)
       ELSE Round(r, "connectivity", [vertexColoring |-> vertices],
                  [q \in Colors |-> IF q = r THEN {} ELSE ConnectivityFor(r, q)])

GhostConnectivity(r) ==
    LET cells    == mine[r].cellColoring
        vertices == mine[r].vertexColoring
    IN
    /\ Gathered(r, "connectivity")
    /\ Keep(r, [ghostCells |-> UNION {Received(r)[q][r] : q \in Colors}])
    /\ coloring' = [coloring EXCEPT ![r] = [cells |-> cells, vertices |-> vertices]]
    /\ Post(r, [cells |-> Sizes(cells), vertices |-> Sizes(vertices)])
    /\ Goto(r, "info")
    /\ UNCHANGED <<mesh, part, scheme, wire, info>>

DcrsStep(r) ==
    /\ scheme = "dcrs"
    /\ \/ Migrate(r) \/ Distribute(r) \/ AnswerFromHome(r) \/ ColorCells(r)
       \/ NumberEdges(r) \/ ShareEdgeIds(r) \/ MatchIds(r)
       \/ ClaimVertices(r) \/ ClaimGhosts(r) \/ ReturnOwners(r)
       \/ ColorEntities(r) \/ GhostConnectivity(r)
=============================================================================
