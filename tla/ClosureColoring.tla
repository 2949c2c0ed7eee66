-------------------------- MODULE ClosureColoring ---------------------------
(***************************************************************************)
(* add_colorings: every rank has the whole mesh.  The cells are colored by *)
(* the partitioner; a rank finds its ghosts as the neighbors of its cells, *)
(* asks all ranks who owns them (communicator_t::get_primary_info), and    *)
(* colors the vertices by the lowest rank among the cells that reference   *)
(* them (color_entity), which every rank works out for itself from what it *)
(* learned about its nearest and next nearest neighbors.                   *)
(***************************************************************************)
EXTENDS Coloring

Primary(r) == {c \in Cells : part[c] = r}

\* entity_neighbors: a set of cells and those that share vertices with them.
EntityNeighbors(S) ==
    S \cup {d \in Cells : \E c \in S : c # d /\ Cardinality(mesh[c] \cap mesh[d]) > 0}

Closure(r)   == EntityNeighbors(Primary(r))
Nearest(r)   == Closure(r) \ Primary(r)
NextNearest(r) == EntityNeighbors(Nearest(r)) \ Closure(r)
\* Mutant: the vertices are colored with the nearest neighbors alone.
NearestOnly(r) == Nearest(r)
AllNeighbors(r) == Nearest(r) \cup NextNearest(r)

ClosureStart(r) == Ordered(Nearest(r))

\* get_intersection_info: which of my neighbors each other color has as well.
GetIntersectionInfo(r) ==
    /\ Gathered(r, "intersection")
    /\ Round(r, "nn_requests",
             [intersections |-> [q \in Colors \ {r} |->
                                    ToSet(Received(r)[q]) \cap Nearest(r)]],
             Ordered(Nearest(r)))

\* get_primary_info, first half: who else asks for my cells, and the offsets
\* of those each color asks for, None in place of the others.
LocalUsers(r) == [c \in Primary(r) |->
                     {q \in Colors \ {r} : c \in ToSet(Received(r)[q])}]
OffsetOf(r, c) == Position(c, Primary(r))
Answers(r) == [q \in Colors |-> [i \in DOMAIN Received(r)[q] |->
                  LET c == Received(r)[q][i] IN
                  IF q # r /\ c \in Primary(r) THEN OffsetOf(r, c) ELSE None]]

\* Second half: the i-th answer is about the i-th request.
RemoteInfo(r, requests) ==
    UNION {{Entity(Ordered(requests)[i], q, Received(r)[q][r][i], {}) :
               i \in {j \in DOMAIN Received(r)[q][r] : Received(r)[q][r][j] # None}} :
           q \in Colors \ {r}}

AnswerNearest(r) ==
    /\ Gathered(r, "nn_requests")
    /\ Round(r, "nn_answers", [users |-> LocalUsers(r)], Answers(r))

CollectNearest(r) ==
    /\ Gathered(r, "nn_answers")
    /\ Round(r, "all_requests", [nearest |-> RemoteInfo(r, Nearest(r))],
             Ordered(AllNeighbors(r)))

AnswerAll(r) ==
    /\ Gathered(r, "all_requests")
    /\ Round(r, "all_answers", mine[r], Answers(r))

-----------------------------------------------------------------------------
(* color_entity *)

EntityClosure(r) == UNION {mesh[c] : c \in Closure(r)}

\* The colors whose cells, as far as r knows, reference vertex v.
ReferencingRanks(r, v, remote) ==
    {e.rank : e \in {x \in remote : x.id \in Referencers(v)}}
    \cup (IF Referencers(v) \subseteq {x.id : x \in remote} THEN {} ELSE {r})

MinRank(r, v, remote) == Smallest(ReferencingRanks(r, v, remote))

\* Mutant: the colors that reach v over a third color's cell are left out.
DirectSharers(r, v, remote) ==
    {e.rank : e \in {x \in remote : x.id \in Referencers(v)}}
    \cup UNION {mine[r].users[c] : c \in Referencers(v) \cap Primary(r)}

\* The colors that own a cell of v, ask for one of mine or have a neighbor
\* in common with me that references it.
Sharers(r, v, remote) ==
    {e.rank : e \in {x \in remote : x.id \in Referencers(v)}}
    \cup {q \in Colors \ {r} : mine[r].intersections[q] \cap Referencers(v) # {}}
    \cup UNION {mine[r].users[c] : c \in Referencers(v) \cap Primary(r)}

\* The vertices of r's closure, by owner; its own with offsets in id order.
OwnedBy(q, r, remote) == {v \in EntityClosure(r) : MinRank(r, v, remote) = q}
OwnVertices(r, remote) ==
    LET own == OwnedBy(r, r, remote) IN
    {Entity(v, r, Position(v, own), Sharers(r, v, remote)) : v \in own}

ColorVertices(r) ==
    /\ Gathered(r, "all_answers")
    /\ LET remote   == RemoteInfo(r, AllNeighbors(r))
           requests == [q \in Colors |-> IF q = r THEN {} ELSE OwnedBy(q, r, remote)]
       IN Round(r, "request_counts",
                [vertices |-> OwnVertices(r, remote), requests |-> requests],
                [q \in Colors |-> Cardinality(requests[q])])

\* get_entity_info: the ids I need the offsets of, to their owners, ...
Asking(r) == {q \in Colors : mine[r].requests[q] # {}}
SendRequests(r) ==
    /\ Gathered(r, "request_counts")
    /\ Keep(r, [counts |-> [q \in Colors |-> Received(r)[q][r]]])
    /\ Deliver(r, {}, Asking(r), [q \in Colors |-> Ordered(mine[r].requests[q])])
    /\ Goto(r, "requests")
    /\ UNCHANGED <<mesh, part, scheme, posted, coloring, info>>

\* ... an answer to each request; an id that I do not own has offset 0.
AnswerRequests(r) ==
    LET askers == {q \in Colors : mine[r].counts[q] > 0}
        offset(v) == IF \E e \in mine[r].vertices : e.id = v
                     THEN (CHOOSE e \in mine[r].vertices : e.id = v).offset
                     ELSE 0
    IN
    /\ pc[r] = "requests"
    /\ Arrived(r, askers)
    /\ Deliver(r, askers, askers, [q \in Colors |->
           IF q \in askers
           THEN [i \in DOMAIN Head(wire[q][r]) |-> offset(Head(wire[q][r])[i])]
           ELSE <<>>])
    /\ Goto(r, "answers")
    /\ UNCHANGED <<mesh, part, scheme, posted, mine, coloring, info>>

\* The offsets come back as a set: the i-th smallest goes to the i-th id.
GhostVertices(r) ==
    UNION {LET ids     == Ordered(mine[r].requests[q])
               offsets == Ordered(ToSet(Head(wire[q][r])))
           IN {Entity(ids[i], q, IF i \in DOMAIN offsets THEN offsets[i] ELSE None, {}) :
                  i \in DOMAIN ids} : q \in Asking(r)}

\* What add_colorings then gives the context, cells and vertices.
CellEntities(r) == {Entity(c, r, Position(c, Primary(r)), mine[r].users[c]) : c \in Primary(r)}
FinishColoring(r) ==
    LET split(own, ghosts) ==
            [exclusive |-> {e \in own : e.shared = {}},
             shared    |-> {e \in own : e.shared # {}}, ghost |-> ghosts]
        cells    == split(CellEntities(r), mine[r].nearest)
        vertices == split(mine[r].vertices, GhostVertices(r))
    IN
    /\ pc[r] = "answers"
    /\ Arrived(r, Asking(r))
    /\ Deliver(r, Asking(r), {}, <<>>)
    /\ coloring' = [coloring EXCEPT ![r] = [cells |-> cells, vertices |-> vertices]]
    /\ Post(r, [cells |-> Sizes(cells), vertices |-> Sizes(vertices)])
    /\ Goto(r, "info")
    /\ UNCHANGED <<mesh, part, scheme, mine, info>>

ClosureStep(r) ==
    /\ scheme = "closure"
    /\ \/ GetIntersectionInfo(r)
       \/ AnswerNearest(r) \/ CollectNearest(r) \/ AnswerAll(r)
       \/ ColorVertices(r)
       \/ SendRequests(r) \/ AnswerRequests(r) \/ FinishColoring(r)
=============================================================================
