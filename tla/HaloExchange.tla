---------------------------- MODULE HaloExchange ----------------------------
(***************************************************************************)
(* From a coloring to the copies of ghosts, in the MPI backend with        *)
(* aggregated messages (FLECSI_USE_AGGCOMM).  remap_shared_entities gives  *)
(* the shared entities offsets of their own and tells their users;         *)
(* runtime_driver maps the local storage, exclusive before shared before   *)
(* ghost; register_field_metadata turns each color's coloring into the     *)
(* runs of memory that it packs for and unpacks from each other color; and *)
(* the exchange copies them.  No message says which entity a number or a   *)
(* row belongs to: both sides walk lists of their own, each in id order.   *)
(***************************************************************************)
EXTENDS ClosureColoring, DcrsColoring

VARIABLES
    space,      \* the index space each color is at, cells before vertices
    indexMap,   \* index_map_: the entity in each local slot, by color and space
    rows,       \* a dense field: what each color's slots hold
    ents        \* the entities of the data client, the same way

vars == <<coloringVars, space, indexMap, rows, ents>>
fieldVars == <<indexMap, rows, ents>>

\* The colorings that runtime_driver starts from.
Init ==
    /\ mesh \in Meshes
    /\ part \in [Cells -> Colors]
    /\ scheme \in {"closure", "dcrs"}
    /\ scheme = "dcrs" => \A r \in Colors : \E c \in Cells : part[c] = r
    /\ pc = [r \in Colors |-> IF scheme = "dcrs" THEN "migrate" ELSE "intersection"]
    /\ posted = [r \in Colors |->
                    <<IF scheme = "dcrs" THEN DcrsStart(r) ELSE ClosureStart(r)>>]
    /\ wire = [q \in Colors |-> [r \in Colors |-> <<>>]]
    /\ mine = [r \in Colors |-> [users |-> <<>>]]
    /\ coloring = [r \in Colors |-> [s \in Spaces |-> NoColoring]]
    /\ info = [r \in Colors |-> <<>>]
    /\ indexMap = [r \in Colors |-> [s \in Spaces |-> <<>>]]
    /\ rows = indexMap
    /\ ents = indexMap
    /\ space = [r \in Colors |-> "cells"]

-----------------------------------------------------------------------------
Shared(r, s) == ById(coloring[r][s].shared)
Ghosts(r, s) == ById(coloring[r][s].ghost)
Owners(r, s) == {g.rank : g \in coloring[r][s].ghost}
Users(r, s)  == UNION {e.shared : e \in coloring[r][s].shared}

\* Those of a list that concern color q, and their places in the list.
UsedBy(q, list)    == Ordered({i \in DOMAIN list : q \in list[i].shared})
OwnedHere(q, list) == Ordered({i \in DOMAIN list : list[i].rank = q})

(* remap_shared_entities *)

\* The loops over coloring_info_: the cells, then the vertices, then what follows.
NextSpace(r, again, after) ==
    /\ Goto(r, IF space[r] = "cells" THEN again ELSE after)
    /\ space' = [space EXCEPT ![r] = IF @ = "cells" THEN "vertices" ELSE "cells"]

\* The i-th shared entity gets offset i; its users are told, in that order.
RenumberShared(r, s) ==
    LET list == Shared(r, s)
        new  == {[list[i] EXCEPT !.offset = i - 1] : i \in DOMAIN list}
    IN
    /\ pc[r] = "renumber"
    /\ IF r \in Users(r, s) \cup Owners(r, s) THEN Abort(r) /\ UNCHANGED space
       ELSE /\ coloring' = [coloring EXCEPT ![r][s].shared = new]
            /\ Deliver(r, {}, Users(r, s), [q \in Colors |->
                   [k \in DOMAIN UsedBy(q, list) |-> UsedBy(q, list)[k] - 1]])
            /\ Goto(r, "collect")
            /\ UNCHANGED <<space, mesh, part, scheme, posted, mine, info>>
    /\ UNCHANGED fieldVars

\* The k-th ghost of an owner gets the k-th number the owner sent; a message
\* longer than its receive buffer is an error, and a shorter one leaves zeros.
CollectOffsets(r, s) ==
    LET list == Ghosts(r, s)
        Place(i) == Cardinality({j \in 1..i : list[j].rank = list[i].rank})
        Number(i) == LET sent == Head(wire[list[i].rank][r]) IN
                     IF Place(i) \in DOMAIN sent THEN sent[Place(i)] ELSE 0
    IN
    /\ pc[r] = "collect"
    /\ Arrived(r, Owners(r, s))
    /\ IF \E q \in Owners(r, s) : Len(Head(wire[q][r])) > Len(OwnedHere(q, list))
       THEN Abort(r) /\ UNCHANGED space
       ELSE /\ coloring' = [coloring EXCEPT ![r][s].ghost =
                   {Entity(list[i].id, list[i].rank, Number(i), {}) : i \in DOMAIN list}]
            /\ Deliver(r, Owners(r, s), {}, <<>>)
            /\ NextSpace(r, "renumber", "map")
            /\ UNCHANGED <<mesh, part, scheme, posted, mine, info>>
    /\ UNCHANGED fieldVars

StartRemap(r) ==
    /\ pc[r] = "colored"
    /\ Goto(r, "renumber")
    /\ UNCHANGED <<mesh, part, scheme, posted, wire, mine, coloring, info, space, fieldVars>>

-----------------------------------------------------------------------------
(* runtime_driver: the index maps, and the owner's first values *)

Ids(S) == LET list == ById(S) IN [i \in DOMAIN list |-> list[i].id]
LocalIds(r, s) ==
    Ids(coloring[r][s].exclusive) \o Ids(coloring[r][s].shared) \o Ids(coloring[r][s].ghost)

NumExclusive(r, s) == info[r][s][r].sizes.exclusive
NumShared(r, s)    == info[r][s][r].sizes.shared
NumOwned(r, s)     == NumExclusive(r, s) + NumShared(r, s)

\* The tasks of the program have written to the entities each color owns.
MapIndices(r) ==
    LET written(s) == [i \in DOMAIN LocalIds(r, s) |->
                          IF i <= NumOwned(r, s) THEN LocalIds(r, s)[i] ELSE None]
    IN
    /\ pc[r] = "map"
    /\ indexMap' = [indexMap EXCEPT ![r] = [s \in Spaces |-> LocalIds(r, s)]]
    /\ rows' = [rows EXCEPT ![r] = [s \in Spaces |-> written(s)]]
    /\ ents' = [ents EXCEPT ![r] = [s \in Spaces |-> written(s)]]
    /\ Goto(r, "send_entities")
    /\ UNCHANGED <<space, mesh, part, scheme, posted, wire, mine, coloring, info>>

(* register_field_metadata: runs <<start, length>> *)

\* The runs of a list of places that begin at those of Starts.
RunsFrom(places, Starts) ==
    LET first  == Ordered(Starts)
        end(j) == IF j < Len(first) THEN first[j + 1] ELSE Len(places) + 1
    IN [j \in DOMAIN first |-> <<places[first[j]], end(j) - first[j]>>]
\* Mutant: a run goes on over a gap.
RunsOverGaps(places) == RunsFrom(places, DOMAIN places \cap {1})
\* A place that does not follow on the one before it begins a run.
Runs(places) ==
    RunsFrom(places, {k \in DOMAIN places : k = 1 \/ places[k] # places[k - 1] + 1})

\* The rows of the ghost region that q's message fills, and the rows of the
\* shared region that the message to q is packed from.
GhostIndices(r, s, q) ==
    LET at == OwnedHere(q, Ghosts(r, s)) IN Runs([k \in DOMAIN at |-> at[k] - 1])
SharedIndices(r, s, q) ==
    LET list == Shared(r, s)
        at   == UsedBy(q, list)
    IN Runs([k \in DOMAIN at |-> list[at[k]].offset])

\* The places that the runs stand for, one after the other; how many they are.
Expand(runs) == FlattenSeq([k \in DOMAIN runs |->
                    [i \in 1..runs[k][2] |-> runs[k][1] + i - 1]])
FieldSize(runs) == Len(Expand(runs))

-----------------------------------------------------------------------------
(* task_epilog_t::client_handler: the entities of the mesh themselves *)

Pack(buf, first, places) ==
    [k \in DOMAIN places |-> buf[first + places[k] + 1]]
\* The rows at places[q] from first on replaced by those of msg[q], for each
\* sender q; no two of them have a place in common.
Unpack(buf, first, places, msg) ==
    LET news == UNION {{<<first + places[q][k] + 1, msg[q][k]>> :
                            k \in DOMAIN places[q] \cap DOMAIN msg[q]} : q \in DOMAIN msg}
    IN [i \in DOMAIN buf |-> IF \E n \in news : n[1] = i
                             THEN (CHOOSE n \in news : n[1] = i)[2]
                             ELSE buf[i]]
\* The messages that r has got, one of each color of Froms.
Got(r, Froms) == [q \in Froms |-> Head(wire[q][r])]

SendEntities(r, s) ==
    LET list == Shared(r, s)
        offsets(q) == [k \in DOMAIN UsedBy(q, list) |-> list[UsedBy(q, list)[k]].offset]
    IN
    /\ pc[r] = "send_entities"
    /\ Deliver(r, {}, Users(r, s), [q \in Colors |->
           IF q \in Users(r, s) THEN Pack(ents[r][s], NumExclusive(r, s), offsets(q)) ELSE <<>>])
    /\ Goto(r, "get_entities")
    /\ UNCHANGED <<mesh, part, scheme, posted, mine, coloring, info, space, fieldVars>>

\* Each ghost in turn takes the next entity its owner sent, and keeps its id.
GetEntities(r, s) ==
    LET at(q)  == OwnedHere(q, Ghosts(r, s))
        places == [q \in Owners(r, s) |-> [k \in DOMAIN at(q) |-> at(q)[k] - 1]]
    IN
    /\ pc[r] = "get_entities"
    /\ Arrived(r, Owners(r, s))
    /\ ents' = [ents EXCEPT ![r][s] =
                   Unpack(@, NumOwned(r, s), places, Got(r, Owners(r, s)))]
    /\ Deliver(r, Owners(r, s), {}, <<>>)
    /\ NextSpace(r, "send_entities", "send_rows")
    /\ UNCHANGED <<mesh, part, scheme, posted, mine, coloring, info, indexMap, rows>>

(* launch_dense_exchange, for a field of each index space *)

Receivers(r, s) == {q \in Colors : FieldSize(SharedIndices(r, s, q)) > 0}
Senders(r, s)   == {q \in Colors : FieldSize(GhostIndices(r, s, q)) > 0}

SendRows(r, s) ==
    /\ pc[r] = "send_rows"
    /\ Deliver(r, {}, Receivers(r, s), [q \in Colors |->
           Pack(rows[r][s], NumExclusive(r, s), Expand(SharedIndices(r, s, q)))])
    /\ Goto(r, "get_rows")
    /\ UNCHANGED <<mesh, part, scheme, posted, mine, coloring, info, space, fieldVars>>

GetRows(r, s) ==
    /\ pc[r] = "get_rows"
    /\ Arrived(r, Senders(r, s))
    /\ IF \E q \in Senders(r, s) :
             Len(Head(wire[q][r])) > FieldSize(GhostIndices(r, s, q))
       THEN Abort(r) /\ UNCHANGED <<rows, space>>
       ELSE /\ rows' = [rows EXCEPT ![r][s] =
                   Unpack(@, NumOwned(r, s),
                          [q \in Senders(r, s) |-> Expand(GhostIndices(r, s, q))],
                          Got(r, Senders(r, s)))]
            /\ Deliver(r, Senders(r, s), {}, <<>>)
            /\ NextSpace(r, "send_rows", "done")
            /\ UNCHANGED <<mesh, part, scheme, posted, mine, coloring, info>>
    /\ UNCHANGED <<indexMap, ents>>

-----------------------------------------------------------------------------
Color(r) == (ClosureStep(r) \/ DcrsStep(r) \/ GatherColoringInfo(r)) /\ UNCHANGED <<space, fieldVars>>

Step(r) ==
    \/ Color(r) \/ StartRemap(r) \/ MapIndices(r)
    \/ RenumberShared(r, space[r]) \/ CollectOffsets(r, space[r])
    \/ SendEntities(r, space[r]) \/ GetEntities(r, space[r])
    \/ SendRows(r, space[r]) \/ GetRows(r, space[r])

\* A color that waits for a message nobody sends is a deadlock.
Done == \A r \in Colors : pc[r] = "done"
Next == (\E r \in Colors : Step(r)) \/ (Done /\ UNCHANGED vars)
Spec == Init /\ [][Next]_vars

-----------------------------------------------------------------------------
(* Properties *)

Kinds == {"exclusive", "shared", "ghost"}
Owned(r, s) == coloring[r][s].exclusive \cup coloring[r][s].shared
Held(r, s)  == UNION {coloring[r][s][k] : k \in Kinds}
AllColored  == \E r \in Colors : info[r] # <<>>
Entities(s) == IF s = "cells" THEN Cells ELSE Vertices

\* The entity of the mesh that an id stands for: migrate renumbers the cells.
Named(s, id) == IF s = "cells" /\ scheme = "dcrs"
                THEN FlattenSeq([i \in 1..NumColors |-> mine[i - 1].cells])[id + 1]
                ELSE id
NamedIn(s, S) == {Named(s, e.id) : e \in S}

\* Every cell and every vertex is exclusive or shared at one color, and there
\* once, although each color decides for itself which vertices are its own;
\* a cell is at the color the partitioner gave it.
OwnedOnce == AllColored =>
    /\ \A s \in Spaces : \A x \in Entities(s) :
          \E r \in Colors : \E e \in Owned(r, s) :
              /\ Named(s, e.id) = x
              /\ e.rank = r
              /\ s = "cells" => r = part[x]
              /\ \A q \in Colors : \A d \in Owned(q, s) :
                    Named(s, d.id) = x => q = r /\ d = e
    /\ \A r \in Colors, s \in Spaces : NamedIn(s, Owned(r, s)) \subseteq Entities(s)

\* What r takes for ghosts of q is what q takes for shared with r, and they
\* agree on the offset of each: when the colorings are made, and again when
\* remap_shared_entities has renumbered the shared entities.
Fresh(r)  == pc[r] \in {"info", "colored"}
Mapped(r) == pc[r] \in {"send_entities", "get_entities", "send_rows", "get_rows", "done"}
GhostsMatchShared == \A q, r \in Colors : \A s \in Spaces :
    q # r /\ ((Fresh(q) /\ Fresh(r)) \/ (Mapped(q) /\ Mapped(r))) =>
        {<<g.id, g.offset>> : g \in {h \in coloring[r][s].ghost : h.rank = q}}
        = {<<e.id, e.offset>> : e \in {d \in coloring[q][s].shared : r \in d.shared}}

\* A color holds as ghosts the cells that touch its own, no others, and every
\* vertex of every cell that it holds.
HaloComplete == AllColored => \A r \in Colors :
    LET own == NamedIn("cells", Owned(r, "cells")) IN
    /\ NamedIn("cells", coloring[r]["cells"].ghost)
       = {c \in Cells \ own : \E d \in own :
             Cardinality(mesh[c] \cap mesh[d]) >= MinConnections}
    /\ UNION {mesh[c] : c \in NamedIn("cells", Held(r, "cells"))}
       = NamedIn("vertices", Held(r, "vertices"))

\* match_ids gives each edge one number, the same at every color that has the
\* edge, and numbers without holes; ghost_connectivity gives each color the
\* vertices of each of its ghost cells under the cell's new number.
IdsAgree == AllColored /\ scheme = "dcrs" =>
    LET numbers == UNION {mine[r].edgeIds : r \in Colors} IN
    /\ Cardinality({p[1] : p \in numbers}) = Cardinality(numbers)
    /\ {p[2] : p \in numbers} = 0..Cardinality(numbers) - 1
    /\ \A r \in Colors :
          /\ EdgesOf(r) \subseteq {p[1] : p \in mine[r].edgeIds}
          /\ mine[r].ghostCells = {<<g.id, mesh[Named("cells", g.id)]>> :
                                      g \in coloring[r]["cells"].ghost}

\* After an exchange every ghost slot holds what its owner wrote, in fields
\* and in the mesh's own entities.
GhostRowsAreOwners == \A r \in Colors : pc[r] = "done" =>
    /\ \A s \in Spaces : \A i \in DOMAIN indexMap[r][s] :
          rows[r][s][i] = indexMap[r][s][i] /\ ents[r][s][i] = indexMap[r][s][i]
    /\ \A s \in Spaces : ToSet(indexMap[r][s]) = {e.id : e \in Held(r, s)}

\* Every color gets through: no assertion fails and no lookup throws, and when
\* all are done no message is left that a later receive would take for its own.
AllGetThrough ==
    /\ \A r \in Colors : pc[r] # "aborted"
    /\ (\A r \in Colors : pc[r] = "done") =>
          wire = [q \in Colors |-> [r \in Colors |-> <<>>]]
=============================================================================
