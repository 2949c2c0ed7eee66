------------------------------ MODULE Coloring ------------------------------
(***************************************************************************)
(* Coloring a mesh: every color (an MPI rank) comes to know which entities *)
(* of each index space it owns alone (exclusive), which of its own other   *)
(* colors read (shared) and which of other colors it reads (ghost).        *)
(*                                                                         *)
(* This module holds the state that the two ways of coloring have in       *)
(* common (ClosureColoring and DcrsColoring), the MPI calls they make, and *)
(* what a coloring promises.  HaloExchange uses the result.                *)
(*                                                                         *)
(* A collective call is modelled by the values the colors post: a color    *)
(* goes on from its n-th collective when every color has posted its n-th.  *)
(* Point-to-point messages between two colors are received in the order in *)
(* which they were sent.  They carry numbers: what a message is about is   *)
(* for its receiver to know.                                               *)
(***************************************************************************)
EXTENDS Integers, Sequences, FiniteSets, SequencesExt, TLC

CONSTANTS NumColors,   \* the number of MPI ranks
          Meshes,      \* the meshes: the set of vertices of each cell
          None         \* size_t max, an answer of no color

ASSUME ColorsAssumption == NumColors \in Nat \ {0}

\* A mesh has cells numbered from 0 on, of finitely many numbered vertices.
ASSUME MeshesAssumption == \A m \in Meshes :
    /\ IsFiniteSet(DOMAIN m) /\ DOMAIN m = 0..Cardinality(DOMAIN m) - 1
    /\ DOMAIN m # {}
    /\ \A c \in DOMAIN m : m[c] \subseteq Nat /\ m[c] # {} /\ IsFiniteSet(m[c])

\* No entity has as many before it.
ASSUME NoneAssumption == None \notin Nat

Colors == 0..NumColors - 1
Spaces == {"cells", "vertices"}

VARIABLES
    mesh,       \* the mesh to color, its cells numbered from 0
    part,       \* the color the partitioner gives each cell
    scheme,     \* the way the specialization colors it
    pc,         \* where each color is
    posted,     \* what each color has given to its collectives, in order
    wire,       \* wire[q][r]: the messages from q to r
    mine,       \* the local variables of the coloring functions
    coloring,   \* context_t::colorings_ of each color, by index space
    info        \* context_t::coloring_info_ of each color, by space and color

coloringVars == <<mesh, part, scheme, pc, posted, wire, mine, coloring, info>>

-----------------------------------------------------------------------------
Smallest(S) == CHOOSE x \in S : \A y \in S : x <= y

\* The members of a set in ascending order of their keys; of a set of numbers,
\* and of a set of entities.
OrderedBy(S, key) == [i \in 1..Cardinality(S) |->
                         CHOOSE x \in S : Cardinality({y \in S : key[y] < key[x]}) = i - 1]
Ordered(S) == OrderedBy(S, [x \in S |-> x])
ById(S)    == OrderedBy(S, [e \in S |-> e.id])

\* The sums of the first q counts, for each q.
Sums(counts) ==
    LET first[q \in 0..NumColors] == IF q = 0 THEN 0 ELSE first[q - 1] + counts[q - 1]
    IN first

\* How many members of S come before x: its position in Ordered(S).
Position(x, S) == Cardinality({y \in S : y < x})

Cells == DOMAIN mesh
Referencers(v) == {c \in Cells : v \in mesh[c]}
Vertices == UNION {mesh[c] : c \in Cells}

\* entity_info_t
Entity(id, rank, offset, users) ==
    [id |-> id, rank |-> rank, offset |-> offset, shared |-> users]

NoColoring == [exclusive |-> {}, shared |-> {}, ghost |-> {}]

\* The number of entities of each kind, as color_info counts them.
Sizes(col) == [kind \in DOMAIN col |-> Cardinality(col[kind])]

-----------------------------------------------------------------------------
\* Color r has called the collective labelled at, and every color has.
Gathered(r, at) ==
    /\ pc[r] = at
    /\ \A q \in Colors : Len(posted[q]) >= Len(posted[r])

\* What each color has given to the collective that r is in.
Received(r) == [q \in Colors |-> posted[q][Len(posted[r])]]

\* r keeps some of its results, and calls its next collective with a value.
Goto(r, at)  == pc' = [pc EXCEPT ![r] = at]
Keep(r, new) == mine' = [mine EXCEPT ![r] =
    [x \in DOMAIN new \cup DOMAIN @ |-> IF x \in DOMAIN new THEN new[x] ELSE @[x]]]
Post(r, val) == posted' = [posted EXCEPT ![r] = Append(@, val)]

\* An assertion fails, or a lookup throws: the program ends.
Abort(r) ==
    /\ Goto(r, "aborted")
    /\ UNCHANGED <<mesh, part, scheme, posted, wire, mine, coloring, info>>

\* A step from one collective to the next.
Round(r, next, new, val) ==
    /\ Goto(r, next) /\ Keep(r, new) /\ Post(r, val)
    /\ UNCHANGED <<mesh, part, scheme, wire, coloring, info>>

\* r takes a message from each color of Froms and sends Msg[q] to those of Tos.
Deliver(r, Froms, Tos, Msg) ==
    LET taken(q) == IF q \in Froms THEN Tail(wire[q][r]) ELSE wire[q][r] IN
    wire' = [q \in Colors |-> [s \in Colors |->
        LET left == IF s = r THEN taken(q) ELSE wire[q][s] IN
        IF q = r /\ s \in Tos THEN Append(left, Msg[s]) ELSE left]]

Arrived(r, Froms) == \A q \in Froms : wire[q][r] # <<>>

-----------------------------------------------------------------------------
\* gather_coloring_info: only the three sizes travel; the loops that would
\* gather shared_users and ghost_owners are compiled out.
GatherColoringInfo(r) ==
    /\ Gathered(r, "info")
    /\ info' = [info EXCEPT ![r] = [s \in Spaces |-> [q \in Colors |->
                   [sizes |-> Received(r)[q][s],
                    shared_users |-> {}, ghost_owners |-> {}]]]]
    /\ Goto(r, "colored")
    /\ UNCHANGED <<mesh, part, scheme, posted, wire, mine, coloring>>
=============================================================================
