---------------------------- MODULE TreeTopology ----------------------------
(***************************************************************************)
(* tree_topology.h: the hashed tree that holds entities by their position. *)
(* A branch is an id (the path from the root, here a sequence of bits: the *)
(* one-dimensional tree), found in branch_map_ by that id; entities live   *)
(* in leaves, which are refined when they hold too many and coarsened when *)
(* one becomes empty, as the branch type of topology/test/tree.cc asks.    *)
(*                                                                         *)
(* Positions count finest cells: the tree covers the range [0, Width].     *)
(* Searches measure lengths in units of which a finest cell has Cell,      *)
(* since coordinates() divides by that.                                    *)
(***************************************************************************)
EXTENDS Integers, FiniteSets, SequencesExt

CONSTANTS Entities,
          Positions,      \* where entities may be
          MaxDepth,       \* branch_id_u::max_depth
          Threshold,      \* the entities that fit into a leaf
          ShouldCoarsen,  \* Policy::should_coarsen
          MaxUpdateAlls,  \* bound: calls of update_all
          None            \* branch_id_u::null, no entity's branch

Width == 2 ^ MaxDepth
Cell == Width - 1       \* the constant m of coordinates()
Span == Width * Cell    \* the length of the range
Root == <<>>
Ids == UNION {[1..d -> {0, 1}] : d \in 0..MaxDepth}
Depths == 0..MaxDepth
Actions == {"none", "refine", "coarsen"}

ASSUME TreeAssumption ==
    /\ MaxDepth \in Nat \ {0} /\ Threshold \in Nat \ {0} /\ MaxUpdateAlls \in Nat
    /\ Positions \subseteq 0..Width
    /\ ShouldCoarsen \in BOOLEAN
    /\ None \notin Ids

VARIABLES
    entities,   \* entities_: the entities in the order they were made
    position,   \* their coordinates
    tree,       \* the branches and the entities in them
    updates     \* calls of update_all, for the bound

vars == <<entities, position, tree, updates>>

-----------------------------------------------------------------------------
(* Branch ids *)

\* The id of depth d of position p, as branch_id_u computes it: the leading
\* bits of the cell of p, of which only MaxDepth bits are looked at.
Key(p, d) == [i \in 1..d |-> (p \div 2 ^ (MaxDepth - i)) % 2]

Parent(b) == SubSeq(b, 1, Len(b) - 1)
Below(b) == {a \in Ids : IsStrictPrefix(b, a)}

\* coordinates: the lower end of branch b as the code has it, the whole range
\* times the branch's first cell over the number of the last cell, not over
\* the number of cells: Span / Cell for each cell.
Corner(b) == (Span \div Cell) * (FoldLeft(LAMBDA n, bit : 2 * n + bit, 0, b)
                                 * 2 ^ (MaxDepth - Len(b)))

\* find_parent: the deepest branch of depth at most d on the path to p.
FindParent(t, p, d) ==
    Key(p, CHOOSE n \in 0..d : /\ Key(p, n) \in t.map
                               /\ \A m \in n + 1..d : Key(p, m) \notin t.map)

-----------------------------------------------------------------------------
(* Insertion and refinement *)

\* branch::insert
Put(t, b, e) ==
    [t EXCEPT !.at[e] = b,
              !.ents[b] = Append(@, e),
              !.action[b] = IF Len(t.ents[b]) >= Threshold THEN "refine" ELSE @]

\* into_branch_: b gets its children, which branch_map_ then knows.
Split(t, b) ==
    [t EXCEPT !.inner = @ \cup {b},
              !.map = @ \cup {Append(b, 0), Append(b, 1)},
              !.depth = IF @ > Len(b) THEN @ ELSE Len(b) + 1]

RECURSIVE InsertBelow(_, _, _, _), Refine(_, _, _)

\* insert(ent, max_depth)
InsertBelow(t, where, e, d) ==
    LET b == FindParent(t, where[e], d)
        u == Put(t, b, e)
    IN  IF u.action[b] = "refine" THEN Refine(u, where, b) ELSE u

\* Mutant: b is not cleared.
RefineKeeps(t, where, b) ==
    IF b \in t.inner THEN t
    ELSE LET n == Len(t.ents[b])
             moved[i \in 0..n] ==
                 IF i = 0 THEN Split(t, b)
                 ELSE InsertBelow(moved[i - 1], where, t.ents[b][i], Len(b) + 1)
         IN  [moved[n] EXCEPT !.action[b] = "none"]

\* refine_: the entities of b are inserted again, no deeper than its children.
\* A branch of depth MaxDepth has no room for children.
Refine(t, where, b) ==
    IF b \in t.inner THEN t
    ELSE IF Len(b) = MaxDepth THEN [t EXCEPT !.overflow = TRUE]
    ELSE LET n == Len(t.ents[b])
             moved[i \in 0..n] ==
                 IF i = 0 THEN Split(t, b)
                 ELSE InsertBelow(moved[i - 1], where, t.ents[b][i], Len(b) + 1)
         IN  [moved[n] EXCEPT !.ents[b] = <<>>, !.action[b] = "none"]

-----------------------------------------------------------------------------
(* Removal and coarsening *)

\* The entities of the branches below b, as coarsen_ meets them.
RECURSIVE Gathered(_, _)
Gathered(t, b) ==
    IF b \notin t.inner THEN <<>>
    ELSE LET from(i) == t.ents[Append(b, i)] \o Gathered(t, Append(b, i))
         IN  from(0) \o from(1)

\* Mutant: only the children of p leave branch_map_.
CoarsenChildren(t, p) ==
    LET gathered == Gathered(t, p) IN
    [t EXCEPT !.map = @ \ {Append(p, 0), Append(p, 1)},
              !.inner = @ \ ({p} \cup Below(p)),
              !.ents = [b \in Ids |-> IF b = p THEN @[p] \o gathered
                                      ELSE IF b \in Below(p) THEN <<>> ELSE @[b]],
              !.action = [b \in Ids |-> IF b = p \/ b \in Below(p) THEN "none" ELSE @[b]],
              !.at = [e \in Entities |-> IF e \in ToSet(gathered) THEN p ELSE @[e]]]

\* coarsen_: p becomes a leaf that holds what the branches below it held,
\* however many that are: a refinement it asks for is forgotten.
Coarsen(t, p) ==
    LET gathered == Gathered(t, p) IN
    [t EXCEPT !.map = @ \ Below(p),
              !.inner = @ \ ({p} \cup Below(p)),
              !.ents = [b \in Ids |-> IF b = p THEN @[p] \o gathered
                                      ELSE IF b \in Below(p) THEN <<>> ELSE @[b]],
              !.action = [b \in Ids |-> IF b = p \/ b \in Below(p) THEN "none" ELSE @[b]],
              !.at = [e \in Entities |-> IF e \in ToSet(gathered) THEN p ELSE @[e]]]

\* branch::remove
Take(t, e) ==
    LET b == t.at[e]
        rest == RemoveFirst(t.ents[b], e)
    IN  [t EXCEPT !.at[e] = None,
                  !.ents[b] = rest,
                  !.action[b] = IF rest = <<>> THEN "coarsen" ELSE @]

\* remove(ent): a branch that asks for coarsening and has no parent, or one
\* the policy does not coarsen, keeps asking.
RemoveFrom(t, e) ==
    LET b == t.at[e]
        u == Take(t, e)
    IN  CASE u.action[b] = "none" -> u
          [] u.action[b] = "refine" -> [u EXCEPT !.action[b] = "none"]
          [] u.action[b] = "coarsen" ->
                 IF b # Root /\ ShouldCoarsen THEN Coarsen(u, Parent(b)) ELSE u

\* Mutant: max_depth_ is read once, before the loop.
RebuiltFlat(t, where) ==
    LET n == Len(entities)
        bare == [t EXCEPT !.map = {Root}, !.inner = {}, !.depth = 0,
                          !.ents = [b \in Ids |-> IF b = Root THEN @[b] ELSE <<>>],
                          !.action = [b \in Ids |-> IF b = Root THEN @[b] ELSE "none"],
                          !.at = [e \in Entities |-> None]]
        built[i \in 0..n] ==
            IF i = 0 THEN bare ELSE InsertBelow(built[i - 1], where, entities[i], 0)
    IN  built[n]

\* update_all: the branches below the root are gone, and every entity that
\* was ever made is inserted.  What the root holds itself it keeps.
Rebuilt(t, where) ==
    LET n == Len(entities)
        bare == [t EXCEPT !.map = {Root}, !.inner = {}, !.depth = 0,
                          !.ents = [b \in Ids |-> IF b = Root THEN @[b] ELSE <<>>],
                          !.action = [b \in Ids |-> IF b = Root THEN @[b] ELSE "none"],
                          !.at = [e \in Entities |-> None]]
        built[i \in 0..n] ==
            IF i = 0 THEN bare
            ELSE InsertBelow(built[i - 1], where, entities[i], built[i - 1].depth)
    IN  built[n]

-----------------------------------------------------------------------------
(* The calls a client makes *)

InTree == {e \in Entities : tree.at[e] # None}

\* No more entities in one finest cell than fit into its leaf: more would be
\* refined past the last depth.
Separate(where, S) ==
    \A e \in S : Cardinality({o \in S : Key(where[o], MaxDepth) = Key(where[e], MaxDepth)})
                 <= Threshold

Init ==
    /\ entities = <<>>
    /\ position = [e \in Entities |-> 0]
    /\ updates = 0
    /\ tree = [map |-> {Root}, inner |-> {}, depth |-> 0,
               ents |-> [b \in Ids |-> <<>>],
               action |-> [b \in Ids |-> "none"],
               at |-> [e \in Entities |-> None],
               overflow |-> FALSE]

\* insert(ent), of an entity that is made now or was removed before.
InsertEntity(e, p) ==
    /\ ~tree.overflow
    /\ tree.at[e] = None
    /\ position' = [position EXCEPT ![e] = p]
    /\ Separate(position', InTree \cup {e})
    /\ entities' = IF e \in ToSet(entities) THEN entities ELSE Append(entities, e)
    /\ tree' = InsertBelow(tree, position', e, tree.depth)
    /\ UNCHANGED updates

\* remove(ent); a removed entity waits at position 0.
RemoveEntity(e) ==
    /\ ~tree.overflow
    /\ e \in InTree
    /\ tree' = RemoveFrom(tree, e)
    /\ position' = [position EXCEPT ![e] = 0]
    /\ UNCHANGED <<entities, updates>>

\* The entity moves to p, then update(ent).
Update(e, p) ==
    LET b == tree.at[e]
        t == RemoveFrom(tree, e)
    IN  /\ ~tree.overflow
        /\ e \in InTree
        /\ position' = [position EXCEPT ![e] = p]
        /\ Separate(position', InTree)
        /\ tree' = IF b = Key(p, Len(b)) THEN tree ELSE InsertBelow(t, position', e, t.depth)
        /\ UNCHANGED <<entities, updates>>

\* update_all(), once the entities have moved: to the mirrored positions.
UpdateAll ==
    /\ ~tree.overflow
    /\ updates < MaxUpdateAlls
    /\ updates' = updates + 1
    /\ position' = [e \in Entities |-> IF e \in ToSet(entities)
                                       THEN Width - 1 - position[e] ELSE position[e]]
    /\ Separate(position', ToSet(entities))
    /\ tree' = Rebuilt(tree, position')
    /\ UNCHANGED entities

\* A leaf of the last depth was to be refined, whose children's ids do not fit:
\* nothing is said of what such a tree does.
TooDeep == tree.overflow /\ UNCHANGED vars

Next ==
    \/ \E e \in Entities, p \in Positions : InsertEntity(e, p)
    \/ \E e \in Entities, p \in Positions : Update(e, p)
    \/ \E e \in Entities : RemoveEntity(e)
    \/ UpdateAll
    \/ TooDeep

Spec == Init /\ [][Next]_vars

-----------------------------------------------------------------------------
(* Searches *)

\* A query is for the entities in lo..hi: find_in_radius(center, radius), with
\* the sphere's ends, or find_in_box(lo, hi), whose search starts as that of the
\* sphere of its length / sqrt(2) after its lower end.  An upper end is at a
\* position or a unit below it; radii go up to half the range.
Spheres == {[lo |-> c - r, hi |-> c + r, center |-> c, box |-> FALSE] :
               c \in {Cell * p : p \in Positions},
               r \in {Cell * n - i : n \in 1..Width \div 2, i \in {0, 1}}}
BoxCenter(lo, hi) == lo + CHOOSE n \in 0..Span : /\ 2 * n ^ 2 <= (hi - lo) ^ 2
                                                 /\ 2 * (n + 1) ^ 2 > (hi - lo) ^ 2
Boxes == {[lo |-> Cell * b[1], hi |-> Cell * b[2] - b[3],
           center |-> BoxCenter(Cell * b[1], Cell * b[2] - b[3]), box |-> TRUE] :
             b \in {b \in Positions \X Positions \X {0, 1} : b[1] < b[2]}}

Place(e) == Cell * position[e]
Within(e, q) == q.lo <= Place(e) /\ Place(e) <= q.hi

\* Mutant: branches that only touch the query are left out.
IntersectsStrictly(corner, size, q) == corner + size > q.lo /\ corner < q.hi

\* Mutant: a branch that begins before the query is left out.
IntersectsCorner(corner, size, q) == q.lo <= corner /\ corner <= q.hi

\* intersects and intersects_box, of a branch of some size at corner.
Intersects(corner, size, q) ==
    IF q.box THEN corner + size > q.lo /\ corner < q.hi
             ELSE corner + size >= q.lo /\ corner <= q.hi

\* find_start_: the branches on the path to the center, from the depth d whose
\* cells are twice the radius and up, are tried for one that covers the query.
FitsCell(d, q) ==
    LET length == q.hi - q.lo IN
    IF q.box THEN 2 ^ (2 * d + 1) * length ^ 2 <= Span ^ 2
             ELSE 2 ^ d * length <= Span

\* The cell covers the sphere, ends included.
Covers(corner, size, q) ==
    LET room == corner + size - q.lo IN
    /\ corner < q.lo
    /\ IF q.box THEN room > 0 /\ room ^ 2 > 2 * (q.hi - q.lo) ^ 2
                ELSE q.hi < corner + size

StartBranch(d, q) ==
    FindParent(tree, q.center \div Cell, IF d < tree.depth THEN d ELSE tree.depth)

StartDepths(q) ==
    {d \in 1..MaxDepth : /\ FitsCell(d, q)
                         /\ Covers(Corner(StartBranch(d, q)), Cell * 2 ^ (MaxDepth - d), q)}

\* The start branch with the depth it is taken to have.
Start(q) ==
    LET ds == StartDepths(q) IN
    IF ds = {} THEN [branch |-> Root, depth |-> 0]
    ELSE LET d == CHOOSE d \in ds : \A x \in ds : x <= d
         IN  [branch |-> StartBranch(d, q), depth |-> d]

\* find_ descends from the start into the children that intersect the query,
\* taking a branch at each level for half as long as the one above.
Reached(q) ==
    LET s == Start(q)
        size(b) == Cell * 2 ^ (MaxDepth - s.depth - (Len(b) - Len(s.branch)))
    IN  {l \in tree.map \ tree.inner :
            /\ IsPrefix(s.branch, l)
            /\ \A n \in Len(s.branch) + 1..Len(l) :
                   LET b == SubSeq(l, 1, n) IN Intersects(Corner(b), size(b), q)}

\* How often a search that reaches some leaves returns e.
TimesFound(e, q, reached) ==
    IF ~Within(e, q) THEN 0
    ELSE Cardinality(UNION {{<<l, i>> : i \in {i \in DOMAIN tree.ents[l] : tree.ents[l][i] = e}} :
                            l \in reached})

-----------------------------------------------------------------------------
(* Properties *)

\* The tree is well formed: branch_map_ knows the root and the children of
\* every inner branch, no others: find_parent never returns a branch that has
\* been deleted, nor misses one.  max_depth_ is the depth of no branch or a
\* deeper one, so that the search for a place does not stop above a leaf.
TypeOK ==
    /\ entities \in Seq(Entities) /\ position \in [Entities -> 0..Width]
    /\ tree.inner \subseteq tree.map
    /\ tree.map = {Root} \cup {Append(b, i) : b \in tree.inner, i \in {0, 1}}
    /\ tree.ents \in [Ids -> Seq(Entities)] /\ tree.action \in [Ids -> Actions]
    /\ \A e \in Entities : tree.at[e] \in tree.map \cup {None}
    /\ \A b \in tree.map : Len(b) <= tree.depth

\* An entity in the tree is once in the branch its branch id names, which is
\* on the path to its position, and in no other branch: what remove() asserts.
\* An entity that update_all inserts into the root a second time is refined past
\* the last depth where the threshold is one: of all other trees this holds.
EntitiesPlaced == ~tree.overflow =>
    \A e \in Entities :
        /\ tree.at[e] # None => tree.at[e] = Key(position[e], Len(tree.at[e]))
        /\ \A b \in Ids : Cardinality({i \in DOMAIN tree.ents[b] : tree.ents[b][i] = e})
                          = IF b = tree.at[e] THEN 1 ELSE 0

\* A branch that is searched for entities is a leaf: topology/test/tree.cc:157
\* asserts "b->is_leaf() || b->size() == 0" of every branch.
LeavesHoldAll == \A b \in tree.inner : tree.ents[b] = <<>>

\* An entity that refine_ has left in an inner branch, which takes a coarsening
\* before, is not searched for (LeavesHoldAll).
InLeaf == {e \in InTree : tree.at[e] \notin tree.inner}

\* The corner that coordinates() gives the finest cell of e, at most a cell past
\* where it is; those of the branches above are off by less.
CellCorner(e) == Corner(Key(position[e], MaxDepth))

\* find_in_radius returns each entity in a leaf that is in the sphere, once, if
\* the corner of its cell is in it as well; no entity twice.  The branch it
\* starts at, the descent and the shift of every corner on the way, both ends
\* of the sphere included, lose no other.
FindsAllInRadius == ~tree.overflow => \A q \in Spheres :
    LET reached == Reached(q) IN
    \A e \in Entities :
        LET times == TimesFound(e, q, reached) IN
        /\ times <= 1
        /\ q.lo <= Place(e) /\ CellCorner(e) <= q.hi /\ e \in InLeaf => times = 1

\* find_in_box returns each entity in a leaf that is inside the box, with the
\* corner of its cell, once; one on an edge it may miss, and none comes twice.
FindsAllInBox == ~tree.overflow => \A q \in Boxes :
    LET reached == Reached(q) IN
    \A e \in Entities :
        LET times == TimesFound(e, q, reached) IN
        /\ times <= 1
        /\ q.lo < Place(e) /\ CellCorner(e) < q.hi /\ e \in InLeaf => times = 1

InsertedOnce == ~tree.overflow /\ EntitiesPlaced /\ \A e \in ToSet(entities) : e \in InLeaf

\* update_all leaves every entity ever made once in the tree, in the leaf of its
\* new position, whatever the calls before made of the tree, unless the root
\* held some itself: these are then inserted a second time.
UpdateAllRebuilds ==
    [][updates' # updates => (InsertedOnce' <=> tree.ents[Root] = <<>>)]_vars
=============================================================================
