# Models and proofs of FleCSI

TLA+ modules that model parts of FleCSI (`src/flecsi`), configurations with which
TLC checks them on small instances, and theorems about them, for every value of
the constants, that TLAPS checks. `PROJECT.json` is the index: which module
models which component, which lines a definition translates (`map`), the runs
and their properties, for each property a plausible bug in the code that breaks
it (`mutants`), what the runs found (`findings`), and what is hard to test in
this code and where (`hazards`).

To run: `tlc -config MpiGhostLazy.cfg MCMpiGhostLazy` (module and cfg of each
run are in `PROJECT.json`), `tlapm MpiGhostEagerProofs.tla`.

## 1. The system

FleCSI runs a program written once on many *colors* (ranks). A specialization
colors index spaces: each color owns *exclusive* and *shared* entities and holds
*ghost* copies of shared entities of others. A driver executes tasks; a task's
accessors state privileges (`na`, `ro`, `wo`, `rw`) on the three parts, and the
backend makes the ghosts right where they are read. Besides, there is a tree
topology for particles with a thread pool for its traversals, a control model
that orders user actions, and many registries and front-end templates.

| Component | State | Operations | Interacts with | Hard behaviour | What makes it correct |
|---|---|---|---|---|---|
| Thread pool, `concurrency/thread_pool.h` | queue, threads, `done_` | start, queue, run_, join | semaphore; tree traversals queue jobs | threads, wakeups, shutdown | nothing popped from an empty queue, nothing queued lost, join returns |
| Virtual semaphore, `concurrency/virtual_semaphore.h` | count, `done_`, mutex, condition | acquire, try_acquire, release, interrupt | pool, traversals | unlocked store and notify, spurious wakeups | count accounts for the queue; interrupt unblocks everybody |
| MPI, eager exchange, `execution/mpi/task_epilog.h` | one window a field, groups | after each argument: post, start, get, complete, wait | all ranks | ranks overtake each other | epochs match, ghosts are fresh, no deadlock |
| MPI, aggregated exchange, `execution/mpi/task_prolog.h` (`FLECSI_USE_AGGCOMM`) | `ghost_is_readable`, `ghost_was_resized`, lists of modified fields | before each task: row-size, dense and sparse exchange | all ranks | flags of each rank on its own, one tag for all messages | messages pair up, ghosts are fresh, rows have room, no deadlock |
| MPI, `finalize_handles.h` | rows of ragged fields | mutator commit | exchanges | row counts with one tag | rows have room |
| MPI, `context_policy.h`, `runtime_driver.cc`, `remap_shared.h` | windows, groups, index lists, metadata, index maps | renumber shared entities, map indices, register field metadata | coloring before, exchanges after | each rank builds its lists on its own, messages carry no ids | both ranks list the same entities in the same order |
| Legion, `execution/legion/task_prolog.h`, `init_args.h`, `execution_policy.h` | `ghost_is_readable` | issue copies and launches | Legion | deferred execution in any order the requirements allow | every task sees the last writer; no needless copy |
| Legion/MPI interoperability, `execution/legion/context_policy.*` | handshake, `mpi_active_`, `mpi_task_` | four launches an MPI task; the MPI thread's loop | Legion threads, MPI threads, barriers | two plain members shared by threads | every MPI task called once by all, together; both sides end |
| Legion mapper and runtime driver | caches, partitions | mapping; set-up | Legion | none of its own | |
| HPX backend | futures | execute_task | HPX | no ghost exchange yet | |
| Tree topology, `topology/tree_topology.h` | `branch_map_`, branches, entities, `max_depth_` | insert, remove, update, update_all, find_in_radius, find_in_box | branch policy of the user | refinement and coarsening trigger each other | map and entities agree, searches find all |
| Tree traversals | semaphore on the stack, jobs | visit, visit_children, find and apply with a pool | pool | jobs outnumbered by leaves and branches left out; nesting | returns, and not before the jobs are done |
| Set topology, `topology/set_topology.h` | main, active and migrate index spaces | add, remove, migrate | storage policies | entities between two owners | none lost or doubled |
| Mesh topology, `topology/mesh_topology.h`, `connectivity.h` | connectivities | build, transpose, intersect | coloring, storage | none concurrent | adjacencies agree with their transposes |
| Coloring, `coloring/*`, `supplemental/coloring/*` | dcrs graphs, colorings and color information of the context | migrate, make_dcrs_distributed, get_owner_info, match_ids, color_entities; add_colorings with get_primary_info, get_intersection_info, color_entity, get_entity_info | MPI collectives and messages | every rank decides for itself what it owns, answers carry no ids | each entity owned once, owners and users of ghosts agree |
| Control model, `control/*.h`, `utils/dag.h` | dag of each phase, sorted once | register action and edge, sort, walk | file-scope registration | order of static initialization | one order that the graph alone decides, or a reported cycle |
| Runtime registration, `control/runtime*.{h,cc}` | handlers, driver | append handler, register driver, main | runtime driver, control model | ways to end | every initialized handler is finalized, or the program was cut short |
| Data model, `data/*` | registries of clients and fields; row_vector, handles | register, invoke callbacks, get_handle; accessor and mutator operations | context, backends | registration in any order, two instances of a client, callbacks that register | every handle finds its field; sizes of ragged rows |
| Context, `execution/context.h` | field information, colorings, index maps, task and function registries | put and get | all | none of its own | |
| Task/function/kernel/reduction front end | none at run time | register, look up | context | none | |
| io, utils, geometry, supplemental, tools, tutorial | files, pure functions, tests | | | | |

The exchanges assume what the coloring promises (`TopologyAssumption`: an owner
knows exactly the colors that hold its ghosts), which `GhostsMatchShared` of
HaloExchange shows of both ways of coloring, for every mesh; the traversals assume what the
thread pool is shown to do.

## 2. Modules

### ThreadPool, ThreadPoolProofs
One client thread starts, queues and joins in any order; every worker is an
automaton with the steps of `run_` and of `acquire` in which another thread may
come between: the unlocked test of `done_` (`AcquireCheck`), the lock, the test
of the count that ends in `cond_.wait` (`AcquireTest`), the return from the wait
(`Wake`, also without notification: `SpuriousWakeup`), `Pop`, `Execute`.
`interrupt` is two steps, the store and the notification (`InterruptSet`,
`InterruptNotify`), because the code holds no lock.

### GhostPrograms, GhostCoherence
What all ghost exchanges have in common: colors, owners and users, privileges,
programs. Data is a version: the number of the task that wrote it last.
`GhostCoherence` is the abstract specification: each color runs the program in
order and reads the ghosts the sequential program would.

### MpiGhostEager, MpiGhostEagerProofs
Each rank's program counter walks over the arguments after the user function.
`Exchanges` is the test of the epilog, `Post`, `Get` and `Wait` the
exposure and access epoch: an exposed window is a set of users that have not
completed. The MPI_Get of a user may happen whenever its owner has posted, one
owner at a time. A rank is otherwise free to run ahead.

### MpiGhostLazy, MpiGhostLazyProofs
`Prolog` decides from the flags which fields go into the row-size, dense and
sparse exchange; for each exchange a rank posts receives, sends one message to
each user, waits, unpacks (`EndExchange` with the wait for its sends). A message
records what it was packed for, so that `MessagesMatch` can tell whether the
receiver unpacks it as that. MPI need not buffer: a send may end only when the
receiver has posted the receive, and `Buffered`, which lets it end earlier, has
no fairness.

### LegionGhosts, LegionProofs
The top-level task issues operations: for a task, a copy of each field whose
ghosts are not readable, then the launch. Nothing waits for it to be executed:
`Copy` and `Run` execute points whose region requirements interfere with no
earlier point that has not run (`Ready`), in any order. The requirements are
those of `init_args` and `launch_copies`. This is what Legion promises, taken
from how the code uses it.

### LegionHandshake, LegionProofs
The launches of the top-level task (`Script`: four for each MPI task, one
before and two after), their points on every process, and the MPI thread of each
process, with the two directions of the handshake as counts and the MPI barriers
as counts of arrivals.

### TreeTopology
The tree with its `branch_map_`, in one dimension: branch ids are sequences of
bits. `Insert`, `Remove`, `Update` and `UpdateAll` are whole calls, with the
refinements and coarsenings they cause, computed by recursive operators that
follow `insert`, `refine_`, `coarsen_`. `UpdateAll` leaves the root what it
holds, as `update_all` does. A leaf of the last depth that is to be refined ends
a behaviour (`overflow`, `TooDeep`). Searches are operators, compared with their
definition over spheres and boxes in every reachable tree. The branch policy is
that of `topology/test/tree.cc` with its threshold as a constant.

Positions count finest cells, but `coordinates()` scales a branch's first cell
by 1 / (2^`max_depth` - 1) where `branch_id_u` scales by 2^`max_depth`. Searches
therefore measure in units of which a finest cell has `Cell` = 2^`MaxDepth` - 1:
in these all `Corner`s are whole numbers, each further up than where its branch
begins, the lowest excepted. `Spheres` and `Boxes` end at a position or one unit
below it, so that both sides of each comparison are met; a sphere's radius is at
most half the range (from a quarter on, the search starts at the root).

### TreeTraversal, TreeTraversalProofs
The traversal of a given tree by a calling thread and a pool. Jobs may start
traversals, those of a nested traversal start none. The pool is abstract: every
queued job is executed once.

### Coloring, ClosureColoring, DcrsColoring, HaloExchange, HaloExchangeLemmas, HaloExchangeProofs
From the partition of a mesh to ghosts that hold their owners' rows.
`Coloring` has the state and the MPI of the two ways of coloring: `posted[r]` is
what color `r` has given to its collectives, and `r` goes on from its n-th once
every color has posted its n-th; `wire[q][r]` are the messages from `q` to `r`,
in order, numbers without ids. `mine[r]` are the local variables of the coloring
functions, `coloring[r]` and `info[r]` what they leave in the context.

`ClosureColoring` is `add_colorings`: one action from one collective or message
to the next, through `get_intersection_info`, the two halves of
`get_primary_info` (twice), `color_entity` and `get_entity_info`. The answers to
a request come back as a set (`GhostVertices`), as in the code, and an id the
owner does not have is answered with 0.

`DcrsColoring` is `dcrs_utils.h`: `Migrate`, the search of neighbors through the
home ranks of vertices (`make_dcrs_distributed`), the colors of cells
(`get_owner_info`), the numbers of edges (`match_ids`), the claims, the colors
and the offsets of vertices (`color_entities`), and the vertices of ghost cells
(`ghost_connectivity`). A home takes the claims as a set and chooses as the code
does, or aborts where `at()` throws. `color_entities` is modelled for vertices;
the same function colors edges. `migrate` asserts that no rank is left without
cells, so the partitions given to this way of coloring leave none.

`HaloExchange` goes on from there: `remap_shared_entities` (`RenumberShared`,
`CollectOffsets`), the index maps of the runtime driver (`MapIndices`), the
run-length lists of `register_field_metadata` for packing and unpacking (`Runs`),
the handler that copies the entities of the mesh (`SendEntities`, `GetEntities`), and one dense exchange of a field of
each index space (`SendRows`, `GetRows`), one index space after the other.

### ControlModel, Registration, Startup, StartupProofs
A program from its first static initializer to its exit code.
`ControlModel` keeps for each phase its dag: nodes, those that were given an
action, and how often each edge was added. `Scan`, `Pop` and `FinishSort` are
the loops of `dag_u::sort`: `line` is the queue and what has left it, of which
`count` are sorted; `nodeList` and `tally` the copies of the nodes and of their
edges that are erased on the way. The walk keeps a stack of phase walkers, one
for each round of a cycle.

`Registration` is `storage_u` with the ids of `unique_id_t`, the wrappers that
register the internal fields of meshes and sets, and the field information of
the context. The internal fields of a client are a sequence, as each takes the
next id. Field callbacks are one step, as their order makes no difference.

`Startup` takes a program's file-scope statements in any order, then `main`
with its exit modes, the runtime driver's callbacks, and the top-level driver,
which executes the control model up to `MaxExecutes` times. Assertions are
compiled in or not, as the program says; a failing one, or an exception, ends it
without finalizers (`Abort`).

## 3. Runs

| Run | What it asks | Instance |
|---|---|---|
| `thread_pool` | no pop from an empty queue, accounting of the count, everything queued is executed, join returns if no worker is between test and wait | 3 workers, 2 callables |
| `thread_pool_interrupt` | *violated*: interrupt unblocks all | 1 worker |
| `mpi_eager` | ghosts, exclusion, matching epochs, refinement of `GhostCoherence` with liveness | 3 colors, 2 fields on different topologies, 5 tasks, programs of 3 |
| `mpi_lazy` | ghosts, matching messages, sizes of rows, refinement with liveness | 3 colors, 2 dense and a ragged field, 4 tasks, programs of 3 |
| `legion_ghosts` | ghosts under every order of points, truth of the flags, no needless copy, no deadlock | 3 colors, 2 fields, 6 tasks, programs of 3 |
| `legion_handshake` | order, exclusion and togetherness of MPI tasks, both sides end | 3 processes, 3 MPI tasks |
| `halo` | each entity owned once, owners and users of ghosts agree before and after renumbering, halos complete, ids of edges and vertices of ghost cells agree, rows and entities of ghosts are the owners', nobody aborts or waits for ever | 3 ranks, a strip of 5 and a fan of 4 triangles, all partitions, both ways of coloring |
| `startup` | the order of actions, the fields handles find, the ways to end | 301 programs over 3 phases in nested cycles, 3 actions a phase, 2 calls of execute |
| `tree` | where entities are, depth, searches that lose nothing but to the shift of corners, when update_all inserts each entity once | 4 entities, 5 positions, depth 3, 1 update_all |
| `tree_leaves` | *violated*: inner branches hold no entity | 3 entities, 4 positions, depth 3 |
| `traversal` | complete when it returns, count of jobs, it returns | 4 workers, uneven tree, one nested traversal |
| `traversal_nested` | *violated*: nested traversals return | 2 workers, 2 nested traversals |

### Why the bounds are enough
- `NumTasks` 3: what can go wrong with a ghost takes a task that writes, one in
  which a flag or an epoch is decided, and one that reads. With three ranks two
  of them can be a task apart from the third.
- The topologies contain a pair that owns ghosts of each other, a ring of three
  and a one-sided edge, and the fields differ in theirs, so that a rank is owner,
  user, both or neither.
- The tasks contain each pair of privileges that the code tells apart, several
  fields in a task and, for the MPI exchanges, a field twice.
- `MaxDepth` 3 and `Threshold` 1: with three or four entities refinement happens
  twice in a row, and coarsening gathers a subtree of depth two. Of the positions
  2 and 3, and 6 and 7 share their branches down to the last depth; the corner
  of the cell of 6 is one unit below 7, where spheres and boxes end.
- `MaxUpdateAlls` 1 bounds a call that could otherwise alternate for ever with
  updates.
- 4 workers make the queue depth 3, with leaves above, at and below it.
- Three colors are what the coloring needs to go wrong: a vertex that two colors
  share over a third color's cell (`intersections`), and a home that is neither
  owner nor user. The strip puts entities at a distance of two and three cells,
  the fan one vertex in all cells; all partitions include colors without cells
  and colors whose cells are apart. `MinConnections` is 1, as the dependency
  closure of `add_colorings` asks for one vertex in common. With more the halos
  of `make_dcrs_distributed` are smaller than those of the closure, and a vertex
  in which two colors touch without being neighbors is exclusive on both
  (`dcrs_utils.h:813`, under hazards); the proofs say which properties need it.
- `startup`: every graph of up to four edges on three actions, a loop, an edge
  added twice and a node that only an edge names among them. Two phases have
  other actions besides, so that a cycle is found after another phase is sorted.
  `MaxRounds` 3 is enough for a round of the inner cycle in two of the outer.
  `MaxExecutes` 2 shows the phases sorted once and walked again.

### Fairness
- `ThreadPool`: weak for each worker, as the operating system schedules threads,
  but for the wakeups nobody owes; strong for the client, whose lock competes
  with the workers'.
- MPI: weak for each rank's next step. In the aggregated exchange this does not
  include `Buffered`: a program may not rely on MPI's buffers.
- `LegionHandshake`: weak for Legion's points and the MPI threads.
- `TreeTraversal`: weak for the calling threads and the workers.
- `Startup`: weak for the program's single thread.
- `LegionGhosts`, `HaloExchange`, `TreeTopology`: safety only. TLC checks the
  first two for deadlock, so that what was issued can always be executed, and a
  color never waits for a message or a collective that does not come. Each color
  of `HaloExchange` is a straight line of steps: without deadlock it ends.

### What the violated runs show
- `thread_pool_interrupt`: `interrupt()` (`virtual_semaphore.h:110`) stores and
  notifies without the mutex; a worker between its test and its wait sleeps on,
  and `join()` with it. With the store under the mutex the property would hold;
  `JoinReturnsWhenSettled` states what holds as it is.
- `tree_leaves`: after `coarsen_` a leaf may hold more than fits; when it is
  refined, a child may be refined within the loop of `refine_`, and an entity
  inserted after that stays in the child, now inner, where no search looks.
- `traversal_nested`: `visit_children` blocks a pool thread until jobs are done;
  once all are blocked nobody does them.

### Where the tree's properties stop short of its comments
Two comments of `tree_topology.h` promise more than the code does; the properties
of `tree` state what it does.
- "Return an index space containing all entities within the specified spheroid"
  (`:766`): `coordinates()` (`:505`, `:512`) puts the corner of a branch too far
  up, and `intersects` (`:98`) leaves a branch out whose lower end is where the
  sphere ends, with the entity there. The shift is at most a finest cell: 2^-31
  of the range with the 64-bit ids and two dimensions of `topology/test/tree.cc`,
  where an entity at 0.5 is missed by the sphere around 0.25 of radius 0.25. In
  one dimension with 64-bit ids and doubles 2^63 - 1 is rounded to 2^63, and the
  corners are exact. `FindsAllInRadius` and `FindsAllInBox` hold with the shifted
  corners: whatever is in the query together with the corner of its cell is found,
  and nothing twice.
- "Effectively re-insert all entities into the tree" (`:678`): `update_all`
  (`:683`) takes away the branches below the root but not what the root holds. Of
  a root that is a leaf each entity is there twice afterwards; with the threshold
  of one that `topology/test` has, the two are refined past the last depth.
  `UpdateAllRebuilds` says that update_all inserts each entity once if, and only
  if, the root held none.

## 4. Proofs

**ThreadPoolProofs**: for any finite set of workers and any callables,
`BalanceInvariant`, `PopsCovered`, `TypeCorrect`. `PopsAreCovered` is not
inductive: whether the queue holds anything for a worker past `acquire` depends
on what the count was when it passed. `Balance` is: while the semaphore is not
interrupted, the count plus the workers past `acquire` and not yet at the queue
equals the queue's length; a release adds to both sides, a pop takes from both.
`Closing` says that `done_` is set once the client has begun to join, when
workers pass without count. Assumption: `WorkersAssumption` (finite).

**MpiGhostEagerProofs**: for any colors, any symmetric relation of owners and
users, any tasks and any program: `TypeCorrect`, `ReadsAreCoherent`,
`WritesAreExclusive`, `GetsMatchPosts`, and `ImplementsSequential`, that every
step is a step of `GhostCoherence` or stutters. The invariant orders each epoch
between an owner and a user: an owner is past it only if its users completed it
(`OwnersWait`), a user completed it only if its owners posted it
(`UsersFollow`); hence a window is exposed exactly to those that have not
completed (`ExposureOK`), what a get finds is the version of the same task
(`SharedOK`), and a ghost is up to date or its exchange is still to come
(`GhostOK`). Assumptions: `TopologyAssumption`, `TasksAssumption` (a task that
writes ghosts computes what their owner writes).

**MpiGhostLazyProofs**: for any colors, topology, ragged fields, tasks and
program, `ReadsAreCoherent`, `ReceivesMatchSends` (`MessagesMatch`),
`RaggedDataFits` (`RowsFit`) and `ImplementsSequential`, with or without
buffering by MPI. No property is inductive: that a receive gets the message it
was posted for depends on what another rank has collected, maybe several tasks
earlier, and no variable relates the two. But what a rank collects depends on
nothing but the program. So `FlagsOf` computes the flags before each task from
the program alone (`FlagsThen`, one task's effect), `List` what each exchange of
the task is about, and `FlagsOK` and `CollectedOK` say that every rank has
exactly these, whenever it gets there. The exchanges of a program are then
numbered (`Stamp`), and each rank has a clock, the first exchange it has not sent
for. `WireOK` gives the wire from owner to user in one formula: one message for
each exchange that the owner has sent for, the user has not done and the two
share a field of (`Due`), in the order of the numbers, saying what the program's
last writer before that task left (`Proper`). The ranks bound one another from
one side only (`NoneAhead`: nobody is done with an exchange that its owner has
yet to send for); an owner may be any number of exchanges ahead. An exchange
adds its number at one end of `Due` and takes it at the other, which is what
`SelectedAppend` and `SelectedHead` say of the selections all lists are made of.
`SharedOK` gives the senders the version they put in; `GhostOK`, `RowsOK` and
`ResizedOK` say that what is flagged as good is good or has its message still to
come. Assumptions: `TopologyAssumption`, `TasksAssumption`, `RaggedAssumption`
(mutators are of ragged fields).

**LegionProofs**, on LegionGhosts: for any set of colors, topology, tasks and
program, `ReadsAreCoherent` (`GhostCoherent`), `FlagsTellTheTruth`
(`FlagsAreTrue`) and `NoNeedlessCopies` (`CopiesAreNeeded`). Points of launches
run late and in many orders, so the invariant speaks of the order of issue: a
field is stale before launch i if a writer was issued since the last launch
that refreshed or rewrote its ghosts (`Stale`); the flags say that of the next
launch (`FlagsOK`), and a copy was issued only where it was so (`CopiesOK`). Of
the points, those with interfering requirements run in the order of issue
(`DoneInOrder`), so the shared entities hold the last writer that has run
(`SharedOK`), the ghosts what the last refresh that has run found there
(`GhostOK`), and a point that is ready finds both as they were issued
(`ReadsOK`). Assumptions: `TopologyAssumption`, `TasksAssumption`, `NoInterference`
(two arguments of a task name one field only if neither writes).

**LegionProofs**, on LegionHandshake: for any processes and any number of MPI tasks,
`TypeCorrect`, `TasksInTurn`, `LegionBlocked`, `RunTogether`. None of the
properties is inductive: what an MPI thread may find in `mpi_active_` depends on
how far Legion has come, which no variable tells it. The invariant puts two
clocks on each process, the launch it is to run next (`At`) and the barriers its
MPI thread has entered, and ties them by the handshake: handoffs made less
handoffs waited for is what each direction counts, and that is 0 or 1
(`CountsOK`). So an MPI thread has control only while Legion stands at the
start or just before a `wait_on_mpi` (`Clocks`); `mpi_active_` is set exactly
between the launch that sets it and the call (`ActiveOK`), and the tasks called
are a function of the barriers (`TaskOK`). `BarrierOK` orders the barriers of
different processes, which `RunTogether` needs. Assumption:
`HandshakeAssumption` (there is a process; the number of tasks is natural).

**StartupProofs**: for any programs, any phases and any nesting of cycles,
`SortsInTheGraphsOrder` and `ActionsRunInOrder`. That a sorted phase has the one
order its graph leaves is far from inductive while the sort runs; the invariant
says what its loops have done. `LineOK`: the queue with what has left it, and the
list, part the nodes. `TallyOK`: a node of the list has lost exactly its edges
to the roots the loop has taken it past. `ReadyOK`: each node of the queue waits
for nothing but nodes before it; one that the loop has passed waits for
something that is not sorted yet, and one it has still to come to waited for
something when the last root was taken; so of two nodes in the queue the first
was ready earlier, or has the lower hash (`Before`). When the queue runs dry the
nodes left all wait for one another, which is a cycle (`SortEnds`). `IsOrder`
keeps the result while phases are walked, `CallsOK` says that the calls so far
are the beginning of it, and `StatementsOK` that the graphs hold what the
executed statements said, all of them once `main` begins: so the calls are in
the order the program asked for. A cycle cannot be among the phases walked,
since its node of least index in an order would wait for a later one
(`NoCycleWhileWalking`). `FieldsAreFound` is about the registries, whatever the
order of the statements and of the callbacks. `RegistryInv` says that the ids in
use are distinct and none is past `lastId` (`IdsOK`); that each version of a
field the program registered is what one of its statements said
(`UserFieldsOK`; keys of program fields are pairs and those of internal ones
triples, so they never meet); that a client called back has all its internal
fields in their index spaces (`ClientsOK`); and that the runtime's field
information is taken from the registry and agrees with it (`InfoOK`). Which
id a field gets does depend on the order, so no statement about single ids is
inductive. Assumptions: `NamesAssumption` (hashes and phases are natural
numbers), `WalkAssumption`, `ProgramsAssumption` (phases, cycles and statements
name phases, hashes and client types that exist) and `LayoutAssumption` (a
policy's tuples are lists; an adjacency's index space is its own and a subspace
belongs to one index space).

**TreeTraversalProofs**: for any pool, dimension, tree, query and jobs that
start traversals, `CountsAreJobs` (`SemCountsJobs`) and `ReturnsAreComplete`
(`ReturnsComplete`). That a traversal is complete when its semaphore lets it
through is not inductive: the count says how many jobs are missing, not which
leaves they would have handled. The invariant is about the branches a traversal
has still to go through, wherever they are (`Holds`): in the caller's list, in
the queue, or with a worker that has not run them. `TokensOK`: each is at or
below the start, under no branch left out, and a job is at the queue depth;
`ApartOK`: none is below another, nor twice; `HandledOK`: a leaf of the
sequential traversal has been handled, once, if and only if the traversal was
called and no such branch is above it. `NestingOK` says that a nested traversal
is uncalled as long as the branch whose job starts it is still to come, so each
is called at most once, and `PhaseOK` that only a traversal under way has jobs.
The count itself is arithmetic: the children of a branch weigh as much as the
branch (`KidsWeigh`), which also moves a count by what the semaphore is released
when a branch is a leaf or left out. When the caller is through its list and
acquires a positive count, no job is left, hence no branch is held and all
leaves are handled. `PowerOfTwo` and `JobsBelow` are recursive functions, of
which the proofs use that they exist (`PowersExist`, `BelowsExist`). Assumption:
`TraversalAssumption` (finite pool with a thread; a dimension above 0; a tree
has all branches above each of its own; the root is never left out; a job that
starts a traversal is of a branch at the queue depth).

**HaloExchangeProofs**: for any mesh, any partition and any number of colors, in
both ways of coloring, `ColorsGetThrough` (`AllGetThrough`), `GhostsAgree`
(`GhostsMatchShared`), `GhostsHoldOwnersRows` (`GhostRowsAreOwners`) and
`EdgeNumbersAgree` (`IdsAgree`), whatever `MinConnections` is; and, if it is 1,
`EntitiesHaveOneOwner` (`OwnedOnce`) and `HalosAreComplete` (`HaloComplete`).
None is inductive: each compares what the colors have at the end of some twenty
steps, in which they answered what others asked of them. But whatever the order
of the steps, what a color has after each of them is a function of the mesh and
the partition. The invariant says which. Each color is at a stage, a number for
its `pc` and index space, and has exactly what the stages behind it give
(`Situated`): the collectives it has called and what it gave to each (`Gives`),
its local variables (`ClosureKnows`, `DcrsKnows`), its coloring (`ColoredAs`:
first `Col`, then `Renumbered` at the owner and `Located` at the user), its
index maps, entities and rows. A channel holds one message for each send that
its sender is past and its receiver is not (`Messages`), in the order of the
sends, so a receive takes the message it is meant for, though numbers travel
without ids. `NothingEarly` (nobody is past a receive whose sender has not sent)
and `Together` (nobody leaves the last collective before all are at it) keep
that so.

`HaloExchangeProofs` proves that every step, of one color, of a collective or of
a message, keeps the invariant, and that the properties follow from it.

**HaloExchangeLemmas** holds these functions of the mesh and the partition, the
invariant itself and the facts about them that the steps need. An owner and a user draw up the two lists of a
message from different sets, each in the order of ids. `ColoringsMatch` says that
the sets have the same ids and agree on the offsets, `OrderedByIs` that a finite
set of numbers has one list in ascending order, and `SenderIs` and `ReceiverIs`
that both lists are therefore that of the ids (`Traded`); all that is packed,
sent, and unpacked is then indexed alike. That `color_entity` decides alike at
all colors rests on what the neighbors told each of the colors around a vertex
(`MinRankIs`, `SharersAre`, `HolderColors`); that `color_entities` does, and
finds an owner wherever it looks one up, on every vertex of a ghost cell being
claimed by the ghost cell's owner (`Claimed`, `OwnersFound`). The new numbers of
cells and edges are sums of the counts before plus a position (`SumsAre`,
`FlattenIs`, by a least counterexample), hence without holes. Assumptions: `ColorsAssumption`,
`MeshesAssumption` (the cells of a mesh are numbered from 0, there is one, and
each has finitely many numbered vertices and at least one), `NoneAssumption`
(`None` is not a number), `ConnectionsAssumption` (`MinConnections` is positive).
The partition is any, but none leaves a rank without cells where `migrate`
asserts that.

Only model-checked: liveness (fairness is beyond the prover) and the properties
of `TreeTopology`, whose operators are recursive as `insert`, `refine_` and
`coarsen_` are; the prover has no induction over what they compute.

## 5. What the models leave out

- Entities within a part, in the modules of the exchanges: a color's shared
  entities have one version. That both sides of a message of the aggregated
  exchange list the same entities is `GhostRowsAreOwners` of HaloExchange.
- `gather_coloring_info` leaves `shared_users` and `ghost_owners` empty: the loops
  that would fill them are compiled out (`mpi_communicator.h:603`). Every coloring
  of the repository goes through it, those of `add_colorings`, the tests and the
  tutorial. The exchange without `FLECSI_USE_AGGCOMM` takes its groups and the
  displacements of its windows from these sets (`context_policy.h:464`), so with
  such colorings it moves nothing, and no window has displacements whose
  agreement could be stated. `MpiGhostEager` is about the protocol for a
  specialization that adds a coloring information with the sets filled.
- `migrate` of `dcrs_utils.h:1019` keeps the columns of a graph under their old
  numbers; the vertices are a part of each cell in the model, and the graph is
  built anew before its columns are read.
- The calls to METIS and ParMETIS (the partition is any), the box colorers.
- Names stand for the hash keys of fields, clients and actions: keys that collide
  are not modelled.
- Graphviz output of the control model. `control/macro.h` names
  `context_t::control_phase_map`, which does not exist at this commit. An action
  registered after the first `execute` (`control.h:91`) would never be sorted;
  in the modelled programs all statements are at file scope.
- Global and color data; index maps of adjacencies; fields registered again after
  a window was created over their data (`context_policy.h:627`); a list of owners
  of ghosts with an owner of none (`:536`); ids of entities beyond `MPI_TAG_UB`
  as tags (`task_epilog.h:234`).
- The row counts of ragged fields without aggregation, one message an entity with
  one tag (`finalize_handles.h:126`).
- Two accessors of one field in a Legion task of which one writes
  (`NoInterference`): the prolog would leave the flag readable before the write.
  Legion does not launch such a task, since its requirements interfere. The MPI
  models include them; there the flags are reset after the user function.
- That data outlives a `WRITE_DISCARD` asked for `na` is assumed of the mapper.
- The tree is one-dimensional. A removed entity's position is parked at 0. A
  coordinate at the upper end of the range goes to the first cell (`:337`), so
  positions lie below it. More entities in a finest cell than the threshold are
  refined past the last depth (`:1280`): the model does not insert them, but for
  the doubled ones of `update_all`, and says nothing of a tree after `overflow`.
  Rounding in the arithmetic of coordinates and radii is left out.
- `remove` leaves a coarsening pending at a root without parent
  (`tree_topology.h:740`). The next insertion that finds it pending runs into
  `assert(false && "invalid action")`; without assertions it is ignored, as in
  the model.
- `try_acquire` and a bounded semaphore, single launches of Legion tasks (which
  copy over two colors whatever their number, `execution_policy.h:226`), what
  finalizing handles moved from does (`task_wrapper.h:287`), reductions, futures.
- Components with status `not_modelled`, each with its reason in `PROJECT.json`.

## 6. Plan

Modelling, in this order:
1. Mesh connectivity: transpose and intersection against their definitions.
2. Ragged fields of `MpiGhostEager`: the row counts by tag and the window of
   `max_entries_per_index` slots; `finalize_handles`.
3. `SetTopology`: main, active and migrate index spaces.

Where a run answers the same question as a later, larger one, it is replaced.

Proving: that `MpiGhostEager` and `MpiGhostLazy`, instantiated with the owners
and users that `HaloExchange` ends with, satisfy `TopologyAssumption`; what the
tree's operators do, written as recursive functions.
