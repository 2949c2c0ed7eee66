---------------------------- MODULE ControlModel ----------------------------
(***************************************************************************)
(* The control model, control/control.h: file-scope statements add actions *)
(* and the edges between them to a dag for each phase, in whatever order   *)
(* the program's translation units are initialized.  execute() sorts every *)
(* phase once, with Kahn's algorithm (utils/dag.h), and walks the phases   *)
(* and cycles of the policy (phase_walker.h), calling the actions of each. *)
(* An action is named by the hash that is its key in the dag's map.        *)
(***************************************************************************)
EXTENDS Integers, FiniteSets, Sequences

CONSTANTS
    Phases,     \* the control points, numbers
    Names,      \* the hashes of actions, numbers
    Walk,       \* CONTROL_POLICY::phases: a tuple of phases and cycles
    Tuples,     \* this tuple and those of its cycles
    MaxRounds   \* bound: the predicates of cycles say "again" so often in all

ASSUME NamesAssumption == Names \subseteq Nat /\ Phases \subseteq Nat
ASSUME WalkAssumption ==
    /\ Walk \in Tuples
    /\ \A t \in Tuples :
          /\ Len(t) \in Nat
          /\ \A i \in 1..Len(t) : \/ t[i].cycle = FALSE /\ t[i].phase \in Phases
                                  \/ t[i].cycle = TRUE /\ t[i].tuple \in Tuples

VARIABLES
    nodes,      \* nodes_ of each phase's dag
    actions,    \* the nodes that have been given an action
    edges,      \* edges[p][to][from]: how often the edge has been added
    sorted,     \* sorted_, of the phases in sortedPhases
    sortedPhases,
    at,         \* where execute() is
    phase,      \* the phase that is being sorted
    line,       \* the nodes that have entered the queue of sort(), in order
    count,      \* how many of these have left it, and are sorted
    nodeList,   \* nodes: the copies still in the list
    tally,      \* the edges these have left
    scan,       \* the part of the list that the loop has yet to come to
    stack,      \* the phase walkers, each at an element of its tuple
    ran,        \* the actions called in this visit of the phase
    rounds

dagVars   == <<nodes, actions, edges>>
sortVars  == <<phase, line, count, nodeList, tally, scan>>
orderVars == <<sorted, sortedPhases>>
walkVars  == <<stack, ran, rounds>>
controlVars == <<dagVars, orderVars, at, sortVars, walkVars>>

NoEdges == [to \in Names |-> [from \in Names |-> 0]]

ControlInit ==
    /\ nodes = [p \in Phases |-> {}]
    /\ actions = nodes
    /\ edges = [p \in Phases |-> NoEdges]
    /\ sorted = [p \in Phases |-> <<>>] /\ sortedPhases = {}
    /\ at = "idle"
    /\ phase = 0 /\ line = <<>> /\ count = 0 /\ nodeList = {} /\ tally = NoEdges /\ scan = {}
    /\ stack = <<>> /\ ran = <<>> /\ rounds = 0

-----------------------------------------------------------------------------
(* At file scope *)

\* initialize_node: the node may be known from an edge, and keeps its edges.
RegisterAction(p, n) ==
    /\ nodes' = [nodes EXCEPT ![p] = @ \cup {n}]
    /\ actions' = [actions EXCEPT ![p] = @ \cup {n}]
    /\ UNCHANGED edges

\* add_edge: both nodes are made if they do not exist; the list of edges may
\* hold the same edge several times.
AddEdge(p, to, from) ==
    /\ nodes' = [nodes EXCEPT ![p] = @ \cup {to, from}]
    /\ edges' = [edges EXCEPT ![p][to][from] = @ + 1]
    /\ UNCHANGED actions

-----------------------------------------------------------------------------
(* sort_phases and dag_u::sort *)

\* std::map and the list made of it run in ascending order.
First(S) == CHOOSE x \in S : \A y \in S : x <= y

\* A phase gets an entry of registry_ with its first statement.
Unsorted == {p \in Phases : nodes[p] # {}} \ sortedPhases

Execute ==
    /\ at = "idle"
    /\ at' = IF sortedPhases = {} THEN "phases" ELSE "walk"
    /\ stack' = IF sortedPhases = {} THEN <<>> ELSE <<[tuple |-> Walk, next |-> 1]>>
    /\ UNCHANGED <<dagVars, orderVars, sortVars, ran, rounds>>

StartSort ==
    /\ at = "phases"
    /\ Unsorted # {}
    /\ at' = "sort"
    /\ phase' = First(Unsorted)
    /\ line' = <<>> /\ count' = 0
    /\ nodeList' = nodes[phase'] /\ tally' = edges[phase']
    /\ scan' = nodes[phase']
    /\ UNCHANGED <<dagVars, orderVars, walkVars>>

\* Mutant: erasing one edge also moves on to the next node.
WithoutOne(list, root) == [list EXCEPT ![root] = IF @ > 0 THEN @ - 1 ELSE 0]

\* The loop stays at a node until it has no edge left to the root.
Without(list, root) == [list EXCEPT ![root] = 0]

\* One node of the list: in the first loop, one without edges enters the queue;
\* in the others, one that loses its last edge does.
Scan ==
    LET n    == First(scan)
        list == IF count = 0 THEN tally[n] ELSE Without(tally[n], line[count])
        free == \A m \in Names : list[m] = 0
    IN
    /\ at = "sort"
    /\ scan # {}
    /\ scan' = scan \ {n}
    /\ tally' = [tally EXCEPT ![n] = list]
    /\ line' = IF free THEN Append(line, n) ELSE line
    /\ nodeList' = IF free THEN nodeList \ {n} ELSE nodeList
    /\ UNCHANGED <<dagVars, orderVars, at, phase, count, walkVars>>

\* The front of the queue becomes the root, and is sorted.
Pop ==
    /\ at = "sort"
    /\ scan = {}
    /\ count < Len(line)
    /\ count' = count + 1
    /\ scan' = nodeList
    /\ UNCHANGED <<dagVars, orderVars, at, phase, line, nodeList, tally, walkVars>>

\* Mutant: what could be sorted of a cyclic graph is taken for the order.
FinishSortAnyway ==
    /\ at = "sort"
    /\ scan = {} /\ count = Len(line)
    /\ at' = "phases"
    /\ sorted' = [sorted EXCEPT ![phase] = line]
    /\ sortedPhases' = sortedPhases \cup {phase}
    /\ UNCHANGED <<dagVars, sortVars, walkVars>>

\* The queue is empty: "sorting failed. This is not a DAG!!!" if nodes are left.
FinishSort ==
    /\ at = "sort"
    /\ scan = {} /\ count = Len(line)
    /\ IF count # Cardinality(nodes[phase])
       THEN at' = "fatal" /\ UNCHANGED orderVars
       ELSE /\ at' = "phases"
            /\ sorted' = [sorted EXCEPT ![phase] = line]
            /\ sortedPhases' = sortedPhases \cup {phase}
    /\ UNCHANGED <<dagVars, sortVars, walkVars>>

StartWalk ==
    /\ at = "phases"
    /\ Unsorted = {}
    /\ at' = "walk"
    /\ stack' = <<[tuple |-> Walk, next |-> 1]>>
    /\ UNCHANGED <<dagVars, orderVars, sortVars, ran, rounds>>

-----------------------------------------------------------------------------
(* walk_types and phase_walker_u::handle_type *)

Walker   == stack[Len(stack)]
AtEnd    == Walker.next > Len(Walker.tuple)
Element  == Walker.tuple[Walker.next]
Advanced == [stack EXCEPT ![Len(stack)].next = @ + 1]

\* The next action of the phase; an empty std::function throws.
CallAction ==
    /\ at = "walk" /\ ~AtEnd /\ Element.cycle = FALSE
    /\ Len(ran) < Len(sorted[Element.phase])
    /\ LET n == sorted[Element.phase][Len(ran) + 1] IN
       IF n \in actions[Element.phase]
       THEN ran' = Append(ran, n) /\ UNCHANGED at
       ELSE at' = "threw" /\ UNCHANGED ran
    /\ UNCHANGED <<dagVars, orderVars, sortVars, stack, rounds>>

LeavePhase ==
    /\ at = "walk" /\ ~AtEnd /\ Element.cycle = FALSE
    /\ Len(ran) = Len(sorted[Element.phase])
    /\ ran' = <<>>
    /\ stack' = Advanced
    /\ sortedPhases' = sortedPhases \cup {Element.phase}
    /\ UNCHANGED <<dagVars, sorted, at, sortVars, rounds>>

\* while(PHASE_TYPE::predicate()): a walker of its own for each round.
EnterRound ==
    /\ at = "walk" /\ ~AtEnd /\ Element.cycle = TRUE
    /\ rounds < MaxRounds
    /\ rounds' = rounds + 1
    /\ stack' = Append(stack, [tuple |-> Element.tuple, next |-> 1])
    /\ UNCHANGED <<dagVars, orderVars, at, sortVars, ran>>

LeaveCycle ==
    /\ at = "walk" /\ ~AtEnd /\ Element.cycle = TRUE
    /\ stack' = Advanced
    /\ UNCHANGED <<dagVars, orderVars, at, sortVars, ran, rounds>>

\* The walker of a round ends, or execute() returns.
LeaveWalker ==
    /\ at = "walk" /\ AtEnd
    /\ stack' = SubSeq(stack, 1, Len(stack) - 1)
    /\ at' = IF Len(stack) = 1 THEN "idle" ELSE at
    /\ UNCHANGED <<dagVars, orderVars, sortVars, ran, rounds>>

ControlStep ==
    \/ StartSort \/ Scan \/ Pop \/ FinishSort
    \/ StartWalk \/ CallAction \/ LeavePhase \/ EnterRound \/ LeaveCycle \/ LeaveWalker

-----------------------------------------------------------------------------
(* Properties *)

\* All that n waits for is among the first k of a sequence.
ReadyAfter(p, n, s, k) ==
    \A m \in Names : edges[p][n][m] > 0 => \E i \in 1..k : s[i] = m

\* Nodes of a phase that all wait for one another.
Cycle(p, S) == S # {} /\ \A n \in S : \E m \in S : edges[p][n][m] > 0

\* A sorted phase holds each node once, after all it depends on; nodes that are
\* ready earlier come earlier, and of those that are ready together the lower
\* hash.  This leaves one order for each graph: actions call collective tasks,
\* so it may depend neither on the order of the statements nor on the rank.
\* And sort() fails only of a graph with a cycle.
OrderIsTheGraphs ==
    /\ at = "fatal" => \E S \in SUBSET nodes[phase] : Cycle(phase, S)
    /\ \A p \in sortedPhases :
           LET s == sorted[p] IN
           /\ Len(s) = Cardinality(nodes[p]) /\ {s[i] : i \in DOMAIN s} = nodes[p]
           /\ \A j \in DOMAIN s :
                 /\ ReadyAfter(p, s[j], s, j - 1)
                 /\ \A i \in 1..j - 1 :
                       \/ \E k \in 0..Len(s) : ReadyAfter(p, s[i], s, k) /\ ~ReadyAfter(p, s[j], s, k)
                       \/ s[i] < s[j] /\ \A k \in 0..Len(s) :
                              ReadyAfter(p, s[i], s, k) <=> ReadyAfter(p, s[j], s, k)
=============================================================================
