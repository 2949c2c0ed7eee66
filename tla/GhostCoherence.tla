---------------------------- MODULE GhostCoherence --------------------------
(***************************************************************************)
(* What flecsi promises a distributed program: each color runs the tasks   *)
(* of the program in order, and the ghosts a task reads hold what their    *)
(* owner's tasks left there, as if the program ran on one memory.  How far *)
(* the other colors have come makes no difference.                         *)
(***************************************************************************)
EXTENDS GhostPrograms

VARIABLES prog,     \* the tasks the driver executes
          ran,      \* how many of them each color has executed
          seen      \* the ghost versions the last of them read

vars == <<prog, ran, seen>>

Init ==
    /\ prog \in Programs
    /\ ran = [c \in Colors |-> 0]
    /\ seen = [c \in Colors |-> {}]

\* The ghosts that task k of color c reads, each in its owner's last version.
CoherentReads(c, k) ==
    {r \in [field : Fields, owner : Colors, version : 0..k - 1] :
        /\ r.owner \in GhostOwners[r.field][c]
        /\ ReadsGhost(prog[k], r.field)
        /\ IsLatest(prog, r.version, r.field, k)}

Run(c) ==
    /\ ran[c] < NumTasks
    /\ ran' = [ran EXCEPT ![c] = @ + 1]
    /\ seen' = [seen EXCEPT ![c] = CoherentReads(c, ran[c] + 1)]
    /\ UNCHANGED prog

Next == \E c \in Colors : Run(c)

SafeSpec == Init /\ [][Next]_vars
Spec == SafeSpec /\ \A c \in Colors : WF_vars(Run(c))
=============================================================================
