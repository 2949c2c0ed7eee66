------------------------- MODULE MpiGhostEagerProofs ------------------------
(***************************************************************************)
(* Proofs about MpiGhostEager, for any set of colors, any relation of      *)
(* ghost owners and shared users, any set of tasks and any program.        *)
(*                                                                         *)
(* The inductive invariant orders the epochs of the colors that share an   *)
(* edge of that relation: an owner leaves an epoch only after its users    *)
(* completed it, and a user completes one only after its owners posted it. *)
(***************************************************************************)
EXTENDS MpiGhostEager, TLAPS

\* The epochs of the program: argument i of task k makes an exchange.
Epoch(k, i) == k \in 1..NumTasks /\ i \in DOMAIN prog[k] /\ Exchanges(prog[k][i])

\* Color c is past argument i of task k.
Past(c, k, i) ==
    task[c] > k \/ (task[c] = k /\ pc[c] # "user" /\ arg[c] > i)

\* Color c is at argument i of task k, in the epoch it makes.
Within(c, k, i) == task[c] = k /\ arg[c] = i /\ pc[c] \in {"access", "wait"}

\* Color c has completed the access epoch of argument i of task k.
Completed(c, k, i) ==
    Past(c, k, i) \/ (task[c] = k /\ arg[c] = i /\ pc[c] = "wait")

\* Color c has posted the exposure epoch of argument i of task k.
Posted(c, k, i) == Past(c, k, i) \/ Within(c, k, i)

\* Where a color can be in a task.
PcOK ==
    \A c \in Colors : pc[c] # "user" =>
        /\ task[c] \in 1..NumTasks
        /\ arg[c] \in 1..Len(prog[task[c]]) + 1
        /\ pc[c] \in {"access", "wait"} => Epoch(task[c], arg[c])

\* An owner is past an epoch only if its users have completed it.
OwnersWait ==
    \A c, o \in Colors : \A k, i \in Nat :
        /\ Epoch(k, i)
        /\ o \in GhostOwners[prog[k][i].field][c]
        /\ Past(o, k, i)
        => Completed(c, k, i)

\* A user has completed an epoch only if its owners have posted it, and got
\* from those that have.
UsersFollow ==
    \A c, o \in Colors :
        /\ \A k, i \in Nat :
               /\ Epoch(k, i)
               /\ o \in GhostOwners[prog[k][i].field][c]
               /\ Completed(c, k, i)
               => Posted(o, k, i)
        /\ pc[c] = "access" /\ o \in got[c] => Posted(o, task[c], arg[c])

\* In an epoch, a window is exposed to the users that have not completed it;
\* outside, it is exposed to nobody.
ExposureOK ==
    \A c \in Colors : \A f \in Fields : \A u \in SharedUsers[f][c] :
        u \in exposed[c][f] <=>
            /\ pc[c] \in {"access", "wait"}
            /\ prog[task[c]][arg[c]].field = f
            /\ ~Completed(u, task[c], arg[c])

\* The shared entities hold the version the color's own tasks left there.
SharedOK ==
    \A c \in Colors, f \in Fields :
        IsLatest(prog, shared[c][f], f,
                 IF pc[c] = "user" THEN task[c] ELSE task[c] + 1)

\* An exchange of field f from owner o is still to come in color c's task.
Pending(c, f, o) ==
    \E i \in DOMAIN prog[task[c]] :
        /\ prog[task[c]][i].field = f
        /\ Exchanges(prog[task[c]][i])
        /\ \/ i > arg[c]
           \/ i = arg[c] /\ pc[c] = "epilog"
           \/ i = arg[c] /\ pc[c] = "access" /\ o \notin got[c]

\* A ghost is up to date, or is going to be.
GhostOK ==
    \A c \in Colors, f \in Fields : \A o \in GhostOwners[f][c] :
        IF pc[c] = "user"
        THEN IsLatest(prog, ghost[c][f][o], f, task[c])
        ELSE IsLatest(prog, ghost[c][f][o], f, task[c] + 1) \/ Pending(c, f, o)

IInv == TypeOK /\ PcOK /\ OwnersWait /\ UsersFollow /\ ExposureOK /\ SharedOK /\ GhostOK

-----------------------------------------------------------------------------
(* Types *)

\* Each task of a program is a sequence of arguments.
LEMMA TaskFacts ==
    ASSUME prog \in Programs, NEW k \in 1..NumTasks
    PROVE  /\ prog[k] \in Tasks
           /\ prog[k] \in Seq(Arguments)
           /\ Len(prog[k]) \in Nat
           /\ DOMAIN prog[k] = 1..Len(prog[k])
           /\ \A i \in DOMAIN prog[k] : prog[k][i].field \in Fields
<1>1. prog[k] \in Tasks
  BY DEF Programs
<1>2. prog[k] \in Seq(Arguments)
  BY <1>1, TasksAssumption
<1>3. \A i \in DOMAIN prog[k] : prog[k][i] \in Arguments
  BY <1>2
<1>4. \A a \in Arguments : a.field \in Fields
  BY DEF Arguments, Accessors, Mutators
<1> QED
  BY <1>1, <1>2, <1>3, <1>4

\* The initial state is well typed.
LEMMA TypeInit == Init => TypeOK
<1> SUFFICES ASSUME Init PROVE TypeOK
  OBVIOUS
<1> USE DEF Init
<1>1. task \in [Colors -> 1..NumTasks + 1] /\ arg \in [Colors -> Nat]
  BY TasksAssumption
<1>2. pc \in [Colors -> States]
  BY DEF States
<1>3. shared \in [Colors -> [Fields -> Nat]]
  OBVIOUS
<1>4. ghost \in [Colors -> [Fields -> [Colors -> Nat]]]
  OBVIOUS
<1>5. exposed \in [Colors -> [Fields -> SUBSET Colors]]
  <2>1. [f \in Fields |-> {}] \in [Fields -> SUBSET Colors]
    OBVIOUS
  <2> QED BY <2>1
<1>6. got \in [Colors -> SUBSET Colors]
  OBVIOUS
<1>7. \A c \in Colors, f \in Fields : exposed[c][f] \subseteq SharedUsers[f][c]
  OBVIOUS
<1> QED
  BY <1>1, <1>2, <1>3, <1>4, <1>5, <1>6, <1>7 DEF TypeOK

\* Every step of a color keeps the types and where it can be in a task.
LEMMA TypeStep ==
    ASSUME TypeOK, PcOK, NEW c \in Colors, Step(c)
    PROVE  TypeOK' /\ PcOK'
<1> USE TopologyAssumption, TasksAssumption DEF TypeOK, States, Goto
<1>1. prog' = prog
  BY DEF Step, Execute, Skip, Post, Complete, Wait, Return, Get
<1>2. CASE Execute(c)
  <2>1. task[c] \in 1..NumTasks
    BY <1>2 DEF Execute
  <2>2. shared' \in [Colors -> [Fields -> Nat]]
    <3>1. \A f \in Fields : (IF WritesShared(Current(c), f) THEN task[c] ELSE shared[c][f]) \in Nat
      BY <2>1
    <3> QED BY <3>1, <1>2 DEF Execute
  <2>3. ghost' \in [Colors -> [Fields -> [Colors -> Nat]]]
    <3>1. \A f \in Fields : (IF WritesGhost(Current(c), f) THEN [o \in Colors |-> task[c]]
                             ELSE ghost[c][f]) \in [Colors -> Nat]
      BY <2>1
    <3> QED BY <3>1, <1>2 DEF Execute
  <2>4. /\ task' = task /\ exposed' = exposed /\ got' = got
        /\ arg' = [arg EXCEPT ![c] = 1] /\ pc' = [pc EXCEPT ![c] = "epilog"]
    BY <1>2 DEF Execute, mpi
  <2>5. TypeOK'
    BY <1>1, <2>2, <2>3, <2>4
  <2>6. Len(prog[task[c]]) \in Nat
    BY <2>1, TaskFacts
  <2>7. PcOK'
    BY <1>1, <2>1, <2>4, <2>6 DEF PcOK, Epoch
  <2> QED BY <2>5, <2>7
<1>3. CASE Skip(c)
  <2>1. /\ arg' = [arg EXCEPT ![c] = @ + 1] /\ pc' = pc /\ task' = task
        /\ pc[c] = "epilog" /\ arg[c] <= Len(prog[task[c]])
        /\ exposed' = exposed /\ got' = got /\ shared' = shared /\ ghost' = ghost
    BY <1>3 DEF Skip, AtArgument, Current, data, mpi
  <2>2. task[c] \in 1..NumTasks /\ Len(prog[task[c]]) \in Nat
    BY <2>1, TaskFacts DEF PcOK
  <2>3. PcOK'
    BY <1>1, <2>1, <2>2 DEF PcOK, Epoch
  <2> QED BY <1>1, <2>1, <2>3
<1>4. CASE Post(c)
  <2>1. /\ arg' = arg /\ pc' = [pc EXCEPT ![c] = "access"] /\ task' = task
        /\ pc[c] = "epilog" /\ arg[c] <= Len(prog[task[c]])
        /\ Exchanges(prog[task[c]][arg[c]])
        /\ exposed' = [exposed EXCEPT ![c][prog[task[c]][arg[c]].field] =
                                    SharedUsers[prog[task[c]][arg[c]].field][c]]
        /\ got' = [got EXCEPT ![c] = {}] /\ shared' = shared /\ ghost' = ghost
    BY <1>4 DEF Post, AtArgument, Argument, Current, data
  <2>2. /\ task[c] \in 1..NumTasks /\ Len(prog[task[c]]) \in Nat
        /\ arg[c] \in DOMAIN prog[task[c]]
        /\ prog[task[c]][arg[c]].field \in Fields
    BY <2>1, TaskFacts DEF PcOK
  <2>3. PcOK'
    BY <1>1, <2>1, <2>2 DEF PcOK, Epoch
  <2>4. exposed' \in [Colors -> [Fields -> SUBSET Colors]]
    BY <2>1, <2>2
  <2>5. \A d \in Colors, f \in Fields : exposed'[d][f] \subseteq SharedUsers[f][d]
    BY <2>1, <2>2
  <2> QED BY <1>1, <2>1, <2>3, <2>4, <2>5
<1>5. ASSUME NEW o \in Colors, Get(c, o)
      PROVE  TypeOK' /\ PcOK'
  <2>1. /\ arg' = arg /\ pc' = pc /\ task' = task
        /\ pc[c] = "access" /\ o \in GhostOwners[prog[task[c]][arg[c]].field][c]
        /\ exposed' = exposed /\ shared' = shared
        /\ got' = [got EXCEPT ![c] = @ \cup {o}]
        /\ ghost' = [ghost EXCEPT ![c][prog[task[c]][arg[c]].field][o] =
                                    shared[o][prog[task[c]][arg[c]].field]]
    BY <1>5 DEF Get, Argument, Current
  <2>2. prog[task[c]][arg[c]].field \in Fields
    BY <2>1, TaskFacts DEF PcOK, Epoch
  <2>3. PcOK'
    BY <1>1, <2>1 DEF PcOK, Epoch
  <2>4. ghost' \in [Colors -> [Fields -> [Colors -> Nat]]]
    <3> DEFINE f == prog[task[c]][arg[c]].field
               copied == [ghost[c][f] EXCEPT ![o] = shared[o][f]]
    <3>1. copied \in [Colors -> Nat]
      <4>1. ghost[c] \in [Fields -> [Colors -> Nat]] /\ shared[o] \in [Fields -> Nat]
        OBVIOUS
      <4>2. ghost[c][f] \in [Colors -> Nat] /\ shared[o][f] \in Nat
        BY <4>1, <2>2
      <4> HIDE DEF f
      <4> QED BY <4>2
    <3>2. [ghost[c] EXCEPT ![f] = copied] \in [Fields -> [Colors -> Nat]]
      BY <2>2, <3>1
    <3>3. ghost' = [ghost EXCEPT ![c] = [ghost[c] EXCEPT ![f] = copied]]
      BY <2>1
    <3>4. ghost \in [Colors -> [Fields -> [Colors -> Nat]]]
      OBVIOUS
    <3> HIDE DEF f, copied, TypeOK
    <3> QED BY <3>2, <3>3, <3>4
  <2>5. got' \in [Colors -> SUBSET Colors]
    BY <2>1
  <2>6. task' = task /\ arg' = arg /\ pc' = pc /\ shared' = shared /\ exposed' = exposed
    BY <2>1
  <2> QED BY <1>1, <2>3, <2>4, <2>5, <2>6
<1>6. CASE Complete(c)
  <2>1. /\ arg' = arg /\ pc' = [pc EXCEPT ![c] = "wait"] /\ task' = task
        /\ pc[c] = "access" /\ got' = got /\ shared' = shared /\ ghost' = ghost
        /\ exposed' = [o \in Colors |->
              IF o \in GhostOwners[prog[task[c]][arg[c]].field][c]
              THEN [exposed[o] EXCEPT ![prog[task[c]][arg[c]].field] = @ \ {c}]
              ELSE exposed[o]]
    BY <1>6 DEF Complete, Argument, Current, data
  <2>2. PcOK'
    BY <1>1, <2>1 DEF PcOK, Epoch
  <2>3. exposed' \in [Colors -> [Fields -> SUBSET Colors]]
    <3> DEFINE f == prog[task[c]][arg[c]].field
    <3>1. ASSUME NEW o \in Colors
          PROVE  [exposed[o] EXCEPT ![f] = @ \ {c}] \in [Fields -> SUBSET Colors]
      <4>1. exposed[o] \in [Fields -> SUBSET Colors]
        OBVIOUS
      <4>2. \A g \in Fields : exposed[o][g] \ {c} \in SUBSET Colors
        BY <4>1
      <4> HIDE DEF f
      <4> QED BY <4>1, <4>2
    <3> QED BY <2>1, <3>1
  <2>4. \A d \in Colors, f \in Fields : exposed'[d][f] \subseteq SharedUsers[f][d]
    BY <2>1
  <2> QED BY <1>1, <2>1, <2>2, <2>3, <2>4
<1>7. CASE Wait(c)
  <2>1. /\ arg' = [arg EXCEPT ![c] = @ + 1] /\ pc' = [pc EXCEPT ![c] = "epilog"]
        /\ pc[c] = "wait" /\ task' = task
        /\ exposed' = exposed /\ got' = got /\ shared' = shared /\ ghost' = ghost
    BY <1>7 DEF Wait, data, mpi
  <2>2. task[c] \in 1..NumTasks /\ Len(prog[task[c]]) \in Nat
        /\ arg[c] \in 1..Len(prog[task[c]])
    BY <2>1, TaskFacts DEF PcOK, Epoch
  <2>3. PcOK'
    BY <1>1, <2>1, <2>2 DEF PcOK, Epoch
  <2> QED BY <1>1, <2>1, <2>3
<1>8. CASE Return(c)
  <2>1. /\ arg' = arg /\ pc' = [pc EXCEPT ![c] = "user"]
        /\ pc[c] = "epilog" /\ task' = [task EXCEPT ![c] = @ + 1]
        /\ exposed' = exposed /\ got' = got /\ shared' = shared /\ ghost' = ghost
    BY <1>8 DEF Return, data, mpi
  <2>2. task[c] \in 1..NumTasks
    BY <2>1 DEF PcOK
  <2>3. PcOK'
    BY <1>1, <2>1 DEF PcOK, Epoch
  <2> QED BY <1>1, <2>1, <2>2, <2>3
<1> QED
  BY <1>2, <1>3, <1>4, <1>5, <1>6, <1>7, <1>8 DEF Step

-----------------------------------------------------------------------------
(* Where the colors are *)

LEMMA Positions ==
    ASSUME TypeOK, NEW c \in Colors
    PROVE  task[c] \in Nat /\ arg[c] \in Nat
<1>1. task[c] \in 1..NumTasks + 1 /\ arg[c] \in Nat
  BY DEF TypeOK
<1> QED
  BY <1>1

\* A step of one color moves no other.
LEMMA OthersStay ==
    ASSUME TypeOK, NEW c \in Colors, Step(c), NEW d \in Colors, d # c
    PROVE  /\ task'[d] = task[d] /\ arg'[d] = arg[d] /\ pc'[d] = pc[d]
           /\ got'[d] = got[d] /\ shared'[d] = shared[d] /\ ghost'[d] = ghost[d]
<1> USE DEF TypeOK, Goto
<1>1. CASE Execute(c)
  BY <1>1 DEF Execute, mpi
<1>2. CASE Skip(c) \/ Wait(c) \/ Return(c)
  BY <1>2 DEF Skip, Wait, Return, data, mpi
<1>3. CASE Post(c) \/ Complete(c)
  BY <1>3 DEF Post, Complete, data
<1>4. CASE \E o \in Colors : Get(c, o)
  BY <1>4 DEF Get
<1> QED
  BY <1>1, <1>2, <1>3, <1>4 DEF Step

\* Nothing moves the program.
LEMMA SameProgram ==
    ASSUME NEW c \in Colors, Step(c)
    PROVE  prog' = prog
  BY DEF Step, Execute, Skip, Post, Get, Complete, Wait, Return

\* How a color moves through a task: it stays, it enters the task or an
\* epoch, it completes one, or it leaves an argument or the task.
LEMMA Moves ==
    ASSUME TypeOK, PcOK, NEW c \in Colors, Step(c)
    PROVE  \/ /\ Execute(c) /\ pc[c] = "user" /\ pc'[c] = "epilog"
              /\ task'[c] = task[c] /\ arg'[c] = 1 /\ task[c] \in 1..NumTasks
           \/ /\ Skip(c) /\ pc[c] = "epilog" /\ pc'[c] = "epilog"
              /\ task'[c] = task[c] /\ arg'[c] = arg[c] + 1
              /\ ~Epoch(task[c], arg[c])
           \/ /\ Post(c) /\ pc[c] = "epilog" /\ pc'[c] = "access"
              /\ task'[c] = task[c] /\ arg'[c] = arg[c]
           \/ /\ \E o \in Colors : Get(c, o)
              /\ pc[c] = "access" /\ pc'[c] = "access"
              /\ task'[c] = task[c] /\ arg'[c] = arg[c]
           \/ /\ Complete(c) /\ pc[c] = "access" /\ pc'[c] = "wait"
              /\ task'[c] = task[c] /\ arg'[c] = arg[c]
           \/ /\ Wait(c) /\ pc[c] = "wait" /\ pc'[c] = "epilog"
              /\ task'[c] = task[c] /\ arg'[c] = arg[c] + 1
           \/ /\ Return(c) /\ pc[c] = "epilog" /\ pc'[c] = "user"
              /\ task'[c] = task[c] + 1 /\ arg'[c] = arg[c]
              /\ arg[c] > Len(prog[task[c]])
<1> USE TasksAssumption DEF TypeOK, Goto
<1>1. CASE Execute(c)
  BY <1>1 DEF Execute
<1>2. CASE Skip(c)
  BY <1>2 DEF Skip, AtArgument, Argument, Current, Epoch
<1>3. CASE Post(c)
  BY <1>3 DEF Post, AtArgument
<1>4. CASE \E o \in Colors : Get(c, o)
  BY <1>4 DEF Get
<1>5. CASE Complete(c)
  BY <1>5 DEF Complete
<1>6. CASE Wait(c)
  BY <1>6 DEF Wait
<1>7. CASE Return(c)
  BY <1>7 DEF Return, Current
<1> QED
  BY <1>1, <1>2, <1>3, <1>4, <1>5, <1>6, <1>7 DEF Step

\* No color goes back; it passes an epoch by waiting for its users in it.
LEMMA PastStep ==
    ASSUME TypeOK, PcOK, NEW c \in Colors, Step(c), NEW d \in Colors,
           NEW k \in Nat, NEW i \in Nat, Epoch(k, i)
    PROVE  /\ Past(d, k, i) => Past(d, k, i)'
           /\ Past(d, k, i)' /\ ~Past(d, k, i)
                => Wait(c) /\ d = c /\ task[c] = k /\ arg[c] = i
<1>1. CASE d # c
  BY <1>1, OthersStay DEF Past
<1>2. CASE d = c
  <2>1. task[c] \in Nat /\ arg[c] \in Nat
    BY Positions
  <2>2. i \in 1..Len(prog[k]) /\ Len(prog[k]) \in Nat
    BY TaskFacts DEF Epoch, TypeOK
  <2>3. pc[c] # "user" => arg[c] >= 1 /\ task[c] \in 1..NumTasks
    BY DEF PcOK, TypeOK
  <2> QED BY <1>2, <2>1, <2>2, <2>3, Moves DEF Past
<1> QED BY <1>1, <1>2

\* No color takes back what it completed; it does so in Complete.
LEMMA CompletedStep ==
    ASSUME TypeOK, PcOK, NEW c \in Colors, Step(c), NEW d \in Colors,
           NEW k \in Nat, NEW i \in Nat, Epoch(k, i)
    PROVE  /\ Completed(d, k, i) => Completed(d, k, i)'
           /\ Completed(d, k, i)' /\ ~Completed(d, k, i)
                => Complete(c) /\ d = c /\ task[c] = k /\ arg[c] = i
<1>1. CASE d # c
  BY <1>1, OthersStay DEF Past, Completed
<1>2. CASE d = c
  <2>1. task[c] \in Nat /\ arg[c] \in Nat
    BY Positions
  <2>2. i \in 1..Len(prog[k]) /\ Len(prog[k]) \in Nat
    BY TaskFacts DEF Epoch, TypeOK
  <2>3. pc[c] # "user" => arg[c] >= 1 /\ task[c] \in 1..NumTasks
    BY DEF PcOK, TypeOK
  <2> QED BY <1>2, <2>1, <2>2, <2>3, Moves DEF Past, Completed
<1> QED BY <1>1, <1>2

\* No color takes back what it posted; it does so in Post.
LEMMA PostedStep ==
    ASSUME TypeOK, PcOK, NEW c \in Colors, Step(c), NEW d \in Colors,
           NEW k \in Nat, NEW i \in Nat, Epoch(k, i), Posted(d, k, i)
    PROVE  Posted(d, k, i)'
<1>1. CASE d # c
  BY <1>1, OthersStay DEF Past, Posted, Within
<1>2. CASE d = c
  <2>1. task[c] \in Nat /\ arg[c] \in Nat
    BY Positions
  <2>2. i \in 1..Len(prog[k]) /\ Len(prog[k]) \in Nat
    BY TaskFacts DEF Epoch, TypeOK
  <2> QED BY <1>2, <2>1, <2>2, Moves DEF Past, Posted, Within
<1> QED BY <1>1, <1>2

-----------------------------------------------------------------------------
(* Epochs *)

\* A rank gets from an owner in the epoch of its own argument: the owner has
\* not left it, or this rank would have completed it, and is not beyond, or
\* its window would not be exposed to this rank.
LEMMA Matching ==
    ASSUME TypeOK, PcOK, OwnersWait, ExposureOK,
           NEW c \in Colors, NEW o \in Colors, pc[c] = "access",
           o \in GhostOwners[prog[task[c]][arg[c]].field][c],
           c \in exposed[o][prog[task[c]][arg[c]].field]
    PROVE  /\ task[o] = task[c] /\ arg[o] = arg[c]
           /\ pc[o] \in {"access", "wait"}
<1>1. /\ task[c] \in Nat /\ arg[c] \in Nat
      /\ task[o] \in Nat /\ arg[o] \in Nat
  BY Positions
<1>2. Epoch(task[c], arg[c])
  BY DEF PcOK
<1>3. prog[task[c]][arg[c]].field \in Fields
  BY <1>2, TaskFacts DEF Epoch, TypeOK
<1>4. c \in SharedUsers[prog[task[c]][arg[c]].field][o]
  BY <1>3, TopologyAssumption
<1>5. pc[o] \in {"access", "wait"} /\ ~Completed(c, task[o], arg[o])
  BY <1>3, <1>4 DEF ExposureOK
<1>6. ~Past(o, task[c], arg[c])
  BY <1>1, <1>2 DEF OwnersWait, Completed, Past
<1> QED
  BY <1>1, <1>5, <1>6 DEF Completed, Past

LEMMA OwnersWaitStep ==
    ASSUME IInv, NEW c \in Colors, Step(c)
    PROVE  OwnersWait'
<1> SUFFICES ASSUME NEW d \in Colors, NEW o \in Colors,
                    NEW k \in Nat, NEW i \in Nat, Epoch(k, i), Past(o, k, i)',
                    o \in GhostOwners[prog[k][i].field][d]
             PROVE  Completed(d, k, i)'
  BY SameProgram DEF OwnersWait, Epoch
<1> USE DEF IInv
<1>1. prog[k][i].field \in Fields /\ d \in SharedUsers[prog[k][i].field][o]
  BY TopologyAssumption, TaskFacts DEF Epoch, TypeOK
<1>2. Completed(d, k, i)
  <2>1. CASE Past(o, k, i)
    BY <2>1 DEF OwnersWait
  <2>2. CASE ~Past(o, k, i)
    <3>1. Wait(c) /\ o = c /\ task[o] = k /\ arg[o] = i
      BY <1>1, <2>2, PastStep
    <3>2. pc[o] = "wait" /\ exposed[o][prog[k][i].field] = {}
      BY <3>1 DEF Wait, Argument, Current
    <3> QED BY <1>1, <3>1, <3>2 DEF ExposureOK
  <2> QED BY <2>1, <2>2
<1> QED
  BY <1>2, CompletedStep

LEMMA UsersFollowStep ==
    ASSUME IInv, NEW c \in Colors, Step(c)
    PROVE  UsersFollow'
<1> USE DEF IInv
<1> SUFFICES ASSUME NEW d \in Colors, NEW o \in Colors
             PROVE  /\ \A k, i \in Nat :
                           /\ Epoch(k, i)
                           /\ o \in GhostOwners[prog[k][i].field][d]
                           /\ Completed(d, k, i)'
                           => Posted(o, k, i)'
                    /\ pc'[d] = "access" /\ o \in got'[d] => Posted(o, task[d], arg[d])'
  BY SameProgram DEF UsersFollow, Epoch
<1>2. ASSUME NEW k \in Nat, NEW i \in Nat, Epoch(k, i), Completed(d, k, i)',
             o \in GhostOwners[prog[k][i].field][d]
      PROVE  Posted(o, k, i)'
  <2>1. CASE Completed(d, k, i)
    BY <1>2, <2>1, PostedStep DEF UsersFollow
  <2>2. CASE ~Completed(d, k, i)
    <3>1. Complete(c) /\ d = c /\ task[d] = k /\ arg[d] = i
      BY <1>2, <2>2, CompletedStep
    <3>2. pc[d] = "access" /\ o \in got[d]
      BY <1>2, <3>1 DEF Complete, Argument, Current
    <3>3. Posted(o, k, i)
      BY <3>1, <3>2 DEF UsersFollow
    <3> QED BY <1>2, <3>3, PostedStep
  <2> QED BY <2>1, <2>2
<1>3. ASSUME pc'[d] = "access", o \in got'[d]
      PROVE  Posted(o, task[d], arg[d])'
  <2>1. pc[d] = "access" /\ task'[d] = task[d] /\ arg'[d] = arg[d]
    <3>1. CASE d # c
      BY <1>3, <3>1, OthersStay
    <3>2. CASE d = c
      <4>1. ~Post(c)
        BY <1>3, <3>2 DEF Post, TypeOK
      <4> QED BY <1>3, <3>2, <4>1, Moves
    <3> QED BY <3>1, <3>2
  <2>2. PICK k \in Nat, i \in Nat : k = task[d] /\ i = arg[d]
    BY Positions
  <2> SUFFICES Posted(o, k, i)'
    BY <2>1, <2>2 DEF Posted, Past, Within
  <2>5. Epoch(k, i)
    BY <2>1, <2>2 DEF PcOK
  <2>3. CASE o \in got[d]
    <3>1. Posted(o, k, i)
      BY <2>1, <2>2, <2>3 DEF UsersFollow
    <3> QED BY <2>5, <3>1, PostedStep
  <2>4. CASE o \notin got[d]
    <3>1. d = c
      BY <1>3, <2>4, OthersStay
    <3>2. /\ o \in GhostOwners[prog[task[c]][arg[c]].field][c]
          /\ c \in exposed[o][prog[task[c]][arg[c]].field]
      <4>1. PICK p \in Colors : Get(c, p)
        BY <1>3, <2>1, <3>1, Moves
      <4>2. p = o
        BY <1>3, <2>4, <3>1, <4>1 DEF Get, TypeOK
      <4> QED BY <4>1, <4>2 DEF Get, Argument, Current
    <3>3. Posted(o, k, i)
      BY <2>1, <2>2, <3>1, <3>2, Matching DEF Posted, Within
    <3> QED BY <2>5, <3>3, PostedStep
  <2> QED BY <2>3, <2>4
<1> QED
  BY <1>2, <1>3

\* A step other than Complete changes nobody's account of a window another
\* color has open.
LEMMA StillOpen ==
    ASSUME TypeOK, PcOK, NEW c \in Colors, Step(c), ~Complete(c),
           NEW d \in Colors, pc[d] \in {"access", "wait"},
           task'[d] = task[d], arg'[d] = arg[d], NEW u \in Colors
    PROVE  Completed(u, task[d], arg[d])' <=> Completed(u, task[d], arg[d])
<1>1. PICK k \in Nat, i \in Nat : k = task[d] /\ i = arg[d]
  BY Positions
<1>2. Epoch(k, i)
  BY <1>1 DEF PcOK
<1>3. Completed(u, k, i)' <=> Completed(u, k, i)
  BY <1>2, CompletedStep
<1> QED
  BY <1>1, <1>3 DEF Completed, Past

LEMMA ExposureStep ==
    ASSUME IInv, NEW c \in Colors, Step(c)
    PROVE  ExposureOK'
<1> USE DEF IInv
<1> SUFFICES ASSUME NEW d \in Colors, NEW f \in Fields, NEW u \in SharedUsers[f][d]
             PROVE  u \in exposed'[d][f] <=>
                        /\ pc'[d] \in {"access", "wait"}
                        /\ prog[task'[d]][arg'[d]].field = f
                        /\ ~Completed(u, task[d], arg[d])'
  BY SameProgram DEF ExposureOK
<1>1. u \in Colors /\ d \in GhostOwners[f][u]
  BY TopologyAssumption
<1>2. exposed[d][f] \subseteq SharedUsers[f][d]
  BY DEF TypeOK
<1>3. CASE Post(c)
  <2> DEFINE f0 == prog[task[c]][arg[c]].field
  <2>1. /\ exposed' = [exposed EXCEPT ![c][f0] = SharedUsers[f0][c]]
        /\ pc[c] = "epilog" /\ pc'[c] = "access"
        /\ task'[c] = task[c] /\ arg'[c] = arg[c]
    BY <1>3 DEF Post, AtArgument, Argument, Current, Goto, TypeOK
  <2>2. CASE d # c
    <3>1. exposed'[d][f] = exposed[d][f] /\ ~Complete(c)
      BY <2>1, <2>2 DEF TypeOK, Complete
    <3> QED BY <1>1, <2>2, <3>1, OthersStay, StillOpen DEF ExposureOK
  <2>3. CASE d = c /\ f # f0
    <3>1. exposed'[c][f] = exposed[c][f] /\ u \notin exposed[c][f]
      BY <2>1, <2>3 DEF ExposureOK, TypeOK
    <3> QED BY <2>1, <2>3, <3>1
  <2>4. CASE d = c /\ f = f0
    <3>1. PICK k \in Nat, i \in Nat : k = task[c] /\ i = arg[c]
      BY Positions
    <3>2. Epoch(k, i)
      <4>1. /\ task[c] \in 1..NumTasks /\ arg[c] \in 1..Len(prog[task[c]]) + 1
            /\ arg[c] <= Len(prog[task[c]]) /\ Exchanges(prog[task[c]][arg[c]])
        BY <1>3, <2>1 DEF Post, AtArgument, Argument, Current, PcOK
      <4> QED BY <3>1, <4>1, TaskFacts DEF Epoch, TypeOK
    <3>3. ~Posted(c, k, i)
      BY <2>1, <3>1 DEF Posted, Past, Within
    <3>4. ~Completed(u, k, i)
      BY <1>1, <2>4, <3>1, <3>2, <3>3 DEF UsersFollow
    <3>5. ~Completed(u, k, i)'
      BY <1>1, <1>3, <3>2, <3>4, CompletedStep DEF Post, Complete, AtArgument
    <3>6. ~Completed(u, task[c], arg[c])'
      BY <2>1, <3>1, <3>5 DEF Completed, Past
    <3>7. exposed'[c][f] = SharedUsers[f][c]
      BY <2>1, <2>4 DEF TypeOK
    <3> QED BY <2>1, <2>4, <3>6, <3>7
  <2> QED BY <2>2, <2>3, <2>4
<1>4. CASE Complete(c)
  <2> DEFINE f0 == prog[task[c]][arg[c]].field
  <2>1. /\ pc[c] = "access" /\ pc'[c] = "wait"
        /\ task'[c] = task[c] /\ arg'[c] = arg[c]
        /\ \A o \in Colors : task'[o] = task[o] /\ arg'[o] = arg[o]
        /\ pc'[d] \in {"access", "wait"} <=> pc[d] \in {"access", "wait"}
    BY <1>4 DEF Complete, Goto, TypeOK
  <2>2. u \in exposed'[d][f] <=> u \in exposed[d][f] /\ ~(u = c /\ f = f0)
    BY <1>1, <1>4, <2>1 DEF Complete, Argument, Current, TypeOK
  <2>3. CASE pc[d] \notin {"access", "wait"}
    BY <2>1, <2>2, <2>3 DEF ExposureOK
  <2>4. CASE pc[d] \in {"access", "wait"}
    <3>1. PICK k \in Nat, i \in Nat : k = task[d] /\ i = arg[d]
      BY Positions
    <3>2. Epoch(k, i)
      BY <2>4, <3>1 DEF PcOK
    <3>3. Completed(u, k, i)' <=> Completed(u, k, i) \/ (u = c /\ task[c] = k /\ arg[c] = i)
      <4>1. CASE u # c
        BY <1>1, <3>2, <4>1, CompletedStep
      <4>2. CASE u = c
        BY <1>1, <2>1, <3>2, <4>2, CompletedStep DEF Completed
      <4> QED BY <4>1, <4>2
    <3>4. Completed(u, task[d], arg[d])' <=> Completed(u, k, i)'
      BY <2>1, <3>1 DEF Completed, Past
    <3>5. Completed(u, task[d], arg[d]) <=> Completed(u, k, i)
      BY <3>1
    <3>6. CASE u = c /\ u \in exposed[d][f] /\ f = f0
      BY <1>1, <2>1, <2>2, <3>1, <3>3, <3>4, <3>6, Matching
    <3>7. CASE ~(u = c /\ u \in exposed[d][f] /\ f = f0)
      BY <2>1, <2>2, <2>4, <3>1, <3>3, <3>4, <3>5, <3>7 DEF ExposureOK
    <3> QED BY <3>6, <3>7
  <2> QED BY <2>3, <2>4
<1>5. CASE Wait(c)
  <2>1. /\ exposed' = exposed /\ pc[c] = "wait" /\ pc'[c] = "epilog"
        /\ exposed[c][prog[task[c]][arg[c]].field] = {}
    BY <1>5 DEF Wait, Argument, Current, Goto, TypeOK, mpi
  <2>2. CASE d # c
    BY <1>1, <1>5, <2>1, <2>2, OthersStay, StillOpen DEF ExposureOK, Wait, Complete
  <2>3. CASE d = c
    BY <2>1, <2>3 DEF ExposureOK
  <2> QED BY <2>2, <2>3
<1>6. CASE Execute(c) \/ Skip(c) \/ Return(c) \/ \E o \in Colors : Get(c, o)
  <2>1. exposed' = exposed /\ ~Complete(c)
    BY <1>6 DEF Execute, Skip, Return, Get, Complete, AtArgument, Goto, TypeOK, mpi
  <2>2. CASE d # c
    BY <1>1, <2>1, <2>2, OthersStay, StillOpen DEF ExposureOK
  <2>3. CASE d = c
    <3>1. \/ pc[c] \notin {"access", "wait"} /\ pc'[c] \notin {"access", "wait"}
          \/ /\ pc[c] = "access" /\ pc'[c] = "access"
             /\ task'[c] = task[c] /\ arg'[c] = arg[c]
      BY <1>6 DEF Execute, Skip, Return, Get, AtArgument, Goto, TypeOK
    <3> QED BY <1>1, <2>1, <2>3, <3>1, StillOpen DEF ExposureOK
  <2> QED BY <2>2, <2>3
<1> QED
  BY <1>3, <1>4, <1>5, <1>6 DEF Step

-----------------------------------------------------------------------------
(* Versions *)

\* A task that does not write a field leaves its latest version the latest.
LEMMA LatestKept ==
    ASSUME NEW v, NEW f, NEW k \in Nat, IsLatest(prog, v, f, k),
           ~WritesShared(prog[k], f)
    PROVE  IsLatest(prog, v, f, k + 1)
  BY DEF IsLatest

\* A task that writes it makes its own number the latest.
LEMMA LatestWritten ==
    ASSUME NEW f, NEW k \in Nat, WritesShared(prog[k], f)
    PROVE  IsLatest(prog, k, f, k + 1)
  BY DEF IsLatest

\* A field has one latest version.
LEMMA LatestUnique ==
    ASSUME NEW v, NEW w, NEW f, NEW k \in Nat,
           IsLatest(prog, v, f, k), IsLatest(prog, w, f, k)
    PROVE  v = w
<1>1. v \in Nat /\ w \in Nat /\ v < k /\ w < k
  BY DEF IsLatest
<1>2. ~(v < w)
  BY <1>1 DEF IsLatest
<1>3. ~(w < v)
  BY <1>1 DEF IsLatest
<1> QED
  BY <1>1, <1>2, <1>3

LEMMA SharedStep ==
    ASSUME IInv, NEW c \in Colors, Step(c)
    PROVE  SharedOK'
<1> USE DEF IInv
<1> SUFFICES ASSUME NEW d \in Colors, NEW f \in Fields
             PROVE  IsLatest(prog, shared'[d][f], f,
                             IF pc'[d] = "user" THEN task'[d] ELSE task'[d] + 1)
  BY SameProgram DEF SharedOK
<1>1. CASE d # c
  BY <1>1, OthersStay DEF SharedOK
<1>2. CASE d = c /\ Execute(c)
  <2>1. /\ pc[c] = "user" /\ pc'[c] = "epilog" /\ task'[c] = task[c]
        /\ task[c] \in Nat
        /\ shared'[c][f] = IF WritesShared(prog[task[c]], f) THEN task[c] ELSE shared[c][f]
    BY <1>2 DEF Execute, Current, Goto, TypeOK
  <2> QED BY <1>2, <2>1, LatestKept, LatestWritten DEF SharedOK
<1>3. CASE d = c /\ ~Execute(c)
  <2>1. shared' = shared
    BY <1>3 DEF Step, Skip, Post, Get, Complete, Wait, Return, data
  <2>2. (IF pc'[c] = "user" THEN task'[c] ELSE task'[c] + 1)
            = IF pc[c] = "user" THEN task[c] ELSE task[c] + 1
    BY <1>3, Moves
  <2> QED BY <1>3, <2>1, <2>2 DEF SharedOK
<1> QED
  BY <1>1, <1>2, <1>3

\* What an owner's window holds while it is open: the version that is latest
\* after the task the owner and the user are both at.
LEMMA GhostStep ==
    ASSUME IInv, NEW c \in Colors, Step(c)
    PROVE  GhostOK'
<1> USE DEF IInv
<1> SUFFICES ASSUME NEW d \in Colors, NEW f \in Fields, NEW o \in GhostOwners[f][d]
             PROVE  IF pc'[d] = "user"
                    THEN IsLatest(prog, ghost'[d][f][o], f, task'[d])
                    ELSE \/ IsLatest(prog, ghost'[d][f][o], f, task'[d] + 1)
                         \/ Pending(d, f, o)'
  BY SameProgram DEF GhostOK
<1>1. o \in Colors
  BY TopologyAssumption
<1>2. prog' = prog
  BY SameProgram
<1>3. CASE d # c
  BY <1>2, <1>3, OthersStay DEF GhostOK, Pending
<1>4. CASE d = c /\ Execute(c)
  <2>1. /\ pc[c] = "user" /\ pc'[c] = "epilog" /\ task'[c] = task[c]
        /\ arg'[c] = 1 /\ task[c] \in 1..NumTasks
    BY <1>4, Moves DEF Execute, TypeOK, Goto
  <2>2. ghost'[c][f][o] = IF WritesGhost(prog[task[c]], f) THEN task[c] ELSE ghost[c][f][o]
    BY <1>1, <1>4 DEF Execute, Current, TypeOK
  <2>3. IsLatest(prog, ghost[c][f][o], f, task[c])
    BY <1>4, <2>1 DEF GhostOK
  <2>4. CASE WritesGhost(prog[task[c]], f)
    <3>1. WritesShared(prog[task[c]], f)
      BY <2>1, <2>4, TaskFacts, TasksAssumption DEF TypeOK
    <3> QED BY <1>4, <2>1, <2>2, <2>4, <3>1, LatestWritten
  <2>5. CASE ~WritesShared(prog[task[c]], f)
    <3>1. ~WritesGhost(prog[task[c]], f)
      BY <2>1, <2>5, TaskFacts, TasksAssumption DEF TypeOK
    <3> QED BY <1>4, <2>1, <2>2, <2>3, <2>5, <3>1, LatestKept
  <2>6. CASE WritesShared(prog[task[c]], f) /\ ~WritesGhost(prog[task[c]], f)
    <3>1. PICK i \in DOMAIN prog[task[c]] : prog[task[c]][i].field = f
                                        /\ prog[task[c]][i].sp \in {"wo", "rw"}
      BY <2>6 DEF WritesShared
    <3>2. Exchanges(prog[task[c]][i])
      BY <2>6, <3>1 DEF WritesGhost, Exchanges
    <3>3. i >= 1 /\ i \in Nat
      BY <2>1, TaskFacts DEF TypeOK
    <3>4. Pending(c, f, o)'
      BY <1>2, <2>1, <3>1, <3>2, <3>3 DEF Pending
    <3> QED BY <1>4, <2>1, <3>4
  <2> QED BY <2>4, <2>5, <2>6
<1>5. CASE d = c /\ (\E p \in Colors : Get(c, p))
  <2> DEFINE f0 == prog[task[c]][arg[c]].field
  <2>1. PICK p \in Colors : Get(c, p)
    BY <1>5
  <2>2. /\ pc[c] = "access" /\ pc' = pc /\ task' = task /\ arg' = arg
        /\ p \in GhostOwners[f0][c] /\ c \in exposed[p][f0]
        /\ ghost' = [ghost EXCEPT ![c][f0][p] = shared[p][f0]]
        /\ got' = [got EXCEPT ![c] = @ \cup {p}]
    BY <2>1 DEF Get, Argument, Current
  <2>3. CASE f = f0 /\ o = p
    <3>1. task[p] = task[c] /\ pc[p] # "user"
      BY <2>2, Matching
    <3>2. IsLatest(prog, shared[p][f0], f0, task[c] + 1)
      BY <2>3, <3>1 DEF SharedOK
    <3>3. ghost'[c][f][o] = shared[p][f0]
      BY <2>2, <2>3 DEF TypeOK
    <3> QED BY <1>5, <2>2, <2>3, <3>2, <3>3
  <2>4. CASE ~(f = f0 /\ o = p)
    <3>1. ghost'[c][f][o] = ghost[c][f][o]
      BY <1>1, <2>2, <2>4 DEF TypeOK
    <3>2. Pending(c, f, o) => Pending(c, f, o)'
      BY <1>2, <2>2, <2>4 DEF Pending, TypeOK
    <3> QED BY <1>5, <2>2, <3>1, <3>2 DEF GhostOK
  <2> QED BY <2>3, <2>4
<1>6. CASE d = c /\ (Skip(c) \/ Post(c) \/ Complete(c) \/ Wait(c) \/ Return(c))
  <2>1. ghost' = ghost
    BY <1>6 DEF Skip, Post, Complete, Wait, Return, data
  <2>2. pc[c] # "user" /\ task[c] \in 1..NumTasks /\ arg[c] \in Nat
    BY <1>6 DEF Skip, AtArgument, Post, Complete, Wait, Return, PcOK, TypeOK
  <2>3. /\ DOMAIN prog[task[c]] = 1..Len(prog[task[c]]) /\ Len(prog[task[c]]) \in Nat
    BY <2>2, TaskFacts DEF TypeOK
  <2>4. CASE Return(c)
    <3>1. pc'[c] = "user" /\ task'[c] = task[c] + 1 /\ arg[c] > Len(prog[task[c]])
      BY <2>4 DEF Return, Current, Goto, TypeOK
    <3>2. ~Pending(c, f, o)
      BY <2>2, <2>3, <3>1 DEF Pending
    <3> QED BY <1>6, <2>1, <2>2, <3>1, <3>2 DEF GhostOK
  <2>5. CASE ~Return(c)
    <3>1. pc'[c] # "user" /\ task' = task
      BY <1>6, <2>2, <2>5 DEF Skip, Post, Complete, Wait, Goto, TypeOK
    <3>2. Pending(c, f, o) => Pending(c, f, o)'
      <4> SUFFICES ASSUME NEW i \in DOMAIN prog[task[c]],
                          prog[task[c]][i].field = f, Exchanges(prog[task[c]][i]),
                          \/ i > arg[c]
                          \/ i = arg[c] /\ pc[c] = "epilog"
                          \/ i = arg[c] /\ pc[c] = "access" /\ o \notin got[c]
                   PROVE  \/ i > arg'[c]
                          \/ i = arg'[c] /\ pc'[c] = "epilog"
                          \/ i = arg'[c] /\ pc'[c] = "access" /\ o \notin got'[c]
        BY <1>2, <3>1 DEF Pending
      <4>1. CASE Skip(c)
        BY <2>2, <2>3, <4>1 DEF Skip, AtArgument, Argument, Current, TypeOK
      <4>2. CASE Post(c)
        <5>1. /\ pc[c] = "epilog" /\ pc'[c] = "access"
              /\ arg' = arg /\ got'[c] = {}
          BY <4>2 DEF Post, AtArgument, Goto, TypeOK
        <5> QED BY <5>1
      <4>3. CASE Complete(c)
        <5>1. /\ pc[c] = "access" /\ arg' = arg
              /\ got[c] = GhostOwners[prog[task[c]][arg[c]].field][c]
          BY <4>3 DEF Complete, Argument, Current
        <5> QED BY <1>6, <5>1
      <4>4. CASE Wait(c)
        BY <2>2, <2>3, <4>4 DEF Wait, Goto, TypeOK
      <4> QED BY <1>6, <2>5, <4>1, <4>2, <4>3, <4>4
    <3> QED BY <1>6, <2>1, <2>2, <3>1, <3>2 DEF GhostOK
  <2> QED BY <2>4, <2>5
<1> QED
  BY <1>3, <1>4, <1>5, <1>6 DEF Step

-----------------------------------------------------------------------------
(* Theorems *)

LEMMA IInvInit == Init => IInv
<1> SUFFICES ASSUME Init PROVE IInv
  OBVIOUS
<1>1. TypeOK
  BY TypeInit
<1>2. PcOK /\ OwnersWait /\ UsersFollow
  BY TasksAssumption, TopologyAssumption DEF Init, PcOK, OwnersWait, UsersFollow, Epoch, Past, Completed
<1>3. ExposureOK
  BY TopologyAssumption DEF Init, ExposureOK
<1>4. SharedOK /\ GhostOK
  BY TopologyAssumption DEF Init, SharedOK, GhostOK, IsLatest
<1> QED
  BY <1>1, <1>2, <1>3, <1>4 DEF IInv

LEMMA IInvNext == IInv /\ [Next]_vars => IInv'
<1> SUFFICES ASSUME IInv, [Next]_vars PROVE IInv'
  OBVIOUS
<1>1. CASE UNCHANGED vars
  BY <1>1 DEF vars, data, mpi, IInv, TypeOK, PcOK, OwnersWait, UsersFollow, ExposureOK,
              SharedOK, GhostOK, Pending, Epoch, Past, Completed, Posted, Within
<1>2. ASSUME NEW c \in Colors, Step(c) PROVE IInv'
  BY <1>2, TypeStep, OwnersWaitStep, UsersFollowStep, ExposureStep, SharedStep, GhostStep
    DEF IInv
<1> QED
  BY <1>1, <1>2 DEF Next, Terminated

LEMMA Invariance == Spec => []IInv
  BY IInvInit, IInvNext, PTL DEF Spec

\* The state of every color stays in its type: got and exposed never go
\* beyond the owners and users of the coloring.
THEOREM TypeCorrect == Spec => []TypeOK
<1>1. IInv => TypeOK
  BY DEF IInv
<1> QED
  BY <1>1, Invariance, PTL

\* Whatever the topology, the program and the interleaving, a user function
\* of task k reads from its ghosts the version their owner's tasks before k
\* have left (task_epilog_t, dense accessors).
THEOREM ReadsAreCoherent == Spec => []GhostCoherent
<1>1. IInv => GhostCoherent
  BY DEF IInv, GhostOK, GhostCoherent
<1> QED
  BY <1>1, Invariance, PTL

\* No rank is in a user function, writing, while a window of it is open to
\* another rank's MPI_Get.
THEOREM WritesAreExclusive == Spec => []NoWriteWhileExposed
<1>1. ASSUME IInv PROVE NoWriteWhileExposed
  <2> SUFFICES ASSUME NEW c \in Colors, pc[c] = "user", NEW f \in Fields
               PROVE  exposed[c][f] = {}
    BY DEF NoWriteWhileExposed
  <2>1. exposed[c][f] \subseteq SharedUsers[f][c]
    BY <1>1 DEF IInv, TypeOK
  <2>2. \A u \in SharedUsers[f][c] : u \notin exposed[c][f]
    BY <1>1 DEF IInv, ExposureOK
  <2> QED BY <2>1, <2>2
<1> QED
  BY <1>1, Invariance, PTL

\* An MPI_Get is served in the epoch the origin opened it for.
THEOREM GetsMatchPosts == Spec => []EpochsMatch
<1>1. ASSUME IInv PROVE EpochsMatch
  <2> SUFFICES ASSUME NEW c \in Colors, pc[c] = "access",
                      NEW o \in GhostOwners[prog[task[c]][arg[c]].field][c],
                      c \in exposed[o][prog[task[c]][arg[c]].field]
               PROVE  task[o] = task[c] /\ arg[o] = arg[c]
    BY DEF EpochsMatch, Argument, Current
  <2>1. prog[task[c]][arg[c]].field \in Fields
    BY <1>1, TaskFacts DEF IInv, TypeOK, PcOK, Epoch
  <2>2. o \in Colors
    BY <2>1, TopologyAssumption
  <2> QED BY <1>1, <2>2, Matching DEF IInv
<1> QED
  BY <1>1, Invariance, PTL

-----------------------------------------------------------------------------
(* Refinement *)

\* Both specifications speak of the same programs.
LEMMA SamePrograms ==
    /\ Sequential!Programs = Programs
    /\ \A t, f : Sequential!ReadsGhost(t, f) <=> ReadsGhost(t, f)
    /\ \A p, v, f, k : Sequential!IsLatest(p, v, f, k) <=> IsLatest(p, v, f, k)
  BY DEF Programs, Sequential!Programs, ReadsGhost, Sequential!ReadsGhost,
         IsLatest, Sequential!IsLatest, WritesShared, Sequential!WritesShared

\* The user function is the step of the sequential program ...
LEMMA ExecuteRuns ==
    ASSUME IInv, NEW c \in Colors, Execute(c)
    PROVE  Sequential!Run(c)
<1> USE DEF IInv
<1> DEFINE ran == [d \in Colors |-> IF pc[d] = "user" THEN task[d] - 1 ELSE task[d]]
           k == task[c]
<1>1. /\ pc[c] = "user" /\ pc' = [pc EXCEPT ![c] = "epilog"] /\ task' = task
      /\ k \in 1..NumTasks /\ prog' = prog
  BY DEF Execute, Goto, TypeOK
<1>2. ran[c] < NumTasks /\ ran[c] + 1 = k
  BY <1>1, TasksAssumption
<1>3. ran' = [ran EXCEPT ![c] = @ + 1]
  <2>1. \A d \in Colors : ran'[d] = IF d = c THEN k ELSE ran[d]
    BY <1>1 DEF TypeOK
  <2> QED BY <1>2, <2>1
<1>4. seen' = [seen EXCEPT ![c] = Sequential!CoherentReads(c, k)]
  <2>1. ASSUME NEW f \in Fields, NEW o \in GhostOwners[f][c], NEW v \in 0..NumTasks
        PROVE  v = ghost[c][f][o] <=> v \in 0..k - 1 /\ IsLatest(prog, v, f, k)
    <3>1. IsLatest(prog, ghost[c][f][o], f, k)
      BY <1>1 DEF GhostOK
    <3>2. k \in Nat
      BY <1>1
    <3>3. v = ghost[c][f][o] => v \in 0..k - 1
      BY <3>1, <3>2 DEF IsLatest
    <3> QED BY <3>1, <3>2, <3>3, LatestUnique
  <2>2. {r \in [field : Fields, owner : Colors, version : 0..NumTasks] :
             /\ r.owner \in GhostOwners[r.field][c]
             /\ ReadsGhost(prog[k], r.field)
             /\ r.version = ghost[c][r.field][r.owner]}
        = Sequential!CoherentReads(c, k)
    <3>1. 0..k - 1 \subseteq 0..NumTasks
      BY <1>1, TasksAssumption
    <3> QED BY <2>1, <3>1, SamePrograms DEF Sequential!CoherentReads
  <2> QED BY <2>2 DEF Execute, Current
<1> QED
  BY <1>1, <1>2, <1>3, <1>4 DEF Sequential!Run

\* ... and no other step is seen by it.
LEMMA OthersStutter ==
    ASSUME IInv, NEW c \in Colors, Step(c), ~Execute(c)
    PROVE  UNCHANGED Sequential!vars
<1> USE DEF IInv
<1>1. prog' = prog /\ seen' = seen
  BY DEF Step, Skip, Post, Get, Complete, Wait, Return
<1>2. ASSUME NEW d \in Colors
      PROVE  (IF pc'[d] = "user" THEN task'[d] - 1 ELSE task'[d])
                = IF pc[d] = "user" THEN task[d] - 1 ELSE task[d]
  <2>1. task[d] \in Nat
    BY DEF TypeOK
  <2> QED BY <2>1, OthersStay, Moves
<1> QED
  BY <1>1, <1>2 DEF Sequential!vars

\* Whatever the ranks do, each runs its tasks in order and reads in each what
\* the sequential program would: execute_task on the MPI backend implements
\* the coherence that GhostCoherence promises.
THEOREM ImplementsSequential == Spec => Sequential!SafeSpec
<1>1. Init => Sequential!Init
  <2>1. ASSUME Init
        PROVE  [c \in Colors |-> IF pc[c] = "user" THEN task[c] - 1 ELSE task[c]]
                  = [c \in Colors |-> 0]
    BY <2>1 DEF Init
  <2> QED BY <2>1, SamePrograms DEF Init, Sequential!Init
<1>2. IInv /\ [Next]_vars => [Sequential!Next]_(Sequential!vars)
  <2> SUFFICES ASSUME IInv, [Next]_vars PROVE [Sequential!Next]_(Sequential!vars)
    OBVIOUS
  <2>1. CASE UNCHANGED vars
    BY <2>1 DEF vars, Sequential!vars
  <2>2. ASSUME NEW c \in Colors, Step(c) PROVE [Sequential!Next]_(Sequential!vars)
    BY <2>2, ExecuteRuns, OthersStutter DEF Sequential!Next
  <2> QED BY <2>1, <2>2 DEF Next, Terminated
<1> QED
  BY <1>1, <1>2, Invariance, PTL DEF Spec, Sequential!SafeSpec
=============================================================================
