---------------------------- MODULE LegionProofs ----------------------------
(***************************************************************************)
(* Proofs about the two models of the Legion backend.                      *)
(*                                                                         *)
(* LegionGhosts, for any set of colors, any relation of ghost owners and   *)
(* shared users, any tasks and any program.  The points run in any order   *)
(* that the region requirements allow.  The inductive invariant therefore  *)
(* speaks of the order of issue: which operations write a datum, what the  *)
(* ghosts of a field are at a place in that order, and that every datum is *)
(* what its writers that have run, an initial part of all its writers,     *)
(* left there.                                                             *)
(*                                                                         *)
(* LegionHandshake, for any set of processes and any number of MPI tasks.  *)
(* Two clocks run on every process, the launches Legion has run there and  *)
(* the barriers its MPI thread has entered; the two counts of the          *)
(* handshake tie them to each other, so that one clock tells where the     *)
(* other is.                                                               *)
(***************************************************************************)
EXTENDS LegionGhosts, LegionHandshake, FiniteSetTheorems, SequenceTheorems, TLAPS

-----------------------------------------------------------------------------
(* LegionGhosts *)

CopyOperations == [kind : {"copy"}, task : 1..NumTasks, field : Fields]
RunOperations  == [kind : {"run"}, task : 1..NumTasks]

TypeOK ==
    /\ prog \in Programs
    /\ issued \in 0..NumTasks
    /\ ghostIsReadable \in [Fields -> BOOLEAN]
    /\ ops \in Seq(CopyOperations \cup RunOperations)
    /\ done \subseteq (DOMAIN ops) \X Colors
    /\ shared \in [Fields -> [Colors -> Nat]]
    /\ ghost = [f \in Fields |-> [c \in Colors |-> [o \in GhostOwners[f][c] |-> ghost[f][c][o]]]]

\* Operation i is a task that writes the shared entities of field f.
Writer(i, f) == ops[i].kind = "run" /\ WritesShared(prog[ops[i].task], f)

\* Operation i makes the ghosts of field f what their owners' entities are.
Refresh(i, f) ==
    \/ ops[i].kind = "copy" /\ ops[i].field = f
    \/ ops[i].kind = "run" /\ WritesGhost(prog[ops[i].task], f)

\* A writer of field f before operation i leaves ghosts that no operation
\* between them makes up for.
Stale(f, i) ==
    \E w \in 1..i - 1 : Writer(w, f) /\ \A r \in w..i - 1 : ~Refresh(r, f)

\* The operations are those of the issued tasks, in the tasks' order, each
\* task's launch after its copies.
OpsOK ==
    /\ \A i \in DOMAIN ops : ops[i].task \in 1..issued
    /\ \A i, j \in DOMAIN ops : i < j =>
           /\ ops[i].task <= ops[j].task
           /\ ops[i].kind = "run" => ops[i].task < ops[j].task
    /\ \A k \in 1..issued : \E i \in DOMAIN ops : ops[i].kind = "run" /\ ops[i].task = k

\* The flag of a field says what its ghosts are after all that was issued.
FlagsOK == \A f \in Fields : ghostIsReadable[f] <=> ~Stale(f, Len(ops) + 1)

\* Ghosts are copied where they are stale, and read where they are not.
CopiesOK == \A i \in DOMAIN ops : ops[i].kind = "copy" => Stale(ops[i].field, i)
ReadsOK ==
    \A i \in DOMAIN ops : ops[i].kind = "run" =>
        \A f \in Fields : ReadsGhost(prog[ops[i].task], f) => ~Stale(f, i)

\* A point has run only after those before it that it interferes with.
DoneInOrder ==
    \A i, j \in DOMAIN ops : \A c, d \in Colors :
        j < i /\ <<i, c>> \in done /\ Interfere(ops[j], d, ops[i], c) => <<j, d>> \in done

\* The shared entities hold the version of the last writer that has run.
SharedOK ==
    \A f \in Fields, c \in Colors :
        /\ shared[f][c] \in 0..issued
        /\ shared[f][c] # 0 => WritesShared(prog[shared[f][c]], f)
        /\ \A i \in DOMAIN ops : Writer(i, f) =>
               (<<i, c>> \in done <=> ops[i].task <= shared[f][c])

\* Of the refreshes of field f at color c, r is the last that has run.
LastRefresh(r, f, c) ==
    /\ r \in DOMAIN ops /\ Refresh(r, f) /\ <<r, c>> \in done
    /\ \A s \in r + 1..Len(ops) : Refresh(s, f) => <<s, c>> \notin done

\* The first task that sees what operation r leaves in the ghosts.
SeenFrom(r) == IF ops[r].kind = "run" THEN ops[r].task + 1 ELSE ops[r].task

\* The ghosts hold what the last refresh that has run left there: the version
\* that the owner's tasks had left by then.
GhostOK ==
    \A f \in Fields, c \in Colors : \A o \in GhostOwners[f][c] :
        /\ (\A r \in DOMAIN ops : Refresh(r, f) => <<r, c>> \notin done) => ghost[f][c][o] = 0
        /\ \A r \in DOMAIN ops :
               LastRefresh(r, f, c) => IsLatest(prog, ghost[f][c][o], f, SeenFrom(r))

IInv ==
    /\ TypeOK /\ OpsOK /\ FlagsOK /\ CopiesOK /\ ReadsOK
    /\ DoneInOrder /\ SharedOK /\ GhostOK

-----------------------------------------------------------------------------
(* Numbers *)

\* A nonempty set of numbers up to a bound has a greatest.
LEMMA GreatestExists ==
    ASSUME NEW n \in Nat, NEW S, S \subseteq 1..n, S # {}
    PROVE  \E m \in S : \A x \in S : x <= m
<1> DEFINE T == {y \in 0..n : n - y \in S}
<1>1. \A x \in S : x \in Int /\ n - x \in T
  OBVIOUS
<1>2. T \subseteq Nat /\ T # {}
  <2>1. T \subseteq Nat
    OBVIOUS
  <2> HIDE DEF T
  <2> QED BY <1>1, <2>1
<1>3. \E y \in T : \A z \in T : ~(<<z, y>> \in OpToRel(<, Nat))
  <2> HIDE DEF T
  <2> QED BY <1>2, NatLessThanWellFounded, WFMin
<1>4. PICK y \in T : \A z \in T : ~(<<z, y>> \in OpToRel(<, Nat))
  BY <1>3
<1>5. \A z \in T : ~(z < y)
  BY <1>2, <1>4 DEF OpToRel
<1>6. n - y \in S /\ y \in Int
  OBVIOUS
<1>7. \A x \in S : x <= n - y
  <2> SUFFICES ASSUME NEW x \in S PROVE x <= n - y
    OBVIOUS
  <2>1. n - x \in T /\ x \in Int
    BY <1>1
  <2>2. ~(n - x < y)
    BY <1>5, <2>1
  <2> QED BY <2>1, <2>2, <1>6
<1> QED
  BY <1>6, <1>7

\* Two versions of a field before one task, both of its last writer, are one.
LEMMA LatestIsOne ==
    ASSUME NEW f, NEW k \in Nat, NEW v, NEW w,
           IsLatest(prog, v, f, k), IsLatest(prog, w, f, k)
    PROVE  v = w
  BY DEF IsLatest

-----------------------------------------------------------------------------
(* Tasks and operations *)

\* Each task of a program is a sequence of arguments.
LEMMA TaskFacts ==
    ASSUME prog \in Programs, NEW k \in 1..NumTasks
    PROVE  /\ prog[k] \in Tasks
           /\ Len(prog[k]) \in Nat /\ DOMAIN prog[k] = 1..Len(prog[k])
           /\ \A a \in DOMAIN prog[k] :
                  /\ prog[k][a].field \in Fields
                  /\ prog[k][a].sp \in Privileges /\ prog[k][a].gp \in Privileges
<1>1. prog[k] \in Tasks
  BY DEF Programs
<1>2. prog[k] \in Seq(Arguments)
  BY <1>1, TasksAssumption
<1>3. \A a \in DOMAIN prog[k] : prog[k][a] \in Arguments
  BY <1>2
<1>4. \A a \in Arguments : a.field \in Fields /\ a.sp \in Privileges /\ a.gp \in Privileges
  BY DEF Arguments, Accessors, Mutators, Privileges
<1> QED
  BY <1>1, <1>2, <1>3, <1>4

\* An operation is a copy of a field or the launch of a task.
LEMMA OpFacts ==
    ASSUME TypeOK, NEW i \in DOMAIN ops
    PROVE  /\ Len(ops) \in Nat /\ DOMAIN ops = 1..Len(ops)
           /\ ops[i].task \in 1..NumTasks
           /\ \/ ops[i].kind = "copy" /\ ops[i].field \in Fields
              \/ ops[i].kind = "run"
<1>1. ops \in Seq(CopyOperations \cup RunOperations)
  BY DEF TypeOK
<1>2. ops[i] \in CopyOperations \cup RunOperations
  BY <1>1
<1>3. Len(ops) \in Nat /\ DOMAIN ops = 1..Len(ops)
  BY <1>1
<1> QED
  BY <1>2, <1>3 DEF CopyOperations, RunOperations

-----------------------------------------------------------------------------
(* Region requirements *)

\* A launch asks for both parts of each field of its arguments at its color.
LEMMA RunNames ==
    ASSUME NEW i, ops[i].kind = "run", NEW c,
           NEW a \in DOMAIN prog[ops[i].task]
    PROVE  LET arg == prog[ops[i].task][a] IN
           /\ Requirement(arg.field, "shared", c, Writing(arg.sp)) \in Requirements(ops[i], c)
           /\ Requirement(arg.field, "ghost", c, Writing(arg.gp)) \in Requirements(ops[i], c)
<1>1. Requirements(ops[i], c) = TaskRequirements(prog[ops[i].task], c)
  BY DEF Requirements
<1> QED
  BY <1>1 DEF TaskRequirements

\* A copy asks for the shared entities of every owner and for the ghosts.
LEMMA CopyNames ==
    ASSUME NEW i, ops[i].kind = "copy", NEW c
    PROVE  /\ \A o \in GhostOwners[ops[i].field][c] :
                  Requirement(ops[i].field, "shared", o, FALSE) \in Requirements(ops[i], c)
           /\ Requirement(ops[i].field, "ghost", c, TRUE) \in Requirements(ops[i], c)
  BY DEF Requirements, CopyRequirements

\* What writes the shared entities or refreshes the ghosts asks to write them.
LEMMA WriterNames ==
    ASSUME NEW i, NEW f, Writer(i, f), NEW c
    PROVE  Requirement(f, "shared", c, TRUE) \in Requirements(ops[i], c)
<1>1. PICK a \in DOMAIN prog[ops[i].task] : /\ prog[ops[i].task][a].field = f
                                            /\ prog[ops[i].task][a].sp \in {"wo", "rw"}
  BY DEF Writer, WritesShared
<1>2. Writing(prog[ops[i].task][a].sp) = TRUE
  BY <1>1 DEF Writing
<1> QED
  BY <1>1, <1>2, RunNames DEF Writer

LEMMA RefreshNames ==
    ASSUME NEW i, NEW f, Refresh(i, f), NEW c
    PROVE  Requirement(f, "ghost", c, TRUE) \in Requirements(ops[i], c)
<1>1. CASE ops[i].kind = "copy" /\ ops[i].field = f
  BY <1>1, CopyNames
<1>2. CASE ops[i].kind = "run" /\ WritesGhost(prog[ops[i].task], f)
  <2>1. PICK a \in DOMAIN prog[ops[i].task] : /\ prog[ops[i].task][a].field = f
                                              /\ prog[ops[i].task][a].gp \in {"wo", "rw"}
    BY <1>2 DEF WritesGhost
  <2>2. Writing(prog[ops[i].task][a].gp) = TRUE
    BY <2>1 DEF Writing
  <2> QED BY <1>2, <2>1, <2>2, RunNames
<1> QED
  BY <1>1, <1>2 DEF Refresh

\* Two points interfere if one writes a datum that the other names, and
\* run in the order of their issue.
LEMMA Ordered ==
    ASSUME TypeOK, DoneInOrder,
           NEW i \in DOMAIN ops, NEW c \in Colors, Ready(i, c),
           NEW j \in DOMAIN ops, NEW d \in Colors,
           NEW f, NEW part, NEW e, NEW writes \in BOOLEAN,
           \/ /\ Requirement(f, part, e, TRUE) \in Requirements(ops[j], d)
              /\ Requirement(f, part, e, writes) \in Requirements(ops[i], c)
           \/ /\ Requirement(f, part, e, writes) \in Requirements(ops[j], d)
              /\ Requirement(f, part, e, TRUE) \in Requirements(ops[i], c)
    PROVE  /\ j < i => <<j, d>> \in done
           /\ j > i => <<j, d>> \notin done
<1>1. Interfere(ops[j], d, ops[i], c) /\ Interfere(ops[i], c, ops[j], d)
  BY DEF Interfere, Requirement
<1>2. <<i, c>> \notin done
  BY DEF Ready
<1>3. j < i => j \in 1..i - 1
  BY OpFacts
<1> QED
  BY <1>1, <1>2, <1>3 DEF Ready, DoneInOrder

-----------------------------------------------------------------------------
(* Places in the order of issue *)

\* Operation i would be one that sees the tasks before task k.
Place(i, k) ==
    /\ i \in 1..Len(ops) + 1 /\ k \in 1..issued + 1
    /\ \A j \in DOMAIN ops : j < i => SeenFrom(j) <= k
    /\ \A j \in DOMAIN ops : ops[j].kind = "run" /\ ops[j].task < k => j < i

\* Each operation is in its place, and so is what comes after all of them.
LEMMA Places ==
    ASSUME TypeOK, OpsOK
    PROVE  /\ \A i \in DOMAIN ops : Place(i, ops[i].task)
           /\ Place(Len(ops) + 1, issued + 1)
<1>1. issued \in Nat /\ NumTasks \in Nat
  BY TasksAssumption DEF TypeOK
<1>2. Len(ops) \in Nat /\ DOMAIN ops = 1..Len(ops)
  BY DEF TypeOK
<1>3. \A j \in DOMAIN ops : ops[j].task \in Nat /\ ops[j].task \in 1..issued
  BY <1>1 DEF OpsOK
<1>4. ASSUME NEW i \in DOMAIN ops
      PROVE  Place(i, ops[i].task)
  <2>1. \A j \in DOMAIN ops : j < i => SeenFrom(j) <= ops[i].task
    BY <1>3 DEF SeenFrom, OpsOK
  <2>2. \A j \in DOMAIN ops : ops[j].kind = "run" /\ ops[j].task < ops[i].task => j < i
    BY <1>2, <1>3 DEF OpsOK
  <2> QED BY <1>1, <1>2, <1>3, <2>1, <2>2 DEF Place
<1>5. Place(Len(ops) + 1, issued + 1)
  BY <1>1, <1>2, <1>3 DEF Place, SeenFrom
<1> QED
  BY <1>4, <1>5

\* Where the ghosts are not stale, a version that was the latest for the last
\* refresh still is.
LEMMA FreshIsLatest ==
    ASSUME TypeOK, OpsOK, NEW f \in Fields, NEW i, NEW k, Place(i, k), ~Stale(f, i), NEW v,
           NEW r \in DOMAIN ops, r < i, Refresh(r, f),
           \A s \in r + 1..i - 1 : ~Refresh(s, f),
           IsLatest(prog, v, f, SeenFrom(r))
    PROVE  IsLatest(prog, v, f, k)
<1>1. /\ issued \in Nat /\ k \in Nat /\ Len(ops) \in Nat /\ DOMAIN ops = 1..Len(ops)
      /\ i \in Nat /\ \A j \in DOMAIN ops : ops[j].task \in 1..issued
  BY TasksAssumption DEF TypeOK, Place, OpsOK
<1>2. SeenFrom(r) <= k /\ SeenFrom(r) \in Nat /\ ops[r].task <= SeenFrom(r)
  BY <1>1 DEF Place, SeenFrom
<1>3. ASSUME NEW t \in v + 1..k - 1, WritesShared(prog[t], f)
      PROVE  FALSE
  <2>1. v \in Nat /\ v < SeenFrom(r) /\ t \in Nat
    BY DEF IsLatest
  <2>2. t >= SeenFrom(r)
    BY <1>2, <1>3, <2>1 DEF IsLatest
  <2>3. t \in 1..issued
    BY <1>1, <2>1 DEF Place
  <2>4. PICK j \in DOMAIN ops : ops[j].kind = "run" /\ ops[j].task = t
    BY <2>3 DEF OpsOK
  <2>5. j < i
    BY <1>1, <2>1, <2>4 DEF Place
  <2>6. j # r
    BY <2>1, <2>2, <2>4 DEF SeenFrom
  <2>7. ~(j < r)
    BY <1>1, <1>2, <2>1, <2>2, <2>4 DEF OpsOK
  <2>8. j \in 1..i - 1 /\ \A s \in j..i - 1 : s \in r + 1..i - 1
    BY <1>1, <2>5, <2>6, <2>7
  <2>9. Writer(j, f)
    BY <1>3, <2>4 DEF Writer
  <2> QED BY <2>8, <2>9 DEF Stale
<1> QED
  BY <1>1, <1>2, <1>3 DEF IsLatest

\* Where they are not and there was no refresh, no task has written the field.
LEMMA UnwrittenIsLatest ==
    ASSUME TypeOK, OpsOK, NEW f \in Fields, NEW i, NEW k, Place(i, k), ~Stale(f, i),
           \A s \in 1..i - 1 : ~Refresh(s, f)
    PROVE  IsLatest(prog, 0, f, k)
<1>1. /\ issued \in Nat /\ k \in Nat \ {0} /\ Len(ops) \in Nat /\ DOMAIN ops = 1..Len(ops)
      /\ i \in Nat /\ k <= issued + 1
  BY TasksAssumption DEF TypeOK, Place
<1>2. ASSUME NEW t \in 1..k - 1, WritesShared(prog[t], f)
      PROVE  FALSE
  <2>1. PICK j \in DOMAIN ops : ops[j].kind = "run" /\ ops[j].task = t
    BY <1>1 DEF OpsOK
  <2>2. j < i
    BY <1>1, <2>1 DEF Place
  <2>3. j \in 1..i - 1 /\ Writer(j, f)
    BY <1>1, <1>2, <2>1, <2>2 DEF Writer
  <2> QED BY <2>3 DEF Stale
<1> QED
  BY <1>1, <1>2 DEF IsLatest

\* Where the ghosts are stale, what the last refresh left is no more the latest.
LEMMA StaleIsNotLatest ==
    ASSUME TypeOK, OpsOK, NEW f \in Fields, NEW i, NEW k, Place(i, k), Stale(f, i), NEW v,
           \/ v = 0
           \/ \E r \in DOMAIN ops : /\ r < i /\ Refresh(r, f)
                                    /\ IsLatest(prog, v, f, SeenFrom(r))
    PROVE  ~IsLatest(prog, v, f, k)
<1>1. /\ issued \in Nat /\ k \in Nat \ {0} /\ Len(ops) \in Nat /\ DOMAIN ops = 1..Len(ops)
      /\ i \in Nat /\ i <= Len(ops) + 1 /\ \A j \in DOMAIN ops : ops[j].task \in 1..issued
  BY TasksAssumption DEF TypeOK, Place, OpsOK
<1>2. PICK w \in 1..i - 1 : Writer(w, f) /\ \A r \in w..i - 1 : ~Refresh(r, f)
  BY DEF Stale
<1>3. w \in DOMAIN ops /\ ops[w].kind = "run" /\ ops[w].task + 1 <= k
  BY <1>1, <1>2 DEF Writer, Place, SeenFrom
<1>4. v \in Nat /\ v < ops[w].task
  <2>1. CASE v = 0
    BY <2>1, <1>1, <1>3
  <2>2. CASE \E r \in DOMAIN ops : r < i /\ Refresh(r, f) /\ IsLatest(prog, v, f, SeenFrom(r))
    <3>1. PICK r \in DOMAIN ops : r < i /\ Refresh(r, f) /\ IsLatest(prog, v, f, SeenFrom(r))
      BY <2>2
    <3>2. r < w
      BY <1>1, <1>2, <3>1
    <3>3. SeenFrom(r) <= ops[w].task
      BY <1>1, <1>3, <3>2, Places DEF Place
    <3>4. v \in Nat /\ v < SeenFrom(r)
      BY <3>1 DEF IsLatest
    <3>5. SeenFrom(r) \in Nat
      BY <1>1 DEF SeenFrom
    <3> QED BY <1>1, <1>3, <3>3, <3>4, <3>5
  <2> QED BY <2>1, <2>2
<1>5. ops[w].task \in v + 1..k - 1
  BY <1>1, <1>3, <1>4
<1>6. WritesShared(prog[ops[w].task], f)
  BY <1>2 DEF Writer
<1> QED
  BY <1>5, <1>6 DEF IsLatest

-----------------------------------------------------------------------------
(* What a point finds when it may run *)

\* The shared entities it names hold the version of the last writer before it.
LEMMA SharedIsLatest ==
    ASSUME IInv, NEW i \in DOMAIN ops, NEW c \in Colors, Ready(i, c),
           NEW f \in Fields, NEW e \in Colors, NEW writes \in BOOLEAN,
           Requirement(f, "shared", e, writes) \in Requirements(ops[i], c),
           ops[i].kind = "run" => e = c
    PROVE  IsLatest(prog, shared[f][e], f, ops[i].task)
<1> DEFINE k == ops[i].task
           v == shared[f][e]
<1>0. TypeOK /\ OpsOK /\ SharedOK /\ DoneInOrder
  BY DEF IInv
<1>1. /\ issued \in Nat /\ Len(ops) \in Nat /\ DOMAIN ops = 1..Len(ops)
      /\ k \in 1..issued /\ v \in 0..issued /\ \A j \in DOMAIN ops : ops[j].task \in 1..issued
  BY <1>0, TasksAssumption DEF TypeOK, OpsOK, SharedOK
<1>2. ASSUME NEW j \in DOMAIN ops, Writer(j, f)
      PROVE  j < i <=> ops[j].task <= v
  <2>1. Requirement(f, "shared", e, TRUE) \in Requirements(ops[j], e)
    BY <1>2, WriterNames
  <2>2. (j < i => <<j, e>> \in done) /\ (j > i => <<j, e>> \notin done)
    BY <1>0, <2>1, Ordered
  <2>3. j = i => <<j, e>> \notin done
    BY <1>2 DEF Writer, Ready
  <2>4. <<j, e>> \in done <=> ops[j].task <= v
    BY <1>0, <1>2 DEF SharedOK
  <2> QED BY <1>1, <2>2, <2>3, <2>4
<1>3. Place(i, k)
  BY <1>0, Places
<1>4. ASSUME NEW t \in 1..issued, WritesShared(prog[t], f)
      PROVE  \E j \in DOMAIN ops : Writer(j, f) /\ ops[j].kind = "run" /\ ops[j].task = t
  BY <1>0, <1>4 DEF OpsOK, Writer
<1>5. v < k
  <2>1. CASE v = 0
    BY <2>1, <1>1
  <2>2. CASE v # 0
    <3>1. v \in 1..issued /\ WritesShared(prog[v], f)
      BY <1>0, <1>1, <2>2 DEF SharedOK
    <3>2. PICK j \in DOMAIN ops : Writer(j, f) /\ ops[j].kind = "run" /\ ops[j].task = v
      BY <1>4, <3>1
    <3>3. j < i
      BY <1>1, <1>2, <3>2
    <3>4. SeenFrom(j) <= k
      BY <1>3, <3>3 DEF Place
    <3> QED BY <1>1, <3>2, <3>4 DEF SeenFrom
  <2> QED BY <2>1, <2>2
<1>6. ASSUME NEW t \in v + 1..k - 1, WritesShared(prog[t], f)
      PROVE  FALSE
  <2>1. t \in 1..issued
    BY <1>1
  <2>2. PICK j \in DOMAIN ops : Writer(j, f) /\ ops[j].kind = "run" /\ ops[j].task = t
    BY <1>4, <1>6, <2>1
  <2>3. j < i
    BY <1>1, <1>3, <2>2 DEF Place
  <2> QED BY <1>1, <1>2, <2>2, <2>3
<1>7. v # 0 => WritesShared(prog[v], f)
  BY <1>0 DEF SharedOK
<1> QED
  BY <1>1, <1>5, <1>6, <1>7 DEF IsLatest

\* The ghosts it reads hold that of their owner.
LEMMA GhostIsLatest ==
    ASSUME IInv, NEW i \in DOMAIN ops, NEW c \in Colors, Ready(i, c), ops[i].kind = "run",
           NEW f \in Fields, ReadsGhost(prog[ops[i].task], f), NEW o \in GhostOwners[f][c]
    PROVE  IsLatest(prog, ghost[f][c][o], f, ops[i].task)
<1>0. TypeOK /\ OpsOK /\ ReadsOK /\ GhostOK /\ DoneInOrder
  BY DEF IInv
<1>1. Len(ops) \in Nat /\ DOMAIN ops = 1..Len(ops)
  BY <1>0 DEF TypeOK
<1>2. PICK a \in DOMAIN prog[ops[i].task] : prog[ops[i].task][a].field = f
  BY DEF ReadsGhost
<1>3. \E writes \in BOOLEAN : Requirement(f, "ghost", c, writes) \in Requirements(ops[i], c)
  BY <1>2, RunNames DEF Writing
<1>4. ASSUME NEW j \in DOMAIN ops, Refresh(j, f)
      PROVE  <<j, c>> \in done <=> j < i
  <2>1. Requirement(f, "ghost", c, TRUE) \in Requirements(ops[j], c)
    BY <1>4, RefreshNames
  <2>2. (j < i => <<j, c>> \in done) /\ (j > i => <<j, c>> \notin done)
    BY <1>0, <1>3, <2>1, Ordered
  <2>3. j = i => <<j, c>> \notin done
    BY DEF Ready
  <2> QED BY <1>1, <2>2, <2>3
<1>5. Place(i, ops[i].task) /\ ~Stale(f, i)
  BY <1>0, Places DEF ReadsOK
<1>6. CASE \A r \in 1..i - 1 : ~Refresh(r, f)
  <2>1. \A r \in DOMAIN ops : Refresh(r, f) => <<r, c>> \notin done
    BY <1>1, <1>4, <1>6
  <2>2. ghost[f][c][o] = 0
    BY <1>0, <2>1 DEF GhostOK
  <2> QED BY <1>0, <1>5, <1>6, <2>2, UnwrittenIsLatest
<1>7. CASE \E r \in 1..i - 1 : Refresh(r, f)
  <2> DEFINE S == {r \in 1..i - 1 : Refresh(r, f)}
  <2>1. \E r \in S : \A s \in S : s <= r
    <3>1. i - 1 \in Nat
      BY <1>1
    <3>2. S \subseteq 1..i - 1 /\ S # {}
      BY <1>7
    <3> HIDE DEF S
    <3> QED BY <3>1, <3>2, GreatestExists
  <2>2. PICK r \in S : \A s \in S : s <= r
    BY <2>1
  <2>3. r \in DOMAIN ops /\ r < i /\ Refresh(r, f)
    BY <1>1, <2>2
  <2>4. \A s \in r + 1..i - 1 : ~Refresh(s, f)
    BY <1>1, <2>2
  <2>5. LastRefresh(r, f, c)
    <3>1. \A s \in r + 1..Len(ops) : Refresh(s, f) => <<s, c>> \notin done
      BY <1>1, <1>4, <2>3, <2>4
    <3> QED BY <1>4, <2>3, <3>1 DEF LastRefresh
  <2>6. IsLatest(prog, ghost[f][c][o], f, SeenFrom(r))
    BY <1>0, <2>3, <2>5 DEF GhostOK
  <2> QED BY <1>0, <1>5, <2>3, <2>4, <2>6, FreshIsLatest
<1> QED
  BY <1>6, <1>7

-----------------------------------------------------------------------------
(* Issue *)

\* The sequence of a finite set has each of its members once.
LEMMA SetToSeqFacts ==
    ASSUME NEW S, IsFiniteSet(S)
    PROVE  /\ Cardinality(S) \in Nat
           /\ SetToSeq(S) \in [1..Cardinality(S) -> S]
           /\ \A i, j \in 1..Cardinality(S) : SetToSeq(S)[i] = SetToSeq(S)[j] => i = j
           /\ \A x \in S : \E i \in 1..Cardinality(S) : SetToSeq(S)[i] = x
<1> DEFINE n == Cardinality(S)
           s == SetToSeq(S)
<1>1. n \in Nat /\ ExistsBijection(1..n, S)
  BY FS_CardinalityType
<1>2. \E f \in [1..n -> S] : IsInjective(f)
  BY <1>1 DEF ExistsBijection, Bijection, Injection
<1>3. s \in [1..n -> S] /\ IsInjective(s)
  BY <1>2 DEF SetToSeq
<1>4. s \in Injection(1..n, S)
  BY <1>3 DEF Injection
<1>5. IsFiniteSet(1..n) /\ Cardinality(1..n) = n
  BY <1>1, FS_Interval
<1>6. s \in Surjection(1..n, S)
  BY <1>4, <1>5, FS_Injection
<1> QED
  BY <1>1, <1>3, <1>6 DEF IsInjective, Surjection

\* The prolog copies fields of the task's arguments, finitely many.
LEMMA CopiedIsFinite ==
    ASSUME prog \in Programs, NEW k \in 1..NumTasks
    PROVE  Copied(prog[k]) \subseteq Fields /\ IsFiniteSet(Copied(prog[k]))
<1> DEFINE t == prog[k]
           I == {a \in DOMAIN t : t[a].field \in Copied(t)}
           g == [a \in I |-> t[a].field]
<1>1. Len(t) \in Nat /\ DOMAIN t = 1..Len(t)
  BY TaskFacts
<1>2. IsFiniteSet(1..Len(t))
  BY <1>1, FS_Interval
<1>3. IsFiniteSet(I)
  <2>1. I \in SUBSET (1..Len(t))
    BY <1>1
  <2> HIDE DEF I
  <2> QED BY <1>2, <2>1, FS_Subset
<1>4. g \in Surjection(I, Copied(t))
  BY DEF Surjection, Copied
<1>5. IsFiniteSet(Copied(t))
  <2> HIDE DEF I, g
  <2> QED BY <1>3, <1>4, FS_Surjection
<1> QED
  BY <1>5 DEF Copied

\* What execute_task issues: a copy of each field, then the launch.
LEMMA IssuedOps ==
    ASSUME TypeOK, Issue
    PROVE  LET k == issued + 1
               S == Copied(prog[k])
               n == Len(ops)
               m == Cardinality(S)
           IN  /\ k \in 1..NumTasks /\ n \in Nat /\ m \in Nat
               /\ DOMAIN ops = 1..n
               /\ ops' \in Seq(CopyOperations \cup RunOperations)
               /\ Len(ops') = n + m + 1 /\ DOMAIN ops' = 1..n + m + 1
               /\ \A i \in 1..n : ops'[i] = ops[i]
               /\ \A i \in n + 1..n + m :
                      /\ ops'[i].kind = "copy" /\ ops'[i].task = k
                      /\ ops'[i].field \in S
                      /\ \A j \in n + 1..n + m : ops'[i].field = ops'[j].field => i = j
               /\ \A f \in S : \E i \in n + 1..n + m : ops'[i].field = f
               /\ ops'[n + m + 1].kind = "run" /\ ops'[n + m + 1].task = k
<1> DEFINE k == issued + 1
           S == Copied(prog[k])
           n == Len(ops)
           m == Cardinality(S)
           order == SetToSeq(S)
           copies == [i \in DOMAIN order |-> [kind |-> "copy", task |-> k, field |-> order[i]]]
           run == [kind |-> "run", task |-> k]
<1>1. k \in 1..NumTasks /\ n \in Nat /\ DOMAIN ops = 1..n
      /\ ops \in Seq(CopyOperations \cup RunOperations)
  BY TasksAssumption DEF TypeOK, Issue
<1>2. S \subseteq Fields /\ IsFiniteSet(S)
  BY <1>1, CopiedIsFinite DEF TypeOK
<1>3. /\ m \in Nat /\ order \in [1..m -> S]
      /\ \A i, j \in 1..m : order[i] = order[j] => i = j
      /\ \A x \in S : \E i \in 1..m : order[i] = x
  <2> HIDE DEF S
  <2> QED BY <1>2, SetToSeqFacts
<1>4. copies \in Seq(CopyOperations) /\ Len(copies) = m
      /\ \A i \in 1..m : copies[i].kind = "copy" /\ copies[i].task = k /\ copies[i].field = order[i]
  <2> HIDE DEF S, order, m, k
  <2>1. \A i \in 1..m : copies[i] \in CopyOperations
    BY <1>1, <1>2, <1>3 DEF CopyOperations
  <2>2. DOMAIN copies = 1..m
    BY <1>3
  <2>3. copies \in Seq(CopyOperations)
    <3>1. copies \in [1..m -> CopyOperations]
      BY <2>1, <2>2
    <3> QED BY <1>3, <3>1
  <2> QED BY <1>3, <2>2, <2>3
<1>5. ops' = ops \o copies \o <<run>>
  BY DEF Issue, Copies
<1>6. run \in RunOperations /\ run.kind = "run" /\ run.task = k
  BY <1>1 DEF RunOperations
<1> HIDE DEF copies, run
<1>7. /\ ops \o copies \in Seq(CopyOperations \cup RunOperations)
      /\ Len(ops \o copies) = n + m
      /\ \A i \in 1..n : (ops \o copies)[i] = ops[i]
      /\ \A i \in n + 1..n + m : (ops \o copies)[i] = copies[i - n]
  <2>1. copies \in Seq(CopyOperations \cup RunOperations)
    BY <1>4, SeqMonotonic
  <2> QED BY <1>1, <1>3, <1>4, <2>1, ConcatProperties
<1>8. <<run>> \in Seq(CopyOperations \cup RunOperations) /\ Len(<<run>>) = 1 /\ <<run>>[1] = run
  BY <1>6
<1>9. /\ ops' \in Seq(CopyOperations \cup RunOperations)
      /\ Len(ops') = n + m + 1
      /\ \A i \in 1..n + m : ops'[i] = (ops \o copies)[i]
      /\ ops'[n + m + 1] = run
  <2> DEFINE p == ops \o copies
  <2>1. p \in Seq(CopyOperations \cup RunOperations) /\ Len(p) = n + m
    BY <1>7
  <2>2. ops' = p \o <<run>>
    BY <1>5
  <2> HIDE DEF p, n, m
  <2>3. /\ p \o <<run>> \in Seq(CopyOperations \cup RunOperations)
        /\ Len(p \o <<run>>) = Len(p) + 1
        /\ \A i \in 1..Len(p) + 1 :
              (p \o <<run>>)[i] = IF i <= Len(p) THEN p[i] ELSE <<run>>[i - Len(p)]
    BY <1>8, <2>1, ConcatProperties
  <2>0. Len(p) \in Nat
    BY <2>1
  <2>4. Len(p) + 1 - Len(p) = 1 /\ Len(p) + 1 \in 1..Len(p) + 1 /\ ~(Len(p) + 1 <= Len(p))
    BY <2>0
  <2>5. ops'[Len(p) + 1] = run
    BY <1>8, <2>2, <2>3, <2>4
  <2>6. \A i \in 1..Len(p) : ops'[i] = p[i]
    BY <1>1, <1>3, <2>1, <2>2, <2>3 DEF n, m
  <2> QED BY <2>1, <2>2, <2>3, <2>5, <2>6 DEF p
<1>10. \A i \in n + 1..n + m : i - n \in 1..m /\ ops'[i] = copies[i - n]
  BY <1>1, <1>3, <1>7, <1>9
<1>11. \A i \in n + 1..n + m :
          /\ ops'[i].kind = "copy" /\ ops'[i].task = k /\ ops'[i].field \in S
          /\ \A j \in n + 1..n + m : ops'[i].field = ops'[j].field => i = j
  <2> HIDE DEF S, n, m, k, order
  <2> QED BY <1>1, <1>3, <1>4, <1>10
<1>12. \A f \in S : \E i \in n + 1..n + m : ops'[i].field = f
  <2> SUFFICES ASSUME NEW f \in S PROVE \E i \in n + 1..n + m : ops'[i].field = f
    OBVIOUS
  <2>1. PICK j \in 1..m : order[j] = f
    BY <1>3
  <2>2. n + j \in n + 1..n + m /\ (n + j) - n = j
    BY <1>1, <1>3
  <2> HIDE DEF S, n, m, k, order
  <2> QED BY <1>4, <1>10, <2>1, <2>2
<1>13. DOMAIN ops' = 1..n + m + 1
  BY <1>9
<1>14. \A i \in 1..n : ops'[i] = ops[i]
  <2> SUFFICES ASSUME NEW i \in 1..n PROVE ops'[i] = ops[i]
    OBVIOUS
  <2>1. i \in 1..n + m
    BY <1>1, <1>3
  <2> QED BY <1>7, <1>9, <2>1, Zenon
<1>15. ops'[n + m + 1].kind = "run" /\ ops'[n + m + 1].task = k
  BY <1>6, <1>9
<1> QED
  BY <1>1, <1>3, <1>9, <1>11, <1>12, <1>13, <1>14, <1>15, Zenon

\* What was issued before is where it was.
LEMMA EarlierStays ==
    ASSUME TypeOK, Issue, NEW f
    PROVE  /\ \A j \in DOMAIN ops : /\ Writer(j, f)' <=> Writer(j, f)
                                    /\ Refresh(j, f)' <=> Refresh(j, f)
                                    /\ SeenFrom(j)' = SeenFrom(j)
           /\ \A i \in 1..Len(ops) + 1 : Stale(f, i)' <=> Stale(f, i)
<1>1. /\ Len(ops) \in Nat /\ DOMAIN ops = 1..Len(ops)
      /\ \A j \in 1..Len(ops) : ops'[j] = ops[j]
  BY IssuedOps
<1>2. prog' = prog
  BY DEF Issue
<1>3. \A j \in DOMAIN ops : /\ Writer(j, f)' <=> Writer(j, f)
                            /\ Refresh(j, f)' <=> Refresh(j, f)
                            /\ SeenFrom(j)' = SeenFrom(j)
  BY <1>1, <1>2 DEF Writer, Refresh, SeenFrom
<1>4. ASSUME NEW i \in 1..Len(ops) + 1
      PROVE  Stale(f, i)' <=> Stale(f, i)
  <2>1. \A w \in 1..i - 1 : w \in DOMAIN ops /\ \A r \in w..i - 1 : r \in DOMAIN ops
    BY <1>1
  <2> QED BY <1>3, <2>1 DEF Stale
<1> QED
  BY <1>3, <1>4

\* A write phase is a task that leaves the ghosts of a field behind.
LEMMA WritePhases ==
    ASSUME prog \in Programs, NEW k \in 1..NumTasks, NEW f
    PROVE  (\E a \in DOMAIN prog[k] : prog[k][a].field = f /\ WritePhase(prog[k][a]))
               <=> WritesShared(prog[k], f) /\ ~WritesGhost(prog[k], f)
<1> DEFINE t == prog[k]
<1>1. /\ t \in Tasks
      /\ \A a \in DOMAIN t : t[a].gp \in Privileges
  BY TaskFacts
<1>2. ASSUME NEW a \in DOMAIN t, t[a].field = f, WritePhase(t[a])
      PROVE  WritesShared(t, f) /\ ~WritesGhost(t, f)
  <2>1. WritesShared(t, f)
    BY <1>2 DEF WritePhase, WritesShared
  <2>2. ASSUME NEW b \in DOMAIN t, t[b].field = f, t[b].gp \in {"wo", "rw"}
        PROVE  FALSE
    <3>1. a # b
      BY <1>2, <2>2 DEF WritePhase
    <3>2. t[a].sp = "ro"
      BY <1>1, <1>2, <2>2, <3>1, NoInterference
    <3> QED BY <1>2, <3>2 DEF WritePhase
  <2> QED BY <2>1, <2>2 DEF WritesGhost
<1>3. ASSUME WritesShared(t, f), ~WritesGhost(t, f)
      PROVE  \E a \in DOMAIN t : t[a].field = f /\ WritePhase(t[a])
  BY <1>1, <1>3 DEF WritesShared, WritesGhost, WritePhase, Privileges
<1> QED
  BY <1>2, <1>3

\* Between the issued copies, a field is stale until its own.
LEMMA StaleAmongCopies ==
    ASSUME TypeOK, Issue, NEW f,
           NEW i \in Len(ops) + 1..Len(ops) + Cardinality(Copied(prog[issued + 1])) + 1
    PROVE  Stale(f, i)' <=> /\ Stale(f, Len(ops) + 1)
                            /\ \A p \in Len(ops) + 1..i - 1 : ops'[p].field # f
<1> DEFINE n == Len(ops)
           m == Cardinality(Copied(prog[issued + 1]))
<1>1. /\ n \in Nat /\ m \in Nat /\ DOMAIN ops = 1..n
      /\ \A p \in n + 1..n + m : ops'[p].kind = "copy"
  BY IssuedOps
<1>2. \A j \in 1..n : (Writer(j, f)' <=> Writer(j, f)) /\ (Refresh(j, f)' <=> Refresh(j, f))
  BY <1>1, EarlierStays
<1>3. \A p \in n + 1..i - 1 : ~Writer(p, f)' /\ (Refresh(p, f)' <=> ops'[p].field = f)
  <2>1. \A p \in n + 1..i - 1 : p \in n + 1..n + m
    BY <1>1
  <2> QED BY <1>1, <2>1 DEF Writer, Refresh
<1> HIDE DEF m
<1>4. ASSUME Stale(f, i)'
      PROVE  Stale(f, n + 1) /\ \A p \in n + 1..i - 1 : ops'[p].field # f
  <2>1. PICK w \in 1..i - 1 : Writer(w, f)' /\ \A r \in w..i - 1 : ~Refresh(r, f)'
    BY <1>4 DEF Stale
  <2>2. w \in 1..n
    BY <1>1, <1>3, <2>1
  <2>3. \A r \in w..n : r \in w..i - 1 /\ r \in 1..n
    BY <1>1, <2>2
  <2>4. Writer(w, f) /\ \A r \in w..n : ~Refresh(r, f)
    BY <1>2, <2>1, <2>2, <2>3
  <2>5. Stale(f, n + 1)
    <3>1. n + 1 - 1 = n
      BY <1>1
    <3> QED BY <2>2, <2>4, <3>1 DEF Stale
  <2>6. \A p \in n + 1..i - 1 : p \in w..i - 1
    BY <1>1, <2>2
  <2> QED BY <1>3, <2>1, <2>5, <2>6
<1>5. ASSUME Stale(f, n + 1), \A p \in n + 1..i - 1 : ops'[p].field # f
      PROVE  Stale(f, i)'
  <2>1. PICK w \in 1..n : Writer(w, f) /\ \A r \in w..n : ~Refresh(r, f)
    <3>1. n + 1 - 1 = n
      BY <1>1
    <3> QED BY <1>5, <3>1 DEF Stale
  <2>2. \A r \in w..i - 1 : r \in w..n \/ r \in n + 1..i - 1
    BY <1>1
  <2>3. \A r \in w..i - 1 : ~Refresh(r, f)'
    BY <1>1, <1>2, <1>3, <1>5, <2>1, <2>2
  <2>4. w \in 1..i - 1 /\ Writer(w, f)'
    BY <1>1, <1>2, <2>1
  <2> QED BY <2>3, <2>4 DEF Stale
<1> QED
  BY <1>4, <1>5

\* Issue keeps the flags, and copies what is stale before it is read.
LEMMA IssueFlags ==
    ASSUME IInv, Issue
    PROVE  FlagsOK' /\ CopiesOK' /\ ReadsOK'
<1> DEFINE k == issued + 1
           S == Copied(prog[k])
           t == prog[k]
<1>a. PICK n, m : n = Len(ops) /\ m = Cardinality(S)
  OBVIOUS
<1>0. TypeOK /\ FlagsOK /\ CopiesOK /\ ReadsOK
  BY DEF IInv
<1>1. /\ k \in 1..NumTasks /\ n \in Nat /\ m \in Nat /\ DOMAIN ops = 1..n
      /\ Len(ops') = n + m + 1 /\ DOMAIN ops' = 1..n + m + 1
      /\ \A i \in 1..n : ops'[i] = ops[i]
      /\ \A i \in n + 1..n + m :
             /\ ops'[i].kind = "copy" /\ ops'[i].field \in S
             /\ \A j \in n + 1..n + m : ops'[i].field = ops'[j].field => i = j
      /\ \A f \in S : \E i \in n + 1..n + m : ops'[i].field = f
      /\ ops'[n + m + 1].kind = "run" /\ ops'[n + m + 1].task = k
  BY <1>0, <1>a, IssuedOps
<1>2. prog' = prog /\ ghostIsReadable' = Flags(t) /\ prog \in Programs
  BY <1>0 DEF Issue, TypeOK
<1>3. \A f : \A i \in n + 1..n + m + 1 :
         Stale(f, i)' <=> Stale(f, n + 1) /\ \A p \in n + 1..i - 1 : ops'[p].field # f
  BY <1>0, <1>a, StaleAmongCopies
<1>4. \A f \in Fields : f \in S <=>
         Stale(f, n + 1) /\ \E a \in DOMAIN t : t[a].field = f /\ t[a].gp # "na"
  BY <1>0, <1>a DEF FlagsOK, Copied, ReadPhase
<1>5. \A f \in Fields : ghostIsReadable'[f] <=>
         (~Stale(f, n + 1) \/ f \in S) /\ (WritesShared(t, f) => WritesGhost(t, f))
  <2>1. \A f \in Fields : ghostIsReadable'[f] <=>
           /\ ghostIsReadable[f] \/ f \in S
           /\ \A a \in DOMAIN t : t[a].field = f => ~WritePhase(t[a])
    BY <1>2 DEF Flags
  <2>2. \A f \in Fields : (\E a \in DOMAIN t : t[a].field = f /\ WritePhase(t[a]))
                              <=> WritesShared(t, f) /\ ~WritesGhost(t, f)
    BY <1>1, <1>2, WritePhases
  <2> QED BY <1>0, <1>a, <2>1, <2>2 DEF FlagsOK
<1>6. \A f \in Fields : /\ Writer(n + m + 1, f)' <=> WritesShared(t, f)
                        /\ Refresh(n + m + 1, f)' <=> WritesGhost(t, f)
  BY <1>1, <1>2 DEF Writer, Refresh
<1>7. \A f \in Fields : WritesGhost(t, f) =>
         WritesShared(t, f) /\ \E a \in DOMAIN t : t[a].field = f /\ t[a].gp # "na"
  <2>1. t \in Tasks
    BY <1>1, <1>2 DEF Programs
  <2> QED BY <2>1, TasksAssumption DEF WritesGhost
<1>8. \A f \in Fields : Stale(f, n + m + 1)' <=> Stale(f, n + 1) /\ f \notin S
  <2>1. n + m + 1 \in n + 1..n + m + 1 /\ n + m + 1 - 1 = n + m
    BY <1>1
  <2> QED BY <1>1, <1>3, <2>1
<1> HIDE DEF k, S, t
<1>9. ASSUME NEW f \in Fields,
             NEW h \in Nat, NEW j \in Nat, NEW i \in Nat, h = n + m, j = h + 1, i = j + 1
      PROVE  Stale(f, i)' <=> \/ Stale(f, j)' /\ ~WritesGhost(t, f)
                              \/ WritesShared(t, f) /\ ~WritesGhost(t, f)
  <2>1. i - 1 = j /\ j - 1 = h
    BY <1>9
  <2>2. Stale(f, i)' <=> \E w \in 1..j : Writer(w, f)' /\ \A r \in w..j : ~Refresh(r, f)'
    BY <2>1 DEF Stale
  <2>3. Stale(f, j)' <=> \E w \in 1..h : Writer(w, f)' /\ \A r \in w..h : ~Refresh(r, f)'
    BY <2>1 DEF Stale
  <2>4. /\ Writer(j, f)' <=> WritesShared(t, f)
        /\ Refresh(j, f)' <=> WritesGhost(t, f)
    BY <1>6, <1>9
  <2>5. \A w \in 1..j : (w \in 1..h \/ w = j) /\ j \in w..j
           /\ \A r \in w..j : r \in w..h \/ r = j
    BY <1>9
  <2>6. \A w \in 1..h : w \in 1..j /\ \A r \in w..h : r \in w..j
    BY <1>9
  <2>7. j \in 1..j /\ \A r \in j..j : r = j
    BY <1>9
  <2> QED BY <2>2, <2>3, <2>4, <2>5, <2>6, <2>7, Zenon
<1>10. FlagsOK'
  <2>1. PICK j \in Nat, i \in Nat : n + m \in Nat /\ j = n + m + 1 /\ i = j + 1
    BY <1>1
  <2>2. Len(ops') + 1 = i
    BY <1>1, <2>1
  <2>3. \A f \in Fields : ghostIsReadable'[f] <=> ~Stale(f, i)'
    BY <1>4, <1>5, <1>7, <1>8, <1>9, <2>1
  <2> QED BY <2>2, <2>3 DEF FlagsOK, Stale
<1>11. CopiesOK'
  <2> SUFFICES ASSUME NEW i \in DOMAIN ops', ops'[i].kind = "copy",
                      NEW f, f = ops'[i].field
               PROVE  Stale(f, i)'
    BY DEF CopiesOK, Stale, Writer, Refresh
  <2>1. CASE i \in 1..n
    <3>1. Stale(f, i)
      BY <1>0, <1>1, <2>1 DEF CopiesOK
    <3>2. i \in 1..Len(ops) + 1
      BY <1>1, <1>a, <2>1
    <3> QED BY <1>0, <3>1, <3>2, EarlierStays
  <2>2. CASE i \in n + 1..n + m
    <3>1. f \in S /\ i \in n + 1..n + m + 1
      BY <1>1, <2>2
    <3>2. \A p \in n + 1..i - 1 : ops'[p].field # f
      BY <1>1, <2>2
    <3>3. f \in Fields
      BY <3>1 DEF S, Copied
    <3> QED BY <1>3, <1>4, <3>1, <3>2, <3>3
  <2>3. i # n + m + 1
    BY <1>1
  <2> QED BY <1>1, <2>1, <2>2, <2>3
<1>12. ReadsOK'
  <2> SUFFICES ASSUME NEW i \in DOMAIN ops', ops'[i].kind = "run",
                      NEW f \in Fields, ReadsGhost(prog[ops'[i].task], f)
               PROVE  ~Stale(f, i)'
    BY <1>2 DEF ReadsOK, Stale, Writer, Refresh
  <2>1. CASE i \in 1..n
    <3>1. ~Stale(f, i)
      BY <1>0, <1>1, <2>1 DEF ReadsOK
    <3>2. i \in 1..Len(ops) + 1
      BY <1>1, <1>a, <2>1
    <3> QED BY <1>0, <3>1, <3>2, EarlierStays
  <2>2. CASE i = n + m + 1
    <3>1. \E a \in DOMAIN t : t[a].field = f /\ t[a].gp # "na"
      BY <1>1, <2>2 DEF ReadsGhost, t
    <3> QED BY <1>4, <1>8, <2>2, <3>1
  <2>3. i \notin n + 1..n + m
    BY <1>1
  <2> QED BY <1>1, <2>1, <2>2, <2>3
<1> QED
  BY <1>10, <1>11, <1>12

\* Issue keeps the operations in the tasks' order, and runs nothing.
LEMMA IssueOrder ==
    ASSUME IInv, Issue
    PROVE  TypeOK' /\ OpsOK' /\ DoneInOrder' /\ SharedOK' /\ GhostOK'
<1> DEFINE k == issued + 1
           S == Copied(prog[k])
<1>a. PICK n, m : n = Len(ops) /\ m = Cardinality(S)
  OBVIOUS
<1>0. TypeOK /\ OpsOK /\ DoneInOrder /\ SharedOK /\ GhostOK
  BY DEF IInv
<1>1. /\ k \in 1..NumTasks /\ n \in Nat /\ m \in Nat /\ DOMAIN ops = 1..n
      /\ ops' \in Seq(CopyOperations \cup RunOperations)
      /\ DOMAIN ops' = 1..n + m + 1 /\ Len(ops') = n + m + 1
      /\ \A i \in 1..n : ops'[i] = ops[i]
      /\ \A i \in n + 1..n + m : ops'[i].kind = "copy" /\ ops'[i].task = k
      /\ ops'[n + m + 1].kind = "run" /\ ops'[n + m + 1].task = k
  BY <1>0, <1>a, IssuedOps
<1>2. /\ prog' = prog /\ issued' = k /\ issued \in Nat /\ done' = done
      /\ shared' = shared /\ ghost' = ghost /\ ghostIsReadable' \in [Fields -> BOOLEAN]
  BY <1>0, <1>1 DEF Issue, TypeOK, data, Flags
<1>3. done \subseteq (1..n) \X Colors
  BY <1>0, <1>1 DEF TypeOK
<1> HIDE DEF k, S
<1>4. k = issued + 1 /\ k \in 1..NumTasks
  BY <1>1 DEF k
<1>5. TypeOK'
  <2>1. issued' \in 0..NumTasks
    BY <1>2, <1>4
  <2>2. done' \subseteq (DOMAIN ops') \X Colors
    BY <1>1, <1>2, <1>3
  <2> QED BY <1>0, <1>1, <1>2, <2>1, <2>2 DEF TypeOK
<1>6. \A i \in 1..n + m + 1 : \/ i \in 1..n /\ ops'[i] = ops[i] /\ ops[i].task \in 1..issued
                              \/ i \in n + 1..n + m /\ ops'[i].kind = "copy" /\ ops'[i].task = k
                              \/ i = n + m + 1 /\ ops'[i].kind = "run" /\ ops'[i].task = k
  BY <1>0, <1>1 DEF OpsOK
<1>7. OpsOK'
  <2>1. \A i \in DOMAIN ops' : ops'[i].task \in 1..issued'
    BY <1>1, <1>2, <1>4, <1>6
  <2>2. ASSUME NEW i \in 1..n + m + 1, NEW j \in 1..n + m + 1, i < j
        PROVE  /\ ops'[i].task <= ops'[j].task
               /\ ops'[i].kind = "run" => ops'[i].task < ops'[j].task
    <3>1. CASE j \in 1..n
      <4>1. i \in 1..n
        BY <1>1, <2>2, <3>1
      <4> QED BY <1>0, <1>1, <2>2, <3>1, <4>1 DEF OpsOK
    <3>2. CASE j \notin 1..n
      <4>1. ops'[j].task = k
        BY <1>6, <3>2
      <4>2. i # n + m + 1
        BY <1>1, <2>2
      <4>3. (ops'[i].task = k /\ ops'[i].kind = "copy") \/ ops'[i].task \in 1..issued
        BY <1>6, <4>2
      <4> QED BY <1>2, <1>4, <4>1, <4>3
    <3> QED BY <3>1, <3>2
  <2>3. ASSUME NEW l \in 1..k
        PROVE  \E i \in 1..n + m + 1 : ops'[i].kind = "run" /\ ops'[i].task = l
    <3>1. CASE l = k
      <4>1. n + m + 1 \in 1..n + m + 1
        BY <1>1
      <4> QED BY <1>1, <3>1, <4>1
    <3>2. CASE l # k
      <4>1. l \in 1..issued
        BY <1>2, <1>4, <3>2
      <4>2. PICK i \in 1..n : ops[i].kind = "run" /\ ops[i].task = l
        BY <1>0, <1>1, <4>1 DEF OpsOK
      <4>3. i \in 1..n + m + 1
        BY <1>1
      <4> QED BY <1>1, <4>2, <4>3
    <3> QED BY <3>1, <3>2
  <2> QED BY <1>1, <1>2, <2>1, <2>2, <2>3 DEF OpsOK
<1>8. DoneInOrder'
  <2> SUFFICES ASSUME NEW i \in DOMAIN ops', NEW j \in DOMAIN ops', NEW c \in Colors,
                      NEW d \in Colors, j < i, <<i, c>> \in done,
                      Interfere(ops[j], d, ops[i], c)'
               PROVE  <<j, d>> \in done
    BY <1>2 DEF DoneInOrder
  <2>1. i \in 1..n /\ j \in 1..n
    BY <1>1, <1>3
  <2>2. Interfere(ops[j], d, ops[i], c)
    BY <1>1, <1>2, <2>1 DEF Interfere, Requirements
  <2> QED BY <1>0, <1>1, <2>1, <2>2 DEF DoneInOrder
<1>9. SharedOK'
  <2> SUFFICES ASSUME NEW f \in Fields, NEW c \in Colors
               PROVE  /\ shared[f][c] \in 0..k
                      /\ shared[f][c] # 0 => WritesShared(prog[shared[f][c]], f)
                      /\ \A i \in 1..n + m + 1 : Writer(i, f)' =>
                             (<<i, c>> \in done <=> ops'[i].task <= shared[f][c])
    BY <1>1, <1>2 DEF SharedOK
  <2>1. shared[f][c] \in 0..issued /\ (shared[f][c] # 0 => WritesShared(prog[shared[f][c]], f))
    BY <1>0 DEF SharedOK
  <2>2. shared[f][c] \in 0..k
    BY <1>2, <1>4, <2>1
  <2>3. ASSUME NEW i \in 1..n, Writer(i, f)'
        PROVE  <<i, c>> \in done <=> ops'[i].task <= shared[f][c]
    BY <1>0, <1>1, <2>3, EarlierStays DEF SharedOK
  <2>4. ASSUME NEW i \in 1..n + m + 1, i \notin 1..n
        PROVE  <<i, c>> \notin done /\ ~(ops'[i].task <= shared[f][c])
    BY <1>2, <1>3, <1>4, <1>6, <2>1, <2>4
  <2> QED BY <1>0, <2>1, <2>2, <2>3, <2>4 DEF SharedOK
<1>10. GhostOK'
  <2>1. ASSUME NEW r \in 1..n + m + 1, NEW f \in Fields, NEW c \in Colors, LastRefresh(r, f, c)'
        PROVE  LastRefresh(r, f, c) /\ SeenFrom(r)' = SeenFrom(r)
    <3>1. r \in 1..n /\ <<r, c>> \in done
      BY <1>2, <1>3, <2>1 DEF LastRefresh
    <3>2. \A s \in r + 1..n : s \in r + 1..Len(ops') /\ s \in DOMAIN ops
      BY <1>1, <3>1
    <3>3. \A s \in r + 1..Len(ops) : Refresh(s, f) => <<s, c>> \notin done
      BY <1>0, <1>2, <1>a, <2>1, <3>2, EarlierStays DEF LastRefresh
    <3> QED BY <1>0, <1>1, <2>1, <3>1, <3>3, EarlierStays DEF LastRefresh
  <2>2. ASSUME NEW f \in Fields, NEW c \in Colors,
               \A r \in 1..n + m + 1 : Refresh(r, f)' => <<r, c>> \notin done
        PROVE  \A r \in DOMAIN ops : Refresh(r, f) => <<r, c>> \notin done
    <3>1. \A r \in DOMAIN ops : r \in 1..n + m + 1
      BY <1>1
    <3> QED BY <1>0, <2>2, <3>1, EarlierStays
  <2>3. ASSUME NEW f \in Fields, NEW c \in Colors, NEW o \in GhostOwners[f][c]
        PROVE  /\ (\A r \in DOMAIN ops' : Refresh(r, f)' => <<r, c>> \notin done) => ghost[f][c][o] = 0
               /\ \A r \in DOMAIN ops' :
                     LastRefresh(r, f, c)' => IsLatest(prog, ghost[f][c][o], f, SeenFrom(r)')
    <3>1. \A r \in DOMAIN ops' : LastRefresh(r, f, c)' => r \in DOMAIN ops
      BY <1>1, <1>2, <1>3 DEF LastRefresh
    <3> QED BY <1>0, <1>1, <2>1, <2>2, <3>1 DEF GhostOK
  <2> QED BY <1>2, <2>3 DEF GhostOK
<1> QED
  BY <1>5, <1>7, <1>8, <1>9, <1>10

-----------------------------------------------------------------------------
(* The points *)

\* What does not concern the data a point changes.
LEMMA PointOrder ==
    ASSUME IInv, NEW i \in DOMAIN ops, NEW c \in Colors, Ready(i, c),
           prog' = prog, issued' = issued, ops' = ops, ghostIsReadable' = ghostIsReadable,
           done' = done \cup {<<i, c>>}
    PROVE  /\ OpsOK' /\ FlagsOK' /\ CopiesOK' /\ ReadsOK' /\ DoneInOrder'
           /\ \A j : \A f : /\ Writer(j, f)' <=> Writer(j, f)
                            /\ Refresh(j, f)' <=> Refresh(j, f)
           /\ \A j : SeenFrom(j)' = SeenFrom(j)
<1>1. OpsOK' /\ FlagsOK' /\ CopiesOK' /\ ReadsOK'
  BY DEF IInv, OpsOK, FlagsOK, CopiesOK, ReadsOK, Stale, Writer, Refresh
<1>2. DoneInOrder'
  <2> SUFFICES ASSUME NEW h \in DOMAIN ops, NEW j \in DOMAIN ops, NEW e \in Colors,
                      NEW d \in Colors, j < h, <<h, e>> \in done',
                      Interfere(ops[j], d, ops[h], e)'
               PROVE  <<j, d>> \in done'
    BY DEF DoneInOrder
  <2>1. Interfere(ops[j], d, ops[h], e)
    BY DEF Interfere, Requirements
  <2>2. CASE <<h, e>> \in done
    BY <2>1, <2>2 DEF IInv, DoneInOrder
  <2>3. CASE h = i /\ e = c
    <3>1. j \in 1..i - 1
      BY <2>3, OpFacts DEF IInv
    <3> QED BY <2>1, <2>3, <3>1 DEF Ready
  <2> QED BY <2>2, <2>3
<1>3. \A j : SeenFrom(j)' = SeenFrom(j)
  BY DEF SeenFrom
<1>4. \A j : \A f : (Writer(j, f)' <=> Writer(j, f)) /\ (Refresh(j, f)' <=> Refresh(j, f))
  BY DEF Writer, Refresh
<1> QED
  BY <1>1, <1>2, <1>3, <1>4

\* A copy leaves the ghosts as it finds its owners' entities.
LEMMA CopyStep ==
    ASSUME IInv, NEW i \in DOMAIN ops, NEW c \in Colors, Copy(i, c)
    PROVE  IInv'
<1> DEFINE g == ops[i].field
<1>0. TypeOK /\ OpsOK /\ SharedOK /\ GhostOK /\ DoneInOrder
  BY DEF IInv
<1>1. /\ ops[i].kind = "copy" /\ Ready(i, c) /\ done' = done \cup {<<i, c>>}
      /\ prog' = prog /\ issued' = issued /\ ghostIsReadable' = ghostIsReadable
      /\ ops' = ops /\ shared' = shared
      /\ ghost' = [ghost EXCEPT ![g][c] = [o \in GhostOwners[g][c] |-> shared[g][o]]]
  BY DEF Copy
<1>2. /\ OpsOK' /\ FlagsOK' /\ CopiesOK' /\ ReadsOK' /\ DoneInOrder'
      /\ \A j : \A f : /\ Writer(j, f)' <=> Writer(j, f)
                       /\ Refresh(j, f)' <=> Refresh(j, f)
      /\ \A j : SeenFrom(j)' = SeenFrom(j)
  BY <1>1, PointOrder
<1>3. g \in Fields /\ Len(ops) \in Nat /\ DOMAIN ops = 1..Len(ops)
  BY <1>0, <1>1, OpFacts
<1>4. ghost' = [f \in Fields |-> [d \in Colors |-> [o \in GhostOwners[f][d] |->
                  IF f = g /\ d = c THEN shared[f][o] ELSE ghost[f][d][o]]]]
  <2> HIDE DEF g
  <2> DEFINE G(f, d) == [o \in GhostOwners[f][d] |-> ghost[f][d][o]]
  <2>1. ghost = [f \in Fields |-> [d \in Colors |-> G(f, d)]]
    BY <1>0 DEF TypeOK
  <2>2. \A f \in Fields, d \in Colors : ghost[f][d] = G(f, d)
    <3> HIDE DEF G
    <3> QED BY <2>1
  <2>3. ghost' = [f \in Fields |-> [d \in Colors |->
            IF f = g /\ d = c THEN [o \in GhostOwners[g][c] |-> shared[g][o]] ELSE G(f, d)]]
    <3> HIDE DEF G
    <3> QED BY <1>1, <1>3, <2>1
  <2>4. \A f \in Fields, d \in Colors :
            (IF f = g /\ d = c THEN [o \in GhostOwners[g][c] |-> shared[g][o]] ELSE G(f, d))
            = [o \in GhostOwners[f][d] |-> IF f = g /\ d = c THEN shared[f][o] ELSE ghost[f][d][o]]
    OBVIOUS
  <2> HIDE DEF G
  <2> QED BY <2>3, <2>4
<1>5. TypeOK'
  <2>1. done' \subseteq (DOMAIN ops') \X Colors
    BY <1>0, <1>1 DEF TypeOK
  <2>2. ghost' = [f \in Fields |-> [d \in Colors |-> [o \in GhostOwners[f][d] |-> ghost'[f][d][o]]]]
    BY <1>4
  <2> QED BY <1>0, <1>1, <2>1, <2>2 DEF TypeOK
<1>6. SharedOK'
  <2>1. \A f : ~Writer(i, f)
    BY <1>1 DEF Writer
  <2> QED BY <1>0, <1>1, <1>2, <2>1 DEF SharedOK
<1>7. GhostOK'
  <2> SUFFICES ASSUME NEW f \in Fields, NEW d \in Colors, NEW o \in GhostOwners[f][d]
               PROVE  /\ (\A r \in DOMAIN ops : Refresh(r, f) => <<r, d>> \notin done')
                             => ghost'[f][d][o] = 0
                      /\ \A r \in DOMAIN ops :
                            LastRefresh(r, f, d)' => IsLatest(prog, ghost'[f][d][o], f, SeenFrom(r))
    BY <1>1, <1>2 DEF GhostOK
  <2>1. CASE f = g /\ d = c
    <3>1. Refresh(i, g)
      BY <1>1 DEF Refresh
    <3>2. ghost'[f][d][o] = shared[g][o]
      BY <1>4, <2>1
    <3>3. o \in Colors
      BY <1>3, <2>1, TopologyAssumption
    <3>4. IsLatest(prog, shared[g][o], g, ops[i].task)
      BY <1>1, <1>3, <2>1, <3>3, CopyNames, SharedIsLatest
    <3>5. \A r \in DOMAIN ops : LastRefresh(r, f, d)' => r = i
      <4> SUFFICES ASSUME NEW r \in DOMAIN ops, LastRefresh(r, f, d)' PROVE r = i
        OBVIOUS
      <4>1. Refresh(r, g) /\ <<r, c>> \in done'
            /\ \A s \in r + 1..Len(ops) : Refresh(s, g) => <<s, c>> \notin done'
        BY <1>1, <1>2, <2>1 DEF LastRefresh
      <4>2. ~(r > i)
        <5>1. /\ Requirement(g, "ghost", c, TRUE) \in Requirements(ops[r], c)
              /\ Requirement(g, "ghost", c, TRUE) \in Requirements(ops[i], c)
          BY <3>1, <4>1, RefreshNames
        <5>2. r > i => <<r, c>> \notin done
          BY <1>0, <1>1, <5>1, Ordered
        <5> QED BY <1>1, <1>3, <4>1, <5>2
      <4>3. ~(r < i)
        <5>1. r < i => i \in r + 1..Len(ops)
          BY <1>3
        <5>2. <<i, c>> \in done'
          BY <1>1
        <5> QED BY <3>1, <4>1, <5>1, <5>2
      <4> QED BY <1>3, <4>2, <4>3
    <3>6. SeenFrom(i) = ops[i].task
      BY <1>1 DEF SeenFrom
    <3> QED BY <1>1, <2>1, <3>1, <3>2, <3>4, <3>5, <3>6
  <2>2. CASE ~(f = g /\ d = c)
    <3>1. ghost'[f][d][o] = ghost[f][d][o]
      BY <1>4, <2>2
    <3>2. \A r \in DOMAIN ops : Refresh(r, f) => (<<r, d>> \in done' <=> <<r, d>> \in done)
      BY <1>1, <2>2 DEF Refresh
    <3>3. \A r \in DOMAIN ops : LastRefresh(r, f, d)' => LastRefresh(r, f, d)
      <4>1. \A r \in DOMAIN ops : \A s \in r + 1..Len(ops) : s \in DOMAIN ops
        BY <1>3
      <4> QED BY <1>1, <1>2, <3>2, <4>1 DEF LastRefresh
    <3> QED BY <1>0, <3>1, <3>2, <3>3 DEF GhostOK
  <2> QED BY <2>1, <2>2
<1> QED
  BY <1>2, <1>5, <1>6, <1>7 DEF IInv

\* A task leaves its number in what it writes.
LEMMA RunStep ==
    ASSUME IInv, NEW i \in DOMAIN ops, NEW c \in Colors, Run(i, c)
    PROVE  IInv'
<1> DEFINE k == ops[i].task
           t == prog[k]
<1>0. TypeOK /\ OpsOK /\ SharedOK /\ GhostOK /\ DoneInOrder
  BY DEF IInv
<1>1. /\ ops[i].kind = "run" /\ Ready(i, c) /\ done' = done \cup {<<i, c>>}
      /\ prog' = prog /\ issued' = issued /\ ghostIsReadable' = ghostIsReadable
      /\ ops' = ops
      /\ shared' = [f \in Fields |->
             IF WritesShared(t, f) THEN [shared[f] EXCEPT ![c] = k] ELSE shared[f]]
      /\ ghost' = [f \in Fields |->
             IF WritesGhost(t, f) THEN [ghost[f] EXCEPT ![c] = [o \in GhostOwners[f][c] |-> k]]
             ELSE ghost[f]]
  BY DEF Run
<1>2. /\ OpsOK' /\ FlagsOK' /\ CopiesOK' /\ ReadsOK' /\ DoneInOrder'
      /\ \A j : \A f : /\ Writer(j, f)' <=> Writer(j, f)
                       /\ Refresh(j, f)' <=> Refresh(j, f)
      /\ \A j : SeenFrom(j)' = SeenFrom(j)
  BY <1>1, PointOrder
<1>3. /\ issued \in Nat /\ Len(ops) \in Nat /\ DOMAIN ops = 1..Len(ops)
      /\ k \in 1..issued /\ k \in 1..NumTasks
      /\ \A j \in DOMAIN ops : ops[j].task \in 1..issued
      /\ t \in Tasks
  BY <1>0, OpFacts, TaskFacts DEF TypeOK, OpsOK
<1>4. \A f : (Writer(i, f) <=> WritesShared(t, f)) /\ (Refresh(i, f) <=> WritesGhost(t, f))
  BY <1>1 DEF Writer, Refresh
<1> HIDE DEF k, t
<1>5. \A f \in Fields : /\ shared'[f] \in [Colors -> Nat]
                        /\ \A d \in Colors : shared'[f][d] =
                              IF WritesShared(t, f) /\ d = c THEN k ELSE shared[f][d]
  <2> SUFFICES ASSUME NEW f \in Fields
               PROVE  /\ shared'[f] \in [Colors -> Nat]
                      /\ \A d \in Colors : shared'[f][d] =
                            IF WritesShared(t, f) /\ d = c THEN k ELSE shared[f][d]
    OBVIOUS
  <2>1. shared[f] \in [Colors -> Nat]
    BY <1>0 DEF TypeOK
  <2>2. shared'[f] = IF WritesShared(t, f) THEN [shared[f] EXCEPT ![c] = k] ELSE shared[f]
    BY <1>1
  <2> QED BY <1>3, <2>1, <2>2
<1>6. ghost' = [f \in Fields |-> [d \in Colors |-> [o \in GhostOwners[f][d] |->
                  IF WritesGhost(t, f) /\ d = c THEN k ELSE ghost[f][d][o]]]]
  <2> DEFINE G(f, d) == [o \in GhostOwners[f][d] |-> ghost[f][d][o]]
             K(f) == [o \in GhostOwners[f][c] |-> k]
  <2>1. ghost = [f \in Fields |-> [d \in Colors |-> G(f, d)]]
    BY <1>0 DEF TypeOK
  <2>2. ASSUME NEW f \in Fields
        PROVE  (IF WritesGhost(t, f) THEN [ghost[f] EXCEPT ![c] = K(f)] ELSE ghost[f])
               = [d \in Colors |-> IF WritesGhost(t, f) /\ d = c THEN K(f) ELSE G(f, d)]
    <3> HIDE DEF G, K
    <3>1. ghost[f] = [d \in Colors |-> G(f, d)]
      BY <2>1
    <3> QED BY <3>1
  <2>3. ASSUME NEW f \in Fields, NEW d \in Colors
        PROVE  (IF WritesGhost(t, f) /\ d = c THEN K(f) ELSE G(f, d))
               = [o \in GhostOwners[f][d] |->
                     IF WritesGhost(t, f) /\ d = c THEN k ELSE ghost[f][d][o]]
    OBVIOUS
  <2>4. ghost' = [f \in Fields |->
             IF WritesGhost(t, f) THEN [ghost[f] EXCEPT ![c] = K(f)] ELSE ghost[f]]
    BY <1>1
  <2>5. ghost' = [f \in Fields |->
            [d \in Colors |-> IF WritesGhost(t, f) /\ d = c THEN K(f) ELSE G(f, d)]]
    <3> HIDE DEF G, K
    <3> QED BY <2>2, <2>4
  <2> DEFINE N(f, d) == [o \in GhostOwners[f][d] |->
                            IF WritesGhost(t, f) /\ d = c THEN k ELSE ghost[f][d][o]]
  <2>6. \A f \in Fields, d \in Colors :
            (IF WritesGhost(t, f) /\ d = c THEN K(f) ELSE G(f, d)) = N(f, d)
    BY <2>3
  <2>7. ghost' = [f \in Fields |-> [d \in Colors |-> N(f, d)]]
    <3> HIDE DEF G, K, N
    <3> QED BY <2>5, <2>6
  <2> QED BY <2>7
<1>7. TypeOK'
  <2>1. done' \subseteq (DOMAIN ops') \X Colors
    BY <1>0, <1>1 DEF TypeOK
  <2>2. ghost' = [f \in Fields |-> [d \in Colors |-> [o \in GhostOwners[f][d] |-> ghost'[f][d][o]]]]
    BY <1>6
  <2>3. shared' \in [Fields -> [Colors -> Nat]]
    BY <1>1, <1>5
  <2> QED BY <1>0, <1>1, <2>1, <2>2, <2>3 DEF TypeOK
<1>8. SharedOK'
  <2> SUFFICES ASSUME NEW f \in Fields, NEW d \in Colors
               PROVE  /\ shared'[f][d] \in 0..issued
                      /\ shared'[f][d] # 0 => WritesShared(prog[shared'[f][d]], f)
                      /\ \A j \in DOMAIN ops : Writer(j, f) =>
                             (<<j, d>> \in done' <=> ops[j].task <= shared'[f][d])
    BY <1>1, <1>2 DEF SharedOK
  <2>1. CASE WritesShared(t, f) /\ d = c
    <3>1. shared'[f][d] = k /\ k \in 0..issued /\ WritesShared(prog[k], f)
      BY <1>3, <1>5, <2>1 DEF t
    <3>2. ASSUME NEW j \in DOMAIN ops, Writer(j, f)
          PROVE  <<j, c>> \in done' <=> ops[j].task <= k
      <4>1. Writer(i, f)
        BY <1>4, <2>1
      <4>2. /\ Requirement(f, "shared", c, TRUE) \in Requirements(ops[j], c)
            /\ Requirement(f, "shared", c, TRUE) \in Requirements(ops[i], c)
        BY <3>2, <4>1, WriterNames
      <4>3. (j < i => <<j, c>> \in done) /\ (j > i => <<j, c>> \notin done)
        BY <1>0, <1>1, <4>2, Ordered
      <4>4. (j < i => ops[j].task <= k) /\ (j > i => k < ops[j].task)
        BY <1>0, <1>1 DEF OpsOK, k
      <4>5. j = i => ops[j].task <= k /\ <<j, c>> \in done'
        BY <1>1, <1>3 DEF k
      <4> QED BY <1>1, <1>3, <4>3, <4>4, <4>5
    <3> QED BY <2>1, <3>1, <3>2
  <2>2. CASE ~(WritesShared(t, f) /\ d = c)
    <3>1. shared'[f][d] = shared[f][d]
      BY <1>5, <2>2
    <3>2. \A j \in DOMAIN ops : Writer(j, f) => (<<j, d>> \in done' <=> <<j, d>> \in done)
      BY <1>1, <1>4, <2>2
    <3> QED BY <1>0, <3>1, <3>2 DEF SharedOK
  <2> QED BY <2>1, <2>2
<1>9. GhostOK'
  <2> SUFFICES ASSUME NEW f \in Fields, NEW d \in Colors, NEW o \in GhostOwners[f][d]
               PROVE  /\ (\A r \in DOMAIN ops : Refresh(r, f) => <<r, d>> \notin done')
                             => ghost'[f][d][o] = 0
                      /\ \A r \in DOMAIN ops :
                            LastRefresh(r, f, d)' => IsLatest(prog, ghost'[f][d][o], f, SeenFrom(r))
    BY <1>1, <1>2 DEF GhostOK
  <2>1. CASE WritesGhost(t, f) /\ d = c
    <3>1. Refresh(i, f) /\ <<i, d>> \in done'
      BY <1>1, <1>4, <2>1
    <3>2. ghost'[f][d][o] = k
      BY <1>6, <2>1
    <3>3. SeenFrom(i) = k + 1
      BY <1>1 DEF SeenFrom, k
    <3>4. IsLatest(prog, k, f, k + 1)
      <4>1. WritesShared(prog[k], f)
        BY <1>3, <2>1, TasksAssumption DEF t
      <4> QED BY <1>3, <4>1 DEF IsLatest
    <3>5. \A r \in DOMAIN ops : LastRefresh(r, f, d)' => r = i
      <4> SUFFICES ASSUME NEW r \in DOMAIN ops, LastRefresh(r, f, d)' PROVE r = i
        OBVIOUS
      <4>1. Refresh(r, f) /\ <<r, c>> \in done'
            /\ \A s \in r + 1..Len(ops) : Refresh(s, f) => <<s, c>> \notin done'
        BY <1>1, <1>2, <2>1 DEF LastRefresh
      <4>2. ~(r > i)
        <5>1. /\ Requirement(f, "ghost", c, TRUE) \in Requirements(ops[r], c)
              /\ Requirement(f, "ghost", c, TRUE) \in Requirements(ops[i], c)
          BY <3>1, <4>1, RefreshNames
        <5>2. r > i => <<r, c>> \notin done
          BY <1>0, <1>1, <5>1, Ordered
        <5> QED BY <1>1, <1>3, <4>1, <5>2
      <4>3. ~(r < i)
        <5>1. r < i => i \in r + 1..Len(ops)
          BY <1>3
        <5> QED BY <2>1, <3>1, <4>1, <5>1
      <4> QED BY <1>3, <4>2, <4>3
    <3> QED BY <3>1, <3>2, <3>3, <3>4, <3>5
  <2>2. CASE ~(WritesGhost(t, f) /\ d = c)
    <3>1. ghost'[f][d][o] = ghost[f][d][o]
      BY <1>6, <2>2
    <3>2. \A r \in DOMAIN ops : Refresh(r, f) => (<<r, d>> \in done' <=> <<r, d>> \in done)
      BY <1>1, <1>4, <2>2
    <3>3. \A r \in DOMAIN ops : LastRefresh(r, f, d)' => LastRefresh(r, f, d)
      <4>1. \A r \in DOMAIN ops : \A s \in r + 1..Len(ops) : s \in DOMAIN ops
        BY <1>3
      <4> QED BY <1>1, <1>2, <3>2, <4>1 DEF LastRefresh
    <3> QED BY <1>0, <3>1, <3>2, <3>3 DEF GhostOK
  <2> QED BY <2>1, <2>2
<1> QED
  BY <1>2, <1>7, <1>8, <1>9 DEF IInv

-----------------------------------------------------------------------------
(* The theorems *)

LEMMA InvInit == Init => IInv
<1> SUFFICES ASSUME Init PROVE IInv
  OBVIOUS
<1>1. Len(ops) = 0 /\ DOMAIN ops = {} /\ ops \in Seq(CopyOperations \cup RunOperations)
  BY DEF Init
<1>2. TypeOK
  <2>1. ghost = [f \in Fields |-> [c \in Colors |-> [o \in GhostOwners[f][c] |-> 0]]]
    BY DEF Init
  <2>2. ghost = [f \in Fields |-> [c \in Colors |-> [o \in GhostOwners[f][c] |-> ghost[f][c][o]]]]
    BY <2>1
  <2> QED BY <1>1, <2>2, TasksAssumption DEF Init, TypeOK
<1>3. OpsOK /\ CopiesOK /\ ReadsOK /\ DoneInOrder
  BY <1>1 DEF Init, OpsOK, CopiesOK, ReadsOK, DoneInOrder
<1>4. FlagsOK
  <2>1. \A f : ~Stale(f, Len(ops) + 1)
    BY <1>1 DEF Stale
  <2> QED BY <2>1 DEF FlagsOK, Init
<1>5. SharedOK /\ GhostOK
  BY <1>1 DEF Init, SharedOK, GhostOK
<1> QED
  BY <1>2, <1>3, <1>4, <1>5 DEF IInv

LEMMA InvNext == IInv /\ [Next]_vars => IInv'
<1> SUFFICES ASSUME IInv, [Next]_vars PROVE IInv'
  OBVIOUS
<1>1. CASE Issue
  BY <1>1, IssueFlags, IssueOrder DEF IInv
<1>2. CASE \E i \in DOMAIN ops, c \in Colors : Copy(i, c) \/ Run(i, c)
  BY <1>2, CopyStep, RunStep
<1>3. CASE UNCHANGED vars
  <2>1. /\ prog' = prog /\ issued' = issued /\ ghostIsReadable' = ghostIsReadable
        /\ ops' = ops /\ done' = done /\ shared' = shared /\ ghost' = ghost
    BY <1>3 DEF vars, data
  <2>2. TypeOK' /\ OpsOK' /\ FlagsOK' /\ CopiesOK' /\ ReadsOK' /\ SharedOK'
    BY <2>1 DEF IInv, TypeOK, OpsOK, FlagsOK, CopiesOK, ReadsOK, SharedOK, Stale, Writer, Refresh
  <2>3. DoneInOrder'
    BY <2>1 DEF IInv, DoneInOrder, Interfere, Requirements
  <2>4. GhostOK'
    BY <2>1 DEF IInv, GhostOK, LastRefresh, SeenFrom, Refresh
  <2> QED BY <2>2, <2>3, <2>4 DEF IInv
<1> QED
  BY <1>1, <1>2, <1>3 DEF Next, Finished

LEMMA InductiveInvariant == Spec => []IInv
  BY InvInit, InvNext, PTL DEF Spec

\* Whatever order Legion runs the points in, task_prolog has copied what a task
\* reads: its ghosts hold what their owners' tasks before it left.
THEOREM ReadsAreCoherent == Spec => []GhostCoherent
<1>1. IInv => GhostCoherent
  <2> SUFFICES ASSUME IInv, NEW i \in DOMAIN ops, NEW c \in Colors,
                      ops[i].kind = "run", Ready(i, c), NEW f \in Fields
               PROVE  /\ ReadsGhost(prog[ops[i].task], f) =>
                             \A o \in GhostOwners[f][c] :
                                IsLatest(prog, ghost[f][c][o], f, ops[i].task)
                      /\ (\E a \in DOMAIN prog[ops[i].task] : prog[ops[i].task][a].field = f) =>
                             IsLatest(prog, shared[f][c], f, ops[i].task)
    BY DEF GhostCoherent
  <2>1. ASSUME NEW a \in DOMAIN prog[ops[i].task], prog[ops[i].task][a].field = f
        PROVE  IsLatest(prog, shared[f][c], f, ops[i].task)
    <3>1. \E writes \in BOOLEAN : Requirement(f, "shared", c, writes) \in Requirements(ops[i], c)
      BY <2>1, RunNames DEF Writing
    <3> QED BY <3>1, SharedIsLatest
  <2> QED BY <2>1, GhostIsLatest
<1> QED
  BY <1>1, InductiveInvariant, PTL

\* ghost_is_readable says of the ghosts of a field what the points of what was
\* issued so far are going to leave: no more and no less.
THEOREM FlagsTellTheTruth == Spec => []FlagsAreTrue
<1>1. IInv => FlagsAreTrue
  <2> SUFFICES ASSUME IInv, done = (DOMAIN ops) \X Colors,
                      NEW f \in Fields, NEW c \in Colors, NEW o \in GhostOwners[f][c]
               PROVE  ghostIsReadable[f] <=> ghost[f][c][o] = shared[f][o]
    BY DEF FlagsAreTrue
  <2> DEFINE n == Len(ops)
  <2>0. TypeOK /\ OpsOK /\ FlagsOK /\ SharedOK /\ GhostOK
    BY DEF IInv
  <2>1. /\ n \in Nat /\ DOMAIN ops = 1..n /\ issued \in Nat /\ o \in Colors
        /\ \A j \in DOMAIN ops : ops[j].task \in 1..issued
    BY <2>0, TopologyAssumption DEF TypeOK, OpsOK
  <2>2. Place(n + 1, issued + 1)
    BY <2>0, Places
  <2>3. IsLatest(prog, shared[f][o], f, issued + 1)
    <3>1. /\ shared[f][o] \in 0..issued
          /\ shared[f][o] # 0 => WritesShared(prog[shared[f][o]], f)
      BY <2>0, <2>1 DEF SharedOK
    <3>2. ASSUME NEW t \in shared[f][o] + 1..issued + 1 - 1, WritesShared(prog[t], f)
          PROVE  FALSE
      <4>1. t \in 1..issued /\ ~(t <= shared[f][o])
        BY <2>1, <3>1
      <4>2. PICK j \in DOMAIN ops : ops[j].kind = "run" /\ ops[j].task = t
        BY <2>0, <4>1 DEF OpsOK
      <4>3. Writer(j, f) /\ <<j, o>> \in done
        BY <2>1, <3>2, <4>2 DEF Writer
      <4> QED BY <2>0, <2>1, <4>1, <4>2, <4>3 DEF SharedOK
    <3> QED BY <2>1, <3>1, <3>2 DEF IsLatest
  <2>4. ghostIsReadable[f] <=> ~Stale(f, n + 1)
    BY <2>0 DEF FlagsOK
  <2>5. CASE \A r \in 1..n : ~Refresh(r, f)
    <3>1. ghost[f][c][o] = 0
      BY <2>0, <2>1, <2>5 DEF GhostOK
    <3>2. ~Stale(f, n + 1) => IsLatest(prog, 0, f, issued + 1)
      <4>1. \A r \in 1..n + 1 - 1 : ~Refresh(r, f)
        BY <2>1, <2>5
      <4> QED BY <2>0, <2>2, <4>1, UnwrittenIsLatest
    <3>3. Stale(f, n + 1) => ~IsLatest(prog, 0, f, issued + 1)
      BY <2>0, <2>2, StaleIsNotLatest
    <3> QED BY <2>1, <2>3, <2>4, <3>1, <3>2, <3>3, LatestIsOne
  <2>6. CASE \E r \in 1..n : Refresh(r, f)
    <3> DEFINE S == {r \in 1..n : Refresh(r, f)}
    <3>1. \E r \in S : \A s \in S : s <= r
      <4>1. S \subseteq 1..n /\ S # {}
        BY <2>6
      <4> HIDE DEF S
      <4> QED BY <2>1, <4>1, GreatestExists
    <3>2. PICK r \in S : \A s \in S : s <= r
      BY <3>1
    <3>3. r \in DOMAIN ops /\ r < n + 1 /\ Refresh(r, f) /\ <<r, c>> \in done
      BY <2>1, <3>2
    <3>4. \A s \in r + 1..n : ~Refresh(s, f)
      BY <2>1, <3>2
    <3>5. IsLatest(prog, ghost[f][c][o], f, SeenFrom(r))
      BY <2>0, <3>3, <3>4 DEF GhostOK, LastRefresh
    <3>6. ~Stale(f, n + 1) => IsLatest(prog, ghost[f][c][o], f, issued + 1)
      <4>1. \A s \in r + 1..n + 1 - 1 : ~Refresh(s, f)
        BY <2>1, <3>4
      <4> QED BY <2>0, <2>2, <3>3, <3>5, <4>1, FreshIsLatest
    <3>7. Stale(f, n + 1) => ~IsLatest(prog, ghost[f][c][o], f, issued + 1)
      BY <2>0, <2>2, <3>3, <3>5, StaleIsNotLatest
    <3> QED BY <2>1, <2>3, <2>4, <3>6, <3>7, LatestIsOne
  <2> QED BY <2>5, <2>6
<1> QED
  BY <1>1, InductiveInvariant, PTL

\* The prolog issues no copy of ghosts that are up to date.
THEOREM NoNeedlessCopies == Spec => []CopiesAreNeeded
<1>1. IInv => CopiesAreNeeded
  <2> SUFFICES ASSUME IInv, NEW j \in DOMAIN ops, ops[j].kind = "copy"
               PROVE  \E w \in 1..j - 1 :
                         /\ ops[w].kind = "run"
                         /\ WritesShared(prog[ops[w].task], ops[j].field)
                         /\ \A i \in w + 1..j - 1 :
                               ~(ops[i].kind = "copy" /\ ops[i].field = ops[j].field)
    BY DEF CopiesAreNeeded
  <2>1. Stale(ops[j].field, j) /\ j \in Nat
    BY OpFacts DEF IInv, CopiesOK
  <2>2. PICK w \in 1..j - 1 : /\ Writer(w, ops[j].field)
                              /\ \A r \in w..j - 1 : ~Refresh(r, ops[j].field)
    BY <2>1 DEF Stale
  <2>3. \A i \in w + 1..j - 1 : i \in w..j - 1
    BY <2>1
  <2> QED BY <2>2, <2>3 DEF Writer, Refresh
<1> QED
  BY <1>1, InductiveInvariant, PTL
-----------------------------------------------------------------------------
(* LegionHandshake *)

\* The launch that r is to run next.
At(r) == IF r \in points THEN launch + 1 ELSE launch

\* The points of wait_on_mpi and of handoff_to_mpi before launch i.
WaitsBefore(i) == IF i = 1 THEN 0 ELSE (i + 3) \div 4
HandoffsBefore(i) == i \div 4

\* The handoffs to Legion that the MPI thread of r has made.
HandoffsMade(r) ==
    IF pc[r] = "wait" THEN (entered[r] + 1) \div 2 ELSE entered[r] \div 2

\* What the handshake counts, and where an MPI thread can be.
CountsOK(r) ==
    /\ toLegion[r] = HandoffsMade(r) - WaitsBefore(At(r))
    /\ toMpi[r] = HandoffsBefore(At(r)) - entered[r] \div 2
    /\ entered[r] >= 1
    /\ entered[r] % 2 = IF pc[r] \in {"handoff_barrier", "handoff", "wait"} THEN 1 ELSE 0

\* mpi_active_ is set from the launch that sets task k, (i + 1) \div 4 at
\* launch i, to the call of the task.
ActiveOK(r) ==
    mpiActive[r] <=> /\ At(r) % 4 \in {0, 3}
                     /\ At(r) <= 4 * NumMpiTasks
                     /\ entered[r] <= 2 * ((At(r) + 1) \div 4)

\* mpi_task_ is the last one set, and each has been called once, in order.
TaskOK(r) ==
    /\ mpiTask[r] = IF (At(r) + 1) \div 4 <= NumMpiTasks THEN (At(r) + 1) \div 4 ELSE NumMpiTasks
    /\ invoked[r] = FirstTasks((entered[r] - 1) \div 2)

RankOK(r) == CountsOK(r) /\ ActiveOK(r) /\ TaskOK(r)

\* A thread that has left a barrier has seen all others enter it.
BarrierOK ==
    \A r \in Ranks :
        /\ pc[r] \in {"handoff", "wait", "loop", "returned"} =>
               \A s \in Ranks : entered[s] >= entered[r]
        /\ pc[r] = "returned" => entered[r] = 2 * NumMpiTasks + 2

\* There is no launch after the last.
LegionOK == launch > Len(Script) => points = {}

HandshakeInv == HandshakeTypeOK /\ LegionOK /\ BarrierOK /\ \A r \in Ranks : RankOK(r)

-----------------------------------------------------------------------------
(* The script and the two clocks *)

LEMMA ScriptLength ==
    /\ Len(Script) = 4 * NumMpiTasks + 3
    /\ DOMAIN Script = 1..4 * NumMpiTasks + 3
  BY HandshakeAssumption DEF Script

\* Which launches are of which kind.
LEMMA ScriptKinds ==
    ASSUME NEW i \in 1..4 * NumMpiTasks + 3
    PROVE  Script[i] = IF i = 1 \/ i % 4 = 0 THEN "wait_on_mpi"
                       ELSE IF i % 4 = 3 THEN "handoff_to_mpi"
                       ELSE IF i % 4 = 2 /\ i <= 4 * NumMpiTasks THEN "execute"
                       ELSE "unset_call_mpi"
<1>1. CASE i = 1 \/ i = 4 * NumMpiTasks + 2 \/ i = 4 * NumMpiTasks + 3
  BY <1>1, HandshakeAssumption DEF Script
<1>2. CASE i \in 2..4 * NumMpiTasks + 1
  <2> DEFINE j == (i - 2) % 4
  <2>1. j \in 0..3 /\ i % 4 = (j + 2) % 4
    BY <1>2, HandshakeAssumption
  <2>2. Script[i] = <<"execute", "handoff_to_mpi", "wait_on_mpi", "unset_call_mpi">>[j + 1]
    BY <1>2, HandshakeAssumption DEF Script
  <2> HIDE DEF j
  <2>3. CASE j = 0
    BY <1>2, <2>1, <2>2, <2>3, HandshakeAssumption
  <2>4. CASE j = 1
    BY <1>2, <2>1, <2>2, <2>4, HandshakeAssumption
  <2>5. CASE j = 2
    BY <1>2, <2>1, <2>2, <2>5, HandshakeAssumption
  <2>6. CASE j = 3
    BY <1>2, <2>1, <2>2, <2>6, HandshakeAssumption
  <2>7. QED BY <2>1, <2>3, <2>4, <2>5, <2>6
<1>3. QED BY <1>1, <1>2, HandshakeAssumption

\* No process is more than one launch ahead of another.
LEMMA AtRange ==
    ASSUME HandshakeTypeOK, LegionOK, NEW r \in Ranks
    PROVE  /\ At(r) \in 1..4 * NumMpiTasks + 4
           /\ At(r) \in {launch, launch + 1}
           /\ launch \in 1..4 * NumMpiTasks + 4
  BY ScriptLength, HandshakeAssumption DEF HandshakeTypeOK, LegionOK, At

\* The point of process r moves r, and only r, to the next launch.
LEMMA PointStep ==
    ASSUME HandshakeTypeOK, NEW r \in Ranks, NEW kind, Runs(r, kind),
           points' = points \cup {r}, launch' = launch
    PROVE  /\ launch \in 1..4 * NumMpiTasks + 3
           /\ Script[launch] = kind
           /\ At(r) = launch /\ At(r)' = launch + 1
           /\ \A s \in Ranks \ {r} : At(s)' = At(s)
           /\ LegionOK'
  BY ScriptLength, HandshakeAssumption DEF HandshakeTypeOK, Runs, At, LegionOK

\* The MPI threads move no process.
LEMMA MpiStep ==
    ASSUME UNCHANGED legion
    PROVE  /\ \A s \in Ranks : At(s)' = At(s)
           /\ LegionOK => LegionOK'
  BY DEF legion, At, LegionOK

\* A process whose state a step leaves alone.
LEMMA OthersKeep ==
    ASSUME NEW s \in Ranks, RankOK(s), At(s)' = At(s),
           pc'[s] = pc[s], entered'[s] = entered[s],
           toLegion'[s] = toLegion[s], toMpi'[s] = toMpi[s],
           mpiActive'[s] = mpiActive[s], mpiTask'[s] = mpiTask[s],
           invoked'[s] = invoked[s]
    PROVE  RankOK(s)'
  BY DEF RankOK, CountsOK, ActiveOK, TaskOK, HandoffsMade

\* What the two counts say of an MPI thread that has control, or has lost it:
\* the points that hand over are the only ones where the clocks can meet.
LEMMA Clocks ==
    ASSUME HandshakeTypeOK, LegionOK, NEW r \in Ranks, CountsOK(r)
    PROVE  /\ entered[r] \div 2 <= HandoffsBefore(At(r))
           /\ HandoffsBefore(At(r)) <= WaitsBefore(At(r))
           /\ WaitsBefore(At(r)) <= HandoffsMade(r)
           /\ pc[r] # "wait" => At(r) = 1 \/ (At(r) % 4 = 0 /\ entered[r] \div 2 = At(r) \div 4)
           /\ pc[r] = "wait" => entered[r] = 2 * (entered[r] \div 2) + 1
<1>1. /\ At(r) \in Nat \ {0} /\ entered[r] \in Nat
      /\ toLegion[r] \in 0..1 /\ toMpi[r] \in 0..1
  BY AtRange DEF HandshakeTypeOK
<1> DEFINE a == At(r)
           e == entered[r]
<1>2. /\ e \div 2 <= HandoffsBefore(a)
      /\ WaitsBefore(a) <= HandoffsMade(r)
  <2>1. HandoffsBefore(a) \in Nat /\ WaitsBefore(a) \in Nat /\ HandoffsMade(r) \in Nat
    BY <1>1 DEF HandoffsBefore, WaitsBefore, HandoffsMade
  <2>2. QED BY <1>1, <2>1 DEF CountsOK
<1>3. HandoffsBefore(a) <= WaitsBefore(a)
  BY <1>1 DEF HandoffsBefore, WaitsBefore
<1>4. ASSUME pc[r] # "wait"
      PROVE  a = 1 \/ (a % 4 = 0 /\ e \div 2 = a \div 4)
  <2>1. HandoffsMade(r) = e \div 2
    BY <1>4 DEF HandoffsMade
  <2>2. QED BY <1>1, <1>2, <1>3, <2>1 DEF HandoffsBefore, WaitsBefore
<1>5. ASSUME pc[r] = "wait"
      PROVE  e = 2 * (e \div 2) + 1
  <2>1. e % 2 = 1
    BY <1>5 DEF CountsOK
  <2>2. QED BY <1>1, <2>1
<1>6. QED BY <1>2, <1>3, <1>4, <1>5

-----------------------------------------------------------------------------
(* The inductive invariant: the steps of Legion *)

LEMMA InitHandshakeInv == HandshakeInit => HandshakeInv
<1> SUFFICES ASSUME HandshakeInit PROVE HandshakeInv
  OBVIOUS
<1>1. HandshakeTypeOK
  <2>1. <<>> \in Seq(1..NumMpiTasks)
    OBVIOUS
  <2>2. 0 \in 0..NumMpiTasks
    BY HandshakeAssumption
  <2>3. invoked \in [Ranks -> Seq(1..NumMpiTasks)] /\ mpiTask \in [Ranks -> 0..NumMpiTasks]
    BY <2>1, <2>2 DEF HandshakeInit
  <2>4. QED BY <2>3, ScriptLength, HandshakeAssumption DEF HandshakeInit, HandshakeTypeOK, States
<1>2. LegionOK /\ BarrierOK
  BY DEF HandshakeInit, LegionOK, BarrierOK
<1>3. ASSUME NEW r \in Ranks
      PROVE  RankOK(r)
  <2>1. At(r) = 1 /\ entered[r] = 1
    BY DEF HandshakeInit, At
  <2>2. CountsOK(r)
    BY <2>1 DEF HandshakeInit, CountsOK, HandoffsMade, HandoffsBefore, WaitsBefore
  <2>3. ActiveOK(r)
    BY <2>1 DEF HandshakeInit, ActiveOK
  <2>4. FirstTasks((entered[r] - 1) \div 2) = <<>>
    BY <2>1 DEF FirstTasks
  <2>5. TaskOK(r)
    BY <2>1, <2>4, HandshakeAssumption DEF HandshakeInit, TaskOK
  <2>6. QED BY <2>2, <2>3, <2>5 DEF RankOK
<1>4. QED BY <1>1, <1>2, <1>3 DEF HandshakeInv

\* Legion has waited for a handoff made in launch 4 * k: the MPI thread is
\* past the call of task k.
LEMMA WaitOnMpiStep ==
    ASSUME HandshakeInv, NEW r \in Ranks, WaitOnMpi(r)
    PROVE  HandshakeInv'
<1> DEFINE a == At(r)
           e == entered[r]
<1>1. HandshakeTypeOK /\ LegionOK /\ BarrierOK /\ \A s \in Ranks : RankOK(s)
  BY DEF HandshakeInv
<1>2. /\ launch \in 1..4 * NumMpiTasks + 3 /\ Script[launch] = "wait_on_mpi"
      /\ a = launch /\ a' = launch + 1
      /\ \A s \in Ranks \ {r} : At(s)' = At(s)
      /\ LegionOK'
  BY <1>1, PointStep DEF WaitOnMpi
<1>3. a = 1 \/ a % 4 = 0
  BY <1>2, ScriptKinds
<1>4. /\ toLegion[r] = 1 /\ toLegion'[r] = 0
      /\ e \in Nat /\ e' = e /\ toMpi'[r] = toMpi[r]
      /\ mpiActive'[r] = mpiActive[r] /\ mpiTask'[r] = mpiTask[r]
      /\ invoked'[r] = invoked[r] /\ pc'[r] = pc[r]
  BY <1>1 DEF WaitOnMpi, HandshakeTypeOK
<1>5. HandshakeTypeOK'
  BY <1>1, <1>2 DEF WaitOnMpi, HandshakeTypeOK
<1>6. CountsOK(r)'
  <2>1. HandoffsBefore(a') = HandoffsBefore(a) /\ WaitsBefore(a') = WaitsBefore(a) + 1
    BY <1>2, <1>3 DEF HandoffsBefore, WaitsBefore
  <2>2. HandoffsMade(r)' = HandoffsMade(r) /\ HandoffsMade(r) \in Nat
    BY <1>4 DEF HandoffsMade
  <2>3. WaitsBefore(a) \in Nat
    BY <1>2 DEF WaitsBefore
  <2>4. QED BY <1>1, <1>4, <2>1, <2>2, <2>3 DEF RankOK, CountsOK
<1>7. ActiveOK(r)'
  <2>1. a' % 4 \notin {0, 3}
    BY <1>2, <1>3
  <2>2. ASSUME mpiActive[r]
        PROVE  FALSE
    <3>1. a % 4 = 0 /\ e <= 2 * ((a + 1) \div 4)
      BY <1>1, <1>2, <1>3, <2>2 DEF RankOK, ActiveOK
    <3>2. e <= 2 * (a \div 4)
      BY <1>2, <3>1
    <3>3. WaitsBefore(a) = a \div 4 /\ HandoffsBefore(a) = a \div 4
      BY <1>2, <3>1 DEF WaitsBefore, HandoffsBefore
    <3>4. HandoffsMade(r) = a \div 4 + 1
      <4>1. HandoffsMade(r) \in Nat
        BY <1>4 DEF HandoffsMade
      <4>2. QED BY <1>1, <1>2, <1>4, <3>3, <4>1 DEF RankOK, CountsOK
    <3>5. QED BY <1>2, <1>4, <3>2, <3>4 DEF HandoffsMade
  <2>3. QED BY <1>4, <2>1, <2>2 DEF ActiveOK
<1>8. TaskOK(r)'
  <2>1. (a' + 1) \div 4 = (a + 1) \div 4
    BY <1>2, <1>3
  <2>2. QED BY <1>1, <1>4, <2>1 DEF RankOK, TaskOK
<1>9. \A s \in Ranks \ {r} : RankOK(s)'
  BY <1>1, <1>2, OthersKeep DEF WaitOnMpi, HandshakeTypeOK
<1>10. BarrierOK'
  BY <1>1 DEF WaitOnMpi, BarrierOK
<1>11. QED BY <1>2, <1>5, <1>6, <1>7, <1>8, <1>9, <1>10 DEF HandshakeInv, RankOK

\* The MPI thread has called every earlier task, so that the flag stays set.
LEMMA ExecuteMpiTaskStep ==
    ASSUME HandshakeInv, NEW r \in Ranks, ExecuteMpiTask(r)
    PROVE  HandshakeInv'
<1> DEFINE a == At(r)
           e == entered[r]
<1>1. HandshakeTypeOK /\ LegionOK /\ BarrierOK /\ \A s \in Ranks : RankOK(s)
  BY DEF HandshakeInv
<1>2. /\ launch \in 1..4 * NumMpiTasks + 3 /\ Script[launch] = "execute"
      /\ a = launch /\ a' = launch + 1
      /\ \A s \in Ranks \ {r} : At(s)' = At(s)
      /\ LegionOK'
  BY <1>1, PointStep DEF ExecuteMpiTask
<1>3. a % 4 = 2 /\ a <= 4 * NumMpiTasks
  BY <1>2, ScriptKinds
<1>4. /\ e \in Nat /\ e' = e /\ toLegion'[r] = toLegion[r] /\ toMpi'[r] = toMpi[r]
      /\ mpiActive'[r] = TRUE /\ mpiTask'[r] = TaskOf(a)
      /\ invoked'[r] = invoked[r] /\ pc'[r] = pc[r]
  BY <1>1, <1>2 DEF ExecuteMpiTask, HandshakeTypeOK, shake
<1>5. HandshakeTypeOK'
  <2>1. TaskOf(launch) \in 0..NumMpiTasks
    BY <1>2, <1>3, HandshakeAssumption DEF TaskOf
  <2>2. QED BY <1>1, <1>2, <2>1 DEF ExecuteMpiTask, HandshakeTypeOK, shake
<1>6. CountsOK(r)'
  <2>1. HandoffsBefore(a') = HandoffsBefore(a) /\ WaitsBefore(a') = WaitsBefore(a)
    BY <1>2, <1>3 DEF HandoffsBefore, WaitsBefore
  <2>2. HandoffsMade(r)' = HandoffsMade(r)
    BY <1>4 DEF HandoffsMade
  <2>3. QED BY <1>1, <1>4, <2>1, <2>2 DEF RankOK, CountsOK
<1>7. ActiveOK(r)'
  <2>1. e \div 2 <= a \div 4
    BY <1>1, Clocks DEF RankOK, HandoffsBefore
  <2>2. e <= 2 * ((a' + 1) \div 4)
    BY <1>2, <1>3, <1>4, <2>1
  <2>3. a' % 4 = 3 /\ a' <= 4 * NumMpiTasks
    BY <1>2, <1>3, HandshakeAssumption
  <2>4. QED BY <1>4, <2>2, <2>3 DEF ActiveOK
<1>8. TaskOK(r)'
  <2>1. (a' + 1) \div 4 = TaskOf(a) /\ TaskOf(a) <= NumMpiTasks
    BY <1>2, <1>3, HandshakeAssumption DEF TaskOf
  <2>2. QED BY <1>1, <1>4, <2>1 DEF RankOK, TaskOK
<1>9. \A s \in Ranks \ {r} : RankOK(s)'
  BY <1>1, <1>2, OthersKeep DEF ExecuteMpiTask, HandshakeTypeOK, shake
<1>10. BarrierOK'
  BY <1>1 DEF ExecuteMpiTask, BarrierOK
<1>11. QED BY <1>2, <1>5, <1>6, <1>7, <1>8, <1>9, <1>10 DEF HandshakeInv, RankOK

\* The MPI thread is waiting: there is no handoff that it has not taken.
LEMMA HandoffToMpiStep ==
    ASSUME HandshakeInv, NEW r \in Ranks, HandoffToMpi(r)
    PROVE  HandshakeInv'
<1> DEFINE a == At(r)
           e == entered[r]
<1>1. HandshakeTypeOK /\ LegionOK /\ BarrierOK /\ \A s \in Ranks : RankOK(s)
  BY DEF HandshakeInv
<1>2. /\ launch \in 1..4 * NumMpiTasks + 3 /\ Script[launch] = "handoff_to_mpi"
      /\ a = launch /\ a' = launch + 1
      /\ \A s \in Ranks \ {r} : At(s)' = At(s)
      /\ LegionOK'
  BY <1>1, PointStep DEF HandoffToMpi
<1>3. a % 4 = 3
  BY <1>2, ScriptKinds
<1>4. toMpi[r] = 0
  <2>1. pc[r] = "wait"
    BY <1>1, <1>2, <1>3, Clocks DEF RankOK
  <2>2. CountsOK(r) /\ e \in Nat /\ toMpi[r] \in 0..1
    BY <1>1 DEF RankOK, HandshakeTypeOK
  <2>3. /\ e \div 2 <= HandoffsBefore(a) /\ WaitsBefore(a) <= HandoffsMade(r)
        /\ e = 2 * (e \div 2) + 1
    BY <1>1, <2>1, <2>2, Clocks
  <2>4. /\ HandoffsBefore(a) = a \div 4 /\ WaitsBefore(a) = a \div 4 + 1
        /\ HandoffsMade(r) = e \div 2 + 1
    BY <1>2, <1>3, <2>1, <2>2, <2>3 DEF HandoffsBefore, WaitsBefore, HandoffsMade
  <2>5. e \div 2 = HandoffsBefore(a)
    BY <1>2, <2>2, <2>3, <2>4
  <2>6. QED BY <2>2, <2>5 DEF CountsOK
<1>5. /\ e \in Nat /\ e' = e /\ toLegion'[r] = toLegion[r] /\ toMpi'[r] = 1
      /\ mpiActive'[r] = mpiActive[r] /\ mpiTask'[r] = mpiTask[r]
      /\ invoked'[r] = invoked[r] /\ pc'[r] = pc[r]
  BY <1>1, <1>4 DEF HandoffToMpi, HandshakeTypeOK
<1>6. HandshakeTypeOK'
  BY <1>1, <1>2, <1>4 DEF HandoffToMpi, HandshakeTypeOK
<1>7. CountsOK(r)'
  <2>1. /\ HandoffsBefore(a') = HandoffsBefore(a) + 1
        /\ HandoffsBefore(a) \in Nat
        /\ WaitsBefore(a') = WaitsBefore(a)
    BY <1>2, <1>3 DEF HandoffsBefore, WaitsBefore
  <2>2. HandoffsMade(r)' = HandoffsMade(r)
    BY <1>5 DEF HandoffsMade
  <2>3. QED BY <1>1, <1>4, <1>5, <2>1, <2>2 DEF RankOK, CountsOK
<1>8. ActiveOK(r)'
  <2>1. /\ a % 4 = 3 /\ a' % 4 = 0 /\ (a' + 1) \div 4 = (a + 1) \div 4
        /\ a <= 4 * NumMpiTasks <=> a' <= 4 * NumMpiTasks
    BY <1>2, <1>3, HandshakeAssumption
  <2>2. QED BY <1>1, <1>5, <2>1 DEF RankOK, ActiveOK
<1>9. TaskOK(r)'
  <2>1. (a' + 1) \div 4 = (a + 1) \div 4
    BY <1>2, <1>3
  <2>2. QED BY <1>1, <1>5, <2>1 DEF RankOK, TaskOK
<1>10. \A s \in Ranks \ {r} : RankOK(s)'
  BY <1>1, <1>2, OthersKeep DEF HandoffToMpi, HandshakeTypeOK
<1>11. BarrierOK'
  BY <1>1 DEF HandoffToMpi, BarrierOK
<1>12. QED BY <1>2, <1>6, <1>7, <1>8, <1>9, <1>10, <1>11 DEF HandshakeInv, RankOK

\* The flag is FALSE already.
LEMMA UnsetCallMpiStep ==
    ASSUME HandshakeInv, NEW r \in Ranks, UnsetCallMpi(r)
    PROVE  HandshakeInv'
<1> DEFINE a == At(r)
<1>1. HandshakeTypeOK /\ LegionOK /\ BarrierOK /\ \A s \in Ranks : RankOK(s)
  BY DEF HandshakeInv
<1>2. /\ launch \in 1..4 * NumMpiTasks + 3 /\ Script[launch] = "unset_call_mpi"
      /\ a = launch /\ a' = launch + 1
      /\ \A s \in Ranks \ {r} : At(s)' = At(s)
      /\ LegionOK'
  BY <1>1, PointStep DEF UnsetCallMpi
<1>3. a > 1 /\ (a % 4 = 1 \/ a = 4 * NumMpiTasks + 2)
  BY <1>2, ScriptKinds, HandshakeAssumption
<1>4. /\ entered'[r] = entered[r]
      /\ toLegion'[r] = toLegion[r] /\ toMpi'[r] = toMpi[r]
      /\ mpiActive'[r] = FALSE /\ mpiTask'[r] = mpiTask[r]
      /\ invoked'[r] = invoked[r] /\ pc'[r] = pc[r]
  BY <1>1 DEF UnsetCallMpi, HandshakeTypeOK, shake
<1>5. HandshakeTypeOK'
  BY <1>1, <1>2 DEF UnsetCallMpi, HandshakeTypeOK, shake
<1>6. CountsOK(r)'
  <2>1. HandoffsBefore(a') = HandoffsBefore(a) /\ WaitsBefore(a') = WaitsBefore(a)
    BY <1>2, <1>3, HandshakeAssumption DEF HandoffsBefore, WaitsBefore
  <2>2. HandoffsMade(r)' = HandoffsMade(r)
    BY <1>4 DEF HandoffsMade
  <2>3. QED BY <1>1, <1>4, <2>1, <2>2 DEF RankOK, CountsOK
<1>7. ActiveOK(r)'
  <2>1. ~(a' % 4 \in {0, 3} /\ a' <= 4 * NumMpiTasks)
    BY <1>2, <1>3, HandshakeAssumption
  <2>2. QED BY <1>4, <2>1 DEF ActiveOK
<1>8. TaskOK(r)'
  <2>1. \/ (a' + 1) \div 4 = (a + 1) \div 4
        \/ (a + 1) \div 4 = NumMpiTasks /\ (a' + 1) \div 4 = NumMpiTasks + 1
    BY <1>2, <1>3, HandshakeAssumption
  <2>2. QED BY <1>1, <1>4, <2>1, HandshakeAssumption DEF RankOK, TaskOK
<1>9. \A s \in Ranks \ {r} : RankOK(s)'
  BY <1>1, <1>2, OthersKeep DEF UnsetCallMpi, HandshakeTypeOK, shake
<1>10. BarrierOK'
  BY <1>1 DEF UnsetCallMpi, BarrierOK
<1>11. QED BY <1>2, <1>5, <1>6, <1>7, <1>8, <1>9, <1>10 DEF HandshakeInv, RankOK

\* When all points have run, every process is at the next launch already.
LEMMA WaitAllResultsStep ==
    ASSUME HandshakeInv, WaitAllResults
    PROVE  HandshakeInv'
<1>1. HandshakeTypeOK /\ LegionOK /\ BarrierOK /\ \A s \in Ranks : RankOK(s)
  BY DEF HandshakeInv
<1>2. launch \in 1..4 * NumMpiTasks + 3
  BY <1>1, ScriptLength, HandshakeAssumption DEF WaitAllResults, HandshakeTypeOK, LegionOK
<1>3. \A s \in Ranks : At(s)' = At(s)
  BY DEF WaitAllResults, At
<1>4. HandshakeTypeOK'
  <2>1. launch' \in 1..Len(Script) + 1 /\ points' \in SUBSET Ranks
    BY <1>2, ScriptLength, HandshakeAssumption DEF WaitAllResults
  <2>2. QED BY <1>1, <2>1 DEF WaitAllResults, HandshakeTypeOK, shake
<1>5. LegionOK'
  BY DEF WaitAllResults, LegionOK
<1>6. \A s \in Ranks : RankOK(s)'
  BY <1>1, <1>3, OthersKeep DEF WaitAllResults, shake
<1>7. BarrierOK'
  BY <1>1 DEF WaitAllResults, BarrierOK
<1>8. QED BY <1>4, <1>5, <1>6, <1>7 DEF HandshakeInv

-----------------------------------------------------------------------------
(* The inductive invariant: the steps of the MPI threads *)

\* A thread leaves a barrier when all have entered it.
LEMMA LeaveStep ==
    ASSUME HandshakeInv, NEW r \in Ranks, LeaveHandoffBarrier(r) \/ LeaveWaitBarrier(r)
    PROVE  HandshakeInv'
<1>1. HandshakeTypeOK /\ LegionOK /\ BarrierOK /\ \A s \in Ranks : RankOK(s)
  BY DEF HandshakeInv
<1>2. /\ UNCHANGED <<legion, entered, shake, mpiActive, mpiTask, invoked>>
      /\ \A s \in Ranks \ {r} : pc'[s] = pc[s]
      /\ \/ pc[r] = "handoff_barrier" /\ pc'[r] = "handoff"
         \/ pc[r] = "wait_barrier" /\ pc'[r] = "loop"
      /\ \A s \in Ranks : entered[s] >= entered[r]
  BY <1>1 DEF LeaveHandoffBarrier, LeaveWaitBarrier, Leave, HandshakeTypeOK
<1>3. /\ \A s \in Ranks : At(s)' = At(s)
      /\ LegionOK'
  BY <1>1, <1>2, MpiStep
<1>4. HandshakeTypeOK'
  <2>1. pc' \in [Ranks -> States]
    BY <1>1 DEF LeaveHandoffBarrier, LeaveWaitBarrier, Leave, HandshakeTypeOK, States
  <2>2. QED BY <1>1, <1>2, <2>1 DEF HandshakeTypeOK, legion, shake
<1>5. RankOK(r)'
  <2>1. HandoffsMade(r)' = HandoffsMade(r)
    BY <1>2 DEF HandoffsMade
  <2>2. CountsOK(r)'
    BY <1>1, <1>2, <1>3, <2>1 DEF RankOK, CountsOK, shake
  <2>3. ActiveOK(r)' /\ TaskOK(r)'
    BY <1>1, <1>2, <1>3 DEF RankOK, ActiveOK, TaskOK
  <2>4. QED BY <2>2, <2>3 DEF RankOK
<1>6. \A s \in Ranks \ {r} : RankOK(s)'
  BY <1>1, <1>2, <1>3, OthersKeep DEF shake
<1>7. BarrierOK'
  BY <1>1, <1>2 DEF BarrierOK
<1>8. QED BY <1>3, <1>4, <1>5, <1>6, <1>7 DEF HandshakeInv

\* Legion has taken every earlier handoff.
LEMMA HandoffToLegionStep ==
    ASSUME HandshakeInv, NEW r \in Ranks, HandoffToLegion(r)
    PROVE  HandshakeInv'
<1> DEFINE a == At(r)
           e == entered[r]
<1>1. HandshakeTypeOK /\ LegionOK /\ BarrierOK /\ \A s \in Ranks : RankOK(s)
  BY DEF HandshakeInv
<1>2. /\ CountsOK(r) /\ e \in Nat /\ toLegion[r] \in 0..1
      /\ pc[r] = "handoff" /\ e % 2 = 1
  BY <1>1 DEF HandoffToLegion, RankOK, CountsOK, HandshakeTypeOK
<1>3. toLegion[r] = 0
  <2>1. HandoffsMade(r) = e \div 2 /\ HandoffsMade(r) \in Nat
    BY <1>2 DEF HandoffsMade
  <2>2. HandoffsMade(r) <= WaitsBefore(a) /\ WaitsBefore(a) \in Nat
    <3>1. /\ e \div 2 <= HandoffsBefore(a) /\ HandoffsBefore(a) <= WaitsBefore(a)
          /\ a \in Nat
      BY <1>1, <1>2, Clocks, AtRange
    <3>2. QED BY <2>1, <3>1 DEF WaitsBefore, HandoffsBefore
  <2>3. QED BY <1>2, <2>1, <2>2 DEF CountsOK
<1>4. /\ UNCHANGED <<legion, entered, toMpi, mpiActive, mpiTask, invoked>>
      /\ \A s \in Ranks \ {r} : pc'[s] = pc[s] /\ toLegion'[s] = toLegion[s]
      /\ toLegion'[r] = 1 /\ pc'[r] = "wait"
  BY <1>1, <1>3 DEF HandoffToLegion, HandshakeTypeOK
<1>5. /\ \A s \in Ranks : At(s)' = At(s)
      /\ LegionOK'
  BY <1>1, <1>4, MpiStep
<1>6. HandshakeTypeOK'
  <2>1. pc' \in [Ranks -> States] /\ toLegion' \in [Ranks -> 0..1]
    BY <1>1, <1>3 DEF HandoffToLegion, HandshakeTypeOK, States
  <2>2. QED BY <1>1, <1>4, <2>1 DEF HandshakeTypeOK, legion
<1>7. RankOK(r)'
  <2>1. HandoffsMade(r)' = HandoffsMade(r) + 1 /\ HandoffsMade(r) \in Nat
    BY <1>2, <1>4 DEF HandoffsMade
  <2>2. WaitsBefore(a) \in Nat
    BY <1>1, AtRange DEF WaitsBefore
  <2>3. CountsOK(r)'
    BY <1>2, <1>3, <1>4, <1>5, <2>1, <2>2 DEF CountsOK
  <2>4. ActiveOK(r)' /\ TaskOK(r)'
    BY <1>1, <1>4, <1>5 DEF RankOK, ActiveOK, TaskOK
  <2>5. QED BY <2>3, <2>4 DEF RankOK
<1>8. \A s \in Ranks \ {r} : RankOK(s)'
  BY <1>1, <1>4, <1>5, OthersKeep
<1>9. BarrierOK'
  BY <1>1, <1>2, <1>4 DEF BarrierOK
<1>10. QED BY <1>5, <1>6, <1>7, <1>8, <1>9 DEF HandshakeInv

LEMMA WaitOnLegionStep ==
    ASSUME HandshakeInv, NEW r \in Ranks, WaitOnLegion(r)
    PROVE  HandshakeInv'
<1> DEFINE a == At(r)
           e == entered[r]
<1>1. HandshakeTypeOK /\ LegionOK /\ BarrierOK /\ \A s \in Ranks : RankOK(s)
  BY DEF HandshakeInv
<1>2. /\ CountsOK(r) /\ e \in Nat /\ toMpi[r] = 1
      /\ pc[r] = "wait" /\ e % 2 = 1
  BY <1>1 DEF WaitOnLegion, RankOK, CountsOK, HandshakeTypeOK
<1>3. /\ UNCHANGED <<legion, toLegion, mpiActive, mpiTask, invoked>>
      /\ \A s \in Ranks \ {r} :
             pc'[s] = pc[s] /\ toMpi'[s] = toMpi[s] /\ entered'[s] = entered[s]
      /\ toMpi'[r] = 0 /\ e' = e + 1 /\ pc'[r] = "wait_barrier"
  BY <1>1, <1>2 DEF WaitOnLegion, HandshakeTypeOK
<1>4. /\ \A s \in Ranks : At(s)' = At(s)
      /\ LegionOK'
  BY <1>1, <1>3, MpiStep
<1>5. HandshakeTypeOK'
  <2>1. /\ pc' \in [Ranks -> States] /\ toMpi' \in [Ranks -> 0..1]
        /\ entered' \in [Ranks -> Nat]
    BY <1>1, <1>2 DEF WaitOnLegion, HandshakeTypeOK, States
  <2>2. QED BY <1>1, <1>3, <2>1 DEF HandshakeTypeOK, legion
<1>6. e' \div 2 = e \div 2 + 1 /\ e' % 2 = 0 /\ (e' - 1) \div 2 = (e - 1) \div 2
  BY <1>2, <1>3
<1>7. RankOK(r)'
  <2>1. HandoffsMade(r)' = HandoffsMade(r)
    BY <1>2, <1>3 DEF HandoffsMade
  <2>2. HandoffsBefore(a) \in Nat
    BY <1>1, AtRange DEF HandoffsBefore
  <2>3. CountsOK(r)'
    <3>1. e \div 2 \in Nat /\ HandoffsBefore(a) = e \div 2 + 1
      BY <1>2, <2>2 DEF CountsOK
    <3>2. toMpi'[r] = HandoffsBefore(a') - e' \div 2
      BY <1>3, <1>4, <1>6, <3>1
    <3>3. QED BY <1>2, <1>3, <1>4, <1>6, <2>1, <3>2 DEF CountsOK
  <2>4. ActiveOK(r)'
    <3>1. a \in Nat
      BY <1>1, AtRange
    <3>2. e <= 2 * ((a + 1) \div 4) <=> e' <= 2 * ((a + 1) \div 4)
      BY <1>2, <1>3, <3>1
    <3>3. QED BY <1>1, <1>3, <1>4, <3>2 DEF RankOK, ActiveOK
  <2>5. TaskOK(r)'
    BY <1>1, <1>3, <1>4, <1>6 DEF RankOK, TaskOK
  <2>6. QED BY <2>3, <2>4, <2>5 DEF RankOK
<1>8. \A s \in Ranks \ {r} : RankOK(s)'
  BY <1>1, <1>3, <1>4, OthersKeep
<1>9. BarrierOK'
  <2>1. \A s \in Ranks : entered'[s] >= entered[s] /\ entered[s] \in Nat
    BY <1>1, <1>2, <1>3 DEF HandshakeTypeOK
  <2>2. \A s \in Ranks : entered'[s] \in Nat
    BY <1>5 DEF HandshakeTypeOK
  <2>3. QED BY <1>1, <1>3, <2>1, <2>2 DEF BarrierOK
<1>10. QED BY <1>4, <1>5, <1>7, <1>8, <1>9 DEF HandshakeInv

\* A thread that is about to call its function or to return, and what the
\* counts say of it.
LEMMA LoopFacts ==
    ASSUME HandshakeInv, NEW r \in Ranks, pc[r] = "loop"
    PROVE  /\ At(r) % 4 = 0 /\ At(r) \in 4..4 * NumMpiTasks + 4
           /\ entered[r] = 2 * (At(r) \div 4)
           /\ mpiActive[r] <=> At(r) <= 4 * NumMpiTasks
           /\ mpiActive[r] => mpiTask[r] = At(r) \div 4
<1> DEFINE a == At(r)
           e == entered[r]
<1>1. /\ HandshakeTypeOK /\ LegionOK /\ CountsOK(r) /\ ActiveOK(r) /\ TaskOK(r)
      /\ e \in Nat
  BY DEF HandshakeInv, RankOK, HandshakeTypeOK
<1>2. a \in 1..4 * NumMpiTasks + 4
  BY <1>1, AtRange
<1>3. e % 2 = 0 /\ e >= 1
  BY <1>1 DEF CountsOK
<1>4. e \div 2 <= a \div 4
  BY <1>1, Clocks DEF HandoffsBefore
<1>5. a % 4 = 0 /\ e \div 2 = a \div 4
  <2>1. a = 1 \/ (a % 4 = 0 /\ e \div 2 = a \div 4)
    BY <1>1, Clocks
  <2>2. a # 1
    BY <1>1, <1>3, <1>4
  <2>3. QED BY <2>1, <2>2
<1>6. e = 2 * (a \div 4) /\ a >= 4 /\ (a + 1) \div 4 = a \div 4
  BY <1>1, <1>2, <1>3, <1>5
<1>7. mpiActive[r] <=> a <= 4 * NumMpiTasks
  BY <1>1, <1>2, <1>5, <1>6 DEF ActiveOK
<1>8. a <= 4 * NumMpiTasks => mpiTask[r] = a \div 4
  BY <1>1, <1>2, <1>6, HandshakeAssumption DEF TaskOK
<1>9. QED BY <1>2, <1>5, <1>6, <1>7, <1>8, HandshakeAssumption

LEMMA TasksAppend ==
    ASSUME NEW k \in Nat \ {0}
    PROVE  Append(FirstTasks(k - 1), k) = FirstTasks(k)
<1>1. /\ FirstTasks(k - 1) \in Seq(Nat) /\ Len(FirstTasks(k - 1)) = k - 1
      /\ DOMAIN FirstTasks(k) = 1..k
  BY DEF FirstTasks
<1>2. Append(FirstTasks(k - 1), k) = [i \in 1..k |-> IF i = k THEN k ELSE FirstTasks(k - 1)[i]]
  BY <1>1
<1>3. \A i \in 1..k : (IF i = k THEN k ELSE FirstTasks(k - 1)[i]) = i
  BY DEF FirstTasks
<1>4. QED BY <1>2, <1>3 DEF FirstTasks

LEMMA InvokeMpiTaskStep ==
    ASSUME HandshakeInv, NEW r \in Ranks, InvokeMpiTask(r)
    PROVE  HandshakeInv'
<1> DEFINE a == At(r)
           e == entered[r]
           k == At(r) \div 4
<1>1. HandshakeTypeOK /\ LegionOK /\ BarrierOK /\ \A s \in Ranks : RankOK(s)
  BY DEF HandshakeInv
<1>2. /\ CountsOK(r) /\ ActiveOK(r) /\ TaskOK(r)
      /\ pc[r] = "loop" /\ mpiActive[r]
  BY <1>1 DEF InvokeMpiTask, RankOK
<1>3. /\ a \in 4..4 * NumMpiTasks /\ a % 4 = 0 /\ e = 2 * k /\ mpiTask[r] = k
      /\ k \in 1..NumMpiTasks
  <2>1. /\ a % 4 = 0 /\ a \in 4..4 * NumMpiTasks + 4 /\ a <= 4 * NumMpiTasks
        /\ e = 2 * k /\ mpiTask[r] = k
    BY <1>2, LoopFacts
  <2>2. QED BY <2>1, HandshakeAssumption
<1>4. /\ UNCHANGED <<legion, toLegion, toMpi, mpiTask>>
      /\ \A s \in Ranks \ {r} : /\ pc'[s] = pc[s] /\ entered'[s] = entered[s]
                                /\ mpiActive'[s] = mpiActive[s]
                                /\ invoked'[s] = invoked[s]
      /\ mpiActive'[r] = FALSE /\ e' = e + 1 /\ pc'[r] = "handoff_barrier"
      /\ invoked'[r] = Append(invoked[r], k)
  BY <1>1, <1>3 DEF InvokeMpiTask, HandshakeTypeOK, shake
<1>5. /\ \A s \in Ranks : At(s)' = At(s)
      /\ LegionOK'
  BY <1>1, <1>4, MpiStep
<1>6. HandshakeTypeOK'
  <2>1. /\ pc' \in [Ranks -> States] /\ entered' \in [Ranks -> Nat]
        /\ mpiActive' \in [Ranks -> BOOLEAN]
    BY <1>1 DEF InvokeMpiTask, HandshakeTypeOK, States
  <2>2. invoked' \in [Ranks -> Seq(1..NumMpiTasks)]
    BY <1>1, <1>3 DEF InvokeMpiTask, HandshakeTypeOK
  <2>3. QED BY <1>1, <1>4, <2>1, <2>2 DEF HandshakeTypeOK, legion
<1>7. /\ e' \div 2 = e \div 2 /\ (e' + 1) \div 2 = k + 1 /\ e' % 2 = 1
      /\ (e - 1) \div 2 = k - 1 /\ (e' - 1) \div 2 = k
  <2>1. k \in Nat /\ e = 2 * k /\ e' = e + 1
    BY <1>3, <1>4
  <2> HIDE DEF k
  <2>2. QED BY <2>1
<1>8. RankOK(r)'
  <2>1. HandoffsMade(r)' = HandoffsMade(r)
    BY <1>2, <1>4, <1>7 DEF HandoffsMade
  <2>2. CountsOK(r)'
    BY <1>2, <1>3, <1>4, <1>5, <1>7, <2>1 DEF CountsOK
  <2>3. ActiveOK(r)'
    <3>1. ~(e' <= 2 * ((a + 1) \div 4))
      BY <1>3, <1>4
    <3>2. QED BY <1>4, <1>5, <3>1 DEF ActiveOK
  <2>4. TaskOK(r)'
    <3>1. invoked[r] = FirstTasks(k - 1)
      BY <1>2, <1>7 DEF TaskOK
    <3>2. Append(FirstTasks(k - 1), k) = FirstTasks(k)
      <4>1. k \in Nat \ {0}
        BY <1>3, HandshakeAssumption
      <4> HIDE DEF k
      <4>2. QED BY <4>1, TasksAppend
    <3>3. QED BY <1>2, <1>4, <1>5, <1>7, <3>1, <3>2 DEF TaskOK
  <2>5. QED BY <2>2, <2>3, <2>4 DEF RankOK
<1>9. \A s \in Ranks \ {r} : RankOK(s)'
  BY <1>1, <1>4, <1>5, OthersKeep
<1>10. BarrierOK'
  <2>1. \A s \in Ranks : entered'[s] >= entered[s] /\ entered[s] \in Nat
    <3>1. \A s \in Ranks : entered[s] \in Nat
      BY <1>1 DEF HandshakeTypeOK
    <3>2. entered'[r] >= entered[r]
      BY <1>4, <3>1
    <3>3. QED BY <1>4, <3>1, <3>2
  <2>2. \A s \in Ranks : entered'[s] \in Nat
    BY <1>6 DEF HandshakeTypeOK
  <2>3. QED BY <1>1, <1>4, <2>1, <2>2 DEF BarrierOK
<1>11. QED BY <1>5, <1>6, <1>8, <1>9, <1>10 DEF HandshakeInv

\* A thread returns after the last handoff only.
LEMMA ReturnStep ==
    ASSUME HandshakeInv, NEW r \in Ranks, Return(r)
    PROVE  HandshakeInv'
<1>1. HandshakeTypeOK /\ LegionOK /\ BarrierOK /\ \A s \in Ranks : RankOK(s)
  BY DEF HandshakeInv
<1>2. pc[r] = "loop" /\ entered[r] = 2 * NumMpiTasks + 2
  <2>1. /\ pc[r] = "loop" /\ At(r) > 4 * NumMpiTasks
        /\ At(r) % 4 = 0 /\ At(r) \in 4..4 * NumMpiTasks + 4
        /\ entered[r] = 2 * (At(r) \div 4)
    BY LoopFacts, HandshakeAssumption DEF Return
  <2>2. QED BY <2>1, HandshakeAssumption
<1>3. /\ UNCHANGED <<legion, entered, shake, mpiActive, mpiTask, invoked>>
      /\ \A s \in Ranks \ {r} : pc'[s] = pc[s]
      /\ pc'[r] = "returned"
  BY <1>1 DEF Return, HandshakeTypeOK
<1>4. /\ \A s \in Ranks : At(s)' = At(s)
      /\ LegionOK'
  BY <1>1, <1>3, MpiStep
<1>5. HandshakeTypeOK'
  <2>1. pc' \in [Ranks -> States]
    BY <1>1 DEF Return, HandshakeTypeOK, States
  <2>2. QED BY <1>1, <1>3, <2>1 DEF HandshakeTypeOK, legion, shake
<1>6. RankOK(r)'
  <2>1. HandoffsMade(r)' = HandoffsMade(r)
    BY <1>2, <1>3 DEF HandoffsMade
  <2>2. CountsOK(r)'
    BY <1>1, <1>2, <1>3, <1>4, <2>1 DEF RankOK, CountsOK, shake
  <2>3. ActiveOK(r)' /\ TaskOK(r)'
    BY <1>1, <1>3, <1>4 DEF RankOK, ActiveOK, TaskOK
  <2>4. QED BY <2>2, <2>3 DEF RankOK
<1>7. \A s \in Ranks \ {r} : RankOK(s)'
  BY <1>1, <1>3, <1>4, OthersKeep DEF shake
<1>8. BarrierOK'
  BY <1>1, <1>2, <1>3 DEF BarrierOK
<1>9. QED BY <1>4, <1>5, <1>6, <1>7, <1>8 DEF HandshakeInv

-----------------------------------------------------------------------------
(* Theorems *)

LEMMA NextHandshakeInv == HandshakeInv /\ [HandshakeNext]_handshakeVars => HandshakeInv'
<1> SUFFICES ASSUME HandshakeInv, [HandshakeNext]_handshakeVars PROVE HandshakeInv'
  OBVIOUS
<1>1. CASE WaitAllResults
  BY <1>1, WaitAllResultsStep
<1>2. ASSUME NEW r \in Ranks, Point(r)
      PROVE  HandshakeInv'
  BY <1>2, WaitOnMpiStep, ExecuteMpiTaskStep, HandoffToMpiStep, UnsetCallMpiStep DEF Point
<1>3. ASSUME NEW r \in Ranks, Mpi(r)
      PROVE  HandshakeInv'
  BY <1>3, LeaveStep, HandoffToLegionStep, WaitOnLegionStep, InvokeMpiTaskStep, ReturnStep
  DEF Mpi
<1>4. CASE UNCHANGED handshakeVars
  BY <1>4 DEF handshakeVars, shake, HandshakeInv, HandshakeTypeOK, LegionOK, BarrierOK, RankOK, CountsOK, ActiveOK,
              TaskOK, HandoffsMade, At
<1>5. QED BY <1>1, <1>2, <1>3, <1>4 DEF HandshakeNext

LEMMA AlwaysHandshakeInv == HandshakeSpec => []HandshakeInv
  BY InitHandshakeInv, NextHandshakeInv, PTL DEF HandshakeSpec

\* The types hold; with them, that no handshake is handed over twice before it
\* is waited for, and that there is a task behind every call.
THEOREM TypeCorrect == HandshakeSpec => []HandshakeTypeOK
<1>1. HandshakeInv => HandshakeTypeOK
  BY DEF HandshakeInv
<1>2. QED BY <1>1, AlwaysHandshakeInv, PTL

\* No launch that writes mpi_active_ or mpi_task_ is under way while an MPI
\* thread has control.
THEOREM LegionBlocked == HandshakeSpec => []LegionIsBlocked
<1>1. HandshakeInv => LegionIsBlocked
  <2> SUFFICES ASSUME HandshakeInv, NEW r \in Ranks, HasControl(r), launch <= Len(Script)
               PROVE  Script[launch] \in {"handoff_to_mpi", "wait_on_mpi"}
    BY DEF LegionIsBlocked
  <2>1. HandshakeTypeOK /\ LegionOK /\ CountsOK(r)
    BY DEF HandshakeInv, RankOK
  <2>2. launch \in 1..4 * NumMpiTasks + 3
    BY <2>1, ScriptLength, HandshakeAssumption DEF HandshakeTypeOK
  <2>3. At(r) \in {launch, launch + 1} /\ (At(r) = 1 \/ At(r) % 4 = 0)
    BY <2>1, AtRange, Clocks DEF HasControl
  <2>4. launch = 1 \/ launch % 4 = 0 \/ launch % 4 = 3
    BY <2>2, <2>3
  <2>5. QED BY <2>2, <2>4, ScriptKinds
<1>2. QED BY <1>1, AlwaysHandshakeInv, PTL

\* Every MPI thread calls every MPI task once, in the order of the program, and
\* execute_task returns when all have.
THEOREM TasksInTurn == HandshakeSpec => []TasksRunInTurn
<1>1. HandshakeInv => TasksRunInTurn
  <2> SUFFICES ASSUME HandshakeInv, NEW r \in Ranks
               PROVE  /\ \E n \in {TaskOf(launch) - 1, TaskOf(launch)} : invoked[r] = FirstTasks(n)
                      /\ launch <= Len(Script) /\ Script[launch] = "unset_call_mpi" =>
                             invoked[r] = FirstTasks(IF launch = Len(Script) - 1
                                                THEN NumMpiTasks ELSE TaskOf(launch))
    BY DEF TasksRunInTurn
  <2> DEFINE a == At(r)
             e == entered[r]
             m == (entered[r] - 1) \div 2
  <2>1. /\ HandshakeTypeOK /\ LegionOK /\ CountsOK(r) /\ e \in Nat /\ e >= 1
        /\ invoked[r] = FirstTasks(m)
        /\ toLegion[r] \in 0..1 /\ toMpi[r] \in 0..1
    BY DEF HandshakeInv, RankOK, CountsOK, TaskOK, HandshakeTypeOK
  <2>2. launch \in 1..4 * NumMpiTasks + 4 /\ a \in {launch, launch + 1} /\ a \in 1..4 * NumMpiTasks + 4
    BY <2>1, AtRange
  <2>3. CASE pc[r] = "wait"
    <3>1. /\ e \div 2 = m /\ m \in Nat
          /\ HandoffsMade(r) = m + 1
      <4>1. e = 2 * (e \div 2) + 1
        BY <2>1, <2>3, Clocks
      <4>2. QED BY <2>1, <2>3, <4>1 DEF HandoffsMade
    <3>2. m <= a \div 4 /\ WaitsBefore(a) <= m + 1
      BY <2>1, <3>1, Clocks DEF HandoffsBefore
    <3>3. a \in 4 * m .. 4 * m + 4
      BY <2>2, <3>1, <3>2 DEF WaitsBefore
    <3> HIDE DEF a, m
    <3>4. m \in {TaskOf(launch) - 1, TaskOf(launch)}
      BY <2>2, <3>1, <3>3 DEF TaskOf
    <3>5. ASSUME launch <= Len(Script), Script[launch] = "unset_call_mpi"
          PROVE  m = IF launch = Len(Script) - 1 THEN NumMpiTasks ELSE TaskOf(launch)
      <4>1. /\ launch \in 1..4 * NumMpiTasks + 3 /\ launch # 1
            /\ launch = 4 * NumMpiTasks + 2 \/ launch % 4 = 1
        BY <2>2, <3>5, ScriptLength, ScriptKinds, HandshakeAssumption
      <4>2. CASE launch = 4 * NumMpiTasks + 2
        BY <2>2, <3>1, <3>3, <4>2, ScriptLength, HandshakeAssumption
      <4>3. CASE launch % 4 = 1
        <5>1. m = TaskOf(launch) /\ launch # 4 * NumMpiTasks + 2
          BY <2>2, <3>1, <3>3, <4>1, <4>3, HandshakeAssumption DEF TaskOf
        <5>2. QED BY <5>1, ScriptLength, HandshakeAssumption
      <4>4. QED BY <4>1, <4>2, <4>3
    <3>6. QED BY <2>1, <3>4, <3>5
  <2>4. CASE pc[r] # "wait"
    <3>1. a = 1 \/ (a % 4 = 0 /\ e \div 2 = a \div 4)
      BY <2>1, <2>4, Clocks
    <3>2. e \div 2 <= a \div 4
      BY <2>1, Clocks DEF HandoffsBefore
    <3>3. m \in {TaskOf(launch) - 1, TaskOf(launch)}
      <4>1. CASE a = 1
        BY <2>1, <2>2, <3>2, <4>1 DEF TaskOf
      <4>2. CASE a % 4 = 0 /\ e \div 2 = a \div 4
        <5>1. TaskOf(launch) = a \div 4 /\ a \div 4 \in Nat
          BY <2>2, <4>2 DEF TaskOf
        <5>2. m \in {e \div 2 - 1, e \div 2}
          BY <2>1
        <5>3. QED BY <4>2, <5>1, <5>2
      <4>3. QED BY <3>1, <4>1, <4>2
    <3>4. launch = 1 \/ launch % 4 \in {0, 3}
      BY <2>2, <3>1
    <3>5. ~(launch <= Len(Script) /\ Script[launch] = "unset_call_mpi")
      BY <2>2, <3>4, ScriptLength, ScriptKinds, HandshakeAssumption
    <3>6. QED BY <2>1, <3>3, <3>5
  <2>5. QED BY <2>3, <2>4
<1>2. QED BY <1>1, AlwaysHandshakeInv, PTL

\* When one process is about to call an MPI task, the others have been given
\* control for the same one.
THEOREM RunTogether == HandshakeSpec => []TasksRunTogether
<1>1. HandshakeInv => TasksRunTogether
  <2> SUFFICES ASSUME HandshakeInv, NEW r \in Ranks, pc[r] = "loop", mpiActive[r],
                      NEW s \in Ranks
               PROVE  /\ mpiTask[s] = mpiTask[r]
                      /\ pc[s] = "wait_barrier" \/ HasControl(s)
    BY DEF TasksRunTogether
  <2> DEFINE k == At(r) \div 4
             e == entered[s]
  <2>1. /\ HandshakeTypeOK /\ LegionOK /\ BarrierOK /\ CountsOK(s) /\ TaskOK(s)
        /\ e \in Nat /\ pc[s] \in States
    BY DEF HandshakeInv, RankOK, HandshakeTypeOK
  <2>2. /\ At(r) = 4 * k /\ k \in 1..NumMpiTasks
        /\ entered[r] = 2 * k /\ mpiTask[r] = k
    <3>1. /\ At(r) % 4 = 0 /\ At(r) \in 4..4 * NumMpiTasks + 4 /\ At(r) <= 4 * NumMpiTasks
          /\ entered[r] = 2 * k /\ mpiTask[r] = k
      BY LoopFacts
    <3>2. QED BY <3>1, HandshakeAssumption
  <2>3. /\ At(s) \in Nat /\ At(s) \in At(r) - 1 .. At(r) + 1
        /\ e \div 2 <= At(s) \div 4
    <3>1. e \div 2 <= At(s) \div 4
      BY <2>1, Clocks DEF HandoffsBefore
    <3>2. /\ At(s) \in {launch, launch + 1} /\ At(r) \in {launch, launch + 1}
          /\ launch \in Nat /\ At(s) \in Nat /\ At(r) \in Nat
      BY <2>1, AtRange
    <3>3. QED BY <3>1, <3>2
  <2>4. e >= 2 * k
    BY <2>1, <2>2 DEF BarrierOK
  <2> HIDE DEF k
  <2>5. At(s) \in {4 * k, 4 * k + 1} /\ e \in {2 * k, 2 * k + 1}
    BY <2>1, <2>2, <2>3, <2>4
  <2>6. mpiTask[s] = k
    <3>1. (At(s) + 1) \div 4 = k
      BY <2>2, <2>5
    <3>2. QED BY <2>1, <2>2, <3>1, HandshakeAssumption DEF TaskOK
  <2>7. pc[s] # "wait"
    <3>1. ASSUME pc[s] = "wait"
          PROVE  FALSE
      <4>1. e = 2 * k + 1
        BY <2>1, <2>2, <2>5, <3>1 DEF CountsOK
      <4>2. entered[r] >= e
        BY <2>1, <3>1 DEF BarrierOK
      <4>3. QED BY <2>2, <4>1, <4>2
    <3>2. QED BY <3>1
  <2>8. pc[s] # "returned"
    <3>1. pc[s] = "returned" => e = 2 * NumMpiTasks + 2
      BY <2>1 DEF BarrierOK
    <3>2. QED BY <2>2, <2>5, <3>1, HandshakeAssumption
  <2>9. QED BY <2>1, <2>2, <2>6, <2>7, <2>8 DEF HasControl, States
<1>2. QED BY <1>1, AlwaysHandshakeInv, PTL
=============================================================================
