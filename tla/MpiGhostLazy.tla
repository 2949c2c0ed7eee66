---------------------------- MODULE MpiGhostLazy ----------------------------
(***************************************************************************)
(* The MPI backend with FLECSI_USE_AGGCOMM: task_prolog_t walks the        *)
(* arguments and collects the fields whose ghosts the task needs and are   *)
(* not readable; execute_task then exchanges the row sizes of resized      *)
(* ragged fields, the dense data and the ragged data, one message per pair *)
(* of ranks and kind; task_epilog_t and finalize_handles_t mark the ghosts *)
(* of what the task wrote as unreadable.                                   *)
(*                                                                         *)
(* A message is bytes: what it means is for its receiver to know, from the *)
(* fields it collected itself.  All three kinds use the sender's rank as   *)
(* their tag.                                                              *)
(***************************************************************************)
EXTENDS GhostPrograms, SequencesExt

CONSTANT Ragged    \* the fields with ragged or sparse storage

ASSUME RaggedAssumption ==
    /\ Ragged \subseteq Fields
    /\ \A t \in Tasks : \A i \in DOMAIN t : t[i].kind = "mutator" => t[i].field \in Ragged

VARIABLES
    prog,       \* the tasks the driver executes
    task,       \* the task each color is at
    pc,         \* where each color is in execute_task
    shared,     \* version of each color's shared entities, by field
    ghost,      \* version of each color's ghosts, by field and owner
    rows,       \* version of the shared rows' sizes: the last mutator's task
    ghostRows,  \* version of the sizes the ghost rows are resized to
    rowSizes,   \* version of ghost_row_sizes in the field's metadata
    readable,   \* ghost_is_readable
    resized,    \* ghost_was_resized
    collected,  \* the fields to exchange in each of the three exchanges
    awaited,    \* the owners whose message an exchange has not yet got
    wire,       \* wire[o][c]: the messages from o to c, in order
    seen        \* the ghosts the last user function read, for the refinement

data  == <<shared, ghost>>
sizes == <<rows, ghostRows, rowSizes>>
flags == <<readable, resized>>
vars  == <<prog, task, pc, data, sizes, flags, collected, awaited, wire, seen>>

Exchanges == {"rowsize", "dense", "sparse"}
Waiting == [rowsize |-> "rowsize_wait", dense |-> "dense_wait", sparse |-> "sparse_wait"]
After   == [rowsize |-> "resize",       dense |-> "sparse",     sparse |-> "user"]

Init ==
    /\ prog \in Programs
    /\ task = [c \in Colors |-> 1]
    /\ pc = [c \in Colors |-> "prolog"]
    /\ shared = [c \in Colors |-> [f \in Fields |-> 0]]
    /\ rows = shared
    /\ ghost = [c \in Colors |-> [f \in Fields |-> [o \in Colors |-> 0]]]
    /\ ghostRows = ghost
    /\ rowSizes = ghost
    /\ readable = [c \in Colors |-> [f \in Fields |-> TRUE]]
    /\ resized = [c \in Colors |-> [f \in Fields |-> FALSE]]
    /\ collected = [c \in Colors |-> [x \in Exchanges |-> <<>>]]
    /\ awaited = [c \in Colors |-> {}]
    /\ wire = [o \in Colors |-> [c \in Colors |-> <<>>]]
    /\ seen = [c \in Colors |-> {}]

-----------------------------------------------------------------------------
Current(c) == prog[task[c]]
Goto(c, state) == pc' = [pc EXCEPT ![c] = state]

\* The elements of s at the indices I, in order: what a loop over s keeps.
Selected(s, I) ==
    [j \in 1..Cardinality(I) |->
        s[CHOOSE i \in I : Cardinality({h \in I : h <= i}) = j]]

\* The fields of the arguments I of t, in argument order.
FieldsAt(t, I) == Selected([i \in DOMAIN t |-> t[i].field], I)

(* task_prolog_t *)

\* Argument i is no na or wo accessor of the ghosts.
Wants(t, i) == t[i].gp \in {"ro", "rw"}

\* No argument before i has made the field of argument i readable.
Unfetched(t, i) == \A j \in 1..i - 1 : t[j].field = t[i].field => ~Wants(t, j)

\* handle(): argument i adds its field to the modified fields.
Modifies(c, i) == /\ ~readable[c][Current(c)[i].field]
                  /\ Wants(Current(c), i)
                  /\ Unfetched(Current(c), i)

\* Mutant: the row sizes are exchanged only where the data is.
ResizesIfModified(c, i) == Modifies(c, i) /\ resized[c][Current(c)[i].field]

\* ... and, a ragged field of other row sizes, to the resized fields.
Resizes(c, i) == /\ ~readable[c][Current(c)[i].field]
                 /\ resized[c][Current(c)[i].field]
                 /\ Unfetched(Current(c), i)

Prolog(c) ==
    LET t == Current(c)
        modified == {i \in DOMAIN t : Modifies(c, i)}
        resizes  == {i \in DOMAIN t : Resizes(c, i)}
        ragged   == {i \in DOMAIN t : t[i].field \in Ragged}
    IN
    /\ pc[c] = "prolog"
    /\ task[c] <= NumTasks
    /\ collected' = [collected EXCEPT ![c] =
           [rowsize |-> FieldsAt(t, resizes \cap ragged),
            dense   |-> FieldsAt(t, modified \ ragged),
            sparse  |-> FieldsAt(t, modified \cap ragged)]]
    /\ readable' = [readable EXCEPT ![c] =
           [f \in Fields |-> @[f] \/ ReadsGhost(t, f)]]
    /\ Goto(c, "rowsize")
    /\ UNCHANGED <<prog, task, data, sizes, resized, awaited, wire, seen>>

(* launch_rowsize_exchange, launch_dense_exchange, launch_sparse_exchange *)

\* Without a field to exchange, an exchange does nothing.
NoExchange(c, x) ==
    /\ pc[c] = x
    /\ collected[c][x] = <<>>
    /\ Goto(c, After[x])
    /\ UNCHANGED <<prog, task, data, sizes, flags, collected, awaited, wire, seen>>

\* What the shared rows of a field put into a message: their sizes, their
\* data, or their data in runs as long as their sizes say.
Packed(c, x, f) == [version |-> IF x = "rowsize" THEN 0 ELSE shared[c][f],
                    rows    |-> IF x = "dense"   THEN 0 ELSE rows[c][f]]

\* The fields of exchange x that are packed for u, and unpacked from o.
SentTo(c, u, x) ==
    LET fields == collected[c][x] IN
    Selected(fields, {j \in DOMAIN fields : u \in SharedUsers[fields[j]][c]})

GotFrom(c, o, x) ==
    LET fields == collected[c][x] IN
    Selected(fields, {j \in DOMAIN fields : o \in GhostOwners[fields[j]][c]})

\* Mutant: the fields are packed last to first.
PackedBackwards(c, u, x) ==
    LET fields == Reverse(SentTo(c, u, x)) IN
    [kind |-> x, fields |-> fields,
     body |-> [j \in DOMAIN fields |-> Packed(c, x, fields[j])]]

\* The message of exchange x from c to u.  Only the body is sent: kind and
\* fields are kept to state MessagesMatch.
Message(c, u, x) ==
    LET fields == SentTo(c, u, x) IN
    [kind |-> x, fields |-> fields,
     body |-> [j \in DOMAIN fields |-> Packed(c, x, fields[j])]]

\* The owners a receive is posted for.
Awaits(c, x) == UNION {GhostOwners[f][c] : f \in ToSet(collected[c][x])}

\* Receives are posted for the owners, then the fields are packed and sent to
\* every user.
Send(c, x) ==
    LET fields == ToSet(collected[c][x]) IN
    /\ pc[c] = x
    /\ fields # {}
    /\ awaited' = [awaited EXCEPT ![c] = Awaits(c, x)]
    /\ wire' = [wire EXCEPT ![c] = [u \in Colors |->
           IF \E f \in fields : u \in SharedUsers[f][c]
           THEN Append(@[u], Message(c, u, x)) ELSE @[u]]]
    /\ Goto(c, Waiting[x])
    /\ UNCHANGED <<prog, task, data, sizes, flags, collected, seen>>

\* copies, with the fields that were unpacked from o as the message has them.
Unpack(copies, fields, o, values) ==
    [f \in Fields |-> IF f \in ToSet(fields)
                      THEN [copies[f] EXCEPT ![o] = values[CHOOSE j \in DOMAIN fields : fields[j] = f]]
                      ELSE copies[f]]

\* The oldest message from o is the one the receive gets, whatever it is.  It
\* is unpacked once every receive is complete, which only c can tell.
Receive(c, o, x) ==
    LET m == Head(wire[o][c]) IN
    /\ pc[c] = Waiting[x]
    /\ o \in awaited[c]
    /\ wire[o][c] # <<>>
    /\ wire' = [wire EXCEPT ![o][c] = Tail(@)]
    /\ awaited' = [awaited EXCEPT ![c] = @ \ {o}]
    /\ IF x = "rowsize"
         THEN /\ rowSizes' = [rowSizes EXCEPT ![c] =
                     Unpack(@, GotFrom(c, o, x), o, [j \in DOMAIN m.body |-> m.body[j].rows])]
              /\ UNCHANGED ghost
         ELSE /\ ghost' = [ghost EXCEPT ![c] =
                     Unpack(@, GotFrom(c, o, x), o, [j \in DOMAIN m.body |-> m.body[j].version])]
              /\ UNCHANGED rowSizes
    /\ UNCHANGED <<prog, task, pc, shared, rows, ghostRows, flags, collected, seen>>

\* The exchange ends when its sends are complete too ...
EndExchange(c, x) ==
    /\ pc[c] = Waiting[x]
    /\ awaited[c] = {}
    /\ Goto(c, After[x])
    /\ UNCHANGED <<prog, task, data, sizes, flags, collected, awaited, wire, seen>>

\* ... which they are when everything has been received,
WaitSends(c, x) == (\A u \in Colors : wire[c][u] = <<>>) /\ EndExchange(c, x)

\* or earlier, if MPI buffers the messages.
Buffered(c, x) == (\E u \in Colors : wire[c][u] # <<>>) /\ EndExchange(c, x)

(* row_resize_t: the ghost rows of the task's resized fields get their sizes. *)
Resize(c) ==
    LET fields == {f \in Ragged : resized[c][f] /\ \E i \in DOMAIN Current(c) :
                                                     Current(c)[i].field = f}
    IN
    /\ pc[c] = "resize"
    /\ ghostRows' = [ghostRows EXCEPT ![c] =
           [f \in Fields |-> IF f \in fields THEN rowSizes[c][f] ELSE @[f]]]
    /\ resized' = [resized EXCEPT ![c] = [f \in Fields |-> @[f] /\ f \notin fields]]
    /\ Goto(c, "dense")
    /\ UNCHANGED <<prog, task, data, rows, rowSizes, readable, collected, awaited, wire, seen>>

(* The user function *)

Mutates(t, f) == \E i \in DOMAIN t : t[i].field = f /\ t[i].kind = "mutator"

Execute(c) ==
    LET t == Current(c) IN
    /\ pc[c] = "user"
    /\ seen' = [seen EXCEPT ![c] =
           {r \in [field : Fields, owner : Colors, version : 0..NumTasks] :
               /\ r.owner \in GhostOwners[r.field][c]
               /\ ReadsGhost(t, r.field)
               /\ r.version = ghost[c][r.field][r.owner]}]
    /\ shared' = [shared EXCEPT ![c] = [f \in Fields |->
           IF WritesShared(t, f) THEN task[c] ELSE @[f]]]
    /\ ghost' = [ghost EXCEPT ![c] = [f \in Fields |->
           IF WritesGhost(t, f) THEN [o \in Colors |-> task[c]] ELSE @[f]]]
    /\ rows' = [rows EXCEPT ![c] = [f \in Fields |->
           IF Mutates(t, f) THEN task[c] ELSE @[f]]]
    /\ Goto(c, "epilog")
    /\ UNCHANGED <<prog, task, ghostRows, rowSizes, flags, collected, awaited, wire>>

(* task_epilog_t, then finalize_handles_t *)

\* Mutant: an accessor with rw on the shared entities is not taken to write.
DecidesIfWo(a) == a.kind = "accessor" /\ (a.gp \in {"rw", "wo"} \/ a.sp = "wo")

\* The arguments that task_epilog_t changes ghost_is_readable for.
Decides(a) == a.kind = "accessor" /\ (a.gp \in {"rw", "wo"} \/ a.sp \in {"rw", "wo"})

\* The last of them leaves ghosts the task wrote itself readable, and others
\* unreadable.  A mutator, finalized after the epilog, leaves them unreadable.
ReadableAfter(c, f) ==
    LET t  == Current(c)
        at == {i \in DOMAIN t : t[i].field = f /\ Decides(t[i])}
    IN  /\ ~Mutates(t, f)
        /\ IF at = {} THEN readable[c][f]
           ELSE t[CHOOSE i \in at : \A j \in at : j <= i].gp \in {"rw", "wo"}

Epilog(c) ==
    /\ pc[c] = "epilog"
    /\ readable' = [readable EXCEPT ![c] = [f \in Fields |-> ReadableAfter(c, f)]]
    /\ resized' = [resized EXCEPT ![c] =
           [f \in Fields |-> @[f] \/ Mutates(Current(c), f)]]
    /\ task' = [task EXCEPT ![c] = @ + 1]
    /\ collected' = [collected EXCEPT ![c] = [x \in Exchanges |-> <<>>]]
    /\ Goto(c, "prolog")
    /\ UNCHANGED <<prog, data, sizes, awaited, wire, seen>>

\* The driver has returned on every color.
Terminated ==
    /\ \A c \in Colors : task[c] = NumTasks + 1
    /\ UNCHANGED vars

-----------------------------------------------------------------------------
Step(c) ==
    \/ Prolog(c) \/ Resize(c) \/ Execute(c) \/ Epilog(c)
    \/ \E x \in Exchanges : \/ NoExchange(c, x) \/ Send(c, x) \/ WaitSends(c, x)
                            \/ \E o \in Colors : Receive(c, o, x)

Next == \/ Terminated
        \/ \E c \in Colors : Step(c) \/ \E x \in Exchanges : Buffered(c, x)

Spec == Init /\ [][Next]_vars

\* Every rank runs, and MPI delivers what was sent; it owes no buffering.
FairSpec == Spec /\ \A c \in Colors : WF_vars(Step(c))

-----------------------------------------------------------------------------
(* Properties *)

\* What a user function reads from its ghosts is what the program's last
\* writer of the field left with the owner: the flags never call a stale
\* ghost readable.
GhostCoherent ==
    \A c \in Colors : pc[c] = "user" =>
        \A f \in Fields : ReadsGhost(Current(c), f) =>
            \A o \in GhostOwners[f][c] : IsLatest(prog, ghost[c][f][o], f, task[c])

\* The first message from an owner is the one the receiver is waiting for:
\* the same exchange, the same fields in the same order, though every rank
\* collects them by itself and all messages have one tag.
MessagesMatch ==
    \A c \in Colors, x \in Exchanges : pc[c] = Waiting[x] =>
        \A o \in awaited[c] : wire[o][c] # <<>> =>
            /\ Head(wire[o][c]).kind = x
            /\ Head(wire[o][c]).fields = GotFrom(c, o, x)

\* Ragged data is unpacked into ghost rows of the sizes it was packed with.
RowsFit ==
    \A c \in Colors : pc[c] = "sparse_wait" =>
        \A o \in awaited[c] : wire[o][c] # <<>> =>
            LET m == Head(wire[o][c]) IN
            \A j \in DOMAIN m.body :
                /\ rowSizes[c][m.fields[j]][o] = m.body[j].rows
                /\ ghostRows[c][m.fields[j]][o] = m.body[j].rows

\* The tasks each color has run, and what the last of them read.
Sequential == INSTANCE GhostCoherence WITH
    ran <- [c \in Colors |-> IF pc[c] = "epilog" THEN task[c] ELSE task[c] - 1]

\* Every color runs its tasks to the end, and each task's user function reads
\* what it would read in a sequential execution of the program.
RunsAsSequential == Sequential!Spec
=============================================================================
