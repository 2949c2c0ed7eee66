------------------------------ MODULE Startup ------------------------------
(***************************************************************************)
(* A program from its first static initializer to its exit code: the       *)
(* file-scope statements of its translation units, which may be executed   *)
(* in any order; main() with its runtime handlers (control/runtime_main.cc *)
(* and control/runtime.h); the runtime driver of the MPI backend, which    *)
(* turns the registries into field information; and the control model.     *)
(* The coloring in between is HaloExchange's.                              *)
(***************************************************************************)
EXTENDS ControlModel, Registration

CONSTANTS
    Programs,    \* each a set of statements, and whether assertions are compiled in
    MaxExecutes  \* bound: how often the top level driver calls execute()

ASSUME ProgramsAssumption ==
    \A prog \in Programs : \A st \in prog.statements :
        /\ st.what = "action" => st.phase \in Phases /\ st.name \in Names
        /\ st.what = "edge" => st.phase \in Phases /\ st.to \in Names /\ st.from \in Names
        /\ st.what = "client" => st.type \in DOMAIN Layout
        /\ st.what = "field" => st.versions \in Nat

VARIABLES
    program,     \* the program that runs
    pending,     \* its statements that are still to be executed
    pc,
    handlers,    \* handlers_
    driver,      \* driver_ is set
    mode,        \* runtime_exit_mode_t, once it is decided
    initialized, finalized, \* the handlers of which these have been called
    result,      \* what main() returns
    executes

mainVars == <<handlers, driver, mode, initialized, finalized, result, executes>>
vars == <<controlVars, registryVars, program, pending, pc, mainVars>>

Init ==
    /\ ControlInit /\ RegistrationInit
    /\ program \in Programs
    /\ pending = program.statements
    /\ pc = "file_scope"
    /\ handlers = <<>> /\ driver = FALSE /\ mode = "success"
    /\ initialized = <<>> /\ finalized = <<>> /\ result = 0 /\ executes = 0

Abort == pc' = "aborted"

-----------------------------------------------------------------------------
(* Static initialization *)

FileScope(st) ==
    /\ pc = "file_scope"
    /\ st \in pending
    /\ pending' = pending \ {st}
    /\ UNCHANGED <<program, orderVars, at, sortVars, walkVars,
                   clientFields, invoked, infoVars,
                   mode, initialized, finalized, result, executes>>

ActionStatement(st) ==
    /\ FileScope(st) /\ st.what = "action"
    /\ RegisterAction(st.phase, st.name)
    /\ UNCHANGED <<pc, clientRegistry, fieldRegistry, lastId, handlers, driver>>

EdgeStatement(st) ==
    /\ FileScope(st) /\ st.what = "edge"
    /\ AddEdge(st.phase, st.to, st.from)
    /\ UNCHANGED <<pc, clientRegistry, fieldRegistry, lastId, handlers, driver>>

\* "client key already exists" of the same instance twice.
ClientStatement(st) ==
    /\ FileScope(st) /\ st.what = "client"
    /\ IF <<st.type, st.key>> \in clientRegistry /\ program.asserts
       THEN Abort /\ UNCHANGED <<clientRegistry, lastId>>
       ELSE RegisterClient(st.type, st.key) /\ UNCHANGED pc
    /\ UNCHANGED <<dagVars, fieldRegistry, handlers, driver>>

FieldStatement(st) ==
    /\ FileScope(st) /\ st.what = "field"
    /\ RegisterFields(FieldVersions(st.type, st.name, st.versions, st.space, st.class))
    /\ UNCHANGED <<pc, dagVars, clientRegistry, handlers, driver>>

HandlerStatement(st) ==
    /\ FileScope(st) /\ st.what = "handler"
    /\ handlers' = Append(handlers, st.name)
    /\ UNCHANGED <<pc, dagVars, clientRegistry, fieldRegistry, lastId, driver>>

DriverStatement(st) ==
    /\ FileScope(st) /\ st.what = "driver"
    /\ driver' = TRUE
    /\ UNCHANGED <<pc, dagVars, clientRegistry, fieldRegistry, lastId, handlers>>

-----------------------------------------------------------------------------
(* main *)

InitializeRuntimes ==
    /\ pc = "file_scope" /\ pending = {}
    /\ initialized' = handlers
    /\ pc' = "options"
    /\ UNCHANGED <<controlVars, registryVars, program, pending,
                   handlers, driver, mode, finalized, result, executes>>

\* Mutant: --help returns at once.
OptionsReturn ==
    /\ pc = "options"
    /\ \/ mode' \in {"unrecognized_option", "help"} /\ pc' = "exited"
       \/ UNCHANGED mode /\ pc' = "finalize"
       \/ UNCHANGED mode /\ (IF driver THEN pc' = "clients" ELSE Abort)
    /\ UNCHANGED <<controlVars, registryVars, program, pending,
                   handlers, driver, initialized, finalized, result, executes>>

\* Unrecognized options and --help end the program, and --tags without a value
\* skips the driver.  A driver that is not set is asserted against, or called.
Options ==
    /\ pc = "options"
    /\ \/ mode' \in {"unrecognized_option", "help"} /\ pc' = "finalize"
       \/ UNCHANGED mode /\ pc' = "finalize"
       \/ UNCHANGED mode /\ (IF driver THEN pc' = "clients" ELSE Abort)
    /\ UNCHANGED <<controlVars, registryVars, program, pending,
                   handlers, driver, initialized, finalized, result, executes>>

(* runtime_driver, which the program's driver calls *)

ClientCallback(c) ==
    /\ pc = "clients"
    /\ InvokeClient(c)
    /\ UNCHANGED <<controlVars, program, pending, pc, mainVars>>

FieldCallbacks ==
    /\ pc = "clients"
    /\ InvokeFields
    /\ pc' = "fields"
    /\ UNCHANGED <<controlVars, program, pending, mainVars>>

FieldInfos ==
    /\ pc = "fields"
    /\ PutFieldInfo
    /\ pc' = "top_level_driver"
    /\ UNCHANGED <<controlVars, program, pending, mainVars>>

CallExecute ==
    /\ pc = "top_level_driver"
    /\ executes < MaxExecutes
    /\ executes' = executes + 1
    /\ Execute
    /\ UNCHANGED <<registryVars, program, pending, pc,
                   handlers, driver, mode, initialized, finalized, result>>

ControlModelStep ==
    /\ pc = "top_level_driver"
    /\ ControlStep
    /\ pc' = IF at' \in {"fatal", "threw"} THEN "aborted" ELSE pc
    /\ UNCHANGED <<registryVars, program, pending, mainVars>>

\* The driver's result must be 0, or the program ends before its finalizers.
DriverReturns ==
    /\ pc = "top_level_driver" /\ at = "idle"
    /\ result' \in {0, 1}
    /\ IF result' # 0 /\ program.asserts THEN Abort ELSE pc' = "finalize"
    /\ UNCHANGED <<controlVars, registryVars, program, pending,
                   handlers, driver, mode, initialized, finalized, executes>>

FinalizeRuntimes ==
    /\ pc = "finalize"
    /\ finalized' = handlers
    /\ pc' = "exited"
    /\ UNCHANGED <<controlVars, registryVars, program, pending,
                   handlers, driver, mode, initialized, result, executes>>

Ended == pc \in {"exited", "aborted"}

Next ==
    \/ \E st \in pending :
           \/ ActionStatement(st) \/ EdgeStatement(st) \/ ClientStatement(st)
           \/ FieldStatement(st) \/ HandlerStatement(st) \/ DriverStatement(st)
    \/ InitializeRuntimes \/ Options
    \/ \E c \in clientRegistry : ClientCallback(c)
    \/ FieldCallbacks \/ FieldInfos \/ CallExecute \/ ControlModelStep \/ DriverReturns
    \/ FinalizeRuntimes
    \/ Ended /\ UNCHANGED vars

\* A single thread, which the operating system runs.
Spec == Init /\ [][Next]_vars /\ WF_vars(Next)

-----------------------------------------------------------------------------
(* Properties *)

Statements(what) == {st \in program.statements : st.what = what}

DependsOn(p, n) == {e.from : e \in {e \in Statements("edge") : e.phase = p /\ e.to = n}}

\* Some actions of a phase that all wait for one another.
Cyclic == \E p \in Phases : \E S \in (SUBSET Names) \ {{}} :
              \A n \in S : DependsOn(p, n) \cap S # {}

\* An action is called once in each visit of its phase, after everything it
\* waits for, whatever the order of statements; a phase is left when all its
\* actions have been called; and a program with a cycle in any of its phases
\* calls no action at all, not even one of another phase.
RunsInOrder ==
    [][ran' # ran =>
          /\ ~Cyclic
          /\ IF ran' = <<>>
             THEN {ran[i] : i \in DOMAIN ran}
                  = {a.name : a \in {a \in Statements("action") : a.phase = Element.phase}}
             ELSE LET called == {ran[i] : i \in DOMAIN ran} IN
                  /\ ran'[Len(ran')] \notin called
                  /\ DependsOn(Element.phase, ran'[Len(ran')]) \subseteq called]_vars

\* Once the driver runs, a handle finds each field of the program, and each
\* that a mesh or set needs itself, in the index space and with the storage
\* class of a statement that registered it; no two fields have the same id;
\* and those stored as rows have an operation to pack them.
FieldsResolve == pc = "top_level_driver" =>
    /\ \A st \in Statements("field") : \A v \in 0..st.versions - 1 :
          \E f \in FieldInfo(st.type, <<st.name, v>>) :
              /\ \E d \in Statements("field") :
                    /\ d.type = st.type /\ d.name = st.name
                    /\ d.space = f.space /\ d.class = f.class
              /\ <<f.space, f.id>> \in ghostFlags
              /\ (f.id \in serdezRegistry) = (f.class \in {"ragged", "sparse"})
    /\ \A st \in Statements("client") :
          LET fields == IF Layout[st.type].kind = "mesh" THEN MeshFields(<<st.type, st.key>>)
                        ELSE IF Layout[st.type].kind = "set" THEN SetFields(<<st.type, st.key>>)
                        ELSE <<>>
          IN  \A i \in DOMAIN fields :
                  \E f \in FieldInfo(st.type, fields[i].key) : f.space = fields[i].space
    /\ \A k, l \in DOMAIN fieldNameMap :
          k # l => fieldNameMap[k][2] # fieldNameMap[l][2]

\* Every program comes to its end: the sort of a graph that is none too; and
\* one that exits has finalized each handler that it initialized, in the order
\* they were appended, while one that is cut short has finalized none.
Ends == <>(\/ pc = "aborted" /\ finalized = <<>>
           \/ /\ pc = "exited"
              /\ finalized = initialized
              /\ Len(finalized) = Cardinality(Statements("handler"))
              /\ {finalized[i] : i \in DOMAIN finalized} = {h.name : h \in Statements("handler")})
=============================================================================
