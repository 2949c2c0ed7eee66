---------------------------- MODULE Registration ----------------------------
(***************************************************************************)
(* The registries of data clients and fields: storage_u (data/storage.h),  *)
(* which file-scope statements fill, the registration wrappers, by which   *)
(* the runtime driver adds the fields that a client needs itself, and the  *)
(* field information of context_u (execution/context.h), in which handles  *)
(* look their fields up.  Clients and fields are keyed by the hash of the  *)
(* client's type and a hash of their names; here by the names.             *)
(***************************************************************************)
EXTENDS Naturals, FiniteSets, Sequences

CONSTANT
    Layout      \* of each client type: entities, adjacencies and subspaces

\* Lists, of any length.  An index space is that of one
\* adjacency, and a subspace is that of one index space.
ASSUME LayoutAssumption ==
    \A t \in DOMAIN Layout :
        /\ \A list \in {Layout[t].entities, Layout[t].adjacencies, Layout[t].subspaces} :
              Len(list) \in Nat /\ DOMAIN list = 1..Len(list)
        /\ \A i, j \in DOMAIN Layout[t].adjacencies :
              LET a == Layout[t].adjacencies IN a[i].index = a[j].index => a[i].from = a[j].from
        /\ \A i, j \in DOMAIN Layout[t].subspaces :
              LET s == Layout[t].subspaces IN s[i].subspace = s[j].subspace => s[i].index = s[j].index

VARIABLES
    clientRegistry, \* client_registry_: <<type, key>>
    fieldRegistry,  \* field_registry_: <<type, key>> to id, index space, class
    lastId,         \* unique_fid_t
    clientFields,   \* registered_client_fields_
    invoked,        \* the clients whose callbacks the driver has called
    fieldInfo,      \* field_info_vec_, in no particular order
    fieldInfoMap,   \* field_info_map_: the same by type, index space and id
    fieldNameMap,   \* field_name_map_: <<type, key>> to <<index space, id>>
    serdezRegistry, \* the ids of fields that have a serdez operation
    ghostFlags      \* ghost_is_readable of index_space_data: <<index space, id>>

infoVars == <<fieldInfo, fieldInfoMap, fieldNameMap, serdezRegistry, ghostFlags>>
registryVars == <<clientRegistry, fieldRegistry, lastId, clientFields, invoked, infoVars>>

RegistrationInit ==
    /\ clientRegistry = {} /\ fieldRegistry = <<>> /\ lastId = 0
    /\ clientFields = {} /\ invoked = {}
    /\ fieldInfo = {} /\ fieldInfoMap = {} /\ fieldNameMap = <<>>
    /\ serdezRegistry = {} /\ ghostFlags = {}

-----------------------------------------------------------------------------
(* storage_u *)

\* register_field for each of a list, with the next id each; what a key had
\* before is overwritten, with a warning.
RegisterFields(list) ==
    LET key(i)  == <<list[i].type, list[i].key>>
        last(k) == CHOOSE i \in DOMAIN list :
                       key(i) = k /\ \A j \in DOMAIN list : key(j) = k => j <= i
    IN
    /\ fieldRegistry' =
          [k \in DOMAIN fieldRegistry \cup {key(i) : i \in DOMAIN list} |->
              IF \E i \in DOMAIN list : key(i) = k
              THEN [id    |-> lastId + last(k),
                    space |-> list[last(k)].space,
                    class |-> list[last(k)].class]
              ELSE fieldRegistry[k]]
    /\ lastId' = lastId + Len(list)

\* A client also takes an id of a field, though it is not used as one.
RegisterClient(type, key) ==
    /\ clientRegistry' = clientRegistry \cup {<<type, key>>}
    /\ lastId' = lastId + 1

\* field_interface_u::register_field: one key for each version.
FieldVersions(type, name, versions, space, class) ==
    [v \in 1..versions |->
        [type |-> type, key |-> <<name, v - 1>>, space |-> space, class |-> class]]

-----------------------------------------------------------------------------
(* client_registration_wrapper_u *)

Internal(c, what, index, space, class) ==
    [type |-> c[1], key |-> <<c[2], what, index>>, space |-> space, class |-> class]

\* The two fields, in turn, for each of a sequence.
TwoEach(seq, One(_), Two(_)) ==
    [i \in 1..2 * Len(seq) |-> IF i % 2 = 1 THEN One(seq[(i + 1) \div 2]) ELSE Two(seq[i \div 2])]

\* The walkers: entities, connectivities and bindings, index subspaces.  The
\* offsets of an adjacency lie in the index space it goes from.
MeshFields(c) ==
    LET entity(s)   == Internal(c, "entity data", s, s, "dense")
        entityId(s) == Internal(c, "entity id", s, s, "dense")
        index(a)    == Internal(c, "adjacency index", a.index, a.index, "dense")
        offset(a)   == Internal(c, "adjacency offset", a.index, a.from, "dense")
        subspace(s) == Internal(c, "subspace", s.subspace, s.index, "subspace")
        subspaces   == Layout[c[1]].subspaces
    IN  TwoEach(Layout[c[1]].entities, entity, entityId)
        \o TwoEach(Layout[c[1]].adjacencies, index, offset)
        \o [i \in DOMAIN subspaces |-> subspace(subspaces[i])]

SetFields(c) ==
    LET spaces == Layout[c[1]].entities
        data(s)   == Internal(c, "entity data", s, s, "local")
        active(s) == Internal(c, "active entity data", s, s, "local")
        moving(s) == Internal(c, "migrate entity data", s, s, "local")
    IN  [i \in 1..3 * Len(spaces) |->
            LET s == spaces[(i + 2) \div 3] IN
            CASE i % 3 = 1 -> data(s) [] i % 3 = 2 -> active(s) [] i % 3 = 0 -> moving(s)]

\* Mutant: the fields of a second client of the same type are left out.
NewType(c) == \A d \in clientFields : d[1] # c[1]

\* register_client_fields: the first time it sees the type and the instance.
NewClient(c) == c \notin clientFields

\* register_callback of a client.
InvokeClient(c) ==
    /\ c \in clientRegistry \ invoked
    /\ invoked' = invoked \cup {c}
    /\ CASE Layout[c[1]].kind = "mesh" /\ NewClient(c) ->
               RegisterFields(MeshFields(c)) /\ clientFields' = clientFields \cup {c}
         [] Layout[c[1]].kind = "set" ->
               RegisterFields(SetFields(c)) /\ UNCHANGED clientFields
         [] OTHER -> UNCHANGED <<fieldRegistry, lastId, clientFields>>
    /\ UNCHANGED <<clientRegistry, infoVars>>

-----------------------------------------------------------------------------
(* field_registration_wrapper_u and context_u *)

Info(k) ==
    [type |-> k[1], key |-> k[2], space |-> fieldRegistry[k].space,
     class |-> fieldRegistry[k].class, id |-> fieldRegistry[k].id]

\* The loop over the field registry: register_field_info and register_serdez.
InvokeFields ==
    /\ invoked = clientRegistry
    /\ fieldInfo' = {Info(k) : k \in DOMAIN fieldRegistry}
    /\ serdezRegistry' = {f.id : f \in {f \in fieldInfo' : f.class \in {"ragged", "sparse"}}}
    /\ UNCHANGED <<clientRegistry, fieldRegistry, lastId, clientFields, invoked,
                   fieldInfoMap, fieldNameMap, ghostFlags>>

\* put_field_info of each, which keeps what a key has, and the initial flags.
PutFieldInfo ==
    /\ fieldInfoMap' = fieldInfo
    /\ fieldNameMap' = [k \in {<<f.type, f.key>> : f \in fieldInfo} |->
          LET f == CHOOSE f \in fieldInfo : <<f.type, f.key>> = k IN <<f.space, f.id>>]
    /\ ghostFlags' = {<<f.space, f.id>> : f \in fieldInfo}
    /\ UNCHANGED <<clientRegistry, fieldRegistry, lastId, clientFields, invoked,
                   fieldInfo, serdezRegistry>>

\* get_field_info_from_name, as a set: empty where it finds nothing.
FieldInfo(type, key) ==
    {f \in fieldInfoMap : /\ f.type = type
                          /\ <<type, key>> \in DOMAIN fieldNameMap
                          /\ <<f.space, f.id>> = fieldNameMap[<<type, key>>]}
=============================================================================
