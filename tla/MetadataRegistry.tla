-------------------------- MODULE MetadataRegistry --------------------------
(***************************************************************************)
(* The registry of binary types (binary_schema.go) as its users in         *)
(* binary_object.go, binary_enum.go and marshaller.go drive it: goroutines *)
(* of one client write and read objects of one type id, against a node     *)
(* whose metadata other clients extend too. What is known of a type is a   *)
(* set of facts: the registration with its name, affinity key and kind,    *)
(* the fields with their types, the schemas, the constants of an enum.     *)
(* A map of the code is the set of its pairs; the order of fields is left  *)
(* out. Schemas are opaque and FieldsOf gives the fields of one: schema    *)
(* ids are taken to be different for different lists of fields.            *)
(***************************************************************************)
EXTENDS Naturals, FiniteSets

CONSTANTS
    Procs,        \* goroutines of the client
    TypeNames,    \* names that are mapped to the one type id
    AffKeys,      \* affinity key fields, "none" among them
    Fields,       \* field names
    FieldTypes,   \* type codes of fields
    ObjectType,   \* BinaryObjectType, the type of a field first seen as nil
    Schemas,      \* footers' lists of field ids
    FieldsOf,     \* the fields of a schema
    EnumNames,    \* names of enum constants
    Ordinals,     \* their ordinals
    Writes,       \* the objects the goroutines may write
    Enums,        \* the enum values they may write or register
    ForeignTypes, \* what other clients may register
    MaxClears,    \* how often the registry may be cleared
    NilValue      \* a field value without a type of its own

Headers == [typeName: TypeNames, affKey: AffKeys, isEnum: BOOLEAN]
Fact == {[header |-> h] : h \in Headers}
        \cup {[field |-> f, type |-> t] : f \in Fields, t \in FieldTypes}
        \cup {[schema |-> s] : s \in Schemas}
        \cup {[name |-> n, ord |-> o] : n \in EnumNames, o \in Ordinals}

ASSUME RegistryAssumption ==
    /\ ObjectType \in FieldTypes
    /\ NilValue \notin FieldTypes
    /\ FieldsOf \in [Schemas -> SUBSET Fields]
    /\ MaxClears \in Nat

VARIABLES
    node,      \* what the cluster knows of the type
    cache,     \* binaryMetadataCache.metaData, {} while it has no entry
    nodeName,  \* the class name the cluster has registered for the id, a set of at most one
    nameCache, \* binaryMetadataCache.nameMapping of the id
    pc, op,    \* per goroutine: where it is, what it does
    old, meta, \* per goroutine: oldMeta and the metadata it builds
    out,       \* per goroutine: how its last operation ended
    objects,   \* the objects written with success
    clears, disturbed \* clears so far, goroutines that were at work during one

vars == <<node, cache, nodeName, nameCache, pc, op, old, meta, out, objects, clears, disturbed>>
shared == <<node, cache, nodeName, nameCache>>
history == <<objects, clears, disturbed>>

--------------------------------------------------------------------------
(* Metadata as facts *)

FieldFacts(m) == {x \in m : DOMAIN x = {"field", "type"}}
HeaderFacts(m) == {x \in m : DOMAIN x = {"header"}}
OrdFacts(m) == {x \in m : DOMAIN x = {"name", "ord"}}
FieldNames(m) == {x.field : x \in FieldFacts(m)}

(* A binaryMetadata: one header; an enum has constants, an object schemas and fields, each of one type. *)
IsMetadata(m) ==
    /\ m \subseteq Fact
    /\ \E h \in Headers :
          /\ HeaderFacts(m) = {[header |-> h]}
          /\ h.isEnum => m = HeaderFacts(m) \cup OrdFacts(m)
          /\ ~h.isEnum => OrdFacts(m) = {} /\ \A x, y \in FieldFacts(m) : x.field = y.field => x = y

ASSUME ForeignAssumption == \A m \in ForeignTypes : IsMetadata(m)

(* mergeMetadata's errors: another name, kind or affinity key; a field with another type; an ordinal
   with another name or a name with another ordinal. *)
Conflict(x, y) ==
    \/ DOMAIN x = {"header"} /\ DOMAIN y = {"header"} /\ x # y
    \/ DOMAIN x = {"field", "type"} /\ DOMAIN y = {"field", "type"} /\ x.field = y.field /\ x.type # y.type
    \/ DOMAIN x = {"name", "ord"} /\ DOMAIN y = {"name", "ord"} /\ (x.name = y.name) # (x.ord = y.ord)

MergeFails(oldMeta, newMeta) == \E x \in oldMeta, y \in newMeta : Conflict(x, y)

(* Mutants stand before the definition they would replace: here, a type that is known at all is not merged again. *)
KnownIsUnchanged(oldMeta, newMeta) == oldMeta = {} /\ newMeta # {}

(* mergeMetadata's result: whether the new metadata says anything the old does not. *)
Changed(oldMeta, newMeta) == ~(newMeta \subseteq oldMeta)

(* What mergeMetadata leaves in *meta: the union when it changes something, else what was there. *)
Merged(oldMeta, newMeta) == IF Changed(oldMeta, newMeta) THEN oldMeta \cup newMeta ELSE newMeta

(* Mutant: the cache is overwritten with what was merged before the request. *)
OverwritingPut(m) == cache' = IF Changed(cache, m) THEN m ELSE cache

(* binaryMetadataCache.putMetadata, under the cache's mutex; the caller's metadata is merged in place. *)
CachePut(m) ==
    cache' = IF ~MergeFails(cache, m) /\ Changed(cache, m) THEN cache \cup m ELSE cache

--------------------------------------------------------------------------
(* What the goroutines do *)

ObjectHeaders == [typeName: TypeNames, affKey: AffKeys, isEnum: {FALSE}]
EnumHeaders == [typeName: TypeNames, affKey: AffKeys, isEnum: {TRUE}]
WriteOps == [kind: {"write"}, header: ObjectHeaders, schema: Schemas, types: [Fields -> FieldTypes \cup {NilValue}]]
EnumOps == [kind: {"enum", "newEnum", "registerEnum"}, header: EnumHeaders, consts: SUBSET OrdFacts(Fact), ord: Ordinals]
ReadOps == [kind: {"readField", "readTyped"}, schema: Schemas]
Idle == [kind |-> "idle"]
ClassName == [kind |-> "className"]

ASSUME OperationsAssumption == Writes \subseteq WriteOps /\ Enums \subseteq EnumOps

(* Mutant: a nil is recorded as it is. *)
NilRecorded(o, oldMeta, f) == o.types[f]

(* The type of a field of an object: that of its value; for nil the one recorded, else BinaryObjectType. *)
TypeOfField(o, oldMeta, f) ==
    IF o.types[f] # NilValue THEN o.types[f]
    ELSE IF f \in FieldNames(oldMeta) THEN (CHOOSE x \in FieldFacts(oldMeta) : x.field = f).type
    ELSE ObjectType

(* The checks of newBinaryObject and marshalBinarylizable, and of writeField0 for each field. *)
WriteRefused(o, oldMeta) ==
    \/ \E x \in HeaderFacts(oldMeta) : x.header # o.header
    \/ \E x \in FieldFacts(oldMeta) : x.field \in FieldsOf[o.schema] /\ x.type # TypeOfField(o, oldMeta, x.field)

(* bWriter.newMeta after finalize: the schema, and the fields that oldMeta does not have. *)
NewMeta(o, oldMeta) ==
    {[header |-> o.header], [schema |-> o.schema]}
    \cup {[field |-> f, type |-> TypeOfField(o, oldMeta, f)] : f \in FieldsOf[o.schema] \ FieldNames(oldMeta)}

(* newEnumMetadata *)
EnumMeta(o) == {[header |-> o.header]} \cup o.consts

(* registerEnumMeta refuses another name or kind; newBinaryEnum and marshalEnum look at the kind or only at
   the ordinals of what they find. *)
EnumRefused(o, m) ==
    CASE o.kind = "registerEnum" -> \E x \in HeaderFacts(m) : x.header.typeName # o.header.typeName \/ ~x.header.isEnum
      [] o.kind = "newEnum" -> m = {} \/ (\E x \in HeaderFacts(m) : ~x.header.isEnum) \/ ~\E x \in OrdFacts(m) : x.ord = o.ord
      [] o.kind = "enum" -> m # {} /\ ~\E x \in OrdFacts(m) : x.ord = o.ord

--------------------------------------------------------------------------

TypeOK ==
    /\ node \subseteq Fact /\ cache \subseteq Fact /\ objects \subseteq Fact
    /\ nodeName \subseteq TypeNames /\ nameCache \subseteq TypeNames
    /\ pc \in [Procs -> {"idle", "lookup", "request", "reply", "build", "merge", "send", "acked", "store",
                         "schema", "found", "name", "sendName", "named", "askName"}]
    /\ op \in [Procs -> Writes \cup Enums \cup ReadOps \cup {Idle, ClassName}]
    /\ old \in [Procs -> SUBSET Fact] /\ meta \in [Procs -> SUBSET Fact]
    /\ out \in [Procs -> {"none", "ok", "refused", "failed", "noSchema", "noMetadata", "fieldNotFound"}]
    /\ clears \in 0..MaxClears /\ disturbed \subseteq Procs

Init ==
    /\ node = {} /\ cache = {} /\ nodeName = {} /\ nameCache = {}
    /\ pc = [p \in Procs |-> "idle"] /\ op = [p \in Procs |-> Idle]
    /\ old = [p \in Procs |-> {}] /\ meta = [p \in Procs |-> {}]
    /\ out = [p \in Procs |-> "none"]
    /\ objects = {} /\ clears = 0 /\ disturbed = {}

Goto(p, label) == pc' = [pc EXCEPT ![p] = label] /\ UNCHANGED <<op, out>>

(* An operation returns, with what it tells its caller. *)
Return(p, result) ==
    /\ pc' = [pc EXCEPT ![p] = "idle"]
    /\ op' = [op EXCEPT ![p] = Idle]
    /\ out' = [out EXCEPT ![p] = result]
    /\ old' = [old EXCEPT ![p] = {}]
    /\ meta' = [meta EXCEPT ![p] = {}]

(* A user calls: writing starts with getMetadata, reading a field with getSchema. Objects that can be read
   have a schema the cluster knows. *)
Begin(p, o) ==
    /\ pc[p] = "idle"
    /\ o \in ReadOps => [schema |-> o.schema] \in node
    /\ op' = [op EXCEPT ![p] = o]
    /\ out' = [out EXCEPT ![p] = "none"]
    /\ pc' = [pc EXCEPT ![p] = CASE o.kind = "readField" -> "schema"
                                 [] o.kind = "className" -> "name"
                                 [] OTHER -> "lookup"]
    /\ disturbed' = disturbed \ {p}
    /\ UNCHANGED <<shared, old, meta, objects, clears>>

(* getMetadata looks into the cache. *)
Lookup(p) ==
    /\ pc[p] = "lookup"
    /\ old' = [old EXCEPT ![p] = cache]
    /\ Goto(p, IF cache = {} THEN "request" ELSE "build")
    /\ UNCHANGED <<shared, meta, history>>

(* Mutant: getSchema gives up when the cache lacks the schema. *)
GivesUp(p) ==
    /\ pc[p] = "schema"
    /\ Return(p, IF [schema |-> op[p].schema] \in cache THEN "ok" ELSE "noSchema")
    /\ UNCHANGED <<shared, history>>

(* getSchema looks into the cache. *)
LookupSchema(p) ==
    /\ pc[p] = "schema"
    /\ \/ /\ [schema |-> op[p].schema] \in cache
          /\ Return(p, "ok")
       \/ /\ [schema |-> op[p].schema] \notin cache
          /\ Goto(p, "request") /\ UNCHANGED <<old, meta>>
    /\ UNCHANGED <<shared, history>>

(* The node answers opGetBinaryType with what it knows, or that it knows nothing. *)
NodeGet(p) ==
    /\ pc[p] = "request"
    /\ meta' = [meta EXCEPT ![p] = node]
    /\ Goto(p, "reply")
    /\ UNCHANGED <<shared, old, history>>

(* requestAndCacheBinaryMeta puts the answer into the cache and returns it, merged if it was. *)
Reply(p) ==
    /\ pc[p] = "reply"
    /\ CachePut(meta[p])
    /\ old' = [old EXCEPT ![p] = IF MergeFails(cache, meta[p]) THEN meta[p] ELSE Merged(cache, meta[p])]
    /\ meta' = [meta EXCEPT ![p] = {}]
    /\ Goto(p, IF op[p].kind = "readField" THEN "found" ELSE "build")
    /\ UNCHANGED <<node, nodeName, nameCache, history>>

(* getSchema looks again after the request. *)
LookupAgain(p) ==
    /\ pc[p] = "found"
    /\ Return(p, IF [schema |-> op[p].schema] \in cache THEN "ok" ELSE "noSchema")
    /\ UNCHANGED <<shared, history>>

(* Writing an object: its fields are compared with oldMeta, its own metadata made. *)
BuildObject(p) ==
    /\ pc[p] = "build" /\ op[p].kind = "write"
    /\ \/ /\ WriteRefused(op[p], old[p])
          /\ Return(p, "refused")
       \/ /\ ~WriteRefused(op[p], old[p])
          /\ meta' = [meta EXCEPT ![p] = NewMeta(op[p], old[p])]
          /\ Goto(p, "merge") /\ UNCHANGED old
    /\ UNCHANGED <<shared, history>>

(* Enums: registerEnumMeta always puts its metadata, marshalEnum only when there is none, newBinaryEnum never. *)
BuildEnum(p) ==
    /\ pc[p] = "build" /\ op[p].kind \in {"enum", "newEnum", "registerEnum"}
    /\ \/ /\ EnumRefused(op[p], old[p])
          /\ Return(p, "refused")
       \/ /\ ~EnumRefused(op[p], old[p])
          /\ \/ /\ op[p].kind = "registerEnum" \/ old[p] = {}
                /\ meta' = [meta EXCEPT ![p] = EnumMeta(op[p])]
                /\ Goto(p, "merge")
             \/ /\ op[p].kind # "registerEnum" /\ old[p] # {}
                /\ Goto(p, "name") /\ UNCHANGED meta
          /\ UNCHANGED old
    /\ UNCHANGED <<shared, history>>

(* A Binarylizable is read field by field: first against the names in the metadata, then by the schema. Names
   that were cached are not asked for again, however old they are. *)
BuildReader(p) ==
    /\ pc[p] = "build" /\ op[p].kind = "readTyped"
    /\ \/ /\ old[p] = {} /\ Return(p, "noMetadata")
       \/ /\ old[p] # {} /\ ~(FieldsOf[op[p].schema] \subseteq FieldNames(old[p]))
          /\ Return(p, "fieldNotFound")
       \/ /\ old[p] # {} /\ FieldsOf[op[p].schema] \subseteq FieldNames(old[p])
          /\ pc' = [pc EXCEPT ![p] = "schema"]
          /\ op' = [op EXCEPT ![p] = [@ EXCEPT !.kind = "readField"]]
          /\ UNCHANGED <<old, meta, out>>
    /\ UNCHANGED <<shared, history>>

(* Mutant: the cache takes the metadata before the cluster has answered. *)
CachesFirst(p) ==
    /\ pc[p] = "merge" /\ ~MergeFails(cache, meta[p])
    /\ CachePut(meta[p])
    /\ meta' = [meta EXCEPT ![p] = Merged(cache, @)]
    /\ Goto(p, IF Changed(cache, meta[p]) THEN "send" ELSE "store")
    /\ UNCHANGED <<node, nodeName, nameCache, old, history>>

(* binaryMetadataRegistryImpl.putMetadata reads the cache and merges with what it finds. *)
MergeWithCached(p) ==
    /\ pc[p] = "merge"
    /\ \/ /\ MergeFails(cache, meta[p])
          /\ Return(p, "refused")
       \/ /\ ~MergeFails(cache, meta[p])
          /\ meta' = [meta EXCEPT ![p] = Merged(cache, @)]
          /\ Goto(p, IF Changed(cache, meta[p]) THEN "send" ELSE "store")
          /\ UNCHANGED old
    /\ UNCHANGED <<shared, history>>

(* The cluster merges what it is sent with what it knows, or refuses it. *)
NodePut(p) ==
    /\ pc[p] = "send"
    /\ \/ /\ MergeFails(node, meta[p])
          /\ Return(p, "refused") /\ UNCHANGED node
       \/ /\ ~MergeFails(node, meta[p])
          /\ node' = node \cup meta[p]
          /\ Goto(p, "acked") /\ UNCHANGED <<old, meta>>
    /\ UNCHANGED <<cache, nodeName, nameCache, history>>

(* The facts of an object that its readers rely on. *)
FactsOf(o, oldMeta) ==
    {[header |-> o.header], [schema |-> o.schema]}
    \cup {[field |-> f, type |-> TypeOfField(o, oldMeta, f)] : f \in FieldsOf[o.schema]}

(* The cache takes what has been put; registerEnumMeta is done, marshalEnum looks for its ordinal. *)
Store(p) ==
    /\ pc[p] \in {"acked", "store"}
    /\ CachePut(meta[p])
    /\ LET known == Merged(cache, meta[p])
           fails == MergeFails(cache, meta[p]) \/ (op[p].kind = "enum" /\ ~\E x \in OrdFacts(known) : x.ord = op[p].ord)
       IN \/ fails /\ Return(p, "refused")
          \/ ~fails /\ op[p].kind = "registerEnum" /\ Return(p, "ok")
          \/ ~fails /\ op[p].kind # "registerEnum" /\ Goto(p, "name") /\ UNCHANGED <<old, meta>>
    /\ UNCHANGED <<node, nodeName, nameCache, history>>

Written(p) == IF op[p].kind = "write" THEN FactsOf(op[p], old[p]) ELSE {}

(* registerClassName and getClassName look into the cache. *)
LookupName(p) ==
    /\ pc[p] = "name"
    /\ \/ /\ nameCache # {}
          /\ objects' = objects \cup Written(p)
          /\ Return(p, "ok")
       \/ /\ nameCache = {}
          /\ Goto(p, IF op[p].kind = "className" THEN "askName" ELSE "sendName")
          /\ UNCHANGED <<old, meta, objects>>
    /\ UNCHANGED <<shared, clears, disturbed>>

(* The cluster takes a class name for an id that has none or this one. It may answer that it did not, and
   the operation goes on: only an error ends it. *)
NodeRegistersName(p) ==
    /\ pc[p] = "sendName"
    /\ LET name == op[p].header.typeName
       IN \/ /\ nodeName \subseteq {name}
             /\ nodeName' = {name}
             /\ Goto(p, "named") /\ UNCHANGED <<old, meta, objects>>
          \/ /\ ~(nodeName \subseteq {name})
             /\ \/ Return(p, "refused") /\ UNCHANGED objects
                \/ Return(p, "ok") /\ objects' = objects \cup Written(p)
             /\ UNCHANGED nodeName
    /\ UNCHANGED <<node, cache, nameCache, clears, disturbed>>

(* The registered name goes into the cache, the operation is done. *)
StoreName(p) ==
    /\ pc[p] = "named"
    /\ nameCache' = {op[p].header.typeName}
    /\ objects' = objects \cup Written(p)
    /\ Return(p, "ok")
    /\ UNCHANGED <<node, cache, nodeName, clears, disturbed>>

(* requestAndCacheClassName; a name that is not registered is not cached. *)
AskName(p) ==
    /\ pc[p] = "askName"
    /\ nameCache' = IF nodeName = {} THEN nameCache ELSE nodeName
    /\ Return(p, "ok")
    /\ UNCHANGED <<node, cache, nodeName, history>>

(* A request times out or its connection is lost, before or after the node has executed it. *)
RequestFails(p) ==
    /\ pc[p] \in {"request", "reply", "send", "acked", "sendName", "named", "askName"}
    /\ Return(p, "failed")
    /\ UNCHANGED <<shared, history>>

(* clearRegistry *)
Clear ==
    /\ clears < MaxClears
    /\ clears' = clears + 1
    /\ cache' = {} /\ nameCache' = {}
    /\ disturbed' = disturbed \cup {p \in Procs : pc[p] # "idle"}
    /\ UNCHANGED <<node, nodeName, pc, op, old, meta, out, objects>>

(* Another client registers a type, or extends it. *)
ForeignPut ==
    /\ \E m \in ForeignTypes : ~MergeFails(node, m) /\ node' = node \cup m
    /\ UNCHANGED <<cache, nodeName, nameCache, pc, op, old, meta, out, history>>

Step(p) ==
    \/ \E o \in Writes \cup Enums \cup ReadOps \cup {ClassName} : Begin(p, o)
    \/ Lookup(p) \/ LookupSchema(p) \/ NodeGet(p) \/ Reply(p) \/ LookupAgain(p)
    \/ BuildObject(p) \/ BuildEnum(p) \/ BuildReader(p)
    \/ MergeWithCached(p) \/ NodePut(p) \/ Store(p)
    \/ LookupName(p) \/ NodeRegistersName(p) \/ StoreName(p) \/ AskName(p)
    \/ RequestFails(p)

Next == (\E p \in Procs : Step(p)) \/ Clear \/ ForeignPut

Spec == Init /\ [][Next]_vars

--------------------------------------------------------------------------
(* What must hold *)

(* The cache never holds a field, a schema or a constant the cluster does not: what is put there comes
   from the cluster or has been accepted by it, whatever was registered between the two reads of the cache
   in putMetadata. *)
CacheWithinNode == cache \subseteq node

(* An object that has been written can be read by every client: the cluster knows its schema and its
   fields, with the types they were written with, also where the registry left out the fields it had seen before. *)
WrittenIsKnown == objects \subseteq node

(* Whoever looks for the schema of an object (getSchema, for a field) finds it, by itself or after asking the
   cluster, and a typed reader finds metadata of the type; only a clear in the midst of its two reads of the
   cache can take it away. This is the look-up of the schema alone. A typed reader may be refused a field before
   it comes to that (fieldNotFound): it goes by the names in the metadata it got, which may be cached and older than
   the object, and asks nobody again (BuildReader). *)
SchemaFound == \A p \in Procs : out[p] \in {"noSchema", "noMetadata"} => p \in disturbed

(* The registry is a replica that grows towards the cluster's metadata. *)
Replica == INSTANCE GrowingReplica WITH source <- node, replica <- cache
ReplicaOfNode == Replica!Spec
=============================================================================
