----------------------- MODULE MetadataRegistryProofs -----------------------
(* What holds of the registry for any goroutines, types and clients. *)
EXTENDS MetadataRegistry, TLAPS

(* A fact about a field is the record of its field and its type. *)
LEMMA FieldFactForm ==
    ASSUME NEW m, m \subseteq Fact, NEW x \in FieldFacts(m)
    PROVE  /\ x = [field |-> x.field, type |-> x.type]
           /\ x.field \in Fields /\ x.type \in FieldTypes
  BY DEF Fact, FieldFacts

LEMMA TypeOfFieldTyped ==
    ASSUME NEW o \in WriteOps, NEW m, m \subseteq Fact, NEW f \in Fields
    PROVE  TypeOfField(o, m, f) \in FieldTypes
<1>1. CASE o.types[f] # NilValue
  BY <1>1 DEF TypeOfField, WriteOps
<1>2. CASE o.types[f] = NilValue /\ f \in FieldNames(m)
  <2>1. PICK x \in FieldFacts(m) : x.field = f
    BY <1>2 DEF FieldNames
  <2>2. (CHOOSE y \in FieldFacts(m) : y.field = f) \in FieldFacts(m)
    BY <2>1
  <2> QED BY <1>2, <2>2, FieldFactForm DEF TypeOfField
<1>3. CASE o.types[f] = NilValue /\ f \notin FieldNames(m)
  BY <1>3, RegistryAssumption DEF TypeOfField
<1> QED BY <1>1, <1>2, <1>3

LEMMA NewMetaTyped ==
    ASSUME NEW o \in WriteOps, NEW m, m \subseteq Fact
    PROVE  NewMeta(o, m) \subseteq Fact /\ FactsOf(o, m) \subseteq Fact
<1>1. o.header \in Headers /\ o.schema \in Schemas
  BY DEF WriteOps, ObjectHeaders, Headers
<1>2. FieldsOf[o.schema] \subseteq Fields
  BY <1>1, RegistryAssumption
<1>3. \A f \in FieldsOf[o.schema] : TypeOfField(o, m, f) \in FieldTypes
  BY <1>2, TypeOfFieldTyped
<1> QED BY <1>1, <1>2, <1>3 DEF NewMeta, FactsOf, Fact

LEMMA EnumMetaTyped ==
    ASSUME NEW o \in EnumOps
    PROVE  EnumMeta(o) \subseteq Fact
<1>1. o.header \in Headers /\ o.consts \subseteq OrdFacts(Fact)
  BY DEF EnumOps, EnumHeaders, Headers
<1>2. OrdFacts(Fact) \subseteq Fact /\ [header |-> o.header] \in Fact
  BY <1>1 DEF OrdFacts, Fact
<1> QED BY <1>1, <1>2 DEF EnumMeta

LEMMA KindsApart ==
    ASSUME NEW o \in Writes \cup Enums \cup ReadOps \cup {Idle, ClassName}
    PROVE  /\ o.kind = "write" => o \in WriteOps
           /\ o.kind \in {"enum", "newEnum", "registerEnum"} => o \in EnumOps
           /\ o.kind \in {"readField", "readTyped"} => o \in ReadOps
  BY OperationsAssumption DEF WriteOps, EnumOps, ReadOps, Idle, ClassName

LEMMA CachePutTyped ==
    ASSUME NEW m, m \subseteq Fact, cache \subseteq Fact, CachePut(m)
    PROVE  cache' \subseteq Fact
  BY DEF CachePut

(***************************************************************************)
(* Which operations are where: a goroutine that registers something has an *)
(* operation with a header, one that reads a schema is reading a field.    *)
(***************************************************************************)
Writing == {"write", "enum", "newEnum", "registerEnum"}

OpFits ==
    \A p \in Procs :
        /\ pc[p] \in {"merge", "send", "acked", "store", "sendName", "named"} => op[p].kind \in Writing
        /\ pc[p] = "name" => op[p].kind \in Writing \cup {"className"}

LEMMA HeaderTyped ==
    ASSUME TypeOK, OpFits, NEW p \in Procs, pc[p] \in {"sendName", "named"}
    PROVE  op[p].header.typeName \in TypeNames
<1>1. op[p] \in WriteOps \cup EnumOps
  BY KindsApart DEF TypeOK, OpFits, Writing
<1> QED BY <1>1 DEF WriteOps, EnumOps, ObjectHeaders, EnumHeaders

LEMMA TypeStep ==
    ASSUME TypeOK, OpFits, [Next]_vars
    PROVE  TypeOK'
<1> USE DEF shared, history
<1>1. ASSUME NEW p \in Procs, NEW o \in Writes \cup Enums \cup ReadOps \cup {ClassName}, Begin(p, o)
      PROVE  TypeOK'
  BY <1>1 DEF Begin, TypeOK
<1>2. ASSUME NEW p \in Procs, Lookup(p)
      PROVE  TypeOK'
  BY <1>2 DEF Lookup, Goto, TypeOK
<1>3. ASSUME NEW p \in Procs, LookupSchema(p)
      PROVE  TypeOK'
  BY <1>3 DEF LookupSchema, Goto, Return, TypeOK
<1>4. ASSUME NEW p \in Procs, NodeGet(p)
      PROVE  TypeOK'
  BY <1>4 DEF NodeGet, Goto, TypeOK
<1>5. ASSUME NEW p \in Procs, Reply(p)
      PROVE  TypeOK'
  <2>1. meta[p] \subseteq Fact /\ cache \subseteq Fact
    BY DEF TypeOK
  <2>2. Merged(cache, meta[p]) \subseteq Fact
    BY <2>1 DEF Merged
  <2>3. cache' \subseteq Fact
    BY <1>5, <2>1, CachePutTyped DEF Reply
  <2> QED BY <1>5, <2>1, <2>2, <2>3 DEF Reply, Goto, TypeOK
<1>6. ASSUME NEW p \in Procs, LookupAgain(p)
      PROVE  TypeOK'
  BY <1>6 DEF LookupAgain, Return, TypeOK
<1>7. ASSUME NEW p \in Procs, BuildObject(p)
      PROVE  TypeOK'
  <2>1. NewMeta(op[p], old[p]) \subseteq Fact
    BY <1>7, KindsApart, NewMetaTyped DEF BuildObject, TypeOK
  <2> QED BY <1>7, <2>1 DEF BuildObject, Goto, Return, TypeOK
<1>8. ASSUME NEW p \in Procs, BuildEnum(p)
      PROVE  TypeOK'
  <2>1. EnumMeta(op[p]) \subseteq Fact
    BY <1>8, KindsApart, EnumMetaTyped DEF BuildEnum, TypeOK
  <2> QED BY <1>8, <2>1 DEF BuildEnum, Goto, Return, TypeOK
<1>9. ASSUME NEW p \in Procs, BuildReader(p)
      PROVE  TypeOK'
  <2>1. [op[p] EXCEPT !.kind = "readField"] \in ReadOps
    BY <1>9, KindsApart DEF BuildReader, TypeOK, ReadOps
  <2> QED BY <1>9, <2>1 DEF BuildReader, Return, TypeOK
<1>10. ASSUME NEW p \in Procs, MergeWithCached(p)
       PROVE  TypeOK'
  <2>1. Merged(cache, meta[p]) \subseteq Fact
    BY DEF Merged, TypeOK
  <2> QED BY <1>10, <2>1 DEF MergeWithCached, Goto, Return, TypeOK
<1>11. ASSUME NEW p \in Procs, NodePut(p)
       PROVE  TypeOK'
  BY <1>11 DEF NodePut, Goto, Return, TypeOK
<1>12. ASSUME NEW p \in Procs, Store(p)
       PROVE  TypeOK'
  <2>1. cache' \subseteq Fact
    BY <1>12, CachePutTyped DEF Store, TypeOK
  <2> QED BY <1>12, <2>1 DEF Store, Goto, Return, TypeOK
<1>13. ASSUME NEW p \in Procs, LookupName(p)
       PROVE  TypeOK'
  <2>1. Written(p) \subseteq Fact
    BY KindsApart, NewMetaTyped DEF Written, TypeOK
  <2> QED BY <1>13, <2>1 DEF LookupName, Goto, Return, TypeOK
<1>14. ASSUME NEW p \in Procs, NodeRegistersName(p)
       PROVE  TypeOK'
  <2>1. Written(p) \subseteq Fact
    BY KindsApart, NewMetaTyped DEF Written, TypeOK
  <2> QED BY <1>14, <2>1, HeaderTyped DEF NodeRegistersName, Goto, Return, TypeOK
<1>15. ASSUME NEW p \in Procs, StoreName(p)
       PROVE  TypeOK'
  <2>1. Written(p) \subseteq Fact
    BY KindsApart, NewMetaTyped DEF Written, TypeOK
  <2> QED BY <1>15, <2>1, HeaderTyped DEF StoreName, Return, TypeOK
<1>16. ASSUME NEW p \in Procs, AskName(p)
       PROVE  TypeOK'
  BY <1>16 DEF AskName, Return, TypeOK
<1>17. ASSUME NEW p \in Procs, RequestFails(p)
       PROVE  TypeOK'
  BY <1>17 DEF RequestFails, Return, TypeOK
<1>18. CASE Clear
  BY <1>18, RegistryAssumption DEF Clear, TypeOK
<1>19. CASE ForeignPut
  BY <1>19, ForeignAssumption DEF ForeignPut, TypeOK, IsMetadata
<1>20. CASE UNCHANGED vars
  BY <1>20 DEF vars, TypeOK
<1> QED BY <1>1, <1>2, <1>3, <1>4, <1>5, <1>6, <1>7, <1>8, <1>9, <1>10, <1>11, <1>12, <1>13,
           <1>14, <1>15, <1>16, <1>17, <1>18, <1>19, <1>20 DEF Next, Step

LEMMA OpStep ==
    ASSUME TypeOK, OpFits, [Next]_vars
    PROVE  OpFits'
<1> USE DEF shared, history
<1>1. ASSUME NEW p \in Procs, NEW o \in Writes \cup Enums \cup ReadOps \cup {ClassName}, Begin(p, o)
      PROVE  OpFits'
  BY <1>1 DEF Begin, TypeOK, OpFits, Writing
<1>2. ASSUME NEW p \in Procs, Lookup(p)
      PROVE  OpFits'
  BY <1>2 DEF Lookup, Goto, Return, TypeOK, OpFits, Writing
<1>3. ASSUME NEW p \in Procs, LookupSchema(p)
      PROVE  OpFits'
  BY <1>3 DEF LookupSchema, Goto, Return, TypeOK, OpFits, Writing
<1>4. ASSUME NEW p \in Procs, NodeGet(p)
      PROVE  OpFits'
  BY <1>4 DEF NodeGet, Goto, Return, TypeOK, OpFits, Writing
<1>5. ASSUME NEW p \in Procs, Reply(p)
      PROVE  OpFits'
  BY <1>5 DEF Reply, Goto, Return, TypeOK, OpFits, Writing
<1>6. ASSUME NEW p \in Procs, LookupAgain(p)
      PROVE  OpFits'
  BY <1>6 DEF LookupAgain, Goto, Return, TypeOK, OpFits, Writing
<1>7. ASSUME NEW p \in Procs, BuildObject(p)
      PROVE  OpFits'
  BY <1>7 DEF BuildObject, Goto, Return, TypeOK, OpFits, Writing
<1>8. ASSUME NEW p \in Procs, BuildEnum(p)
      PROVE  OpFits'
  BY <1>8 DEF BuildEnum, Goto, Return, TypeOK, OpFits, Writing
<1>9. ASSUME NEW p \in Procs, BuildReader(p)
      PROVE  OpFits'
  BY <1>9 DEF BuildReader, Goto, Return, TypeOK, OpFits, Writing
<1>10. ASSUME NEW p \in Procs, MergeWithCached(p)
      PROVE  OpFits'
  BY <1>10 DEF MergeWithCached, Goto, Return, TypeOK, OpFits, Writing
<1>11. ASSUME NEW p \in Procs, NodePut(p)
      PROVE  OpFits'
  BY <1>11 DEF NodePut, Goto, Return, TypeOK, OpFits, Writing
<1>12. ASSUME NEW p \in Procs, Store(p)
      PROVE  OpFits'
  BY <1>12 DEF Store, Goto, Return, TypeOK, OpFits, Writing
<1>13. ASSUME NEW p \in Procs, LookupName(p)
      PROVE  OpFits'
  BY <1>13 DEF LookupName, Goto, Return, TypeOK, OpFits, Writing
<1>14. ASSUME NEW p \in Procs, NodeRegistersName(p)
      PROVE  OpFits'
  BY <1>14 DEF NodeRegistersName, Goto, Return, TypeOK, OpFits, Writing
<1>15. ASSUME NEW p \in Procs, StoreName(p)
      PROVE  OpFits'
  BY <1>15 DEF StoreName, Goto, Return, TypeOK, OpFits, Writing
<1>16. ASSUME NEW p \in Procs, AskName(p)
      PROVE  OpFits'
  BY <1>16 DEF AskName, Goto, Return, TypeOK, OpFits, Writing
<1>17. ASSUME NEW p \in Procs, RequestFails(p)
      PROVE  OpFits'
  BY <1>17 DEF RequestFails, Goto, Return, TypeOK, OpFits, Writing
<1>18. CASE Clear
  BY <1>18 DEF Clear, TypeOK, OpFits, Writing
<1>19. CASE ForeignPut
  BY <1>19 DEF ForeignPut, TypeOK, OpFits, Writing
<1>20. CASE UNCHANGED vars
  BY <1>20 DEF vars, TypeOK, OpFits, Writing
<1> QED BY <1>1, <1>2, <1>3, <1>4, <1>5, <1>6, <1>7, <1>8, <1>9, <1>10, <1>11, <1>12, <1>13,
           <1>14, <1>15, <1>16, <1>17, <1>18, <1>19, <1>20 DEF Next, Step

(* Every variable keeps its type (the registry and its users).             *)
THEOREM TypeCorrect == Spec => []TypeOK
<1>1. Init => TypeOK /\ OpFits
  BY RegistryAssumption DEF Init, TypeOK, OpFits
<1>2. TypeOK /\ OpFits /\ [Next]_vars => TypeOK' /\ OpFits'
  BY TypeStep, OpStep
<1> QED BY <1>1, <1>2, PTL DEF Spec

(***************************************************************************)
(* The inductive invariant: what a goroutine has read of the metadata, and *)
(* what it is about to put into the cache, the cluster knows; what it is   *)
(* about to send holds, together with what the cluster knows, everything   *)
(* its object needs, also the fields that NewMeta leaves out because they  *)
(* were in the metadata it had read.                                       *)
(***************************************************************************)
Known ==
    /\ cache \subseteq node /\ objects \subseteq node
    /\ \A p \in Procs :
          /\ old[p] \subseteq node
          /\ pc[p] \in {"reply", "acked", "store"} => meta[p] \subseteq node
          /\ op[p].kind = "write" /\ pc[p] \in {"merge", "send"} =>
                 FactsOf(op[p], old[p]) \subseteq meta[p] \cup node
          /\ op[p].kind = "write" /\ pc[p] \in {"acked", "store", "name", "sendName", "named"} =>
                 FactsOf(op[p], old[p]) \subseteq node

(* What an object needs is in its own metadata, or in what was known. *)
LEMMA NewMetaCovers ==
    ASSUME NEW o \in WriteOps, NEW m, m \subseteq Fact, ~WriteRefused(o, m)
    PROVE  FactsOf(o, m) \subseteq NewMeta(o, m) \cup m
<1>1. SUFFICES ASSUME NEW f \in FieldsOf[o.schema], f \in FieldNames(m)
               PROVE  [field |-> f, type |-> TypeOfField(o, m, f)] \in m
  BY DEF FactsOf, NewMeta
<1>2. PICK x \in FieldFacts(m) : x.field = f
  BY <1>1 DEF FieldNames
<1>3. x.type = TypeOfField(o, m, f)
  BY <1>1, <1>2 DEF WriteRefused
<1>4. x \in m
  BY DEF FieldFacts
<1> QED BY <1>2, <1>3, <1>4, FieldFactForm

LEMMA KnownStep ==
    ASSUME TypeOK, OpFits, Known, [Next]_vars
    PROVE  Known'
<1> USE DEF shared, history
<1>1. ASSUME NEW p \in Procs, NEW o \in Writes \cup Enums \cup ReadOps \cup {ClassName}, Begin(p, o)
      PROVE  Known'
  BY <1>1 DEF Begin, TypeOK, Known
<1>2. ASSUME NEW p \in Procs, Lookup(p)
      PROVE  Known'
  BY <1>2 DEF Lookup, Goto, Return, TypeOK, Known
<1>3. ASSUME NEW p \in Procs, LookupSchema(p)
      PROVE  Known'
  BY <1>3 DEF LookupSchema, Goto, Return, TypeOK, Known
<1>4. ASSUME NEW p \in Procs, NodeGet(p)
      PROVE  Known'
  BY <1>4 DEF NodeGet, Goto, Return, TypeOK, Known
<1>5. ASSUME NEW p \in Procs, Reply(p)
      PROVE  Known'
<2>1. meta[p] \subseteq node /\ cache \subseteq node /\ pc[p] = "reply"
  BY <1>5 DEF Reply, Known
<2>2. cache' \subseteq node
  BY <1>5, <2>1 DEF Reply, CachePut
<2>3. old'[p] \subseteq node
  BY <1>5, <2>1 DEF Reply, Merged, TypeOK
<2> QED BY <1>5, <2>2, <2>3 DEF Reply, Goto, TypeOK, Known
<1>6. ASSUME NEW p \in Procs, LookupAgain(p)
      PROVE  Known'
  BY <1>6 DEF LookupAgain, Goto, Return, TypeOK, Known
<1>7. ASSUME NEW p \in Procs, BuildObject(p)
      PROVE  Known'
<2>1. CASE WriteRefused(op[p], old[p])
  BY <1>7, <2>1 DEF BuildObject, Return, TypeOK, Known
<2>2. CASE ~WriteRefused(op[p], old[p])
  <3>1. /\ meta' = [meta EXCEPT ![p] = NewMeta(op[p], old[p])]
        /\ pc' = [pc EXCEPT ![p] = "merge"] /\ UNCHANGED <<op, old, cache, objects, node>>
    BY <1>7, <2>2 DEF BuildObject, Return, Goto
  <3>2. op[p] \in WriteOps
    BY <1>7, KindsApart DEF BuildObject, TypeOK
  <3>3. FactsOf(op[p], old[p]) \subseteq NewMeta(op[p], old[p]) \cup old[p]
    BY <2>2, <3>2, NewMetaCovers DEF TypeOK
  <3> QED BY <3>1, <3>3 DEF TypeOK, Known
<2> QED BY <2>1, <2>2
<1>8. ASSUME NEW p \in Procs, BuildEnum(p)
      PROVE  Known'
  BY <1>8 DEF BuildEnum, Goto, Return, TypeOK, Known
<1>9. ASSUME NEW p \in Procs, BuildReader(p)
      PROVE  Known'
  BY <1>9 DEF BuildReader, Goto, Return, TypeOK, Known
<1>10. ASSUME NEW p \in Procs, MergeWithCached(p)
      PROVE  Known'
<2>1. CASE MergeFails(cache, meta[p])
  BY <1>10, <2>1 DEF MergeWithCached, Return, TypeOK, Known
<2>2. CASE ~MergeFails(cache, meta[p])
  <3>1. /\ pc[p] = "merge"
        /\ meta' = [meta EXCEPT ![p] = Merged(cache, meta[p])]
        /\ pc' = [pc EXCEPT ![p] = IF Changed(cache, meta[p]) THEN "send" ELSE "store"]
        /\ UNCHANGED <<op, old, cache, objects, node>>
    BY <1>10, <2>2 DEF MergeWithCached, Goto
  <3>2. meta[p] \subseteq Merged(cache, meta[p])
    BY DEF Merged
  <3>3. ~Changed(cache, meta[p]) => Merged(cache, meta[p]) \subseteq node /\ meta[p] \subseteq node
    BY DEF Merged, Changed, Known
  <3>4. op[p].kind = "write" => FactsOf(op[p], old[p]) \subseteq meta[p] \cup node
    BY <3>1 DEF Known
  <3>5. \A q \in Procs : q # p => pc'[q] = pc[q] /\ meta'[q] = meta[q]
    BY <3>1 DEF TypeOK
  <3>6. meta'[p] = Merged(cache, meta[p]) /\ pc'[p] = IF Changed(cache, meta[p]) THEN "send" ELSE "store"
    BY <3>1 DEF TypeOK
  <3>7. /\ op[p].kind = "write" /\ pc'[p] = "send" => FactsOf(op[p], old[p]) \subseteq meta'[p] \cup node
        /\ op[p].kind = "write" /\ pc'[p] = "store" => FactsOf(op[p], old[p]) \subseteq node
        /\ pc'[p] = "store" => meta'[p] \subseteq node
        /\ pc'[p] \in {"send", "store"}
    BY <3>2, <3>3, <3>4, <3>6
  <3> QED BY <3>1, <3>5, <3>7 DEF Known
<2> QED BY <2>1, <2>2
<1>11. ASSUME NEW p \in Procs, NodePut(p)
      PROVE  Known'
  BY <1>11 DEF NodePut, Goto, Return, TypeOK, Known
<1>12. ASSUME NEW p \in Procs, Store(p)
      PROVE  Known'
<2>1. meta[p] \subseteq node /\ cache \subseteq node
  BY <1>12 DEF Store, Known
<2>2. cache' \subseteq node
  BY <1>12, <2>1 DEF Store, CachePut
<2>3. /\ op[p].kind = "write" => FactsOf(op[p], old[p]) \subseteq node
      /\ UNCHANGED <<node, objects>>
  BY <1>12 DEF Store, Known
<2>4. \/ pc' = [pc EXCEPT ![p] = "name"] /\ UNCHANGED <<op, old, meta>>
      \/ Return(p, "refused") \/ Return(p, "ok")
  BY <1>12 DEF Store, Goto
<2> QED BY <2>2, <2>3, <2>4 DEF Return, TypeOK, Known
<1>13. ASSUME NEW p \in Procs, LookupName(p)
      PROVE  Known'
<2>1. Written(p) \subseteq node
  BY <1>13 DEF LookupName, Written, Known
<2>2. objects' \subseteq node
  BY <1>13, <2>1 DEF LookupName, Known
<2> QED BY <1>13, <2>2 DEF LookupName, Goto, Return, TypeOK, Known
<1>14. ASSUME NEW p \in Procs, NodeRegistersName(p)
      PROVE  Known'
<2>1. Written(p) \subseteq node
  BY <1>14 DEF NodeRegistersName, Written, Known
<2>2. objects' \subseteq node
  BY <1>14, <2>1 DEF NodeRegistersName, Known
<2> QED BY <1>14, <2>2 DEF NodeRegistersName, Goto, Return, TypeOK, Known
<1>15. ASSUME NEW p \in Procs, StoreName(p)
      PROVE  Known'
<2>1. Written(p) \subseteq node
  BY <1>15 DEF StoreName, Written, Known
<2>2. objects' \subseteq node
  BY <1>15, <2>1 DEF StoreName, Known
<2> QED BY <1>15, <2>2 DEF StoreName, Goto, Return, TypeOK, Known
<1>16. ASSUME NEW p \in Procs, AskName(p)
      PROVE  Known'
  BY <1>16 DEF AskName, Goto, Return, TypeOK, Known
<1>17. ASSUME NEW p \in Procs, RequestFails(p)
      PROVE  Known'
  BY <1>17 DEF RequestFails, Goto, Return, TypeOK, Known
<1>18. CASE Clear
  BY <1>18 DEF Clear, TypeOK, Known
<1>19. CASE ForeignPut
  BY <1>19 DEF ForeignPut, TypeOK, Known
<1>20. CASE UNCHANGED vars
  BY <1>20 DEF vars, TypeOK, Known
<1> QED BY <1>1, <1>2, <1>3, <1>4, <1>5, <1>6, <1>7, <1>8, <1>9, <1>10, <1>11, <1>12, <1>13,
           <1>14, <1>15, <1>16, <1>17, <1>18, <1>19, <1>20 DEF Next, Step

LEMMA Invariance == Spec => [](TypeOK /\ OpFits /\ Known)
<1>1. Init => TypeOK /\ OpFits /\ Known
  BY RegistryAssumption DEF Init, TypeOK, OpFits, Known
<1>2. TypeOK /\ OpFits /\ Known /\ [Next]_vars => TypeOK' /\ OpFits' /\ Known'
  BY TypeStep, OpStep, KnownStep
<1> QED BY <1>1, <1>2, PTL DEF Spec

(* putMetadata's two reads of the cache, around the request to the cluster, never let the cache hold what
   the cluster does not know. *)
THEOREM CacheStaysWithinNode == Spec => []CacheWithinNode
<1>1. Known => CacheWithinNode
  BY DEF Known, CacheWithinNode
<1> QED BY <1>1, Invariance, PTL

(* The cluster knows the schema and the fields of every object that was written with success. *)
THEOREM WrittenStaysKnown == Spec => []WrittenIsKnown
<1>1. Known => WrittenIsKnown
  BY DEF Known, WrittenIsKnown
<1> QED BY <1>1, Invariance, PTL

(* The detailed registry implements the growing replica: each step of it extends the source, extends the
   replica with what the source holds, empties the replica, or changes neither. *)
THEOREM RegistryIsReplica == Spec => ReplicaOfNode
<1>1. Init => Replica!Init
  BY DEF Init, Replica!Init
<1>2. ASSUME TypeOK, Known, Known', [Next]_vars
      PROVE  [Replica!Next]_<<node, cache>>
  <2> SUFFICES Replica!SourceGrows \/ Replica!Learn \/ Replica!Forget \/ UNCHANGED <<node, cache>>
    BY DEF Replica!Next
  <2>1. ASSUME NEW p \in Procs, CachePut(meta[p]), UNCHANGED node
        PROVE  Replica!Learn
    BY <1>2, <2>1 DEF CachePut, Known, Replica!Learn
  <2>2. ASSUME NEW p \in Procs, Step(p)
        PROVE  \/ \E q \in Procs : CachePut(meta[q]) /\ UNCHANGED node
               \/ node \subseteq node' /\ UNCHANGED cache
    BY <2>2 DEF Step, shared, Begin, Lookup, LookupSchema, NodeGet, Reply, LookupAgain, BuildObject, BuildEnum,
       BuildReader, MergeWithCached, NodePut, Store, LookupName, NodeRegistersName, StoreName, AskName, RequestFails
  <2>3. CASE Clear
    BY <2>3 DEF Clear, Replica!Forget
  <2>4. CASE ForeignPut
    BY <2>4 DEF ForeignPut, Replica!SourceGrows
  <2>5. CASE UNCHANGED vars
    BY <2>5 DEF vars
  <2> QED BY <1>2, <2>1, <2>2, <2>3, <2>4, <2>5 DEF Next, Replica!SourceGrows
<1> QED BY <1>1, <1>2, Invariance, PTL DEF Spec, ReplicaOfNode, Replica!Spec
(***************************************************************************)
(* SchemaFound rests on metadata that cannot be refused: what the cluster  *)
(* and the cache hold is one binaryMetadata or nothing, so that the parts  *)
(* of an object's metadata never contradict one another.                   *)
(***************************************************************************)
NoneOrMetadata(m) == m = {} \/ IsMetadata(m)

WellFormed == NoneOrMetadata(node) /\ NoneOrMetadata(cache) /\ \A p \in Procs : NoneOrMetadata(meta[p])

LEMMA HeadersAgree ==
    ASSUME NEW m, NEW n, IsMetadata(m), IsMetadata(n), ~MergeFails(m, n)
    PROVE  HeaderFacts(m) = HeaderFacts(n)
<1>1. PICK h \in Headers : HeaderFacts(m) = {[header |-> h]}
  BY DEF IsMetadata
<1>2. PICK g \in Headers : HeaderFacts(n) = {[header |-> g]}
  BY DEF IsMetadata
<1>3. /\ [header |-> h] \in m /\ DOMAIN [header |-> h] = {"header"}
      /\ [header |-> g] \in n /\ DOMAIN [header |-> g] = {"header"}
  BY <1>1, <1>2 DEF HeaderFacts
<1>4. [header |-> h] = [header |-> g]
  BY <1>3 DEF MergeFails, Conflict
<1> QED BY <1>1, <1>2, <1>4

LEMMA MergedWellFormed ==
    ASSUME NEW m, NEW n, NoneOrMetadata(m), NoneOrMetadata(n), ~MergeFails(m, n)
    PROVE  NoneOrMetadata(m \cup n) /\ NoneOrMetadata(Merged(m, n))
<1>1. CASE m = {} \/ n = {}
  <2>1. m \cup n \in {m, n}
    BY <1>1
  <2> QED BY <2>1 DEF Merged
<1>2. CASE IsMetadata(m) /\ IsMetadata(n)
  <2>1. HeaderFacts(m) = HeaderFacts(n) /\ HeaderFacts(m \cup n) = HeaderFacts(m)
    BY <1>2, HeadersAgree DEF HeaderFacts
  <2>2. PICK h \in Headers : /\ HeaderFacts(m) = {[header |-> h]}
                             /\ h.isEnum => m = HeaderFacts(m) \cup OrdFacts(m)
                             /\ ~h.isEnum => OrdFacts(m) = {} /\ \A x, y \in FieldFacts(m) : x.field = y.field => x = y
    BY <1>2 DEF IsMetadata
  <2>3. PICK g \in Headers : /\ HeaderFacts(n) = {[header |-> g]}
                             /\ g.isEnum => n = HeaderFacts(n) \cup OrdFacts(n)
                             /\ ~g.isEnum => OrdFacts(n) = {} /\ \A x, y \in FieldFacts(n) : x.field = y.field => x = y
    BY <1>2 DEF IsMetadata
  <2>4. [header |-> g] = [header |-> h]
    BY <2>1, <2>2, <2>3
  <2>5. g = h
    BY <2>4
  <2>6. h.isEnum => m \cup n = HeaderFacts(m \cup n) \cup OrdFacts(m \cup n)
    BY <2>1, <2>2, <2>3, <2>5 DEF OrdFacts
  <2>7. ~h.isEnum => OrdFacts(m \cup n) = {}
    BY <2>2, <2>3, <2>5 DEF OrdFacts
  <2>8. ASSUME ~h.isEnum, NEW x \in FieldFacts(m \cup n), NEW y \in FieldFacts(m \cup n), x.field = y.field
        PROVE  x = y
    <3>1. m \subseteq Fact /\ n \subseteq Fact
      BY <1>2 DEF IsMetadata
    <3>2. x = [field |-> x.field, type |-> x.type] /\ y = [field |-> y.field, type |-> y.type]
      BY <3>1, <2>8, FieldFactForm
    <3>3. \A u \in FieldFacts(m), v \in FieldFacts(n) : u.field = v.field => u.type = v.type
      BY DEF MergeFails, Conflict, FieldFacts
    <3>4. FieldFacts(m \cup n) = FieldFacts(m) \cup FieldFacts(n)
      BY DEF FieldFacts
    <3>5. x.type = y.type
      BY <3>3, <3>4, <2>2, <2>3, <2>5, <2>8
    <3> QED BY <3>2, <3>5, <2>8
  <2>9. IsMetadata(m \cup n)
    BY <1>2, <2>1, <2>2, <2>6, <2>7, <2>8 DEF IsMetadata
  <2> QED BY <1>2, <2>9 DEF NoneOrMetadata, Merged
<1> QED BY <1>1, <1>2 DEF NoneOrMetadata

LEMMA NewMetaWellFormed ==
    ASSUME NEW o \in WriteOps, NEW m, m \subseteq Fact
    PROVE  IsMetadata(NewMeta(o, m))
<1>1. NewMeta(o, m) \subseteq Fact
  BY NewMetaTyped
<1>2. o.header \in Headers /\ ~o.header.isEnum
  BY DEF WriteOps, ObjectHeaders, Headers
<1>3. HeaderFacts(NewMeta(o, m)) = {[header |-> o.header]}
  BY DEF HeaderFacts, NewMeta
<1>4. OrdFacts(NewMeta(o, m)) = {}
  BY DEF OrdFacts, NewMeta
<1>5. ASSUME NEW x \in FieldFacts(NewMeta(o, m)), NEW y \in FieldFacts(NewMeta(o, m)), x.field = y.field
      PROVE  x = y
  <2>1. x = [field |-> x.field, type |-> TypeOfField(o, m, x.field)]
    BY <1>5 DEF FieldFacts, NewMeta
  <2>2. y = [field |-> y.field, type |-> TypeOfField(o, m, y.field)]
    BY <1>5 DEF FieldFacts, NewMeta
  <2> QED BY <1>5, <2>1, <2>2
<1> QED BY <1>1, <1>2, <1>3, <1>4, <1>5 DEF IsMetadata

LEMMA EnumMetaWellFormed ==
    ASSUME NEW o \in EnumOps
    PROVE  IsMetadata(EnumMeta(o))
<1>1. EnumMeta(o) \subseteq Fact
  BY EnumMetaTyped
<1>2. o.header \in Headers /\ o.header.isEnum /\ o.consts \subseteq OrdFacts(Fact)
  BY DEF EnumOps, EnumHeaders, Headers
<1>3. HeaderFacts(EnumMeta(o)) = {[header |-> o.header]} /\ OrdFacts(EnumMeta(o)) = o.consts
  BY <1>2 DEF HeaderFacts, EnumMeta, OrdFacts
<1> QED BY <1>1, <1>2, <1>3 DEF IsMetadata, EnumMeta

(* The metadata of a type with a schema is never refused by what was read of it before. *)
LEMMA PartsMerge ==
    ASSUME NEW n, NoneOrMetadata(n), NEW s, [schema |-> s] \in n, NEW x, x \subseteq n, NEW y, y \subseteq n
    PROVE  ~MergeFails(x, y)
<1>1. IsMetadata(n)
  BY DEF NoneOrMetadata
<1>2. PICK h \in Headers : /\ HeaderFacts(n) = {[header |-> h]}
                           /\ h.isEnum => n = HeaderFacts(n) \cup OrdFacts(n)
                           /\ ~h.isEnum => OrdFacts(n) = {} /\ \A u, v \in FieldFacts(n) : u.field = v.field => u = v
  BY <1>1 DEF IsMetadata
<1>3. ~h.isEnum
  BY <1>2 DEF HeaderFacts, OrdFacts
<1>4. ASSUME NEW u \in n, NEW v \in n PROVE ~Conflict(u, v)
  BY <1>2, <1>3, <1>4 DEF Conflict, HeaderFacts, OrdFacts, FieldFacts
<1> QED BY <1>4 DEF MergeFails
LEMMA WellFormedStep ==
    ASSUME TypeOK, OpFits, WellFormed, [Next]_vars
    PROVE  WellFormed'
<1> USE DEF shared, history
<1>1. ASSUME NEW p \in Procs, NEW o \in Writes \cup Enums \cup ReadOps \cup {ClassName}, Begin(p, o)
      PROVE  WellFormed'
  BY <1>1 DEF Begin, TypeOK, WellFormed, NoneOrMetadata
<1>2. ASSUME NEW p \in Procs, Lookup(p)
      PROVE  WellFormed'
  BY <1>2 DEF Lookup, Goto, Return, TypeOK, WellFormed, NoneOrMetadata
<1>3. ASSUME NEW p \in Procs, LookupSchema(p)
      PROVE  WellFormed'
  BY <1>3 DEF LookupSchema, Goto, Return, TypeOK, WellFormed, NoneOrMetadata
<1>4. ASSUME NEW p \in Procs, NodeGet(p)
      PROVE  WellFormed'
  BY <1>4 DEF NodeGet, Goto, Return, TypeOK, WellFormed, NoneOrMetadata
<1>5. ASSUME NEW p \in Procs, Reply(p)
      PROVE  WellFormed'
  <2>1. NoneOrMetadata(cache')
    BY <1>5, MergedWellFormed DEF Reply, CachePut, WellFormed
  <2> QED BY <1>5, <2>1 DEF Reply, Goto, TypeOK, WellFormed, NoneOrMetadata
<1>6. ASSUME NEW p \in Procs, LookupAgain(p)
      PROVE  WellFormed'
  BY <1>6 DEF LookupAgain, Goto, Return, TypeOK, WellFormed, NoneOrMetadata
<1>7. ASSUME NEW p \in Procs, BuildObject(p)
      PROVE  WellFormed'
  <2>1. IsMetadata(NewMeta(op[p], old[p]))
    BY <1>7, KindsApart, NewMetaWellFormed DEF BuildObject, TypeOK
  <2> QED BY <1>7, <2>1 DEF BuildObject, Goto, Return, TypeOK, WellFormed, NoneOrMetadata
<1>8. ASSUME NEW p \in Procs, BuildEnum(p)
      PROVE  WellFormed'
  <2>1. IsMetadata(EnumMeta(op[p]))
    BY <1>8, KindsApart, EnumMetaWellFormed DEF BuildEnum, TypeOK
  <2> QED BY <1>8, <2>1 DEF BuildEnum, Goto, Return, TypeOK, WellFormed, NoneOrMetadata
<1>9. ASSUME NEW p \in Procs, BuildReader(p)
      PROVE  WellFormed'
  BY <1>9 DEF BuildReader, Goto, Return, TypeOK, WellFormed, NoneOrMetadata
<1>10. ASSUME NEW p \in Procs, MergeWithCached(p)
      PROVE  WellFormed'
  <2>1. ~MergeFails(cache, meta[p]) => NoneOrMetadata(Merged(cache, meta[p]))
    BY MergedWellFormed DEF WellFormed
  <2> QED BY <1>10, <2>1 DEF MergeWithCached, Goto, Return, TypeOK, WellFormed, NoneOrMetadata
<1>11. ASSUME NEW p \in Procs, NodePut(p)
      PROVE  WellFormed'
  <2>1. ~MergeFails(node, meta[p]) => NoneOrMetadata(node \cup meta[p])
    BY MergedWellFormed DEF WellFormed
  <2> QED BY <1>11, <2>1 DEF NodePut, Goto, Return, TypeOK, WellFormed, NoneOrMetadata
<1>12. ASSUME NEW p \in Procs, Store(p)
      PROVE  WellFormed'
  <2>1. NoneOrMetadata(cache')
    BY <1>12, MergedWellFormed DEF Store, CachePut, WellFormed
  <2>2. UNCHANGED node /\ (UNCHANGED meta \/ meta' = [meta EXCEPT ![p] = {}])
    BY <1>12 DEF Store, Goto, Return
  <2> QED BY <2>1, <2>2 DEF TypeOK, WellFormed, NoneOrMetadata
<1>13. ASSUME NEW p \in Procs, LookupName(p)
      PROVE  WellFormed'
  BY <1>13 DEF LookupName, Goto, Return, TypeOK, WellFormed, NoneOrMetadata
<1>14. ASSUME NEW p \in Procs, NodeRegistersName(p)
      PROVE  WellFormed'
  BY <1>14 DEF NodeRegistersName, Goto, Return, TypeOK, WellFormed, NoneOrMetadata
<1>15. ASSUME NEW p \in Procs, StoreName(p)
      PROVE  WellFormed'
  BY <1>15 DEF StoreName, Goto, Return, TypeOK, WellFormed, NoneOrMetadata
<1>16. ASSUME NEW p \in Procs, AskName(p)
      PROVE  WellFormed'
  BY <1>16 DEF AskName, Goto, Return, TypeOK, WellFormed, NoneOrMetadata
<1>17. ASSUME NEW p \in Procs, RequestFails(p)
      PROVE  WellFormed'
  BY <1>17 DEF RequestFails, Goto, Return, TypeOK, WellFormed, NoneOrMetadata
<1>18. CASE Clear
  BY <1>18 DEF Clear, TypeOK, WellFormed, NoneOrMetadata
<1>19. CASE ForeignPut
  <2>1. PICK m \in ForeignTypes : ~MergeFails(node, m) /\ node' = node \cup m
    BY <1>19 DEF ForeignPut
  <2>2. NoneOrMetadata(node')
    BY <2>1, ForeignAssumption, MergedWellFormed DEF WellFormed, NoneOrMetadata
  <2> QED BY <1>19, <2>2 DEF ForeignPut, WellFormed
<1>20. CASE UNCHANGED vars
  BY <1>20 DEF vars, TypeOK, WellFormed, NoneOrMetadata
<1> QED BY <1>1, <1>2, <1>3, <1>4, <1>5, <1>6, <1>7, <1>8, <1>9, <1>10, <1>11, <1>12, <1>13,
           <1>14, <1>15, <1>16, <1>17, <1>18, <1>19, <1>20 DEF Next, Step

(* A goroutine that reads a field looks for a schema the cluster knows; the answer it has got holds it, and so
   does the cache once the answer is in it, unless the cache has been cleared meanwhile. *)
SoughtBy(p) ==
    /\ op[p].kind \in {"readField", "readTyped"} =>
          /\ [schema |-> op[p].schema] \in node
          /\ pc[p] = "reply" => [schema |-> op[p].schema] \in meta[p]
          /\ pc[p] = "build" => old[p] # {}
          /\ pc[p] = "found" /\ p \notin disturbed => [schema |-> op[p].schema] \in cache
    /\ pc[p] \in {"schema", "found"} => op[p].kind = "readField"
    /\ out[p] \in {"noSchema", "noMetadata"} => p \in disturbed

Sought == \A p \in Procs : SoughtBy(p)

(* Whose step it is not. *)
Untouched(q) ==
    /\ op'[q] = op[q] /\ pc'[q] = pc[q] /\ old'[q] = old[q] /\ meta'[q] = meta[q] /\ out'[q] = out[q]
    /\ q \in disturbed <=> q \in disturbed'

LEMMA OthersSeek ==
    ASSUME Sought, NEW q \in Procs, Untouched(q), node \subseteq node', cache \subseteq cache'
    PROVE  SoughtBy(q)'
  BY DEF Sought, SoughtBy, Untouched

LEMMA ReturnedSeeksNothing ==
    ASSUME TypeOK, NEW p \in Procs, NEW r, Return(p, r), r \in {"noSchema", "noMetadata"} => p \in disturbed'
    PROVE  SoughtBy(p)'
<1>1. op'[p] = Idle /\ pc'[p] = "idle" /\ out'[p] = r
  BY DEF Return, TypeOK
<1> QED BY <1>1 DEF SoughtBy, Idle

(* A step of one goroutine leaves the others, and takes nothing out of the cache. *)
LEMMA StepIsLocal ==
    ASSUME TypeOK, NEW p \in Procs, Step(p)
    PROVE  /\ \A q \in Procs \ {p} : Untouched(q)
           /\ node \subseteq node' /\ cache \subseteq cache'
<1> USE DEF shared, history, Untouched
<1>1. ASSUME NEW o \in Writes \cup Enums \cup ReadOps \cup {ClassName}, Begin(p, o)
      PROVE  (\A q \in Procs \ {p} : Untouched(q)) /\ node \subseteq node' /\ cache \subseteq cache'
  BY <1>1 DEF Begin, TypeOK
<1>2. CASE Lookup(p)
  BY <1>2 DEF Lookup, Goto, Return, CachePut, TypeOK
<1>3. CASE LookupSchema(p)
  BY <1>3 DEF LookupSchema, Goto, Return, CachePut, TypeOK
<1>4. CASE NodeGet(p)
  BY <1>4 DEF NodeGet, Goto, Return, CachePut, TypeOK
<1>5. CASE Reply(p)
  BY <1>5 DEF Reply, Goto, Return, CachePut, TypeOK
<1>6. CASE LookupAgain(p)
  BY <1>6 DEF LookupAgain, Goto, Return, CachePut, TypeOK
<1>7. CASE BuildObject(p)
  BY <1>7 DEF BuildObject, Goto, Return, CachePut, TypeOK
<1>8. CASE BuildEnum(p)
  BY <1>8 DEF BuildEnum, Goto, Return, CachePut, TypeOK
<1>9. CASE BuildReader(p)
  BY <1>9 DEF BuildReader, Goto, Return, CachePut, TypeOK
<1>10. CASE MergeWithCached(p)
  BY <1>10 DEF MergeWithCached, Goto, Return, CachePut, TypeOK
<1>11. CASE NodePut(p)
  BY <1>11 DEF NodePut, Goto, Return, CachePut, TypeOK
<1>12. CASE Store(p)
  BY <1>12 DEF Store, Goto, Return, CachePut, TypeOK
<1>13. CASE LookupName(p)
  BY <1>13 DEF LookupName, Goto, Return, CachePut, TypeOK
<1>14. CASE NodeRegistersName(p)
  BY <1>14 DEF NodeRegistersName, Goto, Return, CachePut, TypeOK
<1>15. CASE StoreName(p)
  BY <1>15 DEF StoreName, Goto, Return, CachePut, TypeOK
<1>16. CASE AskName(p)
  BY <1>16 DEF AskName, Goto, Return, CachePut, TypeOK
<1>17. CASE RequestFails(p)
  BY <1>17 DEF RequestFails, Goto, Return, CachePut, TypeOK
<1> QED BY <1>1, <1>2, <1>3, <1>4, <1>5, <1>6, <1>7, <1>8, <1>9, <1>10, <1>11, <1>12, <1>13, <1>14, <1>15, <1>16, <1>17 DEF Step

LEMMA SeekerStep ==
    ASSUME TypeOK, OpFits, Known, WellFormed, Sought, NEW p \in Procs, Step(p)
    PROVE  SoughtBy(p)'
<1> USE DEF shared, history
<1>1. ASSUME NEW o \in Writes \cup Enums \cup ReadOps \cup {ClassName}, Begin(p, o)
      PROVE  SoughtBy(p)'
  <2>1. CASE o \in ReadOps
    BY <1>1, <2>1 DEF Begin, TypeOK, SoughtBy, ReadOps
  <2>2. CASE o \notin ReadOps
    <3>1. o.kind \notin {"readField", "readTyped"}
      BY <1>1, <2>2, OperationsAssumption DEF ClassName, WriteOps, EnumOps
    <3> QED BY <1>1, <3>1 DEF Begin, TypeOK, SoughtBy
  <2> QED BY <2>1, <2>2
<1>2. CASE Lookup(p)
  BY <1>2 DEF Lookup, Goto, TypeOK, Sought, SoughtBy
<1>3. CASE LookupSchema(p)
  <2>1. CASE Return(p, "ok")
    BY <2>1, ReturnedSeeksNothing
  <2>2. CASE Goto(p, "request") /\ UNCHANGED <<old, meta>>
    BY <1>3, <2>2 DEF LookupSchema, Goto, TypeOK, Sought, SoughtBy
  <2> QED BY <1>3, <2>1, <2>2 DEF LookupSchema
<1>4. CASE NodeGet(p)
  BY <1>4 DEF NodeGet, Goto, TypeOK, Sought, SoughtBy
<1>5. CASE Reply(p)
  <2>1. cache \subseteq node /\ meta[p] \subseteq node
    BY <1>5 DEF Reply, Known
  <2>2. ASSUME op[p].kind \in {"readField", "readTyped"}
        PROVE  [schema |-> op[p].schema] \in cache' /\ old'[p] # {}
    <3>1. [schema |-> op[p].schema] \in node /\ [schema |-> op[p].schema] \in meta[p]
      BY <1>5, <2>2 DEF Reply, Sought, SoughtBy
    <3>2. ~MergeFails(cache, meta[p])
      BY <2>1, <3>1, PartsMerge DEF WellFormed
    <3> QED BY <1>5, <3>1, <3>2 DEF Reply, CachePut, Merged, Changed, TypeOK
  <2>3. op' = op /\ out' = out /\ pc'[p] = IF op[p].kind = "readField" THEN "found" ELSE "build"
    BY <1>5 DEF Reply, Goto, TypeOK
  <2>4. node' = node /\ disturbed' = disturbed
    BY <1>5 DEF Reply
  <2> QED BY <2>2, <2>3, <2>4 DEF Sought, SoughtBy
<1>6. CASE LookupAgain(p)
  <2>1. [schema |-> op[p].schema] \notin cache => p \in disturbed
    BY <1>6 DEF LookupAgain, Sought, SoughtBy
  <2> QED BY <1>6, <2>1, ReturnedSeeksNothing DEF LookupAgain
<1>7. CASE BuildObject(p)
  <2>1. op[p].kind \in {"write"}
    BY <1>7 DEF BuildObject, OpFits, Writing
  <2>2. CASE \E r \in {"ok", "refused"} : Return(p, r)
    BY <2>2, ReturnedSeeksNothing
  <2>3. CASE \E label \in {"merge"} : Goto(p, label)
    BY <1>7, <2>1, <2>3 DEF BuildObject, Goto, TypeOK, Sought, SoughtBy
  <2> QED BY <1>7, <2>2, <2>3 DEF BuildObject
<1>8. CASE BuildEnum(p)
  <2>1. CASE Return(p, "refused")
    BY <2>1, ReturnedSeeksNothing
  <2>2. CASE \E label \in {"merge", "name"} : Goto(p, label)
    BY <1>8, <2>2 DEF BuildEnum, Goto, TypeOK, Sought, SoughtBy
  <2> QED BY <1>8, <2>1, <2>2 DEF BuildEnum
<1>9. CASE BuildReader(p)
  <2>1. old[p] # {}
    BY <1>9 DEF BuildReader, Sought, SoughtBy
  <2>2. CASE Return(p, "fieldNotFound")
    BY <2>2, ReturnedSeeksNothing
  <2>3. CASE /\ pc' = [pc EXCEPT ![p] = "schema"]
             /\ op' = [op EXCEPT ![p] = [@ EXCEPT !.kind = "readField"]]
             /\ UNCHANGED <<old, meta, out>>
    <3>1. op[p] \in ReadOps
      BY <1>9, KindsApart DEF BuildReader, TypeOK
    <3>2. pc'[p] = "schema" /\ op'[p].kind = "readField" /\ op'[p].schema = op[p].schema
      BY <2>3, <3>1 DEF TypeOK, ReadOps
    <3> QED BY <1>9, <2>3, <3>2 DEF BuildReader, Sought, SoughtBy
  <2> QED BY <1>9, <2>1, <2>2, <2>3 DEF BuildReader
<1>10. CASE MergeWithCached(p)
  <2>1. op[p].kind \in {"write", "enum", "newEnum", "registerEnum"}
    BY <1>10 DEF MergeWithCached, OpFits, Writing
  <2>2. CASE \E r \in {"ok", "refused"} : Return(p, r)
    BY <2>2, ReturnedSeeksNothing
  <2>3. CASE \E label \in {"send", "store"} : Goto(p, label)
    BY <1>10, <2>1, <2>3 DEF MergeWithCached, Goto, TypeOK, Sought, SoughtBy
  <2> QED BY <1>10, <2>2, <2>3 DEF MergeWithCached
<1>11. CASE NodePut(p)
  <2>1. op[p].kind \in {"write", "enum", "newEnum", "registerEnum"}
    BY <1>11 DEF NodePut, OpFits, Writing
  <2>2. CASE \E r \in {"ok", "refused"} : Return(p, r)
    BY <2>2, ReturnedSeeksNothing
  <2>3. CASE \E label \in {"acked"} : Goto(p, label)
    BY <1>11, <2>1, <2>3 DEF NodePut, Goto, TypeOK, Sought, SoughtBy
  <2> QED BY <1>11, <2>2, <2>3 DEF NodePut
<1>12. CASE Store(p)
  <2>1. op[p].kind \in Writing
    BY <1>12 DEF Store, OpFits
  <2>2. CASE Return(p, "ok") \/ Return(p, "refused")
    BY <2>2, ReturnedSeeksNothing
  <2>3. CASE Goto(p, "name") /\ UNCHANGED <<old, meta>>
    BY <1>12, <2>1, <2>3 DEF Store, Goto, TypeOK, Sought, SoughtBy, Writing
  <2> QED BY <1>12, <2>2, <2>3 DEF Store
<1>13. CASE LookupName(p)
  <2>1. op[p].kind \in {"write", "enum", "newEnum", "registerEnum", "className"}
    BY <1>13 DEF LookupName, OpFits, Writing
  <2>2. CASE \E r \in {"ok", "refused"} : Return(p, r)
    BY <2>2, ReturnedSeeksNothing
  <2>3. CASE \E label \in {"askName", "sendName"} : Goto(p, label)
    BY <1>13, <2>1, <2>3 DEF LookupName, Goto, TypeOK, Sought, SoughtBy
  <2> QED BY <1>13, <2>2, <2>3 DEF LookupName
<1>14. CASE NodeRegistersName(p)
  <2>1. op[p].kind \in {"write", "enum", "newEnum", "registerEnum"}
    BY <1>14 DEF NodeRegistersName, OpFits, Writing
  <2>2. CASE \E r \in {"ok", "refused"} : Return(p, r)
    BY <2>2, ReturnedSeeksNothing
  <2>3. CASE \E label \in {"named"} : Goto(p, label)
    BY <1>14, <2>1, <2>3 DEF NodeRegistersName, Goto, TypeOK, Sought, SoughtBy
  <2> QED BY <1>14, <2>2, <2>3 DEF NodeRegistersName
<1>15. CASE StoreName(p)
  BY <1>15, ReturnedSeeksNothing DEF StoreName
<1>16. CASE AskName(p)
  BY <1>16, ReturnedSeeksNothing DEF AskName
<1>17. CASE RequestFails(p)
  BY <1>17, ReturnedSeeksNothing DEF RequestFails
<1> QED BY <1>1, <1>2, <1>3, <1>4, <1>5, <1>6, <1>7, <1>8, <1>9, <1>10, <1>11, <1>12, <1>13, <1>14, <1>15, <1>16, <1>17 DEF Step

LEMMA SoughtStep ==
    ASSUME TypeOK, OpFits, Known, WellFormed, Sought, [Next]_vars
    PROVE  Sought'
<1>1. ASSUME NEW p \in Procs, Step(p)
      PROVE  Sought'
  <2>1. ASSUME NEW q \in Procs, q # p PROVE SoughtBy(q)'
    BY <1>1, <2>1, StepIsLocal, OthersSeek
  <2> QED BY <1>1, <2>1, SeekerStep DEF Sought
<1>2. CASE Clear
  <2>1. ASSUME NEW q \in Procs PROVE SoughtBy(q)'
    BY <1>2 DEF Clear, Sought, SoughtBy
  <2> QED BY <2>1 DEF Sought
<1>3. CASE ForeignPut
  <2>1. ASSUME NEW q \in Procs PROVE SoughtBy(q)'
    BY <1>3, OthersSeek DEF ForeignPut, history, Untouched
  <2> QED BY <2>1 DEF Sought
<1>4. CASE UNCHANGED vars
  <2>1. ASSUME NEW q \in Procs PROVE SoughtBy(q)'
    BY <1>4, OthersSeek DEF vars, Untouched
  <2> QED BY <2>1 DEF Sought
<1> QED BY <1>1, <1>2, <1>3, <1>4 DEF Next

LEMMA SoughtInvariance == Spec => [](TypeOK /\ OpFits /\ Known /\ WellFormed /\ Sought)
<1>1. Init => TypeOK /\ OpFits /\ Known /\ WellFormed /\ Sought
  BY RegistryAssumption DEF Init, Idle, TypeOK, OpFits, Known, WellFormed, NoneOrMetadata, Sought, SoughtBy
<1>2. TypeOK /\ OpFits /\ Known /\ WellFormed /\ Sought /\ [Next]_vars
      => TypeOK' /\ OpFits' /\ Known' /\ WellFormed' /\ Sought'
  BY TypeStep, OpStep, KnownStep, WellFormedStep, SoughtStep
<1> QED BY <1>1, <1>2, PTL DEF Spec

(* The look-up of a schema finds it in the cache or gets it from the cluster, whatever the other goroutines
   and clients register meanwhile; a clear between its two reads of the cache is the only excuse. Nothing is
   said of a typed reader whose cached names refuse a field before it looks for the schema. *)
THEOREM SchemaIsFound == Spec => []SchemaFound
<1>1. Sought => SchemaFound
  BY DEF Sought, SoughtBy, SchemaFound
<1> QED BY <1>1, SoughtInvariance, PTL
=============================================================================
