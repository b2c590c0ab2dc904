--------------------------- MODULE CacheConfiguration ---------------------------
(***************************************************************************)
(* The configuration of a cache (cache_configuration.go): how options make *)
(* one, how it is sent to create a cache and how it is read back.  A       *)
(* configuration maps the properties that are set to their values; records *)
(* are written and read by layouts, the list of their fields in order.     *)
(* Protocol versions are the minor numbers of 1.x.                         *)
(***************************************************************************)
EXTENDS Marshaller

SupportsPrecisionAndScale(version) == version >= 2
SupportsExpiryPolicy(version)      == version >= 6

-----------------------------------------------------------------------------
(* The properties: code on the wire, type, and what a getter returns when  *)
(* the property is not set.                                                *)

Property == [cacheName |-> <<0, "string", "">>, cacheMode |-> <<1, "int", -1>>,
    cacheAtomicityMode |-> <<2, "int", -1>>, backups |-> <<3, "int", 0>>,
    writeSyncMode |-> <<4, "int", -1>>, copyOnRead |-> <<5, "bool", 0>>,
    readFromBackup |-> <<6, "bool", 0>>, dataRegionName |-> <<100, "string", "">>,
    onHeapCacheEnabled |-> <<101, "bool", 0>>, queryEntities |-> <<200, "entities", <<>>>>,
    queryParallelism |-> <<201, "int", 0>>, queryDetailsMetricSize |-> <<202, "int", 0>>,
    sqlSchema |-> <<203, "string", "">>, sqlIndexMaxInlineSize |-> <<204, "int", 0>>,
    sqlEscapeAll |-> <<205, "bool", 0>>, maxQueryIterators |-> <<206, "int", 0>>,
    rebalanceMode |-> <<300, "int", 0>>, rebalanceOrder |-> <<305, "int", 0>>,
    groupName |-> <<400, "string", "">>, cacheKeyConfig |-> <<401, "keys", <<>>>>,
    maxAsyncOps |-> <<403, "int", 0>>, partitionLossPolicy |-> <<404, "int", -1>>,
    eagerTtl |-> <<405, "bool", 0>>, statsEnabled |-> <<406, "bool", 0>>,
    expirePolicy |-> <<407, "policy", None>>]

Code(p)     == Property[p][1]
TypeOf(p)   == Property[p][2]

(* getProperty, and the getters on top of it.                              *)
Getter(config, p) == IF p \in DOMAIN config THEN config[p] ELSE Property[p][3]

-----------------------------------------------------------------------------
(* Options.                                                                *)

(* strings.TrimSpace, on the names of the model.                           *)
TrimSpace(name) == CASE name = " padded" -> "padded"
                     [] name = " "       -> ""
                     [] OTHER            -> name

Put(config, p, v) == (p :> v) @@ config

(* The options for one property: a name is trimmed, and one that is empty  *)
(* then is ignored.                                                        *)
WithProperty(config, p, v) ==
    CASE TypeOf(p) # "string"                        -> Put(config, p, v)
      [] TypeOf(p) = "string" /\ TrimSpace(v) # ""  -> Put(config, p, TrimSpace(v))
      [] OTHER                                       -> config

(* An element is added to a list unless the list has one with its key.     *)
AddUnless(list, x, key) ==
    IF \E i \in DOMAIN list : list[i][key] = x[key] THEN list ELSE Append(list, x)

(* Key configurations are alike by their affinity field, whatever the type. *)
WithCacheKeyConfiguration(config, k) ==
    Put(config, "cacheKeyConfig",
        AddUnless(Getter(config, "cacheKeyConfig"), k, "affKeyFldName"))

WithQueryEntity(config, e) ==
    Put(config, "queryEntities",
        AddUnless(Getter(config, "queryEntities"), e, "valType"))

(* The options of an entity, a field and an index.                         *)
NewEntity(keyType, valType) ==
    [keyType |-> keyType, valType |-> valType, tblName |-> "", keyFldName |-> "", valFldName |-> "",
     fields |-> <<>>, aliases |-> <<>>, indexes |-> <<>>]

WithName(entity, which, name) ==
    IF TrimSpace(name) = "" THEN entity ELSE [entity EXCEPT ![which] = TrimSpace(name)]

NewField(name, typeName) == [name |-> name, typeName |-> typeName, isKey |-> 0, isNotNull |-> 0,
                             dfltVal |-> Nil, precision |-> -1, scale |-> -1]

WithQueryField(entity, field) == [entity EXCEPT !.fields = Append(@, field)]

WithFieldAlias(entity, orig, alias) ==
    [entity EXCEPT !.aliases = Append(SelectSeq(@, LAMBDA a : a.orig # orig), [orig |-> orig, alias |-> alias])]

NewIndex(name) == [name |-> name, idxType |-> 0, inlineSz |-> -1, fields |-> <<>>]

WithIndexField(index, f) == [index EXCEPT !.fields = AddUnless(@, f, "name")]

WithIndex(entity, index) == [entity EXCEPT !.indexes = AddUnless(@, index, "name")]

(* An option as a record [with, ..] of what it is given.                   *)
Apply(config, o) == CASE o.with = "property" -> WithProperty(config, o.p, o.v)
                      [] o.with = "keys"     -> WithCacheKeyConfiguration(config, o.v)
                      [] o.with = "entity"   -> WithQueryEntity(config, o.v)

CreateCacheConfiguration(name, opts) == FoldLeft(Apply, "cacheName" :> name, opts)

(* Copy leaves out lists that are empty.                                   *)
Copy(config, opts) ==
    LET lost == {p \in DOMAIN config : TypeOf(p) \in {"keys", "entities"} /\ config[p] = <<>>}
    IN  FoldLeft(Apply, [p \in DOMAIN config \ lost |-> config[p]], opts)

-----------------------------------------------------------------------------
(* Layouts: the fields of a record as <<name, type>>, or <<name, type,     *)
(* layout>> for a "list" of records with a layout of their own and for an  *)
(* "optional" one, a record behind a flag.                                 *)

Millisecond == 1000

DurationToMillis(d) == IF d > 0 THEN d \div Millisecond ELSE IF d <= -2 THEN -2 ELSE d
MillisToDuration(m) == IF m > 0 THEN m * Millisecond ELSE m

String(x) == <<Type("String"), <<"string", x>>>>

RECURSIVE WriteAs(_, _), ReadRecord(_, _)

WriteRecord(layout, r) == FlattenSeq([i \in DOMAIN layout |-> WriteAs(layout[i], r[layout[i][1]])])

WriteAs(field, x) ==
    LET type == field[2] IN
    CASE type = "int"      -> <<I32(x)>>
      [] type = "long"     -> <<I64(x)>>
      [] type = "duration" -> <<I64(DurationToMillis(x))>>
      [] type = "byte"     -> <<Cell(x, ByteBits)>>
      [] type = "bool"     -> <<Cell(x, 1)>>
      [] type = "string"   -> String(x)
      [] type = "nullable" -> IF x = "" THEN <<Null>> ELSE String(x)
      [] type = "object"   -> Marshal(x)
      [] type = "list"     -> WriteSequence([i \in DOMAIN x |-> WriteRecord(field[3], x[i])])
      [] type = "optional" -> IF x = None THEN <<Cell(0, 1)>> ELSE <<Cell(1, 1)>> \o WriteRecord(field[3], x)

ReadString(s) == IF s[1] = Null THEN Got("", Tail(s)) ELSE Got(s[2][2], Tail(Tail(s)))

ReadTyped(field, s) ==
    LET type == field[2] IN
    CASE type = "int"      -> Got(ReadInt(s), Tail(s))
      [] type = "long"     -> Got(ReadLong(s), Tail(s))
      [] type = "duration" -> Got(MillisToDuration(ReadLong(s)), Tail(s))
      [] type = "byte"     -> Got(Signed(Content(s, ByteBits), ByteBits), Tail(s))
      [] type = "bool"     -> Got(Content(s, 1), Tail(s))
      [] type = "absent"   -> Got(-1, s)
      [] type \in {"string", "nullable"} -> ReadString(s)
      [] type = "object"   -> Unmarshal(s)
      [] type = "list"     -> ReadSlice(s, LAMBDA t : ReadRecord(field[3], t))
      [] type = "optional" -> IF Content(s, 1) = 1 THEN ReadRecord(field[3], Tail(s)) ELSE Got(None, Tail(s))

ReadRecord(layout, s) ==
    IF layout = <<>> THEN Got(<<>>, s)
    ELSE LET first == ReadTyped(Head(layout), s)
             other == ReadRecord(Tail(layout), first.rest)
         IN  Got((Head(layout)[1] :> first.val) @@ other.val, other.rest)

-----------------------------------------------------------------------------
(* What the client writes.                                                 *)

KeyConfigOut == <<<<"typeName", "string">>, <<"affKeyFldName", "string">>>>

QueryFieldOut(version) ==
    <<<<"name", "string">>, <<"typeName", "string">>, <<"isKey", "bool">>, <<"isNotNull", "bool">>,
      <<"dfltVal", "object">>>>
    \o IF SupportsPrecisionAndScale(version) THEN <<<<"precision", "int">>, <<"scale", "int">>>> ELSE <<>>

QueryIndexOut == <<<<"name", "string">>, <<"idxType", "byte">>, <<"inlineSz", "int">>,
                   <<"fields", "list", <<<<"name", "string">>, <<"asc", "bool">>>>>>>>

QueryEntityOut(version) ==
    <<<<"keyType", "string">>, <<"valType", "string">>, <<"tblName", "nullable">>,
      <<"keyFldName", "nullable">>, <<"valFldName", "nullable">>, <<"fields", "list", QueryFieldOut(version)>>,
      <<"aliases", "list", <<<<"orig", "string">>, <<"alias", "string">>>>>>, <<"indexes", "list", QueryIndexOut>>>>

PolicyOut == <<<<"creation", "duration">>, <<"update", "duration">>, <<"access", "duration">>>>

PropertyOut(p, version) == CASE TypeOf(p) = "policy"   -> <<p, "optional", PolicyOut>>
                             [] TypeOf(p) = "keys"     -> <<p, "list", KeyConfigOut>>
                             [] TypeOf(p) = "entities" -> <<p, "list", QueryEntityOut(version)>>
                             [] OTHER                  -> <<p, TypeOf(p)>>

(* An expiry policy cannot be sent to a node that does not know them.      *)
Refused(config, version) == "expirePolicy" \in DOMAIN config /\ ~SupportsExpiryPolicy(version)

(* marshal: a length, the number of the properties and each behind its     *)
(* code.  The length is in tokens here.                                    *)
MarshalConfiguration(config, version) ==
    LET Prop(p) == <<Cell(Code(p), ShortBits)>> \o WriteAs(PropertyOut(p, version), config[p])
        body    == <<Cell(Cardinality(DOMAIN config), ShortBits)>>
                   \o FoldSet(LAMBDA p, t : t \o Prop(p), <<>>, DOMAIN config)
    IN  <<I32(Len(body))>> \o body

-----------------------------------------------------------------------------
(* What the client reads.                                                  *)

KeyConfigIn == <<<<"typeName", "string">>, <<"affKeyFldName", "string">>>>

(* Mutant: precision and scale the other way round.                        *)
QueryFieldScaleFirst(version) ==
    <<<<"name", "string">>, <<"typeName", "string">>, <<"isKey", "bool">>, <<"isNotNull", "bool">>,
      <<"dfltVal", "object">>>>
    \o (IF SupportsPrecisionAndScale(version) THEN <<<<"scale", "int">>, <<"precision", "int">>>>
         ELSE <<<<"precision", "absent">>, <<"scale", "absent">>>>)

QueryFieldIn(version) ==
    <<<<"name", "string">>, <<"typeName", "string">>, <<"isKey", "bool">>, <<"isNotNull", "bool">>,
      <<"dfltVal", "object">>>>
    \o (IF SupportsPrecisionAndScale(version) THEN <<<<"precision", "int">>, <<"scale", "int">>>>
         ELSE <<<<"precision", "absent">>, <<"scale", "absent">>>>)

QueryIndexIn == <<<<"name", "string">>, <<"idxType", "byte">>, <<"inlineSz", "int">>,
                  <<"fields", "list", <<<<"name", "string">>, <<"asc", "bool">>>>>>>>

QueryEntityIn(version) ==
    <<<<"keyType", "string">>, <<"valType", "string">>, <<"tblName", "string">>,
      <<"keyFldName", "string">>, <<"valFldName", "string">>, <<"fields", "list", QueryFieldIn(version)>>,
      <<"aliases", "list", <<<<"orig", "string">>, <<"alias", "string">>>>>>, <<"indexes", "list", QueryIndexIn>>>>

(* The answer to a request for the configuration; "skipped" is read and    *)
(* forgotten.  The two lists come last, and a policy if the version has it. *)
PropertiesIn ==
    <<<<"skipped", "int">>, <<"cacheAtomicityMode", "int">>, <<"backups", "int">>, <<"cacheMode", "int">>,
      <<"copyOnRead", "bool">>, <<"dataRegionName", "string">>, <<"eagerTtl", "bool">>,
      <<"statsEnabled", "bool">>, <<"groupName", "string">>, <<"skipped", "long">>,
      <<"maxAsyncOps", "int">>, <<"maxQueryIterators", "int">>, <<"cacheName", "string">>,
      <<"onHeapCacheEnabled", "bool">>, <<"partitionLossPolicy", "int">>,
      <<"queryDetailsMetricSize", "int">>, <<"queryParallelism", "int">>, <<"readFromBackup", "bool">>,
      <<"skipped", "int">>, <<"skipped", "long">>, <<"skipped", "long">>, <<"rebalanceMode", "int">>,
      <<"rebalanceOrder", "int">>, <<"skipped", "long">>, <<"skipped", "long">>,
      <<"sqlEscapeAll", "bool">>, <<"sqlIndexMaxInlineSize", "int">>, <<"sqlSchema", "string">>,
      <<"writeSyncMode", "int">>>>

ListsIn(version) == <<<<"cacheKeyConfig", "list", KeyConfigIn>>,
                      <<"queryEntities", "list", QueryEntityIn(version)>>>>

PolicyIn == <<<<"creation", "duration">>, <<"update", "duration">>, <<"access", "duration">>>>

ConfigurationIn(version) ==
    PropertiesIn \o ListsIn(version)
    \o IF SupportsExpiryPolicy(version) THEN <<<<"expirePolicy", "optional", PolicyIn>>>> ELSE <<>>

(* unmarshalCacheConfiguration: a name that is empty (setStringProperty)   *)
(* and a policy that is not there are left out.                            *)
LeftOut(p, x) == \/ TypeOf(p) = "string" /\ x = ""
                 \/ TypeOf(p) = "policy" /\ x = None

UnmarshalConfiguration(s, version) ==
    LET read == ReadRecord(ConfigurationIn(version), s).val
    IN  [p \in {q \in DOMAIN read \cap DOMAIN Property : ~LeftOut(q, read[q])} |-> read[p]]

-----------------------------------------------------------------------------
(* The node: it reads the properties by their codes, fills in defaults for *)
(* the others, and answers with every one of them in an order of its own.  *)

NodeKeyConfig == <<<<"typeName", "string">>, <<"affKeyFldName", "string">>>>

NodeQueryField(version) ==
    <<<<"name", "string">>, <<"typeName", "string">>, <<"isKey", "bool">>, <<"isNotNull", "bool">>,
      <<"dfltVal", "object">>>>
    \o IF version >= 2 THEN <<<<"precision", "int">>, <<"scale", "int">>>> ELSE <<>>

NodeQueryIndex == <<<<"name", "string">>, <<"idxType", "byte">>, <<"inlineSz", "int">>,
                    <<"fields", "list", <<<<"name", "string">>, <<"asc", "bool">>>>>>>>

NodeQueryEntity(version) ==
    <<<<"keyType", "string">>, <<"valType", "string">>, <<"tblName", "nullable">>,
      <<"keyFldName", "nullable">>, <<"valFldName", "nullable">>, <<"fields", "list", NodeQueryField(version)>>,
      <<"aliases", "list", <<<<"orig", "string">>, <<"alias", "string">>>>>>, <<"indexes", "list", NodeQueryIndex>>>>

NodePolicy == <<<<"creation", "long">>, <<"update", "long">>, <<"access", "long">>>>

NodeField(p, version) == CASE p \in {"int", "long"}   -> <<p, p>>
                           [] TypeOf(p) = "policy"   -> <<p, "optional", NodePolicy>>
                           [] TypeOf(p) = "keys"     -> <<p, "list", NodeKeyConfig>>
                           [] TypeOf(p) = "entities" -> <<p, "list", NodeQueryEntity(version)>>
                           [] TypeOf(p) = "string"   -> <<p, "nullable">>
                           [] OTHER                  -> <<p, TypeOf(p)>>

NodeDefault(p) == CASE p \in {"int", "long"}               -> 12
                    [] TypeOf(p) \in {"keys", "entities"} -> <<>>
                    [] TypeOf(p) = "int"                  -> 6
                    [] TypeOf(p) = "bool"                 -> 1
                    [] TypeOf(p) = "policy"               -> None
                    [] p = "sqlSchema"                    -> "PUBLIC"
                    [] OTHER                              -> ""

NodeReadsProperty(acc, version) ==
    LET s == acc.rest
        p == CHOOSE q \in DOMAIN Property : Code(q) = Content(s, ShortBits)
        r == ReadTyped(NodeField(p, version), Tail(s))
    IN  Got(Put(acc.val, p, r.val), r.rest)

NodeReads(s, version) ==
    FoldLeft(LAMBDA acc, i : NodeReadsProperty(acc, version), Got(<<>>, Tail(Tail(s))),
             [i \in 1..Content(Tail(s), ShortBits) |-> i]).val

(* "int" and "long" stand for settings the client does not know any more;  *)
(* the length in front is not looked at.                                   *)
NodeOrder(version) ==
    <<"cacheAtomicityMode", "backups", "cacheMode", "copyOnRead", "dataRegionName", "eagerTtl",
      "statsEnabled", "groupName", "long", "maxAsyncOps", "maxQueryIterators", "cacheName",
      "onHeapCacheEnabled", "partitionLossPolicy", "queryDetailsMetricSize", "queryParallelism",
      "readFromBackup", "int", "long", "long", "rebalanceMode", "rebalanceOrder", "long", "long",
      "sqlEscapeAll", "sqlIndexMaxInlineSize", "sqlSchema", "writeSyncMode", "cacheKeyConfig", "queryEntities">>
    \o IF version >= 6 THEN <<"expirePolicy">> ELSE <<>>

NodeAnswers(set, version) ==
    LET At(p) == IF p \in DOMAIN set THEN set[p] ELSE NodeDefault(p)
        order == NodeOrder(version)
    IN  <<I32(0)>> \o FlattenSeq([i \in DOMAIN order |-> WriteAs(NodeField(order[i], version), At(order[i]))])

-----------------------------------------------------------------------------
(* Correctness.                                                            *)

(* What is left of a value on its way: whole milliseconds of a policy, and *)
(* of a field nothing the version has no place for.                        *)
Kept(p, x, version) ==
    CASE TypeOf(p) = "policy"   -> [d \in DOMAIN x |-> MillisToDuration(DurationToMillis(x[d]))]
      [] TypeOf(p) = "entities" ->
            [i \in DOMAIN x |-> [x[i] EXCEPT !.fields = [j \in DOMAIN @ |->
                IF version >= 2 THEN @[j] ELSE [@[j] EXCEPT !.precision = -1, !.scale = -1]]]]
      [] OTHER                  -> x

(* A cache is created with every property its options set, and none of     *)
(* them is refused that the node knows; asked for its configuration, it    *)
(* answers with the same, each under its own getter, and with the node's   *)
(* choice for the others; the length that is announced is that of the      *)
(* configuration; and a copy of a configuration is the configuration.      *)
AnswerIs(answer, config, version) ==
    \A p \in DOMAIN Property :
        Getter(answer, p) = IF p \in DOMAIN config THEN Kept(p, config[p], version) ELSE NodeDefault(p)

ConfigurationSurvives(opts, version) ==
    \A config \in {CreateCacheConfiguration("cache", opts)} :
       /\ Refused(config, version) =>
             version < 6 /\ \E i \in DOMAIN opts : opts[i].with = "property" /\ opts[i].p = "expirePolicy"
       /\ ~Refused(config, version) =>
             \A request \in {MarshalConfiguration(config, version)} :
             \A received \in {NodeReads(request, version)} :
             \A reply \in {NodeAnswers(received, version)} :
             \A answer \in {UnmarshalConfiguration(reply, version)} :
                /\ request[1] = I32(Len(request) - 1)
                /\ AnswerIs(answer, config, version)
       /\ \A p \in DOMAIN Property : Getter(Copy(config, <<>>), p) = Getter(config, p)
=============================================================================
