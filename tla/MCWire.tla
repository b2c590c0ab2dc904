-------------------------------- MODULE MCWire --------------------------------
(***************************************************************************)
(* What a client and its nodes exchange, part by part: a session, the      *)
(* packets of the stream, the encodings and the requests of the cache      *)
(* operations.  A behaviour is about one part; the parts share no state,   *)
(* so that their state spaces add up.                                      *)
(***************************************************************************)
EXTENDS Session, PacketAccumulator, CacheOperations, BitSet, TLC

CONSTANTS newNode, oldNode, oldestNode, NotFound,
          fa, fb, fc         \* ids of the fields of binary objects, and values of fields

VARIABLES part,         \* what a behaviour is about
          input         \* the input of an encoding

wireVars == <<part, vars, packetVars, operationVars, bitVars, input>>

(* A cluster in the middle of an upgrade: a new node, one without feature  *)
(* bits, and one that knows neither transactions nor the precision of      *)
(* decimals.                                                               *)
MCSpeaks == (newNode :> 5 .. 7) @@ (oldNode :> 1 .. 5) @@ (oldestNode :> 0 .. 1)
MCLatest == (newNode :> 7) @@ (oldNode :> 5) @@ (oldestNode :> 1)
MCOffers == (newNode :> {"queryPartitions", "clusterGroups"}) @@ (oldNode :> {}) @@ (oldestNode :> {})

(* Packets around the size of a header, one whose size takes two bytes,    *)
(* and a size of zero.                                                     *)
ShortPackets == <<1, 5, 258, 1, 0, 3>>
ShortPayload == [k \in DOMAIN ShortPackets |-> [j \in 1..ShortPackets[k] |-> (16 * k + j) % 256]]

MCPolicies == {Absent, [creation |-> 5000000, access |-> -2, update |-> -1],
                    [creation |-> 0, access |-> 7999999, update |-> -5]}

Types   == INSTANCE Marshaller WITH None <- Absent
Objects == INSTANCE BinaryObject
Config  == INSTANCE CacheConfiguration WITH None <- Absent

-----------------------------------------------------------------------------
(* Go values.                                                              *)

GoInt32(n) == [go |-> "int32", val |-> n]
Str(x)   == [go |-> "string", val |-> x]
Slice(of, xs) == [go |-> "slice", of |-> of, val |-> xs]

IntBounds(w) == <<0, 1, 2^(w - 1) - 1, -(2^(w - 1)), -1>>
UintBounds(w) == <<0, 2^(w - 1) - 1, 2^(w - 1), 2^w - 1>>

Bounds == [bool |-> <<0, 1>>, uint8 |-> UintBounds(8), int8 |-> IntBounds(8),
           uint16 |-> UintBounds(16), int16 |-> IntBounds(16),
           uint32 |-> UintBounds(24), int32 |-> IntBounds(24),
           uint64 |-> UintBounds(28), int64 |-> IntBounds(28),
           uint |-> UintBounds(28), int |-> IntBounds(28), float32 |-> <<"0.5">>,
           float64 |-> <<"0.5", "-1e300">>, string |-> <<"", "x">>,
           Time |-> <<0, 86399999>>, Date |-> <<-1, 0, 1000>>,
           uuid |-> <<[hi |-> 1, lo |-> 2^28 - 1]>>,
           timestamp |-> <<[sec |-> 0, nano |-> 0], [sec |-> 7, nano |-> 999999999],
                           [sec |-> -1, nano |-> 1], [sec |-> -8, nano |-> 500000000],
                           [sec |-> -8, nano |-> 999999]>>,
           Decimal |-> <<[neg |-> FALSE, coeff |-> 0, exp |-> 0], [neg |-> TRUE, coeff |-> 5, exp |-> -2],
                         [neg |-> TRUE, coeff |-> 128, exp |-> 0], [neg |-> FALSE, coeff |-> 255, exp |-> 3],
                         [neg |-> TRUE, coeff |-> 65535, exp |-> 1], [neg |-> FALSE, coeff |-> 32767, exp |-> 0]>>]

Scalars == {[go |-> g, i |-> i] : g \in DOMAIN Bounds, i \in 1..6}

NestedValues ==
    <<[go |-> "nil", val |-> Absent], [go |-> "any", val |-> <<>>], [go |-> "Map", kind |-> 2, val |-> <<>>],
      [go |-> "any", val |-> <<GoInt32(-1), Str("x"), [go |-> "slice", of |-> "int8", val |-> Absent],
                               [go |-> "any", val |-> <<Slice("bool", <<1, 0>>)>>]>>],
      [go |-> "goslice", val |-> <<[go |-> "map", val |-> {<<Str("k"), GoInt32(3)>>, <<Str("l"), GoInt32(4)>>}]>>],
      [go |-> "Collection", kind |-> -1, val |-> <<GoInt32(1), [go |-> "nil", val |-> Absent], Str("")>>],
      [go |-> "Map", kind |-> 2, val |-> <<<<Str("k"), [go |-> "any", val |-> <<GoInt32(2)>>]>>,
                                           <<GoInt32(0), [go |-> "nil", val |-> Absent]>>>>],
      [go |-> "Enum", of |-> -7, val |-> 1],
      [go |-> "Enums", of |-> 9, val |-> <<0, Absent, 2>>],
      [go |-> "BinaryObject", val |-> "an object"],
      [go |-> "any", val |-> <<[go |-> "BinaryObject", val |-> "an object"], [go |-> "Enum", of |-> 9, val |-> 0]>>],
      [go |-> "Optimized", val |-> <<1, 2, 3>>]>>

PickScalar == \E s \in Scalars :
    /\ s.i \in DOMAIN Bounds[s.go]
    /\ input' = [kind |-> "value", value |-> [go |-> s.go, val |-> Bounds[s.go][s.i]]]

PickSlice == \E g \in DOMAIN Bounds :
    \E xs \in {<<>>, Bounds[g]} \cup (IF g \in DOMAIN Types!Nullable THEN {<<Absent>> \o Bounds[g]} ELSE {}) :
        input' = [kind |-> "value", value |-> Slice(g, xs)]

PickNested == \E i \in DOMAIN NestedValues : input' = [kind |-> "value", value |-> NestedValues[i]]

-----------------------------------------------------------------------------
(* Binary objects: one leaf of a critical size before the last field.      *)

Leaf(name, size) == [size |-> size, name |-> name]
Object(typeId, fields) == [typeId |-> typeId, typeName |-> "T", fields |-> fields]

LeafSizes == {1, 222, 223, 224, 231, 232, 233, 300, 65502, 65503, 65504, 65511, 65512, 65513, 70000}

ObjectInputs(t, n) ==
    <<Object(t, <<>>), Object(t, <<<<fa, Leaf(fa, n)>>>>), Object(t, <<<<fa, Leaf(fa, n)>>, <<fb, Leaf(fb, 4)>>>>),
      Object(t, <<<<fb, Leaf(fa, n)>>, <<fa, Object(0, <<<<fa, Leaf(fb, 7)>>, <<fc, Leaf(fa, 5)>>>>)>>, <<fc, Leaf(fc, 2)>>>>)>>

PickObject == \E t \in {0, 5}, n \in LeafSizes, i \in 1..4, compact \in BOOLEAN, start \in {0, 200, 70000} :
    input' = [kind |-> "object", object |-> ObjectInputs(t, n)[i], compact |-> compact, start |-> start]

-----------------------------------------------------------------------------
(* Options, in any order, one possibly twice.                              *)

Policy == [creation |-> 2500, update |-> -2, access |-> -1]

Field == [Config!NewField("id", "Long") EXCEPT !.precision = 10, !.scale = 2, !.isKey = 1]

Entity == Config!WithIndex(Config!WithFieldAlias(Config!WithFieldAlias(Config!WithQueryField(Config!WithQueryField(
              Config!WithName(Config!NewEntity("K", "V"), "tblName", " padded"), Field),
              [Config!NewField("name", "String") EXCEPT !.dfltVal = Str("none")]),
              "id", "a"), "id", "b"),
              Config!WithIndexField([Config!NewIndex("idx") EXCEPT !.idxType = 1], [name |-> "id", asc |-> 0]))

Property(p, v) == [with |-> "property", p |-> p, v |-> v]

Options == <<Property("cacheMode", 1), Property("backups", 3), Property("backups", 0),
             Property("groupName", " padded"), Property("groupName", " "), Property("groupName", "g"),
             Property("copyOnRead", 0), Property("rebalanceMode", 2), Property("rebalanceOrder", 1),
             Property("sqlEscapeAll", 0), Property("sqlIndexMaxInlineSize", -1), Property("partitionLossPolicy", 4),
             Property("expirePolicy", Policy),
             [with |-> "keys", v |-> [typeName |-> "K", affKeyFldName |-> "aff"]],
             [with |-> "keys", v |-> [typeName |-> "L", affKeyFldName |-> "aff"]],
             [with |-> "entity", v |-> Entity],
             [with |-> "entity", v |-> Config!NewEntity("K", "W")]>>

OptionLists == UNION {[1..n -> DOMAIN Options] : n \in 0..2}
               \cup {<<2, 13, 16, 17>>, <<16, 17, 16, 15>>, <<1, 6, 7, 8, 9, 10, 11, 12, 14, 16>>}

PickConfiguration == \E is \in OptionLists, version \in {1, 2, 5, 6, 7} :
    input' = [kind |-> "configuration", options |-> [i \in DOMAIN is |-> Options[is[i]]], version |-> version]

-----------------------------------------------------------------------------

WireInit == /\ part \in {"session", "packets", "operations", "features", "encodings"}
            /\ Init /\ newPacketAccumulator /\ OperationInit /\ BitSetInit
            /\ input = [kind |-> "none"]

WireNext ==
    \/ part = "session" /\ Next /\ UNCHANGED <<part, packetVars, operationVars, bitVars, input>>
    \/ part = "packets" /\ PacketNext /\ UNCHANGED <<part, vars, operationVars, bitVars, input>>
    \/ part = "operations" /\ OperationNext /\ UNCHANGED <<part, vars, packetVars, bitVars, input>>
    \/ part = "features" /\ BitSetNext /\ UNCHANGED <<part, vars, packetVars, operationVars, input>>
    \/ /\ part = "encodings" /\ input.kind = "none"
       /\ PickScalar \/ PickSlice \/ PickNested \/ PickObject \/ PickConfiguration
       /\ UNCHANGED <<part, vars, packetVars, operationVars, bitVars>>

WireSpec == WireInit /\ [][WireNext]_wireVars

-----------------------------------------------------------------------------
(* The properties of the encodings, on the inputs above.                   *)

(* A value given to the client comes back from a node as it was given,     *)
(* whichever of its forms the node answers with (marshal, unmarshal).      *)
ValuesSurvive == input.kind = "value" => Types!RoundTrips(input.value) /\ Types!NodeFormRead(input.value)

IsBools(v) == v.go = "slice" /\ v.of = "bool"

(* The type a field is registered with is the one its value is written     *)
(* with: two lists of the code (getTypeId, marshal) agree.  They do but    *)
(* for []bool, which the one lacks and takes for an array of objects.      *)
TypeIdAgrees ==
    input.kind = "value" /\ ~IsBools(input.value) => Types!TypeIdIsWritten(input.value)

(* Every field of an object is found where it was written (Field).         *)
FieldsFound == input.kind = "object" => Objects!ObjectReads(input.object, input.compact, input.start)

(* A cache is created as configured, and its configuration read back.      *)
ConfigurationSurvives ==
    input.kind = "configuration" => Config!ConfigurationSurvives(input.options, input.version)
=============================================================================
