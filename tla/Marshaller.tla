------------------------------ MODULE Marshaller ------------------------------
(***************************************************************************)
(* Go values on the wire (marshaller.go, with the integer and sequence     *)
(* primitives of buffer.go).  A stream is a sequence of tokens, each a     *)
(* <<kind, content>> that stands for the bytes one Write of the buffer     *)
(* produces; a reader is handed what is left of the stream.  Integers of   *)
(* a token are the unsigned contents of their bytes, so that what another  *)
(* Read makes of them is seen.  int32 and int64 are cut to 24 and 28 bits  *)
(* (TLC's integers have 32): IntBits, LongBits.                            *)
(***************************************************************************)
EXTENDS Integers, Sequences, SequencesExt, FiniteSetsExt, TLC

CONSTANT None  \* a nil slice, and the nil of a slice of pointers

ByteBits  == 8
ShortBits == 16
IntBits   == 24
LongBits  == 28

Unsigned(n, w) == n % 2^w
Signed(n, w)   == LET u == n % 2^w IN IF u < 2^(w - 1) THEN u ELSE u - 2^w

(* Go's division truncates.                                                *)
Quo(a, b) == IF a >= 0 THEN a \div b ELSE -((-a) \div b)
Rem(a, b) == a - b * Quo(a, b)

(* The Writes of buffer.go: a type byte, a null, an integer of a width.    *)
Type(t)   == <<"type", t>>
Null       == Type("Null")
Cell(n, w) == <<"int", Unsigned(n, w), w>>
I32(n)     == Cell(n, IntBits)
I64(n)     == Cell(n, LongBits)
Panic      == <<"panic">>

(* What a Read of w bits finds; it has no meaning on bytes written otherwise. *)
Content(s, w) == CASE s[1][1] = "int" /\ s[1][3] = w -> s[1][2]

-----------------------------------------------------------------------------
(* Go values.  A value is [go, val] with go its Go type; [of] is the       *)
(* element type of a slice, and slices of pointers hold None for nil.      *)

Nil  == [go |-> "nil", val |-> <<>>]

(* Go types of a fixed size: the type on the wire, and the width of the    *)
(* integer; the others are carried by a token of their own.                *)
Integral == [bool |-> <<"Bool", 1>>, uint8 |-> <<"Byte", ByteBits>>, int8 |-> <<"Byte", ByteBits>>,
             uint16 |-> <<"Char", ShortBits>>, int16 |-> <<"Short", ShortBits>>,
             uint32 |-> <<"Int", IntBits>>, int32 |-> <<"Int", IntBits>>,
             uint64 |-> <<"Long", LongBits>>, int64 |-> <<"Long", LongBits>>,
             uint |-> <<"Long", LongBits>>, int |-> <<"Long", LongBits>>]

Floating == [float32 |-> "Float", float64 |-> "Double"]
Nullable == [string |-> "String", uuid |-> "Uuid", Time |-> "Time", Date |-> "Date",
             timestamp |-> "Timestamp", Decimal |-> "Decimal"]

Array(t) == t \o "Array"

WireType(go) == CASE go \in DOMAIN Integral -> Integral[go][1]
                  [] go \in DOMAIN Floating -> Floating[go]
                  [] go \in DOMAIN Nullable -> Nullable[go]

(* The bytes of a coefficient, big endian.                                 *)
BigEndian[n \in Nat] == IF n = 0 THEN <<>> ELSE BigEndian[n \div 256] \o <<n % 256>>

WriteTimestamp(t) == <<I64(t.sec * 1000 + t.nano \div 1000000), I32(t.nano % 1000000)>>

(* Mutant: a coefficient whose first bit is set gets no byte for the sign. *)
SignInPlace(d) ==
    LET bytes  == BigEndian[d.coeff]
        padded == IF bytes = <<>> THEN <<0>> ELSE bytes
    IN  <<I32(-d.exp), I32(Len(padded)),
          <<"bytes", IF d.neg /\ padded[1] < 128 THEN [padded EXCEPT ![1] = @ + 128] ELSE padded>>>>

(* writeDecimal: the sign is the first bit of the coefficient.             *)
WriteDecimal(d) ==
    LET bytes  == BigEndian[d.coeff]
        padded == IF bytes = <<>> \/ bytes[1] > 127 THEN <<0>> \o bytes ELSE bytes
    IN  <<I32(-d.exp), I32(Len(padded)),
          <<"bytes", IF d.neg THEN [padded EXCEPT ![1] = @ + 128] ELSE padded>>>>

(* The body of one value of Go type go, without its type byte.             *)
Body(go, x) ==
    CASE go \in DOMAIN Integral -> <<Cell(x, Integral[go][2])>>
      [] go \in DOMAIN Floating -> <<<<go, x>>>>
      [] go = "string"          -> <<<<"string", x>>>>
      [] go = "uuid"            -> <<I64(x.hi), I64(x.lo)>>
      [] go \in {"Time", "Date"} -> <<I64(x)>>
      [] go = "timestamp"       -> WriteTimestamp(x)
      [] go = "Decimal"         -> WriteDecimal(x)

(* isNil: nil, and every nil slice, map and pointer, whatever its type.    *)
IsNil(v) == v.go = "nil" \/ v.val = None

ObjectType == -1

RECURSIVE Marshal(_)

WriteSequence(tokens) == <<I32(Len(tokens))>> \o FlattenSeq(tokens)

WriteSequenceWithKind(kind, tokens) ==
    <<I32(Len(tokens)), Cell(kind, ByteBits)>> \o FlattenSeq(tokens)

MarshalAll(vs) == [i \in DOMAIN vs |-> Marshal(vs[i])]

(* A slice of fixed-size elements has no type byte for each; the others    *)
(* have (writeIgniteTypedArray, writeIgniteTypedArrayP).  Fixed-size       *)
(* elements are copied from the address of the first, and taking it panics *)
(* when there is none; bytes are copied otherwise.                         *)
Panics(of, xs) == xs = <<>> /\ of \notin {"uint8"} \cup DOMAIN Nullable

MarshalSlice(of, xs) ==
    <<Type(Array(WireType(of)))>> \o
    IF Panics(of, xs) THEN <<Panic>> ELSE
    WriteSequence([i \in DOMAIN xs |->
        CASE of \notin DOMAIN Nullable -> Body(of, xs[i])
          [] xs[i] = None              -> <<Null>>
          [] OTHER                     -> <<Type(WireType(of))>> \o Body(of, xs[i])])

(* marshallReflectMap ranges over the keys in no order: any order will do. *)
MarshalEntries(es) == [i \in DOMAIN es |-> Marshal(es[i][1]) \o Marshal(es[i][2])]

(* marshal                                                                 *)
Marshal(v) ==
    IF IsNil(v) THEN <<Null>> ELSE
    CASE v.go = "slice"        -> MarshalSlice(v.of, v.val)
      [] v.go \in {"any", "goslice"} -> <<Type("ObjectArray"), I32(ObjectType)>> \o WriteSequence(MarshalAll(v.val))
      [] v.go = "Collection"   -> <<Type("Collection")>> \o WriteSequenceWithKind(v.kind, MarshalAll(v.val))
      [] v.go = "Map"          -> <<Type("Map")>> \o WriteSequenceWithKind(v.kind, MarshalEntries(v.val))
      [] v.go = "map"          -> <<Type("Map")>> \o WriteSequenceWithKind(1, MarshalEntries(SetToSeq(v.val)))
      [] v.go = "BinaryObject" -> <<<<"object", v.val>>>>
      [] v.go = "Enum"         -> <<Type("Enum"), I32(v.of), I32(v.val)>>
      [] v.go = "Enums"        -> <<Type("EnumArray"), I32(v.of)>> \o
                                  WriteSequence([i \in DOMAIN v.val |->
                                      IF v.val[i] = None THEN <<Null>> ELSE <<Type("Enum"), I32(v.of), I32(v.val[i])>>])
      [] v.go = "Optimized"    -> <<Type("Optimized"), I32(Len(v.val)), <<"bytes", v.val>>>>
      [] OTHER                 -> <<Type(WireType(v.go))>> \o Body(v.go, v.val)

(* getTypeId: the type a field is registered with.  It has lists of its    *)
(* own, of what is no slice and of slices; what neither names is looked at *)
(* by reflection, and a slice is then one of objects: so is []bool.        *)
TypeIds ==
    [nil |-> "Null", bool |-> "Bool", uint8 |-> "Byte", int8 |-> "Byte",
     uint16 |-> "Char", int16 |-> "Short", uint32 |-> "Int", int32 |-> "Int",
     uint64 |-> "Long", int64 |-> "Long", uint |-> "Long", int |-> "Long",
     float32 |-> "Float", float64 |-> "Double", string |-> "String", uuid |-> "Uuid",
     Time |-> "Time", Date |-> "Date", timestamp |-> "Timestamp", Decimal |-> "Decimal",
     BinaryObject |-> "BinaryObject", Enums |-> "EnumArray", Enum |-> "Enum",
     any |-> "ObjectArray", Map |-> "Map", Collection |-> "Collection",
     Optimized |-> "Optimized", map |-> "Map"]

SliceTypeIds ==
    [uint8 |-> "ByteArray", int8 |-> "ByteArray", int16 |-> "ShortArray", uint16 |-> "CharArray",
     uint32 |-> "IntArray", int32 |-> "IntArray", uint64 |-> "LongArray", int64 |-> "LongArray",
     uint |-> "LongArray", int |-> "LongArray", float32 |-> "FloatArray", float64 |-> "DoubleArray",
     string |-> "StringArray", uuid |-> "UuidArray", Time |-> "TimeArray", Date |-> "DateArray",
     timestamp |-> "TimestampArray", Decimal |-> "DecimalArray"]

(* Mutant: a slice of 16 bits is one of shorts, signed or not.             *)
CharsAsShorts(v) ==
    CASE v.go = "slice" /\ v.of = "uint16" -> SliceTypeIds.int16
      [] v.go = "slice" /\ v.of \in DOMAIN SliceTypeIds -> SliceTypeIds[v.of]
      [] v.go \in DOMAIN TypeIds -> TypeIds[v.go]
      [] OTHER -> "ObjectArray"

GetTypeId(v) ==
    CASE v.go = "slice" /\ v.of \in DOMAIN SliceTypeIds -> SliceTypeIds[v.of]
      [] v.go \in DOMAIN TypeIds -> TypeIds[v.go]
      [] OTHER -> "ObjectArray"

-----------------------------------------------------------------------------
(* Reading.  A reader takes the stream and returns [val, rest].            *)

Got(val, rest) == [val |-> val, rest |-> rest]

(* The Go type a type on the wire is read as.                              *)
ReadAs == [Bool |-> "bool", Byte |-> "int8", Short |-> "int16", Char |-> "uint16",
           Int |-> "int32", Long |-> "int64", Float |-> "float32", Double |-> "float64",
           String |-> "string", Uuid |-> "uuid", Time |-> "Time", Date |-> "Date",
           Timestamp |-> "timestamp", Decimal |-> "Decimal"]

Arrays == {Array(t) : t \in DOMAIN ReadAs}

(* An int32 and an int64 off the stream.                                   *)
ReadInt(s)  == Signed(Content(s, IntBits), IntBits)
ReadLong(s) == Signed(Content(s, LongBits), LongBits)

ReadIntegral(go, n) == IF go \in {"bool", "uint8", "uint16"} THEN n ELSE Signed(n, Integral[go][2])

(* readTimestamp: the nanoseconds may be negative, time.Unix normalises.   *)
ReadTimestamp(millis, nanos) ==
    LET ns == nanos + Rem(millis, 1000) * 1000000
    IN  [sec |-> Quo(millis, 1000) + ns \div 1000000000, nano |-> ns % 1000000000]

(* readDecimal                                                             *)
ReadDecimal(scale, bytes) ==
    LET neg   == bytes[1] >= 128
        plain == [bytes EXCEPT ![1] = @ % 128]
        coeff == FoldLeft(LAMBDA n, b : 256 * n + b, 0, plain)
    IN  [neg |-> neg /\ coeff # 0, coeff |-> coeff, exp |-> -scale]

(* One value of Go type go whose type byte is known.                       *)
ReadBody(go, s) ==
    CASE go \in DOMAIN Integral  -> Got(ReadIntegral(go, Content(s, Integral[go][2])), Tail(s))
      [] go \in DOMAIN Floating \cup {"string"} -> Got(s[1][2], Tail(s))
      [] go = "uuid"             -> Got([hi |-> Content(s, LongBits), lo |-> Content(Tail(s), LongBits)], SubSeq(s, 3, Len(s)))
      [] go \in {"Time", "Date"} -> Got(ReadLong(s), Tail(s))
      [] go = "timestamp"        -> Got(ReadTimestamp(ReadLong(s), ReadInt(Tail(s))), SubSeq(s, 3, Len(s)))
      [] go = "Decimal"          -> Got(ReadDecimal(ReadInt(s), s[3][2]), SubSeq(s, 4, Len(s)))

(* readSequence: n elements one after the other.                           *)
ReadSequence(n, s, Read(_)) ==
    FoldLeft(LAMBDA acc, i : LET r == Read(acc.rest) IN Got(Append(acc.val, r.val), r.rest),
             Got(<<>>, s), [i \in 1..n |-> i])

(* readSlice: the length first.                                            *)
ReadSlice(s, Read(_)) == ReadSequence(ReadInt(s), Tail(s), Read)

(* checkNotNull, and the element behind it.                                *)
ReadElement(go, s) ==
    CASE go \notin DOMAIN Nullable -> ReadBody(go, s)
      [] s[1] = Null               -> Got(None, Tail(s))
      [] OTHER                     -> ReadBody(go, Tail(s))

(* An array of bytes is a []byte, unlike a byte, which is an int8.         *)
ElementOf(t) == IF t = "ByteArray" THEN "uint8"
                ELSE ReadAs[CHOOSE e \in DOMAIN ReadAs : Array(e) = t]

ReadArray(go, s) ==
    LET r == ReadSlice(s, LAMBDA t : ReadElement(go, t))
    IN  Got([go |-> "slice", of |-> go, val |-> r.val], r.rest)

(* The enums of an array: each is a null, or its type, class and ordinal.  *)
ReadEnumElement(s) ==
    IF s[1] = Null THEN Got(None, Tail(s)) ELSE Got(ReadInt(Tail(Tail(s))), SubSeq(s, 4, Len(s)))

RECURSIVE Unmarshal(_)

ReadEntry(s) == LET k == Unmarshal(s)
                    v == Unmarshal(k.rest)
                IN  Got(<<k.val, v.val>>, v.rest)

(* Collections and maps: the length, the kind, the elements.               *)
ReadKinded(go, s) ==
    LET elements == SubSeq(s, 3, Len(s))
        r == IF go = "Map" THEN ReadSequence(ReadInt(s), elements, ReadEntry)
                           ELSE ReadSequence(ReadInt(s), elements, Unmarshal)
    IN  Got([go |-> go, kind |-> Signed(Content(Tail(s), ByteBits), ByteBits), val |-> r.val], r.rest)

ReadObjectArray(s) == LET r == ReadSlice(s, Unmarshal) IN Got([go |-> "any", val |-> r.val], r.rest)

ReadEnumArray(s) == LET r == ReadSlice(Tail(s), ReadEnumElement)
                    IN  Got([go |-> "Enums", of |-> ReadInt(s), val |-> r.val], r.rest)

ReadScalar(t, s) == LET r == ReadBody(ReadAs[t], s) IN Got([go |-> ReadAs[t], val |-> r.val], r.rest)

(* A wrapped object lies at an offset in an array of bytes of its own.     *)
ReadWrapped(s) == Got([go |-> "BinaryObject", val |-> s[2][2][1 + ReadInt(Tail(Tail(s)))][2]], SubSeq(s, 4, Len(s)))

(* unmarshal                                                               *)
Unmarshal(s) ==
    LET t    == s[1][2]
        rest == Tail(s)
    IN  CASE s[1][1] = "object"      -> Got([go |-> "BinaryObject", val |-> t], rest)
          [] t = "Null"              -> Got(Nil, rest)
          [] t \in DOMAIN ReadAs     -> ReadScalar(t, rest)
          [] t \in Arrays            -> ReadArray(ElementOf(t), rest)
          [] t = "ObjectArray"       -> ReadObjectArray(Tail(rest))
          [] t \in {"Collection", "Map"} -> ReadKinded(t, rest)
          [] t \in {"Enum", "BinaryEnum"} -> Got([go |-> "Enum", of |-> ReadInt(rest), val |-> ReadInt(Tail(rest))],
                                                 SubSeq(rest, 3, Len(rest)))
          [] t = "EnumArray"         -> ReadEnumArray(rest)
          [] t = "Wrapped"           -> ReadWrapped(rest)
          [] t = "Optimized"         -> Got([go |-> "Optimized", val |-> rest[2][2]], SubSeq(rest, 3, Len(rest)))

-----------------------------------------------------------------------------
(* Correctness.                                                            *)

(* What the caller of an operation gets for the value v he gave it: the Go *)
(* type the wire type is read as, with the same bits; a nil of whatever    *)
(* type as nil, a slice of values as one of pointers (the model has one    *)
(* form for the two), any other slice as []interface{}, any map as a Map.  *)
RECURSIVE Normal(_)

NormalScalar(go, x) ==
    CASE go \in DOMAIN Integral /\ go # "bool" -> ReadIntegral(ReadAs[WireType(go)], Unsigned(x, Integral[go][2]))
      [] go = "Decimal"                        -> [x EXCEPT !.neg = @ /\ x.coeff # 0]
      [] OTHER                                 -> x

NormalSlice(v) ==
    LET of == ElementOf(Array(WireType(v.of)))
    IN  [go |-> "slice", of |-> of,
         val |-> [i \in DOMAIN v.val |->
                    CASE v.val[i] = None          -> None
                      [] of \in DOMAIN Integral   -> ReadIntegral(of, Unsigned(v.val[i], Integral[of][2]))
                      [] OTHER                    -> NormalScalar(of, v.val[i])]]

Normal(v) ==
    IF IsNil(v) THEN Nil ELSE
    CASE v.go = "slice"             -> NormalSlice(v)
      [] v.go \in {"any", "goslice"} -> [go |-> "any", val |-> [i \in DOMAIN v.val |-> Normal(v.val[i])]]
      [] v.go = "Collection"        -> [v EXCEPT !.val = [i \in DOMAIN @ |-> Normal(@[i])]]
      [] v.go = "Map"               -> [v EXCEPT !.val = [i \in DOMAIN @ |-> <<Normal(@[i][1]), Normal(@[i][2])>>]]
      [] v.go = "map"               -> [go |-> "Map", kind |-> 1, val |-> [i \in 1..Cardinality(v.val) |->
                                            LET e == SetToSeq(v.val)[i] IN <<Normal(e[1]), Normal(e[2])>>]]
      [] v.go \in {"BinaryObject", "Enum", "Enums", "Optimized"} -> v
      [] OTHER                      -> [go |-> ReadAs[WireType(v.go)], val |-> NormalScalar(v.go, v.val)]

(* A value comes back as it was given, up to that, and the reader stops    *)
(* where the next value begins.                                            *)
Writable(v) == Panic \notin Range(Marshal(v))

RoundTrips(v) ==
    LET next == <<Type("Short"), Cell(7, ShortBits)>>
    IN  Writable(v) => Unmarshal(Marshal(v) \o next) = Got(Normal(v), next)

(* The node may answer with an object wrapped in an array of bytes, and    *)
(* with an enum under another type byte: it is the same value.             *)
NodeForm(v) ==
    CASE v.go = "BinaryObject" -> <<Type("Wrapped"), I32(3), <<"bytes", <<"x", "x", <<"object", v.val>>>>>>, I32(2)>>
      [] v.go = "Enum"         -> <<Type("BinaryEnum"), I32(v.of), I32(v.val)>>
      [] OTHER                 -> Marshal(v)

NodeFormRead(v) == Writable(v) => Unmarshal(NodeForm(v)).val = Normal(v)

(* A field of an object is registered with the type its value is written   *)
(* with; a nil has the type it had before, an object writes its own.       *)
TypeIdIsWritten(v) ==
    ~IsNil(v) /\ v.go # "BinaryObject" => Marshal(v)[1] = Type(GetTypeId(v))
=============================================================================
