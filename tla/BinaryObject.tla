----------------------------- MODULE BinaryObject -----------------------------
(***************************************************************************)
(* The layout of a binary object (binary_object.go, the schema builder of  *)
(* binary_schema.go and the positions of buffer.go): a header that is      *)
(* written last, the fields, and a footer with their offsets.  A buffer is *)
(* [cells, position]: what was written at a position, and where the next   *)
(* Write goes.  A value is a leaf [size, name] or an object                *)
(* [typeId, typeName, fields], its fields a sequence of <<id, value>>.     *)
(***************************************************************************)
EXTENDS Integers, Sequences, SequencesExt, FiniteSetsExt, TLC

CONSTANT NotFound  \* the nil of Field

HeaderLength    == 24
FlagsPos        == 2
TypeIdPos       == 4
HashCodePos     == 8
LenPos          == 12
SchemaIdPos     == 16
SchemaOffsetPos == 20
MaxOffset1      == 256
MaxOffset2      == 65536
Unregistered    == 0
NameSize        == 9   \* of a type name on the wire

-----------------------------------------------------------------------------
(* The buffer.                                                             *)

Empty(position) == [cells |-> <<>>, position |-> position]

SetPosition(buf, pos) == [buf EXCEPT !.position = pos]

(* A Write of size bytes: what it covers is overwritten.                   *)
Write(buf, x, size) ==
    LET p == buf.position
    IN  [cells    |-> (p :> x) @@ [q \in DOMAIN buf.cells \ (p..p + size - 1) |-> buf.cells[q]],
         position |-> p + size]

Slice(buf, from, to) ==
    [q \in {p - from : p \in DOMAIN buf.cells \cap (from..to - 1)} |-> buf.cells[q + from]]

-----------------------------------------------------------------------------
(* The schema builder: [ids, offsets] of the fields, in their order.       *)

AddField(bld, id, offset) == [ids |-> Append(bld.ids, id), offsets |-> Append(bld.offsets, offset)]

(* Mutant: the limits of the widths are off by one.                        *)
OneTooFar(offsets) ==
    IF offsets = <<>> THEN 0
    ELSE IF Last(offsets) <= MaxOffset1 THEN 1 ELSE IF Last(offsets) <= MaxOffset2 THEN 2 ELSE 4

(* The last offset decides how wide all of them are.                       *)
FieldSize(offsets) ==
    IF offsets = <<>> THEN 0
    ELSE IF Last(offsets) < MaxOffset1 THEN 1 ELSE IF Last(offsets) < MaxOffset2 THEN 2 ELSE 4

(* An offset as its bytes: int8(offset), int16(offset), all of it.         *)
Cut(offset, size) == CASE size = 1 -> offset % 256
                       [] size = 2 -> offset % 65536
                       [] size = 4 -> offset

WriteFooter(buf, bld, compact) ==
    LET size == FieldSize(bld.offsets)
        Entry(b, i) == Write(IF compact THEN b ELSE Write(b, bld.ids[i], 4), Cut(bld.offsets[i], size), size)
    IN  FoldLeft(Entry, buf, [i \in DOMAIN bld.ids |-> i])

-----------------------------------------------------------------------------
(* Writing.                                                                *)

IsObject(v) == "fields" \in DOMAIN v

(* The header, at the start of the object, and back to its end.            *)
WriteHeader(buf, start, flags, o, ids, offset) ==
    LET end  == buf.position
        b1   == Write(SetPosition(buf, start), "object", 1)
        b2   == Write(Write(Write(b1, "version", 1), flags, 2), o.typeId, 4)
        b3   == Write(Write(SetPosition(b2, start + LenPos), end - start, 4), ids, 4)
        b4   == Write(b3, offset, 4)
        b5   == Write(SetPosition(b4, start + HashCodePos), "hash", 4)
    IN  SetPosition(b5, end)

RECURSIVE Marshal(_, _, _)

(* writeField0: the offset of a field counts from the start of its object. *)
WriteField(acc, field, start, compact) ==
    [buf |-> Marshal(acc.buf, field[2], compact),
     bld |-> AddField(acc.bld, field[1], acc.buf.position - start)]

(* newBinaryWriterImpl leaves room for the header, and writes the name of a *)
(* type that is not registered behind it.                                  *)
StartObject(buf, o) ==
    LET body == SetPosition(buf, buf.position + HeaderLength)
    IN  IF o.typeId = Unregistered THEN Write(body, o.typeName, NameSize) ELSE body

FlagsOf(o, compact, size) ==
    {"userType"} \cup (IF compact THEN {"compactFooter"} ELSE {})
                 \cup (IF o.fields # <<>> THEN {"hasSchema"} ELSE {})
                 \cup (IF size = 1 THEN {"oneByte"} ELSE IF size = 2 THEN {"twoBytes"} ELSE {})

(* marshalBinarylizable, and finalize.                                     *)
WriteObject(buf, o, compact) ==
    LET start  == buf.position
        body   == StartObject(buf, o)
        all    == FoldLeft(LAMBDA acc, f : WriteField(acc, f, start, compact),
                           [buf |-> body, bld |-> [ids |-> <<>>, offsets |-> <<>>]], o.fields)
        offset == all.buf.position - start
    IN  WriteHeader(WriteFooter(all.buf, all.bld, compact), start,
                    FlagsOf(o, compact, FieldSize(all.bld.offsets)), o, all.bld.ids, offset)

Marshal(buf, v, compact) == IF IsObject(v) THEN WriteObject(buf, v, compact) ELSE Write(buf, v.name, v.size)

-----------------------------------------------------------------------------
(* Reading.                                                                *)

(* readBinaryObject: the object at a position, as long as its header says. *)
ReadObject(buf, pos) == Slice(buf, pos, pos + buf.cells[pos + LenPos])

Flags(data)  == data[FlagsPos]

(* The name of an unregistered type lies behind the header; a name of the  *)
(* model is its type's id.                                                 *)
GetTypeId(data) == IF data[TypeIdPos] = Unregistered THEN data[HeaderLength] ELSE data[TypeIdPos]

OffsetSize(data) == CASE "oneByte" \in Flags(data)  -> 1
                      [] "twoBytes" \in Flags(data) -> 2
                      [] OTHER                      -> 4

(* Where the footer has the offset of a field: under the index the schema   *)
(* has for it, or behind the id itself.  Field ids are distinct: of two    *)
(* equal ones the first branch takes the last and the second the first.    *)
CompactPlaces(data, id) ==
    LET schema == data[SchemaIdPos]   \* getSchema finds the field ids
    IN  {data[SchemaOffsetPos] + (i - 1) * OffsetSize(data) : i \in {j \in DOMAIN schema : schema[j] = id}}

FullPlaces(data, id) ==
    LET start == data[SchemaOffsetPos]
        step  == 4 + OffsetSize(data)
    IN  {p + 4 : p \in {q \in DOMAIN data : q >= start /\ (q - start) % step = 0 /\ data[q] = id}}

(* Field, down to where unmarshal starts to read.                          *)
FieldOffset(data, id) ==
    LET places == IF "compactFooter" \in Flags(data) THEN CompactPlaces(data, id) ELSE FullPlaces(data, id)
    IN  IF "hasSchema" \notin Flags(data) \/ places = {} THEN NotFound
        ELSE data[CHOOSE p \in places : TRUE]

-----------------------------------------------------------------------------
(* Correctness.                                                            *)

(* Every field of an object is where the object says it is, whatever the   *)
(* sizes of the fields before it, wherever in a stream or in another       *)
(* object it was written, and with either footer; a field it does not have *)
(* is not found.                                                           *)
RECURSIVE Reads(_, _)

Reads(data, o) ==
    /\ GetTypeId(data) = (IF o.typeId = Unregistered THEN o.typeName ELSE o.typeId)
    /\ FieldOffset(data, NotFound) = NotFound
    /\ \A i \in DOMAIN o.fields :
          LET at == FieldOffset(data, o.fields[i][1])
              v  == o.fields[i][2]
          IN  /\ at \in DOMAIN data
              /\ IF IsObject(v) THEN Reads(ReadObject([cells |-> data], at), v) ELSE data[at] = v.name

ObjectReads(o, compact, start) ==
    LET buf == Marshal(Empty(start), o, compact)
    IN  /\ Reads(ReadObject(buf, start), o)
        /\ start + buf.cells[start + LenPos] = buf.position
=============================================================================
