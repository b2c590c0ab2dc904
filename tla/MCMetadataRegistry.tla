------------------------- MODULE MCMetadataRegistry -------------------------
(* A type of two versions whose fields may be nil, an enum of the same id, another client. *)
EXTENDS MetadataRegistry

MCFieldsOf == [s \in Schemas |-> IF s = "a" THEN {"a"} ELSE {"a", "b"}]
Object(name) == [typeName |-> name, affKey |-> "none", isEnum |-> FALSE]
Enum == [typeName |-> "T", affKey |-> "none", isEnum |-> TRUE]
Typed(s, a, b) == [kind |-> "write", header |-> Object("T"), schema |-> s, types |-> [f \in Fields |-> IF f = "a" THEN a ELSE b]]

(* Two versions of the type, one with a field that is nil, one that disagrees; the same id by another name. *)
MCWrites == {Typed("a", "int", "int"), Typed("ab", NilValue, "int"), [Typed("a", "int", "int") EXCEPT !.header = Object("t")]}
MCEnums == {[kind |-> k, header |-> Enum, consts |-> {[name |-> "x", ord |-> 0]}, ord |-> 0] : k \in {"enum", "newEnum"}}
           \cup {[kind |-> "registerEnum", header |-> Enum, consts |-> {[name |-> "y", ord |-> 0]}, ord |-> 0]}
MCForeign == {{[header |-> Object("T")], [schema |-> "ab"]} \cup {[field |-> f, type |-> "int"] : f \in {"a", "b"}},
              {[header |-> Object("T")], [schema |-> "a"], [field |-> "a", type |-> "object"]}}
=============================================================================
