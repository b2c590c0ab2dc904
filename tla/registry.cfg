SPECIFICATION Spec
CONSTANTS
    Procs = {p1, p2}
    TypeNames = {"T", "t"}
    AffKeys = {"none"}
    Fields = {"a", "b"}
    FieldTypes = {"int", "object"}
    ObjectType = "object"
    NilValue = "nil"
    Schemas = {"a", "ab"}
    FieldsOf <- MCFieldsOf
    EnumNames = {"x", "y"}
    Ordinals = {0}
    Writes <- MCWrites
    Enums <- MCEnums
    ForeignTypes <- MCForeign
    MaxClears = 1
INVARIANTS
    TypeOK
    CacheWithinNode
    WrittenIsKnown
    SchemaFound
PROPERTIES
    ReplicaOfNode
CHECK_DEADLOCK FALSE
