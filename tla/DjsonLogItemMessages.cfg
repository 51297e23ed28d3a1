CONSTANTS
    t1 = t1
    t2 = t2
    i1 = i1
    i2 = i2
    i3 = i3
    i4 = i4
    i5 = i5
    i6 = i6
    NoItem = NoItem
    Managers = {"IdMgr", "SchemaManager"}
    Threads <- MCThreads
    Items <- MCItems
    Chars <- MCChars
    FieldsOf <- MCFieldsOf
    Rb2MdsdType <- MCRb2MdsdType
    Malformed = {i3}
    Comma = ","
    ResendOverlaps = FALSE
SPECIFICATION Spec
SYMMETRY Alike
INVARIANTS
    TypeOK
    OneSchemaPerId
    SameFieldsSameId
    OwnSchema
    OnlyCollisionsThrow
    WholeMessage
