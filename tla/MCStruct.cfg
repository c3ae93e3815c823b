\* Three names, nine definitions of S, four of T that nest S or U, four-valued bytes,
\* blocks of at most 16 bytes, ints up to 31, sizes up to 100 as where they are wider
\* than an int.  A command may run at any time: nothing stops.
CONSTANTS
    FieldName <- MCFieldName
    NoDefinition = NoDefinition
    StructName <- MCStructName
    Sources <- MCSources
    Dicts <- MCDicts
    FieldValues <- MCFieldValues
    Radix = 4
    IntMax = 31
    SizeMax = 100
    MaxBytes = 16
    Counts = {1, 2, 9}
    VLACounts <- MCVLACounts
    None = None
    Junk = Junk
    Fence = Fence
    NestedRoomForVLACount <- RoomForVLACount
    NestedRoomForObj <- RoomForObj
    NestedRoomForNative <- RoomForNative
    NestedAccepts <- MCNestedAccepts
    NestedImage <- Image
    NestedToObj <- ToObj
    NestedNormal <- Normal
    NestedZeroStruct <- ZeroStruct
SPECIFICATION StructSpec
INVARIANTS TypeOK FieldsInPlace StructsCompose ReadsBack InBounds BinaryRoundTrip
