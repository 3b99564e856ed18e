\* One injected write error in a bulk where an item adds no operation.
CONSTANTS
    i1 = i1
    i2 = i2
    Items = {i1, i2}
    Fields = {"name"}
    Vals = {0, 1}
    ItemOrder <- MC_ItemOrder
    NONE = NONE
    ChangesBeforeSend = FALSE
    MAX_CHANGES = 1
    MAX_FAULTS = 1
SPECIFICATION Spec
INVARIANT StoredCopyIsStored
