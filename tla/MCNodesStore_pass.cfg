\* Two nodes, two fields, a reliable database; the monitor changes nodes
\* while bulks execute.
CONSTANTS
    i1 = i1
    i2 = i2
    Items = {i1, i2}
    Fields = {"name", "pool"}
    Vals = {0, 1}
    ItemOrder <- MC_ItemOrder
    NONE = NONE
    ChangesBeforeSend = FALSE
    MAX_CHANGES = 3
    MAX_FAULTS = 0
SPECIFICATION FairSpec

PROPERTIES
    NodesConverge
    ImplementsNodeCollection
