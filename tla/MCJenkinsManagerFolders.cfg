SPECIFICATION FairSpec
CONSTANTS
    a = a
    b = b
    f = f
    v = v
    c1 = c1
    c2 = c2
    Names = {f, a, b}
    Inside <- AInF
    Configs = {c1, c2}
    Foreign = Foreign
    Absent = Absent
    Rank <- PlaceOf
    Managed = {c1, c2}
    Disabled = {c2}
    NotDefined = NotDefined
    Blank = Blank
    NoEntry = NoEntry
    Commands <- UncachedUpdatesWithOld
    Definitions <- FolderTrees
    Changes <- AnyChange
    Servers <- ForeignOutside
    CpuCount = 2
    Faults = {}
INVARIANTS
    NeverFails
PROPERTIES
    OldOnlyObsolete
