SPECIFICATION FairSpec
CONSTANTS
    a = a
    b = b
    f = f
    v = v
    c1 = c1
    c2 = c2
    Names = {a, b, v}
    Inside <- NoFolders
    Configs = {c1, c2}
    Foreign = Foreign
    Absent = Absent
    Rank <- PlaceOf
    Managed = {c1, c2}
    Disabled = {c2}
    NotDefined = NotDefined
    Blank = Blank
    NoEntry = NoEntry
    Commands <- PlainUpdates
    Definitions <- JobAndViewOfOneName
    Changes <- AnyChange
    Servers <- EmptyServer
    CpuCount = 2
    Faults = {}
INVARIANTS
    RepeatUploadsNothing
