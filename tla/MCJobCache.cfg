SPECIFICATION FairSpec
CONSTANTS
    Runs = {r1, r2, r3}
    Names = {a, b}
    Md5s = {m1, m2}
    NoRun = NoRun
    NoEntry = NoEntry
    NoFile = NoFile
    Partial = Partial
INVARIANTS
    TypeOK
    OneHolder
    NoLostUpdate
    FileIsWhole
PROPERTIES
    FileStays
    EveryRunEnds
    ImplementsStore
