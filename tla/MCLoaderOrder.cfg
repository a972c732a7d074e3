SPECIFICATION MCSpec
CHECK_DEADLOCK FALSE
CONSTANTS
    None = None
    Dir = Dir
    Notes = Notes
    F1 = F1
    F2 = F2
    Link = Link
    Stdin = Stdin
    PathList <- MCPathList
    Listing <- MCListing
    Yaml <- MCYaml
    Resolve <- MCResolve
INVARIANTS
    FilesInAlphabeticalOrder
