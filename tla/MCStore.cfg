SPECIFICATION Spec
CONSTANTS
    SessionIds <- MCSessionIds
    FolderIds <- MCFolderIds
    Root = "root"
    Names <- MCNames
    SessionNames <- MCSessionNames
    FolderNames <- MCFolderNames
    SourceFolders <- MCSourceFolders
    BaseOf <- MCBaseOf
    FoldOf <- MCFoldOf
    PlainName <- MCPlainName
    None = None
    MaxRev <- MCMaxRev
    MaxDepth = 2
    MaxFaults = 1
INVARIANTS
    TypeOK
    InStep
PROPERTIES
    MapKept
CHECK_DEADLOCK FALSE
