SPECIFICATION Spec
CONSTANTS
    SessionIds <- MCSessionIds
    FolderIds <- MCFolderIds
    Root = "root"
    Names <- MCNames
    SessionNames <- MCSessionNames
    FolderNames <- MCFolderNames
    SourceFolders <- MCAllFolders
    BaseOf <- MCBaseOf
    FoldOf <- MCFoldOf
    PlainName <- MCPlainName
    None = None
    MaxRev <- MCMaxRev
    MaxDepth = 2
    MaxFaults = 0
INVARIANT
    OneSourcePerSubtree
CHECK_DEADLOCK FALSE
