SPECIFICATION Spec
CONSTANTS
    Refreshes = {r1, r2}
    Scenes <- MCScenes
    Names <- MCNames
    Keys <- MCKeys
    Paths <- MCPaths
    MaxIds = 5
    MaxFolders = 4
    Items = {0, 1}
    Phrases = {"p", "q"}
    Values = {"v", "w"}
    Unset = Unset
    Scopes <- MCScopes
    VarNames = {"x"}
    VarTexts = {"v", "w"}
    SecretNames = {}
    Families = {"linux"}
    Bars <- MCBars
    SnipFolders = {"d", "e"}
    Snips = {"s"}
    NoEntry = NoEntry
    Unsure = Unsure
    None = None
INVARIANTS
    \* One at a time: TLC stops at the first it finds violated.
    DeletedIsGone
    \* ClearedIsGone
    \* CancelReaches
    \* RefreshMatches
    \* SnippetTree
CHECK_DEADLOCK FALSE
