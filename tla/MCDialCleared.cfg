SPECIFICATION Spec
CONSTANTS
    d1 = d1
    d2 = d2
    Scenes <- MCScenes
    Clients = {d1, d2}
    Host = "a"
    Alts <- MCAlts
    GlobalKey = "global"
    Self = "self"
    Inherit = Inherit
    Hosts = {"j"}
    Users = {"", "@op"}
    Files = {"own"}
    MissMax = 2
    None = None
    Known <- MCKnown
INVARIANTS
    ClearedStays
CHECK_DEADLOCK FALSE
