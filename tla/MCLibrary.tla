------------------------------ MODULE MCLibrary -------------------------------
(* Two refreshes of a source whose devices are renamed, replaced, moved and doubled, beside a
   user who edits the tree; one refresh of a source that authenticates, beside a user who
   sets up the secrets, and restarts; one beside a user who sets variables and bars for
   what it creates; and variables and snippets alone. *)
EXTENDS Library

Rec(k, name, path) == [key |-> k, name |-> name, path |-> path]

Replacement == {<<Rec("k1", "b", "p")>>}
Devices == Replacement \union {
    <<Rec("k1", "a", ""), Rec("k2", "b", "p")>>,
    <<Rec("k2", "a", ""), Rec("k1", "b", "")>>,
    <<Rec("k1", "a", "p"), Rec("k1", "b", "p")>> }
One == {CHOOSE r \in Refreshes : TRUE}
Device == {<<Rec("k1", "a", "p")>>}
MCScenes == <<
    [refreshes |-> Refreshes, auth |-> FALSE, edits |-> 1, settings |-> {}, settingOps |-> 0,
     decoded |-> Devices \ Replacement],
    [refreshes |-> Refreshes, auth |-> FALSE, edits |-> 0, settings |-> {}, settingOps |-> 0,
     decoded |-> Devices],
    [refreshes |-> One, auth |-> TRUE, edits |-> 0, settings |-> {"secrets"}, settingOps |-> 5,
     decoded |-> Device],
    [refreshes |-> One, auth |-> FALSE, edits |-> 0, settings |-> {"vars", "bars"},
     settingOps |-> 2, decoded |-> Device],
    [refreshes |-> {}, auth |-> FALSE, edits |-> 0, settings |-> {"vars"}, settingOps |-> 3,
     decoded |-> {}],
    [refreshes |-> {}, auth |-> FALSE, edits |-> 0, settings |-> {"snippets"}, settingOps |-> 4,
     decoded |-> {}] >>
MCScopes == {<<"global", 0>>, <<"folder", 1>>, <<"session", 0>>}
MCBars == {{"all", "unknown"}, {"linux"}}
MCNames == {"a", "b"}
MCKeys == {"k1", "k2"}
MCPaths == {"", "p"}
=============================================================================
