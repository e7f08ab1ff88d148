------------------------------- MODULE MCStore -------------------------------
(* Two sessions, two folders beside the root; the names "a" and "A" are equal but  *)
(* for case, and "!" has no spelling on disk.                                     *)
EXTENDS Store

MCSessionIds == {"s1", "s2"}
MCFolderIds == {"root", "f1", "f2"}
MCNames == {"a", "A", "b", "!"}
MCSessionNames == {"a", "A", "!"}
MCFolderNames == {"a", "b"}
MCMaxRev == [s1 |-> 2, s2 |-> 1]
MCSourceFolders == {"f1"}
MCAllFolders == {"f1", "f2"}
MCBaseOf == [n \in MCNames |-> CASE n = "A" -> 1 [] n = "a" -> 2 [] n = "b" -> 3 [] n = "!" -> 0]
MCFoldOf == [n \in MCNames |-> IF n = "A" THEN "a" ELSE n]
MCPlainName == <<"A", "a", "b">>
=============================================================================
