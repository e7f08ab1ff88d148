------------------------------- MODULE Customs -------------------------------
(***************************************************************************)
(* What the user adds to sessions and folders, each kind with a store of   *)
(* its own in memory and in files: variables (vars/vars.go), button bars   *)
(* (buttonbar/buttonbar.go), and snippets with their folders               *)
(* (snippets/store.go).  A file is replaced by a rename, so it is written  *)
(* or it stays.  A bar is written before memory has it, the others after;  *)
(* a write that fails leaves memory ahead of the file.                     *)
(*                                                                         *)
(* An entry of the variables is a scope, a name and an OS selector; a      *)
(* scope's entries share a file, and so do the folders of the snippets.    *)
(***************************************************************************)
EXTENDS SequencesExt

CONSTANTS
    Scopes,             \* scopes that may have entries: <<"global", 0>>, <<"folder", id>>,
                        \* <<"session", id>>
    VarNames, VarTexts, \* names and values of variables
    SecretNames,        \* names the policy refuses
    Families,           \* OS families
    Bars,               \* bars: the selectors of their buttons
    SnipFolders, Snips, \* ids of snippet folders and of snippets
    NoEntry, Unsure

ASSUME CustomsAssumption == NoEntry \notin SnipFolders \union {""}

VARIABLES
    customs,   \* the stores in memory: [vars, bars, folders, snips]; of a snippet
               \* folder or a snippet, the folder it is in ("" for none)
    files,     \* what the files hold of them
    reported,  \* auxiliary: what the user was last told is stored; Unsure after an error
    leftover,  \* auxiliary: entries in a file that a deletion that failed took from memory
    failed     \* auxiliary: a write or a deletion has failed

customVars == <<customs, files, reported, leftover, failed>>

Undetected == ""
Selectors == Families \union {"all", "unknown"}
FolderScopes == {sc \in Scopes : sc[1] # "session"}

Nothing == [x \in {} |-> NoEntry]
NoCustoms == [vars |-> Nothing, bars |-> Nothing, folders |-> Nothing, snips |-> Nothing]
At(f, x) == IF x \in DOMAIN f THEN f[x] ELSE NoEntry

CustomsInit ==
    /\ customs = NoCustoms
    /\ files = NoCustoms
    /\ reported = NoCustoms
    /\ leftover = {}
    /\ failed = FALSE

With(f, S, v) == [x \in DOMAIN f \union S |-> IF x \in S THEN v ELSE f[x]]
Changed(f, S, v) == IF v = NoEntry THEN Restrict(f, DOMAIN f \ S) ELSE With(f, S, v)

\* The files f when those with the entries F are written from memory m.
Filed(f, m, F) ==
    [e \in (DOMAIN m \intersect F) \union (DOMAIN f \ F) |-> IF e \in F THEN m[e] ELSE f[e]]

Reports(part, S, v) == reported' = [reported EXCEPT ![part] = With(@, S, v)]

\* Memory has taken v for the entries S; the file with the entries F is written.
Writes(part, S, F, v) ==
    /\ LET mem == customs'[part]
       IN  /\ files' = [files EXCEPT ![part] = Filed(@, mem, F)]
           /\ leftover' = leftover \ ({part} \X (S \union (F \ DOMAIN mem)))
    /\ Reports(part, S, v)
    /\ UNCHANGED failed

\* It is not written, and the caller gets an error.
WriteFails(part, S, F) ==
    /\ Reports(part, S, Unsure)
    /\ leftover' = leftover \union ({part} \X
          ((F \intersect DOMAIN files[part]) \ DOMAIN customs'[part]))
    /\ failed' = TRUE
    /\ UNCHANGED files

\* Memory first, then the file.
Sets(part, S, F, v) ==
    /\ customs' = [customs EXCEPT ![part] = Changed(@, S, v)]
    /\ Writes(part, S, F, v) \/ WriteFails(part, S, F)

\* Deleting what memory does not have succeeds, and does nothing.
NothingThere(part, S) ==
    /\ Reports(part, S, NoEntry)
    /\ UNCHANGED <<customs, files, leftover, failed>>

-----------------------------------------------------------------------------
(* Variables.                                                              *)

\* The entries of a scope's file.
ScopeEntries(sc) == {sc} \X VarNames \X Selectors

PutVar(sc, name, sel, text) ==
    /\ name \notin SecretNames
    /\ Sets("vars", {<<sc, name, sel>>}, ScopeEntries(sc), text)

\* One selector of a name, or all of them.
DeleteVar(sc, name, sels) ==
    LET gone == {sc} \X {name} \X sels
    IN  IF ({sc} \X {name} \X Selectors) \intersect DOMAIN customs.vars = {}
        THEN NothingThere("vars", gone)
        ELSE Sets("vars", gone, ScopeEntries(sc), NoEntry)

\* selectOS: the value for the family, or for no family, before the value for all.
SelectOS(sc, name, family) ==
    LET own == <<sc, name, IF family = Undetected THEN "unknown" ELSE family>>
    IN  IF own \in DOMAIN customs.vars THEN customs.vars[own]
                                       ELSE At(customs.vars, <<sc, name, "all">>)

\* Mutant: the scopes are overlaid from the session up.
OverlayRootWins(chain, name, family) ==
    FoldRight(LAMBDA sc, v : IF SelectOS(sc, name, family) = NoEntry THEN v
                             ELSE SelectOS(sc, name, family),
              chain, NoEntry)

\* List, of one name: global, folders from the root down, session.
Overlay(chain, name, family) ==
    FoldLeft(LAMBDA v, sc : IF SelectOS(sc, name, family) = NoEntry THEN v
                            ELSE SelectOS(sc, name, family),
             NoEntry, chain)

-----------------------------------------------------------------------------
(* Button bars.                                                            *)

\* Mutant: memory first, as the variables do it.
KeepBarMemoryFirst(sc, bar) == Sets("bars", {sc}, {sc}, bar)

\* The file first; if that fails nothing has changed.
KeepBar(sc, bar) ==
    /\ customs' = [customs EXCEPT !.bars = Changed(@, {sc}, bar)]
    /\ Writes("bars", {sc}, {sc}, bar)

SaveBar(sc, bar) == KeepBar(sc, bar)
DeleteBar(sc) == KeepBar(sc, NoEntry)

\* ResolveFolder: the nearest bar on the way up, the global one left aside.
FolderBar(chain) ==
    LET own == {i \in DOMAIN chain : chain[i] \in DOMAIN customs.bars}
    IN  IF own = {} THEN {} ELSE customs.bars[chain[Max(own)]]

\* FilterOS: the buttons for all, for this family, or for sessions without one.
FilterOS(bar, family) ==
    bar \intersect {"all", IF family = Undetected THEN "unknown" ELSE family}

-----------------------------------------------------------------------------
(* Snippets.                                                               *)

SaveSnipFolder(f, parent) ==
    /\ parent \in {"", f} \union DOMAIN customs.folders
    /\ Sets("folders", {f}, SnipFolders, parent)

\* Mutant: only subfolders are looked for.
HoldsFolders(f) == f \in Range(customs.folders)

Holds(f) == f \in Range(customs.folders) \union Range(customs.snips)

DeleteSnipFolder(f) ==
    IF f \notin DOMAIN customs.folders
    THEN NothingThere("folders", {f})
    ELSE ~Holds(f) /\ Sets("folders", {f}, SnipFolders, NoEntry)

SaveSnippet(s, f) ==
    /\ f \in {""} \union DOMAIN customs.folders
    /\ Sets("snips", {s}, {s}, f)

DeleteSnippet(s) ==
    IF s \notin DOMAIN customs.snips
    THEN NothingThere("snips", {s})
    ELSE Sets("snips", {s}, {s}, NoEntry)

-----------------------------------------------------------------------------
\* The program starts again.
OpenCustoms ==
    /\ customs' = files
    /\ UNCHANGED <<files, reported, leftover, failed>>

CustomsType ==
    /\ \A e \in DOMAIN customs.vars : e \in Scopes \X (VarNames \ SecretNames) \X Selectors
    /\ \A c \in {customs, files} : c.bars \in [DOMAIN c.bars -> Bars]
    /\ leftover # {} => failed

\* What was reported stored is in the file, and what was reported gone is not; memory
\* agrees; a bar is never shown that is not kept.  The exception is what a deletion left
\* in the file when it failed: memory has forgotten it, and repeating the deletion
\* reports success.
CustomsKept ==
    /\ \A part \in DOMAIN reported : \A e \in DOMAIN reported[part] :
          reported[part][e] # Unsure /\ <<part, e>> \notin leftover =>
              At(files[part], e) = reported[part][e] /\ At(customs[part], e) = reported[part][e]
    /\ customs.bars = files.bars

\* No snippet and no folder is filed under a folder that is gone, now or after the next
\* start, whatever was deleted in which order; a failure may leave one.
SnippetsFiled ==
    \A c \in {customs, files} :
        failed \/ Range(c.snips) \union Range(c.folders) \subseteq {""} \union DOMAIN c.folders

\* A variable has the value of the innermost scope that has one for the family:
\* a scope that only has values for others does not hide those further out.
InnermostWins(chain, name, family) ==
    LET has == {i \in DOMAIN chain : SelectOS(chain[i], name, family) # NoEntry}
    IN  Overlay(chain, name, family) =
            IF has = {} THEN NoEntry ELSE SelectOS(chain[Max(has)], name, family)

\* Delete removes what it is asked to (vars.go:244-245).
DeletedIsGone ==
    \A part \in DOMAIN reported : \A e \in DOMAIN reported[part] :
        reported[part][e] = NoEntry => e \notin DOMAIN files[part]

\* The folders of the snippets are a tree (snippets/store.go:16-17).
SnippetTree ==
    \A S \in SUBSET DOMAIN customs.folders :
        S # {} => \E f \in S : customs.folders[f] \notin S
=============================================================================
