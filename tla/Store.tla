------------------------------- MODULE Store --------------------------------
(***************************************************************************)
(* The session store (store/yamlstore.go, store/source.go): a tree of      *)
(* folders on disk, with one file per session, and an index of it in       *)
(* memory.  The mutex admits one operation at a time, but an operation     *)
(* touches several files, and the process may die, or a file operation     *)
(* fail, between any two of them.  An operation is therefore a list of     *)
(* steps (todo): its action checks the request against the index and       *)
(* plans the steps, which are then taken one by one.                       *)
(*                                                                         *)
(* A path is a sequence of entry numbers.  The directory of base name b is *)
(* entry 2b and the file b.yaml entry 2b+1, so that comparing numbers is   *)
(* comparing file names, which is the order a directory is read in.        *)
(***************************************************************************)
EXTENDS Integers, SequencesExt

CONSTANTS
    SessionIds, FolderIds,  \* ids that may ever be given out
    Root,                   \* id of the root folder
    Names,                  \* names
    SessionNames, FolderNames, SourceFolders, \* bounds: names sessions and folders get,
                            \* folders that may get an import source
    BaseOf,                 \* sanitizeName: base name of a name, 0 if empty
    FoldOf,                 \* the name without regard to case
    PlainName,              \* base name -> the name that is spelled like it
    None,
    MaxRev,                 \* bound on the revision of each session
    MaxDepth,               \* bound on the depth of the tree
    MaxFaults               \* bound on failures, crashes and files added by hand

ASSUME StoreAssumption ==
    /\ Root \in FolderIds
    /\ None \notin SessionIds \union FolderIds \union Names
    /\ SessionIds \intersect FolderIds = {}
    /\ SessionNames \union FolderNames \subseteq Names
    /\ SourceFolders \subseteq FolderIds
    /\ BaseOf \in [Names -> Nat]
    /\ \A name \in Names : BaseOf[name] # 0 => PlainName[BaseOf[name]] \in Names
    /\ {MaxDepth, MaxFaults} \subseteq Nat
    /\ \A id \in SessionIds : MaxRev[id] \in Nat /\ MaxRev[id] # 0

VARIABLES
    dirs,      \* disk: directory -> its folder.yaml (NoYaml: there is none)
    files,     \* disk: session file -> its contents
    status,    \* "down", "opening" or "up"
    folders,   \* index: s.folders with s.folderDir
    sessions,  \* index: s.sessions with s.sessionFile
    todo,      \* steps of the operation that holds s.mu
    touched,   \* that operation has changed the disk
    used,      \* ids given out so far
    faults,    \* failures, crashes and files added by hand so far
    synced,    \* auxiliary: nothing has made index and disk differ
    cut        \* auxiliary: a rename was cut short, or an operation was begun while
               \* index and disk differed

disk == <<dirs, files>>
index == <<folders, sessions>>
vars == <<disk, index, status, todo, touched, used, faults, synced, cut>>

\* Revisions in use.
Revs == {0} \union UNION {1..MaxRev[id] : id \in SessionIds}

Empty == [x \in {} |-> None]
NoYaml == [id |-> None, name |-> None, src |-> FALSE]
Bind(f, x, y) == [z \in DOMAIN f \union {x} |-> IF z = x THEN y ELSE f[z]]
Without(f, S) == Restrict(f, DOMAIN f \ S)
Fresh(ids) == CHOOSE id \in ids \ used : TRUE

DirNamed(dir, name) == Append(dir, 2 * BaseOf[name])
FileNamed(dir, name) == Append(dir, 2 * BaseOf[name] + 1)

-----------------------------------------------------------------------------
(* Reading the tree.                                                       *)

\* The order in which a walk of the tree meets two entries.
Before(p, q) ==
    \/ IsStrictPrefix(p, q)
    \/ \E i \in DOMAIN p \intersect DOMAIN q :
          p[i] < q[i] /\ SubSeq(p, 1, i - 1) = SubSeq(q, 1, i - 1)

Entries == DOMAIN dirs \union DOMAIN files
IdAt(p) == IF p \in DOMAIN files THEN files[p].id ELSE dirs[p].id

\* Entries that carry the id of an entry met before.
Doubled ==
    {p \in Entries : IdAt(p) # None /\ \E q \in Entries : IdAt(q) = IdAt(p) /\ Before(q, p)}

\* Entries without an id: new directories, and files made by hand.
Unnamed == {p \in Entries : IdAt(p) = None}

MetBefore(p) == {q \in Entries : Before(q, p)}

\* The entries before which a walk meets nothing to stop at.
Reached == {p \in Entries : (Doubled \union Unnamed) \intersect MetBefore(p) = {}}

\* What the index has of the folder or the session at a place on disk, and the index a walk
\* of the entries P builds.
FolderEntry(d) ==
    [name |-> dirs[d].name, src |-> dirs[d].src, dir |-> d,
     parent |-> IF d = <<>> THEN None ELSE dirs[Front(d)].id]

SessionEntry(f) ==
    [name |-> files[f].name, rev |-> files[f].rev, file |-> f, folder |-> dirs[Front(f)].id]

FolderIndex(P) ==
    [id \in {dirs[d].id : d \in P \intersect DOMAIN dirs} |->
        FolderEntry(CHOOSE d \in P \intersect DOMAIN dirs : dirs[d].id = id)]

SessionIndex(P) ==
    [id \in {files[f].id : f \in P \intersect DOMAIN files} |->
        SessionEntry(CHOOSE f \in P \intersect DOMAIN files : files[f].id = id)]

-----------------------------------------------------------------------------
(* Planning an operation.                                                  *)

Step(do, at, to, rec) == [do |-> do, at |-> at, to |-> to, rec |-> rec]
WriteSession(f, rec) == Step("writeSession", f, <<>>, rec)
WriteFolder(d, rec) == Step("writeFolder", d, <<>>, rec)
Unlink(f) == Step("remove", f, <<>>, None)
UnlinkYaml(d) == Step("removeYaml", d, <<>>, None)
UnlinkDir(d) == Step("removeDir", d, <<>>, None)
MakeDir(d) == Step("makeDir", d, <<>>, None)
Move(d, to) == Step("move", d, to, None)
Remember(rec) == Step("remember", <<>>, <<>>, rec)
Forget(id) == Step("forget", <<>>, <<>>, id)
Reload == Step("reload", <<>>, <<>>, None)

Idle == status = "up" /\ todo = <<>>

Start(steps) ==
    /\ Idle
    /\ todo' = steps
    /\ touched' = FALSE
    /\ UNCHANGED <<disk, index, status, faults, synced>>

\* Bound: nothing but LoadAll is begun after a cut.
Plan(steps) == ~cut /\ Start(steps) /\ cut' = (cut \/ ~synced)

\* Put refuses a folder it does not know, a name without a file name, and a
\* name or file name another session of the folder has.
PutRefused(in) ==
    \/ in.folder \notin DOMAIN folders
    \/ BaseOf[in.name] = 0
    \/ \E id \in DOMAIN sessions \ {in.id} :
          /\ sessions[id].folder = in.folder
          /\ \/ FoldOf[sessions[id].name] = FoldOf[in.name]
             \/ sessions[id].file = FileNamed(folders[in.folder].dir, in.name)

\* The file of a session changes its name or its directory.
Renames(in, target) == in.id \in DOMAIN sessions /\ sessions[in.id].file # target

\* What the index has of a session: its file's contents, and where that is.
Filed(rec, folder, f) ==
    [id |-> rec.id, name |-> rec.name, rev |-> rec.rev, folder |-> folder, file |-> f]

\* Mutant: the old file is removed before the new one is written.
PutStepsRemoveFirst(in, id, rev) ==
    LET target == FileNamed(folders[in.folder].dir, in.name)
        rec == [id |-> id, name |-> in.name, rev |-> rev]
    IN  (IF Renames(in, target) THEN <<Unlink(sessions[in.id].file)>> ELSE <<>>)
        \o <<WriteSession(target, rec), Remember(Filed(rec, in.folder, target))>>

\* Mutant: the old file stays.
PutStepsKeepOld(in, id, rev) ==
    LET target == FileNamed(folders[in.folder].dir, in.name)
        rec == [id |-> id, name |-> in.name, rev |-> rev]
    IN  <<WriteSession(target, rec), Remember(Filed(rec, in.folder, target))>>

PutSteps(in, id, rev) ==
    LET target == FileNamed(folders[in.folder].dir, in.name)
        rec == [id |-> id, name |-> in.name, rev |-> rev]
    IN  <<WriteSession(target, rec)>>
        \o (IF Renames(in, target) THEN <<Unlink(sessions[in.id].file)>> ELSE <<>>)
        \o <<Remember(Filed(rec, in.folder, target))>>

\* A request with an empty id creates; one with a known id updates; one with an
\* id the index does not hold is stored under that id.
PutNew(in) ==
    /\ ~PutRefused(in)
    /\ SessionIds \ used # {}
    /\ Plan(PutSteps(in, Fresh(SessionIds), 1))
    /\ used' = used \union {Fresh(SessionIds)}

\* Mutant: the revision is kept as it is.
PutUnbumped(in) ==
    /\ ~PutRefused(in)
    /\ in.id \in DOMAIN sessions
    /\ sessions[in.id].rev < MaxRev[in.id]
    /\ Plan(PutSteps(in, in.id, sessions[in.id].rev))
    /\ UNCHANGED used

PutKnown(in) ==
    /\ ~PutRefused(in)
    /\ in.id \in DOMAIN sessions
    /\ sessions[in.id].rev < MaxRev[in.id]
    /\ Plan(PutSteps(in, in.id, sessions[in.id].rev + 1))
    /\ UNCHANGED used

PutGone(in, rev) ==
    /\ ~PutRefused(in)
    /\ in.id \in used \ DOMAIN sessions
    /\ Plan(PutSteps(in, in.id, rev))
    /\ UNCHANGED used

\* PutFolder on the root changes its options only; its name stays.
PutRoot ==
    /\ Plan(<<WriteFolder(<<>>, dirs[<<>>]), Reload>>)
    /\ Root \in DOMAIN folders
    /\ UNCHANGED used

FolderRefused(in) ==
    \/ in.parent \notin DOMAIN folders
    \/ BaseOf[in.name] = 0
    \/ \E id \in DOMAIN folders \ {in.id} :
          /\ folders[id].parent = in.parent
          /\ \/ FoldOf[folders[id].name] = FoldOf[in.name]
             \/ folders[id].dir = DirNamed(folders[in.parent].dir, in.name)

CreateSteps(d, rec) == <<MakeDir(d), WriteFolder(d, rec), Reload>>

\* Mutant: the index is not rebuilt after the directory has moved.
MoveStepsNoReload(d, to, rec) ==
    (IF d # to THEN <<Move(d, to)>> ELSE <<>>) \o <<WriteFolder(to, rec)>>

MoveSteps(d, to, rec) ==
    (IF d # to THEN <<Move(d, to)>> ELSE <<>>) \o <<WriteFolder(to, rec), Reload>>

CreateFolder(in) ==
    /\ in.id = None
    /\ ~FolderRefused(in)
    /\ FolderIds \ used # {}
    /\ LET d == DirNamed(folders[in.parent].dir, in.name)
           id == Fresh(FolderIds)
       IN  /\ Len(d) <= MaxDepth
           /\ Plan(CreateSteps(d, [id |-> id, name |-> in.name, src |-> FALSE]))
           /\ used' = used \union {id}

\* The caller passes the folder it has read, source included.
UpdateFolder(in) ==
    /\ in.id \in DOMAIN folders \ {Root}
    /\ ~FolderRefused(in)
    /\ LET to == DirNamed(folders[in.parent].dir, in.name)
           d == folders[in.id].dir
       IN  /\ d # to => ~IsPrefix(d, to)
           /\ Len(to) <= MaxDepth
           /\ Plan(MoveSteps(d, to, [id |-> in.id, name |-> in.name, src |-> folders[in.id].src]))
    /\ UNCHANGED used

DeleteSession(id) ==
    /\ id \in DOMAIN sessions
    /\ Plan(<<Unlink(sessions[id].file), Forget(id)>>)
    /\ UNCHANGED used

FolderEmpty(id) ==
    /\ \A f \in DOMAIN folders : folders[f].parent # id
    /\ \A s \in DOMAIN sessions : sessions[s].folder # id

DeleteFolder(id) ==
    /\ id \in DOMAIN folders \ {Root}
    /\ FolderEmpty(id)
    /\ Plan(<<UnlinkYaml(folders[id].dir), UnlinkDir(folders[id].dir), Forget(id)>>)
    /\ UNCHANGED used

\* isDescendantLocked, over the index.
Below(id, ancestor) ==
    IsStrictPrefix(folders[ancestor].dir, folders[id].dir)

SetFolderSource(id) ==
    /\ id \in DOMAIN folders \ {Root}
    /\ \A other \in DOMAIN folders \ {id} :
          folders[other].src => ~Below(other, id) /\ ~Below(id, other)
    /\ Plan(<<WriteFolder(folders[id].dir, [id |-> id, name |-> folders[id].name, src |-> TRUE]), Reload>>)
    /\ UNCHANGED used

ClearFolderSource(id) ==
    /\ id \in DOMAIN folders
    /\ folders[id].src
    /\ Plan(<<WriteFolder(folders[id].dir, [id |-> id, name |-> folders[id].name, src |-> FALSE]), Reload>>)
    /\ UNCHANGED used

LoadAll ==
    /\ Start(<<Reload>>)
    /\ UNCHANGED <<used, cut>>

-----------------------------------------------------------------------------
(* Taking the steps.                                                       *)

Doing(do) == todo # <<>> /\ Head(todo).do = do

Done ==
    /\ todo' = Tail(todo)
    /\ touched' = TRUE
    /\ UNCHANGED <<status, used, faults, synced, cut>>

\* What the file system accepts: a file needs its directory, os.Remove takes an empty
\* directory only, os.Rename of a directory a name that is free.
Accepted ==
    LET at == Head(todo).at
        to == Head(todo).to
    IN  CASE Doing("writeSession") -> Front(at) \in DOMAIN dirs
          [] Doing("writeFolder") -> at \in DOMAIN dirs
          [] Doing("removeDir") -> at \in DOMAIN dirs /\ \A p \in Entries : ~IsStrictPrefix(at, p)
          [] Doing("move") -> at \in DOMAIN dirs /\ Front(to) \in DOMAIN dirs /\ to \notin DOMAIN dirs
          [] OTHER -> TRUE

\* writeYAML: a temporary file in the directory, renamed over the target.
DoWriteSession ==
    /\ Doing("writeSession")
    /\ Accepted
    /\ files' = Bind(files, Head(todo).at, Head(todo).rec)
    /\ Done
    /\ UNCHANGED <<dirs, index>>

DoWriteFolder ==
    /\ Doing("writeFolder")
    /\ Accepted
    /\ dirs' = Bind(dirs, Head(todo).at, Head(todo).rec)
    /\ Done
    /\ UNCHANGED <<files, index>>

DoRemove ==
    /\ Doing("remove")
    /\ files' = Without(files, {Head(todo).at})
    /\ Done
    /\ UNCHANGED <<dirs, index>>

DoRemoveYaml ==
    /\ Doing("removeYaml")
    /\ dirs' = [d \in DOMAIN dirs |-> IF d = Head(todo).at THEN NoYaml ELSE dirs[d]]
    /\ Done
    /\ UNCHANGED <<files, index>>

DoRemoveDir ==
    /\ Doing("removeDir")
    /\ Accepted
    /\ dirs' = Without(dirs, {Head(todo).at})
    /\ Done
    /\ UNCHANGED <<files, index>>

\* os.MkdirAll creates what is missing on the way, too.
DoMakeDir ==
    /\ Doing("makeDir")
    /\ LET missing == {SubSeq(Head(todo).at, 1, n) : n \in 1..Len(Head(todo).at)} \ DOMAIN dirs
       IN  dirs' = [d \in DOMAIN dirs \union missing |-> IF d \in missing THEN NoYaml ELSE dirs[d]]
    /\ Done
    /\ UNCHANGED <<files, index>>

\* The path p below one directory is this path below another.
Under(from, to, p) == to \o SubSeq(p, Len(from) + 1, Len(p))

Relocated(f, from, to) ==
    LET moved == {p \in DOMAIN f : IsPrefix(from, p)}
        places == {Under(from, to, p) : p \in moved}
    IN  [p \in (DOMAIN f \ moved) \union places |->
            IF p \in places THEN f[Under(to, from, p)] ELSE f[p]]

\* os.Rename takes what is in the directory along.
DoMove ==
    /\ Doing("move")
    /\ Accepted
    /\ dirs' = Relocated(dirs, Head(todo).at, Head(todo).to)
    /\ files' = Relocated(files, Head(todo).at, Head(todo).to)
    /\ Done
    /\ UNCHANGED index

DoRemember ==
    /\ Doing("remember")
    /\ LET rec == Head(todo).rec
       IN  sessions' = Bind(sessions, rec.id, [name |-> rec.name, rev |-> rec.rev,
                                               file |-> rec.file, folder |-> rec.folder])
    /\ Done
    /\ UNCHANGED <<disk, folders>>

DoForget ==
    /\ Doing("forget")
    /\ sessions' = Without(sessions, {Head(todo).rec})
    /\ folders' = Without(folders, {Head(todo).rec})
    /\ Done
    /\ UNCHANGED disk

\* reload meets an entry without an id and writes one into it.
Heal ==
    /\ Doing("reload")
    /\ \E p \in Unnamed \intersect Reached :
          LET name == PlainName[p[Len(p)] \div 2]
          IN  \/ /\ p \in DOMAIN dirs
                 /\ FolderIds \ used # {}
                 /\ dirs' = [dirs EXCEPT ![p] = [id |-> Fresh(FolderIds), name |-> name, src |-> FALSE]]
                 /\ used' = used \union {Fresh(FolderIds)}
                 /\ UNCHANGED files
              \/ /\ p \in DOMAIN files
                 /\ SessionIds \ used # {}
                 /\ files' = [files EXCEPT ![p] = [id |-> Fresh(SessionIds), name |-> name, rev |-> 0]]
                 /\ used' = used \union {Fresh(SessionIds)}
                 /\ UNCHANGED dirs
    /\ touched' = TRUE
    /\ UNCHANGED <<index, status, todo, faults, synced, cut>>

\* Mutant: a store that cannot be opened leaves its index behind.
EndReloadLeavesIndex(met, ok) ==
    /\ status' = IF ok THEN "up" ELSE "down"
    /\ folders' = FolderIndex(met)
    /\ sessions' = SessionIndex(met)
    /\ synced' = ok
    /\ todo' = <<>>
    /\ touched' = FALSE
    /\ UNCHANGED <<disk, used>>

\* reload ends.  When it fails while the store is being opened there is no store;
\* otherwise the index holds what the walk had met.
EndReload(met, ok) ==
    /\ IF status = "opening" /\ ~ok
       THEN /\ status' = "down"
            /\ folders' = Empty
            /\ sessions' = Empty
            /\ synced' = TRUE
       ELSE /\ status' = "up"
            /\ folders' = FolderIndex(met)
            /\ sessions' = SessionIndex(met)
            /\ synced' = ok
    /\ todo' = <<>>
    /\ touched' = FALSE
    /\ UNCHANGED <<disk, used>>

\* With the whole tree walked, or at the first doubled id.
DoReload ==
    /\ Doing("reload")
    /\ \/ Doubled \union Unnamed = {} /\ EndReload(Entries, TRUE)
       \/ \E p \in Doubled \intersect Reached : EndReload(MetBefore(p), FALSE)
    /\ UNCHANGED <<faults, cut>>

Fault ==
    /\ faults < MaxFaults
    /\ faults' = faults + 1

\* An entry cannot be read, parsed or given an id.  Bound: the root folder can.
FailReload ==
    /\ Doing("reload")
    /\ \E p \in Reached \ {<<>>} : EndReload(MetBefore(p), FALSE)
    /\ Fault
    /\ UNCHANGED cut

CutsRename == Doing("remove") /\ Len(todo) = 2 /\ todo[2].do = "remember"

\* A file operation fails, or has to (the index is out of step), and the operation
\* returns its error: what is done stays done, and the index stays as it was.
Fail ==
    /\ todo # <<>>
    /\ Head(todo).do \notin {"remember", "forget", "reload"}
    /\ IF Accepted THEN Fault ELSE UNCHANGED faults
    /\ synced' = (synced /\ ~touched)
    /\ cut' = (cut \/ CutsRename)
    /\ todo' = <<>>
    /\ touched' = FALSE
    /\ UNCHANGED <<disk, index, status, used>>

\* The process dies at any point; the disk keeps what was written.
Crash ==
    /\ status # "down"
    /\ Fault
    /\ status' = "down"
    /\ folders' = Empty
    /\ sessions' = Empty
    /\ cut' = (cut \/ CutsRename)
    /\ synced' = TRUE
    /\ todo' = <<>>
    /\ touched' = FALSE
    /\ UNCHANGED <<disk, used>>

Open ==
    /\ status = "down"
    /\ status' = "opening"
    /\ todo' = <<Reload>>
    /\ touched' = FALSE
    /\ UNCHANGED <<disk, index, used, faults, synced, cut>>

\* A user drops a file without an id into a directory of the tree.
AddByHand(d, name) ==
    /\ todo = <<>>
    /\ Fault
    /\ BaseOf[name] # 0
    /\ FileNamed(d, name) \notin DOMAIN files
    /\ files' = Bind(files, FileNamed(d, name), [id |-> None, name |-> None, rev |-> 0])
    /\ synced' = (synced /\ status = "down")
    /\ UNCHANGED <<dirs, index, status, todo, touched, used, cut>>

-----------------------------------------------------------------------------
\* The disk of a store that has been opened before and holds nothing yet.
Init ==
    /\ dirs = Bind(Empty, <<>>, [id |-> Root, name |-> None, src |-> FALSE])
    /\ files = Empty
    /\ status = "down"
    /\ folders = Empty
    /\ sessions = Empty
    /\ todo = <<>>
    /\ touched = FALSE
    /\ used = {Root}
    /\ faults = 0
    /\ synced = TRUE
    /\ cut = FALSE

SessionIn(ids) == [id : ids, name : SessionNames, folder : FolderIds]
FolderIn(ids) == [id : ids, name : FolderNames, parent : FolderIds]

Request ==
    \/ \E in \in SessionIn({None}) : PutNew(in)
    \/ \E in \in SessionIn(SessionIds) : PutKnown(in) \/ PutGone(in, MaxRev[in.id])
    \/ \E in \in FolderIn({None}) : CreateFolder(in)
    \/ \E in \in FolderIn(FolderIds) : UpdateFolder(in)
    \/ \E id \in SessionIds : DeleteSession(id)
    \/ \E id \in FolderIds : DeleteFolder(id) \/ ClearFolderSource(id)
    \/ \E id \in SourceFolders : SetFolderSource(id)
    \/ PutRoot
    \/ LoadAll

TakeStep ==
    \/ DoWriteSession \/ DoWriteFolder \/ DoRemove \/ DoRemoveYaml \/ DoRemoveDir
    \/ DoMakeDir \/ DoMove \/ DoRemember \/ DoForget \/ Heal \/ DoReload

Next ==
    \/ Request
    \/ TakeStep
    \/ Fail \/ FailReload
    \/ Crash
    \/ Open
    \/ \E d \in DOMAIN dirs, name \in SessionNames : AddByHand(d, name)

Spec == Init /\ [][Next]_vars

-----------------------------------------------------------------------------
(* Properties.                                                             *)

TypeOK ==
    /\ \A d \in DOMAIN dirs :
          dirs[d] \in [id : FolderIds \union {None}, name : Names \union {None}, src : BOOLEAN]
    /\ \A f \in DOMAIN files :
          files[f] \in [id : SessionIds \union {None}, name : Names \union {None}, rev : Revs]
    /\ <<>> \in DOMAIN dirs
    /\ \A p \in Entries \ {<<>>} : Front(p) \in DOMAIN dirs
    /\ status \in {"down", "opening", "up"}
    /\ DOMAIN folders \subseteq used \intersect FolderIds
    /\ DOMAIN sessions \subseteq used \intersect SessionIds
    /\ status # "up" => folders = Empty \/ todo # <<>>
    /\ {touched, synced, cut} \subseteq BOOLEAN
    /\ faults \in 0..MaxFaults

\* With no operation under way, the index says of every folder and session what
\* a walk of the disk would say: an update by hand (Put, Delete) and a rebuild
\* (PutFolder) are as good as each other.  Not so after a failed operation or a
\* file added by hand, until the next LoadAll.
IndexCurrent ==
    Idle /\ synced =>
        /\ Doubled \union Unnamed = {}
        /\ folders = FolderIndex(Entries)
        /\ sessions = SessionIndex(Entries)

\* Whatever the point of a crash or failure, the tree opens again: no id is found
\* twice (loadSessionFile refuses to go on).  The exceptions are the two halves of a
\* rename, and operations begun while a failure had left the index out of step.
OpensUnlessCut ==
    todo = <<>> /\ ~cut => Doubled = {}

\* Index and disk are in step: always with each other, and the disk with the next start.
InStep == IndexCurrent /\ OpensUnlessCut

\* The sessions on disk; of the files with one id the newest counts.
StoredAt(f) == [name |-> files[f].name, rev |-> files[f].rev, folder |-> dirs[Front(f)].id]

NewestOf(id) ==
    {f \in DOMAIN files :
        /\ files[f].id = id
        /\ \A g \in DOMAIN files : files[g].id = id => files[g].rev <= files[f].rev}

Kept ==
    [id \in {files[f].id : f \in DOMAIN files} \ {None} |->
        CHOOSE s \in {StoredAt(f) : f \in NewestOf(id)} : TRUE]

Adrift == \E f \in DOMAIN files : files[f].id # None /\ dirs[Front(f)].id = None

\* The session the next step writes, if it writes one and its directory is there.
Writing ==
    IF Doing("writeSession") /\ Accepted
    THEN LET at == Head(todo).at
             rec == Head(todo).rec
         IN  {[id |-> rec.id,
               session |-> [name |-> rec.name, rev |-> rec.rev, folder |-> dirs[Front(at)].id]]}
    ELSE {}

Map == INSTANCE SessionMap WITH
    SessionIds <- SessionIds,
    Sessions <- [name : Names \union {None}, rev : Revs, folder : FolderIds \union {None}],
    kept <- Kept,
    writing <- Writing,
    given <- used \intersect SessionIds,
    deleting <- {id \in SessionIds : \E i \in DOMAIN todo : todo[i] = Forget(id)},
    damaged <- ~synced \/ Adrift \/ (todo = <<>> /\ Doubled # {})

\* The tree of files keeps the promise of a map (store/store.go:72-85): no session is
\* lost but one whose deletion is under way, none changes or comes back but the one being
\* put, as it is put and with a higher revision than before, and a file made by hand gets
\* an id that no session had, whatever crashes, fails, moves or is reloaded.
MapKept == Map!Spec

\* SetFolderSource: one source per subtree (source.go:50-52).
OneSourcePerSubtree ==
    Idle /\ synced =>
        ~\E f, g \in DOMAIN folders : folders[f].src /\ folders[g].src /\ Below(f, g)
=============================================================================
