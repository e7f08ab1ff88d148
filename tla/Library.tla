------------------------------ MODULE Library -------------------------------
(***************************************************************************)
(* Refreshing an import source (app/import.go, store/reconcile.go) beside  *)
(* a user who edits the tree (app/app.go).  Every operation of the store   *)
(* is one step here (Store shows that it may be); what is modelled is that *)
(* a refresh and an edit consist of several of them, with nothing held in  *)
(* between.                                                                *)
(*                                                                         *)
(* There is one source folder.  A record names a path below it, "" for the *)
(* folder itself; a path is one folder deep.  A source that authenticates  *)
(* has a secret in the credential store (Secrets), and so has a source of  *)
(* another folder, of which nothing else is modelled.                      *)
(***************************************************************************)
EXTENDS Secrets, Customs, Integers, Sequences, FiniteSets, FiniteSetsExt, Functions

CONSTANTS
    Refreshes,    \* calls of FolderSourceRefresh
    Scenes,       \* what may happen: a sequence of records (SceneType)
    Names, Keys,  \* session names; keys (host or external id) of sessions
    Paths,        \* folder paths of records, "" among them
    MaxIds,       \* bound on the sessions ever created
    MaxFolders,   \* bound on the folders ever created
    None

\* A scene: the refreshes that may begin; what a fetch may decode, a set of sequences of
\* records; whether the source authenticates; the settings the user works on;
\* the bounds on the user's operations on the tree and on the settings.
SceneType == [refreshes : SUBSET Refreshes, auth : BOOLEAN, edits : Nat, settingOps : Nat,
              settings : SUBSET {"secrets", "vars", "bars", "snippets"},
              decoded : SUBSET Seq([key : Keys, name : Names, path : Paths])]

ASSUME LibraryAssumption ==
    /\ None \notin Refreshes
    /\ "" \in Paths
    /\ {MaxIds, MaxFolders} \subseteq Nat
    /\ Scenes \in Seq(SceneType)
    /\ Items = {0, 1}

Source == 0      \* id of the folder with the import source, and of its secret
OtherSource == 1

VARIABLES
    scene,     \* the scene that is on, an index of Scenes
    sess,      \* the store's sessions: id -> session
    folders,   \* the store's folders: id -> [path, owned]
    hasSource, \* the folder has an import source
    cancels,   \* a.refreshCancels[folder]: the refresh registered, or None
    pc,        \* where each refresh is
    canceled,  \* its context is canceled
    recs,      \* its records
    at,        \* the record it is at
    old,       \* its snapshot "existing": key -> session
    cache,     \* leafCache: path -> folder id
    skipped,   \* records it has skipped
    doomed,    \* folders its pruning pass is about to delete
    usr,       \* the user's operation under way, if it has several steps, or None
    edits,     \* user operations so far on the tree ...
    settingOps, \* ... and on settings
    nextId, nextFolder,
    disturbed, \* auxiliary: refreshes under which another changed the tree
    twins,     \* auxiliary: sessions whose key another one had in the snapshot
    revived    \* auxiliary: an edit stored a session again that had been deleted

tree == <<sess, folders, nextId, nextFolder>>
mine == <<pc, canceled, recs, at, old, cache, skipped, doomed, twins>>
vars == <<tree, hasSource, cancels, mine, usr, edits, disturbed, revived, scene, settingOps, secretVars, customVars>>

Scene == Scenes[scene]

Empty == [x \in {} |-> None]
Bind(f, x, y) == [z \in DOMAIN f \union {x} |-> IF z = x THEN y ELSE f[z]]
Without(f, S) == Restrict(f, DOMAIN f \ S)
GoTo(r, label) == pc' = [pc EXCEPT ![r] = label]

\* The refreshes whose snapshot is taken and whose work is not done.
Working == {r \in Refreshes : pc[r] \in
                {"place", "find", "make", "refind", "put", "remove", "prune", "reconciled"}}

\* Every change of the tree disturbs the refreshes under way but the one making it.
Disturb(actor) == disturbed' = disturbed \union (Working \ {actor})

-----------------------------------------------------------------------------
(* The store.                                                              *)

Taken(id, name, folder) ==
    \E other \in DOMAIN sess \ {id} : sess[other].folder = folder /\ sess[other].name = name

\* Mutant: names are not compared.
CanPutTwice(id, s) == s.folder \in DOMAIN folders

CanPut(id, s) == s.folder \in DOMAIN folders /\ ~Taken(id, s.name, s.folder)

PutAs(id, s) == sess' = Bind(sess, id, s)

NewSession(s) ==
    /\ nextId < MaxIds
    /\ PutAs(nextId, s)
    /\ nextId' = nextId + 1

\* FolderByName below the source folder.
FolderAt(path) == {f \in DOMAIN folders \ {Source} : folders[f].path = path}

MakeFolder(path, owned) ==
    /\ nextFolder < MaxFolders
    /\ folders' = Bind(folders, nextFolder, [path |-> path, owned |-> owned])
    /\ nextFolder' = nextFolder + 1

FolderFree(f) ==
    /\ f = Source => DOMAIN folders = {Source}
    /\ \A id \in DOMAIN sess : sess[id].folder # f

-----------------------------------------------------------------------------
(* FolderSourceRefresh.                                                    *)

\* GetFolderSource and resolveSecret: without its secret the refresh does not begin.
Begin(r) ==
    /\ r \in Scene.refreshes
    /\ pc[r] = "idle"
    /\ hasSource
    /\ Scene.auth => CanGet(Source)
    /\ GoTo(r, "register")
    /\ UNCHANGED <<tree, hasSource, cancels, canceled, recs, at, old, cache, skipped,
                   doomed, twins, usr, edits, disturbed, revived>>

\* The refresh registered before is canceled.
Register(r) ==
    /\ pc[r] = "register"
    /\ canceled' = [q \in Refreshes |-> canceled[q] \/ q = cancels]
    /\ cancels' = r
    /\ GoTo(r, "fetch")
    /\ UNCHANGED <<tree, hasSource, recs, at, old, cache, skipped, doomed, twins, usr,
                   edits, disturbed, revived>>

\* The fetch fails, is canceled or decodes nothing: the tree stays as it is.
FetchFails(r) ==
    /\ pc[r] = "fetch"
    /\ GoTo(r, "unregister")
    /\ UNCHANGED <<tree, hasSource, cancels, canceled, recs, at, old, cache, skipped,
                   doomed, twins, usr, edits, disturbed, revived>>

\* A canceled fetch may still complete, and nothing looks at the context again.
Fetched(r) ==
    /\ pc[r] = "fetch"
    /\ \E got \in Scene.decoded :
          recs' = [recs EXCEPT ![r] = got]
    /\ GoTo(r, "snapshot")
    /\ UNCHANGED <<tree, hasSource, cancels, canceled, at, old, cache, skipped, doomed,
                   twins, usr, edits, disturbed, revived>>

\* Mutant: sessions below the source's folder are not looked at.
GeneratedHere == {id \in DOMAIN sess : sess[id].gen /\ sess[id].folder = Source}

\* Mutant: sessions made by hand count as the source's own.
GeneratedAll == DOMAIN sess

Generated == {id \in DOMAIN sess : sess[id].gen}

\* Of two generated sessions with one key, the snapshot holds one.
Snapshot(r) ==
    /\ pc[r] = "snapshot"
    /\ IF Source \notin DOMAIN folders
       THEN GoTo(r, "unregister") /\ UNCHANGED <<old, at, cache, skipped, twins>>
       ELSE /\ \E pick \in [{sess[id].key : id \in Generated} -> Generated] :
                  /\ \A k \in DOMAIN pick : sess[pick[k]].key = k
                  /\ old' = [old EXCEPT ![r] =
                        [k \in DOMAIN pick |-> [id |-> pick[k], was |-> sess[pick[k]]]]]
            /\ at' = [at EXCEPT ![r] = 1]
            /\ cache' = [cache EXCEPT ![r] = Bind(Empty, "", Source)]
            /\ skipped' = [skipped EXCEPT ![r] = {}]
            /\ twins' = [twins EXCEPT ![r] = {id \in Generated :
                  \E other \in Generated \ {id} : sess[other].key = sess[id].key}]
            /\ GoTo(r, "place")
    /\ UNCHANGED <<tree, hasSource, cancels, canceled, recs, doomed, usr, edits, disturbed,
                   revived>>

Record(r) == recs[r][at[r]]

\* leafFor: the next record's folder is cached, or has to be looked up; with no record left
\* the removals begin.
Place(r) ==
    /\ pc[r] = "place"
    /\ GoTo(r, IF at[r] > Len(recs[r]) THEN "remove"
               ELSE IF Record(r).path \in DOMAIN cache[r] THEN "put" ELSE "find")
    /\ UNCHANGED <<tree, hasSource, cancels, canceled, recs, at, old, cache, skipped,
                   doomed, twins, usr, edits, disturbed, revived>>

\* ensureFolderPath: look the folder up, make it, and look it up again.
FindFolder(r) ==
    /\ pc[r] \in {"find", "refind"}
    /\ IF FolderAt(Record(r).path) = {}
       THEN /\ GoTo(r, IF pc[r] = "find" THEN "make" ELSE "unregister")
            /\ UNCHANGED cache
       ELSE /\ \E f \in FolderAt(Record(r).path) :
                  cache' = [cache EXCEPT ![r] = Bind(@, Record(r).path, f)]
            /\ GoTo(r, "put")
    /\ UNCHANGED <<tree, hasSource, cancels, canceled, recs, at, old, skipped, doomed,
                   twins, usr, edits, disturbed, revived>>

MakeLeaf(r) ==
    /\ pc[r] = "make"
    /\ IF Source \in DOMAIN folders /\ FolderAt(Record(r).path) = {}
       THEN MakeFolder(Record(r).path, TRUE) /\ GoTo(r, "refind") /\ Disturb(r)
       ELSE GoTo(r, "unregister") /\ UNCHANGED <<folders, nextFolder, disturbed>>
    /\ UNCHANGED <<sess, nextId, hasSource, cancels, canceled, recs, at, old, cache,
                   skipped, doomed, twins, usr, edits, revived>>

\* Mutant: the session keeps the folder the snapshot has.
UpdatedUnkeyed(r) ==
    [old[r][Record(r).key].was EXCEPT !.name = Record(r).name, !.gen = TRUE]

\* What the record makes of the session the snapshot has for its key.
Updated(r) ==
    [old[r][Record(r).key].was EXCEPT
        !.name = Record(r).name, !.folder = cache[r][Record(r).path], !.gen = TRUE]

Added(r) ==
    [name |-> Record(r).name, folder |-> cache[r][Record(r).path], key |-> Record(r).key,
     gen |-> TRUE, edit |-> 0]

\* Mutant: a record is gone back to until nothing is in its way.
AdvanceNot(r) == UNCHANGED at /\ GoTo(r, "place")

Advance(r) == at' = [at EXCEPT ![r] = @ + 1] /\ GoTo(r, "place")

\* One record: its session is updated, added, or skipped for its name; any other
\* error ends the refresh.
PutRecord(r) ==
    /\ pc[r] = "put"
    /\ LET known == Record(r).key \in DOMAIN old[r]
           s == IF known THEN Updated(r) ELSE Added(r)
           id == IF known THEN old[r][Record(r).key].id ELSE nextId
       IN  \/ /\ CanPut(id, s)
              /\ IF known THEN PutAs(id, s) /\ UNCHANGED nextId ELSE NewSession(s)
              /\ Disturb(r)
              /\ Advance(r)
              /\ UNCHANGED skipped
           \/ /\ s.folder \in DOMAIN folders
              /\ Taken(id, s.name, s.folder)
              /\ skipped' = [skipped EXCEPT ![r] = @ \union {at[r]}]
              /\ Advance(r)
              /\ UNCHANGED <<sess, nextId, disturbed>>
           \/ /\ s.folder \notin DOMAIN folders
              /\ GoTo(r, "unregister")
              /\ UNCHANGED <<sess, nextId, at, skipped, disturbed>>
    /\ UNCHANGED <<folders, nextFolder, hasSource, cancels, canceled, recs, old, cache,
                   doomed, twins, usr, edits, revived>>

\* Keys of the snapshot no record has.
Stale(r) == DOMAIN old[r] \ {recs[r][i].key : i \in DOMAIN recs[r]}

\* Sessions of the snapshot whose key no record has are deleted, in any order; one
\* that is gone already ends the refresh with an error.
RemoveStale(r) ==
    /\ pc[r] = "remove"
    /\ \E k \in Stale(r) :
          IF old[r][k].id \in DOMAIN sess
          THEN /\ sess' = Without(sess, {old[r][k].id})
               /\ old' = [old EXCEPT ![r] = Without(@, {k})]
               /\ Disturb(r)
               /\ UNCHANGED pc
          ELSE /\ GoTo(r, "unregister")
               /\ UNCHANGED <<sess, old, disturbed>>
    /\ UNCHANGED <<folders, nextId, nextFolder, hasSource, cancels, canceled, recs, at,
                   cache, skipped, doomed, twins, usr, edits, revived>>

\* A pass of pruneGeneratedFolders looks for owned folders without sessions; when
\* there is none the reconciliation returns without an error.
LookToPrune(r) ==
    /\ pc[r] = "remove"
    /\ Stale(r) = {}
    /\ doomed' = [doomed EXCEPT ![r] =
          {f \in DOMAIN folders \ {Source} : folders[f].owned /\ FolderFree(f)}]
    /\ GoTo(r, IF doomed'[r] = {} THEN "reconciled" ELSE "prune")
    /\ UNCHANGED <<tree, hasSource, cancels, canceled, recs, at, old, cache, skipped,
                   twins, usr, edits, disturbed, revived>>

\* It deletes them one by one, and makes another pass when it has deleted the last;
\* Delete checks again, and an error ends the refresh.
Prune(r) ==
    /\ pc[r] = "prune"
    /\ \E f \in doomed[r] :
          IF f \in DOMAIN folders /\ FolderFree(f)
          THEN /\ folders' = Without(folders, {f})
               /\ doomed' = [doomed EXCEPT ![r] = @ \ {f}]
               /\ GoTo(r, IF doomed'[r] = {} THEN "remove" ELSE "prune")
               /\ Disturb(r)
          ELSE /\ GoTo(r, "unregister")
               /\ UNCHANGED <<folders, doomed, disturbed>>
    /\ UNCHANGED <<sess, nextId, nextFolder, hasSource, cancels, canceled, recs, at, old,
                   cache, skipped, twins, usr, edits, revived>>

\* The deferred function: whatever is registered for the folder is taken out.
Unregister(r) ==
    /\ pc[r] \in {"reconciled", "unregister"}
    /\ cancels' = None
    /\ GoTo(r, "done")
    /\ UNCHANGED <<tree, hasSource, canceled, recs, at, old, cache, skipped, doomed, twins,
                   usr, edits, disturbed, revived>>

-----------------------------------------------------------------------------
(* The user.                                                               *)

UserOp ==
    /\ edits < Scene.edits
    /\ edits' = edits + 1

\* FolderSourceCancelRefresh.
CancelRefresh ==
    /\ UserOp
    /\ cancels # None
    /\ canceled' = [canceled EXCEPT ![cancels] = TRUE]
    /\ UNCHANGED <<tree, hasSource, cancels, pc, recs, at, old, cache, skipped, doomed,
                   twins, usr, disturbed, revived>>

\* SaveSession of a new session, in the source folder.
CreateSession(name, k) ==
    /\ UserOp
    /\ LET s == [name |-> name, folder |-> Source, key |-> k, gen |-> FALSE, edit |-> 0]
       IN  CanPut(nextId, s) /\ NewSession(s)
    /\ Disturb(None)
    /\ UNCHANGED <<folders, nextFolder, hasSource, cancels, mine, usr, revived>>

\* SaveSession and SessionSetJumpChain read the session ...
ReadSession(id) ==
    /\ UserOp
    /\ usr = None
    /\ id \in DOMAIN sess
    /\ usr' = [op |-> "session", id |-> id, was |-> sess[id]]
    /\ UNCHANGED <<tree, hasSource, cancels, mine, disturbed, revived>>

\* ... and put back all of it: with another name, or with another jump chain.
WriteSession(s) ==
    /\ IF CanPut(usr.id, s) THEN PutAs(usr.id, s) /\ Disturb(None) ELSE UNCHANGED <<sess, disturbed>>
    /\ revived' = (revived \/ (usr.id \in DOMAIN sess' \ DOMAIN sess))
    /\ usr' = None
    /\ UNCHANGED <<folders, nextId, nextFolder, hasSource, cancels, mine, edits>>

Has(op) == usr # None /\ usr.op = op

Rename(name) == Has("session") /\ WriteSession([usr.was EXCEPT !.name = name])
SetJumpChain == Has("session") /\ WriteSession([usr.was EXCEPT !.edit = edits])

\* SessionDuplicate: the copy is made by hand whatever the original was.
Duplicate(name) ==
    /\ Has("session")
    /\ LET s == [usr.was EXCEPT !.name = name, !.gen = FALSE]
       IN  IF CanPut(nextId, s) THEN NewSession(s) /\ Disturb(None)
                                ELSE UNCHANGED <<sess, nextId, disturbed>>
    /\ usr' = None
    /\ UNCHANGED <<folders, nextFolder, hasSource, cancels, mine, edits, revived>>

DeleteSession(id) ==
    /\ UserOp
    /\ id \in DOMAIN sess
    /\ sess' = Without(sess, {id})
    /\ Disturb(None)
    /\ UNCHANGED <<folders, nextId, nextFolder, hasSource, cancels, mine, usr, revived>>

\* SaveFolder below the source folder.
CreateFolder(path) ==
    /\ UserOp
    /\ Source \in DOMAIN folders
    /\ FolderAt(path) = {}
    /\ MakeFolder(path, FALSE)
    /\ Disturb(None)
    /\ UNCHANGED <<sess, nextId, hasSource, cancels, mine, usr, revived>>

DeleteFolder(f) ==
    /\ UserOp
    /\ f \in DOMAIN folders
    /\ FolderFree(f)
    /\ folders' = Without(folders, {f})
    /\ hasSource' = (hasSource /\ f # Source)
    /\ Disturb(None)
    /\ UNCHANGED <<sess, nextId, nextFolder, cancels, mine, usr, revived>>

-----------------------------------------------------------------------------
(* The sources, and their secrets.                                         *)

SettingOp(kind) ==
    /\ kind \in Scene.settings
    /\ usr = None
    /\ settingOps < Scene.settingOps
    /\ settingOps' = settingOps + 1

\* CredSetPassphrase and CredUnlock.
Passphrase(p) ==
    /\ SettingOp("secrets")
    /\ SetPassphrase(p) \/ UnlockSecrets(p)
    /\ UNCHANGED <<tree, hasSource, cancels, mine, usr, edits, disturbed, revived>>

\* FolderSourceSet with a secret stores the secret first, and if that fails nothing more ...
StoreSecret(v) ==
    /\ SettingOp("secrets")
    /\ PutSecret(Source, v)
    /\ usr' = IF told'.items[Source] = v THEN [op |-> "set"] ELSE None
    /\ UNCHANGED <<tree, hasSource, cancels, mine, edits, disturbed, revived>>

\* ... without one it needs the secret there is ...
KeepSecret ==
    /\ SettingOp("secrets")
    /\ vault.items[Source] # Unset
    /\ usr' = [op |-> "set"]
    /\ UNCHANGED <<tree, hasSource, cancels, mine, edits, disturbed, revived, secretVars>>

\* ... and then it sets the source.
SetSource ==
    /\ Has("set")
    /\ hasSource' = (Source \in DOMAIN folders)
    /\ usr' = None
    /\ UNCHANGED <<tree, cancels, mine, edits, disturbed, revived, settingOps, secretVars>>

\* FolderSourceClear deletes the secret, and goes on whether or not that was saved ...
ClearSecret ==
    /\ IF Scene.auth THEN SettingOp("secrets") /\ UNCHANGED edits
                     ELSE usr = None /\ UserOp /\ UNCHANGED settingOps
    /\ hasSource
    /\ DeleteSecret(Source, "unknown")
    /\ usr' = [op |-> "clear"]
    /\ UNCHANGED <<tree, hasSource, cancels, mine, disturbed, revived>>

\* ... and then the source, the sessions stay; it reports that both are gone.
ClearSource ==
    /\ Has("clear")
    /\ hasSource' = FALSE
    /\ usr' = None
    /\ told' = Says(Source, Unset)
    /\ UNCHANGED <<tree, cancels, mine, edits, disturbed, revived, settingOps,
                   vault, key, vaultFile, undeleted>>

\* The same calls for the other folder.
OtherSecret ==
    /\ SettingOp("secrets")
    /\ DeleteSecret(OtherSource, Unset) \/ \E v \in Values : PutSecret(OtherSource, v)
    /\ UNCHANGED <<tree, hasSource, cancels, mine, usr, edits, disturbed, revived>>

-----------------------------------------------------------------------------
(* Variables, bars and snippets (app/templating.go, buttonbar.go, snippets.go). *)

VarEdit ==
    /\ SettingOp("vars")
    /\ \E sc \in Scopes, name \in VarNames :
          \/ \E sel \in Selectors, text \in VarTexts : PutVar(sc, name, sel, text)
          \/ \E sels \in {{sel} : sel \in Selectors} \union {Selectors} : DeleteVar(sc, name, sels)

BarEdit ==
    /\ SettingOp("bars")
    /\ \E sc \in FolderScopes :
          (\E bar \in Bars : SaveBar(sc, bar)) \/ DeleteBar(sc)

SnippetEdit ==
    /\ SettingOp("snippets")
    /\ \/ \E f \in SnipFolders :
             (\E parent \in SnipFolders \union {""} : SaveSnipFolder(f, parent)) \/ DeleteSnipFolder(f)
       \/ \E s \in Snips :
             (\E f \in SnipFolders \union {""} : SaveSnippet(s, f)) \/ DeleteSnippet(s)

CustomEdit ==
    /\ VarEdit \/ BarEdit \/ SnippetEdit
    /\ UNCHANGED <<tree, hasSource, cancels, mine, usr, edits, disturbed, revived, secretVars>>

\* The folders of a session, from the root of the source down.
FolderChain(id) == IF sess[id].folder = Source THEN <<Source>> ELSE <<Source, sess[id].folder>>

FolderScopesOf(id) == [i \in DOMAIN FolderChain(id) |-> <<"folder", FolderChain(id)[i]>>]

\* resolvedVars: the scopes a session takes its variables from.
VarChain(id) == << <<"global", 0>> >> \o FolderScopesOf(id) \o << <<"session", id>> >>

\* BarForSession.
BarForSession(id, family) == FilterOS(FolderBar(FolderScopesOf(id)), family)

-----------------------------------------------------------------------------
\* The program ends at any moment and starts again: the tree is on disk, the refreshes are
\* no more and the secrets are locked.
Restart ==
    /\ settingOps < Scene.settingOps
    /\ settingOps' = settingOps + 1
    /\ OpenSecrets
    /\ OpenCustoms
    /\ pc' = [r \in Refreshes |-> IF pc[r] = "idle" THEN "idle" ELSE "done"]
    /\ cancels' = None
    /\ usr' = None
    /\ UNCHANGED <<tree, hasSource, canceled, recs, at, old, cache, skipped, doomed, twins,
                   edits, disturbed, revived>>

-----------------------------------------------------------------------------
Init ==
    /\ SecretsInit
    /\ CustomsInit
    /\ scene \in DOMAIN Scenes
    /\ settingOps = 0
    /\ sess = Empty
    /\ folders = Bind(Empty, Source, [path |-> "", owned |-> FALSE])
    /\ hasSource = ~Scene.auth
    /\ cancels = None
    /\ pc = [r \in Refreshes |-> "idle"]
    /\ canceled = [r \in Refreshes |-> FALSE]
    /\ recs = [r \in Refreshes |-> <<>>]
    /\ at = [r \in Refreshes |-> 1]
    /\ old = [r \in Refreshes |-> Empty]
    /\ cache = [r \in Refreshes |-> Empty]
    /\ skipped = [r \in Refreshes |-> {}]
    /\ doomed = [r \in Refreshes |-> {}]
    /\ usr = None
    /\ edits = 0
    /\ nextId = 0
    /\ nextFolder = 1
    /\ disturbed = {}
    /\ twins = [r \in Refreshes |-> {}]
    /\ revived = FALSE

Steps(r) ==
    \/ Begin(r) \/ Register(r) \/ FetchFails(r) \/ Fetched(r) \/ Snapshot(r)
    \/ Place(r) \/ FindFolder(r) \/ MakeLeaf(r) \/ PutRecord(r)
    \/ RemoveStale(r) \/ LookToPrune(r) \/ Prune(r) \/ Unregister(r)

Edits ==
    \/ CancelRefresh
    \/ \E name \in Names, k \in Keys : CreateSession(name, k)
    \/ \E id \in 0..MaxIds : ReadSession(id) \/ DeleteSession(id)
    \/ \E name \in Names : Rename(name) \/ Duplicate(name)
    \/ SetJumpChain
    \/ \E path \in Paths \ {""} : CreateFolder(path)
    \/ \E f \in 0..MaxFolders : DeleteFolder(f)

Sources ==
    \/ \E p \in Phrases : Passphrase(p)
    \/ \E v \in Values : StoreSecret(v)
    \/ KeepSecret \/ SetSource \/ ClearSecret \/ ClearSource \/ OtherSecret

Refresh(r) == Steps(r) /\ UNCHANGED <<scene, settingOps, secretVars, customVars>>

Next ==
    \/ \E r \in Refreshes : Refresh(r)
    \/ Edits /\ UNCHANGED <<scene, settingOps, secretVars, customVars>>
    \/ Sources /\ UNCHANGED <<scene, customVars>>
    \/ CustomEdit /\ UNCHANGED scene
    \/ Restart /\ UNCHANGED scene

\* A fetch has a deadline; the store always answers.
Spec == Init /\ [][Next]_vars /\ \A r \in Refreshes : WF_vars(pc[r] # "idle" /\ Refresh(r))

-----------------------------------------------------------------------------
(* Properties.                                                             *)

OfSource == {id \in DOMAIN sess : sess[id].gen}

SessionType == [name : Names, folder : 0..MaxFolders, key : Keys, gen : BOOLEAN, edit : Nat]

TypeOK ==
    /\ SecretsType
    /\ CustomsType
    /\ \A id \in DOMAIN sess : id \in 0..MaxIds - 1 /\ sess[id] \in SessionType
    /\ \A id \in DOMAIN sess : sess[id].folder \in DOMAIN folders
    /\ \A f \in DOMAIN folders : folders[f] \in [path : Paths, owned : BOOLEAN]
    /\ \A id, other \in DOMAIN sess :
          id # other /\ sess[id].folder = sess[other].folder => sess[id].name # sess[other].name
    /\ cancels \in Refreshes \union {None}
    /\ cancels # None => pc[cancels] \notin {"idle", "register", "done"}

KeysOnce(records) ==
    \A i, j \in DOMAIN records : records[i].key = records[j].key => i = j

\* The session a record asks for is where it belongs.
Placed(r, i) ==
    \E id \in OfSource :
        /\ sess[id].key = recs[r][i].key
        /\ sess[id].name = recs[r][i].name
        /\ folders[sess[id].folder].path = recs[r][i].path

\* A refresh that nobody disturbed leaves what reconcile.go:35-41 says: every record
\* it did not skip has its session, no other generated session is left (of two with
\* one key it knows one only), and no folder of its making is empty.
RefreshDone ==
    \A r \in Refreshes :
        pc[r] = "reconciled" /\ r \notin disturbed =>
            /\ KeysOnce(recs[r]) => \A i \in DOMAIN recs[r] \ skipped[r] : Placed(r, i)
            /\ \A id \in OfSource \ twins[r] : \E i \in DOMAIN recs[r] : sess[id].key = recs[r][i].key
            /\ \A f \in DOMAIN folders : folders[f].owned => ~FolderFree(f)

\* Refreshes leave sessions and folders made by hand alone (reconcile.go:39,
\* docs/import-map-scripts.md), however stale their snapshot.
HandMadeKept ==
    [][UNCHANGED <<usr, edits>> =>
          /\ \A id \in DOMAIN sess : ~sess[id].gen => id \in DOMAIN sess' /\ sess'[id] = sess[id]
          /\ \A f \in DOMAIN folders : ~folders[f].owned => f \in DOMAIN folders']_vars

\* Two generated sessions have one key only if a source gave it twice, a refresh was
\* disturbed, or an edit brought back a session that was deleted meanwhile: a key is
\* the device's identity (reconcile.go:36), and a device has one session.
OneSessionPerKey ==
    (\E id, other \in OfSource : id # other /\ sess[id].key = sess[other].key) =>
        \/ disturbed # {}
        \/ revived
        \/ \E r \in Refreshes : ~KeysOnce(recs[r])

\* What a refresh leaves: the records' sessions, and of each device one.
Reconciled == RefreshDone /\ OneSessionPerKey

\* A session takes each variable from the innermost scope that has a value for its family,
\* of a chain that ends with itself, wherever a refresh has put it; and its bar shows
\* no button that is for another family.
SessionResolves ==
    \A id \in DOMAIN sess, family \in Families \union {Undetected} :
        /\ \A name \in VarNames : InnermostWins(VarChain(id), name, family)
        /\ BarForSession(id, family) \intersect (Selectors \ {"all"}) \subseteq
              {IF family = Undetected THEN "unknown" ELSE family}

\* The settings outlive every failure and restart as far as the user was told they would,
\* but for deletions that were not saved, and a session gets what its scopes say.
SettingsSound == SecretsKept /\ CustomsKept /\ SnippetsFiled /\ SessionResolves

\* Every refresh ends, and gives its registration back.
RefreshEnds == \A r \in Refreshes : pc[r] # "idle" ~> pc[r] = "done"

\* A refresh that nobody disturbed makes the generated sessions match the records
\* (reconcile.go:35-36).
RefreshMatches ==
    \A r \in Refreshes :
        pc[r] = "reconciled" /\ r \notin disturbed /\ KeysOnce(recs[r]) =>
            \A i \in DOMAIN recs[r] :
                Placed(r, i) \/ \E id \in DOMAIN sess \ OfSource : sess[id].name = recs[r][i].name

\* FolderSourceCancelRefresh aborts a refresh that is fetching (app/import.go:223): it is the one
\* registered, or canceled already.
CancelReaches ==
    \A r \in Refreshes : pc[r] = "fetch" => canceled[r] \/ cancels = r
=============================================================================
