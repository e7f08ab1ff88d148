------------------------------- MODULE Targets -------------------------------
(***************************************************************************)
(* What a session is dialed with (store/resolve.go, Resolve of             *)
(* store/yamlstore.go, targetFor of app/connect.go), and the edits of it   *)
(* (app/app.go).  There is one session in a path of folders; each of them  *)
(* has options, which those further down override.                         *)
(*                                                                         *)
(* Two options stand for all: the jump chain, a list, and the key file, a  *)
(* pointer.  The index and the YAML files keep them differently: an empty  *)
(* list is not written.                                                    *)
(***************************************************************************)
EXTENDS Integers, Sequences, SequencesExt

CONSTANTS
    Alts,      \* alternative users of the settings: "@label" -> [user, key]
    GlobalKey, \* key file of the settings
    Self,      \* $USER
    Inherit,   \* an option that is not set (nil)
    Hosts,     \* hosts a hop may be
    Users,     \* users and labels
    Files      \* key files a session may name

\* An alternative user is looked up once; $USER is set, and no label.
ASSUME TargetsAssumption ==
    /\ \A label \in DOMAIN Alts : Alts[label].user \notin DOMAIN Alts
    /\ Self \notin DOMAIN Alts \union {""}

Modes == {"proxyjump", "shell-hop", "other"}
Hop == [host : Hosts, mode : Modes, user : Users, override : Users]
Option == [chain : {Inherit} \union Seq(Hop), key : {Inherit} \union Files]

VARIABLES
    user,      \* the session's user, "" if it has none
    opts,      \* options in the index: the root folder's first, the session's last
    disk,      \* options in the YAML files
    wanted,    \* auxiliary: options as they were set last
    changes    \* edits so far

targetVars == <<user, opts, disk, wanted, changes>>

Session == Len(opts)

TargetsInit(name, levels) ==
    /\ user = name
    /\ opts = levels
    /\ disk = levels
    /\ wanted = levels
    /\ changes = 0

-----------------------------------------------------------------------------
(* The store.                                                              *)

\* The tag omitempty: an empty list is left out of the file.
Written(o) == [o EXCEPT !.chain = IF @ = <<>> THEN Inherit ELSE @]

PutSession(o) ==
    /\ opts' = [opts EXCEPT ![Session] = o]
    /\ disk' = [disk EXCEPT ![Session] = Written(o)]

\* Every change of a folder reloads the index.
PutFolder(level, o) ==
    /\ disk' = [disk EXCEPT ![level] = Written(o)]
    /\ opts' = disk'

-----------------------------------------------------------------------------
(* Edits.                                                                  *)

Wants(level, o) == wanted' = [wanted EXCEPT ![level] = o]
Edit == changes' = changes + 1 /\ UNCHANGED user

\* SessionSetJumpChain and FolderSetJumpChain, with a chain toJumpChain has accepted.
SetJumpChain(level, hops) ==
    /\ Edit
    /\ Wants(level, [wanted[level] EXCEPT !.chain = hops])
    /\ LET o == [opts[level] EXCEPT !.chain = hops]
       IN  IF level = Session THEN PutSession(o) ELSE PutFolder(level, o)

\* Mutant: the form's options replace the jump chain too.
SavedAlone(key) == [chain |-> Inherit, key |-> key]

\* parseOptions knows no jump chain: it is kept.
Saved(key) == [chain |-> opts[Session].chain, key |-> key]

\* SaveSession: a blank field inherits.
SaveSession(key) ==
    /\ Edit
    /\ Wants(Session, [wanted[Session] EXCEPT !.key = key])
    /\ PutSession(Saved(key))

\* SaveFolder renames a folder.
SaveFolder(level) ==
    /\ level # Session
    /\ Edit
    /\ PutFolder(level, opts[level])
    /\ UNCHANGED wanted

\* Tree and ConnectFolder load the files again.
LoadTree ==
    /\ Edit
    /\ opts' = disk
    /\ UNCHANGED <<disk, wanted>>

-----------------------------------------------------------------------------
(* targetFor.                                                              *)

Overlay(base, o) == [f \in DOMAIN base |-> IF o[f] = Inherit THEN base[f] ELSE o[f]]

\* Resolve: the options of the folders from the root down, then the session's.
Effective == FoldLeft(Overlay, [chain |-> Inherit, key |-> Inherit], opts)

Look(name) == IF name \in DOMAIN Alts THEN Alts[name].user ELSE name

\* resolveAltRefs: users, those of the hops and those a hop is to log in with.
HopChain ==
    IF Effective.chain = Inherit THEN <<>>
    ELSE [i \in DOMAIN Effective.chain |->
            [Effective.chain[i] EXCEPT !.user = Look(@), !.override = Look(@)]]

AltKeys ==
    {Alts[label].key : label \in DOMAIN Alts \intersect
        ({user} \union (IF Effective.chain = Inherit THEN {}
                        ELSE UNION {{h.user, h.override} : h \in ToSet(Effective.chain)}))}

KeyFiles == AltKeys \union {IF Effective.key = Inherit THEN GlobalKey ELSE Effective.key}

\* resolveTargetUser: the session's own user, or else what the last hop hands on.
TargetUser ==
    IF Look(user) = "" /\ HopChain # <<>> /\ Last(HopChain).mode = "shell-hop"
    THEN Last(HopChain).override
    ELSE Look(user)

\* The legs of the dial; Dial fills in the target's user for a hop without one.
LegsTo(host) ==
    LET name == IF TargetUser = "" THEN Self ELSE TargetUser
        leg(h, m, u) == [host |-> h, mode |-> m, user |-> u, keys |-> KeyFiles]
    IN  [i \in DOMAIN HopChain |->
            leg(HopChain[i].host, HopChain[i].mode,
                IF HopChain[i].user = "" THEN name ELSE HopChain[i].user)]
        \o <<leg(host, "target", name)>>

-----------------------------------------------------------------------------
(* What the user set.                                                      *)

\* Levels where an option is set, and is not an empty list.
SetAt(option) == {l \in DOMAIN wanted : wanted[l][option] # Inherit}
ClearedAt == {l \in SetAt("chain") : wanted[l].chain = <<>>}

\* An option as it is set nearest to the session, among these levels.
Nearest(option, levels, default) ==
    IF levels = {} THEN default
    ELSE wanted[CHOOSE l \in levels : \A m \in levels : m <= l][option]

\* Legs that follow the hops of a chain and reach the target.
Follows(legsOf, hops) ==
    /\ Len(legsOf) = Len(hops) + 1
    /\ \A i \in DOMAIN hops : legsOf[i].host = hops[i].host /\ legsOf[i].mode = hops[i].mode

\* The chain set nearest; where it was cleared, the code may fall back on the one before.
ChainAsSet(legsOf) ==
    \/ Follows(legsOf, Nearest("chain", SetAt("chain"), <<>>))
    \/ /\ Nearest("chain", SetAt("chain"), <<>>) = <<>>
       /\ Follows(legsOf, Nearest("chain", SetAt("chain") \ ClearedAt, <<>>))

\* An empty chain overrides inherited ones (app.go:356-357, store.go:15).
ChainCleared(legsOf) == Follows(legsOf, Nearest("chain", SetAt("chain"), <<>>))

\* Nobody logs in as a label or as nobody; a session's own user is its user (connect.go:178-182);
\* the key file set nearest is tried.
LoginAsSet(legsOf) ==
    /\ \A i \in DOMAIN legsOf :
          /\ legsOf[i].user \notin DOMAIN Alts \union {""}
          /\ Nearest("key", SetAt("key"), GlobalKey) \in legsOf[i].keys
    /\ Look(user) # "" => Last(legsOf).user = Look(user)
=============================================================================
