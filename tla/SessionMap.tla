----------------------------- MODULE SessionMap -----------------------------
(***************************************************************************)
(* What a session store promises its callers (store/store.go): a map from  *)
(* session ids to sessions that an operation changes in one go, whatever   *)
(* happens to the process.  A session changes or comes into being only as  *)
(* the one being put, with a higher revision than the one it replaces, or  *)
(* as a file made by hand that gets an id nothing had before; it goes only *)
(* while its deletion is under way.  Two situations are outside the        *)
(* promise: a store that holds one id twice, and one whose index no longer *)
(* matches its files; both are visible here as "damaged", and becoming     *)
(* damaged changes nothing by itself.                                      *)
(***************************************************************************)
EXTENDS Integers

CONSTANTS
    SessionIds,
    Sessions  \* records with their revision in "rev"

VARIABLES
    kept,      \* the sessions stored: a partial function on SessionIds
    writing,   \* the sessions being put: [id, session]
    deleting,  \* ids whose deletion is under way
    given,     \* ids given out so far
    damaged    \* the promise is suspended

vars == <<kept, writing, deleting, given, damaged>>

Maps == UNION {[D -> Sessions] : D \in SUBSET SessionIds}

Init ==
    /\ kept \in Maps
    /\ writing = {}
    /\ deleting = {}
    /\ given \in SUBSET SessionIds
    /\ DOMAIN kept \subseteq given
    /\ damaged = FALSE

\* The map has this session, and the others as before.
Gains(id) ==
    /\ DOMAIN kept' = DOMAIN kept \union {id}
    /\ \A other \in DOMAIN kept \ {id} : kept'[other] = kept[other]

\* An operation begins: what is put is newer than what is stored under its id.
Begin ==
    /\ writing = {} /\ deleting = {}
    /\ deleting' \in SUBSET SessionIds
    /\ \A put \in writing' :
          put.id \in given' /\ (put.id \in DOMAIN kept => kept[put.id].rev < put.session.rev)
    /\ UNCHANGED kept

\* An operation ends, whatever it has done.
End ==
    /\ writing' \subseteq writing
    /\ deleting' \subseteq deleting
    /\ UNCHANGED kept

\* The session being put is stored.
Store(put) ==
    /\ put \in writing
    /\ Gains(put.id)
    /\ kept'[put.id] = put.session
    /\ writing' = writing \ {put}
    /\ UNCHANGED <<deleting, given>>

\* A session whose deletion is under way goes.
Drop(id) ==
    /\ id \in deleting \intersect DOMAIN kept
    /\ DOMAIN kept' = DOMAIN kept \ {id}
    /\ \A other \in DOMAIN kept' : kept'[other] = kept[other]
    /\ UNCHANGED <<writing, deleting, given>>

\* A file made by hand gets an id.
Adopt(id) ==
    /\ id \notin given
    /\ given' = given \union {id}
    /\ Gains(id)
    /\ UNCHANGED <<writing, deleting>>

Next ==
    /\ given \subseteq given'
    /\ \/ /\ ~damaged
          /\ ~damaged'
          /\ \/ Begin \/ End
             \/ \E put \in writing : Store(put)
             \/ \E id \in SessionIds : Drop(id) \/ Adopt(id)
       \/ ~damaged /\ damaged' /\ UNCHANGED kept
       \/ damaged

Spec == Init /\ [][Next]_vars
=============================================================================
