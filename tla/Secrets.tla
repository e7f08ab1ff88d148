------------------------------- MODULE Secrets -------------------------------
(***************************************************************************)
(* The store of the import sources' credentials (cred/cred.go): memory and *)
(* one file, which every change rewrites as a whole and by a rename.  A    *)
(* save that fails leaves the change in memory.                            *)
(*                                                                         *)
(* Salt and check stand for the passphrase they were made with; so does a  *)
(* key, and a sealed secret bears the passphrase of its key.               *)
(***************************************************************************)
CONSTANTS
    Items,     \* ids of secrets
    Phrases,   \* passphrases
    Values,    \* secrets
    Unset

ASSUME SecretsAssumption ==
    /\ Unset \notin [under : Phrases, value : Values]
    /\ "sealed" \notin Values \union {Unset}

VARIABLES
    vault,     \* salt, check and items in memory
    key,       \* s.key, or Unset when locked
    vaultFile, \* the same as vault, in the file
    told,      \* auxiliary: what the user was last told is stored; "unknown" after an error
    undeleted  \* auxiliary: secrets in the file that a deletion took from memory only

secretVars == <<vault, key, vaultFile, told, undeleted>>

NoSecrets == [phrase |-> Unset, items |-> [id \in Items |-> Unset]]
Sealed(v) == [under |-> key, value |-> v]

SecretsInit ==
    /\ vault = NoSecrets
    /\ key = Unset
    /\ vaultFile = NoSecrets
    /\ told = NoSecrets
    /\ undeleted = {}

\* saveLocked: the file is replaced ...
Saved ==
    /\ vaultFile' = vault'
    /\ undeleted' = {id \in undeleted : vault'.items[id] # Unset}

\* ... or stays as it was; of the secrets S just deleted it still holds what it held.
NotSaved(S) ==
    /\ UNCHANGED vaultFile
    /\ undeleted' = undeleted \union {id \in S : vaultFile.items[id] # Unset}

Says(id, v) == [told EXCEPT !.items[id] = v]

\* Mutant: a passphrase may be set again.
SettableAgain == TRUE

Settable == vault.phrase = Unset

\* Without a passphrase there are no secrets that its loss could lose.
SetPassphrase(p) ==
    /\ Settable
    /\ vault' = [vault EXCEPT !.phrase = p]
    /\ key' = p
    /\ \/ Saved /\ told' = [told EXCEPT !.phrase = p]
       \/ NotSaved({}) /\ UNCHANGED told

\* A wrong passphrase is refused.
UnlockSecrets(p) ==
    /\ p = vault.phrase
    /\ key' = p
    /\ UNCHANGED <<vault, vaultFile, told, undeleted>>

\* Requires an unlocked store.
PutSecret(id, v) ==
    /\ key # Unset
    /\ vault' = [vault EXCEPT !.items[id] = Sealed(v)]
    /\ \/ Saved /\ told' = Says(id, v)
       \/ NotSaved({}) /\ told' = Says(id, "unknown")
    /\ UNCHANGED key

\* Mutant: a deletion is not saved.
DeleteUnsaved(id, said) ==
    /\ vault' = [vault EXCEPT !.items[id] = Unset]
    /\ UNCHANGED <<vaultFile, undeleted>>
    /\ told' = Says(id, said)
    /\ UNCHANGED key

\* Requires no key; nothing is saved if memory has nothing to delete.  The caller does not
\* look at the error: what the user is told does not depend on it.
DeleteSecret(id, said) ==
    /\ vault' = [vault EXCEPT !.items[id] = Unset]
    /\ IF vault.items[id] = Unset THEN UNCHANGED <<vaultFile, undeleted>>
                                 ELSE Saved \/ NotSaved({id})
    /\ told' = Says(id, said)
    /\ UNCHANGED key

\* Get succeeds.
CanGet(id) == key # Unset /\ vault.items[id] # Unset /\ vault.items[id].under = key

\* The program starts again.
OpenSecrets ==
    /\ vault' = vaultFile
    /\ key' = Unset
    /\ UNCHANGED <<vaultFile, told, undeleted>>

-----------------------------------------------------------------------------
\* What an item of a store opens to with the store's passphrase.
OpensTo(v, id) ==
    IF v.items[id] = Unset THEN Unset
    ELSE IF v.items[id].under = v.phrase THEN v.items[id].value ELSE "sealed"

SecretsType ==
    /\ {vault.phrase, vaultFile.phrase, told.phrase} \subseteq Phrases \union {Unset}
    /\ key \in {Unset, vault.phrase}
    /\ undeleted \subseteq Items

\* What the user was told is stored is in the file, and opens with the passphrase the
\* user was told is set, whatever failed in between; what the user was told is deleted is
\* not, unless its deletion could not be saved (ClearedIsGone); memory never holds a
\* secret its own passphrase does not open.
SecretsKept ==
    /\ told.phrase # Unset => vaultFile.phrase = told.phrase
    /\ \A id \in Items :
          /\ \/ told.items[id] = "unknown"
             \/ told.items[id] = Unset /\ id \in undeleted
             \/ OpensTo(vaultFile, id) = told.items[id]
          /\ "sealed" \notin {OpensTo(vault, id), OpensTo(vaultFile, id)}

\* FolderSourceClear removes the stored secret (app/import.go:95): of a secret the user was
\* told is gone the file holds nothing.
ClearedIsGone ==
    \A id \in Items : told.items[id] = Unset => vaultFile.items[id] = Unset
=============================================================================
