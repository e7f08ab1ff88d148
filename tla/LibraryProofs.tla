---------------------------- MODULE LibraryProofs -----------------------------
(***************************************************************************)
(* Theorems about the settings (Secrets, Customs) and about refreshes      *)
(* beside a user who edits the tree (Library), for every scene.            *)
(***************************************************************************)
EXTENDS Library, WellFoundedInduction, TLAPS

-----------------------------------------------------------------------------
(* Secrets *)

\* A store in memory or on disk: sealed secrets are of its own passphrase.
SealedUnder(v) ==
    /\ v.phrase \in Phrases \union {Unset}
    /\ v.items \in [Items -> [under : Phrases, value : Values] \union {Unset}]
    /\ \A id \in Items : v.items[id] # Unset =>
          v.items[id].under = v.phrase /\ v.phrase # Unset

\* Memory and file differ in secrets the user was told may be lost, in those a deletion that
\* was not saved left in the file, and by a passphrase that could not be saved; a secret
\* counts as told when both have it.
SecretsInv ==
    /\ SecretsType
    /\ SealedUnder(vault) /\ SealedUnder(vaultFile)
    /\ vault = [phrase |-> vault.phrase, items |-> vault.items]
    /\ vaultFile = [phrase |-> vaultFile.phrase, items |-> vaultFile.items]
    /\ told = [phrase |-> told.phrase, items |-> told.items]
    /\ DOMAIN told.items = Items
    /\ vaultFile.phrase \in {Unset, vault.phrase}
    /\ told.phrase # Unset => vaultFile.phrase = told.phrase
    /\ \A id \in Items : told.items[id] # "unknown" =>
          \/ told.items[id] = Unset /\ id \in undeleted
          \/ /\ vault.items[id] = vaultFile.items[id]
             /\ OpensTo(vaultFile, id) = told.items[id]
    /\ \A id \in Items :
          vault.items[id] = Unset => vaultFile.items[id] = Unset \/ id \in undeleted

LEMMA SecretsSound == SecretsInv => SecretsKept
<1>1. ASSUME NEW v, SealedUnder(v), NEW id \in Items PROVE OpensTo(v, id) # "sealed"
  <2>1. CASE v.items[id] = Unset
    BY <2>1, SecretsAssumption DEF OpensTo
  <2>2. CASE v.items[id] # Unset
    <3>1. v.items[id] \in [under : Phrases, value : Values] /\ v.items[id].under = v.phrase
      BY <1>1, <2>2 DEF SealedUnder
    <3>. QED
      BY <2>2, <3>1, SecretsAssumption DEF OpensTo
  <2>. QED
    BY <2>1, <2>2
<1>. QED
  BY <1>1 DEF SecretsInv, SecretsKept

LEMMA SecretsStart == SecretsInit => SecretsInv
BY DEF SecretsInit, SecretsInv, SecretsType, NoSecrets, SealedUnder, OpensTo

\* What is done to the secrets in a step of Next.
SecretsStep ==
    \/ \E p \in Phrases : SetPassphrase(p) \/ UnlockSecrets(p)
    \/ \E id \in Items, v \in Values : PutSecret(id, v)
    \/ \E id \in Items, said \in {Unset, "unknown"} : DeleteSecret(id, said)
    \/ OpenSecrets
    \/ UNCHANGED secretVars

LEMMA SaysIs ==
    ASSUME SecretsInv, NEW id, NEW x
    PROVE  Says(id, x) = [phrase |-> told.phrase, items |-> [told.items EXCEPT ![id] = x]]
<1>1. told = [phrase |-> told.phrase, items |-> told.items]
  BY DEF SecretsInv
<1> DEFINE p == told.phrase
           f == told.items
<1>. HIDE DEF p, f
<1>2. told = [phrase |-> p, items |-> f]
  BY <1>1 DEF p, f
<1>3. [[phrase |-> p, items |-> f] EXCEPT !.items[id] = x] = [phrase |-> p, items |-> [f EXCEPT ![id] = x]]
  OBVIOUS
<1>. QED
  BY <1>2, <1>3 DEF Says, p, f

\* A save, or none, after memory took x for one secret and nothing else.
LEMMA OneSecret ==
    ASSUME SecretsInv, NEW id \in Items,
           NEW x \in [under : {vault.phrase} \ {Unset}, value : Values] \union {Unset}, NEW said,
           vault' = [vault EXCEPT !.items[id] = x],
           told' = Says(id, said),
           key' = key,
           \/ Saved
           \/ NotSaved({i \in {id} : x = Unset}),
           \/ said = "unknown"
           \/ x = Unset /\ said = Unset
           \/ x # Unset /\ said = x.value /\ vaultFile' = vault'
    PROVE  SecretsInv'
<1>1. /\ vault' = [phrase |-> vault.phrase, items |-> vault'.items]
      /\ vault'.items = [vault.items EXCEPT ![id] = x]
      /\ vault'.phrase = vault.phrase
  BY Zenon DEF SecretsInv
<1>2. /\ vault'.items[id] = x
      /\ \A i \in Items : i # id => vault'.items[i] = vault.items[i]
      /\ DOMAIN vault'.items = Items
  BY <1>1 DEF SecretsInv, SealedUnder
<1>3. /\ told' = [phrase |-> told.phrase, items |-> [told.items EXCEPT ![id] = said]]
      /\ told' = [phrase |-> told'.phrase, items |-> told'.items]
  <2>1. Says(id, said) = [phrase |-> told.phrase, items |-> [told.items EXCEPT ![id] = said]]
    BY SaysIs
  <2>. QED
    BY <2>1
<1>4. /\ told'.phrase = told.phrase
      /\ DOMAIN told'.items = Items
      /\ told'.items[id] = said
      /\ \A i \in Items : i # id => told'.items[i] = told.items[i]
  BY <1>3 DEF SecretsInv
<1>5. x # Unset => x.under = vault.phrase /\ vault.phrase # Unset /\ x.value \in Values
  OBVIOUS
<1>6. SealedUnder(vault')
  BY <1>1, <1>2, <1>5 DEF SealedUnder, SecretsInv
<1>7. /\ vaultFile' \in {vault', vaultFile}
      /\ undeleted' \subseteq Items
  BY DEF Saved, NotSaved, SecretsInv, SecretsType
<1>8. /\ SealedUnder(vaultFile')
      /\ vaultFile' = [phrase |-> vaultFile'.phrase, items |-> vaultFile'.items]
      /\ vaultFile'.phrase \in {Unset, vault'.phrase}
      /\ told'.phrase # Unset => vaultFile'.phrase = told'.phrase
  BY <1>1, <1>4, <1>6, <1>7 DEF SecretsInv
<1>9. ASSUME NEW i \in Items, vault'.items[i] = Unset
      PROVE  vaultFile'.items[i] = Unset \/ i \in undeleted'
  <2>1. CASE Saved
    BY <1>9, <2>1 DEF Saved
  <2>2. CASE NotSaved({j \in {id} : x = Unset})
    <3>1. CASE i = id
      BY <1>2, <1>9, <2>2, <3>1 DEF NotSaved
    <3>2. CASE i # id
      BY <1>2, <1>9, <2>2, <3>2 DEF NotSaved, SecretsInv
    <3>. QED
      BY <3>1, <3>2
  <2>. QED
    BY <2>1, <2>2
<1>10. ASSUME NEW i \in Items, told'.items[i] # "unknown"
       PROVE  \/ told'.items[i] = Unset /\ i \in undeleted'
              \/ vault'.items[i] = vaultFile'.items[i] /\ OpensTo(vaultFile', i) = told'.items[i]
  <2>1. CASE i = id /\ x = Unset
    <3>1. told'.items[i] = Unset /\ vault'.items[i] = Unset
      BY <1>2, <1>4, <1>10, <2>1
    <3>. QED
      BY <1>9, <3>1 DEF OpensTo
  <2>2. CASE i = id /\ x # Unset
    <3>1. told'.items[i] = x.value /\ vaultFile' = vault' /\ vault'.items[i] = x
      BY <1>2, <1>4, <1>10, <2>2
    <3>. QED
      BY <1>1, <1>5, <2>2, <3>1 DEF OpensTo
  <2>3. CASE i # id
    <3>1. vault'.items[i] = vault.items[i] /\ told'.items[i] = told.items[i]
      BY <1>2, <1>4, <2>3
    <3>2. CASE told.items[i] = Unset /\ i \in undeleted
      <4>1. CASE vault.items[i] = Unset
        BY <1>9, <3>1, <3>2, <4>1 DEF OpensTo
      <4>2. CASE vault.items[i] # Unset
        BY <3>1, <3>2, <4>2 DEF Saved, NotSaved
      <4>. QED
        BY <4>1, <4>2
    <3>3. CASE vault.items[i] = vaultFile.items[i] /\ OpensTo(vaultFile, i) = told.items[i]
      <4>1. vaultFile.items[i] # Unset =>
                vaultFile.items[i].under = vaultFile.phrase /\ vaultFile.phrase = vault.phrase
        BY DEF SecretsInv, SealedUnder
      <4>2. vaultFile'.items[i] = vaultFile.items[i]
        BY <1>7, <3>1, <3>3
      <4>3. vaultFile'.phrase \in {vault.phrase, vaultFile.phrase}
        BY <1>1, <1>7
      <4>4. OpensTo(vaultFile', i) = OpensTo(vaultFile, i)
        BY <4>1, <4>2, <4>3 DEF OpensTo
      <4>. QED
        BY <3>1, <3>3, <4>2, <4>4
    <3>. QED
      BY <1>10, <3>1, <3>2, <3>3 DEF SecretsInv
  <2>. QED
    BY <2>1, <2>2, <2>3
<1>. QED
  BY <1>1, <1>3, <1>4, <1>6, <1>7, <1>8, <1>9, <1>10 DEF SecretsInv, SecretsType

LEMMA PutSecretKeeps ==
    ASSUME SecretsInv, NEW id \in Items, NEW v \in Values, PutSecret(id, v)
    PROVE  SecretsInv'
<1> DEFINE s == [under |-> key, value |-> v]
<1>1. key = vault.phrase /\ key # Unset
  BY DEF PutSecret, SecretsInv, SecretsType
<1>2. s \in [under : {vault.phrase} \ {Unset}, value : Values] /\ s.value = v
  BY <1>1
<1>3. s # Unset
  <2>1. s \in [under : Phrases, value : Values]
    BY <1>1 DEF SecretsInv, SealedUnder
  <2>. QED
    BY <2>1, SecretsAssumption
<1>4. vault' = [vault EXCEPT !.items[id] = s] /\ key' = key
  BY DEF PutSecret, Sealed
<1>. HIDE DEF s
<1>5. {i \in {id} : s = Unset} = {}
  BY <1>3
<1>6. CASE Saved /\ told' = Says(id, v)
  BY <1>2, <1>3, <1>4, <1>6, OneSecret DEF Saved
<1>7. CASE NotSaved({}) /\ told' = Says(id, "unknown")
  BY <1>2, <1>4, <1>5, <1>7, OneSecret
<1>. QED
  BY <1>6, <1>7 DEF PutSecret

LEMMA DeleteSecretKeeps ==
    ASSUME SecretsInv, NEW id \in Items, NEW said \in {Unset, "unknown"}, DeleteSecret(id, said)
    PROVE  SecretsInv'
<1>1. {i \in {id} : Unset = Unset} = {id}
  OBVIOUS
<1>2. /\ vault' = [vault EXCEPT !.items[id] = Unset]
      /\ told' = Says(id, said) /\ key' = key
  BY DEF DeleteSecret
<1>3. CASE vault.items[id] # Unset
  <2>1. Saved \/ NotSaved({id})
    BY <1>3 DEF DeleteSecret
  <2>. QED
    BY <1>1, <1>2, <2>1, OneSecret
<1>4. CASE vault.items[id] = Unset
  <2>1. UNCHANGED <<vaultFile, undeleted>>
    BY <1>4 DEF DeleteSecret
  <2>2. NotSaved({id})
    <3>1. {i \in {id} : vaultFile.items[i] # Unset} \subseteq undeleted
      BY <1>4 DEF SecretsInv
    <3>. QED
      BY <2>1, <3>1 DEF NotSaved
  <2>. QED
    BY <1>1, <1>2, <2>2, OneSecret
<1>. QED
  BY <1>3, <1>4

LEMMA SecretsStepKeeps == SecretsInv /\ SecretsStep => SecretsInv'
<1>. SUFFICES ASSUME SecretsInv, SecretsStep PROVE SecretsInv'
  OBVIOUS
<1>1. ASSUME NEW p \in Phrases, SetPassphrase(p) PROVE SecretsInv'
  <2>1. /\ vault.phrase = Unset /\ vaultFile.phrase = Unset /\ told.phrase = Unset
        /\ \A id \in Items : vault.items[id] = Unset /\ vaultFile.items[id] = Unset
    BY <1>1 DEF SetPassphrase, Settable, SecretsInv, SealedUnder
  <2>2. vault' = [phrase |-> p, items |-> vault.items] /\ key' = p
    BY <1>1 DEF SetPassphrase, SecretsInv
  <2>3. \/ vaultFile' = vault' /\ told' = [phrase |-> p, items |-> told.items]
        \/ vaultFile' = vaultFile /\ told' = told
    BY <1>1 DEF SetPassphrase, Saved, NotSaved, SecretsInv
  <2>4. undeleted' \subseteq undeleted
    BY <1>1 DEF SetPassphrase, Saved, NotSaved
  <2>5. \A id \in Items : vault'.items[id] = Unset /\ vaultFile'.items[id] = Unset
    BY <2>1, <2>2, <2>3
  <2>6. \A id \in Items : told'.items[id] = told.items[id] /\ told.items[id] \in {"unknown", Unset}
    BY <2>1, <2>3 DEF SecretsInv, OpensTo
  <2>7. \A id \in Items : OpensTo(vaultFile', id) = Unset
    BY <2>5 DEF OpensTo
  <2>8. /\ SecretsType' /\ SealedUnder(vault') /\ SealedUnder(vaultFile')
        /\ DOMAIN told'.items = Items
        /\ vaultFile'.phrase \in {Unset, vault'.phrase}
        /\ told'.phrase # Unset => vaultFile'.phrase = told'.phrase
    BY <1>1, <2>1, <2>2, <2>3, <2>4 DEF SecretsInv, SecretsType, SealedUnder
  <2>9. /\ vault' = [phrase |-> vault'.phrase, items |-> vault'.items]
        /\ vaultFile' = [phrase |-> vaultFile'.phrase, items |-> vaultFile'.items]
        /\ told' = [phrase |-> told'.phrase, items |-> told'.items]
    BY <2>2, <2>3 DEF SecretsInv
  <2>. QED
    BY <2>5, <2>6, <2>7, <2>8, <2>9 DEF SecretsInv
<1>2. ASSUME NEW p \in Phrases, UnlockSecrets(p) PROVE SecretsInv'
  BY <1>2 DEF UnlockSecrets, SecretsInv, SecretsType, OpensTo
<1>3. CASE OpenSecrets
  <2>1. vaultFile = [phrase |-> vaultFile.phrase, items |-> vaultFile.items]
    BY DEF SecretsInv
  <2>. QED
    BY <1>3, <2>1 DEF OpenSecrets, SecretsInv, SecretsType, OpensTo
<1>4. CASE UNCHANGED secretVars
  BY <1>4 DEF secretVars, SecretsInv, SecretsType, OpensTo
<1>. QED
  BY <1>1, <1>2, <1>3, <1>4, PutSecretKeeps, DeleteSecretKeeps DEF SecretsStep

-----------------------------------------------------------------------------
(* Variables, bars and snippets *)

Parts == {"vars", "bars", "folders", "snips"}

\* What the user was told is kept, is kept; and memory lacks only what is left over.
BooksInv ==
    /\ \A c \in {customs, files, reported} : c = [part \in Parts |-> c[part]]
    /\ \A part \in Parts :
          /\ \A e \in DOMAIN files[part] \ DOMAIN customs[part] : <<part, e>> \in leftover
          /\ \A e \in DOMAIN reported[part] :
                /\ <<part, e>> \in leftover => reported[part][e] \in {Unsure, NoEntry}
                /\ reported[part][e] # Unsure /\ <<part, e>> \notin leftover =>
                      At(files[part], e) = reported[part][e] /\ At(customs[part], e) = reported[part][e]

\* Entries and bars have their types, and without a failure memory and files agree.
SameInv ==
    /\ CustomsType
    /\ \A e \in DOMAIN files.vars : e \in Scopes \X (VarNames \ SecretNames) \X Selectors
    /\ customs.bars = files.bars
    /\ ~failed => customs.folders = files.folders /\ customs.snips = files.snips

LEMMA ChangedAt ==
    ASSUME NEW f, NEW S, NEW v, NEW e
    PROVE  /\ At(Changed(f, S, v), e) = IF e \in S THEN v ELSE At(f, e)
           /\ e \notin S => (e \in DOMAIN Changed(f, S, v) <=> e \in DOMAIN f)
           /\ e \in S => (e \in DOMAIN Changed(f, S, v) <=> v # NoEntry)
BY DEF At, Changed, With, Restrict

LEMMA FileAt ==
    ASSUME NEW m, NEW f, NEW F, NEW e
    PROVE  /\ At(Filed(f, m, F), e) = IF e \in F THEN At(m, e) ELSE At(f, e)
           /\ e \in DOMAIN Filed(f, m, F) <=> IF e \in F THEN e \in DOMAIN m ELSE e \in DOMAIN f
BY DEF At, Filed

LEMMA WithAt ==
    ASSUME NEW f, NEW S, NEW v, NEW e
    PROVE  /\ e \in DOMAIN With(f, S, v) <=> e \in DOMAIN f \union S
           /\ e \in S => With(f, S, v)[e] = v
           /\ e \in DOMAIN f \ S => With(f, S, v)[e] = f[e]
BY DEF With

\* An entry of a part that a step leaves alone.
LEMMA ExceptPart ==
    ASSUME NEW c, c = [part \in Parts |-> c[part]], NEW p \in Parts, NEW x
    PROVE  /\ [c EXCEPT ![p] = x] = [part \in Parts |-> [c EXCEPT ![p] = x][part]]
           /\ [c EXCEPT ![p] = x][p] = x
           /\ \A q \in Parts \ {p} : [c EXCEPT ![p] = x][q] = c[q]
<1>1. DOMAIN c = Parts
  OBVIOUS
<1>. QED
  BY <1>1, Zenon

LEMMA WritesKeeps ==
    ASSUME BooksInv, NEW p \in Parts, NEW F, NEW S, S \subseteq F, NEW v,
           customs' = [customs EXCEPT ![p] = Changed(@, S, v)],
           Writes(p, S, F, v)
    PROVE  BooksInv'
<1>1. /\ customs' = [part \in Parts |-> customs'[part]]
      /\ customs'[p] = Changed(customs[p], S, v)
      /\ \A q \in Parts \ {p} : customs'[q] = customs[q]
  BY ExceptPart DEF BooksInv
<1> DEFINE m == customs'[p]
           g == Filed(files[p], m, F)
<1>2. /\ files' = [part \in Parts |-> files'[part]]
      /\ files'[p] = g
      /\ \A q \in Parts \ {p} : files'[q] = files[q]
  <2>1. files' = [files EXCEPT ![p] = g]
    BY DEF Writes
  <2>. HIDE DEF g
  <2>. QED
    BY <2>1, ExceptPart DEF BooksInv
<1>3. /\ reported' = [part \in Parts |-> reported'[part]]
      /\ reported'[p] = With(reported[p], S, v)
      /\ \A q \in Parts \ {p} : reported'[q] = reported[q]
  <2>1. reported' = [reported EXCEPT ![p] = With(reported[p], S, v)]
    BY DEF Writes, Reports
  <2>. QED
    BY <2>1, ExceptPart DEF BooksInv
<1>4. leftover' = leftover \ ({p} \X (S \union (F \ DOMAIN m)))
  BY DEF Writes
<1>. HIDE DEF m, g
<1>5. ASSUME NEW e
      PROVE  /\ At(m, e) = IF e \in S THEN v ELSE At(customs[p], e)
             /\ e \notin S => (e \in DOMAIN m <=> e \in DOMAIN customs[p])
             /\ At(g, e) = IF e \in F THEN At(m, e) ELSE At(files[p], e)
             /\ e \in DOMAIN g <=> IF e \in F THEN e \in DOMAIN m ELSE e \in DOMAIN files[p]
  BY <1>1, ChangedAt, FileAt DEF m, g
<1>6. ASSUME NEW e \in DOMAIN g \ DOMAIN m PROVE <<p, e>> \in leftover'
  <2>1. e \notin F /\ e \in DOMAIN files[p] /\ e \notin DOMAIN customs[p]
    BY <1>5, <1>6
  <2>. QED
    BY <1>4, <2>1 DEF BooksInv
<1>7. ASSUME NEW e \in DOMAIN reported'[p]
      PROVE  /\ <<p, e>> \in leftover' => reported'[p][e] \in {Unsure, NoEntry}
             /\ reported'[p][e] # Unsure /\ <<p, e>> \notin leftover' =>
                   At(g, e) = reported'[p][e] /\ At(m, e) = reported'[p][e]
  <2>1. CASE e \in S
    <3>1. reported'[p][e] = v /\ <<p, e>> \notin leftover' /\ At(m, e) = v /\ At(g, e) = v
      BY <1>3, <1>4, <1>5, <2>1, WithAt
    <3>. QED
      BY <3>1
  <2>2. CASE e \notin S
    <3>1. e \in DOMAIN reported[p] /\ reported'[p][e] = reported[p][e]
      BY <1>3, <1>7, <2>2, WithAt
    <3>2. <<p, e>> \in leftover' => <<p, e>> \in leftover
      BY <1>4
    <3>3. <<p, e>> \notin leftover' =>
              <<p, e>> \notin leftover \/ (e \in F /\ e \notin DOMAIN m)
      BY <1>4, <2>2
    <3>4. e \notin DOMAIN m => At(m, e) = NoEntry
      BY DEF At
    <3>. QED
      BY <1>5, <2>2, <3>1, <3>2, <3>3, <3>4 DEF BooksInv
  <2>. QED
    BY <2>1, <2>2
<1>8. ASSUME NEW q \in Parts \ {p}, NEW e PROVE <<q, e>> \in leftover' <=> <<q, e>> \in leftover
  BY <1>4
<1>9. ASSUME NEW q \in Parts
      PROVE  /\ \A e \in DOMAIN files'[q] \ DOMAIN customs'[q] : <<q, e>> \in leftover'
             /\ \A e \in DOMAIN reported'[q] :
                   /\ <<q, e>> \in leftover' => reported'[q][e] \in {Unsure, NoEntry}
                   /\ reported'[q][e] # Unsure /\ <<q, e>> \notin leftover' =>
                         At(files'[q], e) = reported'[q][e] /\ At(customs'[q], e) = reported'[q][e]
  <2>1. CASE q = p
    BY <1>2, <1>6, <1>7, <2>1 DEF m
  <2>2. CASE q # p
    <3>1. files'[q] = files[q] /\ customs'[q] = customs[q] /\ reported'[q] = reported[q]
      BY <1>1, <1>2, <1>3, <2>2
    <3>. QED
      BY <1>8, <2>2, <3>1 DEF BooksInv
  <2>. QED
    BY <2>1, <2>2
<1>. QED
  BY <1>1, <1>2, <1>3, <1>9 DEF BooksInv

LEMMA WriteFailsKeeps ==
    ASSUME BooksInv, NEW p \in Parts, NEW F, NEW S, S \subseteq F, NEW v,
           customs' = [customs EXCEPT ![p] = Changed(@, S, v)],
           WriteFails(p, S, F)
    PROVE  BooksInv'
<1>1. /\ customs' = [part \in Parts |-> customs'[part]]
      /\ customs'[p] = Changed(customs[p], S, v)
      /\ \A q \in Parts \ {p} : customs'[q] = customs[q]
  BY ExceptPart DEF BooksInv
<1>2. /\ reported' = [part \in Parts |-> reported'[part]]
      /\ reported'[p] = With(reported[p], S, Unsure)
      /\ \A q \in Parts \ {p} : reported'[q] = reported[q]
  <2>1. reported' = [reported EXCEPT ![p] = With(reported[p], S, Unsure)]
    BY DEF WriteFails, Reports
  <2>. QED
    BY <2>1, ExceptPart DEF BooksInv
<1> DEFINE m == customs'[p]
<1>3. leftover' = leftover \union ({p} \X ((F \intersect DOMAIN files[p]) \ DOMAIN m))
  BY DEF WriteFails
<1>4. files' = files
  BY DEF WriteFails
<1>. HIDE DEF m
<1>5. ASSUME NEW e
      PROVE  /\ e \notin S => At(m, e) = At(customs[p], e)
             /\ e \notin S => (e \in DOMAIN m <=> e \in DOMAIN customs[p])
  BY <1>1, ChangedAt DEF m
<1>6. ASSUME NEW e \in DOMAIN files[p] \ DOMAIN m PROVE <<p, e>> \in leftover'
  BY <1>3, <1>5, <1>6 DEF BooksInv
<1>7. ASSUME NEW e \in DOMAIN reported'[p]
      PROVE  /\ <<p, e>> \in leftover' => reported'[p][e] \in {Unsure, NoEntry}
             /\ reported'[p][e] # Unsure /\ <<p, e>> \notin leftover' =>
                   At(files[p], e) = reported'[p][e] /\ At(m, e) = reported'[p][e]
  <2>1. CASE e \in S
    BY <1>2, <2>1, WithAt
  <2>2. CASE e \notin S
    <3>1. e \in DOMAIN reported[p] /\ reported'[p][e] = reported[p][e]
      BY <1>2, <1>7, <2>2, WithAt
    <3>2. <<p, e>> \in leftover => <<p, e>> \in leftover'
      BY <1>3
    <3>3. <<p, e>> \in leftover' /\ <<p, e>> \notin leftover =>
              e \in DOMAIN files[p] /\ e \notin DOMAIN customs[p]
      BY <1>3, <1>5, <2>2
    <3>. QED
      BY <1>5, <2>2, <3>1, <3>2, <3>3 DEF BooksInv
  <2>. QED
    BY <2>1, <2>2
<1>8. ASSUME NEW q \in Parts \ {p}, NEW e PROVE <<q, e>> \in leftover' <=> <<q, e>> \in leftover
  BY <1>3
<1>9. ASSUME NEW q \in Parts
      PROVE  /\ \A e \in DOMAIN files'[q] \ DOMAIN customs'[q] : <<q, e>> \in leftover'
             /\ \A e \in DOMAIN reported'[q] :
                   /\ <<q, e>> \in leftover' => reported'[q][e] \in {Unsure, NoEntry}
                   /\ reported'[q][e] # Unsure /\ <<q, e>> \notin leftover' =>
                         At(files'[q], e) = reported'[q][e] /\ At(customs'[q], e) = reported'[q][e]
  <2>1. CASE q = p
    BY <1>4, <1>6, <1>7, <2>1 DEF m
  <2>2. CASE q # p
    <3>1. files'[q] = files[q] /\ customs'[q] = customs[q] /\ reported'[q] = reported[q]
      BY <1>1, <1>2, <1>4, <2>2
    <3>. QED
      BY <1>8, <2>2, <3>1 DEF BooksInv
  <2>. QED
    BY <2>1, <2>2
<1>. QED
  BY <1>1, <1>2, <1>4, <1>9 DEF BooksInv

LEMMA NothingThereKeeps ==
    ASSUME BooksInv, NEW p \in Parts, NEW S, S \intersect DOMAIN customs[p] = {}, NothingThere(p, S)
    PROVE  BooksInv'
<1>1. /\ reported' = [part \in Parts |-> reported'[part]]
      /\ reported'[p] = With(reported[p], S, NoEntry)
      /\ \A q \in Parts \ {p} : reported'[q] = reported[q]
  <2>1. reported' = [reported EXCEPT ![p] = With(reported[p], S, NoEntry)]
    BY DEF NothingThere, Reports
  <2>. QED
    BY <2>1, ExceptPart DEF BooksInv
<1>2. UNCHANGED <<customs, files, leftover>>
  BY DEF NothingThere
<1>3. ASSUME NEW e \in S, <<p, e>> \notin leftover
      PROVE  At(files[p], e) = NoEntry /\ At(customs[p], e) = NoEntry
  BY <1>3 DEF At, BooksInv
<1>4. ASSUME NEW q \in Parts, NEW e \in DOMAIN reported'[q]
      PROVE  /\ <<q, e>> \in leftover' => reported'[q][e] \in {Unsure, NoEntry}
             /\ reported'[q][e] # Unsure /\ <<q, e>> \notin leftover' =>
                   At(files'[q], e) = reported'[q][e] /\ At(customs'[q], e) = reported'[q][e]
  <2>1. CASE q = p /\ e \in S
    <3>1. reported'[q][e] = NoEntry
      BY <1>1, <2>1, WithAt
    <3>. QED
      BY <1>2, <1>3, <2>1, <3>1
  <2>2. CASE ~(q = p /\ e \in S)
    <3>1. e \in DOMAIN reported[q] /\ reported'[q][e] = reported[q][e]
      BY <1>1, <1>4, <2>2, WithAt
    <3>. QED
      BY <1>2, <3>1 DEF BooksInv
  <2>. QED
    BY <2>1, <2>2
<1>. QED
  BY <1>1, <1>2, <1>4 DEF BooksInv

\* What Sets and KeepBar do to memory and files.
LEMMA Effect ==
    ASSUME BooksInv, NEW p \in Parts, NEW S, NEW F, NEW v,
           customs' = [customs EXCEPT ![p] = Changed(@, S, v)],
           Writes(p, S, F, v) \/ WriteFails(p, S, F)
    PROVE  /\ customs'[p] = Changed(customs[p], S, v)
           /\ \A q \in Parts \ {p} : customs'[q] = customs[q] /\ files'[q] = files[q]
<1>1. /\ customs'[p] = Changed(customs[p], S, v)
      /\ \A q \in Parts \ {p} : customs'[q] = customs[q]
  BY ExceptPart DEF BooksInv
<1>2. CASE Writes(p, S, F, v)
  <2>1. files' = [files EXCEPT ![p] = Filed(files[p], customs'[p], F)]
    BY <1>2 DEF Writes
  <2>2. /\ files'[p] = Filed(files[p], customs'[p], F)
        /\ \A q \in Parts \ {p} : files'[q] = files[q]
    BY <2>1, ExceptPart DEF BooksInv
  <2>. QED
    BY <1>1, <1>2, <2>2 DEF Writes
<1>3. CASE WriteFails(p, S, F)
  BY <1>1, <1>3 DEF WriteFails
<1>. QED
  BY <1>2, <1>3

\* A file that agreed with memory agrees again.
LEMMA FiledSame ==
    ASSUME NEW f, NEW S, NEW F, S \subseteq F, NEW v
    PROVE  Filed(f, Changed(f, S, v), F) = Changed(f, S, v)
<1>1. CASE v = NoEntry
  BY <1>1 DEF Filed, Changed, Restrict
<1>2. CASE v # NoEntry
  BY <1>2 DEF Filed, Changed, With
<1>. QED
  BY <1>1, <1>2

VarEntries == Scopes \X (VarNames \ SecretNames) \X Selectors

LEMMA CustomsSetsKeep ==
    ASSUME BooksInv, SameInv, NEW p \in Parts, NEW F, NEW S, S \subseteq F, NEW v,
           customs' = [customs EXCEPT ![p] = Changed(@, S, v)],
           Writes(p, S, F, v) \/ (WriteFails(p, S, F) /\ p # "bars"),
           p = "vars" /\ v # NoEntry => S \subseteq VarEntries,
           p = "bars" => v \in Bars \union {NoEntry}
    PROVE  BooksInv' /\ SameInv'
<1>1. BooksInv'
  BY WritesKeeps, WriteFailsKeeps
<1>2. /\ customs'[p] = Changed(customs[p], S, v)
      /\ \A q \in Parts \ {p} : customs'[q] = customs[q] /\ files'[q] = files[q]
      /\ \/ /\ files'[p] = Filed(files[p], customs'[p], F)
            /\ failed' = failed /\ leftover' \subseteq leftover
         \/ /\ files'[p] = files[p]
            /\ failed' /\ p # "bars"
  <2>1. Writes(p, S, F, v) \/ WriteFails(p, S, F)
    OBVIOUS
  <2>2. /\ customs'[p] = Changed(customs[p], S, v)
        /\ \A q \in Parts \ {p} : customs'[q] = customs[q] /\ files'[q] = files[q]
    BY <2>1, Effect
  <2>3. CASE Writes(p, S, F, v)
    <3>1. files' = [files EXCEPT ![p] = Filed(files[p], customs'[p], F)]
      BY <2>3 DEF Writes
    <3>2. files'[p] = Filed(files[p], customs'[p], F)
      BY <3>1, ExceptPart DEF BooksInv
    <3>. QED
      BY <2>2, <2>3, <3>2 DEF Writes
  <2>4. CASE WriteFails(p, S, F) /\ p # "bars"
    BY <2>2, <2>4 DEF WriteFails
  <2>. QED
    BY <2>2, <2>3, <2>4
<1>3. /\ \A e \in DOMAIN customs'.vars : e \in VarEntries
      /\ \A e \in DOMAIN files'.vars : e \in VarEntries
  <2>1. CASE p = "vars"
    <3>1. \A e \in DOMAIN customs'[p] : e \in VarEntries
      BY <1>2, <2>1, ChangedAt DEF SameInv, CustomsType, VarEntries
    <3>2. \A e \in DOMAIN files'[p] : e \in VarEntries
      BY <1>2, <2>1, <3>1, FileAt DEF SameInv, VarEntries
    <3>. QED
      BY <2>1, <3>1, <3>2
  <2>2. CASE p # "vars"
    <3>1. customs'["vars"] = customs["vars"] /\ files'["vars"] = files["vars"]
      BY <1>2, <2>2 DEF Parts
    <3>. QED
      BY <3>1 DEF SameInv, CustomsType, VarEntries
  <2>. QED
    BY <2>1, <2>2
<1>4. customs'.bars = files'.bars /\ customs'.bars \in [DOMAIN customs'.bars -> Bars]
  <2>1. CASE p = "bars"
    <3>1. customs[p] = files[p]
      BY <2>1 DEF SameInv
    <3>2. files'[p] = customs'[p]
      BY <1>2, <2>1, <3>1, FiledSame
    <3>3. customs[p] \in [DOMAIN customs[p] -> Bars]
      BY <2>1 DEF SameInv, CustomsType
    <3>4. Changed(customs[p], S, v) \in [DOMAIN Changed(customs[p], S, v) -> Bars]
      BY <2>1, <3>3 DEF Changed, With, Restrict
    <3>. QED
      BY <1>2, <2>1, <3>2, <3>4
  <2>2. CASE p # "bars"
    <3>1. customs'["bars"] = customs["bars"] /\ files'["bars"] = files["bars"]
      BY <1>2, <2>2 DEF Parts
    <3>. QED
      BY <3>1 DEF SameInv, CustomsType
  <2>. QED
    BY <2>1, <2>2
<1>5. ASSUME ~failed', NEW q \in {"folders", "snips"} PROVE customs'[q] = files'[q]
  <2>1. ~failed /\ files'[p] = Filed(files[p], customs'[p], F)
    BY <1>2, <1>5
  <2>2. customs["folders"] = files["folders"] /\ customs["snips"] = files["snips"]
    BY <2>1 DEF SameInv
  <2>3. customs[q] = files[q]
    BY <2>2
  <2>4. CASE q = p
    BY <1>2, <2>1, <2>3, <2>4, FiledSame
  <2>5. CASE q # p
    BY <1>2, <2>3, <2>5 DEF Parts
  <2>. QED
    BY <2>4, <2>5
<1>6. leftover' # {} => failed'
  BY <1>2 DEF SameInv, CustomsType
<1>7. ~failed' => customs'.folders = files'.folders /\ customs'.snips = files'.snips
  BY <1>5
<1>. QED
  BY <1>1, <1>3, <1>4, <1>6, <1>7 DEF SameInv, CustomsType, VarEntries

\* What is done to variables, bars and snippets in a step of Next.
CustomsStep ==
    \/ \E sc \in Scopes, name \in VarNames :
          \/ \E sel \in Selectors, text \in VarTexts : PutVar(sc, name, sel, text)
          \/ \E sels \in SUBSET Selectors : DeleteVar(sc, name, sels)
    \/ \E sc \in FolderScopes : (\E bar \in Bars : SaveBar(sc, bar)) \/ DeleteBar(sc)
    \/ \E f \in SnipFolders :
          (\E parent \in SnipFolders \union {""} : SaveSnipFolder(f, parent)) \/ DeleteSnipFolder(f)
    \/ \E s \in Snips :
          (\E f \in SnipFolders \union {""} : SaveSnippet(s, f)) \/ DeleteSnippet(s)
    \/ OpenCustoms
    \/ UNCHANGED customVars

\* What memory has of snippets is filed.
FiledInv ==
    failed \/ Range(customs.snips) \union Range(customs.folders) \subseteq {""} \union DOMAIN customs.folders

CustomsInv == BooksInv /\ SameInv /\ FiledInv

LEMMA CustomsSound == CustomsInv => CustomsType /\ CustomsKept /\ SnippetsFiled
<1>. SUFFICES ASSUME CustomsInv PROVE CustomsType /\ CustomsKept /\ SnippetsFiled
  OBVIOUS
<1>1. DOMAIN reported = Parts
  BY DEF CustomsInv, BooksInv
<1>2. CustomsKept
  BY <1>1 DEF CustomsInv, BooksInv, SameInv, CustomsKept
<1>3. SnippetsFiled
  BY DEF CustomsInv, FiledInv, SameInv, SnippetsFiled, Range
<1>. QED
  BY <1>2, <1>3 DEF CustomsInv, SameInv

LEMMA CustomsStart == CustomsInit => CustomsInv
<1>. SUFFICES ASSUME CustomsInit PROVE CustomsInv
  OBVIOUS
<1>1. /\ NoCustoms = [part \in Parts |-> NoCustoms[part]]
      /\ \A part \in Parts : NoCustoms[part] = Nothing
  BY DEF NoCustoms, Parts
<1>2. DOMAIN Nothing = {} /\ Nothing \in [DOMAIN Nothing -> Bars] /\ Range(Nothing) = {}
  BY DEF Nothing, Range
<1>3. BooksInv
  BY <1>1, <1>2 DEF CustomsInit, BooksInv
<1>4. NoCustoms.vars = Nothing /\ NoCustoms.bars = Nothing /\ NoCustoms.snips = Nothing /\ NoCustoms.folders = Nothing
  BY DEF NoCustoms
<1>5. SameInv /\ FiledInv
  BY <1>2, <1>4 DEF CustomsInit, SameInv, FiledInv, CustomsType
<1>. QED
  BY <1>3, <1>5 DEF CustomsInv

LEMMA SetsKeep ==
    ASSUME BooksInv, SameInv, NEW p \in Parts \ {"bars"}, NEW F, NEW S, S \subseteq F, NEW v,
           Sets(p, S, F, v), p = "vars" /\ v # NoEntry => S \subseteq VarEntries
    PROVE  BooksInv' /\ SameInv'
<1>1. /\ customs' = [customs EXCEPT ![p] = Changed(@, S, v)]
      /\ Writes(p, S, F, v) \/ WriteFails(p, S, F)
  BY DEF Sets
<1>. QED
  BY <1>1, CustomsSetsKeep

LEMMA NothingKeeps ==
    ASSUME CustomsInv, NEW p \in Parts, NEW S, S \intersect DOMAIN customs[p] = {}, NothingThere(p, S)
    PROVE  CustomsInv'
<1>1. BooksInv'
  BY NothingThereKeeps DEF CustomsInv
<1>2. UNCHANGED <<customs, files, leftover, failed>>
  BY DEF NothingThere
<1>. QED
  BY <1>1, <1>2 DEF CustomsInv, SameInv, CustomsType, FiledInv

\* What setting one part does to the snippets' filing.
LEMMA SetsFiles ==
    ASSUME BooksInv, NEW p \in Parts, NEW S, NEW F, NEW v,
           customs' = [customs EXCEPT ![p] = Changed(@, S, v)],
           Writes(p, S, F, v) \/ WriteFails(p, S, F)
    PROVE  /\ p # "folders" => customs'.folders = customs.folders
           /\ p # "snips" => customs'.snips = customs.snips
           /\ p = "folders" => customs'.folders = Changed(customs.folders, S, v)
           /\ p = "snips" => customs'.snips = Changed(customs.snips, S, v)
           /\ failed => failed'
<1>1. /\ customs'[p] = Changed(customs[p], S, v)
      /\ \A q \in Parts \ {p} : customs'[q] = customs[q]
  BY ExceptPart DEF BooksInv
<1>2. failed => failed'
  BY DEF Writes, WriteFails
<1>. QED
  BY <1>1, <1>2 DEF Parts

LEMMA VarsKeep ==
    ASSUME CustomsInv, NEW sc \in Scopes, NEW name \in VarNames,
           \/ \E sel \in Selectors, text \in VarTexts : PutVar(sc, name, sel, text)
           \/ \E sels \in SUBSET Selectors : DeleteVar(sc, name, sels)
    PROVE  CustomsInv'
<1>1. ASSUME NEW S, S \subseteq ScopeEntries(sc), NEW v, Sets("vars", S, ScopeEntries(sc), v),
             v # NoEntry => S \subseteq VarEntries
      PROVE  CustomsInv'
  <2>1. BooksInv' /\ SameInv'
    <3> DEFINE F == ScopeEntries(sc)
    <3>. HIDE DEF F
    <3>1. S \subseteq F /\ Sets("vars", S, F, v) /\ "vars" \in Parts \ {"bars"}
      BY <1>1 DEF F, Parts
    <3>. QED
      BY <1>1, <3>1, SetsKeep DEF CustomsInv
  <2>2. customs'.folders = customs.folders /\ customs'.snips = customs.snips /\ (failed => failed')
    BY <1>1, SetsFiles DEF Sets, CustomsInv, Parts
  <2>. QED
    BY <2>1, <2>2 DEF CustomsInv, FiledInv
<1>2. ASSUME NEW sel \in Selectors, NEW text \in VarTexts, PutVar(sc, name, sel, text)
      PROVE  CustomsInv'
  <2> DEFINE S == {<<sc, name, sel>>}
  <2>1. S \subseteq ScopeEntries(sc) /\ Sets("vars", S, ScopeEntries(sc), text) /\ S \subseteq VarEntries
    BY <1>2 DEF PutVar, ScopeEntries, VarEntries
  <2>. HIDE DEF S
  <2>. QED
    BY <1>1, <2>1
<1>3. ASSUME NEW sels \in SUBSET Selectors, DeleteVar(sc, name, sels)
      PROVE  CustomsInv'
  <2> DEFINE S == {sc} \X {name} \X sels
  <2>1. S \subseteq ScopeEntries(sc) /\ S \subseteq {sc} \X {name} \X Selectors
    BY DEF ScopeEntries
  <2>2. \/ /\ ({sc} \X {name} \X Selectors) \intersect DOMAIN customs.vars = {}
           /\ NothingThere("vars", S)
        \/ Sets("vars", S, ScopeEntries(sc), NoEntry)
    BY <1>3 DEF DeleteVar
  <2>. HIDE DEF S
  <2>3. CASE NothingThere("vars", S) /\ ({sc} \X {name} \X Selectors) \intersect DOMAIN customs.vars = {}
    <3>1. S \intersect DOMAIN customs["vars"] = {} /\ "vars" \in Parts
      BY <2>1, <2>3 DEF Parts
    <3>. QED
      BY <2>3, <3>1, NothingKeeps
  <2>4. CASE Sets("vars", S, ScopeEntries(sc), NoEntry)
    BY <1>1, <2>1, <2>4
  <2>. QED
    BY <2>2, <2>3, <2>4
<1>. QED
  BY <1>2, <1>3

LEMMA BarsKeep ==
    ASSUME CustomsInv, NEW sc, NEW bar \in Bars \union {NoEntry}, KeepBar(sc, bar)
    PROVE  CustomsInv'
<1>1. /\ customs' = [customs EXCEPT !["bars"] = Changed(@, {sc}, bar)]
      /\ Writes("bars", {sc}, {sc}, bar)
  BY DEF KeepBar
<1>2. "bars" \in Parts
  BY DEF Parts
<1>3. BooksInv' /\ SameInv'
  BY <1>1, <1>2, CustomsSetsKeep DEF CustomsInv
<1>4. customs'.folders = customs.folders /\ customs'.snips = customs.snips /\ (failed => failed')
  BY <1>1, <1>2, SetsFiles DEF CustomsInv
<1>. QED
  BY <1>3, <1>4 DEF CustomsInv, FiledInv

LEMMA SnippetFoldersKeep ==
    ASSUME CustomsInv, NEW f \in SnipFolders,
           (\E parent \in SnipFolders \union {""} : SaveSnipFolder(f, parent)) \/ DeleteSnipFolder(f)
    PROVE  CustomsInv'
<1>1. ASSUME NEW v, Sets("folders", {f}, SnipFolders, v) PROVE BooksInv' /\ SameInv'
  <2>1. {f} \subseteq SnipFolders /\ "folders" \in Parts \ {"bars"}
    BY DEF Parts
  <2>. QED
    BY <1>1, <2>1, SetsKeep DEF CustomsInv
<1>2. ASSUME NEW v, Sets("folders", {f}, SnipFolders, v)
      PROVE  /\ customs'.folders = Changed(customs.folders, {f}, v)
             /\ customs'.snips = customs.snips /\ (failed => failed')
  BY <1>2, SetsFiles DEF Sets, CustomsInv, Parts
<1>3. ASSUME NEW parent \in SnipFolders \union {""}, SaveSnipFolder(f, parent) PROVE CustomsInv'
  <2>1. Sets("folders", {f}, SnipFolders, parent) /\ parent \in {"", f} \union DOMAIN customs.folders
    BY <1>3 DEF SaveSnipFolder
  <2>2. parent # NoEntry
    BY CustomsAssumption
  <2>3. customs'.folders = With(customs.folders, {f}, parent)
    BY <1>2, <2>1, <2>2 DEF Changed
  <2>4. /\ DOMAIN customs'.folders = DOMAIN customs.folders \union {f}
        /\ Range(customs'.folders) \subseteq Range(customs.folders) \union {parent}
    BY <2>3 DEF With, Range
  <2>5. BooksInv' /\ SameInv' /\ customs'.snips = customs.snips /\ (failed => failed')
    BY <1>1, <1>2, <2>1
  <2>6. FiledInv'
    BY <2>1, <2>4, <2>5 DEF FiledInv, CustomsInv
  <2>. QED
    BY <2>5, <2>6 DEF CustomsInv
<1>4. CASE DeleteSnipFolder(f)
  <2>1. CASE f \notin DOMAIN customs.folders
    <3>1. {f} \intersect DOMAIN customs["folders"] = {} /\ "folders" \in Parts
      BY <2>1 DEF Parts
    <3>2. NothingThere("folders", {f})
      BY <1>4, <2>1 DEF DeleteSnipFolder
    <3>. QED
      BY <3>1, <3>2, NothingKeeps
  <2>2. CASE f \in DOMAIN customs.folders
    <3>1. Sets("folders", {f}, SnipFolders, NoEntry) /\ ~Holds(f)
      BY <1>4, <2>2 DEF DeleteSnipFolder
    <3>2. customs'.folders = Restrict(customs.folders, DOMAIN customs.folders \ {f})
      BY <1>2, <3>1 DEF Changed
    <3>3. /\ DOMAIN customs'.folders = DOMAIN customs.folders \ {f}
          /\ Range(customs'.folders) \subseteq Range(customs.folders)
      BY <3>2 DEF Restrict, Range
    <3>4. BooksInv' /\ SameInv' /\ customs'.snips = customs.snips /\ (failed => failed')
      BY <1>1, <1>2, <3>1
    <3>5. FiledInv'
      BY <3>1, <3>3, <3>4 DEF FiledInv, CustomsInv, Holds
    <3>. QED
      BY <3>4, <3>5 DEF CustomsInv
  <2>. QED
    BY <2>1, <2>2
<1>. QED
  BY <1>3, <1>4

LEMMA SnippetsKeep ==
    ASSUME CustomsInv, NEW s \in Snips,
           (\E f \in SnipFolders \union {""} : SaveSnippet(s, f)) \/ DeleteSnippet(s)
    PROVE  CustomsInv'
<1>1. ASSUME NEW v, Sets("snips", {s}, {s}, v) PROVE BooksInv' /\ SameInv'
  <2>1. {s} \subseteq {s} /\ "snips" \in Parts \ {"bars"}
    BY DEF Parts
  <2>. QED
    BY <1>1, <2>1, SetsKeep DEF CustomsInv
<1>2. ASSUME NEW v, Sets("snips", {s}, {s}, v)
      PROVE  /\ customs'.snips = Changed(customs.snips, {s}, v)
             /\ customs'.folders = customs.folders /\ (failed => failed')
  BY <1>2, SetsFiles DEF Sets, CustomsInv, Parts
<1>3. ASSUME NEW f \in SnipFolders \union {""}, SaveSnippet(s, f) PROVE CustomsInv'
  <2>1. Sets("snips", {s}, {s}, f) /\ f \in {""} \union DOMAIN customs.folders
    BY <1>3 DEF SaveSnippet
  <2>2. f # NoEntry
    BY CustomsAssumption
  <2>3. customs'.snips = With(customs.snips, {s}, f)
    BY <1>2, <2>1, <2>2 DEF Changed
  <2>4. Range(customs'.snips) \subseteq Range(customs.snips) \union {f}
    BY <2>3 DEF With, Range
  <2>5. BooksInv' /\ SameInv' /\ customs'.folders = customs.folders /\ (failed => failed')
    BY <1>1, <1>2, <2>1
  <2>6. FiledInv'
    BY <2>1, <2>4, <2>5 DEF FiledInv, CustomsInv
  <2>. QED
    BY <2>5, <2>6 DEF CustomsInv
<1>4. CASE DeleteSnippet(s)
  <2>1. CASE s \notin DOMAIN customs.snips
    <3>1. {s} \intersect DOMAIN customs["snips"] = {} /\ "snips" \in Parts
      BY <2>1 DEF Parts
    <3>2. NothingThere("snips", {s})
      BY <1>4, <2>1 DEF DeleteSnippet
    <3>. QED
      BY <3>1, <3>2, NothingKeeps
  <2>2. CASE s \in DOMAIN customs.snips
    <3>1. Sets("snips", {s}, {s}, NoEntry)
      BY <1>4, <2>2 DEF DeleteSnippet
    <3>2. customs'.snips = Restrict(customs.snips, DOMAIN customs.snips \ {s})
      BY <1>2, <3>1 DEF Changed
    <3>3. Range(customs'.snips) \subseteq Range(customs.snips)
      BY <3>2 DEF Restrict, Range
    <3>4. BooksInv' /\ SameInv' /\ customs'.folders = customs.folders /\ (failed => failed')
      BY <1>1, <1>2, <3>1
    <3>5. FiledInv'
      BY <3>3, <3>4 DEF FiledInv, CustomsInv
    <3>. QED
      BY <3>4, <3>5 DEF CustomsInv
  <2>. QED
    BY <2>1, <2>2
<1>. QED
  BY <1>3, <1>4

LEMMA CustomsStepKeeps == CustomsInv /\ CustomsStep => CustomsInv'
<1>. SUFFICES ASSUME CustomsInv, CustomsStep PROVE CustomsInv'
  OBVIOUS
<1>1. CASE OpenCustoms
  <2>1. customs' = files /\ UNCHANGED <<files, reported, leftover, failed>>
    BY <1>1 DEF OpenCustoms
  <2>2. BooksInv'
    BY <2>1 DEF CustomsInv, BooksInv
  <2>3. SameInv' /\ FiledInv'
    BY <2>1 DEF CustomsInv, SameInv, FiledInv, CustomsType
  <2>. QED
    BY <2>2, <2>3 DEF CustomsInv
<1>2. CASE UNCHANGED customVars
  BY <1>2 DEF customVars, CustomsInv, BooksInv, SameInv, FiledInv, CustomsType
<1>3. ASSUME NEW sc \in FolderScopes, (\E bar \in Bars : SaveBar(sc, bar)) \/ DeleteBar(sc)
      PROVE  CustomsInv'
  BY <1>3, BarsKeep DEF SaveBar, DeleteBar
<1>. QED
  BY <1>1, <1>2, <1>3, VarsKeep, SnippetFoldersKeep, SnippetsKeep DEF CustomsStep

-----------------------------------------------------------------------------
(* What a session takes from its scopes: induction along a chain *)

LEMMA Least ==
    ASSUME NEW T, T \subseteq Nat, T # {}
    PROVE  \E x \in T : \A y \in T : x <= y
<1>1. PICK x \in T : \A y \in T : <<y, x>> \notin OpToRel(<, Nat)
  BY NatLessThanWellFounded, WFMin
<1>2. \A y \in T : ~(y < x)
  BY <1>1 DEF OpToRel
<1>. QED
  BY <1>2

LEMMA Induct ==
    ASSUME NEW T, 0 \in T, \A n \in Nat : n \in T => n + 1 \in T
    PROVE  Nat \subseteq T
<1>1. CASE Nat \ T # {}
  <2>1. PICK x \in Nat \ T : \A y \in Nat \ T : x <= y
    BY <1>1, Least
  <2>2. x - 1 \in Nat /\ x - 1 \in T
    BY <2>1
  <2>. QED
    BY <2>1, <2>2
<1>. QED
  BY <1>1

LEMMA HasMax ==
    ASSUME NEW n \in Nat, NEW s, s \subseteq 1..n, s # {}
    PROVE  Max(s) \in s /\ \A y \in s : y <= Max(s)
<1> DEFINE T == {n - l : l \in s}
<1>1. T \subseteq Nat /\ T # {}
  <2>1. \A l \in s : n - l \in Nat
    OBVIOUS
  <2>. QED
    BY <2>1
<1>2. PICK x \in T : \A y \in T : x <= y
  BY <1>1, Least
<1>3. PICK l \in s : x = n - l
  BY <1>2
<1>4. \A m \in s : n - l <= n - m
  BY <1>2, <1>3
<1>5. \A m \in s : l >= m
  BY <1>3, <1>4
<1>6. Max(s) \in s /\ \A y \in s : Max(s) >= y
  BY <1>3, <1>5, Zenon DEF Max
<1>. QED
  BY <1>6

\* Overlaying scope after scope gives the innermost one that has a value.
LEMMA InnermostIs ==
    ASSUME NEW C, NEW chain \in Seq(C), NEW name, NEW family
    PROVE  InnermostWins(chain, name, family)
<1> DEFINE n == Len(chain)
           S == 1..n
           Val(i) == SelectOS(chain[i], name, family)
           Over(v, i) == IF Val(i) = NoEntry THEN v ELSE Val(i)
           Those(s) == {i \in s : Val(i) # NoEntry}
           Inner(s) == IF Those(s) = {} THEN NoEntry ELSE Val(Max(Those(s)))
           D(g) == g = [s \in SUBSET S |-> IF s = {} THEN NoEntry ELSE Over(g[s \ {Max(s)}], Max(s))]
           h == [s \in SUBSET S |-> Inner(s)]
           c == CHOOSE g : D(g)
<1>1. n \in Nat /\ DOMAIN chain = S
  OBVIOUS
<1>2. Overlay(chain, name, family) = c[S]
  BY <1>1 DEF Overlay, FoldLeft, MapThenFoldSet
<1>. HIDE DEF n, Val
<1>3. D(h)
  <2>1. SUFFICES ASSUME NEW s \in SUBSET S
                 PROVE  h[s] = IF s = {} THEN NoEntry ELSE Over(h[s \ {Max(s)}], Max(s))
    BY Zenon
  <2>2. CASE s = {}
    BY <2>2
  <2>3. CASE s # {}
    <3> DEFINE x == Max(s)
               t == s \ {x}
    <3>1. x \in s /\ \A y \in s : y <= x
      BY <1>1, <2>3, HasMax
    <3>2. t \in SUBSET S
      OBVIOUS
    <3>. HIDE DEF x
    <3>3. Inner(s) = Over(Inner(t), x)
      <4>1. CASE Val(x) = NoEntry
        <5>1. Those(s) = Those(t)
          BY <4>1
        <5>. QED
          BY <4>1, <5>1
      <4>2. CASE Val(x) # NoEntry
        <5>1. x \in Those(s) /\ \A y \in Those(s) : y <= x
          BY <3>1, <4>2
        <5>2. Max(Those(s)) \in Those(s) /\ \A y \in Those(s) : y <= Max(Those(s))
          <6>. HIDE DEF Those
          <6>1. Those(s) \subseteq 1..n /\ Those(s) # {}
            BY <5>1 DEF Those
          <6>. QED
            BY <1>1, <6>1, HasMax
        <5>3. x <= Max(Those(s)) /\ Max(Those(s)) <= x
          BY <5>1, <5>2
        <5>4. Max(Those(s)) \in S /\ x \in S
          BY <3>1, <5>2
        <5>5. Max(Those(s)) = x
          <6> DEFINE y == Max(Those(s))
          <6>. HIDE DEF y, Those
          <6>1. x <= y /\ y <= x /\ x \in Int /\ y \in Int
            BY <1>1, <5>3, <5>4 DEF y
          <6>2. x = y
            BY <6>1
          <6>. QED
            BY <6>2 DEF y
        <5>. QED
          BY <4>2, <5>1, <5>5
      <4>. QED
        BY <4>1, <4>2
    <3>. HIDE DEF Inner, t
    <3>4. h[s] = Inner(s) /\ h[t] = Inner(t)
      BY <3>2
    <3>5. h[s] = Over(h[t], x)
      BY <3>3, <3>4
    <3>. QED
      BY <2>3, <3>5 DEF x, t
  <2>. QED
    BY <2>2, <2>3
<1>4. D(c)
  <2>. HIDE DEF D, h
  <2>. QED
    BY <1>3
<1>. HIDE DEF c, h
<1>5. ASSUME NEW k \in Nat, k + 1 <= n
      PROVE  /\ 1..k + 1 \in SUBSET S /\ 1..k + 1 # {}
             /\ Max(1..k + 1) = k + 1 /\ (1..k + 1) \ {Max(1..k + 1)} = 1..k
             /\ 1..k \in SUBSET S
  <2> DEFINE s == 1..k + 1
  <2>1. s \in SUBSET S /\ s # {} /\ 1..k \in SUBSET S /\ k + 1 \in s
    BY <1>1, <1>5
  <2>2. Max(s) \in s /\ k + 1 <= Max(s)
    <3>. HIDE DEF s
    <3>. QED
      BY <1>1, <2>1, HasMax
  <2>3. Max(s) = k + 1
    BY <2>2
  <2>. QED
    BY <2>1, <2>3
<1> DEFINE G == {k \in Nat : k <= n => c[1..k] = h[1..k]}
<1>6. 0 \in G
  <2>1. 1..0 = {} /\ {} \in SUBSET S
    OBVIOUS
  <2>2. c[{}] = h[{}]
    BY <1>3, <1>4, <2>1
  <2>. QED
    BY <2>1, <2>2
<1>7. ASSUME NEW k \in Nat, k \in G PROVE k + 1 \in G
  <2>1. SUFFICES ASSUME k + 1 <= n PROVE c[1..k + 1] = h[1..k + 1]
    OBVIOUS
  <2>2. c[1..k] = h[1..k]
    BY <1>1, <1>7, <2>1
  <2> DEFINE s == 1..k + 1
             t == 1..k
  <2>3. s \in SUBSET S /\ s # {} /\ Max(s) = k + 1 /\ s \ {Max(s)} = t
    BY <1>5, <2>1
  <2>. HIDE DEF s, t, S, Over
  <2>4. c[s] = Over(c[s \ {Max(s)}], Max(s)) /\ h[s] = Over(h[s \ {Max(s)}], Max(s))
    BY <1>3, <1>4, <2>3, Zenon
  <2>5. c[t] = h[t]
    BY <2>2 DEF t
  <2>6. c[s] = h[s]
    BY <2>3, <2>4, <2>5
  <2>. QED
    BY <2>6 DEF s
<1>8. c[S] = h[S]
  <2>1. n \in G
    <3>. HIDE DEF G
    <3>. QED
      BY <1>1, <1>6, <1>7, Induct
  <2>. QED
    BY <1>1, <2>1
<1>9. h[S] = Inner(S)
  BY DEF h
<1>10. {i \in DOMAIN chain : SelectOS(chain[i], name, family) # NoEntry} = Those(S)
  BY <1>1 DEF Val
<1>. QED
  BY <1>1, <1>2, <1>8, <1>9, <1>10 DEF InnermostWins, Val

LEMMA SessionsResolve == SessionResolves
<1>1. ASSUME NEW id \in DOMAIN sess, NEW family, NEW name
      PROVE  InnermostWins(VarChain(id), name, family)
  <2> DEFINE X == {<<"folder", Source>>, <<"folder", sess[id].folder>>, <<"global", 0>>, <<"session", id>>}
  <2>1. FolderScopesOf(id) \in Seq(X)
    <3>1. CASE sess[id].folder = Source
      BY <3>1 DEF FolderScopesOf, FolderChain
    <3>2. CASE sess[id].folder # Source
      BY <3>2 DEF FolderScopesOf, FolderChain
    <3>. QED
      BY <3>1, <3>2
  <2>2. << <<"global", 0>> >> \in Seq(X) /\ << <<"session", id>> >> \in Seq(X)
    OBVIOUS
  <2>3. VarChain(id) \in Seq(X)
    <3>. HIDE DEF X
    <3>. QED
      BY <2>1, <2>2 DEF VarChain
  <2>. QED
    BY <2>3, InnermostIs
<1>2. ASSUME NEW id, NEW family
      PROVE  BarForSession(id, family) \intersect (Selectors \ {"all"}) \subseteq
                {IF family = Undetected THEN "unknown" ELSE family}
  BY DEF BarForSession, FilterOS
<1>. QED
  BY <1>1, <1>2 DEF SessionResolves

-----------------------------------------------------------------------------
(* The settings together *)

\* While a source is being cleared its secret is gone from memory.
ClearInv == Has("clear") => vault.items[Source] = Unset

SettingsInv == SecretsInv /\ CustomsInv /\ ClearInv

LEMMA ClearKeeps == SecretsInv /\ ClearInv /\ [Next]_vars => ClearInv'
<1>. SUFFICES ASSUME SecretsInv, ClearInv, [Next]_vars PROVE ClearInv'
  OBVIOUS
<1>1. CASE \/ \E r \in Refreshes : Refresh(r)
           \/ CustomEdit
           \/ UNCHANGED vars
  <2>1. usr' = usr /\ vault' = vault
    <3>1. ASSUME NEW r \in Refreshes, Refresh(r) PROVE usr' = usr /\ vault' = vault
      BY <3>1 DEF Refresh, Steps, Begin, Register, FetchFails, Fetched, Snapshot, Place, FindFolder,
         MakeLeaf, PutRecord, RemoveStale, LookToPrune, Prune, Unregister, secretVars
    <3>. QED
      BY <1>1, <3>1 DEF CustomEdit, vars, secretVars
  <2>. QED
    BY <2>1 DEF ClearInv, Has
<1>2. CASE Edits /\ UNCHANGED secretVars
  <2>1. vault' = vault
    BY <1>2 DEF secretVars
  <2>2. usr' = usr \/ ~Has("clear")'
    <3>1. ASSUME NEW id, ReadSession(id) PROVE ~Has("clear")'
      <4>1. usr'.op = "session"
        BY <3>1 DEF ReadSession
      <4>. QED
        BY <4>1 DEF Has
    <3>2. ASSUME NEW s, WriteSession(s) PROVE ~Has("clear")'
      BY <3>2 DEF WriteSession, Has
    <3>3. ASSUME NEW name, Rename(name) \/ Duplicate(name) \/ SetJumpChain
          PROVE  ~Has("clear")'
      <4>1. Duplicate(name) => usr' = None
        BY DEF Duplicate
      <4>. QED
        BY <3>2, <3>3, <4>1 DEF Rename, SetJumpChain, Has
    <3>4. ASSUME NEW id, NEW name, NEW k, NEW path,
                 CancelRefresh \/ CreateSession(name, k) \/ DeleteSession(id) \/ CreateFolder(path)
          PROVE  usr' = usr
      BY <3>4 DEF CancelRefresh, CreateSession, DeleteSession, CreateFolder
    <3>5. ASSUME NEW id, DeleteFolder(id) PROVE usr' = usr
      BY <3>5 DEF DeleteFolder
    <3>. QED
      BY <1>2, <3>1, <3>3, <3>4, <3>5 DEF Edits
  <2>. QED
    BY <2>1, <2>2 DEF ClearInv, Has
<1>3. CASE Sources
  <2>1. CASE ClearSecret
    <3>1. vault' = [vault EXCEPT !.items[Source] = Unset]
      BY <2>1 DEF ClearSecret, DeleteSecret
    <3>2. vault'.items[Source] = Unset
      BY <3>1, LibraryAssumption DEF SecretsInv, SealedUnder, Source
    <3>. QED
      BY <3>2 DEF ClearInv
  <2>2. CASE ~ClearSecret
    <3>1. ~Has("clear")'
      BY <1>3, <2>2 DEF Sources, Passphrase, StoreSecret, KeepSecret, SetSource, ClearSource,
         OtherSecret, SettingOp, Has
    <3>. QED
      BY <3>1 DEF ClearInv
  <2>. QED
    BY <2>1, <2>2
<1>4. CASE Restart
  BY <1>4 DEF Restart, ClearInv, Has
<1>. QED
  BY <1>1, <1>2, <1>3, <1>4 DEF Next

LEMMA NextSecrets == SecretsInv /\ ClearInv /\ [Next]_vars => SecretsStep
<1>. SUFFICES ASSUME SecretsInv, ClearInv, [Next]_vars PROVE SecretsStep
  OBVIOUS
<1>1. Source \in Items /\ OtherSource \in Items
  BY LibraryAssumption DEF Source, OtherSource
<1>2. CASE Sources
  <2>1. CASE \E p \in Phrases : Passphrase(p)
    BY <2>1 DEF Passphrase, SecretsStep
  <2>2. CASE \E v \in Values : StoreSecret(v)
    BY <1>1, <2>2 DEF StoreSecret, SecretsStep
  <2>3. CASE KeepSecret \/ SetSource
    BY <2>3 DEF KeepSecret, SetSource, SecretsStep
  <2>6. CASE ClearSource
    <3>1. /\ vault.items[Source] = Unset
          /\ told' = Says(Source, Unset) /\ UNCHANGED <<vault, key, vaultFile, undeleted>>
      BY <2>6 DEF ClearSource, ClearInv
    <3>2. vault = [vault EXCEPT !.items[Source] = Unset]
      <4> DEFINE f == vault.items
                 p == vault.phrase
      <4>1. vault = [phrase |-> p, items |-> f] /\ f[Source] = Unset /\ f = [i \in Items |-> f[i]]
        BY <3>1 DEF SecretsInv, SealedUnder
      <4>. HIDE DEF f, p
      <4>2. [f EXCEPT ![Source] = Unset] = f
        BY <4>1
      <4>. QED
        BY <4>1, <4>2
    <3>3. DeleteSecret(Source, Unset)
      BY <3>1, <3>2 DEF DeleteSecret
    <3>. QED
      BY <1>1, <3>3 DEF SecretsStep
  <2>4. CASE ClearSecret
    BY <1>1, <2>4 DEF ClearSecret, SecretsStep
  <2>5. CASE OtherSecret
    BY <1>1, <2>5 DEF OtherSecret, SecretsStep
  <2>. QED
    BY <1>2, <2>1, <2>2, <2>3, <2>4, <2>5, <2>6 DEF Sources
<1>3. CASE Restart
  BY <1>3 DEF Restart, SecretsStep
<1>4. CASE UNCHANGED secretVars
  BY <1>4 DEF SecretsStep
<1>5. CASE CustomEdit
  BY <1>5 DEF CustomEdit, SecretsStep
<1>. QED
  BY <1>2, <1>3, <1>4, <1>5 DEF Next, Refresh, vars

LEMMA NextCustoms == [Next]_vars => CustomsStep
<1>. SUFFICES ASSUME [Next]_vars PROVE CustomsStep
  OBVIOUS
<1>1. CASE CustomEdit
  <2>1. CASE VarEdit
    <3>1. PICK sc \in Scopes, name \in VarNames :
             \/ \E sel \in Selectors, text \in VarTexts : PutVar(sc, name, sel, text)
             \/ \E sels \in {{sel} : sel \in Selectors} \union {Selectors} : DeleteVar(sc, name, sels)
      BY <2>1 DEF VarEdit
    <3>2. {{sel} : sel \in Selectors} \union {Selectors} \subseteq SUBSET Selectors
      OBVIOUS
    <3>. QED
      BY <3>1, <3>2 DEF CustomsStep
  <2>2. CASE BarEdit
    BY <2>2 DEF BarEdit, CustomsStep
  <2>3. CASE SnippetEdit
    BY <2>3 DEF SnippetEdit, CustomsStep
  <2>. QED
    BY <1>1, <2>1, <2>2, <2>3 DEF CustomEdit
<1>2. CASE Restart
  BY <1>2 DEF Restart, CustomsStep
<1>3. CASE UNCHANGED customVars
  BY <1>3 DEF CustomsStep
<1>. QED
  BY <1>1, <1>2, <1>3 DEF Next, Refresh, vars

LEMMA SettingsStart == Init => SettingsInv
BY SecretsStart, CustomsStart DEF Init, SettingsInv, ClearInv, Has

LEMMA SettingsKeep == SettingsInv /\ [Next]_vars => SettingsInv'
BY NextSecrets, NextCustoms, SecretsStepKeeps, CustomsStepKeeps, ClearKeeps DEF SettingsInv

\* What the user was told of secrets, variables, bars and snippets holds whatever fails and
\* whenever the program restarts, but for a deletion that was not saved, after which the
\* user may be told that the entry is gone while the file has it (SecretsKept, CustomsKept);
\* and a session resolves from its scopes, inside out.
THEOREM SettingsHold == Spec => []SettingsSound
<1>1. SettingsInv => SettingsSound
  BY SecretsSound, CustomsSound, SessionsResolve DEF SettingsInv, SettingsSound
<1>. QED
  BY <1>1, SettingsStart, SettingsKeep, PTL DEF Spec

-----------------------------------------------------------------------------
(* The tree, and what refreshes and the user remember of it *)

Rec == [key : Keys, name : Names, path : Paths]
Labels == {"idle", "register", "fetch", "snapshot", "place", "find", "make", "refind", "put",
           "remove", "prune", "reconciled", "unregister", "done"}

\* Where the refreshes are, and what they have fetched.
PcInv ==
    /\ scene \in DOMAIN Scenes
    /\ edits \in Nat
    /\ pc \in [Refreshes -> Labels]
    /\ recs \in [Refreshes -> Seq(Rec)]
    /\ at \in [Refreshes -> Nat]
    /\ cancels \in Refreshes \union {None}
    /\ cancels # None => pc[cancels] \notin {"idle", "register", "done"}
    /\ \A r \in Refreshes :
          /\ at[r] # 0
          /\ pc[r] \in {"idle", "register", "fetch"} => recs[r] = <<>>
          /\ pc[r] \in {"find", "make", "refind", "put"} => at[r] <= Len(recs[r])

Root == [path |-> "", owned |-> FALSE]

FoldersInv ==
    /\ nextFolder \in Nat \ {0}
    /\ \A f \in DOMAIN folders :
          /\ f \in 0..MaxFolders /\ f < nextFolder
          /\ folders[f] \in [path : Paths, owned : BOOLEAN]
    /\ Source \in DOMAIN folders => folders[Source] = Root

SessInv ==
    /\ nextId \in 0..MaxIds
    /\ \A id \in DOMAIN sess :
          /\ id \in 0..MaxIds - 1 /\ id < nextId
          /\ sess[id] \in SessionType
          /\ sess[id].folder \in DOMAIN folders
    /\ \A id, other \in DOMAIN sess :
          id # other /\ sess[id].folder = sess[other].folder => sess[id].name # sess[other].name

\* A session of the snapshots is generated, and keeps its key: all that remember it, and
\* the store when it has it, agree.
SnapshotInv ==
    /\ DOMAIN old = Refreshes
    /\ \A r \in Refreshes : \A k \in DOMAIN old[r] :
          /\ old[r][k].id \in 0..MaxIds - 1 /\ old[r][k].id < nextId
          /\ old[r][k].was \in SessionType /\ old[r][k].was.key = k /\ old[r][k].was.gen
          /\ old[r][k].id \in DOMAIN sess =>
                sess[old[r][k].id].gen /\ sess[old[r][k].id].key = k
    /\ \A r, q \in Refreshes : \A k \in DOMAIN old[r], l \in DOMAIN old[q] :
          old[r][k].id = old[q][l].id => k = l

\* So does the user who is about to put a session back.
UserInv ==
    Has("session") =>
        /\ usr.id \in 0..MaxIds - 1 /\ usr.id < nextId /\ usr.was \in SessionType
        /\ usr.id \in DOMAIN sess => sess[usr.id].gen = usr.was.gen /\ sess[usr.id].key = usr.was.key
        /\ \A r \in Refreshes : \A k \in DOMAIN old[r] :
              old[r][k].id = usr.id => usr.was.gen /\ usr.was.key = k

\* A folder about to be pruned is of a refresh's making.
DoomedInv ==
    /\ DOMAIN doomed = Refreshes
    /\ \A r \in Refreshes : \A f \in doomed[r] :
          /\ f < nextFolder /\ f \in Nat
          /\ f \in DOMAIN folders => folders[f].owned

TreeInv == FoldersInv /\ SessInv /\ SnapshotInv /\ UserInv /\ DoomedInv

Placing == {"place", "find", "make", "refind", "put"}

\* What a refresh has reached that nobody disturbed.
WorkInv(r) ==
    /\ \A k \in DOMAIN old[r] : old[r][k].id \in DOMAIN sess
    /\ \A id \in OfSource \ twins[r] :
          \/ sess[id].key \in DOMAIN old[r] /\ old[r][sess[id].key].id = id
          \/ \E i \in DOMAIN recs[r] : recs[r][i].key = sess[id].key
    /\ KeysOnce(recs[r]) => \A i \in DOMAIN recs[r] \ skipped[r] : i < at[r] => Placed(r, i)
    /\ pc[r] \in Placing =>
          /\ \A p \in DOMAIN cache[r] : cache[r][p] \in DOMAIN folders /\ folders[cache[r][p]].path = p
          /\ \A id \in OfSource :
                \/ sess[id].key \in DOMAIN old[r]
                \/ \E i \in DOMAIN recs[r] : i < at[r] /\ recs[r][i].key = sess[id].key
    /\ pc[r] = "put" => Record(r).path \in DOMAIN cache[r]
    /\ pc[r] \notin Placing => at[r] > Len(recs[r])
    /\ pc[r] \in {"prune", "reconciled"} => Stale(r) = {}
    /\ pc[r] = "reconciled" => \A f \in DOMAIN folders : folders[f].owned => ~FolderFree(f)

WorksInv == \A r \in Working \ disturbed : WorkInv(r)

Alone ==
    /\ disturbed = {} /\ ~revived
    /\ \A r \in Refreshes : KeysOnce(recs[r])

OneInv == Alone => \A id, other \in OfSource : sess[id].key = sess[other].key => id = other

-----------------------------------------------------------------------------
(* PcInv is inductive *)

LEMMA SceneTyped == PcInv => Scene \in SceneType
<1>. SUFFICES ASSUME PcInv PROVE Scene \in SceneType
  OBVIOUS
<1>1. Scenes \in Seq(SceneType) /\ scene \in DOMAIN Scenes
  BY LibraryAssumption DEF PcInv
<1>. QED
  BY <1>1 DEF Scene

LEMMA PcStart == Init => PcInv
<1>. SUFFICES ASSUME Init PROVE PcInv
  OBVIOUS
<1>1. <<>> \in Seq(Rec)
  OBVIOUS
<1>2. /\ recs \in [Refreshes -> Seq(Rec)] /\ at \in [Refreshes -> Nat]
      /\ pc \in [Refreshes -> Labels]
  <2>1. /\ recs = [r \in Refreshes |-> <<>>] /\ at = [r \in Refreshes |-> 1]
        /\ pc = [r \in Refreshes |-> "idle"]
    BY DEF Init
  <2>. QED
    BY <1>1, <2>1 DEF Labels
<1>3. \A r \in Refreshes : pc[r] = "idle" /\ recs[r] = <<>> /\ at[r] # 0
  <2>1. /\ recs = [r \in Refreshes |-> <<>>] /\ at = [r \in Refreshes |-> 1]
        /\ pc = [r \in Refreshes |-> "idle"]
    BY DEF Init
  <2>. QED
    BY <2>1
<1>4. scene \in DOMAIN Scenes /\ edits \in Nat /\ cancels = None
  BY DEF Init
<1>. QED
  BY <1>2, <1>3, <1>4 DEF PcInv

LEMMA StepsKeepPc ==
    ASSUME PcInv, NEW r \in Refreshes, Refresh(r)
    PROVE  PcInv'
<1>1. /\ Steps(r) /\ scene' = scene
  BY DEF Refresh
<1>. USE DEF PcInv, Labels, GoTo, tree
<1>2. CASE Begin(r)
  BY <1>1, <1>2 DEF Begin
<1>3. CASE Register(r)
  BY <1>1, <1>3 DEF Register
<1>4. CASE FetchFails(r)
  BY <1>1, <1>4 DEF FetchFails
<1>5. CASE Fetched(r)
  <2>1. PICK got \in Scene.decoded : recs' = [recs EXCEPT ![r] = got]
    BY <1>5 DEF Fetched
  <2>2. got \in Seq(Rec)
    BY SceneTyped DEF SceneType, Rec
  <2>. HIDE DEF Rec
  <2>. QED
    BY <1>1, <1>5, <2>1, <2>2 DEF Fetched
<1>6. CASE Snapshot(r)
  <2>1. \/ pc' = [pc EXCEPT ![r] = "unregister"] /\ at' = at
        \/ pc' = [pc EXCEPT ![r] = "place"] /\ at' = [at EXCEPT ![r] = 1]
    BY <1>6 DEF Snapshot
  <2>2. UNCHANGED <<scene, recs, cancels, edits>> /\ pc[r] = "snapshot"
    BY <1>1, <1>6 DEF Snapshot
  <2>3. CASE pc' = [pc EXCEPT ![r] = "unregister"] /\ at' = at
    BY <2>2, <2>3
  <2>4. CASE pc' = [pc EXCEPT ![r] = "place"] /\ at' = [at EXCEPT ![r] = 1]
    BY <2>2, <2>4
  <2>. QED
    BY <2>1, <2>3, <2>4
<1>7. CASE Place(r)
  <2>1. Len(recs[r]) \in Nat /\ at[r] \in Nat
    OBVIOUS
  <2>. QED
    BY <1>1, <1>7, <2>1 DEF Place
<1>8. CASE FindFolder(r)
  BY <1>1, <1>8 DEF FindFolder
<1>9. CASE MakeLeaf(r)
  BY <1>1, <1>9 DEF MakeLeaf
<1>10. CASE PutRecord(r)
  <2>1. \/ pc' = [pc EXCEPT ![r] = "unregister"] /\ at' = at
        \/ pc' = [pc EXCEPT ![r] = "place"] /\ at' = [at EXCEPT ![r] = @ + 1]
    BY <1>10 DEF PutRecord, Advance
  <2>2. UNCHANGED <<scene, recs, cancels, edits>> /\ pc[r] = "put"
    BY <1>1, <1>10 DEF PutRecord
  <2>3. CASE pc' = [pc EXCEPT ![r] = "unregister"] /\ at' = at
    BY <2>2, <2>3
  <2>4. CASE pc' = [pc EXCEPT ![r] = "place"] /\ at' = [at EXCEPT ![r] = @ + 1]
    BY <2>2, <2>4
  <2>. QED
    BY <2>1, <2>3, <2>4
<1>11. CASE RemoveStale(r)
  BY <1>1, <1>11 DEF RemoveStale
<1>12. CASE LookToPrune(r)
  BY <1>1, <1>12 DEF LookToPrune
<1>13. CASE Prune(r)
  BY <1>1, <1>13 DEF Prune
<1>14. CASE Unregister(r)
  BY <1>1, <1>14 DEF Unregister
<1>. QED
  BY <1>1, <1>2, <1>3, <1>4, <1>5, <1>6, <1>7, <1>8, <1>9, <1>10, <1>11, <1>12, <1>13, <1>14
     DEF Steps

\* The user's operations leave the refreshes where they are.
LEMMA UserAside ==
    ASSUME \/ Edits /\ UNCHANGED <<scene, settingOps, secretVars, customVars>>
           \/ Sources /\ UNCHANGED <<scene, customVars>>
           \/ CustomEdit /\ UNCHANGED scene
    PROVE  /\ UNCHANGED <<scene, pc, recs, at, old, cache, skipped, doomed, twins, cancels>>
           /\ edits' \in {edits, edits + 1}
<1>1. CASE Edits /\ scene' = scene
  BY <1>1 DEF Edits, CancelRefresh, CreateSession, ReadSession, DeleteSession, Rename, Duplicate,
     SetJumpChain, WriteSession, CreateFolder, DeleteFolder, UserOp, mine, tree
<1>2. CASE Sources /\ scene' = scene
  BY <1>2 DEF Sources, Passphrase, StoreSecret, KeepSecret, SetSource, ClearSecret, ClearSource,
     OtherSecret, UserOp, mine, tree
<1>3. CASE CustomEdit /\ scene' = scene
  BY <1>3 DEF CustomEdit, mine, tree
<1>. QED
  BY <1>1, <1>2, <1>3

LEMMA PcKeeps == PcInv /\ [Next]_vars => PcInv'
<1>. SUFFICES ASSUME PcInv, [Next]_vars PROVE PcInv'
  OBVIOUS
<1>1. CASE /\ UNCHANGED <<scene, pc, recs, at, cancels>>
           /\ edits' \in {edits, edits + 1}
  BY <1>1 DEF PcInv
<1>2. CASE Restart /\ scene' = scene
  BY <1>2 DEF PcInv, Restart, Labels, tree
<1>3. CASE UNCHANGED vars
  BY <1>1, <1>3 DEF vars, mine
<1>. QED
  BY <1>1, <1>2, <1>3, StepsKeepPc, UserAside DEF Next

-----------------------------------------------------------------------------
(* TreeInv is inductive *)

LEMMA Bounds == MaxIds \in Nat /\ MaxFolders \in Nat
<1>1. {MaxIds, MaxFolders} \subseteq Nat
  BY LibraryAssumption
<1>. QED
  BY <1>1

LEMMA RootIs == Root \in [path : Paths, owned : BOOLEAN] /\ Root.path \in Paths /\ ~Root.owned
<1>1. "" \in Paths
  BY LibraryAssumption
<1>. QED
  BY <1>1 DEF Root

LEMMA BindIs ==
    ASSUME NEW f, NEW x, NEW y
    PROVE  /\ DOMAIN Bind(f, x, y) = DOMAIN f \union {x}
           /\ Bind(f, x, y)[x] = y
           /\ \A z \in DOMAIN f \ {x} : Bind(f, x, y)[z] = f[z]
BY DEF Bind

LEMMA WithoutIs ==
    ASSUME NEW f, NEW S
    PROVE  /\ DOMAIN Without(f, S) = DOMAIN f \ S
           /\ \A z \in DOMAIN f \ S : Without(f, S)[z] = f[z]
BY DEF Without, Restrict

LEMMA TreeStart == Init => TreeInv
<1>. SUFFICES ASSUME Init PROVE TreeInv
  OBVIOUS
<1>1. DOMAIN Empty = {}
  BY DEF Empty
<1>2. /\ folders = Bind(Empty, Source, Root) /\ nextFolder = 1
      /\ sess = Empty /\ nextId = 0
      /\ old = [r \in Refreshes |-> Empty] /\ doomed = [r \in Refreshes |-> {}]
      /\ usr = None
  BY DEF Init, Root
<1>3. FoldersInv
  <2>1. /\ DOMAIN folders = {Source}
        /\ folders[Source] = Root
    BY <1>1, <1>2 DEF Bind
  <2>. QED
    BY <1>2, <2>1, Bounds, RootIs DEF FoldersInv, Source
<1>4. SessInv
  BY <1>1, <1>2, Bounds DEF SessInv
<1>5. SnapshotInv /\ DoomedInv /\ UserInv
  BY <1>1, <1>2 DEF SnapshotInv, DoomedInv, UserInv, Has
<1>. QED
  BY <1>3, <1>4, <1>5 DEF TreeInv

LEMMA PutKeeps ==
    ASSUME FoldersInv, SessInv, NEW id \in 0..MaxIds - 1, NEW s \in SessionType,
           CanPut(id, s), PutAs(id, s), folders' = folders,
           nextId' \in 0..MaxIds, nextId <= nextId', id < nextId'
    PROVE  /\ SessInv'
           /\ DOMAIN sess' = DOMAIN sess \union {id} /\ sess'[id] = s
           /\ \A i \in DOMAIN sess \ {id} : sess'[i] = sess[i]
<1>1. /\ DOMAIN sess' = DOMAIN sess \union {id} /\ sess'[id] = s
      /\ \A i \in DOMAIN sess \ {id} : sess'[i] = sess[i]
  BY DEF PutAs, Bind
<1>2. \A i \in DOMAIN sess \ {id} : ~(sess[i].folder = s.folder /\ sess[i].name = s.name)
  BY DEF CanPut, Taken
<1>3. s.folder \in DOMAIN folders
  BY DEF CanPut
<1>4. ASSUME NEW i \in DOMAIN sess'
      PROVE  /\ i \in 0..MaxIds - 1 /\ i < nextId'
             /\ sess'[i] \in SessionType /\ sess'[i].folder \in DOMAIN folders'
  <2>1. CASE i = id
    BY <1>1, <1>3, <2>1
  <2>2. CASE i # id
    <3>1. i \in DOMAIN sess /\ sess'[i] = sess[i]
      BY <1>1, <2>2
    <3>2. /\ i \in 0..MaxIds - 1 /\ i < nextId
          /\ sess[i] \in SessionType /\ sess[i].folder \in DOMAIN folders /\ nextId \in 0..MaxIds
      BY <3>1 DEF SessInv
    <3>. QED
      BY <3>1, <3>2, Bounds
  <2>. QED
    BY <2>1, <2>2
<1>5. ASSUME NEW i \in DOMAIN sess', NEW j \in DOMAIN sess', i # j, sess'[i].folder = sess'[j].folder
      PROVE  sess'[i].name # sess'[j].name
  <2>1. CASE i = id
    BY <1>1, <1>2, <1>5, <2>1
  <2>2. CASE j = id
    BY <1>1, <1>2, <1>5, <2>2
  <2>3. CASE i # id /\ j # id
    BY <1>1, <1>5, <2>3 DEF SessInv
  <2>. QED
    BY <2>1, <2>2, <2>3
<1>. QED
  BY <1>1, <1>4, <1>5 DEF SessInv

LEMMA NewKeeps ==
    ASSUME FoldersInv, SessInv, NEW s \in SessionType, CanPut(nextId, s), NewSession(s), folders' = folders
    PROVE  /\ SessInv' /\ nextId \notin DOMAIN sess /\ nextId' = nextId + 1
           /\ DOMAIN sess' = DOMAIN sess \union {nextId} /\ sess'[nextId] = s
           /\ \A i \in DOMAIN sess \ {nextId} : sess'[i] = sess[i]
<1>1. /\ nextId \in 0..MaxIds - 1 /\ PutAs(nextId, s) /\ nextId' = nextId + 1
      /\ nextId' \in 0..MaxIds /\ nextId <= nextId' /\ nextId < nextId'
  BY Bounds DEF NewSession, SessInv
<1>2. nextId \notin DOMAIN sess
  BY <1>1, Bounds DEF SessInv
<1> DEFINE id == nextId
<1>3. /\ id \in 0..MaxIds - 1 /\ PutAs(id, s) /\ CanPut(id, s)
      /\ nextId' \in 0..MaxIds /\ nextId <= nextId' /\ id < nextId'
  BY <1>1
<1>. HIDE DEF id
<1>4. /\ SessInv'
      /\ DOMAIN sess' = DOMAIN sess \union {id} /\ sess'[id] = s
      /\ \A i \in DOMAIN sess \ {id} : sess'[i] = sess[i]
  BY <1>3, PutKeeps
<1>. QED
  BY <1>1, <1>2, <1>4 DEF id

LEMMA TakeOutKeeps ==
    ASSUME SessInv, NEW S, sess' = Without(sess, S), UNCHANGED <<folders, nextId>>
    PROVE  SessInv'
BY DEF SessInv, Without, Restrict

LEMMA MakeFolderKeeps ==
    ASSUME FoldersInv, SessInv, NEW path \in Paths, NEW owned \in BOOLEAN, MakeFolder(path, owned),
           UNCHANGED <<sess, nextId>>
    PROVE  /\ FoldersInv' /\ SessInv' /\ nextFolder' = nextFolder + 1
           /\ DOMAIN folders' = DOMAIN folders \union {nextFolder}
           /\ folders'[nextFolder] = [path |-> path, owned |-> owned]
           /\ \A f \in DOMAIN folders : f # nextFolder /\ folders'[f] = folders[f]
<1>1. /\ nextFolder < MaxFolders /\ nextFolder' = nextFolder + 1 /\ nextFolder \in Nat \ {0}
      /\ DOMAIN folders' = DOMAIN folders \union {nextFolder}
      /\ folders'[nextFolder] = [path |-> path, owned |-> owned]
      /\ \A f \in DOMAIN folders \ {nextFolder} : folders'[f] = folders[f]
  BY DEF MakeFolder, FoldersInv, Bind
<1>2. \A f \in DOMAIN folders : f # nextFolder /\ folders'[f] = folders[f]
  BY <1>1, Bounds DEF FoldersInv
<1>3. FoldersInv'
  <2>1. ASSUME NEW f \in DOMAIN folders'
        PROVE  /\ f \in 0..MaxFolders /\ f < nextFolder'
               /\ folders'[f] \in [path : Paths, owned : BOOLEAN]
    BY <1>1, <1>2, Bounds DEF FoldersInv
  <2>. QED
    BY <1>1, <1>2, <2>1 DEF FoldersInv, Source
<1>4. SessInv'
  BY <1>1 DEF SessInv
<1>. QED
  BY <1>1, <1>2, <1>3, <1>4

LEMMA TakeFolderKeeps ==
    ASSUME FoldersInv, SessInv, NEW f, FolderFree(f), folders' = Without(folders, {f}),
           UNCHANGED <<sess, nextId, nextFolder>>
    PROVE  /\ FoldersInv' /\ SessInv'
           /\ DOMAIN folders' = DOMAIN folders \ {f}
           /\ \A g \in DOMAIN folders' : folders'[g] = folders[g]
<1>1. /\ DOMAIN folders' = DOMAIN folders \ {f}
      /\ \A g \in DOMAIN folders' : folders'[g] = folders[g]
  BY DEF Without, Restrict
<1>2. FoldersInv'
  BY <1>1 DEF FoldersInv, FolderFree
<1>3. SessInv'
  BY <1>1 DEF SessInv, FolderFree
<1>. QED
  BY <1>1, <1>2, <1>3

\* What is remembered of the tree stays true if sessions and folders that stay keep their
\* identity, and one that is put back has that of its memories.
LEMMA MemoryKeeps ==
    ASSUME SnapshotInv, UserInv, DoomedInv,
           nextId \in Nat, nextId' \in Nat, nextId <= nextId',
           nextFolder \in Nat, nextFolder' \in Nat, nextFolder <= nextFolder',
           DOMAIN old' = Refreshes, DOMAIN doomed' = Refreshes,
           \A r \in Refreshes : /\ DOMAIN old'[r] \subseteq DOMAIN old[r]
                                /\ \A k \in DOMAIN old'[r] : old'[r][k] = old[r][k]
                                /\ doomed'[r] \subseteq doomed[r],
           usr' = usr \/ ~Has("session")',
           \A f \in DOMAIN folders' : f < nextFolder => f \in DOMAIN folders /\ folders'[f] = folders[f],
           \A id \in DOMAIN sess' : id < nextId =>
              /\ \A r \in Refreshes : \A k \in DOMAIN old[r] :
                    old[r][k].id = id => sess'[id].gen /\ sess'[id].key = k
              /\ Has("session")' /\ usr.id = id =>
                    sess'[id].gen = usr.was.gen /\ sess'[id].key = usr.was.key
    PROVE  SnapshotInv' /\ UserInv' /\ DoomedInv'
<1>1. SnapshotInv'
  <2>1. ASSUME NEW r \in Refreshes, NEW k \in DOMAIN old'[r]
        PROVE  /\ old'[r][k].id \in 0..MaxIds - 1 /\ old'[r][k].id < nextId'
               /\ old'[r][k].was \in SessionType /\ old'[r][k].was.key = k /\ old'[r][k].was.gen
               /\ old'[r][k].id \in DOMAIN sess' =>
                     sess'[old'[r][k].id].gen /\ sess'[old'[r][k].id].key = k
    <3>1. k \in DOMAIN old[r] /\ old'[r][k] = old[r][k]
      BY <2>1
    <3>2. /\ old[r][k].id \in 0..MaxIds - 1 /\ old[r][k].id < nextId
          /\ old[r][k].was \in SessionType /\ old[r][k].was.key = k /\ old[r][k].was.gen
      BY <3>1 DEF SnapshotInv
    <3>3. old[r][k].id < nextId'
      <4>1. old[r][k].id \in Int
        BY <3>2, Bounds
      <4>. QED
        BY <3>2, <4>1
    <3>. QED
      BY <3>1, <3>2, <3>3
  <2>2. ASSUME NEW r \in Refreshes, NEW q \in Refreshes, NEW k \in DOMAIN old'[r], NEW l \in DOMAIN old'[q],
               old'[r][k].id = old'[q][l].id
        PROVE  k = l
    <3>1. /\ k \in DOMAIN old[r] /\ old'[r][k] = old[r][k]
          /\ l \in DOMAIN old[q] /\ old'[q][l] = old[q][l]
      BY <2>2
    <3>. QED
      BY <2>2, <3>1 DEF SnapshotInv
  <2>. QED
    BY <2>1, <2>2 DEF SnapshotInv
<1>2. UserInv'
  <2>1. CASE ~Has("session")'
    BY <2>1 DEF UserInv
  <2>2. CASE Has("session")'
    <3>1. usr' = usr /\ Has("session")
      BY <2>2 DEF Has
    <3>2. usr.id \in 0..MaxIds - 1 /\ usr.id < nextId /\ usr.was \in SessionType
      BY <3>1 DEF UserInv
    <3>3. usr.id < nextId'
      <4>1. usr.id \in Int
        BY <3>2, Bounds
      <4>. QED
        BY <3>2, <4>1
    <3>4. \A r \in Refreshes : \A k \in DOMAIN old'[r] :
              old'[r][k].id = usr.id => usr.was.gen /\ usr.was.key = k
      BY <3>1 DEF UserInv
    <3>. QED
      BY <2>2, <3>1, <3>2, <3>3, <3>4 DEF UserInv
  <2>. QED
    BY <2>1, <2>2
<1>3. DoomedInv'
  <2>1. ASSUME NEW r \in Refreshes, NEW f \in doomed'[r]
        PROVE  f < nextFolder' /\ f \in Nat /\ (f \in DOMAIN folders' => folders'[f].owned)
    <3>1. f \in doomed[r]
      BY <2>1
    <3>2. f < nextFolder /\ f \in Nat /\ (f \in DOMAIN folders => folders[f].owned)
      BY <3>1 DEF DoomedInv
    <3>. QED
      BY <3>2
  <2>. QED
    BY <2>1 DEF DoomedInv
<1>. QED
  BY <1>1, <1>2, <1>3

LEMMA TreeAside ==
    ASSUME TreeInv, UNCHANGED <<sess, folders, nextId, nextFolder, old, doomed>>,
           usr' = usr \/ ~Has("session")'
    PROVE  TreeInv'
<1>1. FoldersInv' /\ SessInv' /\ SnapshotInv' /\ DoomedInv'
  BY DEF TreeInv, FoldersInv, SessInv, SnapshotInv, DoomedInv
<1>2. UserInv'
  BY DEF TreeInv, UserInv, Has
<1>. QED
  BY <1>1, <1>2 DEF TreeInv

LEMMA Counters == TreeInv => nextId \in Nat /\ nextFolder \in Nat
BY Bounds DEF TreeInv, SessInv, FoldersInv

\* Of a session that stays as it was, memories stay true.
LEMMA SameMemory ==
    ASSUME TreeInv, NEW id \in DOMAIN sess
    PROVE  /\ \A r \in Refreshes : \A k \in DOMAIN old[r] :
                 old[r][k].id = id => sess[id].gen /\ sess[id].key = k
           /\ Has("session") /\ usr.id = id =>
                 sess[id].gen = usr.was.gen /\ sess[id].key = usr.was.key
BY DEF TreeInv, SnapshotInv, UserInv

LEMMA SnapshotKeeps ==
    ASSUME TreeInv, NEW r \in Refreshes, Snapshot(r)
    PROVE  TreeInv'
<1>1. UNCHANGED <<sess, folders, nextId, nextFolder, doomed, usr>>
  BY DEF Snapshot, tree
<1>2. CASE old' = old
  BY <1>1, <1>2, TreeAside
<1>3. CASE old' # old
  <2>1. PICK pick \in [{sess[id].key : id \in Generated} -> Generated] :
           /\ \A k \in DOMAIN pick : sess[pick[k]].key = k
           /\ old' = [old EXCEPT ![r] =
                 [k \in DOMAIN pick |-> [id |-> pick[k], was |-> sess[pick[k]]]]]
    BY <1>3 DEF Snapshot
  <2>2. DOMAIN old = Refreshes
    BY DEF TreeInv, SnapshotInv
  <2>3. /\ DOMAIN old' = Refreshes
        /\ old'[r] = [k \in DOMAIN pick |-> [id |-> pick[k], was |-> sess[pick[k]]]]
        /\ \A q \in Refreshes \ {r} : old'[q] = old[q]
    BY <2>1, <2>2
  <2>4. ASSUME NEW k \in DOMAIN old'[r]
        PROVE  /\ old'[r][k].id \in DOMAIN sess /\ old'[r][k].was = sess[old'[r][k].id]
               /\ sess[old'[r][k].id].gen /\ sess[old'[r][k].id].key = k
    <3>1. k \in DOMAIN pick /\ pick[k] \in Generated /\ old'[r][k] = [id |-> pick[k], was |-> sess[pick[k]]]
      BY <2>1, <2>3
    <3>. QED
      BY <2>1, <3>1 DEF Generated
  <2>5. ASSUME NEW q \in Refreshes, NEW k \in DOMAIN old'[q]
        PROVE  /\ old'[q][k].id \in 0..MaxIds - 1 /\ old'[q][k].id < nextId
               /\ old'[q][k].was \in SessionType /\ old'[q][k].was.key = k /\ old'[q][k].was.gen
               /\ old'[q][k].id \in DOMAIN sess =>
                     sess[old'[q][k].id].gen /\ sess[old'[q][k].id].key = k
               /\ Has("session") /\ old'[q][k].id = usr.id => usr.was.gen /\ usr.was.key = k
    <3>1. CASE q = r
      <4>1. /\ old'[q][k].id \in DOMAIN sess /\ old'[q][k].was = sess[old'[q][k].id]
            /\ sess[old'[q][k].id].gen /\ sess[old'[q][k].id].key = k
        BY <2>4, <2>5, <3>1
      <4>2. /\ old'[q][k].id \in 0..MaxIds - 1 /\ old'[q][k].id < nextId
            /\ sess[old'[q][k].id] \in SessionType
        BY <4>1 DEF TreeInv, SessInv
      <4>3. Has("session") /\ usr.id \in DOMAIN sess =>
                usr.was \in SessionType /\ sess[usr.id].gen = usr.was.gen /\ sess[usr.id].key = usr.was.key
        BY DEF TreeInv, UserInv
      <4>. QED
        BY <4>1, <4>2, <4>3
    <3>2. CASE q # r
      <4>1. old'[q] = old[q]
        BY <2>3, <3>2
      <4>. QED
        BY <2>5, <4>1 DEF TreeInv, SnapshotInv, UserInv
    <3>. QED
      BY <3>1, <3>2
  <2>6. ASSUME NEW p \in Refreshes, NEW q \in Refreshes, NEW k \in DOMAIN old'[p], NEW l \in DOMAIN old'[q],
               old'[p][k].id = old'[q][l].id
        PROVE  k = l
    <3>1. p = r => old'[p][k].id \in DOMAIN sess /\ sess[old'[p][k].id].key = k
      BY <2>4, <2>6
    <3>2. q = r => old'[q][l].id \in DOMAIN sess /\ sess[old'[q][l].id].key = l
      BY <2>4, <2>6
    <3>3. CASE p = r \/ q = r
      <4>1. old'[p][k].id \in DOMAIN sess
        BY <2>6, <3>1, <3>2, <3>3
      <4>2. sess[old'[p][k].id].key = k
        BY <2>5, <4>1
      <4>3. sess[old'[q][l].id].key = l
        BY <2>5, <2>6, <4>1
      <4>. QED
        BY <2>6, <4>2, <4>3
    <3>4. CASE p # r /\ q # r
      <4>1. old'[p] = old[p] /\ old'[q] = old[q]
        BY <2>3, <3>4
      <4>. QED
        BY <2>6, <4>1 DEF TreeInv, SnapshotInv
    <3>. QED
      BY <3>3, <3>4
  <2>7. SnapshotInv'
    BY <1>1, <2>3, <2>5, <2>6 DEF SnapshotInv
  <2>8. UserInv'
    BY <1>1, <2>5 DEF TreeInv, UserInv, Has
  <2>9. FoldersInv' /\ SessInv' /\ DoomedInv'
    BY <1>1 DEF TreeInv, FoldersInv, SessInv, DoomedInv
  <2>. QED
    BY <2>7, <2>8, <2>9 DEF TreeInv
<1>. QED
  BY <1>2, <1>3

LEMMA MakeLeafKeeps ==
    ASSUME PcInv, TreeInv, NEW r \in Refreshes, MakeLeaf(r)
    PROVE  TreeInv'
<1>1. UNCHANGED <<sess, nextId, old, doomed, usr>>
  BY DEF MakeLeaf
<1>2. CASE folders' = folders /\ nextFolder' = nextFolder
  BY <1>1, <1>2, TreeAside
<1>3. CASE MakeFolder(Record(r).path, TRUE)
  <2>1. Record(r).path \in Paths
    <3>1. pc[r] = "make" /\ recs[r] \in Seq(Rec) /\ at[r] \in 1..Len(recs[r])
      BY DEF MakeLeaf, PcInv
    <3>2. Record(r) \in Rec
      BY <3>1 DEF Record
    <3>. QED
      BY <3>2 DEF Rec
  <2>2. /\ FoldersInv' /\ SessInv' /\ nextFolder' = nextFolder + 1
        /\ DOMAIN folders' = DOMAIN folders \union {nextFolder}
        /\ \A f \in DOMAIN folders : f # nextFolder /\ folders'[f] = folders[f]
    BY <1>1, <1>3, <2>1, MakeFolderKeeps DEF TreeInv
  <2>3. /\ nextId \in Nat /\ nextFolder \in Nat /\ nextFolder <= nextFolder'
        /\ DOMAIN old' = Refreshes /\ DOMAIN doomed' = Refreshes
    BY <1>1, <2>2, Counters DEF TreeInv, SnapshotInv, DoomedInv
  <2>4. SnapshotInv' /\ UserInv' /\ DoomedInv'
    <3>1. \A f \in DOMAIN folders' : f < nextFolder => f \in DOMAIN folders /\ folders'[f] = folders[f]
      BY <2>2, <2>3
    <3>2. Has("session")' = Has("session")
      BY <1>1 DEF Has
    <3>. QED
      BY <1>1, <2>2, <2>3, <3>1, <3>2, SameMemory, MemoryKeeps DEF TreeInv
  <2>. QED
    BY <2>2, <2>4 DEF TreeInv
<1>. QED
  BY <1>2, <1>3 DEF MakeLeaf

\* What a record makes of its session is a session, if the store takes it.
LEMMA RecordTyped ==
    ASSUME PcInv, TreeInv, NEW r \in Refreshes, pc[r] = "put"
    PROVE  /\ Record(r) \in Rec /\ at[r] \in DOMAIN recs[r]
           /\ Record(r).key \in DOMAIN old[r] =>
                 /\ Updated(r).folder \in DOMAIN folders => Updated(r) \in SessionType
                 /\ Updated(r).key = Record(r).key /\ Updated(r).gen
                 /\ Updated(r).name = Record(r).name
                 /\ Updated(r).folder = cache[r][Record(r).path]
           /\ Added(r).folder \in DOMAIN folders => Added(r) \in SessionType
           /\ Added(r).key = Record(r).key /\ Added(r).gen
           /\ Added(r).name = Record(r).name /\ Added(r).folder = cache[r][Record(r).path]
<1>1. Record(r) \in Rec /\ at[r] \in DOMAIN recs[r]
  <2>1. recs[r] \in Seq(Rec) /\ at[r] \in 1..Len(recs[r])
    BY DEF PcInv
  <2>. QED
    BY <2>1 DEF Record
<1>2. Record(r).key \in Keys /\ Record(r).name \in Names
  BY <1>1 DEF Rec
<1>3. \A f \in DOMAIN folders : f \in 0..MaxFolders
  BY DEF TreeInv, FoldersInv
<1>4. ASSUME Record(r).key \in DOMAIN old[r]
      PROVE  /\ Updated(r).folder \in DOMAIN folders => Updated(r) \in SessionType
             /\ Updated(r).key = Record(r).key /\ Updated(r).gen
             /\ Updated(r).name = Record(r).name /\ Updated(r).folder = cache[r][Record(r).path]
  <2> DEFINE w == old[r][Record(r).key].was
  <2>1. w \in SessionType /\ w.key = Record(r).key
    BY <1>4 DEF TreeInv, SnapshotInv
  <2>2. Updated(r) = [w EXCEPT !.name = Record(r).name, !.folder = cache[r][Record(r).path], !.gen = TRUE]
    BY DEF Updated
  <2>. HIDE DEF w
  <2>3. /\ Updated(r).folder = cache[r][Record(r).path] /\ Updated(r).key = w.key /\ Updated(r).gen
        /\ Updated(r).name = Record(r).name
        /\ cache[r][Record(r).path] \in 0..MaxFolders => Updated(r) \in SessionType
    BY <1>2, <2>1, <2>2 DEF SessionType
  <2>. QED
    BY <1>3, <2>1, <2>3
<1>5. /\ Added(r).folder \in DOMAIN folders => Added(r) \in SessionType
      /\ Added(r).key = Record(r).key /\ Added(r).gen
      /\ Added(r).name = Record(r).name /\ Added(r).folder = cache[r][Record(r).path]
  BY <1>2, <1>3 DEF Added, SessionType
<1>. QED
  BY <1>1, <1>4, <1>5

\* A record is put as its session, or skipped, or ends the refresh.
PutAsSession(r, id) ==
    /\ DOMAIN sess' = DOMAIN sess \union {id}
    /\ \A i \in DOMAIN sess \ {id} : sess'[i] = sess[i]
    /\ sess'[id].key = Record(r).key /\ sess'[id].gen
    /\ sess'[id].name = Record(r).name
    /\ sess'[id].folder = cache[r][Record(r).path]
    /\ \/ Record(r).key \in DOMAIN old[r] /\ id = old[r][Record(r).key].id /\ nextId' = nextId
       \/ Record(r).key \notin DOMAIN old[r] /\ id = nextId /\ nextId' = nextId + 1

LEMMA PutRecordDoes ==
    ASSUME PcInv, TreeInv, NEW r \in Refreshes, PutRecord(r)
    PROVE  \/ /\ SessInv' /\ \E id : PutAsSession(r, id)
              /\ Disturb(r) /\ Advance(r) /\ skipped' = skipped
           \/ /\ UNCHANGED <<sess, nextId, disturbed>>
              /\ skipped' = [skipped EXCEPT ![r] = @ \union {at[r]}] /\ Advance(r)
           \/ /\ UNCHANGED <<sess, nextId, disturbed, at, skipped>> /\ GoTo(r, "unregister")
<1>1. /\ pc[r] = "put" /\ UNCHANGED <<folders, nextFolder, old, doomed, usr, recs, cache, twins>>
  BY DEF PutRecord
<1> DEFINE known == Record(r).key \in DOMAIN old[r]
           s == IF known THEN Updated(r) ELSE Added(r)
           id == IF known THEN old[r][Record(r).key].id ELSE nextId
<1>2. CASE /\ CanPut(id, s)
           /\ IF known THEN PutAs(id, s) /\ UNCHANGED nextId ELSE NewSession(s)
           /\ Disturb(r) /\ Advance(r) /\ UNCHANGED skipped
  <2>1. s.folder \in DOMAIN folders
    BY <1>2 DEF CanPut
  <2>2. CASE known
    <3>1. s = Updated(r) /\ id = old[r][Record(r).key].id
      BY <2>2
    <3>2. /\ s \in SessionType /\ s.key = Record(r).key /\ s.gen
          /\ s.name = Record(r).name /\ s.folder = cache[r][Record(r).path]
      BY <1>1, <2>1, <2>2, <3>1, RecordTyped
    <3>3. id \in 0..MaxIds - 1 /\ id < nextId /\ nextId \in 0..MaxIds
      BY <2>2, <3>1 DEF TreeInv, SnapshotInv, SessInv
    <3>4. CanPut(id, s) /\ PutAs(id, s) /\ nextId' = nextId
      BY <1>2, <2>2
    <3>. HIDE DEF s, id
    <3>5. nextId' \in 0..MaxIds /\ nextId <= nextId' /\ id < nextId'
      BY <3>3, <3>4, Bounds
    <3>6. /\ SessInv'
          /\ DOMAIN sess' = DOMAIN sess \union {id} /\ sess'[id] = s
          /\ \A i \in DOMAIN sess \ {id} : sess'[i] = sess[i]
      BY <1>1, <3>2, <3>3, <3>4, <3>5, PutKeeps DEF TreeInv
    <3>7. PutAsSession(r, id)
      BY <2>2, <3>1, <3>2, <3>4, <3>6 DEF PutAsSession
    <3>. QED
      BY <1>2, <3>6, <3>7
  <2>3. CASE ~known
    <3>1. s = Added(r) /\ id = nextId
      BY <2>3
    <3>2. /\ s \in SessionType /\ s.key = Record(r).key /\ s.gen
          /\ s.name = Record(r).name /\ s.folder = cache[r][Record(r).path]
      BY <1>1, <2>1, <3>1, RecordTyped
    <3>3. CanPut(nextId, s) /\ NewSession(s)
      BY <1>2, <2>3, <3>1
    <3>. HIDE DEF s
    <3>4. /\ SessInv' /\ nextId' = nextId + 1
          /\ DOMAIN sess' = DOMAIN sess \union {nextId} /\ sess'[nextId] = s
          /\ \A i \in DOMAIN sess \ {nextId} : sess'[i] = sess[i]
      BY <1>1, <3>2, <3>3, NewKeeps DEF TreeInv
    <3>5. PutAsSession(r, nextId)
      BY <2>3, <3>2, <3>4 DEF PutAsSession
    <3>. QED
      BY <1>2, <3>4, <3>5
  <2>. QED
    BY <2>2, <2>3
<1>. QED
  BY <1>2 DEF PutRecord

LEMMA PutRecordKeeps ==
    ASSUME PcInv, TreeInv, NEW r \in Refreshes, PutRecord(r)
    PROVE  TreeInv'
<1>1. UNCHANGED <<folders, nextFolder, old, doomed, usr>>
  BY DEF PutRecord
<1>2. CASE UNCHANGED <<sess, nextId>>
  BY <1>1, <1>2, TreeAside
<1>3. CASE SessInv' /\ \E id : PutAsSession(r, id)
  <2>1. /\ UNCHANGED <<folders, nextFolder, old, doomed, usr>> /\ SessInv'
    BY <1>1, <1>3
  <2>2. PICK id :
          /\ DOMAIN sess' = DOMAIN sess \union {id}
          /\ \A i \in DOMAIN sess \ {id} : sess'[i] = sess[i]
          /\ sess'[id].key = Record(r).key /\ sess'[id].gen
          /\ \/ Record(r).key \in DOMAIN old[r] /\ id = old[r][Record(r).key].id /\ nextId' = nextId
             \/ Record(r).key \notin DOMAIN old[r] /\ id = nextId /\ nextId' = nextId + 1
    BY <1>3 DEF PutAsSession
  <2>3. /\ nextId \in Nat /\ nextId' \in Nat /\ nextId <= nextId' /\ nextFolder \in Nat
        /\ DOMAIN old' = Refreshes /\ DOMAIN doomed' = Refreshes
    BY <2>1, <2>2, Counters DEF TreeInv, SnapshotInv, DoomedInv
  <2>4. Has("session")' = Has("session")
    BY <2>1 DEF Has
  <2>5. ASSUME NEW i \in DOMAIN sess', i < nextId
        PROVE  /\ \A q \in Refreshes : \A k \in DOMAIN old[q] :
                     old[q][k].id = i => sess'[i].gen /\ sess'[i].key = k
               /\ Has("session")' /\ usr.id = i =>
                     sess'[i].gen = usr.was.gen /\ sess'[i].key = usr.was.key
    <3>1. CASE i # id
      <4>1. i \in DOMAIN sess /\ sess'[i] = sess[i]
        BY <2>2, <2>5, <3>1
      <4>. QED
        BY <2>4, <4>1, SameMemory
    <3>2. CASE i = id
      <4>1. Record(r).key \in DOMAIN old[r] /\ id = old[r][Record(r).key].id
        BY <2>2, <2>3, <2>5, <3>2
      <4>2. \A q \in Refreshes : \A k \in DOMAIN old[q] : old[q][k].id = id => k = Record(r).key
        BY <4>1 DEF TreeInv, SnapshotInv
      <4>3. Has("session") /\ usr.id = id =>
                usr.was.gen /\ usr.was.key = Record(r).key /\ usr.was \in SessionType
        BY <4>1 DEF TreeInv, UserInv
      <4>4. sess'[id] \in SessionType
        BY <2>1, <2>2 DEF SessInv
      <4>5. usr.was \in SessionType /\ usr.was.gen => sess'[id].gen = usr.was.gen
        BY <2>2, <4>4 DEF SessionType
      <4>. QED
        BY <2>2, <2>4, <3>2, <4>2, <4>3, <4>5
    <3>. QED
      BY <3>1, <3>2
  <2>6. FoldersInv'
    BY <2>1 DEF TreeInv, FoldersInv
  <2>7. SnapshotInv' /\ UserInv' /\ DoomedInv'
    BY <2>1, <2>3, <2>5, MemoryKeeps DEF TreeInv
  <2>. QED
    BY <2>1, <2>6, <2>7 DEF TreeInv
<1>. QED
  BY <1>2, <1>3, PutRecordDoes

\* Sessions are taken out, and nothing that is remembered changes.
LEMMA TakeOutRemembers ==
    ASSUME TreeInv, NEW S, sess' = Without(sess, S),
           UNCHANGED <<folders, nextId, nextFolder, doomed, usr>>,
           DOMAIN old' = Refreshes,
           \A r \in Refreshes : /\ DOMAIN old'[r] \subseteq DOMAIN old[r]
                                /\ \A k \in DOMAIN old'[r] : old'[r][k] = old[r][k]
    PROVE  TreeInv'
<1>1. DOMAIN sess' \subseteq DOMAIN sess /\ \A id \in DOMAIN sess' : sess'[id] = sess[id]
  BY DEF Without, Restrict
<1>2. FoldersInv' /\ SessInv'
  BY TakeOutKeeps DEF TreeInv, FoldersInv
<1>3. Has("session")' = Has("session") /\ nextId \in Nat /\ nextFolder \in Nat /\ DOMAIN doomed = Refreshes
  BY Counters DEF Has, TreeInv, DoomedInv
<1>4. SnapshotInv' /\ UserInv' /\ DoomedInv'
  <2>1. ASSUME NEW id \in DOMAIN sess'
        PROVE  /\ \A r \in Refreshes : \A k \in DOMAIN old[r] :
                     old[r][k].id = id => sess'[id].gen /\ sess'[id].key = k
               /\ Has("session")' /\ usr.id = id =>
                     sess'[id].gen = usr.was.gen /\ sess'[id].key = usr.was.key
    BY <1>1, <1>3, <2>1, SameMemory
  <2>. QED
    BY <1>1, <1>3, <2>1, MemoryKeeps DEF TreeInv
<1>. QED
  BY <1>2, <1>4 DEF TreeInv

\* A folder comes or goes, and no session changes.
LEMMA FoldersRemember ==
    ASSUME TreeInv, FoldersInv', SessInv', UNCHANGED <<sess, nextId, old, usr>>,
           nextFolder' \in Nat, nextFolder <= nextFolder',
           DOMAIN doomed' = Refreshes, \A r \in Refreshes : doomed'[r] \subseteq doomed[r],
           \A f \in DOMAIN folders' : f < nextFolder => f \in DOMAIN folders /\ folders'[f] = folders[f]
    PROVE  TreeInv'
<1>1. /\ Has("session")' = Has("session") /\ nextId \in Nat /\ nextFolder \in Nat
      /\ DOMAIN old = Refreshes
  BY Counters DEF Has, TreeInv, SnapshotInv
<1>2. SnapshotInv' /\ UserInv' /\ DoomedInv'
  BY <1>1, SameMemory, MemoryKeeps DEF TreeInv
<1>. QED
  BY <1>2 DEF TreeInv

LEMMA ExceptIs ==
    ASSUME NEW R, NEW f, DOMAIN f = R, NEW x \in R, NEW v
    PROVE  /\ DOMAIN [f EXCEPT ![x] = v] = R
           /\ [f EXCEPT ![x] = v][x] = v
           /\ \A y \in R \ {x} : [f EXCEPT ![x] = v][y] = f[y]
OBVIOUS

LEMMA RemoveStaleKeeps ==
    ASSUME TreeInv, NEW r \in Refreshes, RemoveStale(r)
    PROVE  TreeInv'
<1>1. UNCHANGED <<folders, nextId, nextFolder, doomed, usr>>
  BY DEF RemoveStale
<1>2. CASE UNCHANGED <<sess, old>>
  BY <1>1, <1>2, TreeAside
<1>3. CASE \E k \in Stale(r) : /\ sess' = Without(sess, {old[r][k].id})
                               /\ old' = [old EXCEPT ![r] = Without(@, {k})]
  <2>1. PICK k \in Stale(r) : /\ sess' = Without(sess, {old[r][k].id})
                              /\ old' = [old EXCEPT ![r] = Without(old[r], {k})]
    BY <1>3
  <2>2. DOMAIN old = Refreshes
    BY DEF TreeInv, SnapshotInv
  <2>3. /\ DOMAIN old' = Refreshes /\ old'[r] = Without(old[r], {k})
        /\ \A q \in Refreshes \ {r} : old'[q] = old[q]
    BY <2>1, <2>2, ExceptIs
  <2>4. ASSUME NEW q \in Refreshes
        PROVE  /\ DOMAIN old'[q] \subseteq DOMAIN old[q]
               /\ \A l \in DOMAIN old'[q] : old'[q][l] = old[q][l]
    <3>1. CASE q = r
      BY <2>3, <3>1 DEF Without, Restrict
    <3>2. CASE q # r
      BY <2>3, <3>2
    <3>. QED
      BY <3>1, <3>2
  <2>. QED
    BY <1>1, <2>1, <2>3, <2>4, TakeOutRemembers
<1>. QED
  BY <1>2, <1>3 DEF RemoveStale

LEMMA LookToPruneKeeps ==
    ASSUME TreeInv, NEW r \in Refreshes, LookToPrune(r)
    PROVE  TreeInv'
<1>1. UNCHANGED <<sess, folders, nextId, nextFolder, old, usr>>
  BY DEF LookToPrune, tree
<1> DEFINE D == {f \in DOMAIN folders \ {Source} : folders[f].owned /\ FolderFree(f)}
<1>2. DOMAIN doomed = Refreshes /\ doomed' = [doomed EXCEPT ![r] = D]
  BY DEF LookToPrune, TreeInv, DoomedInv
<1>3. DOMAIN doomed' = Refreshes /\ doomed'[r] = D /\ \A q \in Refreshes \ {r} : doomed'[q] = doomed[q]
  <2>. HIDE DEF D
  <2>. QED
    BY <1>2, ExceptIs
<1>4. \A f \in D : f < nextFolder /\ f \in Nat /\ folders[f].owned
  BY Bounds DEF TreeInv, FoldersInv
<1>. HIDE DEF D
<1>5. DoomedInv'
  BY <1>1, <1>3, <1>4 DEF TreeInv, DoomedInv
<1>6. FoldersInv' /\ SessInv' /\ SnapshotInv' /\ UserInv'
  BY <1>1 DEF TreeInv, FoldersInv, SessInv, SnapshotInv, UserInv, Has
<1>. QED
  BY <1>5, <1>6 DEF TreeInv

LEMMA PruneKeeps ==
    ASSUME TreeInv, NEW r \in Refreshes, Prune(r)
    PROVE  TreeInv'
<1>1. UNCHANGED <<sess, nextId, nextFolder, old, usr>>
  BY DEF Prune
<1>2. CASE UNCHANGED <<folders, doomed>>
  BY <1>1, <1>2, TreeAside
<1>3. CASE ~UNCHANGED <<folders, doomed>>
  <2>1. PICK f \in doomed[r] : /\ FolderFree(f) /\ folders' = Without(folders, {f})
                               /\ doomed' = [doomed EXCEPT ![r] = doomed[r] \ {f}]
    BY <1>3 DEF Prune
  <2>2. /\ FoldersInv' /\ SessInv' /\ DOMAIN folders' = DOMAIN folders \ {f}
        /\ \A g \in DOMAIN folders' : folders'[g] = folders[g]
    BY <1>1, <2>1, TakeFolderKeeps DEF TreeInv
  <2>3. DOMAIN doomed' = Refreshes /\ \A q \in Refreshes : doomed'[q] \subseteq doomed[q]
    BY <2>1 DEF TreeInv, DoomedInv
  <2>. QED
    BY <1>1, <2>2, <2>3, Counters, FoldersRemember
<1>. QED
  BY <1>2, <1>3

LEMMA StepsKeepTree ==
    ASSUME PcInv, TreeInv, NEW r \in Refreshes, Steps(r)
    PROVE  TreeInv'
<1>1. CASE Begin(r) \/ Register(r) \/ FetchFails(r) \/ Fetched(r) \/ Place(r) \/ FindFolder(r) \/ Unregister(r)
  <2>1. UNCHANGED <<sess, folders, nextId, nextFolder, old, doomed, usr>>
    BY <1>1 DEF Begin, Register, FetchFails, Fetched, Place, FindFolder, Unregister, tree
  <2>. QED
    BY <2>1, TreeAside
<1>. QED
  BY <1>1, SnapshotKeeps, MakeLeafKeeps, PutRecordKeeps, RemoveStaleKeeps, LookToPruneKeeps, PruneKeeps
     DEF Steps

\* The store takes a new session.
LEMMA NewRemembers ==
    ASSUME TreeInv, NEW s \in SessionType, CanPut(nextId, s), NewSession(s),
           UNCHANGED <<folders, nextFolder, old, doomed>>, usr' = usr \/ ~Has("session")'
    PROVE  TreeInv'
<1>1. /\ SessInv' /\ nextId \notin DOMAIN sess /\ nextId' = nextId + 1
      /\ DOMAIN sess' = DOMAIN sess \union {nextId}
      /\ \A i \in DOMAIN sess \ {nextId} : sess'[i] = sess[i]
  BY NewKeeps DEF TreeInv
<1>2. nextId \in Nat /\ nextFolder \in Nat /\ DOMAIN doomed = Refreshes /\ DOMAIN old = Refreshes
  BY Counters DEF TreeInv, SnapshotInv, DoomedInv
<1>3. ASSUME NEW id \in DOMAIN sess', id < nextId
      PROVE  /\ \A r \in Refreshes : \A k \in DOMAIN old[r] :
                   old[r][k].id = id => sess'[id].gen /\ sess'[id].key = k
             /\ Has("session")' /\ usr.id = id =>
                   sess'[id].gen = usr.was.gen /\ sess'[id].key = usr.was.key
  <2>1. id \in DOMAIN sess /\ sess'[id] = sess[id]
    BY <1>1, <1>2, <1>3
  <2>2. Has("session")' => Has("session")
    BY DEF Has
  <2>. QED
    BY <2>1, <2>2, SameMemory
<1>4. nextId' \in Nat /\ nextId <= nextId'
  BY <1>1, <1>2
<1>5. SnapshotInv' /\ UserInv' /\ DoomedInv'
  BY <1>2, <1>3, <1>4, MemoryKeeps DEF TreeInv
<1>6. FoldersInv'
  BY DEF TreeInv, FoldersInv
<1>. QED
  BY <1>1, <1>5, <1>6 DEF TreeInv

LEMMA CreateKeeps ==
    ASSUME TreeInv, NEW name \in Names, NEW k \in Keys, CreateSession(name, k)
    PROVE  TreeInv'
<1> DEFINE s == [name |-> name, folder |-> Source, key |-> k, gen |-> FALSE, edit |-> 0]
<1>1. CanPut(nextId, s) /\ NewSession(s) /\ UNCHANGED <<folders, nextFolder, old, doomed, usr>>
  BY DEF CreateSession, mine
<1>2. s \in SessionType
  BY Bounds DEF SessionType, Source
<1>. HIDE DEF s
<1>. QED
  BY <1>1, <1>2, NewRemembers

LEMMA ReadKeeps ==
    ASSUME TreeInv, NEW id, ReadSession(id)
    PROVE  TreeInv'
<1>1. /\ UNCHANGED <<sess, folders, nextId, nextFolder, old, doomed>>
      /\ id \in DOMAIN sess /\ usr' = [op |-> "session", id |-> id, was |-> sess[id]]
  BY DEF ReadSession, tree, mine
<1>2. usr'.id = id /\ usr'.was = sess[id]
  BY <1>1
<1>3. UserInv'
  BY <1>1, <1>2, SameMemory DEF TreeInv, UserInv, SessInv
<1>4. FoldersInv' /\ SessInv' /\ SnapshotInv' /\ DoomedInv'
  BY <1>1 DEF TreeInv, FoldersInv, SessInv, SnapshotInv, DoomedInv
<1>. QED
  BY <1>3, <1>4 DEF TreeInv

LEMMA WriteKeeps ==
    ASSUME TreeInv, Has("session"), NEW s \in SessionType, s.gen = usr.was.gen, s.key = usr.was.key,
           WriteSession(s)
    PROVE  TreeInv'
<1>1. /\ UNCHANGED <<folders, nextId, nextFolder, old, doomed>> /\ usr' = None
  BY DEF WriteSession, mine
<1>2. ~Has("session")'
  BY <1>1 DEF Has
<1>3. CASE UNCHANGED sess
  BY <1>1, <1>2, <1>3, TreeAside
<1>4. CASE CanPut(usr.id, s) /\ PutAs(usr.id, s)
  <2> DEFINE id == usr.id
  <2>1. id \in 0..MaxIds - 1 /\ id < nextId /\ nextId \in 0..MaxIds
    BY DEF TreeInv, UserInv, SessInv
  <2>2. nextId' \in 0..MaxIds /\ nextId <= nextId' /\ id < nextId' /\ nextId \in Nat
    BY <1>1, <2>1, Bounds
  <2>3. CanPut(id, s) /\ PutAs(id, s)
    BY <1>4
  <2>. HIDE DEF id
  <2>4. /\ SessInv' /\ DOMAIN sess' = DOMAIN sess \union {id} /\ sess'[id] = s
        /\ \A i \in DOMAIN sess \ {id} : sess'[i] = sess[i]
    BY <1>1, <2>1, <2>2, <2>3, PutKeeps DEF TreeInv
  <2>5. ASSUME NEW i \in DOMAIN sess'
        PROVE  \A r \in Refreshes : \A k \in DOMAIN old[r] :
                  old[r][k].id = i => sess'[i].gen /\ sess'[i].key = k
    <3>1. CASE i = id
      <4>1. \A r \in Refreshes : \A k \in DOMAIN old[r] :
                old[r][k].id = id => usr.was.gen /\ usr.was.key = k
        BY DEF TreeInv, UserInv, id
      <4>. QED
        BY <2>4, <3>1, <4>1
    <3>2. CASE i # id
      BY <2>4, <2>5, <3>2, SameMemory
    <3>. QED
      BY <3>1, <3>2
  <2>6. nextFolder \in Nat /\ DOMAIN doomed = Refreshes /\ DOMAIN old = Refreshes
    BY Counters DEF TreeInv, SnapshotInv, DoomedInv
  <2>7. SnapshotInv' /\ UserInv' /\ DoomedInv'
    BY <1>1, <1>2, <2>2, <2>5, <2>6, MemoryKeeps DEF TreeInv
  <2>8. FoldersInv'
    BY <1>1 DEF TreeInv, FoldersInv
  <2>. QED
    BY <2>4, <2>7, <2>8 DEF TreeInv
<1>. QED
  BY <1>3, <1>4 DEF WriteSession

LEMMA RenamesKeep ==
    ASSUME PcInv, TreeInv, (\E name \in Names : Rename(name) \/ Duplicate(name)) \/ SetJumpChain
    PROVE  TreeInv'
<1>1. Has("session")
  BY DEF Rename, Duplicate, SetJumpChain
<1>2. usr.was \in SessionType
  BY <1>1 DEF TreeInv, UserInv
<1> DEFINE w == usr.was
<1>. HIDE DEF w
<1>3. w \in SessionType
  BY <1>2 DEF w
<1>4. ASSUME NEW name \in Names
      PROVE  /\ [w EXCEPT !.name = name] \in SessionType
             /\ [w EXCEPT !.name = name].gen = w.gen /\ [w EXCEPT !.name = name].key = w.key
             /\ [w EXCEPT !.name = name, !.gen = FALSE] \in SessionType
  BY <1>3 DEF SessionType
<1>5. /\ [w EXCEPT !.edit = edits] \in SessionType
      /\ [w EXCEPT !.edit = edits].gen = w.gen /\ [w EXCEPT !.edit = edits].key = w.key
  BY <1>3 DEF SessionType, PcInv
<1>6. ASSUME NEW name \in Names, Rename(name) PROVE TreeInv'
  <2> DEFINE s == [w EXCEPT !.name = name]
  <2>1. s \in SessionType /\ s.gen = w.gen /\ s.key = w.key
    BY <1>4
  <2>2. WriteSession(s)
    BY <1>6 DEF Rename, w
  <2>. HIDE DEF s
  <2>. QED
    BY <1>1, <2>1, <2>2, WriteKeeps DEF w
<1>7. CASE SetJumpChain
  <2> DEFINE s == [w EXCEPT !.edit = edits]
  <2>1. s \in SessionType /\ s.gen = w.gen /\ s.key = w.key
    BY <1>5
  <2>2. WriteSession(s)
    BY <1>7 DEF SetJumpChain, w
  <2>. HIDE DEF s
  <2>. QED
    BY <1>1, <2>1, <2>2, WriteKeeps DEF w
<1>8. ASSUME NEW name \in Names, Duplicate(name) PROVE TreeInv'
  <2> DEFINE s == [w EXCEPT !.name = name, !.gen = FALSE]
  <2>1. s \in SessionType
    BY <1>4
  <2>2. /\ IF CanPut(nextId, s) THEN NewSession(s) ELSE UNCHANGED <<sess, nextId>>
        /\ UNCHANGED <<folders, nextFolder, old, doomed>> /\ usr' = None
    BY <1>8 DEF Duplicate, mine, w
  <2>3. ~Has("session")'
    BY <2>2 DEF Has
  <2>. HIDE DEF s
  <2>4. CASE CanPut(nextId, s)
    BY <2>1, <2>2, <2>3, <2>4, NewRemembers
  <2>5. CASE ~CanPut(nextId, s)
    BY <2>2, <2>3, <2>5, TreeAside
  <2>. QED
    BY <2>4, <2>5
<1>. QED
  BY <1>6, <1>7, <1>8

LEMMA DeleteKeeps ==
    ASSUME TreeInv, NEW id, DeleteSession(id)
    PROVE  TreeInv'
<1>1. /\ sess' = Without(sess, {id}) /\ UNCHANGED <<folders, nextId, nextFolder, doomed, usr, old>>
  BY DEF DeleteSession, mine
<1>. QED
  BY <1>1, TakeOutRemembers DEF TreeInv, SnapshotInv

LEMMA UserFoldersKeep ==
    ASSUME TreeInv, (\E path \in Paths : CreateFolder(path)) \/ (\E f : DeleteFolder(f))
    PROVE  TreeInv'
<1>1. UNCHANGED <<sess, nextId, old, doomed, usr>> /\ DOMAIN doomed = Refreshes
  BY DEF CreateFolder, DeleteFolder, mine, TreeInv, DoomedInv
<1>2. ASSUME NEW path \in Paths, CreateFolder(path) PROVE TreeInv'
  <2>1. /\ FoldersInv' /\ SessInv' /\ nextFolder' = nextFolder + 1
        /\ DOMAIN folders' = DOMAIN folders \union {nextFolder}
        /\ \A f \in DOMAIN folders : f # nextFolder /\ folders'[f] = folders[f]
    BY <1>1, <1>2, MakeFolderKeeps DEF CreateFolder, TreeInv
  <2>2. nextFolder \in Nat
    BY Counters
  <2>3. \A f \in DOMAIN folders' : f < nextFolder => f \in DOMAIN folders /\ folders'[f] = folders[f]
    BY <2>1, <2>2
  <2>. QED
    BY <1>1, <2>1, <2>2, <2>3, FoldersRemember
<1>3. ASSUME NEW f, DeleteFolder(f) PROVE TreeInv'
  <2>1. FolderFree(f) /\ folders' = Without(folders, {f}) /\ nextFolder' = nextFolder
    BY <1>3 DEF DeleteFolder
  <2>2. /\ FoldersInv' /\ SessInv' /\ DOMAIN folders' = DOMAIN folders \ {f}
        /\ \A g \in DOMAIN folders' : folders'[g] = folders[g]
    BY <1>1, <2>1, TakeFolderKeeps DEF TreeInv
  <2>. QED
    BY <1>1, <2>1, <2>2, Counters, FoldersRemember
<1>. QED
  BY <1>2, <1>3

\* Settings, and a restart, leave the tree and the snapshots alone.
LEMMA SettingsAside ==
    ASSUME Sources \/ CustomEdit \/ Restart
    PROVE  /\ UNCHANGED <<sess, folders, nextId, nextFolder, old, doomed, recs, at, cache, skipped,
                          twins, disturbed, revived>>
           /\ usr' = usr \/ ~Has("session")'
<1>1. CASE Sources
  BY <1>1 DEF Sources, Passphrase, StoreSecret, KeepSecret, SetSource, ClearSecret, ClearSource,
     OtherSecret, tree, mine, Has
<1>2. CASE CustomEdit
  BY <1>2 DEF CustomEdit, tree, mine
<1>3. CASE Restart
  BY <1>3 DEF Restart, tree, Has
<1>. QED
  BY <1>1, <1>2, <1>3

LEMMA EditsKeepTree ==
    ASSUME PcInv, TreeInv, Edits
    PROVE  TreeInv'
<1>1. CASE CancelRefresh
  <2>1. UNCHANGED <<sess, folders, nextId, nextFolder, old, doomed, usr>>
    BY <1>1 DEF CancelRefresh, tree
  <2>. QED
    BY <2>1, TreeAside
<1>2. CASE \E path \in Paths \ {""} : CreateFolder(path)
  BY <1>2, UserFoldersKeep
<1>3. CASE \E f \in 0..MaxFolders : DeleteFolder(f)
  BY <1>3, UserFoldersKeep
<1>. QED
  BY <1>1, <1>2, <1>3, CreateKeeps, ReadKeeps, DeleteKeeps, RenamesKeep DEF Edits

LEMMA TreeKeeps == PcInv /\ TreeInv /\ [Next]_vars => TreeInv'
<1>. SUFFICES ASSUME PcInv, TreeInv, [Next]_vars PROVE TreeInv'
  OBVIOUS
<1>1. CASE \E r \in Refreshes : Refresh(r)
  BY <1>1, StepsKeepTree DEF Refresh
<1>2. CASE Edits
  BY <1>2, EditsKeepTree
<1>3. CASE Sources \/ CustomEdit \/ Restart
  BY <1>3, SettingsAside, TreeAside
<1>4. CASE UNCHANGED vars
  <2>1. UNCHANGED <<sess, folders, nextId, nextFolder, old, doomed, usr>>
    BY <1>4 DEF vars, tree, mine
  <2>. QED
    BY <2>1, TreeAside
<1>. QED
  BY <1>1, <1>2, <1>3, <1>4 DEF Next

LEMMA TreeInvTyped == PcInv /\ TreeInv /\ SettingsInv => TypeOK
<1>. SUFFICES ASSUME PcInv, TreeInv, SettingsInv PROVE TypeOK
  OBVIOUS
<1>1. SecretsType /\ CustomsType
  BY CustomsSound DEF SettingsInv, SecretsInv
<1>. QED
  BY <1>1 DEF TypeOK, PcInv, TreeInv, FoldersInv, SessInv

\* The store's sessions and folders are what they should be, names are unique in a folder,
\* no session is without its folder, and what is registered is a refresh under way.
THEOREM TypeCorrect == Spec => []TypeOK
<1>1. Init => PcInv /\ TreeInv /\ SettingsInv
  BY PcStart, TreeStart, SettingsStart
<1>2. PcInv /\ TreeInv /\ SettingsInv /\ [Next]_vars => (PcInv /\ TreeInv /\ SettingsInv)'
  BY PcKeeps, TreeKeeps, SettingsKeep
<1>. QED
  BY <1>1, <1>2, TreeInvTyped, PTL DEF Spec

-----------------------------------------------------------------------------
(* HandMadeKept *)

LEMMA RefreshKeepsHandMade ==
    ASSUME PcInv, TreeInv, NEW r \in Refreshes, Steps(r)
    PROVE  /\ \A id \in DOMAIN sess : ~sess[id].gen => id \in DOMAIN sess' /\ sess'[id] = sess[id]
           /\ \A f \in DOMAIN folders : ~folders[f].owned => f \in DOMAIN folders'
<1>1. CASE Begin(r) \/ Register(r) \/ FetchFails(r) \/ Fetched(r) \/ Snapshot(r) \/ Place(r)
           \/ FindFolder(r) \/ LookToPrune(r) \/ Unregister(r)
  <2>1. UNCHANGED <<sess, folders>>
    BY <1>1 DEF Begin, Register, FetchFails, Fetched, Snapshot, Place, FindFolder, LookToPrune,
       Unregister, tree
  <2>. QED
    BY <2>1
<1>2. CASE MakeLeaf(r)
  BY <1>2 DEF MakeLeaf, MakeFolder, Bind
<1>3. CASE PutRecord(r)
  <2>1. folders' = folders
    BY <1>3 DEF PutRecord
  <2>2. ASSUME NEW id, PutAsSession(r, id), NEW i \in DOMAIN sess, ~sess[i].gen
        PROVE  i \in DOMAIN sess' /\ sess'[i] = sess[i]
    <3>1. nextId \notin DOMAIN sess
      BY Counters DEF TreeInv, SessInv
    <3>2. Record(r).key \in DOMAIN old[r] /\ id = old[r][Record(r).key].id /\ id \in DOMAIN sess
             => sess[id].gen
      BY DEF TreeInv, SnapshotInv
    <3>3. i # id
      BY <2>2, <3>1, <3>2 DEF PutAsSession
    <3>. QED
      BY <2>2, <3>3 DEF PutAsSession
  <2>. QED
    BY <1>3, <2>1, <2>2, PutRecordDoes
<1>4. CASE RemoveStale(r)
  <2>1. folders' = folders
    BY <1>4 DEF RemoveStale
  <2>2. CASE sess' = sess
    BY <2>1, <2>2
  <2>3. CASE sess' # sess
    <3>1. PICK k \in Stale(r) : old[r][k].id \in DOMAIN sess /\ sess' = Without(sess, {old[r][k].id})
      BY <1>4, <2>3 DEF RemoveStale
    <3>2. sess[old[r][k].id].gen
      BY <3>1 DEF TreeInv, SnapshotInv, Stale
    <3>. QED
      BY <2>1, <3>1, <3>2 DEF Without, Restrict
  <2>. QED
    BY <2>2, <2>3
<1>5. CASE Prune(r)
  <2>1. sess' = sess
    BY <1>5 DEF Prune
  <2>2. CASE folders' = folders
    BY <2>1, <2>2
  <2>3. CASE folders' # folders
    <3>1. PICK f \in doomed[r] : f \in DOMAIN folders /\ folders' = Without(folders, {f})
      BY <1>5, <2>3 DEF Prune
    <3>2. folders[f].owned
      BY <3>1 DEF TreeInv, DoomedInv
    <3>. QED
      BY <2>1, <3>1, <3>2 DEF Without, Restrict
  <2>. QED
    BY <2>2, <2>3
<1>. QED
  BY <1>1, <1>2, <1>3, <1>4, <1>5 DEF Steps

\* Every operation of the user's that changes the tree is counted, or is the end of one
\* that is under way.
LEMMA EditsShow ==
    ASSUME PcInv, Edits
    PROVE  edits' # edits \/ usr' # usr
<1>1. edits \in Nat
  BY DEF PcInv
<1>2. CASE edits' = edits + 1
  BY <1>1, <1>2
<1>3. CASE usr # None /\ usr' = None
  BY <1>3
<1>. QED
  BY <1>2, <1>3 DEF Edits, CancelRefresh, CreateSession, ReadSession, DeleteSession, Rename, Duplicate,
     SetJumpChain, WriteSession, CreateFolder, DeleteFolder, UserOp, Has

\* However stale its snapshot, no refresh changes or deletes a session that is not a source's,
\* nor a folder that is not of a refresh's making.
THEOREM HandMadeStays == Spec => HandMadeKept
<1>1. Init => PcInv /\ TreeInv
  BY PcStart, TreeStart
<1>2. PcInv /\ TreeInv /\ [Next]_vars => (PcInv /\ TreeInv)'
  BY PcKeeps, TreeKeeps
<1> DEFINE Kept == /\ \A id \in DOMAIN sess : ~sess[id].gen => id \in DOMAIN sess' /\ sess'[id] = sess[id]
                   /\ \A f \in DOMAIN folders : ~folders[f].owned => f \in DOMAIN folders'
<1>3. PcInv /\ TreeInv /\ [Next]_vars => [UNCHANGED <<usr, edits>> => Kept]_vars
  <2>. SUFFICES ASSUME PcInv, TreeInv, Next, UNCHANGED <<usr, edits>>
                PROVE  Kept
    OBVIOUS
  <2>1. CASE \E r \in Refreshes : Refresh(r)
    BY <2>1, RefreshKeepsHandMade DEF Refresh
  <2>2. CASE Edits
    BY <2>2, EditsShow
  <2>3. CASE Sources \/ CustomEdit \/ Restart
    BY <2>3, SettingsAside
  <2>. QED
    BY <2>1, <2>2, <2>3 DEF Next
<1>. QED
  BY <1>1, <1>2, <1>3, PTL DEF Spec, HandMadeKept

-----------------------------------------------------------------------------
(* WorksInv is inductive *)

MineInv == DOMAIN cache = Refreshes /\ DOMAIN skipped = Refreshes /\ DOMAIN twins = Refreshes

\* Nothing of refresh r changes but the tree.
SameOf(r) ==
    /\ pc'[r] = pc[r] /\ recs'[r] = recs[r] /\ at'[r] = at[r] /\ old'[r] = old[r]
    /\ cache'[r] = cache[r] /\ skipped'[r] = skipped[r] /\ twins'[r] = twins[r]

LEMMA WorkAside ==
    ASSUME NEW r \in Refreshes, WorkInv(r), SameOf(r), UNCHANGED <<sess, folders>>
    PROVE  WorkInv(r)'
<1>1. OfSource' = OfSource /\ KeysOnce(recs[r])' = KeysOnce(recs[r]) /\ Stale(r)' = Stale(r)
  BY DEF SameOf, OfSource, KeysOnce, Stale
<1>2. \A i : Placed(r, i)' = Placed(r, i)
  BY <1>1 DEF SameOf, Placed
<1>3. Record(r)' = Record(r) /\ \A f : FolderFree(f)' = FolderFree(f)
  BY DEF SameOf, Record, FolderFree
<1>. QED
  BY <1>1, <1>2, <1>3 DEF WorkInv, SameOf

LEMMA MineStart == Init => MineInv
BY DEF Init, MineInv

\* A step of a refresh is the other refreshes' only by what it does to the tree, and when it
\* does anything to the tree they are disturbed.
LEMMA OthersAside ==
    ASSUME PcInv, TreeInv, MineInv, NEW q \in Refreshes, Steps(q)
    PROVE  /\ MineInv'
           /\ \A r \in Refreshes \ {q} : SameOf(r)
           /\ Disturb(q) \/ UNCHANGED <<sess, folders, disturbed>>
           /\ revived' = revived
<1>1. /\ DOMAIN pc = Refreshes /\ DOMAIN recs = Refreshes /\ DOMAIN at = Refreshes
      /\ DOMAIN old = Refreshes
  BY DEF PcInv, TreeInv, SnapshotInv
<1>. USE <1>1 DEF MineInv, SameOf, GoTo, tree
<1>2. CASE Begin(q) \/ Register(q) \/ FetchFails(q) \/ Unregister(q)
  BY <1>2 DEF Begin, Register, FetchFails, Unregister
<1>3. CASE Fetched(q)
  BY <1>3 DEF Fetched
<1>4. CASE Snapshot(q)
  <2>1. /\ UNCHANGED <<sess, folders, disturbed, revived, recs>>
        /\ \E l : pc' = [pc EXCEPT ![q] = l]
        /\ \/ UNCHANGED <<old, at, cache, skipped, twins>>
           \/ /\ \E v : old' = [old EXCEPT ![q] = v]
              /\ \E v : at' = [at EXCEPT ![q] = v]
              /\ \E v : cache' = [cache EXCEPT ![q] = v]
              /\ \E v : skipped' = [skipped EXCEPT ![q] = v]
              /\ \E v : twins' = [twins EXCEPT ![q] = v]
    BY <1>4 DEF Snapshot
  <2>. QED
    BY <2>1
<1>5. CASE Place(q)
  BY <1>5 DEF Place
<1>6. CASE FindFolder(q)
  BY <1>6 DEF FindFolder
<1>7. CASE MakeLeaf(q)
  BY <1>7 DEF MakeLeaf
<1>8. CASE PutRecord(q)
  <2>1. /\ UNCHANGED <<folders, revived, recs, old, cache, twins>>
        /\ Disturb(q) \/ UNCHANGED <<sess, disturbed>>
        /\ \E l : pc' = [pc EXCEPT ![q] = l]
        /\ at' = at \/ \E v : at' = [at EXCEPT ![q] = v]
        /\ skipped' = skipped \/ \E v : skipped' = [skipped EXCEPT ![q] = v]
    BY <1>8 DEF PutRecord, Advance
  <2>. QED
    BY <2>1
<1>9. CASE RemoveStale(q)
  <2>1. /\ UNCHANGED <<folders, revived, recs, at, cache, skipped, twins>>
        /\ Disturb(q) \/ UNCHANGED <<sess, disturbed>>
        /\ pc' = pc \/ \E l : pc' = [pc EXCEPT ![q] = l]
        /\ old' = old \/ \E v : old' = [old EXCEPT ![q] = v]
    BY <1>9 DEF RemoveStale
  <2>. QED
    BY <2>1
<1>10. CASE LookToPrune(q)
  BY <1>10 DEF LookToPrune
<1>11. CASE Prune(q)
  BY <1>11 DEF Prune
<1>. QED
  BY <1>2, <1>3, <1>4, <1>5, <1>6, <1>7, <1>8, <1>9, <1>10, <1>11 DEF Steps

\* A snapshot just taken has every generated session, but for the twins.
LEMMA SnapshotWorks ==
    ASSUME PcInv, TreeInv, MineInv, NEW r \in Refreshes, Snapshot(r), pc'[r] = "place"
    PROVE  WorkInv(r)'
<1>1. /\ DOMAIN pc = Refreshes /\ DOMAIN at = Refreshes /\ DOMAIN old = Refreshes
      /\ recs[r] \in Seq(Rec)
  BY DEF PcInv, TreeInv, SnapshotInv
<1>2. Source \in DOMAIN folders /\ UNCHANGED <<sess, folders, recs>>
  BY <1>1 DEF Snapshot, GoTo, tree
<1>3. PICK pick \in [{sess[id].key : id \in Generated} -> Generated] :
         /\ \A k \in DOMAIN pick : sess[pick[k]].key = k
         /\ old' = [old EXCEPT ![r] = [k \in DOMAIN pick |-> [id |-> pick[k], was |-> sess[pick[k]]]]]
  BY <1>2 DEF Snapshot
<1>4. /\ DOMAIN old'[r] = {sess[id].key : id \in Generated}
      /\ \A k \in DOMAIN old'[r] : old'[r][k].id = pick[k] /\ pick[k] \in Generated /\ sess[pick[k]].key = k
  BY <1>1, <1>3
<1>5. /\ at'[r] = 1 /\ cache'[r] = Bind(Empty, "", Source)
      /\ twins'[r] = {id \in Generated : \E other \in Generated \ {id} : sess[other].key = sess[id].key}
  BY <1>1, <1>2 DEF Snapshot, MineInv
<1>6. OfSource' = Generated /\ Generated \subseteq DOMAIN sess /\ OfSource = Generated
  BY <1>2 DEF OfSource, Generated
<1>7. \A p \in DOMAIN cache'[r] : cache'[r][p] \in DOMAIN folders' /\ folders'[cache'[r][p]].path = p
  <2>1. folders[Source].path = ""
    <3>1. folders[Source] = Root
      BY <1>2 DEF TreeInv, FoldersInv
    <3>2. Root.path = ""
      BY Zenon DEF Root
    <3>. QED
      BY <3>1, <3>2, Zenon
  <2>. QED
    BY <1>2, <1>5, <2>1 DEF Bind, Empty
<1>8. \A id \in OfSource' \ twins'[r] :
         sess'[id].key \in DOMAIN old'[r] /\ old'[r][sess'[id].key].id = id
  <2>. SUFFICES ASSUME NEW id \in Generated, id \notin twins'[r]
                PROVE  sess[id].key \in DOMAIN old'[r] /\ old'[r][sess[id].key].id = id
    BY <1>2, <1>6
  <2>. DEFINE k == sess[id].key
  <2>1. k \in {sess[other].key : other \in Generated}
    OBVIOUS
  <2>2. k \in DOMAIN old'[r]
    BY <1>4, <2>1
  <2>3. old'[r][k].id = pick[k] /\ pick[k] \in Generated /\ sess[pick[k]].key = k
    BY <1>4, <2>2
  <2>4. \A other \in Generated \ {id} : sess[other].key # sess[id].key
    BY <1>5
  <2>. QED
    BY <2>2, <2>3, <2>4
<1>9. \A id \in OfSource' : sess'[id].key \in DOMAIN old'[r]
  BY <1>2, <1>4, <1>6
<1>10. \A k \in DOMAIN old'[r] : old'[r][k].id \in DOMAIN sess'
  BY <1>2, <1>4, <1>6
<1>11. \A i \in DOMAIN recs'[r] : ~(i < at'[r])
  <2>1. DOMAIN recs'[r] = 1..Len(recs[r]) /\ Len(recs[r]) \in Nat
    BY <1>1, <1>2
  <2>2. at'[r] = 1
    BY <1>5, Zenon
  <2>. QED
    BY <2>1, <2>2
<1>12. pc'[r] = "place"
  OBVIOUS
<1>. QED
  BY <1>7, <1>8, <1>9, <1>10, <1>11, <1>12 DEF WorkInv, Placing

LEMMA PlaceWorks ==
    ASSUME PcInv, NEW r \in Refreshes, WorkInv(r), Place(r)
    PROVE  WorkInv(r)'
<1>1. /\ UNCHANGED <<sess, folders, recs, at, old, cache, skipped, twins>> /\ pc[r] = "place"
      /\ pc'[r] = IF at[r] > Len(recs[r]) THEN "remove"
                  ELSE IF Record(r).path \in DOMAIN cache[r] THEN "put" ELSE "find"
  BY DEF Place, tree, PcInv, GoTo
<1>2. CASE at[r] > Len(recs[r]) /\ pc'[r] = "remove"
  BY <1>1, <1>2 DEF WorkInv, OfSource, KeysOnce, Placed, Placing
<1>3. CASE Record(r).path \in DOMAIN cache[r] /\ pc'[r] = "put"
  BY <1>1, <1>3 DEF WorkInv, OfSource, KeysOnce, Placed, Placing, Record
<1>4. CASE pc'[r] = "find"
  BY <1>1, <1>4 DEF WorkInv, OfSource, KeysOnce, Placed, Placing
<1>. QED
  BY <1>1, <1>2, <1>3, <1>4

LEMMA FindFolderWorks ==
    ASSUME PcInv, MineInv, NEW r \in Refreshes, WorkInv(r), FindFolder(r), pc'[r] # "unregister"
    PROVE  WorkInv(r)'
<1>1. UNCHANGED <<sess, folders, recs, at, old, skipped, twins>> /\ pc[r] \in {"find", "refind"}
  BY DEF FindFolder, tree
<1>2. CASE pc'[r] = "make" /\ cache' = cache
  BY <1>1, <1>2 DEF WorkInv, OfSource, KeysOnce, Placed, Placing
<1>3. CASE \E f \in FolderAt(Record(r).path) :
              pc'[r] = "put" /\ cache'[r] = Bind(cache[r], Record(r).path, f)
  <2>1. PICK f \in FolderAt(Record(r).path) :
           pc'[r] = "put" /\ cache'[r] = Bind(cache[r], Record(r).path, f)
    BY <1>3
  <2>2. f \in DOMAIN folders /\ folders[f].path = Record(r).path
    BY DEF FolderAt
  <2>3. /\ DOMAIN cache'[r] = DOMAIN cache[r] \union {Record(r).path}
        /\ \A p \in DOMAIN cache'[r] :
              cache'[r][p] = IF p = Record(r).path THEN f ELSE cache[r][p]
    BY <2>1 DEF Bind
  <2>4. \A p \in DOMAIN cache[r] : cache[r][p] \in DOMAIN folders /\ folders[cache[r][p]].path = p
    BY <1>1 DEF WorkInv, Placing
  <2>5. \A p \in DOMAIN cache'[r] : cache'[r][p] \in DOMAIN folders' /\ folders'[cache'[r][p]].path = p
    BY <1>1, <2>2, <2>3, <2>4
  <2>6. Record(r)' = Record(r)
    BY <1>1 DEF Record
  <2>. QED
    BY <1>1, <2>1, <2>3, <2>5, <2>6 DEF WorkInv, OfSource, KeysOnce, Placed, Placing
<1>4. DOMAIN pc = Refreshes
  BY DEF PcInv
<1>. QED
  BY <1>2, <1>3, <1>4 DEF FindFolder, GoTo, MineInv

LEMMA MakeLeafWorks ==
    ASSUME PcInv, TreeInv, NEW r \in Refreshes, WorkInv(r), MakeLeaf(r), pc'[r] # "unregister"
    PROVE  WorkInv(r)'
<1>1. /\ UNCHANGED <<sess, recs, at, old, cache, skipped, twins>> /\ pc[r] = "make"
      /\ MakeFolder(Record(r).path, TRUE) /\ pc'[r] = "refind"
  BY DEF MakeLeaf, GoTo, PcInv
<1>2. nextFolder \notin DOMAIN folders
  BY Counters DEF TreeInv, FoldersInv
<1>3. DOMAIN folders \subseteq DOMAIN folders' /\ \A f \in DOMAIN folders : folders'[f] = folders[f]
  BY <1>1, <1>2 DEF MakeFolder, Bind
<1>4. \A id \in DOMAIN sess : sess[id].folder \in DOMAIN folders
  BY DEF TreeInv, SessInv
<1>5. \A i : Placed(r, i) => Placed(r, i)'
  BY <1>1, <1>3, <1>4 DEF Placed, OfSource
<1>6. \A p \in DOMAIN cache'[r] : cache'[r][p] \in DOMAIN folders' /\ folders'[cache'[r][p]].path = p
  BY <1>1, <1>3 DEF WorkInv, Placing
<1>7. OfSource' = OfSource /\ KeysOnce(recs[r])' = KeysOnce(recs[r])
  BY <1>1 DEF OfSource, KeysOnce
<1>. QED
  BY <1>1, <1>5, <1>6, <1>7 DEF WorkInv, Placing

\* A record that is put is placed, and no record placed before is displaced.
LEMMA PutRecordWorks ==
    ASSUME PcInv, TreeInv, MineInv, NEW r \in Refreshes, WorkInv(r), PutRecord(r), pc'[r] # "unregister"
    PROVE  WorkInv(r)'
<1>1. /\ pc[r] = "put" /\ UNCHANGED <<folders, recs, old, cache, twins>>
      /\ DOMAIN pc = Refreshes /\ DOMAIN at = Refreshes /\ at[r] \in Nat
      /\ recs[r] \in Seq(Rec)
  BY DEF PutRecord, PcInv
<1>2. at[r] \in DOMAIN recs[r] /\ DOMAIN recs[r] = 1..Len(recs[r]) /\ Record(r) = recs[r][at[r]]
  BY <1>1, RecordTyped DEF Record
<1>3. /\ Record(r).path \in DOMAIN cache[r]
      /\ \A p \in DOMAIN cache[r] : cache[r][p] \in DOMAIN folders /\ folders[cache[r][p]].path = p
      /\ \A k \in DOMAIN old[r] : old[r][k].id \in DOMAIN sess
      /\ \A id \in OfSource \ twins[r] :
            \/ sess[id].key \in DOMAIN old[r] /\ old[r][sess[id].key].id = id
            \/ \E i \in DOMAIN recs[r] : recs[r][i].key = sess[id].key
      /\ KeysOnce(recs[r]) => \A i \in DOMAIN recs[r] \ skipped[r] : i < at[r] => Placed(r, i)
      /\ \A id \in OfSource :
            \/ sess[id].key \in DOMAIN old[r]
            \/ \E i \in DOMAIN recs[r] : i < at[r] /\ recs[r][i].key = sess[id].key
  BY <1>1 DEF WorkInv, Placing
<1>4. ASSUME Advance(r)
      PROVE  pc'[r] = "place" /\ at'[r] = at[r] + 1 /\ \A i \in DOMAIN recs[r] : i < at'[r] => i = at[r] \/ i < at[r]
  BY <1>1, <1>2, <1>4 DEF Advance, GoTo
<1>5. KeysOnce(recs[r])' = KeysOnce(recs[r])
  BY <1>1 DEF KeysOnce
<1>6. CASE /\ UNCHANGED <<sess, nextId>>
           /\ skipped' = [skipped EXCEPT ![r] = @ \union {at[r]}] /\ Advance(r)
  <2>1. OfSource' = OfSource /\ \A i : Placed(r, i)' = Placed(r, i)
    BY <1>1, <1>6 DEF OfSource, Placed
  <2>2. skipped'[r] = skipped[r] \union {at[r]}
    BY <1>6 DEF MineInv
  <2>3. KeysOnce(recs[r]) => \A i \in DOMAIN recs[r] \ skipped'[r] : i < at'[r] => Placed(r, i)
    BY <1>3, <1>4, <1>6, <2>2
  <2>4. \A id \in OfSource :
            \/ sess[id].key \in DOMAIN old[r]
            \/ \E i \in DOMAIN recs[r] : i < at'[r] /\ recs[r][i].key = sess[id].key
    BY <1>1, <1>2, <1>3, <1>4, <1>6
  <2>. QED
    BY <1>1, <1>3, <1>4, <1>5, <1>6, <2>1, <2>3, <2>4 DEF WorkInv, Placing
<1>7. ASSUME NEW id, PutAsSession(r, id), Advance(r), skipped' = skipped
      PROVE  WorkInv(r)'
  <2>1. /\ DOMAIN sess' = DOMAIN sess \union {id}
        /\ \A j \in DOMAIN sess \ {id} : sess'[j] = sess[j]
        /\ sess'[id].key = Record(r).key /\ sess'[id].gen
        /\ sess'[id].name = Record(r).name
        /\ sess'[id].folder = cache[r][Record(r).path]
    BY <1>7 DEF PutAsSession
  <2>2. OfSource' \subseteq OfSource \union {id} /\ id \in OfSource'
    BY <2>1 DEF OfSource
  <2>3. \A j \in OfSource' \ {id} : j \in OfSource /\ sess'[j] = sess[j]
    BY <2>1, <2>2 DEF OfSource
  <2>4. id \in DOMAIN sess => sess[id].gen /\ sess[id].key = Record(r).key
    <3>1. nextId \notin DOMAIN sess
      BY Counters DEF TreeInv, SessInv
    <3>. QED
      BY <1>7, <3>1 DEF PutAsSession, TreeInv, SnapshotInv
  <2>5. ASSUME NEW i, i = at[r] PROVE Placed(r, i)'
    BY <1>1, <1>2, <1>3, <2>1, <2>2, <2>5 DEF Placed
  <2>6. ASSUME KeysOnce(recs[r]), NEW i \in DOMAIN recs[r] \ skipped[r], i < at[r]
        PROVE  Placed(r, i)'
    <3>1. PICK j \in OfSource : /\ sess[j].key = recs[r][i].key /\ sess[j].name = recs[r][i].name
                                /\ folders[sess[j].folder].path = recs[r][i].path
      BY <1>3, <2>6 DEF Placed
    <3>2. recs[r][i].key # Record(r).key
      BY <1>1, <1>2, <2>6 DEF KeysOnce
    <3>3. j # id /\ j \in DOMAIN sess
      BY <2>4, <3>1, <3>2 DEF OfSource
    <3>4. j \in OfSource' /\ sess'[j] = sess[j]
      BY <2>1, <3>1, <3>3 DEF OfSource
    <3>. QED
      BY <1>1, <3>1, <3>4 DEF Placed
  <2>7. KeysOnce(recs[r]) => \A i \in DOMAIN recs[r] \ skipped'[r] : i < at'[r] => Placed(r, i)'
    BY <1>4, <1>7, <2>5, <2>6
  <2>8. \A j \in OfSource' :
            \/ sess'[j].key \in DOMAIN old[r]
            \/ \E i \in DOMAIN recs[r] : i < at'[r] /\ recs[r][i].key = sess'[j].key
    <3>1. at[r] < at'[r] /\ \A i \in DOMAIN recs[r] : i < at[r] => i < at'[r]
      BY <1>1, <1>2, <1>4, <1>7
    <3>. QED
      BY <1>2, <1>3, <2>1, <2>3, <3>1
  <2>9. \A j \in OfSource' \ twins[r] :
            \/ sess'[j].key \in DOMAIN old[r] /\ old[r][sess'[j].key].id = j
            \/ \E i \in DOMAIN recs[r] : recs[r][i].key = sess'[j].key
    BY <1>2, <1>3, <2>1, <2>3
  <2>. QED
    BY <1>1, <1>3, <1>4, <1>5, <1>7, <2>1, <2>7, <2>8, <2>9 DEF WorkInv, Placing
<1>8. CASE GoTo(r, "unregister")
  BY <1>1, <1>8 DEF GoTo
<1>. QED
  BY <1>6, <1>7, <1>8, PutRecordDoes

LEMMA RemoveStaleWorks ==
    ASSUME PcInv, TreeInv, NEW r \in Refreshes, WorkInv(r), RemoveStale(r), pc'[r] # "unregister"
    PROVE  WorkInv(r)'
<1>1. /\ pc[r] = "remove" /\ UNCHANGED <<folders, recs, at, cache, skipped, twins>>
      /\ DOMAIN pc = Refreshes /\ DOMAIN old = Refreshes
  BY DEF RemoveStale, PcInv, TreeInv, SnapshotInv
<1>2. PICK k \in Stale(r) :
         /\ sess' = Without(sess, {old[r][k].id})
         /\ old' = [old EXCEPT ![r] = Without(@, {k})] /\ pc' = pc
  BY <1>1 DEF RemoveStale, GoTo
<1> DEFINE gone == old[r][k].id
<1>3. /\ DOMAIN sess' = DOMAIN sess \ {gone} /\ \A id \in DOMAIN sess' : sess'[id] = sess[id]
      /\ DOMAIN old'[r] = DOMAIN old[r] \ {k} /\ \A l \in DOMAIN old'[r] : old'[r][l] = old[r][l]
  BY <1>1, <1>2 DEF Without, Restrict
<1>4. k \in DOMAIN old[r] /\ \A i \in DOMAIN recs[r] : recs[r][i].key # k
  BY DEF Stale
<1>5. gone \in DOMAIN sess /\ sess[gone].key = k
  BY <1>4 DEF WorkInv, TreeInv, SnapshotInv
<1>6. \A l \in DOMAIN old[r] : old[r][l].id = gone => l = k
  BY <1>4 DEF TreeInv, SnapshotInv
<1>. HIDE DEF gone
<1>7. OfSource' = OfSource \ {gone}
  BY <1>3 DEF OfSource
<1>8. \A l \in DOMAIN old'[r] : old'[r][l].id \in DOMAIN sess'
  BY <1>3, <1>6 DEF WorkInv
<1>9. \A id \in OfSource' \ twins[r] :
         \/ sess'[id].key \in DOMAIN old'[r] /\ old'[r][sess'[id].key].id = id
         \/ \E i \in DOMAIN recs[r] : recs[r][i].key = sess'[id].key
  <2>. SUFFICES ASSUME NEW id \in OfSource \ twins[r], id # gone, id \in OfSource'
                PROVE  \/ sess'[id].key \in DOMAIN old'[r] /\ old'[r][sess'[id].key].id = id
                       \/ \E i \in DOMAIN recs[r] : recs[r][i].key = sess'[id].key
    BY <1>7
  <2>1. sess'[id] = sess[id]
    BY <1>3 DEF OfSource
  <2>2. \/ sess[id].key \in DOMAIN old[r] /\ old[r][sess[id].key].id = id
        \/ \E i \in DOMAIN recs[r] : recs[r][i].key = sess[id].key
    BY DEF WorkInv
  <2>3. old[r][k].id # id
    BY DEF gone
  <2>. QED
    BY <1>3, <2>1, <2>2, <2>3
<1>10. ASSUME NEW i \in DOMAIN recs[r], Placed(r, i) PROVE Placed(r, i)'
  <2>1. PICK id \in OfSource : /\ sess[id].key = recs[r][i].key /\ sess[id].name = recs[r][i].name
                               /\ folders[sess[id].folder].path = recs[r][i].path
    BY <1>10 DEF Placed
  <2>2. id # gone
    BY <1>4, <1>5, <2>1
  <2>3. id \in OfSource' /\ sess'[id] = sess[id]
    BY <1>3, <1>7, <2>1, <2>2 DEF OfSource
  <2>. QED
    BY <1>1, <2>1, <2>3 DEF Placed
<1>11. KeysOnce(recs[r])' = KeysOnce(recs[r]) /\ pc'[r] = "remove"
  BY <1>1, <1>2 DEF KeysOnce
<1>. QED
  BY <1>1, <1>8, <1>9, <1>10, <1>11 DEF WorkInv, Placing

LEMMA LookToPruneWorks ==
    ASSUME PcInv, TreeInv, NEW r \in Refreshes, WorkInv(r), LookToPrune(r)
    PROVE  WorkInv(r)'
<1> DEFINE D == {f \in DOMAIN folders \ {Source} : folders[f].owned /\ FolderFree(f)}
<1>1. /\ UNCHANGED <<sess, folders, recs, at, old, cache, skipped, twins>> /\ pc[r] = "remove"
      /\ Stale(r) = {} /\ doomed'[r] = D
      /\ pc'[r] = IF D = {} THEN "reconciled" ELSE "prune"
  <2>1. DOMAIN doomed = Refreshes /\ DOMAIN pc = Refreshes
    BY DEF PcInv, TreeInv, DoomedInv
  <2>2. doomed'[r] = D
    BY <2>1 DEF LookToPrune
  <2>. HIDE DEF D
  <2>. QED
    BY <2>1, <2>2 DEF LookToPrune, tree, GoTo
<1>2. Source \in DOMAIN folders => ~folders[Source].owned
  BY RootIs DEF TreeInv, FoldersInv
<1>3. D = {} => \A f \in DOMAIN folders : folders[f].owned => ~FolderFree(f)
  BY <1>2
<1>. HIDE DEF D
<1>4. OfSource' = OfSource /\ KeysOnce(recs[r])' = KeysOnce(recs[r]) /\ Stale(r)' = Stale(r)
      /\ (\A f : FolderFree(f)' = FolderFree(f)) /\ \A i : Placed(r, i)' = Placed(r, i)
  BY <1>1 DEF OfSource, KeysOnce, Stale, FolderFree, Placed
<1>. QED
  BY <1>1, <1>3, <1>4 DEF WorkInv, Placing

LEMMA PruneWorks ==
    ASSUME PcInv, TreeInv, NEW r \in Refreshes, WorkInv(r), Prune(r), pc'[r] # "unregister"
    PROVE  WorkInv(r)'
<1>1. UNCHANGED <<sess, recs, at, old, cache, skipped, twins>> /\ pc[r] = "prune" /\ DOMAIN pc = Refreshes
  BY DEF Prune, PcInv
<1>2. PICK f : FolderFree(f) /\ folders' = Without(folders, {f}) /\ pc'[r] \in {"remove", "prune"}
  BY <1>1 DEF Prune, GoTo
<1>3. \A g \in DOMAIN folders \ {f} : folders'[g] = folders[g]
  BY <1>2 DEF Without, Restrict
<1>4. \A id \in DOMAIN sess : sess[id].folder # f /\ sess[id].folder \in DOMAIN folders
  BY <1>2 DEF FolderFree, TreeInv, SessInv
<1>5. \A i : Placed(r, i) => Placed(r, i)'
  BY <1>1, <1>3, <1>4 DEF Placed, OfSource
<1>6. OfSource' = OfSource /\ KeysOnce(recs[r])' = KeysOnce(recs[r]) /\ Stale(r)' = Stale(r)
  BY <1>1 DEF OfSource, KeysOnce, Stale
<1>. QED
  BY <1>1, <1>2, <1>5, <1>6 DEF WorkInv, Placing

LEMMA WorksStart == Init => WorksInv
BY DEF Init, WorksInv, Working

LEMMA StepsKeepWorks ==
    ASSUME PcInv, TreeInv, MineInv, WorksInv, NEW q \in Refreshes, Steps(q)
    PROVE  MineInv' /\ WorksInv'
<1>1. /\ MineInv'
      /\ \A r \in Refreshes \ {q} : SameOf(r)
      /\ Disturb(q) \/ UNCHANGED <<sess, folders, disturbed>>
  BY OthersAside
<1>2. ASSUME NEW r \in Working' \ disturbed', r # q PROVE WorkInv(r)'
  <2>1. SameOf(r) /\ r \in Working /\ r \in Refreshes
    BY <1>1, <1>2 DEF SameOf, Working
  <2>2. UNCHANGED <<sess, folders>> /\ r \notin disturbed
    BY <1>1, <1>2, <2>1 DEF Disturb
  <2>. QED
    BY <2>1, <2>2, WorkAside DEF WorksInv
<1>3. ASSUME q \in Working' \ disturbed' PROVE WorkInv(q)'
  <2>1. q \notin disturbed
    BY <1>1, <1>3 DEF Disturb
  <2>2. pc'[q] \in {"place", "find", "make", "refind", "put", "remove", "prune", "reconciled"}
    BY <1>3 DEF Working
  <2>3. DOMAIN pc = Refreshes
    BY DEF PcInv
  <2>4. ~(Begin(q) \/ Register(q) \/ FetchFails(q) \/ Fetched(q) \/ Unregister(q))
    BY <2>2, <2>3 DEF Begin, Register, FetchFails, Fetched, Unregister, GoTo
  <2>5. CASE Snapshot(q)
    <3>1. pc'[q] = "place"
      BY <2>2, <2>3, <2>5 DEF Snapshot, GoTo
    <3>. QED
      BY <2>5, <3>1, SnapshotWorks
  <2>6. CASE ~Snapshot(q)
    <3>1. pc[q] \in {"place", "find", "make", "refind", "put", "remove", "prune"}
      BY <2>4, <2>6 DEF Steps, Place, FindFolder, MakeLeaf, PutRecord, RemoveStale, LookToPrune, Prune
    <3>2. WorkInv(q)
      BY <2>1, <3>1 DEF Working, WorksInv
    <3>. QED
      BY <2>2, <2>4, <2>6, <3>2, PlaceWorks, FindFolderWorks, MakeLeafWorks, PutRecordWorks,
         RemoveStaleWorks, LookToPruneWorks, PruneWorks DEF Steps
  <2>. QED
    BY <2>5, <2>6
<1>. QED
  BY <1>1, <1>2, <1>3 DEF WorksInv

\* An edit of the tree disturbs every refresh under way.
LEMMA EditsDisturb ==
    ASSUME Edits
    PROVE  /\ Disturb(None) \/ UNCHANGED <<sess, folders, disturbed>>
           /\ UNCHANGED <<pc, recs, at, old, cache, skipped, twins>>
BY DEF Edits, CancelRefresh, CreateSession, ReadSession, DeleteSession, Rename, Duplicate,
   SetJumpChain, WriteSession, CreateFolder, DeleteFolder, UserOp, mine, tree

LEMMA UserKeepsWorks ==
    ASSUME MineInv, WorksInv, Disturb(None) \/ UNCHANGED <<sess, folders, disturbed>>,
           UNCHANGED <<pc, recs, at, old, cache, skipped, twins>>
    PROVE  MineInv' /\ WorksInv'
<1>1. MineInv' /\ Working' = Working /\ None \notin Working
  BY LibraryAssumption DEF MineInv, Working
<1>2. ASSUME NEW r \in Working' \ disturbed' PROVE WorkInv(r)'
  <2>1. UNCHANGED <<sess, folders, disturbed>> /\ r \in Working /\ SameOf(r) /\ r \in Refreshes
    BY <1>1, <1>2 DEF Disturb, SameOf, Working
  <2>. QED
    BY <1>2, <2>1, WorkAside DEF WorksInv
<1>. QED
  BY <1>1, <1>2 DEF WorksInv

LEMMA WorksKeep == PcInv /\ TreeInv /\ MineInv /\ WorksInv /\ [Next]_vars => (MineInv /\ WorksInv)'
<1>. SUFFICES ASSUME PcInv, TreeInv, MineInv, WorksInv, [Next]_vars PROVE (MineInv /\ WorksInv)'
  OBVIOUS
<1>1. CASE \E r \in Refreshes : Refresh(r)
  BY <1>1, StepsKeepWorks DEF Refresh
<1>2. CASE Edits
  BY <1>2, EditsDisturb, UserKeepsWorks
<1>3. CASE (Sources /\ UNCHANGED <<scene, customVars>>) \/ (CustomEdit /\ UNCHANGED scene)
  BY <1>3, SettingsAside, UserAside, UserKeepsWorks
<1>4. CASE Restart
  <2>1. UNCHANGED <<cache, skipped, twins>> /\ Working' = {}
    BY <1>4 DEF Restart, Working
  <2>. QED
    BY <2>1 DEF MineInv, WorksInv
<1>5. CASE UNCHANGED vars
  BY <1>5, UserKeepsWorks DEF vars, tree, mine
<1>. QED
  BY <1>1, <1>2, <1>3, <1>4, <1>5 DEF Next

-----------------------------------------------------------------------------
(* OneInv is inductive *)

LEMMA NoRecords == KeysOnce(<<>>)
BY DEF KeysOnce

LEMMA AloneBefore ==
    ASSUME PcInv, disturbed \subseteq disturbed', revived => revived',
           UNCHANGED recs \/ \E r \in Refreshes : Fetched(r),
           Alone'
    PROVE  Alone
<1>1. disturbed = {} /\ ~revived
  BY DEF Alone
<1>2. ASSUME NEW q \in Refreshes PROVE KeysOnce(recs[q])
  <2>1. CASE recs' = recs
    BY <2>1 DEF Alone, KeysOnce
  <2>2. CASE \E r \in Refreshes : Fetched(r)
    <3>1. PICK r \in Refreshes : Fetched(r)
      BY <2>2
    <3>2. CASE q = r
      <4>1. recs[q] = <<>>
        BY <3>1, <3>2 DEF Fetched, PcInv
      <4>. QED
        BY <4>1, NoRecords
    <3>3. CASE q # r
      <4>1. recs'[q] = recs[q]
        BY <3>1, <3>3 DEF Fetched, PcInv
      <4>. QED
        BY <4>1 DEF Alone, KeysOnce
    <3>. QED
      BY <3>2, <3>3
  <2>. QED
    BY <2>1, <2>2
<1>. QED
  BY <1>1, <1>2 DEF Alone

\* If the generated sessions are those there were, with their keys, no two have one key.
LEMMA FewerAreOne ==
    ASSUME OneInv, Alone, \A id \in OfSource' : id \in OfSource /\ sess'[id].key = sess[id].key
    PROVE  OneInv'
BY DEF OneInv

\* A record is of no other generated session than the one it is put as.
LEMMA PutRecordIsOne ==
    ASSUME PcInv, TreeInv, WorksInv, OneInv, Alone, NEW r \in Refreshes, PutRecord(r)
    PROVE  OneInv'
<1>1. pc[r] = "put" /\ WorkInv(r)
  BY DEF PutRecord, Working, WorksInv, Alone
<1>2. CASE sess' = sess
  BY <1>2, FewerAreOne DEF OfSource
<1>3. ASSUME NEW id, PutAsSession(r, id) PROVE OneInv'
  <2>1. /\ OfSource' \subseteq OfSource \union {id}
        /\ \A j \in OfSource' \ {id} : j \in OfSource /\ sess'[j] = sess[j]
        /\ sess'[id].key = Record(r).key
    BY <1>3 DEF PutAsSession, OfSource
  <2>2. ASSUME NEW j \in OfSource, j # id PROVE sess[j].key # Record(r).key
    <3>1. CASE Record(r).key \in DOMAIN old[r] /\ id = old[r][Record(r).key].id
      <4>1. id \in OfSource /\ sess[id].key = Record(r).key
        BY <1>1, <3>1 DEF WorkInv, OfSource, TreeInv, SnapshotInv
      <4>. QED
        BY <2>2, <4>1 DEF OneInv
    <3>2. CASE Record(r).key \notin DOMAIN old[r]
      <4>. SUFFICES ASSUME sess[j].key = Record(r).key PROVE FALSE
        OBVIOUS
      <4>1. PICK i \in DOMAIN recs[r] : i < at[r] /\ recs[r][i].key = Record(r).key
        BY <1>1, <3>2 DEF WorkInv, Placing
      <4>2. at[r] \in DOMAIN recs[r] /\ Record(r) = recs[r][at[r]] /\ at[r] \in Nat
        BY <1>1, RecordTyped DEF Record, PcInv
      <4>3. KeysOnce(recs[r])
        BY DEF Alone
      <4>4. i = at[r]
        BY <4>1, <4>2, <4>3 DEF KeysOnce
      <4>. QED
        BY <4>1, <4>2, <4>4
    <3>. QED
      BY <1>3, <3>1, <3>2 DEF PutAsSession
  <2>. QED
    BY <2>1, <2>2 DEF OneInv
<1>. QED
  BY <1>2, <1>3, PutRecordDoes

LEMMA StepsKeepOne ==
    ASSUME PcInv, TreeInv, MineInv, WorksInv, OneInv, NEW r \in Refreshes, Steps(r)
    PROVE  OneInv'
<1>. SUFFICES ASSUME Alone' PROVE OneInv'
  BY DEF OneInv
<1>1. Alone
  <2>1. disturbed \subseteq disturbed' /\ revived' = revived
    BY OthersAside DEF Disturb
  <2>2. UNCHANGED recs \/ Fetched(r)
    BY DEF Steps, Begin, Register, FetchFails, Snapshot, Place, FindFolder, MakeLeaf, PutRecord,
       RemoveStale, LookToPrune, Prune, Unregister
  <2>. QED
    BY <2>1, <2>2, AloneBefore
<1>2. CASE PutRecord(r)
  BY <1>1, <1>2, PutRecordIsOne
<1>3. CASE RemoveStale(r)
  <2>1. DOMAIN sess' \subseteq DOMAIN sess /\ \A id \in DOMAIN sess' : sess'[id] = sess[id]
    BY <1>3 DEF RemoveStale, Without, Restrict
  <2>. QED
    BY <1>1, <2>1, FewerAreOne DEF OfSource
<1>4. CASE ~PutRecord(r) /\ ~RemoveStale(r)
  <2>1. sess' = sess
    BY <1>4 DEF Steps, Begin, Register, FetchFails, Fetched, Snapshot, Place, FindFolder, MakeLeaf,
       LookToPrune, Prune, Unregister, tree
  <2>. QED
    BY <1>1, <2>1, FewerAreOne DEF OfSource
<1>. QED
  BY <1>2, <1>3, <1>4

\* The user's new sessions are not generated, and an edit that puts a session back keeps its key.
LEMMA EditsKeepOne ==
    ASSUME PcInv, TreeInv, OneInv, Edits, UNCHANGED recs
    PROVE  OneInv'
<1>. SUFFICES ASSUME Alone' PROVE OneInv'
  BY DEF OneInv
<1>1. disturbed \subseteq disturbed' /\ (revived => revived')
  <2>1. disturbed \subseteq disturbed'
    BY EditsDisturb DEF Disturb
  <2>2. ASSUME NEW s, WriteSession(s) PROVE revived => revived'
    BY <2>2 DEF WriteSession
  <2>3. CASE (\E name \in Names : Rename(name)) \/ SetJumpChain
    BY <2>1, <2>2, <2>3 DEF Rename, SetJumpChain
  <2>4. CASE revived' = revived
    BY <2>1, <2>4
  <2>. QED
    BY <2>3, <2>4 DEF Edits, CancelRefresh, CreateSession, ReadSession, DeleteSession, Duplicate,
       CreateFolder, DeleteFolder
<1>2. Alone
  BY <1>1, AloneBefore
<1>3. CASE sess' = sess
  BY <1>2, <1>3, FewerAreOne DEF OfSource
<1>4. ASSUME NEW name \in Names, NEW k \in Keys, CreateSession(name, k) PROVE OneInv'
  <2> DEFINE s == [name |-> name, folder |-> Source, key |-> k, gen |-> FALSE, edit |-> 0]
  <2>1. PutAs(nextId, s) /\ ~s.gen
    BY <1>4 DEF CreateSession, NewSession
  <2>. HIDE DEF s
  <2>. QED
    BY <1>2, <2>1, FewerAreOne DEF OfSource, PutAs, Bind
<1>5. ASSUME NEW id, DeleteSession(id) PROVE OneInv'
  <2>1. DOMAIN sess' \subseteq DOMAIN sess /\ \A j \in DOMAIN sess' : sess'[j] = sess[j]
    BY <1>5 DEF DeleteSession, Without, Restrict
  <2>. QED
    BY <1>2, <2>1, FewerAreOne DEF OfSource
<1>6. CASE Has("session")
  <2> DEFINE w == usr.was
  <2>. HIDE DEF w
  <2>1. /\ w \in SessionType
        /\ usr.id \in DOMAIN sess => sess[usr.id].gen = w.gen /\ sess[usr.id].key = w.key
    BY <1>6 DEF TreeInv, UserInv, w
  <2>2. ASSUME NEW s, s.gen = w.gen, s.key = w.key, WriteSession(s) PROVE OneInv'
    <3>1. CASE PutAs(usr.id, s)
      <4>1. DOMAIN sess' = DOMAIN sess \union {usr.id} /\ sess'[usr.id] = s
            /\ \A j \in DOMAIN sess \ {usr.id} : sess'[j] = sess[j]
        BY <3>1 DEF PutAs, Bind
      <4>2. usr.id \in DOMAIN sess
        BY <2>2, <4>1 DEF WriteSession, Alone
      <4>. QED
        BY <1>2, <2>1, <2>2, <4>1, <4>2, FewerAreOne DEF OfSource
    <3>. QED
      BY <1>3, <2>2, <3>1 DEF WriteSession
  <2>3. ASSUME NEW name \in Names
        PROVE  /\ [w EXCEPT !.name = name].gen = w.gen /\ [w EXCEPT !.name = name].key = w.key
               /\ [w EXCEPT !.name = name, !.gen = FALSE].gen = FALSE
    BY <2>1 DEF SessionType
  <2>4. [w EXCEPT !.edit = edits].gen = w.gen /\ [w EXCEPT !.edit = edits].key = w.key
    BY <2>1 DEF SessionType
  <2>5. ASSUME NEW name \in Names, Rename(name) PROVE OneInv'
    BY <2>2, <2>3, <2>5 DEF Rename, w
  <2>6. CASE SetJumpChain
    BY <2>2, <2>4, <2>6 DEF SetJumpChain, w
  <2>7. ASSUME NEW name \in Names, Duplicate(name) PROVE OneInv'
    <3> DEFINE s == [w EXCEPT !.name = name, !.gen = FALSE]
    <3>1. ~s.gen
      BY <2>3
    <3>2. sess' = sess \/ PutAs(nextId, s)
      BY <2>7 DEF Duplicate, NewSession, w
    <3>. HIDE DEF s
    <3>3. CASE PutAs(nextId, s)
      BY <1>2, <3>1, <3>3, FewerAreOne DEF OfSource, PutAs, Bind
    <3>. QED
      BY <1>3, <3>2, <3>3
  <2>8. CASE ~(\E name \in Names : Rename(name) \/ Duplicate(name)) /\ ~SetJumpChain
    BY <1>3, <1>4, <1>5, <2>8 DEF Edits, CancelRefresh, ReadSession, CreateFolder, DeleteFolder, tree
  <2>. QED
    BY <2>5, <2>6, <2>7, <2>8
<1>7. CASE ~Has("session")
  BY <1>3, <1>4, <1>5, <1>7 DEF Edits, CancelRefresh, ReadSession, CreateFolder, DeleteFolder, tree,
     Rename, Duplicate, SetJumpChain
<1>. QED
  BY <1>6, <1>7

LEMMA OneStart == Init => OneInv
BY DEF Init, OneInv, OfSource, Empty

LEMMA OneKeeps ==
    PcInv /\ TreeInv /\ MineInv /\ WorksInv /\ OneInv /\ [Next]_vars => OneInv'
<1>. SUFFICES ASSUME PcInv, TreeInv, MineInv, WorksInv, OneInv, [Next]_vars PROVE OneInv'
  OBVIOUS
<1>1. CASE \E r \in Refreshes : Refresh(r)
  BY <1>1, StepsKeepOne DEF Refresh
<1>2. CASE Edits
  BY <1>2, EditsDisturb, EditsKeepOne
<1>3. CASE UNCHANGED <<sess, recs, disturbed, revived>>
  BY <1>3 DEF OneInv, Alone, OfSource, KeysOnce
<1>4. CASE UNCHANGED vars
  BY <1>3, <1>4 DEF vars, tree, mine
<1>. QED
  BY <1>1, <1>2, <1>3, <1>4, SettingsAside DEF Next

-----------------------------------------------------------------------------
(* Reconciled *)

LEMMA WorksReconcile == PcInv /\ WorksInv /\ OneInv => Reconciled
<1>. SUFFICES ASSUME PcInv, WorksInv, OneInv PROVE Reconciled
  OBVIOUS
<1>1. ASSUME NEW r \in Refreshes, pc[r] = "reconciled", r \notin disturbed
      PROVE  /\ KeysOnce(recs[r]) => \A i \in DOMAIN recs[r] \ skipped[r] : Placed(r, i)
             /\ \A id \in OfSource \ twins[r] : \E i \in DOMAIN recs[r] : sess[id].key = recs[r][i].key
             /\ \A f \in DOMAIN folders : folders[f].owned => ~FolderFree(f)
  <2>1. WorkInv(r)
    BY <1>1 DEF WorksInv, Working
  <2>2. at[r] > Len(recs[r]) /\ Stale(r) = {}
    BY <1>1, <2>1 DEF WorkInv, Placing
  <2>3. \A i \in DOMAIN recs[r] : i < at[r]
    <3>1. recs[r] \in Seq(Rec) /\ at[r] \in Nat
      BY DEF PcInv
    <3>2. DOMAIN recs[r] = 1..Len(recs[r]) /\ Len(recs[r]) \in Nat
      BY <3>1
    <3>. QED
      BY <2>2, <3>1, <3>2
  <2>4. \A id \in OfSource \ twins[r] : \E i \in DOMAIN recs[r] : sess[id].key = recs[r][i].key
    BY <2>1, <2>2 DEF WorkInv, Stale
  <2>. QED
    BY <1>1, <2>1, <2>3, <2>4 DEF WorkInv
<1>2. RefreshDone
  BY <1>1 DEF RefreshDone
<1>3. OneSessionPerKey
  BY DEF OneInv, Alone, OneSessionPerKey
<1>. QED
  BY <1>2, <1>3 DEF Reconciled

\* A refresh that nobody disturbed leaves the sessions its records ask for, but for those it
\* skipped, no other generated session and no empty folder of its making; and of a device
\* there is one session, as long as no source gave it twice and nothing came between.
THEOREM Reconciles == Spec => []Reconciled
<1> DEFINE I == PcInv /\ TreeInv /\ MineInv /\ WorksInv /\ OneInv
<1>1. Init => I
  BY PcStart, TreeStart, MineStart, WorksStart, OneStart
<1>2. I /\ [Next]_vars => I'
  BY PcKeeps, TreeKeeps, WorksKeep, OneKeeps
<1>3. I => Reconciled
  BY WorksReconcile
<1>. QED
  BY <1>1, <1>2, <1>3, PTL DEF Spec
=============================================================================
