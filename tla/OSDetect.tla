------------------------------ MODULE OSDetect ------------------------------
(***************************************************************************)
(* Passive OS detection of one session (app/osdetect.go,                   *)
(* internal/osdetect): its detector, fed by the pumps of its terminals; the *)
(* session's metadata, read and written back by detection, redetection,    *)
(* pinning and import; and the hint kept for its host.                     *)
(*                                                                         *)
(* Output comes in chunks of one kind: evidence of the jump host's family, *)
(* evidence of the target's, or a line with the target's name in it (the   *)
(* echoed onward command is one, a prompt of the target may be another).   *)
(***************************************************************************)
EXTENDS Integers, FiniteSets

CONSTANTS
    Terminals,
    MaxDetectors,  \* bound on the detectors ever made
    Budget,        \* chunks a detector looks at (observeBudget)
    MaxOps,        \* bound on the operations of the user and the imports, for each number of
                   \* terminals opened
    Enough,        \* evidence of one family below which a guess is damped too far
    None

Families == {"hop", "target"}

ASSUME OSDetectAssumption ==
    /\ {MaxDetectors, Budget, Enough} \subseteq Nat
    /\ Enough \in 1..Budget
    /\ None \notin Families

VARIABLES
    relay,     \* the chain has a shell hop: output begins with the hop's
    meta,      \* the session's metadata on disk
    hint,      \* the hint stored for its host, or None
    det,       \* a.dets[session]: a detector, or 0
    made,      \* detectors made so far
    passed,    \* per detector: the marker line was seen
    fed,       \* per detector: chunks observed
    hits,      \* per detector and family: the rules that fired
    term,      \* where each terminal is
    pump,      \* terminals whose pumps still deliver
    stream,    \* whose output each terminal gets
    obs,       \* observeOS of each terminal: [at, det, fam, m]
    redo,      \* SessionRedetectOS: [at, m]
    pin,       \* PinSession: [at, m]
    sync,      \* an import's reconciliation of this session: [at, m]
    ops,       \* operations so far
    mixed,     \* auxiliary: a terminal opened beside another, or when the OS was settled
    robbed,    \* auxiliary: a detector was dropped, or lost to another's, while a terminal had it,
               \* or a redetection found no connection while a terminal was still listed
    tabSet,    \* auxiliary: what the user made of the tab
    torn,      \* auxiliary: a write of the metadata undid one made since it was read
    undone     \* auxiliary: the last pin of the tab is one of those

shared == <<meta, hint, det>>
detectors == <<made, passed, fed, hits>>
terminals == <<term, pump, stream>>
aux == <<mixed, robbed, tabSet, torn, undone>>
vars == <<relay, shared, detectors, terminals, obs, redo, pin, sync, ops, aux>>

Settled == meta.os # None \/ meta.osPinned

Opened == Cardinality({t \in Terminals : term[t] # "none"})

-----------------------------------------------------------------------------
(* The detector.                                                           *)

\* Mutant: the detector there is left as it is.
KeepOrNew ==
    IF det # 0
    THEN UNCHANGED <<det, detectors>>
    ELSE /\ made < MaxDetectors
         /\ made' = made + 1
         /\ det' = made + 1
         /\ UNCHANGED <<passed, fed, hits>>

\* ensureDetector's second half: a detector there is returned to the hop phase, a new
\* one starts in it; the banner of a target reached directly may be evidence.
RearmOrNew ==
    IF det # 0
    THEN /\ passed' = [passed EXCEPT ![det] = FALSE]
         /\ UNCHANGED <<det, made, fed, hits>>
    ELSE /\ made < MaxDetectors
         /\ made' = made + 1
         /\ det' = made + 1
         /\ \E banner \in IF relay THEN {0} ELSE {0, 1} :
               hits' = [hits EXCEPT ![made + 1].target = banner]
         /\ UNCHANGED <<passed, fed>>

HopPhase(d) == relay /\ ~passed[d]

\* Mutant: the budget is not looked at.
ObserveForever(d, kind) ==
    /\ fed' = [fed EXCEPT ![d] = @ + 1]
    /\ passed' = [passed EXCEPT ![d] = @ \/ (relay /\ kind = "marker")]
    /\ hits' = IF HopPhase(d) \/ kind = "marker" THEN hits ELSE [hits EXCEPT ![d][kind] = @ + 1]

\* ObserveOutput and matchLine.
Observe(d, kind) ==
    IF fed[d] = Budget
    THEN UNCHANGED <<passed, fed, hits>>
    ELSE /\ fed' = [fed EXCEPT ![d] = @ + 1]
         /\ passed' = [passed EXCEPT ![d] = @ \/ (relay /\ kind = "marker")]
         /\ hits' = IF HopPhase(d) \/ kind = "marker" THEN hits
                    ELSE [hits EXCEPT ![d][kind] = @ + 1]

\* Guess is above the threshold for this family: three quarters of the evidence.
Sure(d, fam) ==
    /\ hits[d][fam] >= Enough
    /\ 4 * hits[d][fam] >= 3 * (hits[d].hop + hits[d].target)

-----------------------------------------------------------------------------
(* A terminal (app/terminal.go OpenTerminal and its waiter).               *)

\* Another terminal has its detector and may deliver.
Others(t) == pump \ {t} # {} \/ \E other \in Terminals \ {t} : term[other] = "ensured"

\* ensureDetector looks at the metadata.
OpenLooks(t) ==
    /\ term[t] = "none"
    /\ ops <= MaxOps[Opened + 1]
    /\ term' = [term EXCEPT ![t] = IF Settled THEN "ensured" ELSE "looked"]
    /\ mixed' = (mixed \/ Settled)
    /\ UNCHANGED <<relay, ops, shared, detectors, pump, stream, obs, redo, pin, sync, robbed,
                   tabSet, torn, undone>>

OpenEnsures(t) ==
    /\ term[t] = "looked"
    /\ RearmOrNew
    /\ term' = [term EXCEPT ![t] = "ensured"]
    /\ mixed' = (mixed \/ Others(t))
    /\ UNCHANGED <<relay, ops, meta, hint, pump, stream, obs, redo, pin, sync, robbed, tabSet,
                   torn, undone>>

OpenFails(t) ==
    /\ term[t] = "ensured"
    /\ term' = [term EXCEPT ![t] = "gone"]
    /\ UNCHANGED <<relay, ops, shared, detectors, pump, stream, obs, redo, pin, sync, aux>>

\* NewSession, the entry in a.terms, and the handler.
Opens(t) ==
    /\ term[t] = "ensured"
    /\ term' = [term EXCEPT ![t] = "open"]
    /\ pump' = pump \union {t}
    /\ stream' = [stream EXCEPT ![t] = IF relay THEN "hop" ELSE "target"]
    /\ mixed' = (mixed \/ Others(t))
    /\ UNCHANGED <<relay, ops, shared, detectors, obs, redo, pin, sync, robbed, tabSet, torn, undone>>

\* Wait returns and the entry goes; the pumps may still deliver.
Ends(t) ==
    /\ term[t] = "open"
    /\ term' = [term EXCEPT ![t] = "ended"]
    /\ UNCHANGED <<relay, ops, shared, detectors, pump, stream, obs, redo, pin, sync, aux>>

\* dropDetectorIfIdle looks for other terminals of the session ...
LooksForOthers(t) ==
    /\ term[t] = "ended"
    /\ term' = [term EXCEPT ![t] =
          IF \E other \in Terminals : term[other] = "open" THEN "gone" ELSE "dropping"]
    /\ UNCHANGED <<relay, ops, shared, detectors, pump, stream, obs, redo, pin, sync, aux>>

Ensured == {t \in Terminals : term[t] \in {"ensured", "open"}}

\* ... and drops the detector there is now.
Drops(t) ==
    /\ term[t] = "dropping"
    /\ det' = 0
    /\ term' = [term EXCEPT ![t] = "gone"]
    /\ robbed' = (robbed \/ Ensured # {})
    /\ UNCHANGED <<relay, ops, meta, hint, detectors, pump, stream, obs, redo, pin, sync, mixed,
                   tabSet, torn, undone>>

PumpEnds(t) ==
    /\ t \in pump
    /\ term[t] # "open"
    /\ obs[t].at = "idle"
    /\ pump' = pump \ {t}
    /\ UNCHANGED <<relay, ops, shared, detectors, term, stream, obs, redo, pin, sync, aux>>

-----------------------------------------------------------------------------
(* observeOS, called by a pump for every chunk.                            *)

Idle == [at |-> "idle", det |-> 0, fam |-> None, m |-> None]
Quiet == [at |-> "idle", m |-> None]
ObsGoes(t, label) == obs' = [obs EXCEPT ![t].at = label]
ObsDone(t) == obs' = [obs EXCEPT ![t] = Idle]

\* A chunk arrives, and the session's detector, if it has one, observes it: what
\* happens between the lookup and the observation commutes with the lookup.
Arrives(t, kind) ==
    /\ t \in pump
    /\ obs[t].at = "idle"
    /\ kind \in {stream[t]} \union (IF relay THEN {"marker"} ELSE {})
    /\ stream' = [stream EXCEPT ![t] = IF kind = "marker" THEN "target" ELSE @]
    /\ IF det = 0
       THEN UNCHANGED <<passed, fed, hits, obs>>
       ELSE /\ Observe(det, kind)
            /\ obs' = [obs EXCEPT ![t] = [Idle EXCEPT !.at = "fed", !.det = det]]
    /\ UNCHANGED <<relay, ops, shared, made, term, pump, redo, pin, sync, aux>>

Guesses(t) ==
    /\ obs[t].at = "fed"
    /\ IF \E fam \in Families : Sure(obs[t].det, fam)
       THEN obs' = [obs EXCEPT ![t].at = "sure",
                               ![t].fam = CHOOSE fam \in Families : Sure(obs[t].det, fam)]
       ELSE ObsDone(t)
    /\ UNCHANGED <<relay, ops, shared, detectors, terminals, redo, pin, sync, aux>>

\* The session's detector is dropped, whichever it is by now.
Forgets(t) ==
    /\ obs[t].at = "sure"
    /\ det' = 0
    /\ ObsGoes(t, "off")
    /\ robbed' = (robbed \/ det \notin {0, obs[t].det})
    /\ UNCHANGED <<relay, ops, meta, hint, detectors, terminals, redo, pin, sync, mixed, tabSet,
                   torn, undone>>

\* Mutant: a pinned tab is taken for a pinned OS.
ReadsMetaOfTab(t) ==
    /\ obs[t].at = "off"
    /\ IF meta.tab THEN ObsDone(t)
                   ELSE obs' = [obs EXCEPT ![t].at = "read", ![t].m = meta]
    /\ UNCHANGED <<relay, ops, shared, detectors, terminals, redo, pin, sync, aux>>

ReadsMeta(t) ==
    /\ obs[t].at = "off"
    /\ IF meta.osPinned THEN ObsDone(t)
                        ELSE obs' = [obs EXCEPT ![t].at = "read", ![t].m = meta]
    /\ UNCHANGED <<relay, ops, shared, detectors, terminals, redo, pin, sync, aux>>

\* Mutant: the metadata is written without what else it had.
WithoutTab(m, fam) == [os |-> fam, osPinned |-> FALSE, tab |-> FALSE]

WithOS(m, fam) == [m EXCEPT !.os = fam]

\* PutMeta of what was made of the metadata read before.
PutMeta(read, m) ==
    /\ meta' = m
    /\ torn' = (torn \/ read # meta)
    /\ undone' = (undone \/ read.tab # meta.tab)

WritesMeta(t) ==
    /\ obs[t].at = "read"
    /\ PutMeta(obs[t].m, WithOS(obs[t].m, obs[t].fam))
    /\ ObsGoes(t, "wrote")
    /\ UNCHANGED <<relay, ops, hint, det, detectors, terminals, redo, pin, sync, mixed, robbed,
                   tabSet>>

\* PutOSHint: a pinned hint stays.
WritesHint(t) ==
    /\ obs[t].at = "wrote"
    /\ hint' = IF hint # None /\ hint.pinned THEN hint ELSE [os |-> obs[t].fam, pinned |-> FALSE]
    /\ ObsDone(t)
    /\ UNCHANGED <<relay, ops, meta, det, detectors, terminals, redo, pin, sync, aux>>

-----------------------------------------------------------------------------
(* The user's operations and an import.                                    *)

Starts == ops < MaxOps[Opened] /\ ops' = ops + 1

RedoGoes(label) == redo' = [redo EXCEPT !.at = label]

\* SessionRedetectOS: the metadata, the hint, the detector.
RedetectReads ==
    /\ redo.at = "idle"
    /\ Starts
    /\ redo' = [at |-> "read", m |-> meta]
    /\ UNCHANGED <<relay, shared, detectors, terminals, obs, pin, sync, aux>>

RedetectClears ==
    /\ redo.at = "read"
    /\ PutMeta(redo.m, [redo.m EXCEPT !.os = None, !.osPinned = FALSE])
    /\ redo' = [at |-> "cleared", m |-> None]
    /\ UNCHANGED <<relay, ops, hint, det, detectors, terminals, obs, pin, sync, mixed, robbed,
                   tabSet>>

RedetectDropsHint ==
    /\ redo.at = "cleared"
    /\ hint' = None
    /\ RedoGoes("unhinted")
    /\ UNCHANGED <<relay, ops, meta, det, detectors, terminals, obs, pin, sync, aux>>

\* Without a connection that is all; terminals of one just lost may still be listed.
RedetectDropsDetector ==
    /\ redo.at = "unhinted"
    /\ \/ det' = 0 /\ RedoGoes("dropped") /\ UNCHANGED robbed
       \/ RedoGoes("idle") /\ robbed' = (robbed \/ Ensured # {}) /\ UNCHANGED det
    /\ UNCHANGED <<relay, ops, meta, hint, detectors, terminals, obs, pin, sync, mixed, tabSet,
                   torn, undone>>

RedetectLooks ==
    /\ redo.at = "dropped"
    /\ RedoGoes(IF Settled THEN "idle" ELSE "looked")
    /\ UNCHANGED <<relay, ops, shared, detectors, terminals, obs, pin, sync, aux>>

RedetectEnsures ==
    /\ redo.at = "looked"
    /\ RearmOrNew
    /\ RedoGoes("idle")
    /\ UNCHANGED <<relay, ops, meta, hint, terminals, obs, pin, sync, aux>>

PinReads ==
    /\ pin.at = "idle"
    /\ Starts
    /\ pin' = [at |-> "read", m |-> meta]
    /\ UNCHANGED <<relay, shared, detectors, terminals, obs, redo, sync, aux>>

\* PinSession or UnpinSession.
PinWrites(pinned) ==
    /\ pin.at = "read"
    /\ meta' = [pin.m EXCEPT !.tab = pinned]
    /\ torn' = (torn \/ pin.m # meta)
    /\ undone' = FALSE
    /\ tabSet' = pinned
    /\ pin' = [at |-> "idle", m |-> None]
    /\ UNCHANGED <<relay, ops, hint, det, detectors, terminals, obs, redo, sync, mixed, robbed>>

\* Reconciling a session without an OS joins its host's hint on.
SyncReads ==
    /\ sync.at = "idle"
    /\ Starts
    /\ sync' = IF Settled THEN [at |-> "idle", m |-> None] ELSE [at |-> "read", m |-> meta]
    /\ UNCHANGED <<relay, shared, detectors, terminals, obs, redo, pin, aux>>

SyncHint ==
    /\ sync.at = "read"
    /\ sync' = IF hint = None THEN [at |-> "idle", m |-> None]
               ELSE [at |-> "hinted", m |-> sync.m, hint |-> hint]
    /\ UNCHANGED <<relay, ops, shared, detectors, terminals, obs, redo, pin, aux>>

SyncWrites ==
    /\ sync.at = "hinted"
    /\ PutMeta(sync.m, [sync.m EXCEPT !.os = sync.hint.os, !.osPinned = sync.hint.pinned])
    /\ sync' = [at |-> "idle", m |-> None]
    /\ UNCHANGED <<relay, ops, hint, det, detectors, terminals, obs, redo, pin, mixed, robbed,
                   tabSet>>

-----------------------------------------------------------------------------
Init ==
    /\ relay \in BOOLEAN
    /\ meta = [os |-> None, osPinned |-> FALSE, tab |-> FALSE]
    /\ hint \in {None, [os |-> "target", pinned |-> TRUE]}
    /\ det = 0
    /\ made = 0
    /\ passed = [d \in 1..MaxDetectors |-> FALSE]
    /\ fed = [d \in 1..MaxDetectors |-> 0]
    /\ hits = [d \in 1..MaxDetectors |-> [fam \in Families |-> 0]]
    /\ term = [t \in Terminals |-> "none"]
    /\ pump = {}
    /\ stream = [t \in Terminals |-> None]
    /\ obs = [t \in Terminals |-> Idle]
    /\ redo = Quiet
    /\ pin = Quiet
    /\ sync = Quiet
    /\ ops = 0
    /\ mixed = FALSE
    /\ robbed = FALSE
    /\ tabSet = FALSE
    /\ torn = FALSE
    /\ undone = FALSE

Terminal(t) ==
    \/ OpenLooks(t) \/ OpenEnsures(t) \/ OpenFails(t) \/ Opens(t)
    \/ Ends(t) \/ LooksForOthers(t) \/ Drops(t) \/ PumpEnds(t)

Observation(t) ==
    \/ \E kind \in Families \union {"marker"} : Arrives(t, kind)
    \/ Guesses(t) \/ Forgets(t) \/ ReadsMeta(t) \/ WritesMeta(t) \/ WritesHint(t)

Redetect ==
    \/ RedetectReads \/ RedetectClears \/ RedetectDropsHint
    \/ RedetectDropsDetector \/ RedetectLooks \/ RedetectEnsures

Next ==
    \/ \E t \in Terminals : Terminal(t) \/ Observation(t)
    \/ Redetect
    \/ PinReads \/ \E pinned \in BOOLEAN : PinWrites(pinned)
    \/ SyncReads \/ SyncHint \/ SyncWrites

Spec == Init /\ [][Next]_vars

-----------------------------------------------------------------------------
(* Properties.                                                             *)

MetaType == [os : Families \union {None}, osPinned : BOOLEAN, tab : BOOLEAN]

TypeOK ==
    /\ meta \in MetaType
    /\ hint \in [os : Families, pinned : BOOLEAN] \union {None}
    /\ det \in {0, made}
    /\ \A d \in 1..MaxDetectors :
          /\ fed[d] \in 0..Budget
          /\ hits[d].hop + hits[d].target <= fed[d] + (IF relay THEN 0 ELSE 1)
          /\ d > made => fed[d] = 0
    /\ \A t \in Terminals : obs[t].m \in MetaType \union {None} /\ obs[t].det \in 0..made

\* The hop's output is no evidence about the target (osdetect.go:62-69), as long as
\* no terminal opens while another of the session opens or delivers, or while the OS is
\* settled and a detector that is still there is not rearmed.
HopSilent == ~mixed => \A d \in 1..made : hits[d].hop = 0

\* A terminal of a session whose OS is not settled is being observed, unless a waiter
\* dropped the detector of a terminal that was just opening, an observation that of
\* another round, a redetection found the connection gone, or a stale write of the
\* metadata unsettled it.
Watched ==
    \A t \in Terminals :
        term[t] = "open" /\ ~Settled /\ det = 0 =>
            \/ robbed
            \/ torn
            \/ \E other \in Terminals : obs[other].at \in {"off", "read"}
            \/ redo.at \in {"cleared", "unhinted", "dropped", "looked"}

\* A label is looked for as long as there is none, in the target's output only.
DetectorSound == HopSilent /\ Watched

\* Detection, redetection and import leave a tab as the user last pinned it, unless one
\* of them had read the metadata before that and wrote it after (PinPersists).
PinKept == undone \/ meta.tab = tabSet

\* PinSession marks a session as pinned, persisted in SessionMeta (app/pin.go:5).
PinPersists == meta.tab = tabSet

\* The hop's output is no evidence about the target (osdetect.go:62-69).
HopNeverLabels == \A d \in 1..made : hits[d].hop = 0
=============================================================================
