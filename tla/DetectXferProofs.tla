-------------------------- MODULE DetectXferProofs --------------------------
(***************************************************************************)
(* Proofs about two things a session has beside its terminals.             *)
(*                                                                         *)
(* Passive OS detection: the jump host's output is no evidence about the   *)
(* target, a terminal of a session without an OS is observed, and nobody   *)
(* but the user changes the pin of a tab, for any number of terminals,     *)
(* detectors and operations.                                               *)
(*                                                                         *)
(* A transfer handle: what the dialog was told is uploaded is there, and a *)
(* handle that could not be opened leaves nothing, for any number of       *)
(* uploads, files and calls of XferClose.                                  *)
(***************************************************************************)
EXTENDS OSDetect, Xfer, TLAPS

-----------------------------------------------------------------------------
(* Detection: the inductive invariant *)

ObsPlaces == {"idle", "fed", "sure", "off", "read", "wrote"}
RedoPlaces == {"idle", "read", "cleared", "unhinted", "dropped", "looked"}

\* Who has read what.
ReadersInv ==
    /\ obs \in [Terminals -> [at : ObsPlaces, det : Nat, fam : Families \union {None},
                              m : MetaType \union {None}]]
    /\ \A t \in Terminals :
          /\ obs[t].det \in 0..made
          /\ obs[t].at \in {"sure", "off", "read", "wrote"} => obs[t].fam \in Families
          /\ obs[t].at = "read" => obs[t].m \in MetaType
    /\ redo \in [at : RedoPlaces, m : MetaType \union {None}]
    /\ redo.at = "read" => redo.m \in MetaType
    /\ pin.at = "read" => pin.m \in MetaType
    /\ sync.at \in {"read", "hinted"} => sync.m \in MetaType
    /\ sync.at = "hinted" => sync.hint \in [os : Families, pinned : BOOLEAN]

\* The session and its host.
SessionInv ==
    /\ relay \in BOOLEAN
    /\ meta \in MetaType
    /\ hint \in [os : Families, pinned : BOOLEAN] \union {None}
    /\ mixed \in BOOLEAN
    /\ robbed \in BOOLEAN
    /\ torn \in BOOLEAN
    /\ undone \in BOOLEAN

\* A detector is the last one made, and those to come are as they start.
DetectorInv ==
    /\ made \in 0..MaxDetectors
    /\ det \in {0, made}
    /\ passed \in [1..MaxDetectors -> BOOLEAN]
    /\ fed \in [1..MaxDetectors -> 0..Budget]
    /\ hits \in [1..MaxDetectors -> [Families -> Nat]]
    /\ \A d \in 1..MaxDetectors :
          /\ hits[d].hop + hits[d].target <= fed[d] + (IF relay THEN 0 ELSE 1)
          /\ d > made => ~passed[d] /\ fed[d] = 0 /\ hits[d].hop = 0 /\ hits[d].target = 0

TerminalInv ==
    /\ term \in [Terminals -> {"none", "looked", "ensured", "open", "ended", "dropping", "gone"}]
    /\ pump \subseteq Terminals
    /\ stream \in [Terminals -> Families \union {None}]
    /\ \A t \in pump :
          /\ term[t] \notin {"none", "looked", "ensured"}
          /\ stream[t] \in Families
          /\ ~relay => stream[t] = "target"

\* A terminal that has its detector and delivers, or is about to.
Busy(t) == t \in pump \/ term[t] = "ensured"

\* As long as no two terminals are busy at a time, the detector of one whose output is
\* still the hop's is in its hop phase.
HopInv ==
    ~mixed /\ relay =>
        /\ \A t, u \in Terminals : Busy(t) /\ Busy(u) => t = u
        /\ \A t \in Terminals :
              det # 0 /\ (term[t] = "ensured" \/ (t \in pump /\ stream[t] = "hop")) => ~passed[det]

\* Why an ensured terminal may be without a detector.
Excused ==
    \/ robbed
    \/ torn
    \/ \E other \in Terminals : obs[other].at \in {"off", "read"}
    \/ redo.at \in {"cleared", "unhinted", "dropped", "looked"}

\* As Watched, from before the terminal is open.
WatchInv == \A t \in Terminals : term[t] \in {"ensured", "open"} /\ ~Settled /\ det = 0 => Excused

IInv ==
    /\ ReadersInv /\ SessionInv /\ DetectorInv /\ TerminalInv
    /\ HopInv /\ HopSilent /\ WatchInv /\ PinKept

-----------------------------------------------------------------------------
(* The detector *)

\* A detector a terminal is given is in its hop phase, and no evidence is lost or added
\* but for a banner of the target's.
LEMMA Rearmed ==
    ASSUME DetectorInv, relay \in BOOLEAN, RearmOrNew, relay' = relay
    PROVE  /\ DetectorInv'
           /\ made <= made'
           /\ det' # 0 /\ det' \in 1..MaxDetectors /\ ~passed'[det']
           /\ \A d \in 1..MaxDetectors : hits'[d].hop = hits[d].hop
<1>1. CASE det # 0
  <2>1. det \in 1..MaxDetectors
    BY <1>1 DEF DetectorInv
  <2>2. /\ passed' = [passed EXCEPT ![det] = FALSE]
        /\ UNCHANGED <<det, made, fed, hits>>
    BY <1>1 DEF RearmOrNew
  <2>. QED
    BY <1>1, <2>1, <2>2 DEF DetectorInv
<1>2. CASE det = 0
  <2>1. /\ made < MaxDetectors /\ made' = made + 1 /\ det' = made + 1
        /\ UNCHANGED <<passed, fed>>
    BY <1>2 DEF RearmOrNew
  <2>2. made \in 0..MaxDetectors /\ MaxDetectors \in Nat
    BY OSDetectAssumption DEF DetectorInv
  <2>3. made + 1 \in 1..MaxDetectors
    BY <2>1, <2>2
  <2>4. PICK banner \in IF relay THEN {0} ELSE {0, 1} :
           hits' = [hits EXCEPT ![made + 1].target = banner]
    BY <1>2 DEF RearmOrNew
  <2>5. /\ hits' \in [1..MaxDetectors -> [Families -> Nat]]
        /\ \A d \in 1..MaxDetectors :
              /\ hits'[d].hop = hits[d].hop
              /\ hits'[d].target = IF d = made + 1 THEN banner ELSE hits[d].target
    <3>1. banner \in Nat
      BY <2>4
    <3>2. hits' = [hits EXCEPT ![made + 1]["target"] = banner]
      BY <2>4
    <3>. HIDE <2>4
    <3>3. hits' \in [1..MaxDetectors -> [Families -> Nat]]
      BY <2>3, <3>1, <3>2 DEF DetectorInv, Families
    <3>4. \A d \in 1..MaxDetectors :
              /\ hits'[d].hop = hits[d].hop
              /\ hits'[d].target = IF d = made + 1 THEN banner ELSE hits[d].target
      BY <2>3, <3>1, <3>2 DEF DetectorInv, Families
    <3>. QED
      BY <3>3, <3>4
  <2>6. \A d \in 1..MaxDetectors :
           hits'[d].hop + hits'[d].target <= fed'[d] + (IF relay' THEN 0 ELSE 1)
    <3>. SUFFICES ASSUME NEW d \in 1..MaxDetectors
                  PROVE  hits'[d].hop + hits'[d].target <= fed'[d] + (IF relay' THEN 0 ELSE 1)
      OBVIOUS
    <3>1. CASE d = made + 1
      <4>1. d > made
        BY <2>2, <3>1
      <4>2. fed[d] = 0 /\ hits[d].hop = 0
        BY <4>1 DEF DetectorInv
      <4>. QED
        BY <2>1, <2>4, <2>5, <3>1, <4>2
    <3>2. CASE d # made + 1
      BY <2>1, <2>5, <3>2 DEF DetectorInv
    <3>. QED
      BY <3>1, <3>2
  <2>7. \A d \in 1..MaxDetectors :
           d > made' => ~passed'[d] /\ fed'[d] = 0 /\ hits'[d].hop = 0 /\ hits'[d].target = 0
    BY <2>1, <2>2, <2>5 DEF DetectorInv
  <2>8. ~passed'[det']
    <3>1. made + 1 > made
      BY <2>2
    <3>. QED
      BY <2>1, <2>3, <3>1 DEF DetectorInv
  <2>9. /\ made' \in 0..MaxDetectors /\ det' = made'
        /\ passed' \in [1..MaxDetectors -> BOOLEAN] /\ fed' \in [1..MaxDetectors -> 0..Budget]
    BY <2>1, <2>2 DEF DetectorInv
  <2>10. DetectorInv'
    BY <2>5, <2>6, <2>7, <2>9 DEF DetectorInv
  <2>11. made <= made' /\ det' # 0 /\ det' \in 1..MaxDetectors
    BY <2>1, <2>2, <2>3
  <2>. QED
    BY <2>5, <2>8, <2>10, <2>11
<1>. QED
  BY <1>1, <1>2

\* What a chunk does to the detector that observes it.
LEMMA Observed ==
    ASSUME DetectorInv, relay \in BOOLEAN, det # 0, NEW kind \in Families \union {"marker"},
           Observe(det, kind), UNCHANGED <<relay, made, det>>
    PROVE  /\ DetectorInv'
           /\ kind # "marker" => passed' = passed
           /\ kind # "hop" \/ HopPhase(det) =>
                 \A d \in 1..MaxDetectors : hits'[d].hop = hits[d].hop
<1>1. det \in 1..MaxDetectors /\ det = made
  BY DEF DetectorInv
<1>2. CASE fed[det] = Budget
  BY <1>2 DEF Observe, DetectorInv
<1>3. CASE fed[det] # Budget
  <2>1. /\ fed' = [fed EXCEPT ![det] = @ + 1]
        /\ passed' = [passed EXCEPT ![det] = @ \/ (relay /\ kind = "marker")]
        /\ hits' = IF HopPhase(det) \/ kind = "marker" THEN hits
                   ELSE [hits EXCEPT ![det][kind] = @ + 1]
    BY <1>3 DEF Observe
  <2>2. fed[det] \in 0..Budget /\ Budget \in Nat
    BY <1>1, OSDetectAssumption DEF DetectorInv
  <2>3. /\ fed' \in [1..MaxDetectors -> 0..Budget]
        /\ fed'[det] = fed[det] + 1
        /\ \A d \in 1..MaxDetectors \ {det} : fed'[d] = fed[d]
    BY <1>1, <1>3, <2>1, <2>2 DEF DetectorInv
  <2>4. /\ passed' \in [1..MaxDetectors -> BOOLEAN]
        /\ \A d \in 1..MaxDetectors \ {det} : passed'[d] = passed[d]
    BY <1>1, <2>1 DEF DetectorInv
  <2>5. kind # "marker" => passed' = passed
    BY <1>1, <2>1 DEF DetectorInv
  <2>6. /\ hits' \in [1..MaxDetectors -> [Families -> Nat]]
        /\ \A d \in 1..MaxDetectors \ {det} : hits'[d] = hits[d]
        /\ hits'[det].hop + hits'[det].target <= hits[det].hop + hits[det].target + 1
        /\ kind # "hop" \/ HopPhase(det) => hits'[det].hop = hits[det].hop
    <3>1. hits[det].hop \in Nat /\ hits[det].target \in Nat
      BY <1>1 DEF DetectorInv, Families
    <3>2. CASE HopPhase(det) \/ kind = "marker"
      BY <2>1, <3>1, <3>2 DEF DetectorInv
    <3>3. CASE ~HopPhase(det) /\ kind = "hop"
      <4>1. hits' = [hits EXCEPT ![det]["hop"] = @ + 1]
        BY <2>1, <3>3
      <4>. QED
        BY <1>1, <3>1, <3>3, <4>1 DEF DetectorInv, Families
    <3>4. CASE ~HopPhase(det) /\ kind = "target"
      <4>1. hits' = [hits EXCEPT ![det]["target"] = @ + 1]
        BY <2>1, <3>4
      <4>. QED
        BY <1>1, <3>1, <3>4, <4>1 DEF DetectorInv, Families
    <3>. QED
      BY <3>2, <3>3, <3>4 DEF Families
  <2>7. \A d \in 1..MaxDetectors :
           hits'[d].hop + hits'[d].target <= fed'[d] + (IF relay' THEN 0 ELSE 1)
    <3>. SUFFICES ASSUME NEW d \in 1..MaxDetectors
                  PROVE  hits'[d].hop + hits'[d].target <= fed'[d] + (IF relay' THEN 0 ELSE 1)
      OBVIOUS
    <3>1. CASE d = det
      <4>1. /\ hits[det].hop \in Nat /\ hits[det].target \in Nat
            /\ hits'[det].hop \in Nat /\ hits'[det].target \in Nat
        BY <1>1, <2>6 DEF DetectorInv, Families
      <4>2. hits[det].hop + hits[det].target <= fed[det] + (IF relay THEN 0 ELSE 1)
        BY <1>1 DEF DetectorInv
      <4>3. fed[det] \in Nat /\ (IF relay THEN 0 ELSE 1) \in Nat
        BY <2>2
      <4>4. hits'[det].hop + hits'[det].target <= hits[det].hop + hits[det].target + 1
        BY <2>6
      <4>5. hits'[det].hop + hits'[det].target <= (fed[det] + 1) + (IF relay THEN 0 ELSE 1)
        BY <4>1, <4>2, <4>3, <4>4
      <4>. QED
        BY <2>3, <3>1, <4>5
    <3>2. CASE d # det
      BY <2>3, <2>6, <3>2 DEF DetectorInv
    <3>. QED
      BY <3>1, <3>2
  <2>8. \A d \in 1..MaxDetectors :
           d > made' => ~passed'[d] /\ fed'[d] = 0 /\ hits'[d].hop = 0 /\ hits'[d].target = 0
    <3>1. \A d \in 1..MaxDetectors : d > made => d # det
      BY <1>1
    <3>. QED
      BY <2>3, <2>4, <2>6, <3>1 DEF DetectorInv
  <2>9. DetectorInv'
    BY <2>3, <2>4, <2>6, <2>7, <2>8 DEF DetectorInv
  <2>. QED
    BY <2>5, <2>6, <2>9
<1>. QED
  BY <1>2, <1>3

\* A detector that is left alone, or dropped.
LEMMA DetectorAlone ==
    ASSUME DetectorInv, UNCHANGED <<relay, detectors>>, det' = det \/ det' = 0
    PROVE  DetectorInv'
BY DEF DetectorInv, detectors

-----------------------------------------------------------------------------
(* The parts of the invariant, one by one *)

\* The detector of the session in any step.
LEMMA DetectorKeeps ==
    ASSUME IInv, Next
    PROVE  /\ DetectorInv'
           /\ relay' = relay
           /\ made \in Nat /\ made' \in Nat /\ made <= made'
<1>. USE DEF IInv, SessionInv
<1>1. made \in Nat
  BY OSDetectAssumption DEF DetectorInv
<1>2. CASE \E t \in Terminals : OpenEnsures(t)
  <2>1. RearmOrNew /\ relay' = relay
    BY <1>2 DEF OpenEnsures
  <2>. QED
    BY <1>1, <2>1, Rearmed DEF DetectorInv
<1>3. CASE RedetectEnsures
  <2>1. RearmOrNew /\ relay' = relay
    BY <1>3 DEF RedetectEnsures
  <2>. QED
    BY <1>1, <2>1, Rearmed DEF DetectorInv
<1>4. ASSUME NEW t \in Terminals, NEW kind \in Families \union {"marker"}, Arrives(t, kind)
      PROVE  DetectorInv' /\ relay' = relay /\ made' = made
  <2>1. UNCHANGED <<relay, made, det>>
    BY <1>4 DEF Arrives, shared
  <2>2. CASE det = 0
    BY <1>4, <2>1, <2>2, DetectorAlone DEF Arrives, detectors
  <2>3. CASE det # 0
    BY <1>4, <2>1, <2>3, Observed DEF Arrives
  <2>. QED
    BY <2>1, <2>2, <2>3
<1>5. CASE /\ ~\E t \in Terminals : OpenEnsures(t)
           /\ ~RedetectEnsures
           /\ ~\E t \in Terminals, kind \in Families \union {"marker"} : Arrives(t, kind)
  <2>1. UNCHANGED <<relay, detectors>> /\ (det' = det \/ det' = 0)
    BY <1>5 DEF Next, Terminal, OpenLooks, OpenFails, Opens, Ends, LooksForOthers, Drops, PumpEnds,
                Observation, Guesses, Forgets, ReadsMeta, WritesMeta, WritesHint, Redetect,
                RedetectReads, RedetectClears, RedetectDropsHint, RedetectDropsDetector,
                RedetectLooks, PinReads, PinWrites, SyncReads, SyncHint, SyncWrites, shared
  <2>. QED
    BY <1>1, <2>1, DetectorAlone DEF detectors
<1>. QED
  BY <1>1, <1>2, <1>3, <1>4, <1>5

\* What an observation carries, in a step of it.
LEMMA ObservationKeeps ==
    ASSUME IInv, NEW t \in Terminals, Observation(t)
    PROVE  /\ obs' \in [Terminals -> [at : ObsPlaces, det : Nat, fam : Families \union {None},
                                      m : MetaType \union {None}]]
           /\ \A o \in Terminals \ {t} : obs'[o] = obs[o]
           /\ obs'[t].det \in 0..made
           /\ obs'[t].at \in {"sure", "off", "read", "wrote"} => obs'[t].fam \in Families
           /\ obs'[t].at = "read" => obs'[t].m \in MetaType
           /\ UNCHANGED <<relay, made, term, redo, pin, sync, ops, mixed, tabSet>>
<1>. USE DEF IInv, ReadersInv, ObsPlaces
<1>1. /\ Idle \in [at : ObsPlaces, det : Nat, fam : Families \union {None},
                   m : MetaType \union {None}]
      /\ Idle.at = "idle" /\ Idle.det = 0
  BY DEF Idle
<1>2. made \in Nat /\ det \in 0..made
  BY OSDetectAssumption DEF DetectorInv
<1>3. CASE \E kind \in Families \union {"marker"} : Arrives(t, kind)
  <2>1. /\ obs' = obs \/ obs' = [obs EXCEPT ![t] = [Idle EXCEPT !.at = "fed", !.det = det]]
        /\ UNCHANGED <<relay, made, term, redo, pin, sync, ops, mixed, tabSet>>
    BY <1>3 DEF Arrives, aux
  <2>. DEFINE r == [Idle EXCEPT !.at = "fed", !.det = det]
  <2>3. det \in Nat
    BY <1>2
  <2>4. obs' = obs \/ obs' = [obs EXCEPT ![t] = r]
    BY <2>1
  <2>2. /\ r \in [at : ObsPlaces, det : Nat, fam : Families \union {None},
                   m : MetaType \union {None}]
        /\ r.at = "fed" /\ r.det = det
    BY <2>3 DEF Idle
  <2>. HIDE DEF r
  <2>. QED
    BY <1>2, <2>1, <2>2, <2>4
<1>4. CASE Guesses(t)
  <2>1. UNCHANGED <<relay, made, term, redo, pin, sync, ops, mixed, tabSet>>
    BY <1>4 DEF Guesses, detectors, terminals, aux
  <2>2. CASE \E fam \in Families : Sure(obs[t].det, fam)
    <3>1. PICK fam \in Families : obs' = [obs EXCEPT ![t].at = "sure", ![t].fam = fam]
      BY <1>4, <2>2 DEF Guesses
    <3>. DEFINE r == [obs[t] EXCEPT !.at = "sure", !.fam = fam]
    <3>2. obs' = [obs EXCEPT ![t] = r]
      BY <3>1
    <3>3. obs[t] \in [at : ObsPlaces, det : Nat, fam : Families \union {None},
                      m : MetaType \union {None}]
      OBVIOUS
    <3>4. /\ r \in [at : ObsPlaces, det : Nat, fam : Families \union {None},
                     m : MetaType \union {None}]
          /\ r.at = "sure" /\ r.det = obs[t].det /\ r.fam \in Families
      BY <3>3
    <3>. HIDE DEF r
    <3>. QED
      BY <2>1, <3>2, <3>4
  <2>3. CASE ~\E fam \in Families : Sure(obs[t].det, fam)
    <3>1. obs' = [obs EXCEPT ![t] = Idle]
      BY <1>4, <2>3 DEF Guesses, ObsDone
    <3>. QED
      BY <1>1, <1>2, <2>1, <3>1
  <2>. QED
    BY <2>2, <2>3
<1>5. CASE Forgets(t)
  BY <1>5 DEF Forgets, ObsGoes, detectors, terminals
<1>6. CASE ReadsMeta(t)
  <2>1. /\ obs[t].at = "off"
        /\ UNCHANGED <<relay, made, term, redo, pin, sync, ops, mixed, tabSet>>
        /\ \/ obs' = [obs EXCEPT ![t] = Idle]
           \/ obs' = [obs EXCEPT ![t].at = "read", ![t].m = meta]
    BY <1>6 DEF ReadsMeta, ObsDone, detectors, terminals, aux
  <2>2. meta \in MetaType
    BY DEF SessionInv
  <2>. QED
    BY <1>1, <1>2, <2>1, <2>2
<1>7. CASE WritesMeta(t)
  BY <1>7 DEF WritesMeta, ObsGoes, detectors, terminals
<1>8. CASE WritesHint(t)
  <2>1. /\ obs' = [obs EXCEPT ![t] = Idle]
        /\ UNCHANGED <<relay, made, term, redo, pin, sync, ops, mixed, tabSet>>
    BY <1>8 DEF WritesHint, ObsDone, detectors, terminals, aux
  <2>. QED
    BY <1>1, <1>2, <2>1
<1>. QED
  BY <1>3, <1>4, <1>5, <1>6, <1>7, <1>8 DEF Observation

\* What is read before it is written back.
LEMMA ReadersKeep ==
    ASSUME IInv, Next
    PROVE  ReadersInv'
<1>0. made \in Nat /\ made' \in Nat /\ made <= made'
  BY DetectorKeeps
<1>. USE DEF IInv, ReadersInv, RedoPlaces
<1>1. CASE \E t \in Terminals : Terminal(t)
  <2>1. UNCHANGED <<obs, redo, pin, sync>>
    BY <1>1 DEF Terminal, OpenLooks, OpenEnsures, OpenFails, Opens, Ends, LooksForOthers, Drops,
                PumpEnds
  <2>. QED
    BY <1>0, <2>1
<1>2. CASE \E t \in Terminals : Observation(t)
  <2>1. PICK t \in Terminals : Observation(t)
    BY <1>2
  <2>. QED
    BY <1>0, <2>1, ObservationKeeps
<1>3. CASE Redetect
  <2>1. UNCHANGED <<obs, pin, sync>>
    BY <1>3 DEF Redetect, RedetectReads, RedetectClears, RedetectDropsHint,
                RedetectDropsDetector, RedetectLooks, RedetectEnsures
  <2>2. meta \in MetaType
    BY DEF SessionInv
  <2>3. /\ redo' \in [at : RedoPlaces, m : MetaType \union {None}]
        /\ redo'.at = "read" => redo'.m \in MetaType
    <3>1. CASE RedetectReads
      BY <2>2, <3>1 DEF RedetectReads
    <3>2. CASE RedetectClears
      BY <3>2 DEF RedetectClears
    <3>3. CASE \E l \in {"unhinted", "dropped", "idle", "looked"} : RedoGoes(l)
      BY <3>3 DEF RedoGoes
    <3>. QED
      BY <1>3, <3>1, <3>2, <3>3 DEF Redetect, RedetectDropsHint, RedetectDropsDetector,
                                    RedetectLooks, RedetectEnsures
  <2>. QED
    BY <1>0, <2>1, <2>3
<1>4. CASE PinReads \/ \E pinned \in BOOLEAN : PinWrites(pinned)
  <2>1. UNCHANGED <<obs, redo, sync>>
    BY <1>4 DEF PinReads, PinWrites
  <2>2. pin'.at = "read" => pin'.m \in MetaType
    <3>1. meta \in MetaType
      BY DEF SessionInv
    <3>2. CASE PinReads
      BY <3>1, <3>2 DEF PinReads
    <3>3. CASE \E pinned \in BOOLEAN : PinWrites(pinned)
      BY <3>3 DEF PinWrites
    <3>. QED
      BY <1>4, <3>2, <3>3
  <2>. QED
    BY <1>0, <2>1, <2>2
<1>5. CASE SyncReads \/ SyncHint \/ SyncWrites
  <2>1. UNCHANGED <<obs, redo, pin>>
    BY <1>5 DEF SyncReads, SyncHint, SyncWrites
  <2>2. /\ sync'.at \in {"read", "hinted"} => sync'.m \in MetaType
        /\ sync'.at = "hinted" => sync'.hint \in [os : Families, pinned : BOOLEAN]
    BY <1>5 DEF SyncReads, SyncHint, SyncWrites, SessionInv
  <2>. QED
    BY <1>0, <2>1, <2>2
<1>. QED
  BY <1>1, <1>2, <1>3, <1>4, <1>5 DEF Next

\* The session's metadata: whoever writes them keeps the tab and settles the OS, but for
\* what redetection clears and what was stale when it was written back.
LEMMA MetaKeeps ==
    ASSUME IInv, Next
    PROVE  /\ meta' \in MetaType
           /\ torn' \in BOOLEAN /\ (torn => torn')
           /\ undone' \in BOOLEAN
           /\ PinKept'
           /\ Settled => Settled' \/ torn' \/ redo'.at = "cleared"
           /\ (\E t \in Terminals : WritesMeta(t)) => Settled'
<1>1. /\ meta \in MetaType /\ torn \in BOOLEAN /\ undone \in BOOLEAN
      /\ PinKept /\ None \notin Families
  BY OSDetectAssumption DEF IInv, SessionInv
<1>2. ASSUME NEW t \in Terminals, WritesMeta(t)
      PROVE  /\ meta' \in MetaType
             /\ torn' \in BOOLEAN /\ (torn => torn')
             /\ undone' \in BOOLEAN
             /\ PinKept'
             /\ Settled'
  <2>1. obs[t].m \in MetaType /\ obs[t].fam \in Families
    BY <1>2 DEF WritesMeta, IInv, ReadersInv
  <2>2. /\ meta' = [obs[t].m EXCEPT !.os = obs[t].fam]
        /\ torn' = (torn \/ obs[t].m # meta)
        /\ undone' = (undone \/ obs[t].m.tab # meta.tab)
        /\ tabSet' = tabSet
    BY <1>2 DEF WritesMeta, PutMeta, WithOS
  <2>3. meta' \in MetaType /\ meta'.tab = obs[t].m.tab /\ meta'.os = obs[t].fam
    BY <2>1, <2>2 DEF MetaType
  <2>. QED
    BY <1>1, <2>1, <2>2, <2>3 DEF PinKept, Settled
<1>3. ASSUME RedetectClears
      PROVE  /\ meta' \in MetaType
             /\ torn' \in BOOLEAN /\ (torn => torn')
             /\ undone' \in BOOLEAN
             /\ PinKept'
             /\ redo'.at = "cleared"
  <2>1. redo.m \in MetaType
    BY <1>3 DEF RedetectClears, IInv, ReadersInv
  <2>2. /\ meta' = [redo.m EXCEPT !.os = None, !.osPinned = FALSE]
        /\ torn' = (torn \/ redo.m # meta)
        /\ undone' = (undone \/ redo.m.tab # meta.tab)
        /\ tabSet' = tabSet
        /\ redo'.at = "cleared"
    BY <1>3 DEF RedetectClears, PutMeta
  <2>3. meta' \in MetaType /\ meta'.tab = redo.m.tab
    BY <2>1, <2>2 DEF MetaType
  <2>. QED
    BY <1>1, <2>2, <2>3 DEF PinKept
<1>4. ASSUME NEW pinned \in BOOLEAN, PinWrites(pinned)
      PROVE  /\ meta' \in MetaType
             /\ torn' \in BOOLEAN /\ (torn => torn')
             /\ undone' \in BOOLEAN
             /\ PinKept'
             /\ Settled => Settled' \/ torn'
  <2>1. pin.m \in MetaType
    BY <1>4 DEF PinWrites, IInv, ReadersInv
  <2>2. /\ meta' = [pin.m EXCEPT !.tab = pinned]
        /\ torn' = (torn \/ pin.m # meta)
        /\ undone' = FALSE
        /\ tabSet' = pinned
    BY <1>4 DEF PinWrites
  <2>3. /\ meta' \in MetaType /\ meta'.tab = pinned
        /\ meta'.os = pin.m.os /\ meta'.osPinned = pin.m.osPinned
    BY <2>1, <2>2 DEF MetaType
  <2>. QED
    BY <1>1, <2>2, <2>3 DEF PinKept, Settled
<1>5. ASSUME SyncWrites
      PROVE  /\ meta' \in MetaType
             /\ torn' \in BOOLEAN /\ (torn => torn')
             /\ undone' \in BOOLEAN
             /\ PinKept'
             /\ Settled'
  <2>1. sync.m \in MetaType /\ sync.hint \in [os : Families, pinned : BOOLEAN]
    BY <1>5 DEF SyncWrites, IInv, ReadersInv
  <2>2. /\ meta' = [sync.m EXCEPT !.os = sync.hint.os, !.osPinned = sync.hint.pinned]
        /\ torn' = (torn \/ sync.m # meta)
        /\ undone' = (undone \/ sync.m.tab # meta.tab)
        /\ tabSet' = tabSet
    BY <1>5 DEF SyncWrites, PutMeta
  <2>3. /\ sync.hint.os \in Families /\ sync.hint.pinned \in BOOLEAN
    BY <2>1
  <2>4. meta' \in MetaType /\ meta'.tab = sync.m.tab /\ meta'.os = sync.hint.os
    BY <2>1, <2>2, <2>3 DEF MetaType
  <2>. QED
    BY <1>1, <2>2, <2>3, <2>4 DEF PinKept, Settled
<1>6. CASE UNCHANGED <<meta, torn, undone, tabSet>> /\ ~\E t \in Terminals : WritesMeta(t)
  BY <1>1, <1>6 DEF PinKept, Settled
<1>7. \/ \E t \in Terminals : WritesMeta(t)
      \/ RedetectClears
      \/ \E pinned \in BOOLEAN : PinWrites(pinned)
      \/ SyncWrites
      \/ UNCHANGED <<meta, torn, undone, tabSet>>
  <2>1. ASSUME NEW t \in Terminals, Terminal(t)
        PROVE  UNCHANGED <<meta, torn, undone, tabSet>>
    BY <2>1 DEF Terminal, OpenLooks, OpenEnsures, OpenFails, Opens, Ends, LooksForOthers, Drops,
                PumpEnds, shared, aux
  <2>2. ASSUME NEW t \in Terminals, Observation(t)
        PROVE  WritesMeta(t) \/ UNCHANGED <<meta, torn, undone, tabSet>>
    BY <2>2 DEF Observation, Arrives, Guesses, Forgets, ReadsMeta, WritesHint, shared, aux
  <2>3. ASSUME Redetect
        PROVE  RedetectClears \/ UNCHANGED <<meta, torn, undone, tabSet>>
    BY <2>3 DEF Redetect, RedetectReads, RedetectDropsHint, RedetectDropsDetector, RedetectLooks,
                RedetectEnsures, shared, aux
  <2>4. ASSUME PinReads \/ SyncReads \/ SyncHint
        PROVE  UNCHANGED <<meta, torn, undone, tabSet>>
    BY <2>4 DEF PinReads, SyncReads, SyncHint, shared, aux
  <2>. QED
    BY <2>1, <2>2, <2>3, <2>4 DEF Next
<1>. QED
  BY <1>2, <1>3, <1>4, <1>5, <1>6, <1>7

\* The rest of what is known of the session.
LEMMA SessionKeeps ==
    ASSUME IInv, Next
    PROVE  SessionInv' /\ (mixed => mixed') /\ (robbed => robbed')
<1>. USE DEF IInv, SessionInv
<1>1. /\ relay' \in BOOLEAN /\ meta' \in MetaType
      /\ torn' \in BOOLEAN /\ undone' \in BOOLEAN
  BY DetectorKeeps, MetaKeeps
<1>2. hint' \in [os : Families, pinned : BOOLEAN] \union {None}
  <2>1. ASSUME NEW t \in Terminals, WritesHint(t)
        PROVE  hint' \in [os : Families, pinned : BOOLEAN] \union {None}
    <3>1. obs[t].fam \in Families
      BY <2>1 DEF WritesHint, ReadersInv
    <3>. QED
      BY <2>1, <3>1 DEF WritesHint
  <2>2. CASE RedetectDropsHint
    BY <2>2 DEF RedetectDropsHint
  <2>3. CASE hint' = hint
    BY <2>3
  <2>4. (\E t \in Terminals : WritesHint(t)) \/ RedetectDropsHint \/ hint' = hint
    BY DEF Next, Terminal, OpenLooks, OpenEnsures, OpenFails, Opens, Ends, LooksForOthers, Drops,
           PumpEnds, Observation, Arrives, Guesses, Forgets, ReadsMeta, WritesMeta, Redetect,
           RedetectReads, RedetectClears, RedetectDropsDetector, RedetectLooks, RedetectEnsures,
           PinReads, PinWrites, SyncReads, SyncHint, SyncWrites, shared
  <2>. QED
    BY <2>1, <2>2, <2>3, <2>4
<1>3. mixed' \in BOOLEAN /\ (mixed => mixed') /\ robbed' \in BOOLEAN /\ (robbed => robbed')
  <2>1. \/ mixed' = mixed
        \/ mixed' = (mixed \/ Settled)
        \/ \E t \in Terminals : mixed' = (mixed \/ Others(t))
    BY DEF Next, Terminal, OpenLooks, OpenEnsures, OpenFails, Opens, Ends, LooksForOthers, Drops,
           PumpEnds, Observation, Arrives, Guesses, Forgets, ReadsMeta, WritesMeta, WritesHint,
           Redetect, RedetectReads, RedetectClears, RedetectDropsHint, RedetectDropsDetector,
           RedetectLooks, RedetectEnsures, PinReads, PinWrites, SyncReads, SyncHint, SyncWrites, aux
  <2>2. \/ robbed' = robbed
        \/ robbed' = (robbed \/ Ensured # {})
        \/ \E t \in Terminals : robbed' = (robbed \/ det \notin {0, obs[t].det})
    BY DEF Next, Terminal, OpenLooks, OpenEnsures, OpenFails, Opens, Ends, LooksForOthers, Drops,
           PumpEnds, Observation, Arrives, Guesses, Forgets, ReadsMeta, WritesMeta, WritesHint,
           Redetect, RedetectReads, RedetectClears, RedetectDropsHint, RedetectDropsDetector,
           RedetectLooks, RedetectEnsures, PinReads, PinWrites, SyncReads, SyncHint, SyncWrites, aux
  <2>. QED
    BY <2>1, <2>2
<1>. QED
  BY <1>1, <1>2, <1>3

\* Where terminals and pumps are.
LEMMA TerminalKeeps ==
    ASSUME IInv, Next
    PROVE  TerminalInv'
<1>. USE DEF IInv, TerminalInv
<1>1. ASSUME NEW t \in Terminals, Terminal(t)
      PROVE  TerminalInv'
  <2>1. relay' = relay /\ relay \in BOOLEAN
    BY <1>1, DetectorKeeps DEF Next, SessionInv
  <2>2. CASE Opens(t)
    <3>1. /\ term' = [term EXCEPT ![t] = "open"]
          /\ pump' = pump \union {t}
          /\ stream' = [stream EXCEPT ![t] = IF relay THEN "hop" ELSE "target"]
      BY <2>2 DEF Opens
    <3>. QED
      BY <2>1, <3>1 DEF Families
  <2>3. CASE PumpEnds(t)
    BY <2>1, <2>3 DEF PumpEnds
  <2>4. CASE \E l \in {"looked", "ensured"} :
                /\ term[t] \in {"none", "looked"}
                /\ term' = [term EXCEPT ![t] = l]
                /\ UNCHANGED <<pump, stream>>
    BY <2>1, <2>4
  <2>5. CASE \E l \in {"ended", "dropping", "gone"} :
                /\ term' = [term EXCEPT ![t] = l]
                /\ UNCHANGED <<pump, stream>>
    BY <2>1, <2>5
  <2>. QED
    BY <1>1, <2>2, <2>3, <2>4, <2>5
       DEF Terminal, OpenLooks, OpenEnsures, OpenFails, Ends, LooksForOthers, Drops
<1>2. ASSUME NEW t \in Terminals, Observation(t)
      PROVE  TerminalInv'
  <2>1. relay' = relay /\ term' = term
    BY <1>2, ObservationKeeps
  <2>2. pump' = pump
    BY <1>2 DEF Observation, Arrives, Guesses, Forgets, ReadsMeta, WritesMeta, WritesHint, terminals
  <2>3. \/ stream' = stream
        \/ stream' = [stream EXCEPT ![t] = "target"]
    BY <1>2 DEF Observation, Arrives, Guesses, Forgets, ReadsMeta, WritesMeta, WritesHint, terminals
  <2>. QED
    BY <2>1, <2>2, <2>3 DEF Families
<1>3. CASE \/ Redetect \/ PinReads \/ \E pinned \in BOOLEAN : PinWrites(pinned)
           \/ SyncReads \/ SyncHint \/ SyncWrites
  <2>1. UNCHANGED <<relay, term, pump, stream>>
    BY <1>3 DEF Redetect, RedetectReads, RedetectClears, RedetectDropsHint, RedetectDropsDetector,
                RedetectLooks, RedetectEnsures, PinReads, PinWrites, SyncReads, SyncHint,
                SyncWrites, terminals
  <2>. QED
    BY <2>1
<1>. QED
  BY <1>1, <1>2, <1>3 DEF Next

\* The phase of the detector, when no step but a marker ends it and nothing is busy that was not.
LEMMA HopShrinks ==
    ASSUME HopInv, mixed => mixed', relay' = relay,
           \A u \in Terminals : Busy(u)' => Busy(u),
           \A u \in Terminals :
              term'[u] = "ensured" \/ (u \in pump' /\ stream'[u] = "hop") =>
                 term[u] = "ensured" \/ (u \in pump /\ stream[u] = "hop"),
           \/ det' = 0
           \/ det' = det /\ passed' = passed
           \/ ~passed'[det']
    PROVE  HopInv'
BY DEF HopInv

\* The jump host's output meets a detector in its hop phase.
LEMMA HopKeeps ==
    ASSUME IInv, Next
    PROVE  HopInv' /\ \A d \in 1..MaxDetectors : ~mixed => hits'[d].hop = hits[d].hop
<1>. USE DEF IInv
<1>0. /\ mixed => mixed'
      /\ relay' = relay /\ relay \in BOOLEAN
      /\ mixed' \in BOOLEAN
  BY DetectorKeeps, SessionKeeps DEF SessionInv
<1>1. ASSUME NEW t \in Terminals, OpenEnsures(t)
      PROVE  HopInv' /\ \A d \in 1..MaxDetectors : hits'[d].hop = hits[d].hop
  <2>1. /\ ~passed'[det']
        /\ \A d \in 1..MaxDetectors : hits'[d].hop = hits[d].hop
    BY <1>0, <1>1, Rearmed DEF OpenEnsures
  <2>2. /\ term' = [term EXCEPT ![t] = "ensured"]
        /\ UNCHANGED <<pump, stream>>
        /\ mixed' = (mixed \/ Others(t))
    BY <1>1 DEF OpenEnsures
  <2>3. ~mixed' => \A u \in Terminals : Busy(u)' => u = t
    <3>1. ~mixed' => ~Others(t)
      BY <2>2
    <3>2. \A u \in Terminals : u # t /\ Busy(u)' => u \in pump \/ term[u] = "ensured"
      BY <2>2 DEF Busy, TerminalInv
    <3>3. \A u \in Terminals : u # t /\ (u \in pump \/ term[u] = "ensured") => Others(t)
      BY DEF Others
    <3>. QED
      BY <3>1, <3>2, <3>3
  <2>. QED
    BY <2>1, <2>3 DEF HopInv
<1>2. ASSUME NEW t \in Terminals, Opens(t)
      PROVE  HopInv' /\ hits' = hits
  <2>1. /\ term[t] = "ensured"
        /\ term' = [term EXCEPT ![t] = "open"]
        /\ pump' = pump \union {t}
        /\ stream' = [stream EXCEPT ![t] = IF relay THEN "hop" ELSE "target"]
        /\ UNCHANGED <<det, passed, hits>>
    BY <1>2 DEF Opens, shared, detectors
  <2>2. /\ \A u \in Terminals : Busy(u)' => Busy(u)
        /\ \A u \in Terminals :
              term'[u] = "ensured" \/ (u \in pump' /\ stream'[u] = "hop") =>
                 term[u] = "ensured" \/ (u \in pump /\ stream[u] = "hop")
    BY <2>1 DEF Busy, TerminalInv
  <2>. QED
    BY <1>0, <2>1, <2>2, HopShrinks
<1>3. ASSUME NEW t \in Terminals,
             OpenLooks(t) \/ OpenFails(t) \/ Ends(t) \/ LooksForOthers(t) \/ Drops(t) \/ PumpEnds(t)
      PROVE  HopInv' /\ hits' = hits
  <2>1. /\ UNCHANGED <<passed, hits, stream>>
        /\ det' = det \/ det' = 0
        /\ pump' \subseteq pump
        /\ term' = term \/ \E l \in {"looked", "ensured", "gone", "ended", "dropping"} :
                              /\ term' = [term EXCEPT ![t] = l]
                              /\ l = "ensured" => mixed'
    BY <1>0, <1>3 DEF OpenLooks, OpenFails, Ends, LooksForOthers, Drops, PumpEnds, shared, detectors
  <2>2. CASE mixed'
    BY <2>1, <2>2 DEF HopInv
  <2>3. CASE ~mixed'
    <3>1. \A u \in Terminals : term'[u] = "ensured" => term[u] = "ensured"
      BY <2>1, <2>3 DEF TerminalInv
    <3>2. \A u \in Terminals : Busy(u)' => Busy(u)
      BY <2>1, <3>1 DEF Busy
    <3>. QED
      BY <1>0, <2>1, <3>1, <3>2, HopShrinks
  <2>. QED
    BY <2>2, <2>3
<1>4. ASSUME NEW t \in Terminals, NEW kind \in Families \union {"marker"}, Arrives(t, kind)
      PROVE  HopInv' /\ \A d \in 1..MaxDetectors : ~mixed => hits'[d].hop = hits[d].hop
  <2>1. /\ t \in pump
        /\ kind = stream[t] \/ (relay /\ kind = "marker")
        /\ stream' = [stream EXCEPT ![t] = IF kind = "marker" THEN "target" ELSE @]
        /\ UNCHANGED <<det, made, term, pump>>
    BY <1>4 DEF Arrives, shared
  <2>2. stream[t] \in Families /\ (~relay => stream[t] = "target") /\ term[t] # "ensured"
        /\ t \in Terminals
    BY <2>1 DEF TerminalInv
  <2>3. det # 0 => Observe(det, kind)
    BY <1>4 DEF Arrives
  <2>4. det = 0 => UNCHANGED <<passed, hits>>
    BY <1>4 DEF Arrives
  <2>5. det # 0 => /\ kind # "marker" => passed' = passed
                   /\ kind # "hop" \/ HopPhase(det) =>
                         \A d \in 1..MaxDetectors : hits'[d].hop = hits[d].hop
    BY <1>0, <2>1, <2>3, Observed
  <2>6. /\ \A u \in Terminals : Busy(u)' => Busy(u)
        /\ \A u \in Terminals : stream'[u] = "hop" => stream[u] = "hop"
    BY <2>1 DEF Busy, TerminalInv
  <2>7. CASE kind # "marker" \/ det = 0
    <3>1. passed' = passed
      BY <2>4, <2>5, <2>7
    <3>. QED
      <4>1. HopInv'
        BY <1>0, <2>1, <2>6, <3>1, HopShrinks
      <4>2. ~mixed /\ det # 0 /\ kind = "hop" => HopPhase(det)
        BY <2>1, <2>2 DEF HopInv, HopPhase
      <4>. QED
        BY <2>4, <2>5, <4>1, <4>2
  <2>8. CASE kind = "marker" /\ det # 0
    <3>1. stream'[t] = "target"
      BY <2>1, <2>8 DEF TerminalInv
    <3>2. ~mixed /\ relay => \A u \in Terminals : Busy(u) => u = t
      BY <2>1, <2>2 DEF HopInv, Busy
    <3>3. ~mixed' /\ relay' => HopInv'
      BY <1>0, <2>1, <2>2, <2>6, <3>1, <3>2 DEF HopInv, Busy
    <3>4. HopInv'
      BY <3>3 DEF HopInv
    <3>. QED
      BY <2>5, <2>8, <3>4
  <2>. QED
    BY <2>7, <2>8
<1>5. ASSUME NEW t \in Terminals,
             Guesses(t) \/ Forgets(t) \/ ReadsMeta(t) \/ WritesMeta(t) \/ WritesHint(t)
      PROVE  HopInv' /\ hits' = hits
  <2>1. UNCHANGED <<passed, hits, term, pump, stream>> /\ (det' = det \/ det' = 0)
    BY <1>5 DEF Guesses, Forgets, ReadsMeta, WritesMeta, WritesHint, shared, detectors, terminals
  <2>. QED
    BY <1>0, <2>1, HopShrinks DEF Busy
<1>6. ASSUME Redetect
      PROVE  HopInv' /\ \A d \in 1..MaxDetectors : hits'[d].hop = hits[d].hop
  <2>1. UNCHANGED <<term, pump, stream>>
    BY <1>6 DEF Redetect, RedetectReads, RedetectClears, RedetectDropsHint, RedetectDropsDetector,
                RedetectLooks, RedetectEnsures, terminals
  <2>2. CASE RedetectEnsures
    <3>1. /\ ~passed'[det']
          /\ \A d \in 1..MaxDetectors : hits'[d].hop = hits[d].hop
      BY <1>0, <2>2, Rearmed DEF RedetectEnsures
    <3>. QED
      BY <1>0, <2>1, <3>1, HopShrinks DEF Busy
  <2>3. CASE ~RedetectEnsures
    <3>1. UNCHANGED <<passed, hits>> /\ (det' = det \/ det' = 0)
      BY <1>6, <2>3 DEF Redetect, RedetectReads, RedetectClears, RedetectDropsHint,
                        RedetectDropsDetector, RedetectLooks, shared, detectors
    <3>. QED
      BY <1>0, <2>1, <3>1, HopShrinks DEF Busy
  <2>. QED
    BY <2>2, <2>3
<1>7. ASSUME \/ PinReads \/ \E pinned \in BOOLEAN : PinWrites(pinned)
             \/ SyncReads \/ SyncHint \/ SyncWrites
      PROVE  HopInv' /\ hits' = hits
  <2>1. UNCHANGED <<det, passed, hits, term, pump, stream>>
    BY <1>7 DEF PinReads, PinWrites, SyncReads, SyncHint, SyncWrites, shared, detectors, terminals
  <2>. QED
    BY <1>0, <2>1, HopShrinks DEF Busy
<1>. QED
  BY <1>1, <1>2, <1>3, <1>4, <1>5, <1>6, <1>7 DEF Next, Terminal, Observation

LEMMA SilentKeeps ==
    ASSUME IInv, Next
    PROVE  HopSilent'
<1>1. CASE mixed'
  BY <1>1 DEF HopSilent
<1>2. CASE ~mixed'
  <2>1. ~mixed
    BY <1>2, SessionKeeps
  <2>2. \A d \in 1..MaxDetectors : hits'[d].hop = hits[d].hop
    BY <2>1, HopKeeps
  <2>3. \A d \in 1..MaxDetectors : hits[d].hop = 0
    <3>1. \A d \in 1..MaxDetectors : d \in 1..made \/ d > made
      BY OSDetectAssumption DEF IInv, DetectorInv
    <3>. QED
      BY <2>1, <3>1 DEF IInv, HopSilent, DetectorInv
  <2>4. 1..made' \subseteq 1..MaxDetectors
    BY DetectorKeeps, OSDetectAssumption DEF DetectorInv
  <2>. QED
    BY <2>2, <2>3, <2>4 DEF HopSilent
<1>. QED
  BY <1>1, <1>2

\* Whoever leaves an ensured terminal without a detector will see to it, or has settled the OS.
LEMMA WatchKeeps ==
    ASSUME IInv, Next
    PROVE  WatchInv'
<1>. USE DEF IInv
<1>0. /\ robbed => robbed'
      /\ torn => torn'
      /\ Settled => Settled' \/ torn' \/ redo'.at = "cleared"
  BY SessionKeeps, MetaKeeps
<1>1. ASSUME NEW t \in Terminals, Terminal(t)
      PROVE  WatchInv'
  <2>1. UNCHANGED <<meta, obs, redo>>
    BY <1>1 DEF Terminal, OpenLooks, OpenEnsures, OpenFails, Opens, Ends, LooksForOthers, Drops,
                PumpEnds, shared
  <2>2. Excused => Excused'
    BY <1>0, <2>1 DEF Excused
  <2>3. Settled' = Settled
    BY <2>1 DEF Settled
  <2>4. CASE OpenLooks(t)
    <3>1. \A u \in Terminals : term'[u] \in {"ensured", "open"} /\ ~Settled
                              => term[u] \in {"ensured", "open"}
      BY <2>4 DEF OpenLooks, TerminalInv
    <3>2. det' = det
      BY <2>4 DEF OpenLooks, shared
    <3>. QED
      BY <2>2, <2>3, <3>1, <3>2 DEF WatchInv
  <2>5. CASE OpenEnsures(t)
    <3>1. det' # 0
      BY <2>5, Rearmed DEF OpenEnsures, SessionInv
    <3>. QED
      BY <3>1 DEF WatchInv
  <2>6. CASE OpenFails(t) \/ Opens(t) \/ Ends(t) \/ LooksForOthers(t) \/ PumpEnds(t)
    <3>1. \A u \in Terminals : term'[u] \in {"ensured", "open"} => term[u] \in {"ensured", "open"}
      BY <2>6 DEF OpenFails, Opens, Ends, LooksForOthers, PumpEnds, TerminalInv
    <3>2. det' = det
      BY <2>6 DEF OpenFails, Opens, Ends, LooksForOthers, PumpEnds, shared
    <3>. QED
      BY <2>2, <2>3, <3>1, <3>2 DEF WatchInv
  <2>7. CASE Drops(t)
    <3>1. /\ term' = [term EXCEPT ![t] = "gone"]
          /\ robbed' = (robbed \/ Ensured # {})
      BY <2>7 DEF Drops
    <3>2. \A u \in Terminals : term'[u] \in {"ensured", "open"} => u \in Ensured
      BY <3>1 DEF TerminalInv, Ensured
    <3>. QED
      BY <3>1, <3>2 DEF WatchInv, Excused
  <2>. QED
    BY <1>1, <2>4, <2>5, <2>6, <2>7 DEF Terminal
<1>2. ASSUME NEW t \in Terminals, Observation(t)
      PROVE  WatchInv'
  <2>1. /\ \A o \in Terminals \ {t} : obs'[o] = obs[o]
        /\ UNCHANGED <<term, redo>>
    BY <1>2, ObservationKeeps
  <2>2. CASE \/ \E kind \in Families \union {"marker"} : Arrives(t, kind)
             \/ Guesses(t) \/ WritesHint(t)
    <3>1. /\ obs[t].at \notin {"off", "read"}
          /\ UNCHANGED <<meta, det>>
      BY <2>2 DEF Arrives, Guesses, WritesHint, shared
    <3>2. Excused => Excused'
      BY <1>0, <2>1, <3>1 DEF Excused
    <3>. QED
      BY <2>1, <3>1, <3>2 DEF WatchInv, Settled
  <2>3. CASE Forgets(t)
    <3>1. obs'[t].at = "off"
      BY <2>3 DEF Forgets, ObsGoes, ReadersInv
    <3>. QED
      BY <3>1 DEF WatchInv, Excused
  <2>4. CASE ReadsMeta(t)
    <3>1. UNCHANGED <<meta, det>>
      BY <2>4 DEF ReadsMeta, shared
    <3>2. meta.osPinned \/ obs'[t].at = "read"
      BY <2>4 DEF ReadsMeta, ReadersInv
    <3>. QED
      BY <3>1, <3>2 DEF WatchInv, Settled, Excused
  <2>5. CASE WritesMeta(t)
    BY <2>5, MetaKeeps DEF WatchInv
  <2>. QED
    BY <1>2, <2>2, <2>3, <2>4, <2>5 DEF Observation
<1>3. ASSUME Redetect
      PROVE  WatchInv'
  <2>1. UNCHANGED <<term, obs>>
    BY <1>3 DEF Redetect, RedetectReads, RedetectClears, RedetectDropsHint, RedetectDropsDetector,
                RedetectLooks, RedetectEnsures, terminals
  <2>2. CASE RedetectReads
    <3>1. /\ redo.at = "idle"
          /\ UNCHANGED <<meta, det>>
      BY <2>2 DEF RedetectReads, shared
    <3>2. Excused => Excused'
      BY <1>0, <2>1, <3>1 DEF Excused
    <3>. QED
      BY <2>1, <3>1, <3>2 DEF WatchInv, Settled
  <2>3. CASE RedetectClears \/ RedetectDropsHint
    <3>1. redo'.at \in {"cleared", "unhinted"}
      BY <2>3 DEF RedetectClears, RedetectDropsHint, RedoGoes, ReadersInv
    <3>. QED
      BY <3>1 DEF WatchInv, Excused
  <2>4. CASE RedetectDropsDetector
    <3>1. redo'.at = "dropped" \/ Ensured = {} \/ robbed'
      BY <2>4 DEF RedetectDropsDetector, RedoGoes, ReadersInv
    <3>. QED
      BY <2>1, <3>1 DEF WatchInv, Excused, Ensured
  <2>5. CASE RedetectLooks
    <3>1. Settled \/ redo'.at = "looked"
      BY <2>5 DEF RedetectLooks, RedoGoes, ReadersInv
    <3>2. meta' = meta
      BY <2>5 DEF RedetectLooks, shared
    <3>. QED
      BY <3>1, <3>2 DEF WatchInv, Excused, Settled
  <2>6. CASE RedetectEnsures
    <3>1. det' # 0
      BY <2>6, Rearmed DEF RedetectEnsures, SessionInv
    <3>. QED
      BY <3>1 DEF WatchInv
  <2>. QED
    BY <1>3, <2>2, <2>3, <2>4, <2>5, <2>6 DEF Redetect
<1>4. ASSUME \/ PinReads \/ \E pinned \in BOOLEAN : PinWrites(pinned)
             \/ SyncReads \/ SyncHint \/ SyncWrites
      PROVE  WatchInv'
  <2>1. UNCHANGED <<term, obs, redo, det>>
    BY <1>4 DEF PinReads, PinWrites, SyncReads, SyncHint, SyncWrites, shared, terminals
  <2>2. Excused => Excused'
    BY <1>0, <2>1 DEF Excused
  <2>3. ~Settled' => ~Settled \/ Excused'
    BY <1>0 DEF Excused
  <2>. QED
    BY <2>1, <2>2, <2>3 DEF WatchInv
<1>. QED
  BY <1>1, <1>2, <1>3, <1>4 DEF Next

-----------------------------------------------------------------------------
(* The invariant *)

LEMMA InitKeeps == Init => IInv
<1>. SUFFICES ASSUME Init PROVE IInv
  OBVIOUS
<1>0. {MaxDetectors, Budget, Enough} \subseteq Nat
  BY OSDetectAssumption
<1>1. Idle \in [at : ObsPlaces, det : Nat, fam : Families \union {None},
                m : MetaType \union {None}]
      /\ Idle.at = "idle" /\ Idle.det = 0
  BY DEF Idle, ObsPlaces
<1>2. Quiet \in [at : RedoPlaces, m : MetaType \union {None}] /\ Quiet.at = "idle"
  BY DEF Quiet, RedoPlaces
<1>3. ReadersInv
  BY <1>0, <1>1, <1>2 DEF Init, ReadersInv
<1>4. SessionInv
  <2>1. meta \in MetaType
    BY DEF Init, MetaType
  <2>2. hint \in [os : Families, pinned : BOOLEAN] \union {None}
    <3>1. [os |-> "target", pinned |-> TRUE] \in [os : Families, pinned : BOOLEAN]
      BY DEF Families
    <3>. QED
      BY <3>1 DEF Init
  <2>. QED
    BY <2>1, <2>2 DEF Init, SessionInv
<1>5. DetectorInv
  <2>1. /\ passed \in [1..MaxDetectors -> BOOLEAN]
        /\ fed \in [1..MaxDetectors -> 0..Budget]
        /\ hits \in [1..MaxDetectors -> [Families -> Nat]]
    BY <1>0 DEF Init
  <2>2. \A d \in 1..MaxDetectors :
           ~passed[d] /\ fed[d] = 0 /\ hits[d].hop = 0 /\ hits[d].target = 0
    BY DEF Init, Families
  <2>. QED
    BY <1>0, <2>1, <2>2 DEF Init, DetectorInv
<1>6. TerminalInv
  BY DEF Init, TerminalInv
<1>7. HopInv /\ HopSilent /\ WatchInv /\ PinKept
  <2>1. \A t \in Terminals : term[t] = "none" /\ t \notin pump
    BY DEF Init
  <2>2. HopInv /\ WatchInv
    BY <2>1 DEF HopInv, WatchInv, Busy
  <2>3. HopSilent
    BY <1>0 DEF Init, HopSilent
  <2>4. PinKept
    BY DEF Init, PinKept
  <2>. QED
    BY <2>2, <2>3, <2>4
<1>. QED
  BY <1>3, <1>4, <1>5, <1>6, <1>7 DEF IInv

LEMMA StutterKeeps == IInv /\ UNCHANGED vars => IInv'
BY DEF vars, shared, detectors, terminals, aux, IInv, ReadersInv, SessionInv, DetectorInv,
       TerminalInv, HopInv, HopSilent, WatchInv, PinKept, Busy, Excused, Settled

LEMMA NextKeeps == IInv /\ [Next]_vars => IInv'
<1>1. ASSUME IInv, Next PROVE IInv'
  <2>1. ReadersInv' /\ SessionInv' /\ DetectorInv' /\ TerminalInv'
    BY <1>1, ReadersKeep, SessionKeeps, DetectorKeeps, TerminalKeeps
  <2>2. HopInv' /\ HopSilent' /\ WatchInv' /\ PinKept'
    BY <1>1, HopKeeps, SilentKeeps, WatchKeeps, MetaKeeps
  <2>. QED
    BY <2>1, <2>2 DEF IInv
<1>. QED
  BY <1>1, StutterKeeps

LEMMA Invariant == Spec => []IInv
<1>. QED
  BY InitKeeps, NextKeeps, PTL DEF Spec

\* Types, and that a detector counts no more than it was fed: what it looks at is bounded
\* by its budget (osdetect/osdetect.go observeBudget).
THEOREM TypeCorrect == Spec => []TypeOK
<1>1. IInv => TypeOK
  BY DEF IInv, TypeOK, ReadersInv, SessionInv, DetectorInv
<1>. QED
  BY <1>1, Invariant, PTL

\* A label is looked for as long as there is none, and in the target's output only: for any
\* number of terminals, detectors, redetections and imports (app/osdetect.go:62-120).
THEOREM DetectionSound == Spec => []DetectorSound
<1>1. IInv => DetectorSound
  <2>1. IInv => Watched
    BY DEF IInv, WatchInv, Excused, Watched
  <2>. QED
    BY <2>1 DEF IInv, DetectorSound
<1>. QED
  BY <1>1, Invariant, PTL

\* Detection, redetection and import leave a tab as the user last pinned it (app/pin.go:5),
\* unless one of them had read the metadata before that and wrote it after
\* (app/osdetect.go:27-37, 107-116).
THEOREM TabsStay == Spec => []PinKept
<1>1. IInv => PinKept
  BY DEF IInv
<1>. QED
  BY <1>1, Invariant, PTL

-----------------------------------------------------------------------------
(* Transfers: the inductive invariant *)

InLoop == {"next", "copy", "close", "remove", "undo", "ending"}
AtFile == {"copy", "close", "remove", "undo"}

Shape ==
    /\ carrier \in BOOLEAN
    /\ owned \in {"none", "up", "closed"}
    /\ sftp \in {"none", "up", "closed"}
    /\ listed \in BOOLEAN
    /\ cancel \in Uploads \union {NoUpload}
    /\ up \in [Uploads -> [at : {"idle", "clean", "register", "refused", "ended"} \union InLoop,
                           files : Seq(Names)]]
    /\ closer \in [Closers -> [at : {"idle", "read", "cancel", "conn", "carrier", "owned",
                                     "done", "panicked"},
                               cancel : Uploads \union {NoUpload}]]

\* What XferOpen has opened, wherever it is.
OpeningInv ==
    /\ at \in {"idle", "dial", "channel", "plain", "login", "failed"} => ~carrier
    /\ at \in {"idle", "dial", "plain", "plainStarted", "login", "loginStarted"} => owned = "none"
    /\ at = "failed" => owned # "up"
    /\ at \notin {"put", "open"} => sftp = "none"
    /\ at = "put" => sftp = "up"

\* Uploads and closing wait for the handle to be open, and closing takes it off first.
HandleInv ==
    /\ at # "open" => /\ \A u \in Uploads : up[u].at = "idle"
                      /\ \A k \in Closers : closer[k].at = "idle"
    /\ (\E k \in Closers : closer[k].at \in {"read", "cancel", "conn", "carrier", "owned"}) => ~listed

\* An upload at a file has one, and a file it is about to close is complete.
FileInv ==
    \A u \in Uploads :
        /\ up[u].at \in AtFile => up[u].files # <<>>
        /\ up[u].at = "close" => remote[File(u)] = "full"

XferInv == XferType /\ Shape /\ OpeningInv /\ HandleInv /\ FileInv /\ OkMeansThere

-----------------------------------------------------------------------------
(* The files of an upload *)

\* A batch is a sequence of the names there are.
LEMMA BatchNames == \A b \in Batches : b \in Seq(Names)
<1>. SUFFICES ASSUME NEW b \in Batches PROVE b \in Seq(Names)
  OBVIOUS
<1>1. b \in Seq(STRING)
  BY XferAssumption
<1>2. \A i \in DOMAIN b : b[i] \in Names
  BY DEF Names
<1>. QED
  BY <1>1, <1>2

\* What a Finished event does to the files: the head is done with.
LEMMA Advances ==
    ASSUME Shape, NEW u \in Uploads, up[u].files # <<>>
    PROVE  /\ File(u) \in Names
           /\ Tail(up[u].files) \in Seq(Names)
<1>1. up[u].files \in Seq(Names)
  BY DEF Shape
<1>. QED
  BY <1>1 DEF File

-----------------------------------------------------------------------------
(* Steps that leave the uploads alone *)

LEMMA UploadsAlone ==
    ASSUME XferInv, UNCHANGED <<up, remote, told>>
    PROVE  FileInv' /\ OkMeansThere'
<1>1. \A u : File(u)' = File(u)
  BY DEF File
<1>2. FileInv'
  BY <1>1 DEF XferInv, FileInv
<1>3. \A n : Writing(n)' = Writing(n)
  BY <1>1 DEF Writing
<1>4. OkMeansThere'
  BY <1>3 DEF XferInv, OkMeansThere
<1>. QED
  BY <1>2, <1>4

\* XferOpen leaves nothing on the way to a failure, over each route.
LEMMA OpeningKeeps ==
    ASSUME XferInv, Opening
    PROVE  XferInv'
<1>1. at # "open" /\ UNCHANGED <<link, cancel, ctx, up, closer, dir, remote, told>>
  BY DEF Opening, OpensHandle, DialsVia, Channel, StartsHop, HopAnswers, Puts, OpenRest, server
<1>2. FileInv' /\ OkMeansThere'
  BY <1>1, UploadsAlone
<1>. USE DEF XferInv
<1>3. CASE OpensHandle
  <2>1. /\ at = "idle" /\ at' \in {"channel", "plain", "dial", "failed"}
        /\ at' = "plain" \/ at' = "dial" \/ at' = "channel" \/ at' = "failed"
        /\ UNCHANGED <<carrier, owned, sftp, listed>>
    BY <1>3 DEF OpensHandle, OpenRest, Routes
  <2>. QED
    BY <1>1, <1>2, <2>1 DEF XferType, Shape, OpeningInv, HandleInv
<1>4. CASE DialsVia
  BY <1>1, <1>2, <1>4 DEF DialsVia, OpenRest, XferType, Shape, OpeningInv, HandleInv
<1>5. CASE Channel
  BY <1>1, <1>2, <1>5 DEF Channel, OpenRest, XferType, Shape, OpeningInv, HandleInv
<1>6. CASE StartsHop
  <2>1. /\ at \in {"plain", "login"}
        /\ \/ carrier' = TRUE /\ (at' = "plainStarted" \/ at' = "loginStarted")
           \/ carrier' = carrier /\ (at' = "login" \/ at' = "failed")
        /\ UNCHANGED <<route, owned, sftp, listed>>
    BY <1>6 DEF StartsHop, NextAttempt, OpenRest
  <2>2. XferType' /\ Shape'
    BY <1>1, <2>1 DEF XferType, Shape
  <2>3. OpeningInv' /\ HandleInv'
    BY <1>1, <2>1 DEF XferType, OpeningInv, HandleInv
  <2>. QED
    BY <1>2, <2>2, <2>3
<1>7. CASE HopAnswers
  BY <1>1, <1>2, <1>7 DEF HopAnswers, NextAttempt, OpenRest, XferType, Shape, OpeningInv, HandleInv
<1>8. CASE Puts
  BY <1>1, <1>2, <1>8 DEF Puts, XferType, Shape, OpeningInv, HandleInv
<1>. QED
  BY <1>3, <1>4, <1>5, <1>6, <1>7, <1>8 DEF Opening

LEMMA LinkKeeps ==
    ASSUME XferInv, FallsSilent \/ LinkCloses \/ KeepaliveCloses
    PROVE  XferInv'
<1>1. link' \in {"silent", "closed"}
      /\ UNCHANGED <<opening, sftp, listed, cancel, ctx, up, closer, server, told>>
  BY DEF FallsSilent, LinkCloses, KeepaliveCloses, LinkGoes
<1>2. FileInv' /\ OkMeansThere'
  BY <1>1, UploadsAlone DEF server
<1>. QED
  BY <1>1, <1>2 DEF XferInv, XferType, Shape, OpeningInv, HandleInv, opening, server

LEMMA MkdirKeeps ==
    ASSUME XferInv, Mkdir
    PROVE  XferInv'
<1>1. UNCHANGED <<opening, sftp, link, listed, cancel, ctx, up, closer, remote, told>>
  BY DEF Mkdir
<1>2. FileInv' /\ OkMeansThere'
  BY <1>1, UploadsAlone
<1>. QED
  BY <1>1, <1>2 DEF XferInv, XferType, Shape, OpeningInv, HandleInv, opening

\* XferClose takes the handle off before it touches what is under it.
LEMMA ClosersKeep ==
    ASSUME XferInv, NEW k \in Closers, TakesOff(k) \/ Closing(k)
    PROVE  XferInv'
<1>1. UNCHANGED <<route, at, link, cancel, up, dir, remote, told>>
  BY DEF Closing, TakesOff, ReadsCancel, Cancels, ClosesConn, ClosesCarrier, ClosesOwned,
         CloseRest, server
<1>2. FileInv' /\ OkMeansThere'
  BY <1>1, UploadsAlone
<1>. USE DEF XferInv, CloserGoes, CloseRest
<1>. DEFINE Calls == [at : {"idle", "read", "cancel", "conn", "carrier", "owned", "done",
                            "panicked"},
                      cancel : Uploads \union {NoUpload}]
<1>9. ASSUME NEW l \in {"conn", "carrier", "owned", "done", "panicked"}, CloserGoes(k, l)
      PROVE  /\ closer' \in [Closers -> Calls]
             /\ \A j \in Closers : closer'[j].cancel = closer[j].cancel
             /\ \A j \in Closers : closer'[j].at = IF j = k THEN l ELSE closer[j].at
  <2>1. closer \in [Closers -> Calls]
    BY DEF Shape
  <2>. QED
    BY <1>9, <2>1
<1>10. ASSUME NEW l \in {"conn", "carrier", "owned", "done", "panicked"}, CloserGoes(k, l),
              closer[k].at \in {"cancel", "conn", "carrier", "owned"},
              sftp' \in {sftp, "closed"}, owned' \in {owned, "closed"}, carrier' \in {carrier, FALSE},
              listed' = listed, ctx' \subseteq Uploads
       PROVE  XferType' /\ Shape' /\ OpeningInv' /\ HandleInv'
  <2>1. /\ at = "open" /\ ~listed
    BY <1>10 DEF HandleInv
  <2>2. /\ closer' \in [Closers -> Calls]
        /\ \A j \in Closers : closer'[j].cancel = closer[j].cancel
    BY <1>9, <1>10
  <2>3. XferType'
    BY <1>1, <1>10, <2>1, <2>2 DEF XferType
  <2>4. Shape'
    BY <1>1, <1>10, <2>1, <2>2 DEF Shape
  <2>5. OpeningInv' /\ HandleInv'
    BY <1>1, <1>10, <2>1 DEF OpeningInv, HandleInv
  <2>. QED
    BY <2>3, <2>4, <2>5
<1>3. CASE TakesOff(k)
  <2>1. /\ at = "open"
        /\ listed' = FALSE
        /\ UNCHANGED <<carrier, owned, sftp, ctx>>
        /\ \E l \in {"read", "done"} : closer' = [closer EXCEPT ![k].at = l]
    BY <1>3 DEF TakesOff
  <2>2. PICK l \in {"read", "done"} : closer' = [closer EXCEPT ![k].at = l]
    BY <2>1
  <2>3. /\ closer' \in [Closers -> [at : {"idle", "read", "cancel", "conn", "carrier", "owned",
                                         "done", "panicked"},
                                   cancel : Uploads \union {NoUpload}]]
        /\ \A j \in Closers : closer'[j].cancel = closer[j].cancel
    BY <2>2 DEF Shape
  <2>4. XferType'
    BY <1>1, <2>1, <2>3 DEF XferType
  <2>5. Shape'
    BY <1>1, <2>1, <2>3 DEF Shape
  <2>6. OpeningInv' /\ HandleInv'
    BY <1>1, <2>1 DEF OpeningInv, HandleInv
  <2>. QED
    BY <1>2, <2>4, <2>5, <2>6
<1>4. CASE ReadsCancel(k)
  <2>1. /\ closer[k].at = "read"
        /\ \E l \in {"cancel", "conn"} :
              closer' = [closer EXCEPT ![k] = [at |-> l, cancel |-> cancel]]
        /\ UNCHANGED <<carrier, owned, sftp, listed, ctx>>
    BY <1>4 DEF ReadsCancel
  <2>2. at = "open" /\ ~listed /\ cancel \in Uploads \union {NoUpload}
    BY <2>1 DEF HandleInv, Shape
  <2>3. /\ closer' \in [Closers -> Calls]
        /\ \A j \in Closers : closer'[j].cancel \in Uploads \union {NoUpload}
    BY <2>1, <2>2 DEF Shape
  <2>4. XferType'
    BY <1>1, <2>1, <2>3 DEF XferType
  <2>5. Shape'
    BY <1>1, <2>1, <2>3 DEF Shape
  <2>6. OpeningInv' /\ HandleInv'
    BY <1>1, <2>1, <2>2 DEF OpeningInv, HandleInv
  <2>. QED
    BY <1>2, <2>4, <2>5, <2>6
<1>5. CASE Cancels(k)
  <2>1. /\ closer[k].at = "cancel"
        /\ UNCHANGED <<carrier, owned, sftp, listed>>
    BY <1>5 DEF Cancels
  <2>2. PICK called \in {closer[k].cancel, cancel} :
             /\ ctx' = ctx \union ({called} \ {NoUpload})
             /\ CloserGoes(k, IF called = NoUpload THEN "panicked" ELSE "conn")
    BY <1>5 DEF Cancels
  <2>3. ctx' \subseteq Uploads
    BY <2>2 DEF XferType, Shape
  <2>4. \E l \in {"conn", "panicked"} : CloserGoes(k, l)
    BY <2>2
  <2>. QED
    BY <1>2, <1>10, <2>1, <2>3, <2>4
<1>6. CASE ClosesConn(k)
  <2>1. /\ closer[k].at = "conn" /\ sftp' = "closed" /\ CloserGoes(k, "carrier")
        /\ UNCHANGED <<carrier, owned, listed, ctx>>
    BY <1>6 DEF ClosesConn
  <2>2. ctx \subseteq Uploads
    BY DEF XferType
  <2>. QED
    BY <1>2, <1>10, <2>1, <2>2
<1>7. CASE ClosesCarrier(k)
  <2>1. /\ closer[k].at = "carrier" /\ carrier' = FALSE /\ CloserGoes(k, "owned")
        /\ UNCHANGED <<owned, sftp, listed, ctx>>
    BY <1>7 DEF ClosesCarrier
  <2>2. ctx \subseteq Uploads
    BY DEF XferType
  <2>. QED
    BY <1>2, <1>10, <2>1, <2>2
<1>8. CASE ClosesOwned(k)
  <2>1. /\ closer[k].at = "owned" /\ owned' \in {owned, "closed"} /\ CloserGoes(k, "done")
        /\ UNCHANGED <<carrier, sftp, listed, ctx>>
    BY <1>8 DEF ClosesOwned
  <2>2. ctx \subseteq Uploads
    BY DEF XferType
  <2>. QED
    BY <1>2, <1>10, <2>1, <2>2
<1>. QED
  BY <1>3, <1>4, <1>5, <1>6, <1>7, <1>8 DEF Closing

-----------------------------------------------------------------------------
(* Steps of an upload *)

\* What is left of the invariant when an upload moves within what it may do.
LEMMA UploadMoves ==
    ASSUME XferInv, NEW u \in Uploads, NEW r,
           r \in [at : {"idle", "clean", "register", "refused", "ended"} \union InLoop,
                  files : Seq(Names)],
           up' = [up EXCEPT ![u] = r],
           at = "open",
           cancel' \in Uploads \union {NoUpload},
           r.at \in InLoop <=> cancel' = u,
           \A v \in Uploads \ {u} : cancel' = v <=> cancel = v,
           ctx' = ctx,
           UNCHANGED <<opening, sftp, link, listed, closer, dir>>,
           remote' \in [Names -> {"absent", "old", "partial", "full"}],
           told' \in [Names -> {"nothing", "ok", "error"}]
    PROVE  XferType' /\ Shape' /\ OpeningInv' /\ HandleInv'
<1>1. /\ up' \in [Uploads -> [at : {"idle", "clean", "register", "refused", "ended"} \union InLoop,
                              files : Seq(Names)]]
      /\ \A v \in Uploads : up'[v] = IF v = u THEN r ELSE up[v]
  BY DEF XferInv, Shape
<1>2. XferType'
  BY <1>1 DEF XferInv, XferType, InLoop, opening
<1>3. Shape'
  BY <1>1 DEF XferInv, Shape, opening
<1>4. OpeningInv' /\ HandleInv'
  BY DEF XferInv, OpeningInv, HandleInv, opening
<1>. QED
  BY <1>2, <1>3, <1>4

\* A step of an upload that is at no file, before it and after it, and writes none.
LEMMA Bystander ==
    ASSUME XferInv, NEW u \in Uploads, NEW r,
           up' = [up EXCEPT ![u] = r],
           up[u].at \notin AtFile, r.at \notin AtFile,
           UNCHANGED <<remote, told>>
    PROVE  FileInv' /\ OkMeansThere'
<1>1. \A v \in Uploads : up'[v] = IF v = u THEN r ELSE up[v]
  BY DEF XferInv, Shape
<1>2. \A v \in Uploads : up'[v].at \in AtFile => v # u /\ up'[v] = up[v] /\ File(v)' = File(v)
  BY <1>1 DEF File
<1>3. FileInv'
  BY <1>2 DEF XferInv, FileInv, AtFile
<1>4. \A n : Writing(n) => Writing(n)'
  BY <1>1, <1>2 DEF Writing, AtFile, File
<1>5. OkMeansThere'
  BY <1>4 DEF XferInv, OkMeansThere
<1>. QED
  BY <1>3, <1>5

\* The upload that holds h.cancel is the only one at a file.
LEMMA OnlyWriter ==
    ASSUME XferInv, NEW u \in Uploads, up[u].at \in InLoop
    PROVE  cancel = u /\ \A v \in Uploads : up[v].at \in AtFile => v = u
<1>1. \A v \in Uploads : up[v].at \in InLoop <=> cancel = v
  BY DEF XferInv, XferType, InLoop
<1>. QED
  BY <1>1 DEF InLoop, AtFile

\* A step of the upload that holds h.cancel, which alone is at a file.
LEMMA WriterMoves ==
    ASSUME XferInv, NEW u \in Uploads, NEW r,
           up[u].at \in InLoop,
           up' = [up EXCEPT ![u] = r],
           r.at \in AtFile => r.files # <<>>,
           r.at = "close" => remote'[Head(r.files)] = "full",
           \A n \in Names : /\ told'[n] = "ok"
                            /\ ~(r.at \in AtFile /\ Head(r.files) = n)
                            => remote'[n] = "full"
    PROVE  FileInv' /\ OkMeansThere'
<1>1. \A v \in Uploads : up'[v] = IF v = u THEN r ELSE up[v]
  BY DEF XferInv, Shape
<1>2. \A v \in Uploads : up'[v].at \in AtFile => v = u
  BY <1>1, OnlyWriter
<1>3. up'[u] = r /\ File(u)' = Head(r.files)
  BY <1>1 DEF File
<1>4. FileInv'
  BY <1>2, <1>3 DEF FileInv, AtFile
<1>5. \A n : r.at \in AtFile /\ Head(r.files) = n => Writing(n)'
  BY <1>3 DEF Writing, AtFile
<1>6. OkMeansThere'
  BY <1>5 DEF OkMeansThere
<1>. QED
  BY <1>4, <1>6

\* A handle some upload has been given is open.
LEMMA HandleOpen ==
    ASSUME XferInv, NEW u \in Uploads, Gets(u) \/ Uploading(u)
    PROVE  at = "open"
<1>1. CASE Gets(u)
  BY <1>1 DEF Gets
<1>2. CASE Uploading(u)
  <2>1. up[u].at # "idle"
    BY <1>2 DEF Uploading, Cleans, Registers, OpensFile, Copied, Interrupted, ClosesFile,
                Removes, UploadEnds
  <2>. QED
    BY <2>1 DEF XferInv, HandleInv
<1>. QED
  BY <1>1, <1>2

\* Where an upload is, written in place.
LEMMA Entry ==
    ASSUME Shape, NEW u \in Uploads, NEW l
    PROVE  [up EXCEPT ![u].at = l] = [up EXCEPT ![u] = [at |-> l, files |-> up[u].files]]
<1>1. up[u] = [at |-> up[u].at, files |-> up[u].files]
  BY DEF Shape
<1>2. [up[u] EXCEPT !.at = l] = [at |-> l, files |-> up[u].files]
  BY <1>1
<1>. QED
  BY <1>2 DEF Shape

\* Before it is registered and once it has ended, an upload has no part in a file.
LEMMA OutsideKeeps ==
    ASSUME XferInv, NEW u \in Uploads, Gets(u) \/ Cleans(u) \/ Registers(u) \/ UploadEnds(u)
    PROVE  XferInv'
<1>1. at = "open"
  BY HandleOpen DEF Uploading
<1>2. /\ UNCHANGED <<opening, sftp, link, listed, closer, dir, ctx, remote, told>>
      /\ up[u].at \notin AtFile
  BY DEF Gets, Cleans, Registers, UploadEnds, UpRest, AtFile
<1>3. /\ cancel \in Uploads \union {NoUpload} /\ NoUpload \notin Uploads
      /\ \A v \in Uploads : up[v].at \in InLoop <=> cancel = v
      /\ up[u] \in [at : {"idle", "clean", "register", "refused", "ended"} \union InLoop,
                    files : Seq(Names)]
  BY XferAssumption DEF XferInv, XferType, Shape, InLoop
<1>4. \E r \in [at : {"clean", "register", "refused", "ended", "next"}, files : Seq(Names)] :
         /\ up' = [up EXCEPT ![u] = r]
         /\ cancel' \in Uploads \union {NoUpload}
         /\ r.at \in InLoop <=> cancel' = u
         /\ \A v \in Uploads \ {u} : cancel' = v <=> cancel = v
  <2>1. ASSUME Gets(u)
        PROVE  \E b \in Batches, l \in {"clean", "refused"} :
                  up' = [up EXCEPT ![u] = [at |-> l, files |-> b]]
    BY <2>1 DEF Gets
  <2>2. CASE Gets(u)
    <3>1. PICK b \in Batches, l \in {"clean", "refused"} :
             up' = [up EXCEPT ![u] = [at |-> l, files |-> b]]
      BY <2>1, <2>2
    <3>2. cancel' = cancel /\ up[u].at = "idle"
      BY <2>2 DEF Gets
    <3>3. cancel # u
      BY <1>3, <3>2 DEF InLoop
    <3>. QED
      BY <1>3, <3>1, <3>2, <3>3, BatchNames DEF InLoop
  <2>3. ASSUME NEW l, up' = [up EXCEPT ![u].at = l]
        PROVE  up' = [up EXCEPT ![u] = [at |-> l, files |-> up[u].files]]
    BY <2>3, Entry DEF XferInv
  <2>4. CASE Cleans(u)
    <3>1. PICK l \in {"register", "refused"} : up' = [up EXCEPT ![u].at = l]
      BY <2>4 DEF Cleans
    <3>2. up' = [up EXCEPT ![u] = [at |-> l, files |-> up[u].files]]
      BY <2>3, <3>1
    <3>3. cancel' = cancel /\ cancel # u
      BY <1>3, <2>4 DEF Cleans, InLoop
    <3>. QED
      BY <1>3, <3>2, <3>3 DEF InLoop
  <2>5. CASE Registers(u) /\ cancel # NoUpload
    <3>1. up' = [up EXCEPT ![u] = [at |-> "refused", files |-> up[u].files]]
      BY <2>3, <2>5 DEF Registers
    <3>2. cancel' = cancel /\ cancel # u
      BY <1>3, <2>5 DEF Registers, InLoop
    <3>. QED
      BY <1>3, <3>1, <3>2 DEF InLoop
  <2>6. CASE Registers(u) /\ cancel = NoUpload
    <3>1. up' = [up EXCEPT ![u] = [at |-> "next", files |-> up[u].files]]
      BY <2>3, <2>6 DEF Registers
    <3>2. cancel' = u
      BY <2>6 DEF Registers
    <3>. QED
      BY <1>3, <2>6, <3>1, <3>2 DEF InLoop
  <2>7. CASE UploadEnds(u)
    <3>1. up' = [up EXCEPT ![u] = [at |-> "ended", files |-> up[u].files]]
      BY <2>3, <2>7 DEF UploadEnds
    <3>2. cancel' = NoUpload /\ cancel = u
      BY <1>3, <2>7 DEF UploadEnds, InLoop
    <3>. QED
      BY <1>3, <3>1, <3>2 DEF InLoop
  <2>. QED
    BY <2>2, <2>4, <2>5, <2>6, <2>7
<1>5. PICK r \in [at : {"clean", "register", "refused", "ended", "next"}, files : Seq(Names)] :
         /\ up' = [up EXCEPT ![u] = r]
         /\ cancel' \in Uploads \union {NoUpload}
         /\ r.at \in InLoop <=> cancel' = u
         /\ \A v \in Uploads \ {u} : cancel' = v <=> cancel = v
  BY <1>4
<1>6. /\ r \in [at : {"idle", "clean", "register", "refused", "ended"} \union InLoop,
                files : Seq(Names)]
      /\ r.at \notin AtFile
  BY <1>5 DEF InLoop, AtFile
<1>7. /\ remote' \in [Names -> {"absent", "old", "partial", "full"}]
      /\ told' \in [Names -> {"nothing", "ok", "error"}]
  BY <1>2 DEF XferInv, XferType
<1>8. XferType' /\ Shape' /\ OpeningInv' /\ HandleInv'
  BY <1>1, <1>2, <1>5, <1>6, <1>7, UploadMoves
<1>9. FileInv' /\ OkMeansThere'
  BY <1>2, <1>5, <1>6, Bystander
<1>. QED
  BY <1>8, <1>9 DEF XferInv

\* The files the steps of an upload at its files leave: the report of one takes the next.
LEMMA FilesKept ==
    ASSUME XferInv, NEW u \in Uploads, NEW r,
           at = "open",
           up[u].at \in InLoop,
           up' = [up EXCEPT ![u] = r],
           r \in [at : InLoop, files : Seq(Names)],
           UNCHANGED <<opening, sftp, link, listed, closer, dir, cancel, ctx>>,
           remote' \in [Names -> {"absent", "old", "partial", "full"}],
           told' \in [Names -> {"nothing", "ok", "error"}],
           r.at \in AtFile => r.files # <<>>,
           r.at = "close" => remote'[Head(r.files)] = "full",
           \A n \in Names : /\ told'[n] = "ok"
                            /\ ~(r.at \in AtFile /\ Head(r.files) = n)
                            => remote'[n] = "full"
    PROVE  XferInv'
<1>1. cancel = u
  BY OnlyWriter
<1>2. /\ r \in [at : {"idle", "clean", "register", "refused", "ended"} \union InLoop,
                files : Seq(Names)]
      /\ r.at \in InLoop <=> cancel' = u
      /\ \A v \in Uploads \ {u} : cancel' = v <=> cancel = v
      /\ cancel' \in Uploads \union {NoUpload}
  BY <1>1
<1>3. XferType' /\ Shape' /\ OpeningInv' /\ HandleInv'
  BY <1>2, UploadMoves
<1>4. FileInv' /\ OkMeansThere'
  BY WriterMoves
<1>. QED
  BY <1>3, <1>4 DEF XferInv

\* What was reported of other files than the one upload u is at stands.
LEMMA OthersThere ==
    ASSUME XferInv, NEW u \in Uploads, up[u].at \in InLoop, up[u].files # <<>>
    PROVE  \A n \in Names : told[n] = "ok" /\ n # File(u) => remote[n] = "full"
<1>1. \A n : Writing(n) => n = File(u)
  BY OnlyWriter DEF Writing, AtFile
<1>. QED
  BY <1>1 DEF XferInv, OkMeansThere

\* The record a Finished event leaves.
LEMMA Reported ==
    ASSUME XferInv, NEW u \in Uploads, up[u].files # <<>>,
           NEW verdict \in {"ok", "error"}, Reports(u, verdict)
    PROVE  /\ \E l \in {"ending", "next"} :
                 up' = [up EXCEPT ![u] = [at |-> l, files |-> Tail(up[u].files)]]
           /\ told' \in [Names -> {"nothing", "ok", "error"}]
           /\ told' = [told EXCEPT ![File(u)] = verdict]
<1>3. up' = [up EXCEPT ![u] = [at |-> IF verdict = "error" /\ u \in ctx THEN "ending" ELSE "next",
                               files |-> Tail(up[u].files)]]
  BY DEF Reports, XferInv, Shape
<1>4. told' = [told EXCEPT ![File(u)] = verdict]
  BY DEF Reports
<1>5. told' \in [Names -> {"nothing", "ok", "error"}]
  BY <1>4 DEF XferInv, XferType
<1>. QED
  BY <1>3, <1>4, <1>5

\* The loop over the files.
LEMMA FilesKeep ==
    ASSUME XferInv, NEW u \in Uploads,
           OpensFile(u) \/ Copied(u) \/ Interrupted(u) \/ ClosesFile(u) \/ Removes(u)
    PROVE  XferInv'
<1>1. at = "open"
  BY HandleOpen DEF Uploading
<1>2. /\ UNCHANGED <<opening, sftp, link, listed, closer, dir, cancel, ctx>>
      /\ up[u].at \in InLoop
  BY DEF OpensFile, Copied, Interrupted, ClosesFile, Removes, UpRest, InLoop
<1>3. up[u].files # <<>>
  BY DEF XferInv, FileInv, AtFile, OpensFile, Copied, Interrupted, ClosesFile, Removes
<1>4. /\ up[u] \in [at : {"idle", "clean", "register", "refused", "ended"} \union InLoop,
                    files : Seq(Names)]
      /\ remote \in [Names -> {"absent", "old", "partial", "full"}]
      /\ told \in [Names -> {"nothing", "ok", "error"}]
  BY DEF XferInv, Shape, XferType
<1>5. File(u) \in Names /\ File(u) = Head(up[u].files) /\ Tail(up[u].files) \in Seq(Names)
  BY <1>3, Advances DEF XferInv, File
<1>6. \A n \in Names : told[n] = "ok" /\ n # File(u) => remote[n] = "full"
  BY <1>2, <1>3, OthersThere
\* A step to another place at the same file.
<1>7. ASSUME NEW l \in AtFile, up' = [up EXCEPT ![u].at = l], UNCHANGED told,
             remote' \in [Names -> {"absent", "old", "partial", "full"}],
             \A n \in Names : n # File(u) => remote'[n] = remote[n],
             l = "close" => remote'[File(u)] = "full"
      PROVE  XferInv'
  <2>. DEFINE r == [at |-> l, files |-> up[u].files]
  <2>1. up' = [up EXCEPT ![u] = r]
    BY <1>7, Entry DEF XferInv
  <2>2. r \in [at : InLoop, files : Seq(Names)] /\ r.at = l /\ r.files = up[u].files
    BY <1>4 DEF InLoop, AtFile
  <2>3. \A n \in Names : told'[n] = "ok" /\ n # File(u) => remote'[n] = "full"
    BY <1>6, <1>7
  <2>4. told' \in [Names -> {"nothing", "ok", "error"}]
    BY <1>4, <1>7
  <2>5. r.at = "close" => remote'[Head(r.files)] = "full"
    BY <1>5, <1>7, <2>2
  <2>6. \A n \in Names : told'[n] = "ok" /\ ~(r.at \in AtFile /\ Head(r.files) = n)
                         => remote'[n] = "full"
    BY <1>5, <1>7, <2>2, <2>3
  <2>7. r.at \in AtFile => r.files # <<>>
    BY <1>3, <2>2
  <2>. HIDE DEF r
  <2>. QED
    BY <1>1, <1>2, <1>7, <2>1, <2>2, <2>4, <2>5, <2>6, <2>7, FilesKept
\* A Finished event.
<1>8. ASSUME NEW verdict \in {"ok", "error"}, Reports(u, verdict),
             remote' \in [Names -> {"absent", "old", "partial", "full"}],
             \A n \in Names : n # File(u) => remote'[n] = remote[n],
             verdict = "ok" => remote'[File(u)] = "full"
      PROVE  XferInv'
  <2>1. PICK l \in {"ending", "next"} :
           up' = [up EXCEPT ![u] = [at |-> l, files |-> Tail(up[u].files)]]
    BY <1>3, <1>8, Reported
  <2>2. /\ told' \in [Names -> {"nothing", "ok", "error"}]
        /\ told' = [told EXCEPT ![File(u)] = verdict]
    BY <1>3, <1>8, Reported
  <2>3. \A n \in Names : told'[n] = "ok" => remote'[n] = "full"
    BY <1>4, <1>6, <1>8, <2>2
  <2>4. /\ [at |-> l, files |-> Tail(up[u].files)] \in [at : InLoop, files : Seq(Names)]
        /\ [at |-> l, files |-> Tail(up[u].files)].at \notin AtFile
        /\ [at |-> l, files |-> Tail(up[u].files)].at # "close"
    BY <1>5 DEF InLoop, AtFile
  <2>. QED
    BY <1>1, <1>2, <1>8, <2>1, <2>2, <2>3, <2>4, FilesKept
<1>9. CASE OpensFile(u)
  <2>1. CASE Reports(u, "error") /\ UNCHANGED remote
    BY <1>4, <1>8, <2>1
  <2>2. CASE /\ remote' = [remote EXCEPT ![File(u)] = "partial"]
             /\ up' = [up EXCEPT ![u].at = "copy"]
             /\ UNCHANGED told
    BY <1>4, <1>5, <1>7, <2>2 DEF AtFile
  <2>. QED
    BY <1>9, <2>1, <2>2 DEF OpensFile
<1>10. CASE Copied(u)
  <2>1. CASE remote' = [remote EXCEPT ![File(u)] = "full"] /\ up' = [up EXCEPT ![u].at = "close"]
    <3>1. told' = told
      BY <1>10 DEF Copied
    <3>. QED
      BY <1>4, <1>5, <1>7, <2>1, <3>1 DEF AtFile
  <2>2. CASE up' = [up EXCEPT ![u].at = "remove"] /\ UNCHANGED remote
    <3>1. told' = told
      BY <1>10 DEF Copied
    <3>. QED
      BY <1>4, <1>7, <2>2, <3>1 DEF AtFile
  <2>. QED
    BY <1>10, <2>1, <2>2 DEF Copied
<1>11. CASE Interrupted(u)
  <2>1. up' = [up EXCEPT ![u].at = "undo"] /\ UNCHANGED <<remote, told>>
    BY <1>11 DEF Interrupted
  <2>. QED
    BY <1>4, <1>7, <2>1 DEF AtFile
<1>12. CASE ClosesFile(u)
  <2>1. UNCHANGED remote /\ remote[File(u)] = "full"
    BY <1>12 DEF ClosesFile, XferInv, FileInv
  <2>2. CASE Reports(u, "ok")
    BY <1>4, <1>8, <2>1, <2>2
  <2>3. CASE up' = [up EXCEPT ![u].at = "remove"] /\ UNCHANGED told
    BY <1>4, <1>7, <2>1, <2>3 DEF AtFile
  <2>. QED
    BY <1>12, <2>2, <2>3 DEF ClosesFile
<1>13. CASE Removes(u)
  <2>1. Reports(u, "error")
    BY <1>13 DEF Removes
  <2>2. /\ remote' \in [Names -> {"absent", "old", "partial", "full"}]
        /\ \A n \in Names : n # File(u) => remote'[n] = remote[n]
    BY <1>4, <1>13 DEF Removes
  <2>. QED
    BY <1>8, <2>1, <2>2
<1>. QED
  BY <1>9, <1>10, <1>11, <1>12, <1>13

-----------------------------------------------------------------------------
(* The invariant *)

LEMMA XferInitKeeps == XferInit => XferInv
<1>. SUFFICES ASSUME XferInit PROVE XferInv
  OBVIOUS
<1>1. \A u \in Uploads : up[u].at = "idle" /\ u # NoUpload
  BY XferAssumption DEF XferInit
<1>2. remote \in [Names -> {"absent", "old", "partial", "full"}]
  BY DEF XferInit
<1>3. XferType
  BY <1>1, <1>2 DEF XferInit, XferType
<1>4. <<>> \in Seq(Names)
  OBVIOUS
<1>5. Shape
  BY <1>4 DEF XferInit, Shape
<1>6. OpeningInv /\ HandleInv
  BY DEF XferInit, OpeningInv, HandleInv
<1>7. FileInv
  BY <1>1 DEF FileInv, AtFile
<1>8. OkMeansThere
  BY DEF XferInit, OkMeansThere
<1>. QED
  BY <1>3, <1>5, <1>6, <1>7, <1>8 DEF XferInv

LEMMA XferNextKeeps == XferInv /\ [XferNext]_xferVars => XferInv'
<1>. SUFFICES ASSUME XferInv, [XferNext]_xferVars PROVE XferInv'
  OBVIOUS
<1>1. CASE Opening
  BY <1>1, OpeningKeeps
<1>2. CASE FallsSilent \/ LinkCloses \/ KeepaliveCloses
  BY <1>2, LinkKeeps
<1>3. CASE \E u \in Uploads : Gets(u) \/ Uploading(u)
  BY <1>3, OutsideKeeps, FilesKeep DEF Uploading
<1>4. CASE Mkdir
  BY <1>4, MkdirKeeps
<1>5. CASE \E k \in Closers : TakesOff(k) \/ Closing(k)
  BY <1>5, ClosersKeep
<1>6. CASE UNCHANGED xferVars
  <2>1. UNCHANGED <<up, remote, told>>
    BY <1>6 DEF xferVars, server
  <2>2. FileInv' /\ OkMeansThere'
    BY <2>1, UploadsAlone
  <2>. QED
    BY <1>6, <2>2 DEF XferInv, xferVars, opening, server, XferType, Shape, OpeningInv, HandleInv
<1>. QED
  BY <1>1, <1>2, <1>3, <1>4, <1>5, <1>6 DEF XferNext

LEMMA XferInvariant == XferSpec => []XferInv
<1>. QED
  BY XferInitKeeps, XferNextKeeps, PTL DEF XferSpec

\* Types, and that h.cancel is held by the one upload that runs (app/xfer.go:322-330).
THEOREM XferTypeCorrect == XferSpec => []XferType
<1>1. XferInv => XferType
  BY DEF XferInv
<1>. QED
  BY <1>1, XferInvariant, PTL

\* A file the dialog was told is uploaded is there in full, until it is written again:
\* for any number of uploads, however they are cancelled and the connection lost
\* (app/xfer.go:338-352, xfer/xfer.go:126-190).
THEOREM UploadedIsThere == XferSpec => []OkMeansThere
<1>1. XferInv => OkMeansThere
  BY DEF XferInv
<1>. QED
  BY <1>1, XferInvariant, PTL

\* A handle that could not be opened leaves no session on the jump host, no private
\* connection and no channel, on each of the three routes (app/xfer.go:203-269).
THEOREM FailureLeavesNothing == XferSpec => []FailedLeavesNothing
<1>1. XferInv => FailedLeavesNothing
  BY DEF XferInv, OpeningInv, FailedLeavesNothing
<1>. QED
  BY <1>1, XferInvariant, PTL

-----------------------------------------------------------------------------
(* What is closed stays closed *)

TakenOff == at = "open" /\ ~listed

\* Once a handle that was taken off has nothing left, nothing it does brings any of it
\* back: an upload that asks for it is refused, a second XferClose finds nothing.
THEOREM GoneForGood == XferSpec => [][TakenOff /\ Gone => (TakenOff /\ Gone)']_xferVars
<1>1. ASSUME XferInv, XferNext, TakenOff, Gone
      PROVE  (TakenOff /\ Gone)'
  <2>. USE DEF TakenOff
  <2>1. \A u \in Uploads : up[u].at \in {"idle", "refused", "ended"}
    BY <1>1 DEF Gone
  <2>2. ~Opening
    BY <1>1 DEF Opening, OpensHandle, DialsVia, Channel, StartsHop, HopAnswers, Puts
  <2>3. ~\E u \in Uploads : Uploading(u)
    BY <2>1 DEF Uploading, Cleans, Registers, OpensFile, Copied, Interrupted, ClosesFile,
                Removes, UploadEnds
  <2>4. CASE FallsSilent \/ LinkCloses \/ KeepaliveCloses \/ Mkdir
    BY <1>1, <2>4 DEF FallsSilent, LinkCloses, KeepaliveCloses, LinkGoes, Mkdir, opening, Gone
  <2>5. CASE \E u \in Uploads : Gets(u)
    <3>1. PICK u \in Uploads : Gets(u)
      BY <2>5
    <3>2. /\ \E b \in Batches : up' = [up EXCEPT ![u] = [at |-> "refused", files |-> b]]
          /\ UNCHANGED <<at, listed, carrier, owned>>
      BY <1>1, <3>1 DEF Gets, UpRest, opening
    <3>3. \A v \in Uploads : up'[v].at \in {"idle", "refused", "ended"}
      BY <1>1, <2>1, <3>2 DEF XferInv, Shape
    <3>. QED
      BY <1>1, <3>2, <3>3 DEF Gone
  <2>6. CASE \E k \in Closers : TakesOff(k) \/ Closing(k)
    <3>1. /\ UNCHANGED <<at, up>>
          /\ listed' = FALSE
          /\ carrier' = carrier \/ carrier' = FALSE
          /\ owned' = owned \/ owned' = IF owned = "up" THEN "closed" ELSE owned
      BY <1>1, <2>6 DEF Closing, TakesOff, ReadsCancel, Cancels, ClosesConn, ClosesCarrier,
                        ClosesOwned, CloseRest, XferInv, Shape
    <3>. QED
      BY <1>1, <3>1 DEF Gone
  <2>. QED
    BY <1>1, <2>2, <2>3, <2>4, <2>5, <2>6 DEF XferNext
<1>2. ASSUME XferInv, UNCHANGED xferVars, TakenOff, Gone
      PROVE  (TakenOff /\ Gone)'
  BY <1>2 DEF xferVars, opening, TakenOff, Gone
<1>. QED
  BY <1>1, <1>2, XferInvariant, PTL DEF XferSpec
=============================================================================
