---------------------------- MODULE ConnMgrProofs ----------------------------
(***************************************************************************)
(* Proofs about the connection manager: type correctness, the bound on     *)
(* dials in flight, and the invariants that relate rows, dials and clients *)
(* for any number of sessions, callers and targets.                        *)
(***************************************************************************)
EXTENDS ConnMgr, FiniteSetTheorems, TLAPS

-----------------------------------------------------------------------------
(* The inductive invariant *)

\* A dial has a target once it is started, and the loop has gone past it.
StartedInv ==
  \A d \in Dials :
    /\ (phase[d] = "unused") <=> (sess[d] = None)
    /\ phase[d] # "unused" => d[2] < next[d[1]]
    /\ d \in orphaned \cup misfiled => phase[d] # "unused"

\* What a dial's phase says about its client.
ClientInv ==
  \A d \in Dials :
    /\ phase[d] \in {"unused", "waiting", "dialing", "failed"} =>
         client[d] = "none" /\ d \notin toClose
    /\ phase[d] = "opened" => client[d] \in {"open", "dead"} /\ d \notin toClose

\* What an entry says about the dial it was installed for and the client it
\* holds. This part needs no assumption on late settles.
EntryOK(s) ==
  /\ (state[s] = "absent") <=> (owner[s] = None)
  /\ owner[s] # None => sess[owner[s]] = s /\ owner[s] \notin orphaned
  /\ cli[s] # None =>
       /\ state[s] # "absent"
       /\ sess[cli[s]] = s
       /\ phase[cli[s]] \in {"settled", "finished"}
       /\ client[cli[s]] \in {"open", "dead"}
       /\ cli[s] \notin toClose

EntryInv == \A s \in Sessions : EntryOK(s)

\* What holds of a session none of whose dials was misfiled.
CleanOK(s) ==
  /\ state[s] # "absent" =>
       /\ (state[s] = "connected") <=> (cli[s] # None)
       /\ cli[s] \in {None, owner[s]}
       /\ (state[s] = "dialing") <=> (owner[s] \in Unsettled)
  /\ \A d \in Dials : sess[d] = s =>
       /\ d \in Unsettled /\ d \notin orphaned => owner[s] = d
       /\ ~Leaked(d)

CleanInv == \A s \in Sessions : Clean(s) => CleanOK(s)

\* The tokens taken are the goroutines that took one and have not returned.
SemInv == sem = Cardinality(Holding) /\ sem <= Cap

IInv ==
  /\ TypeOK
  /\ StartedInv
  /\ SemInv
  /\ ClientInv
  /\ EntryInv
  /\ CleanInv

-----------------------------------------------------------------------------
(* Type correctness, together with the semaphore's count *)

LEMMA HoldingFinite == IsFiniteSet(Holding)
  BY FiniteAssumption, FS_Subset, Holding \subseteq Dials DEF Holding

LEMMA OrphansType == \A s : Orphans(s) \subseteq Dials
  BY DEF Orphans, Unsettled

LEMMA TypeInit == Init => TypeOK
  BY CapAssumption, TargetsAssumption DEF Init, TypeOK, States, Phases, ClientStates, WatchStates

LEMMA TypeStep == TypeOK /\ SemInv /\ [Next]_vars => TypeOK'
<1>. SUFFICES ASSUME TypeOK, SemInv, [Next]_vars PROVE TypeOK'
  OBVIOUS
<1>. USE TargetsAssumption DEF TypeOK
<1>1. ASSUME NEW b \in Batches, NEW ts \in TargetLists[b], ConnectBatch(b, ts)
      PROVE  TypeOK'
  BY <1>1 DEF ConnectBatch, States, Phases, ClientStates, WatchStates, vars, entryVars, batchVars, auxVars
<1>2. ASSUME NEW b \in Batches, SkipTarget(b)
      PROVE  TypeOK'
  BY <1>2 DEF SkipTarget, InLoop, States, Phases, ClientStates, WatchStates, vars, entryVars, batchVars, auxVars
<1>3. ASSUME NEW b \in Batches, StartDial(b)
      PROVE  TypeOK'
  <2>1. /\ targets[b][next[b]] \in Sessions
        /\ <<b, next[b]>> \in Dials
    BY <1>3 DEF StartDial, InLoop, Dials
  <2>2. {cli[targets[b][next[b]]]} \ {None} \subseteq Dials
    BY <2>1
  <2>3. QED
    BY <1>3, <2>1, <2>2 DEF StartDial, CloseClients, States, Phases, auxVars
<1>4. ASSUME NEW b \in Batches, CloseDone(b)
      PROVE  TypeOK'
  BY <1>4 DEF CloseDone, InLoop, States, Phases, ClientStates, WatchStates, vars, entryVars, batchVars, auxVars
<1>5. ASSUME NEW b \in Batches, CancelContext(b)
      PROVE  TypeOK'
  BY <1>5 DEF CancelContext, States, Phases, ClientStates, WatchStates, vars, entryVars, batchVars, auxVars
<1>6. ASSUME NEW d \in Dials, Acquire(d)
      PROVE  TypeOK'
  BY <1>6 DEF Acquire, States, Phases, ClientStates, WatchStates, vars, entryVars, batchVars, auxVars
<1>7. ASSUME NEW d \in Dials, GiveUp(d)
      PROVE  TypeOK'
  BY <1>7 DEF GiveUp, RecordError, Misfiled, States, Phases, ClientStates, WatchStates, vars, entryVars, batchVars, auxVars
<1>8. ASSUME NEW d \in Dials, DialFails(d)
      PROVE  TypeOK'
  BY <1>8 DEF DialFails, States, Phases, ClientStates, WatchStates, vars, entryVars, batchVars, auxVars
<1>9. ASSUME NEW d \in Dials, DialOpens(d)
      PROVE  TypeOK'
  BY <1>9 DEF DialOpens, States, Phases, ClientStates, WatchStates, vars, entryVars, batchVars, auxVars
<1>10. ASSUME NEW d \in Dials, SettleError(d)
      PROVE  TypeOK'
  BY <1>10 DEF SettleError, RecordError, Misfiled, States, Phases, ClientStates, WatchStates, vars, entryVars, batchVars, auxVars
<1>11. ASSUME NEW d \in Dials, SettleClient(d)
      PROVE  TypeOK'
  BY <1>11 DEF SettleClient, Misfiled, States, Phases, ClientStates, WatchStates, vars, entryVars, batchVars, auxVars
<1>12. ASSUME NEW d \in Dials, SettleVanished(d)
      PROVE  TypeOK'
  BY <1>12 DEF SettleVanished, States, Phases, ClientStates, WatchStates, vars, entryVars, batchVars, auxVars
<1>13. ASSUME NEW d \in Dials, Finish(d)
      PROVE  TypeOK'
  <2>1. d \in Holding
    BY <1>13 DEF Finish, Holding
  <2>2. sem # 0
    BY <2>1, HoldingFinite, FS_EmptySet DEF SemInv
  <2>3. QED
    BY <1>13, <2>2 DEF Finish, StartWatch, ReleaseToken, Phases, WatchStates, entryVars, batchVars, auxVars
<1>14. ASSUME NEW d \in Dials, LinkDies(d)
      PROVE  TypeOK'
  BY <1>14 DEF LinkDies, States, Phases, ClientStates, WatchStates, vars, entryVars, batchVars, auxVars
<1>15. ASSUME NEW d \in Dials, Closed(d)
      PROVE  TypeOK'
  BY <1>15 DEF Closed, States, Phases, ClientStates, WatchStates, vars, entryVars, batchVars, auxVars
<1>16. ASSUME NEW d \in Dials, WatchIgnores(d)
      PROVE  TypeOK'
  BY <1>16 DEF WatchIgnores, States, Phases, ClientStates, WatchStates, vars, entryVars, batchVars, auxVars
<1>17. ASSUME NEW d \in Dials, WatchRemoves(d)
      PROVE  TypeOK'
  BY <1>17, OrphansType DEF WatchRemoves, RemoveRow, CloseClients, States, WatchStates, batchVars
<1>18. ASSUME NEW s \in Sessions, Disconnect(s)
      PROVE  TypeOK'
  BY <1>18, OrphansType DEF Disconnect, RemoveRow, CloseClients, States, batchVars
<1>19. ASSUME DisconnectAll
      PROVE  TypeOK'
  BY <1>19, OrphansType DEF DisconnectAll, CloseClients, States, batchVars
<1>20. ASSUME UNCHANGED vars
      PROVE  TypeOK'
  BY <1>20 DEF States, Phases, ClientStates, WatchStates, vars, entryVars, batchVars, auxVars
<1>. QED
  BY <1>1, <1>2, <1>3, <1>4, <1>5, <1>6, <1>7, <1>8, <1>9, <1>10, <1>11, <1>12, <1>13, <1>14, <1>15, <1>16, <1>17, <1>18, <1>19, <1>20 DEF Next

LEMMA StartedInvInit == Init => StartedInv
  BY DEF Init, StartedInv

\* The loop never reuses a dial: the one it is about to start is unused.
LEMMA FreshDial ==
  ASSUME TypeOK, StartedInv, NEW b \in Batches, InLoop(b)
  PROVE  /\ <<b, next[b]>> \in Dials
         /\ phase[<<b, next[b]>>] = "unused"
         /\ targets[b][next[b]] \in Sessions
<1>1. next[b] \in 1 .. MaxTargets /\ next[b] \in 1 .. Len(targets[b])
  BY TargetsAssumption DEF TypeOK, InLoop
<1>2. <<b, next[b]>> \in Dials /\ targets[b][next[b]] \in Sessions
  BY <1>1 DEF TypeOK, Dials
<1>3. QED
  BY <1>1, <1>2 DEF StartedInv, TypeOK

LEMMA StartedInvStep == TypeOK /\ StartedInv /\ [Next]_vars => StartedInv'
<1>. SUFFICES ASSUME TypeOK, StartedInv, [Next]_vars PROVE StartedInv'
  OBVIOUS
<1>. USE NoneAssumption DEF TypeOK, StartedInv
<1>1. ASSUME NEW b \in Batches, NEW ts \in TargetLists[b], ConnectBatch(b, ts)
      PROVE  StartedInv'
  BY <1>1 DEF ConnectBatch, vars, entryVars, batchVars, auxVars
<1>2. ASSUME NEW b \in Batches, SkipTarget(b)
      PROVE  StartedInv'
  BY <1>2 DEF SkipTarget, Dials, entryVars, auxVars
<1>3. ASSUME NEW b \in Batches, StartDial(b)
      PROVE  StartedInv'
  <2>. DEFINE f == <<b, next[b]>>
            s == targets[b][next[b]]
  <2>1. f \in Dials /\ phase[f] = "unused" /\ s \in Sessions
    BY <1>3, FreshDial DEF StartDial
  <2>2. QED
    BY <1>3, <2>1 DEF StartDial, Dials, auxVars
<1>4. ASSUME NEW b \in Batches, CloseDone(b)
      PROVE  StartedInv'
  BY <1>4 DEF CloseDone, InLoop, vars, entryVars, batchVars, auxVars
<1>5. ASSUME NEW b \in Batches, CancelContext(b)
      PROVE  StartedInv'
  BY <1>5 DEF CancelContext, vars, entryVars, batchVars, auxVars
<1>6. ASSUME NEW d \in Dials, Acquire(d)
      PROVE  StartedInv'
  BY <1>6 DEF Acquire, vars, entryVars, batchVars, auxVars
<1>7. ASSUME NEW d \in Dials, GiveUp(d)
      PROVE  StartedInv'
  BY <1>7 DEF GiveUp, RecordError, Misfiled, vars, entryVars, batchVars, auxVars
<1>8. ASSUME NEW d \in Dials, DialFails(d)
      PROVE  StartedInv'
  BY <1>8 DEF DialFails, vars, entryVars, batchVars, auxVars
<1>9. ASSUME NEW d \in Dials, DialOpens(d)
      PROVE  StartedInv'
  BY <1>9 DEF DialOpens, vars, entryVars, batchVars, auxVars
<1>10. ASSUME NEW d \in Dials, SettleError(d)
      PROVE  StartedInv'
  BY <1>10 DEF SettleError, RecordError, Misfiled, vars, entryVars, batchVars, auxVars
<1>11. ASSUME NEW d \in Dials, SettleClient(d)
      PROVE  StartedInv'
  BY <1>11 DEF SettleClient, Misfiled, vars, entryVars, batchVars, auxVars
<1>12. ASSUME NEW d \in Dials, SettleVanished(d)
      PROVE  StartedInv'
  BY <1>12 DEF SettleVanished, vars, entryVars, batchVars, auxVars
<1>13. ASSUME NEW d \in Dials, Finish(d)
      PROVE  StartedInv'
  BY <1>13 DEF Finish, StartWatch, ReleaseToken, vars, entryVars, batchVars, auxVars
<1>14. ASSUME NEW d \in Dials, LinkDies(d)
      PROVE  StartedInv'
  BY <1>14 DEF LinkDies, vars, entryVars, batchVars, auxVars
<1>15. ASSUME NEW d \in Dials, Closed(d)
      PROVE  StartedInv'
  BY <1>15 DEF Closed, vars, entryVars, batchVars, auxVars
<1>16. ASSUME NEW d \in Dials, WatchIgnores(d)
      PROVE  StartedInv'
  BY <1>16 DEF WatchIgnores, vars, entryVars, batchVars, auxVars
<1>17. ASSUME NEW d \in Dials, WatchRemoves(d)
      PROVE  StartedInv'
  BY <1>17 DEF WatchRemoves, RemoveRow, Orphans, Unsettled, batchVars
<1>18. ASSUME NEW s \in Sessions, Disconnect(s)
      PROVE  StartedInv'
  BY <1>18 DEF Disconnect, RemoveRow, Orphans, Unsettled, batchVars
<1>19. ASSUME DisconnectAll
      PROVE  StartedInv'
  BY <1>19 DEF DisconnectAll, Orphans, Unsettled, batchVars
<1>20. ASSUME UNCHANGED vars
      PROVE  StartedInv'
  BY <1>20 DEF vars, entryVars, batchVars, auxVars
<1>. QED
  BY <1>1, <1>2, <1>3, <1>4, <1>5, <1>6, <1>7, <1>8, <1>9, <1>10, <1>11, <1>12, <1>13, <1>14, <1>15, <1>16, <1>17, <1>18, <1>19, <1>20 DEF Next

LEMMA SemInit == Init => SemInv
<1>. SUFFICES ASSUME Init PROVE SemInv
  OBVIOUS
<1>1. Holding = {}
  BY DEF Init, Holding
<1>2. QED
  BY <1>1, FS_EmptySet, CapAssumption DEF Init, SemInv

LEMMA SemStep == TypeOK /\ StartedInv /\ SemInv /\ [Next]_vars => SemInv'
<1>. SUFFICES ASSUME TypeOK, StartedInv, SemInv, [Next]_vars PROVE SemInv'
  OBVIOUS
<1>. USE CapAssumption DEF TypeOK
<1>1. ASSUME NEW b \in Batches, NEW ts \in TargetLists[b], ConnectBatch(b, ts)
      PROVE  SemInv'
  <2>1. Holding' = Holding
    BY <1>1 DEF ConnectBatch, Holding
  <2>2. QED
    BY <1>1, <2>1 DEF SemInv, ConnectBatch
<1>2. ASSUME NEW b \in Batches, SkipTarget(b)
      PROVE  SemInv'
  <2>1. Holding' = Holding
    BY <1>2 DEF SkipTarget, InLoop, Holding, vars, entryVars, batchVars, auxVars
  <2>2. QED
    BY <1>2, <2>1 DEF SemInv, SkipTarget
<1>3. ASSUME NEW b \in Batches, StartDial(b)
      PROVE  SemInv'
  <2>1. Holding' = Holding
    BY <1>3, FreshDial DEF StartDial, Holding
  <2>2. QED
    BY <1>3, <2>1 DEF SemInv, StartDial
<1>4. ASSUME NEW b \in Batches, CloseDone(b)
      PROVE  SemInv'
  <2>1. Holding' = Holding
    BY <1>4 DEF CloseDone, InLoop, Holding, vars, entryVars, batchVars, auxVars
  <2>2. QED
    BY <1>4, <2>1 DEF SemInv, CloseDone
<1>5. ASSUME NEW b \in Batches, CancelContext(b)
      PROVE  SemInv'
  <2>1. Holding' = Holding
    BY <1>5 DEF CancelContext, Holding, vars, entryVars, batchVars, auxVars
  <2>2. QED
    BY <1>5, <2>1 DEF SemInv, CancelContext
<1>6. ASSUME NEW d \in Dials, Acquire(d)
      PROVE  SemInv'
  <2>1. Holding' = Holding \cup {d} /\ d \notin Holding
    BY <1>6 DEF Acquire, Holding
  <2>2. Cardinality(Holding') = Cardinality(Holding) + 1
    BY <2>1, HoldingFinite, FS_AddElement
  <2>3. QED
    BY <1>6, <2>2 DEF Acquire, SemInv
<1>7. ASSUME NEW d \in Dials, GiveUp(d)
      PROVE  SemInv'
  <2>1. Holding' = Holding
    BY <1>7 DEF GiveUp, RecordError, Misfiled, Holding, vars, entryVars, batchVars, auxVars
  <2>2. QED
    BY <1>7, <2>1 DEF SemInv, GiveUp, RecordError
<1>8. ASSUME NEW d \in Dials, DialFails(d)
      PROVE  SemInv'
  <2>1. Holding' = Holding
    BY <1>8 DEF DialFails, Holding, vars, entryVars, batchVars, auxVars
  <2>2. QED
    BY <1>8, <2>1 DEF SemInv, DialFails
<1>9. ASSUME NEW d \in Dials, DialOpens(d)
      PROVE  SemInv'
  <2>1. Holding' = Holding
    BY <1>9 DEF DialOpens, Holding, vars, entryVars, batchVars, auxVars
  <2>2. QED
    BY <1>9, <2>1 DEF SemInv, DialOpens
<1>10. ASSUME NEW d \in Dials, SettleError(d)
      PROVE  SemInv'
  <2>1. Holding' = Holding
    BY <1>10 DEF SettleError, RecordError, Misfiled, Holding, vars, entryVars, batchVars, auxVars
  <2>2. QED
    BY <1>10, <2>1 DEF SemInv, SettleError, RecordError
<1>11. ASSUME NEW d \in Dials, SettleClient(d)
      PROVE  SemInv'
  <2>1. Holding' = Holding
    BY <1>11 DEF SettleClient, Misfiled, Holding, vars, entryVars, batchVars, auxVars
  <2>2. QED
    BY <1>11, <2>1 DEF SemInv, SettleClient
<1>12. ASSUME NEW d \in Dials, SettleVanished(d)
      PROVE  SemInv'
  <2>1. Holding' = Holding
    BY <1>12 DEF SettleVanished, Holding, vars, entryVars, batchVars, auxVars
  <2>2. QED
    BY <1>12, <2>1 DEF SemInv, SettleVanished
<1>13. ASSUME NEW d \in Dials, Finish(d)
      PROVE  SemInv'
  <2>1. Holding' = Holding \ {d} /\ d \in Holding
    BY <1>13 DEF Finish, Holding
  <2>2. Cardinality(Holding') = Cardinality(Holding) - 1
    BY <2>1, HoldingFinite, FS_RemoveElement
  <2>3. QED
    BY <1>13, <2>2 DEF Finish, ReleaseToken, SemInv
<1>14. ASSUME NEW d \in Dials, LinkDies(d)
      PROVE  SemInv'
  <2>1. Holding' = Holding
    BY <1>14 DEF LinkDies, Holding, vars, entryVars, batchVars, auxVars
  <2>2. QED
    BY <1>14, <2>1 DEF SemInv, LinkDies
<1>15. ASSUME NEW d \in Dials, Closed(d)
      PROVE  SemInv'
  <2>1. Holding' = Holding
    BY <1>15 DEF Closed, Holding, vars, entryVars, batchVars, auxVars
  <2>2. QED
    BY <1>15, <2>1 DEF SemInv, Closed
<1>16. ASSUME NEW d \in Dials, WatchIgnores(d)
      PROVE  SemInv'
  <2>1. Holding' = Holding
    BY <1>16 DEF WatchIgnores, Holding, vars, entryVars, batchVars, auxVars
  <2>2. QED
    BY <1>16, <2>1 DEF SemInv, WatchIgnores
<1>17. ASSUME NEW d \in Dials, WatchRemoves(d)
      PROVE  SemInv'
  <2>1. Holding' = Holding
    BY <1>17 DEF WatchRemoves, RemoveRow, CloseClients, Orphans, Holding, vars, entryVars, batchVars, auxVars
  <2>2. QED
    BY <1>17, <2>1 DEF SemInv, WatchRemoves
<1>18. ASSUME NEW s \in Sessions, Disconnect(s)
      PROVE  SemInv'
  <2>1. Holding' = Holding
    BY <1>18 DEF Disconnect, RemoveRow, CloseClients, Orphans, Holding, vars, entryVars, batchVars, auxVars
  <2>2. QED
    BY <1>18, <2>1 DEF SemInv, Disconnect
<1>19. ASSUME DisconnectAll
      PROVE  SemInv'
  <2>1. Holding' = Holding
    BY <1>19 DEF DisconnectAll, CloseClients, Orphans, Holding, vars, entryVars, batchVars, auxVars
  <2>2. QED
    BY <1>19, <2>1 DEF SemInv, DisconnectAll
<1>20. ASSUME UNCHANGED vars
      PROVE  SemInv'
  <2>1. Holding' = Holding
    BY <1>20 DEF vars, Holding
  <2>2. QED
    BY <1>20, <2>1 DEF SemInv, vars
<1>. QED
  BY <1>1, <1>2, <1>3, <1>4, <1>5, <1>6, <1>7, <1>8, <1>9, <1>10, <1>11, <1>12, <1>13, <1>14, <1>15, <1>16, <1>17, <1>18, <1>19, <1>20 DEF Next

\* Every reachable state is well typed.
THEOREM TypeCorrect == Spec => []TypeOK
<1>1. Init => TypeOK /\ StartedInv /\ SemInv
  BY TypeInit, StartedInvInit, SemInit
<1>2. TypeOK /\ StartedInv /\ SemInv /\ [Next]_vars => (TypeOK /\ StartedInv /\ SemInv)'
  BY TypeStep, StartedInvStep, SemStep
<1>3. QED
  BY <1>1, <1>2, PTL DEF Spec

\* The semaphore bounds the dials in flight, for every Cap and every number of
\* callers, though contexts are cancelled and entries vanish meanwhile.
THEOREM DialCapHolds == Spec => []DialCap
<1>1. Init => TypeOK /\ StartedInv /\ SemInv
  BY TypeInit, StartedInvInit, SemInit
<1>2. TypeOK /\ StartedInv /\ SemInv /\ [Next]_vars => (TypeOK /\ StartedInv /\ SemInv)'
  BY TypeStep, StartedInvStep, SemStep
<1>3. SemInv => DialCap
  BY DEF SemInv, DialCap
<1>4. QED
  BY <1>1, <1>2, <1>3, PTL DEF Spec

-----------------------------------------------------------------------------
(* Entries and clients *)

RowInv == ClientInv /\ EntryInv

LEMMA RowInvInit == Init => RowInv
  BY DEF Init, RowInv, ClientInv, EntryInv, EntryOK

LEMMA ClientInvStep == TypeOK /\ StartedInv /\ RowInv /\ [Next]_vars => ClientInv'
<1>. SUFFICES ASSUME TypeOK, StartedInv, RowInv, [Next]_vars PROVE ClientInv'
  OBVIOUS
<1>. USE NoneAssumption DEF TypeOK, RowInv, ClientInv
<1>1. ASSUME NEW b \in Batches, NEW ts \in TargetLists[b], ConnectBatch(b, ts)
      PROVE  ClientInv'
  BY <1>1 DEF ConnectBatch, vars, entryVars, batchVars, auxVars
<1>2. ASSUME NEW b \in Batches, SkipTarget(b)
      PROVE  ClientInv'
  BY <1>2 DEF SkipTarget, InLoop, vars, entryVars, batchVars, auxVars
<1>3. ASSUME NEW b \in Batches, StartDial(b)
      PROVE  ClientInv'
  <2>. DEFINE f == <<b, next[b]>>
            s == targets[b][next[b]]
  <2>1. f \in Dials /\ phase[f] = "unused" /\ s \in Sessions
    BY <1>3, FreshDial DEF StartDial
  <2>2. /\ phase' = [phase EXCEPT ![f] = "waiting"]
        /\ client' = client
        /\ toClose' = toClose \cup ({cli[s]} \ {None})
    BY <1>3 DEF StartDial, CloseClients
  <2>3. cli[s] # None => phase[cli[s]] \in {"settled", "finished"}
    BY <2>1 DEF EntryInv, EntryOK
  <2>. HIDE DEF f, s
  <2>4. ASSUME NEW d \in Dials
        PROVE  phase'[d] = IF d = f THEN "waiting" ELSE phase[d]
    BY <2>1, <2>2
  <2>5. ASSUME NEW d \in Dials, phase[d] \notin {"settled", "finished"}, d \notin toClose
        PROVE  d \notin toClose'
    BY <2>2, <2>3, <2>5
  <2>6. QED
    BY <2>1, <2>2, <2>4, <2>5
<1>4. ASSUME NEW b \in Batches, CloseDone(b)
      PROVE  ClientInv'
  BY <1>4 DEF CloseDone, InLoop, vars, entryVars, batchVars, auxVars
<1>5. ASSUME NEW b \in Batches, CancelContext(b)
      PROVE  ClientInv'
  BY <1>5 DEF CancelContext, vars, entryVars, batchVars, auxVars
<1>6. ASSUME NEW d \in Dials, Acquire(d)
      PROVE  ClientInv'
  BY <1>6 DEF Acquire, vars, entryVars, batchVars, auxVars
<1>7. ASSUME NEW d \in Dials, GiveUp(d)
      PROVE  ClientInv'
  BY <1>7 DEF GiveUp, RecordError, Misfiled, vars, entryVars, batchVars, auxVars
<1>8. ASSUME NEW d \in Dials, DialFails(d)
      PROVE  ClientInv'
  BY <1>8 DEF DialFails, vars, entryVars, batchVars, auxVars
<1>9. ASSUME NEW d \in Dials, DialOpens(d)
      PROVE  ClientInv'
  BY <1>9 DEF DialOpens, vars, entryVars, batchVars, auxVars
<1>10. ASSUME NEW d \in Dials, SettleError(d)
      PROVE  ClientInv'
  BY <1>10 DEF SettleError, RecordError, Misfiled, vars, entryVars, batchVars, auxVars
<1>11. ASSUME NEW d \in Dials, SettleClient(d)
      PROVE  ClientInv'
  BY <1>11 DEF SettleClient, Misfiled, vars, entryVars, batchVars, auxVars
<1>12. ASSUME NEW d \in Dials, SettleVanished(d)
      PROVE  ClientInv'
  BY <1>12 DEF SettleVanished, vars, entryVars, batchVars, auxVars
<1>13. ASSUME NEW d \in Dials, Finish(d)
      PROVE  ClientInv'
  BY <1>13 DEF Finish, StartWatch, ReleaseToken, vars, entryVars, batchVars, auxVars
<1>14. ASSUME NEW d \in Dials, LinkDies(d)
      PROVE  ClientInv'
  BY <1>14 DEF LinkDies, vars, entryVars, batchVars, auxVars
<1>15. ASSUME NEW d \in Dials, Closed(d)
      PROVE  ClientInv'
  BY <1>15 DEF Closed, vars, entryVars, batchVars, auxVars
<1>16. ASSUME NEW d \in Dials, WatchIgnores(d)
      PROVE  ClientInv'
  BY <1>16 DEF WatchIgnores, vars, entryVars, batchVars, auxVars
<1>17. ASSUME NEW d \in Dials, WatchRemoves(d)
      PROVE  ClientInv'
  <2>1. sess[d] \in Sessions
    BY <1>17 DEF WatchRemoves, StartedInv
  <2>2. phase[d] \in {"settled", "finished"}
    BY <1>17, <2>1 DEF WatchRemoves, EntryInv, EntryOK
  <2>3. QED
    BY <1>17, <2>2 DEF WatchRemoves, RemoveRow, CloseClients, batchVars
<1>18. ASSUME NEW s \in Sessions, Disconnect(s)
      PROVE  ClientInv'
  <2>1. cli[s] # None => phase[cli[s]] \in {"settled", "finished"}
    BY DEF EntryInv, EntryOK
  <2>2. QED
    BY <1>18, <2>1 DEF Disconnect, RemoveRow, CloseClients, batchVars
<1>19. ASSUME DisconnectAll
      PROVE  ClientInv'
  <2>1. \A s \in Sessions : cli[s] # None => phase[cli[s]] \in {"settled", "finished"}
    BY DEF EntryInv, EntryOK
  <2>2. \A d \in toClose' \ toClose : phase[d] \in {"settled", "finished"}
    BY <1>19, <2>1 DEF DisconnectAll, CloseClients
  <2>3. QED
    BY <1>19, <2>2 DEF DisconnectAll, batchVars
<1>20. ASSUME UNCHANGED vars
      PROVE  ClientInv'
  BY <1>20 DEF vars, entryVars, batchVars, auxVars
<1>. QED
  BY <1>1, <1>2, <1>3, <1>4, <1>5, <1>6, <1>7, <1>8, <1>9, <1>10, <1>11, <1>12, <1>13, <1>14, <1>15, <1>16, <1>17, <1>18, <1>19, <1>20 DEF Next

LEMMA EntryInvStep == TypeOK /\ StartedInv /\ RowInv /\ [Next]_vars => EntryInv'
<1>. SUFFICES ASSUME TypeOK, StartedInv, RowInv, [Next]_vars PROVE EntryInv'
  OBVIOUS
<1>. USE NoneAssumption DEF TypeOK, RowInv, EntryInv, EntryOK
<1>1. ASSUME NEW b \in Batches, NEW ts \in TargetLists[b], ConnectBatch(b, ts)
      PROVE  EntryInv'
  BY <1>1 DEF ConnectBatch, vars, entryVars, batchVars, auxVars
<1>2. ASSUME NEW b \in Batches, SkipTarget(b)
      PROVE  EntryInv'
  BY <1>2 DEF SkipTarget, InLoop, vars, entryVars, batchVars, auxVars
<1>3. ASSUME NEW b \in Batches, StartDial(b)
      PROVE  EntryInv'
  <2>1. PICK t \in Sessions, f \in Dials :
          t = targets[b][next[b]] /\ f = <<b, next[b]>> /\ phase[f] = "unused"
    BY <1>3, FreshDial DEF StartDial
  <2>2. sess[f] = None /\ f \notin orphaned
    BY <2>1 DEF StartedInv
  <2>3. ASSUME NEW s \in Sessions
        PROVE  owner[s] # f /\ cli[s] # f
    <3>1. f # None
      OBVIOUS
    <3>2. EntryOK(s)
      BY DEF EntryInv
    <3>3. owner[s] # f
      BY <2>2, <3>1, <3>2 DEF EntryOK
    <3>4. cli[s] # f
      BY <2>1, <3>1, <3>2 DEF EntryOK
    <3>5. QED
      BY <3>3, <3>4
  <2>4. /\ state' = [state EXCEPT ![t] = "dialing"]
        /\ cli' = [cli EXCEPT ![t] = None]
        /\ owner' = [owner EXCEPT ![t] = f]
        /\ toClose' = toClose \cup ({cli[t]} \ {None})
        /\ phase' = [phase EXCEPT ![f] = "waiting"]
        /\ sess' = [sess EXCEPT ![f] = t]
        /\ client' = client
        /\ orphaned' = orphaned
    BY <1>3, <2>1 DEF StartDial, CloseClients, auxVars
  <2>5. ASSUME NEW s \in Sessions
        PROVE  EntryOK(s)'
    <3>1. CASE s = t
      BY <2>2, <2>4, <3>1
    <3>2. CASE s # t
      BY <2>2, <2>3, <2>4, <3>2
    <3>3. QED
      BY <3>1, <3>2
  <2>6. QED
    BY <2>5
<1>4. ASSUME NEW b \in Batches, CloseDone(b)
      PROVE  EntryInv'
  BY <1>4 DEF CloseDone, InLoop, vars, entryVars, batchVars, auxVars
<1>5. ASSUME NEW b \in Batches, CancelContext(b)
      PROVE  EntryInv'
  BY <1>5 DEF CancelContext, vars, entryVars, batchVars, auxVars
<1>6. ASSUME NEW d \in Dials, Acquire(d)
      PROVE  EntryInv'
  BY <1>6 DEF Acquire, vars, entryVars, batchVars, auxVars
<1>7. ASSUME NEW d \in Dials, GiveUp(d)
      PROVE  EntryInv'
  <2>1. sess[d] \in Sessions
    BY <1>7 DEF GiveUp, StartedInv
  <2>2. QED
    BY <1>7, <2>1 DEF GiveUp, RecordError, Misfiled, ClientInv
<1>8. ASSUME NEW d \in Dials, DialFails(d)
      PROVE  EntryInv'
  BY <1>8 DEF DialFails, vars, entryVars, batchVars, auxVars
<1>9. ASSUME NEW d \in Dials, DialOpens(d)
      PROVE  EntryInv'
  BY <1>9 DEF DialOpens, entryVars, batchVars, auxVars, ClientInv
<1>10. ASSUME NEW d \in Dials, SettleError(d)
      PROVE  EntryInv'
  <2>1. sess[d] \in Sessions
    BY <1>10 DEF SettleError, StartedInv
  <2>2. QED
    BY <1>10, <2>1 DEF SettleError, RecordError, Misfiled, ClientInv
<1>11. ASSUME NEW d \in Dials, SettleClient(d)
      PROVE  EntryInv'
  <2>1. sess[d] \in Sessions
    BY <1>11 DEF SettleClient, StartedInv
  <2>2. QED
    BY <1>11, <2>1 DEF SettleClient, Misfiled, ClientInv
<1>12. ASSUME NEW d \in Dials, SettleVanished(d)
      PROVE  EntryInv'
  BY <1>12 DEF SettleVanished, entryVars, batchVars, auxVars, ClientInv
<1>13. ASSUME NEW d \in Dials, Finish(d)
      PROVE  EntryInv'
  BY <1>13 DEF Finish, StartWatch, ReleaseToken, vars, entryVars, batchVars, auxVars
<1>14. ASSUME NEW d \in Dials, LinkDies(d)
      PROVE  EntryInv'
  BY <1>14 DEF LinkDies, vars, entryVars, batchVars, auxVars
<1>15. ASSUME NEW d \in Dials, Closed(d)
      PROVE  EntryInv'
  BY <1>15 DEF Closed, vars, entryVars, batchVars, auxVars
<1>16. ASSUME NEW d \in Dials, WatchIgnores(d)
      PROVE  EntryInv'
  BY <1>16 DEF WatchIgnores, vars, entryVars, batchVars, auxVars
<1>17. ASSUME NEW d \in Dials, WatchRemoves(d)
      PROVE  EntryInv'
  <2>1. sess[d] \in Sessions
    BY <1>17 DEF WatchRemoves, StartedInv, ClientInv
  <2>2. QED
    BY <1>17, <2>1 DEF WatchRemoves, RemoveRow, CloseClients, Orphans, Unsettled, batchVars
<1>18. ASSUME NEW s \in Sessions, Disconnect(s)
      PROVE  EntryInv'
  BY <1>18 DEF Disconnect, RemoveRow, CloseClients, Orphans, Unsettled, batchVars
<1>19. ASSUME DisconnectAll
      PROVE  EntryInv'
  BY <1>19 DEF DisconnectAll, CloseClients, batchVars
<1>20. ASSUME UNCHANGED vars
      PROVE  EntryInv'
  BY <1>20 DEF vars, entryVars, batchVars, auxVars
<1>. QED
  BY <1>1, <1>2, <1>3, <1>4, <1>5, <1>6, <1>7, <1>8, <1>9, <1>10, <1>11, <1>12, <1>13, <1>14, <1>15, <1>16, <1>17, <1>18, <1>19, <1>20 DEF Next

-----------------------------------------------------------------------------
(* Sessions none of whose dials was misfiled *)

LEMMA CleanInvInit == Init => CleanInv
  BY DEF Init, CleanInv, CleanOK, Unsettled, Leaked

\* A session that is clean after a step was clean before it: misfiled only
\* grows, and the target of a started dial never changes.
LEMMA CleanBefore ==
  ASSUME TypeOK, StartedInv, [Next]_vars, NEW t \in Sessions, Clean(t)'
  PROVE  Clean(t)
<1>. SUFFICES misfiled \subseteq misfiled' /\ \A e \in misfiled : sess'[e] = sess[e]
  BY DEF Clean
<1>. USE DEF TypeOK
<1>1. ASSUME NEW b \in Batches, NEW ts \in TargetLists[b], ConnectBatch(b, ts)
      PROVE  misfiled \subseteq misfiled' /\ \A e \in misfiled : sess'[e] = sess[e]
  BY <1>1 DEF ConnectBatch, vars, entryVars, batchVars, auxVars
<1>2. ASSUME NEW b \in Batches, SkipTarget(b)
      PROVE  misfiled \subseteq misfiled' /\ \A e \in misfiled : sess'[e] = sess[e]
  BY <1>2 DEF SkipTarget, InLoop, vars, entryVars, batchVars, auxVars
<1>3. ASSUME NEW b \in Batches, StartDial(b)
      PROVE  misfiled \subseteq misfiled' /\ \A e \in misfiled : sess'[e] = sess[e]
  <2>1. sess' = [sess EXCEPT ![<<b, next[b]>>] = targets[b][next[b]]] /\ misfiled' = misfiled
    BY <1>3 DEF StartDial, auxVars
  <2>2. phase[<<b, next[b]>>] = "unused" /\ <<b, next[b]>> \in Dials
    BY <1>3, FreshDial DEF StartDial
  <2>3. QED
    BY <2>1, <2>2 DEF StartedInv
<1>4. ASSUME NEW b \in Batches, CloseDone(b)
      PROVE  misfiled \subseteq misfiled' /\ \A e \in misfiled : sess'[e] = sess[e]
  BY <1>4 DEF CloseDone, InLoop, vars, entryVars, batchVars, auxVars
<1>5. ASSUME NEW b \in Batches, CancelContext(b)
      PROVE  misfiled \subseteq misfiled' /\ \A e \in misfiled : sess'[e] = sess[e]
  BY <1>5 DEF CancelContext, vars, entryVars, batchVars, auxVars
<1>6. ASSUME NEW d \in Dials, Acquire(d)
      PROVE  misfiled \subseteq misfiled' /\ \A e \in misfiled : sess'[e] = sess[e]
  BY <1>6 DEF Acquire, vars, entryVars, batchVars, auxVars
<1>7. ASSUME NEW d \in Dials, GiveUp(d)
      PROVE  misfiled \subseteq misfiled' /\ \A e \in misfiled : sess'[e] = sess[e]
  BY <1>7 DEF GiveUp, RecordError, Misfiled, vars, entryVars, batchVars, auxVars
<1>8. ASSUME NEW d \in Dials, DialFails(d)
      PROVE  misfiled \subseteq misfiled' /\ \A e \in misfiled : sess'[e] = sess[e]
  BY <1>8 DEF DialFails, vars, entryVars, batchVars, auxVars
<1>9. ASSUME NEW d \in Dials, DialOpens(d)
      PROVE  misfiled \subseteq misfiled' /\ \A e \in misfiled : sess'[e] = sess[e]
  BY <1>9 DEF DialOpens, vars, entryVars, batchVars, auxVars
<1>10. ASSUME NEW d \in Dials, SettleError(d)
      PROVE  misfiled \subseteq misfiled' /\ \A e \in misfiled : sess'[e] = sess[e]
  BY <1>10 DEF SettleError, RecordError, Misfiled, vars, entryVars, batchVars, auxVars
<1>11. ASSUME NEW d \in Dials, SettleClient(d)
      PROVE  misfiled \subseteq misfiled' /\ \A e \in misfiled : sess'[e] = sess[e]
  BY <1>11 DEF SettleClient, Misfiled, vars, entryVars, batchVars, auxVars
<1>12. ASSUME NEW d \in Dials, SettleVanished(d)
      PROVE  misfiled \subseteq misfiled' /\ \A e \in misfiled : sess'[e] = sess[e]
  BY <1>12 DEF SettleVanished, vars, entryVars, batchVars, auxVars
<1>13. ASSUME NEW d \in Dials, Finish(d)
      PROVE  misfiled \subseteq misfiled' /\ \A e \in misfiled : sess'[e] = sess[e]
  BY <1>13 DEF Finish, StartWatch, ReleaseToken, vars, entryVars, batchVars, auxVars
<1>14. ASSUME NEW d \in Dials, LinkDies(d)
      PROVE  misfiled \subseteq misfiled' /\ \A e \in misfiled : sess'[e] = sess[e]
  BY <1>14 DEF LinkDies, vars, entryVars, batchVars, auxVars
<1>15. ASSUME NEW d \in Dials, Closed(d)
      PROVE  misfiled \subseteq misfiled' /\ \A e \in misfiled : sess'[e] = sess[e]
  BY <1>15 DEF Closed, vars, entryVars, batchVars, auxVars
<1>16. ASSUME NEW d \in Dials, WatchIgnores(d)
      PROVE  misfiled \subseteq misfiled' /\ \A e \in misfiled : sess'[e] = sess[e]
  BY <1>16 DEF WatchIgnores, vars, entryVars, batchVars, auxVars
<1>17. ASSUME NEW d \in Dials, WatchRemoves(d)
      PROVE  misfiled \subseteq misfiled' /\ \A e \in misfiled : sess'[e] = sess[e]
  BY <1>17 DEF WatchRemoves, RemoveRow, CloseClients, Orphans, vars, entryVars, batchVars, auxVars
<1>18. ASSUME NEW s \in Sessions, Disconnect(s)
      PROVE  misfiled \subseteq misfiled' /\ \A e \in misfiled : sess'[e] = sess[e]
  BY <1>18 DEF Disconnect, RemoveRow, CloseClients, Orphans, vars, entryVars, batchVars, auxVars
<1>19. ASSUME DisconnectAll
      PROVE  misfiled \subseteq misfiled' /\ \A e \in misfiled : sess'[e] = sess[e]
  BY <1>19 DEF DisconnectAll, CloseClients, Orphans, vars, entryVars, batchVars, auxVars
<1>20. ASSUME UNCHANGED vars
      PROVE  misfiled \subseteq misfiled' /\ \A e \in misfiled : sess'[e] = sess[e]
  BY <1>20 DEF vars, entryVars, batchVars, auxVars
<1>. QED
  BY <1>1, <1>2, <1>3, <1>4, <1>5, <1>6, <1>7, <1>8, <1>9, <1>10, <1>11, <1>12, <1>13, <1>14, <1>15, <1>16, <1>17, <1>18, <1>19, <1>20 DEF Next

LEMMA CleanInvStep ==
  TypeOK /\ StartedInv /\ RowInv /\ CleanInv /\ [Next]_vars => CleanInv'
<1>. SUFFICES ASSUME TypeOK, StartedInv, RowInv, CleanInv, [Next]_vars,
                     NEW t \in Sessions, Clean(t)'
              PROVE  CleanOK(t)'
  BY DEF CleanInv
<1>0. CleanOK(t)
  BY CleanBefore DEF CleanInv
<1>. USE <1>0, NoneAssumption DEF TypeOK, CleanOK, Unsettled, Leaked
<1>1. ASSUME NEW b \in Batches, NEW ts \in TargetLists[b], ConnectBatch(b, ts)
      PROVE  CleanOK(t)'
  BY <1>1 DEF ConnectBatch, vars, entryVars, batchVars, auxVars
<1>2. ASSUME NEW b \in Batches, SkipTarget(b)
      PROVE  CleanOK(t)'
  BY <1>2 DEF SkipTarget, InLoop, vars, entryVars, batchVars, auxVars
<1>3. ASSUME NEW b \in Batches, StartDial(b)
      PROVE  CleanOK(t)'
  <2>1. PICK s \in Sessions, f \in Dials :
          s = targets[b][next[b]] /\ f = <<b, next[b]>> /\ phase[f] = "unused"
    BY <1>3, FreshDial DEF StartDial
  <2>2. sess[f] = None /\ client[f] = "none" /\ f \notin orphaned
    BY <2>1 DEF StartedInv, RowInv, ClientInv
  <2>3. EntryOK(t) /\ EntryOK(s)
    BY DEF RowInv, EntryInv
  <2>4. /\ ~Busy(s)
        /\ state' = [state EXCEPT ![s] = "dialing"]
        /\ cli' = [cli EXCEPT ![s] = None]
        /\ owner' = [owner EXCEPT ![s] = f]
        /\ toClose' = toClose \cup ({cli[s]} \ {None})
        /\ phase' = [phase EXCEPT ![f] = "waiting"]
        /\ sess' = [sess EXCEPT ![f] = s]
        /\ client' = client
        /\ orphaned' = orphaned
    BY <1>3, <2>1 DEF StartDial, CloseClients, auxVars
  <2>5. CASE s = t
    BY <2>1, <2>2, <2>3, <2>4, <2>5 DEF EntryOK, Busy, States
  <2>6. CASE s # t
    <3>0. owner[t] # f
      BY <2>2, <2>3 DEF EntryOK
    <3>1. owner[t] # f /\ cli'[t] = cli[t] /\ owner'[t] = owner[t] /\ state'[t] = state[t]
      BY <2>4, <2>6, <3>0
    <3>2. owner[t] \in Unsettled' <=> owner[t] \in Unsettled
      BY <2>1, <2>4, <3>1
    <3>3. ASSUME NEW d \in Dials, sess'[d] = t
          PROVE  /\ d # f /\ sess[d] = t
                 /\ d \in Unsettled' => d \in Unsettled
                 /\ ~Leaked(d)'
      BY <2>1, <2>4, <2>6, <3>1, <3>3
    <3>4. QED
      BY <2>4, <3>1, <3>2, <3>3
  <2>7. QED
    BY <2>5, <2>6
<1>4. ASSUME NEW b \in Batches, CloseDone(b)
      PROVE  CleanOK(t)'
  BY <1>4 DEF CloseDone, InLoop, vars, entryVars, batchVars, auxVars
<1>5. ASSUME NEW b \in Batches, CancelContext(b)
      PROVE  CleanOK(t)'
  BY <1>5 DEF CancelContext, vars, entryVars, batchVars, auxVars
<1>6. ASSUME NEW d \in Dials, Acquire(d)
      PROVE  CleanOK(t)'
  <2>1. EntryOK(t)
    BY DEF RowInv, EntryInv
  <2>2. QED
    BY <1>6, <2>1 DEF Acquire, EntryOK, RowInv, ClientInv, StartedInv, entryVars, batchVars, auxVars
<1>7. ASSUME NEW d \in Dials, GiveUp(d)
      PROVE  CleanOK(t)'
  <2>1. sess[d] \in Sessions /\ client[d] = "none"
    BY <1>7 DEF GiveUp, StartedInv, RowInv, ClientInv
  <2>2. EntryOK(sess[d]) /\ EntryOK(t)
    BY <2>1 DEF RowInv, EntryInv
  <2>3. QED
    BY <1>7, <2>1, <2>2 DEF GiveUp, RecordError, Misfiled, EntryOK, Clean
<1>8. ASSUME NEW d \in Dials, DialFails(d)
      PROVE  CleanOK(t)'
  <2>1. EntryOK(t)
    BY DEF RowInv, EntryInv
  <2>2. QED
    BY <1>8, <2>1 DEF DialFails, EntryOK, RowInv, ClientInv, StartedInv, entryVars, batchVars, auxVars
<1>9. ASSUME NEW d \in Dials, DialOpens(d)
      PROVE  CleanOK(t)'
  <2>1. EntryOK(t)
    BY DEF RowInv, EntryInv
  <2>2. QED
    BY <1>9, <2>1 DEF DialOpens, EntryOK, RowInv, ClientInv, StartedInv, entryVars, batchVars, auxVars
<1>10. ASSUME NEW d \in Dials, SettleError(d)
      PROVE  CleanOK(t)'
  <2>1. sess[d] \in Sessions /\ client[d] = "none"
    BY <1>10 DEF SettleError, StartedInv, RowInv, ClientInv
  <2>2. EntryOK(sess[d]) /\ EntryOK(t)
    BY <2>1 DEF RowInv, EntryInv
  <2>3. QED
    BY <1>10, <2>1, <2>2 DEF SettleError, RecordError, Misfiled, EntryOK, Clean
<1>11. ASSUME NEW d \in Dials, SettleClient(d)
      PROVE  CleanOK(t)'
  <2>1. sess[d] \in Sessions
    BY <1>11 DEF SettleClient, StartedInv
  <2>2. EntryOK(sess[d]) /\ EntryOK(t)
    BY <2>1 DEF RowInv, EntryInv
  <2>3. QED
    BY <1>11, <2>1, <2>2 DEF SettleClient, Misfiled, EntryOK, Clean
<1>12. ASSUME NEW d \in Dials, SettleVanished(d)
      PROVE  CleanOK(t)'
  <2>1. EntryOK(t)
    BY DEF RowInv, EntryInv
  <2>2. QED
    BY <1>12, <2>1 DEF SettleVanished, EntryOK, RowInv, ClientInv, StartedInv, entryVars, batchVars, auxVars
<1>13. ASSUME NEW d \in Dials, Finish(d)
      PROVE  CleanOK(t)'
  <2>1. EntryOK(t)
    BY DEF RowInv, EntryInv
  <2>2. QED
    BY <1>13, <2>1 DEF Finish, EntryOK, RowInv, ClientInv, StartedInv, entryVars, batchVars, auxVars
<1>14. ASSUME NEW d \in Dials, LinkDies(d)
      PROVE  CleanOK(t)'
  BY <1>14 DEF LinkDies, vars, entryVars, batchVars, auxVars
<1>15. ASSUME NEW d \in Dials, Closed(d)
      PROVE  CleanOK(t)'
  <2>1. EntryOK(t)
    BY DEF RowInv, EntryInv
  <2>2. QED
    BY <1>15, <2>1 DEF Closed, EntryOK, RowInv, ClientInv, StartedInv, entryVars, batchVars, auxVars
<1>16. ASSUME NEW d \in Dials, WatchIgnores(d)
      PROVE  CleanOK(t)'
  BY <1>16 DEF WatchIgnores, vars, entryVars, batchVars, auxVars
<1>17. ASSUME NEW d \in Dials, WatchRemoves(d)
      PROVE  CleanOK(t)'
  <2>1. sess[d] \in Sessions
    BY <1>17 DEF WatchRemoves, StartedInv, RowInv, ClientInv
  <2>2. EntryOK(t) /\ EntryOK(sess[d])
    BY <2>1 DEF RowInv, EntryInv
  <2>3. QED
    BY <1>17, <2>1, <2>2 DEF WatchRemoves, RemoveRow, CloseClients, Orphans, EntryOK
<1>18. ASSUME NEW s \in Sessions, Disconnect(s)
      PROVE  CleanOK(t)'
  <2>1. EntryOK(t) /\ EntryOK(s)
    BY DEF RowInv, EntryInv
  <2>2. QED
    BY <1>18, <2>1 DEF Disconnect, RemoveRow, CloseClients, Orphans, EntryOK
<1>19. ASSUME DisconnectAll
      PROVE  CleanOK(t)'
  <2>1. EntryOK(t)
    BY DEF RowInv, EntryInv
  <2>2. QED
    BY <1>19, <2>1 DEF DisconnectAll, CloseClients, Orphans, EntryOK
<1>20. ASSUME UNCHANGED vars
      PROVE  CleanOK(t)'
  BY <1>20 DEF vars, entryVars, batchVars, auxVars
<1>. QED
  BY <1>1, <1>2, <1>3, <1>4, <1>5, <1>6, <1>7, <1>8, <1>9, <1>10, <1>11, <1>12, <1>13, <1>14, <1>15, <1>16, <1>17, <1>18, <1>19, <1>20 DEF Next

-----------------------------------------------------------------------------
(* The theorems *)

LEMMA Inductive == Spec => []IInv
<1>1. Init => IInv
  BY TypeInit, StartedInvInit, SemInit, RowInvInit, CleanInvInit DEF IInv, RowInv
<1>2. IInv /\ [Next]_vars => IInv'
  BY TypeStep, StartedInvStep, SemStep, ClientInvStep, EntryInvStep, CleanInvStep
     DEF IInv, RowInv
<1>3. QED
  BY <1>1, <1>2, PTL DEF Spec

\* No client is lost, whatever is disconnected, dies or is redialed, in a
\* session none of whose dials settled into another dial's entry.
THEOREM NoLeakWhenCleanHolds == Spec => []NoLeakWhenClean
<1>1. IInv => NoLeakWhenClean
  <2>. SUFFICES ASSUME IInv, NEW d \in Dials, Leaked(d), Clean(sess[d]) PROVE FALSE
    BY DEF NoLeakWhenClean
  <2>1. sess[d] \in Sessions
    BY DEF Leaked, IInv, TypeOK, StartedInv, ClientInv
  <2>2. QED
    BY <2>1 DEF IInv, CleanInv, CleanOK
<1>2. QED
  BY <1>1, Inductive, PTL

\* A row of such a session says what its dial and its client are doing.
THEOREM RowTruthfulHolds == Spec => []RowTruthful
<1>1. IInv => RowTruthful
  BY DEF IInv, CleanInv, CleanOK, RowTruthful
<1>2. QED
  BY <1>1, Inductive, PTL

\* A tracked client is never closed under its entry, misfiled dials or not.
THEOREM TrackedNotClosedHolds == Spec => []TrackedNotClosed
<1>1. IInv => TrackedNotClosed
  BY DEF IInv, EntryInv, EntryOK, TrackedNotClosed
<1>2. QED
  BY <1>1, Inductive, PTL

\* Two dials of a clean session run at once only if one lost its entry.
THEOREM OneDialPerSessionHolds == Spec => []OneDialPerSession
<1>1. IInv => OneDialPerSession
  <2>. SUFFICES ASSUME IInv, NEW d \in Unsettled, NEW e \in Unsettled, d # e,
                       sess[d] = sess[e], Clean(sess[d]),
                       d \notin orphaned, e \notin orphaned
                PROVE  FALSE
    BY DEF OneDialPerSession
  <2>1. d \in Dials /\ e \in Dials /\ sess[d] \in Sessions
    BY DEF Unsettled, IInv, TypeOK, StartedInv
  <2>2. owner[sess[d]] = d /\ owner[sess[d]] = e
    BY <2>1 DEF IInv, CleanInv, CleanOK
  <2>3. QED
    BY <2>2
<1>2. QED
  BY <1>1, Inductive, PTL

\* The cap, one dial of a session at a time, and no client closed under its row, for any
\* batches, sessions and cap.
THEOREM DialsSoundHolds == Spec => []DialsSound
<1>1. DialCap /\ OneDialPerSession /\ TrackedNotClosed => DialsSound
  BY DEF DialsSound
<1>2. QED
  BY <1>1, DialCapHolds, OneDialPerSessionHolds, TrackedNotClosedHolds, PTL
=============================================================================
