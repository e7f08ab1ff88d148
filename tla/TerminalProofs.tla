--------------------------- MODULE TerminalProofs ---------------------------
(***************************************************************************)
(* Proofs about terminals and about what is broadcast to them: what        *)
(* closing the last terminal of a connection leaves behind, the share of   *)
(* memory each one gets, for any number of terminals, sessions and         *)
(* connections and any budget; and that a broadcast starts its targets in  *)
(* turn and once each, and that a job that runs is the one registered, for *)
(* any number of jobs, terminals and targets.                              *)
(***************************************************************************)
EXTENDS TermLifecycle, MultiSend, FiniteSetTheorems, TLAPS

-----------------------------------------------------------------------------
(* Terminals: the inductive invariant *)

\* Clients are numbered in the order they come, and a tab's client is of the
\* tab's session.
ClientInv ==
  /\ tabbed \subseteq 1 .. used
  /\ \A s \in Sessions : conn[s] # None => conn[s] \in 1 .. used
  /\ \A t \in Terms : client[t] # None => client[t] \in 1 .. used
  /\ \A s1, s2 \in Sessions : conn[s1] = conn[s2] /\ conn[s1] # None => s1 = s2
  /\ \A s \in Sessions, t \in Terms :
       conn[s] = client[t] /\ conn[s] # None => session[t] = s

\* How far OpenTerminal has come.
OpenerInv ==
  \A t \in Terms :
    /\ opener[t] = "none" => closer[t] = "none"
    /\ opener[t] # "none" => session[t] # None
    /\ opener[t] \in {"none", "checked"} => t \notin termSess /\ client[t] = None
    /\ opener[t] \in {"connected", "session"} => client[t] # None
    /\ waiter[t] # "none" => opener[t] = "returned"
    /\ t \in terms => \/ opener[t] \in {"listed", "rebalancing"}
                      \/ waiter[t] = "waiting"

\* A CloseTerminal is to drop s's connection.
Dropping(s) ==
  \E t \in Terms : session[t] = s /\ closer[t] \in {"endingLast", "disconnecting"}

\* A connection that has had tabs has one, or is about to be dropped.
KeptInv ==
  \A s \in Sessions :
    conn[s] \in tabbed => (\E t \in termSess : session[t] = s) \/ Dropping(s)

\* Somebody runs a rebalance where it says so.
RunnerInv ==
  \A t \in Terms :
    /\ Left(<<t, "open">>) # {} => opener[t] = "rebalancing"
    /\ Left(<<t, "wait">>) # {} => waiter[t] = "rebalancing"

\* A snapshot is still to come.
Coming ==
  \E t \in Terms : \/ opener[t] = "listed"
                   \/ waiter[t] = "unlisted"
                   \/ t \notin terms /\ (waiter[t] = "waiting" \/ opener[t] = "rebalancing")

Share == PerTerminalCap(Cardinality(terms))

\* With no snapshot to come, the newest run sets the share of the terminals there
\* are, and reaches every terminal that does not have it yet.
ShareInv ==
  ~Coming =>
    /\ \A r \in Runners \ outdated : \A t \in Left(r) : todo[r][t] = Share
    /\ \A t \in terms \ stale :
         cap[t] = Share \/ \E r \in Runners \ outdated : t \in Left(r)

-----------------------------------------------------------------------------
(* The share *)

\* What perTerminalCap returns is at least the floor and is a natural number.
LEMMA CapType == \A n \in Nat : PerTerminalCap(n) \in Nat
  BY BoundsAssumption DEF PerTerminalCap

\* perTerminalCap divides the budget: n terminals have no more than the budget
\* between them, or the floor each, and one byte more each would exceed it.
THEOREM CapIsFair == \A n \in Nat \ {0} : Fair(PerTerminalCap(n), n)
<1>. SUFFICES ASSUME NEW n \in Nat \ {0} PROVE Fair(PerTerminalCap(n), n)
  OBVIOUS
<1>. DEFINE q == Budget \div n
<1>1. /\ q \in Nat
      /\ q * n <= Budget
      /\ Budget < (q + 1) * n
  BY BoundsAssumption
<1>2. PerTerminalCap(n) = IF q < PerTermMin THEN PerTermMin ELSE q
  BY DEF PerTerminalCap
<1>. HIDE DEF q
<1>3. CASE q < PerTermMin
  <2>1. PerTerminalCap(n) = PerTermMin /\ q + 1 <= PerTermMin + 1
    BY <1>1, <1>2, <1>3, BoundsAssumption
  <2>2. (q + 1) * n <= (PerTermMin + 1) * n
    BY <2>1, <1>1, BoundsAssumption
  <2>3. Budget < (PerTermMin + 1) * n
    BY <2>2, <1>1, BoundsAssumption
  <2>. QED
    BY <2>1, <2>3, BoundsAssumption DEF Fair
<1>4. CASE ~(q < PerTermMin)
  BY <1>1, <1>2, <1>4, BoundsAssumption DEF Fair
<1>. QED
  BY <1>3, <1>4

-----------------------------------------------------------------------------
(* Type correctness *)

LEMMA TypeInit == Init => TypeOK
  BY BoundsAssumption DEF Init, TypeOK, OpenerPCs, WaiterPCs

LEMMA ShareType == TypeOK => Share \in Nat
  BY TermsAssumption, FS_Subset, FS_CardinalityType, CapType DEF TypeOK, Share

LEMMA SnapshotType ==
  ASSUME TypeOK, NEW r \in Runners, Snapshot(r)
  PROVE  /\ todo' \in [Runners -> [Terms -> Nat \cup {None}]]
         /\ outdated' \subseteq Runners
         /\ UNCHANGED <<cap, stale>>
<1>2. Share \in Nat
  BY ShareType
<1>3. DEFINE f == [t \in Terms |-> IF t \in terms THEN Share ELSE None]
<1>4. f \in [Terms -> Nat \cup {None}]
  BY <1>2
<1>5. todo' = [todo EXCEPT ![r] = f]
  BY DEF Snapshot, Share
<1>. HIDE DEF f
<1>6. todo' \in [Runners -> [Terms -> Nat \cup {None}]]
  BY <1>4, <1>5 DEF TypeOK
<1>7. outdated' \subseteq Runners
  BY Zenon DEF Snapshot, Rebalancing
<1>8. UNCHANGED <<cap, stale>>
  BY DEF Snapshot
<1>. QED
  BY <1>6, <1>7, <1>8

LEMMA TypeStep == TypeOK /\ OpenerInv /\ [Next]_vars => TypeOK'
<1>. SUFFICES ASSUME TypeOK, OpenerInv, [Next]_vars PROVE TypeOK'
  OBVIOUS
<1>. USE BoundsAssumption DEF TypeOK, OpenerPCs, WaiterPCs
<1>1. ASSUME NEW c \in Clients, LinkDies(c) PROVE TypeOK'
  BY <1>1 DEF LinkDies, Ends, mapVars, closeVars, capVars
<1>2. ASSUME NEW s \in Sessions, Connect(s) PROVE TypeOK'
  BY <1>2 DEF Connect, Clients, mapVars, closeVars, capVars, termVars
<1>3. ASSUME NEW s \in Sessions, WatchRemoves(s) PROVE TypeOK'
  BY <1>3 DEF WatchRemoves, mapVars, closeVars, capVars, termVars
<1>4. ASSUME NEW s \in Sessions, Disconnect(s) PROVE TypeOK'
  BY <1>4 DEF Disconnect, DropConnection, Ends, mapVars, closeVars, capVars
<1>5. ASSUME NEW t \in Terms, NEW s \in Sessions, OpenChecks(t, s) PROVE TypeOK'
  BY <1>5 DEF OpenChecks, Goes, connVars, mapVars, closeVars, capVars
<1>6. ASSUME NEW t \in Terms, ShellExits(t) PROVE TypeOK'
  BY <1>6 DEF ShellExits, connVars, mapVars, closeVars, capVars
<1>7. ASSUME NEW t \in Terms, OpenNotConnected(t) PROVE TypeOK'
  BY <1>7 DEF OpenNotConnected, Goes, connVars, mapVars, closeVars, capVars, termVars
<1>8. ASSUME NEW t \in Terms, OpenGetsClient(t) PROVE TypeOK'
  <2>1. session[t] \in Sessions
    BY <1>8 DEF OpenGetsClient, OpenerInv
  <2>2. conn[session[t]] \in Clients \cup {None}
    BY <1>8, <2>1 DEF OpenGetsClient
  <2>. QED
    BY <1>8, <2>2 DEF OpenGetsClient, Goes, connVars, mapVars, closeVars, capVars
<1>9. ASSUME NEW t \in Terms, NewSessionOpens(t) PROVE TypeOK'
  BY <1>9 DEF NewSessionOpens, Goes, connVars, mapVars, closeVars, capVars
<1>10. ASSUME NEW t \in Terms, NewSessionFails(t) PROVE TypeOK'
  BY <1>10 DEF NewSessionFails, Goes, connVars, mapVars, closeVars, capVars, termVars
<1>11. ASSUME NEW t \in Terms, List(t) PROVE TypeOK'
  BY <1>11 DEF List, Goes, OpenerInv, connVars, closeVars, capVars, termVars
<1>12. ASSUME NEW t \in Terms, OpenRebalances(t) PROVE TypeOK'
  BY <1>12, SnapshotType DEF OpenRebalances, Goes, Runners, connVars, mapVars, closeVars, termVars
<1>13. ASSUME NEW t \in Terms, OpenReturns(t) PROVE TypeOK'
  BY <1>13 DEF OpenReturns, Goes, connVars, mapVars, closeVars, capVars, termVars
<1>14. ASSUME NEW t \in Terms, WaiterUnlists(t) PROVE TypeOK'
  BY <1>14 DEF WaiterUnlists, Unlist, WaiterGoes, connVars, closeVars, capVars, termVars
<1>15. ASSUME NEW t \in Terms, WaiterRebalances(t) PROVE TypeOK'
  BY <1>15, SnapshotType DEF WaiterRebalances, WaiterGoes, Runners, connVars, mapVars, closeVars, termVars
<1>16. ASSUME NEW t \in Terms, WaiterRebalanced(t) PROVE TypeOK'
  BY <1>16 DEF WaiterRebalanced, WaiterGoes, connVars, mapVars, closeVars, capVars, termVars
<1>17. ASSUME NEW t \in Terms, CloseTerminal(t) PROVE TypeOK'
  BY <1>17 DEF CloseTerminal, Unlist, connVars, capVars, termVars
<1>18. ASSUME NEW t \in Terms, CloserEnds(t) PROVE TypeOK'
  BY <1>18 DEF CloserEnds, connVars, mapVars, capVars
<1>19. ASSUME NEW t \in Terms, CloserDisconnects(t) PROVE TypeOK'
  BY <1>19 DEF CloserDisconnects, DropConnection, Ends, mapVars, capVars
<1>20. ASSUME NEW r \in Runners, NEW t \in Terms, ApplyCap(r, t) PROVE TypeOK'
  BY <1>20 DEF ApplyCap, Left, connVars, mapVars, closeVars, termVars
<1>21. CASE UNCHANGED vars
  BY <1>21 DEF vars
<1>. QED
  BY <1>1, <1>2, <1>3, <1>4, <1>5, <1>6, <1>7, <1>8, <1>9, <1>10, <1>11, <1>12, <1>13,
     <1>14, <1>15, <1>16, <1>17, <1>18, <1>19, <1>20, <1>21
     DEF Next, Opener, Waiter, Closer, Applying

-----------------------------------------------------------------------------
(* OpenTerminal's progress *)

LEMMA OpenerInit == Init => OpenerInv
  BY DEF Init, OpenerInv

LEMMA OpenerStep == TypeOK /\ OpenerInv /\ [Next]_vars => OpenerInv'
<1>. SUFFICES ASSUME TypeOK, OpenerInv, [Next]_vars PROVE OpenerInv'
  OBVIOUS
<1>. USE NoneAssumption DEF TypeOK, OpenerInv, OpenerPCs, WaiterPCs
<1>1. ASSUME NEW c \in Clients, LinkDies(c) PROVE OpenerInv'
  BY <1>1 DEF LinkDies, mapVars, closeVars, capVars
<1>2. ASSUME NEW s \in Sessions, Connect(s) PROVE OpenerInv'
  BY <1>2 DEF Connect, mapVars, closeVars, termVars
<1>3. ASSUME NEW s \in Sessions, WatchRemoves(s) PROVE OpenerInv'
  BY <1>3 DEF WatchRemoves, mapVars, closeVars, termVars
<1>4. ASSUME NEW s \in Sessions, Disconnect(s) PROVE OpenerInv'
  BY <1>4 DEF Disconnect, mapVars, closeVars
<1>5. ASSUME NEW t \in Terms, NEW s \in Sessions, OpenChecks(t, s) PROVE OpenerInv'
  BY <1>5 DEF OpenChecks, Goes, mapVars, closeVars
<1>6. ASSUME NEW t \in Terms, ShellExits(t) PROVE OpenerInv'
  BY <1>6 DEF ShellExits, mapVars, closeVars
<1>7. ASSUME NEW t \in Terms, OpenNotConnected(t) PROVE OpenerInv'
  BY <1>7 DEF OpenNotConnected, Goes, mapVars, closeVars, termVars
<1>8. ASSUME NEW t \in Terms, OpenGetsClient(t) PROVE OpenerInv'
  BY <1>8 DEF OpenGetsClient, Goes, mapVars, closeVars
<1>9. ASSUME NEW t \in Terms, NewSessionOpens(t) PROVE OpenerInv'
  BY <1>9 DEF NewSessionOpens, Goes, mapVars, closeVars
<1>10. ASSUME NEW t \in Terms, NewSessionFails(t) PROVE OpenerInv'
  BY <1>10 DEF NewSessionFails, Goes, mapVars, closeVars, termVars
<1>11. ASSUME NEW t \in Terms, List(t) PROVE OpenerInv'
  BY <1>11 DEF List, Goes, closeVars, termVars
<1>12. ASSUME NEW t \in Terms, OpenRebalances(t) PROVE OpenerInv'
  BY <1>12 DEF OpenRebalances, Goes, mapVars, closeVars, termVars
<1>13. ASSUME NEW t \in Terms, OpenReturns(t) PROVE OpenerInv'
  BY <1>13 DEF OpenReturns, Goes, mapVars, closeVars, termVars
<1>14. ASSUME NEW t \in Terms, WaiterUnlists(t) PROVE OpenerInv'
  BY <1>14 DEF WaiterUnlists, Unlist, WaiterGoes, closeVars, termVars
<1>15. ASSUME NEW t \in Terms, WaiterRebalances(t) PROVE OpenerInv'
  BY <1>15 DEF WaiterRebalances, WaiterGoes, mapVars, closeVars, termVars
<1>16. ASSUME NEW t \in Terms, WaiterRebalanced(t) PROVE OpenerInv'
  BY <1>16 DEF WaiterRebalanced, WaiterGoes, mapVars, closeVars, termVars
<1>17. ASSUME NEW t \in Terms, CloseTerminal(t) PROVE OpenerInv'
  BY <1>17 DEF CloseTerminal, Unlist, Last, termVars
<1>18. ASSUME NEW t \in Terms, CloserEnds(t) PROVE OpenerInv'
  BY <1>18 DEF CloserEnds, mapVars
<1>19. ASSUME NEW t \in Terms, CloserDisconnects(t) PROVE OpenerInv'
  BY <1>19 DEF CloserDisconnects, mapVars
<1>20. ASSUME NEW r \in Runners, NEW t \in Terms, ApplyCap(r, t) PROVE OpenerInv'
  BY <1>20 DEF ApplyCap, mapVars, closeVars, termVars
<1>21. CASE UNCHANGED vars
  BY <1>21 DEF vars
<1>. QED
  BY <1>1, <1>2, <1>3, <1>4, <1>5, <1>6, <1>7, <1>8, <1>9, <1>10, <1>11, <1>12, <1>13,
     <1>14, <1>15, <1>16, <1>17, <1>18, <1>19, <1>20, <1>21
     DEF Next, Opener, Waiter, Closer, Applying

-----------------------------------------------------------------------------
(* Clients and connections *)

LEMMA ClientInit == Init => ClientInv
  BY DEF Init, ClientInv

LEMMA ClientStep == TypeOK /\ OpenerInv /\ ClientInv /\ [Next]_vars => ClientInv'
<1>. SUFFICES ASSUME TypeOK, OpenerInv, ClientInv, [Next]_vars PROVE ClientInv'
  OBVIOUS
<1>. USE NoneAssumption, BoundsAssumption DEF TypeOK, ClientInv
<1>1. ASSUME NEW c \in Clients, LinkDies(c) PROVE ClientInv'
  BY <1>1 DEF LinkDies, Ends
<1>2. ASSUME NEW s \in Sessions, Connect(s) PROVE ClientInv'
  BY <1>2 DEF Connect, termVars, Clients
<1>3. ASSUME NEW s \in Sessions, WatchRemoves(s) PROVE ClientInv'
  BY <1>3 DEF WatchRemoves, termVars
<1>4. ASSUME NEW s \in Sessions, Disconnect(s) PROVE ClientInv'
  BY <1>4 DEF Disconnect, DropConnection, Ends
<1>5. ASSUME NEW t \in Terms, NEW s \in Sessions, OpenChecks(t, s) PROVE ClientInv'
  BY <1>5 DEF OpenChecks, connVars, OpenerInv
<1>6. ASSUME NEW t \in Terms, ShellExits(t) PROVE ClientInv'
  BY <1>6 DEF ShellExits, connVars
<1>7. ASSUME NEW t \in Terms, OpenNotConnected(t) PROVE ClientInv'
  BY <1>7 DEF OpenNotConnected, connVars, termVars
<1>8. ASSUME NEW t \in Terms, OpenGetsClient(t) PROVE ClientInv'
  BY <1>8 DEF OpenGetsClient, connVars, OpenerInv
<1>9. ASSUME NEW t \in Terms, NewSessionOpens(t) PROVE ClientInv'
  BY <1>9 DEF NewSessionOpens, connVars
<1>10. ASSUME NEW t \in Terms, NewSessionFails(t) PROVE ClientInv'
  BY <1>10 DEF NewSessionFails, connVars, termVars
<1>11. ASSUME NEW t \in Terms, List(t) PROVE ClientInv'
  BY <1>11 DEF List, connVars, termVars, OpenerInv
<1>12. ASSUME NEW t \in Terms, OpenRebalances(t) PROVE ClientInv'
  BY <1>12 DEF OpenRebalances, connVars, termVars
<1>13. ASSUME NEW t \in Terms, OpenReturns(t) PROVE ClientInv'
  BY <1>13 DEF OpenReturns, connVars, termVars
<1>14. ASSUME NEW t \in Terms, WaiterUnlists(t) PROVE ClientInv'
  BY <1>14 DEF WaiterUnlists, connVars, termVars
<1>15. ASSUME NEW t \in Terms, WaiterRebalances(t) PROVE ClientInv'
  BY <1>15 DEF WaiterRebalances, connVars, termVars
<1>16. ASSUME NEW t \in Terms, WaiterRebalanced(t) PROVE ClientInv'
  BY <1>16 DEF WaiterRebalanced, connVars, termVars
<1>17. ASSUME NEW t \in Terms, CloseTerminal(t) PROVE ClientInv'
  BY <1>17 DEF CloseTerminal, connVars, termVars
<1>18. ASSUME NEW t \in Terms, CloserEnds(t) PROVE ClientInv'
  BY <1>18 DEF CloserEnds, connVars
<1>19. ASSUME NEW t \in Terms, CloserDisconnects(t) PROVE ClientInv'
  BY <1>19 DEF CloserDisconnects, DropConnection, Ends
<1>20. ASSUME NEW r \in Runners, NEW t \in Terms, ApplyCap(r, t) PROVE ClientInv'
  BY <1>20 DEF ApplyCap, connVars, termVars
<1>21. CASE UNCHANGED vars
  BY <1>21 DEF vars, connVars, termVars
<1>. QED
  BY <1>1, <1>2, <1>3, <1>4, <1>5, <1>6, <1>7, <1>8, <1>9, <1>10, <1>11, <1>12, <1>13,
     <1>14, <1>15, <1>16, <1>17, <1>18, <1>19, <1>20, <1>21
     DEF Next, Opener, Waiter, Closer, Applying

-----------------------------------------------------------------------------
(* Connections that tabs have left *)

LEMMA KeptInit == Init => KeptInv
  BY DEF Init, KeptInv

LEMMA NoTab == TypeOK => None \notin tabbed
<1>1. Clients \subseteq Nat
  BY BoundsAssumption DEF Clients
<1>. QED
  BY <1>1, NoneAssumption DEF TypeOK

LEMMA KeptStep == TypeOK /\ OpenerInv /\ ClientInv /\ KeptInv /\ [Next]_vars => KeptInv'
<1>. SUFFICES ASSUME TypeOK, OpenerInv, ClientInv, KeptInv, [Next]_vars PROVE KeptInv'
  OBVIOUS
<1>. USE NoneAssumption DEF TypeOK, OpenerInv, ClientInv, KeptInv, Dropping
<1>1. ASSUME NEW c \in Clients, LinkDies(c) PROVE KeptInv'
  BY <1>1 DEF LinkDies, mapVars, closeVars
<1>2. ASSUME NEW s \in Sessions, Connect(s) PROVE KeptInv'
  BY <1>2 DEF Connect, mapVars, closeVars, termVars
<1>3. ASSUME NEW s \in Sessions, WatchRemoves(s) PROVE KeptInv'
  <2>1. conn' = [conn EXCEPT ![s] = None] /\ tabbed' = tabbed /\ session' = session
        /\ termSess' = termSess
    BY <1>3 DEF WatchRemoves, mapVars, termVars
  <2>2. ASSUME NEW s1 \in Sessions, conn'[s1] \in tabbed'
        PROVE  s1 # s /\ conn[s1] \in tabbed
    BY <2>1, <2>2, NoTab
  <2>3. closer' = closer
    BY <1>3 DEF WatchRemoves, closeVars
  <2>. QED
    BY <2>1, <2>2, <2>3
<1>4. ASSUME NEW s \in Sessions, Disconnect(s) PROVE KeptInv'
  <2>1. conn' = [conn EXCEPT ![s] = None] /\ tabbed' = tabbed /\ session' = session
        /\ termSess' = termSess
    BY <1>4 DEF Disconnect, DropConnection, mapVars
  <2>2. ASSUME NEW s1 \in Sessions, conn'[s1] \in tabbed'
        PROVE  s1 # s /\ conn[s1] \in tabbed
    BY <2>1, <2>2, NoTab
  <2>3. closer' = closer
    BY <1>4 DEF Disconnect, closeVars
  <2>. QED
    BY <2>1, <2>2, <2>3
<1>5. ASSUME NEW t \in Terms, NEW s \in Sessions, OpenChecks(t, s) PROVE KeptInv'
  BY <1>5 DEF OpenChecks, connVars, mapVars, closeVars
<1>6. ASSUME NEW t \in Terms, ShellExits(t) PROVE KeptInv'
  BY <1>6 DEF ShellExits, connVars, mapVars, closeVars
<1>7. ASSUME NEW t \in Terms, OpenNotConnected(t) PROVE KeptInv'
  BY <1>7 DEF OpenNotConnected, connVars, mapVars, closeVars, termVars
<1>8. ASSUME NEW t \in Terms, OpenGetsClient(t) PROVE KeptInv'
  BY <1>8 DEF OpenGetsClient, connVars, mapVars, closeVars
<1>9. ASSUME NEW t \in Terms, NewSessionOpens(t) PROVE KeptInv'
  BY <1>9 DEF NewSessionOpens, connVars, mapVars, closeVars
<1>10. ASSUME NEW t \in Terms, NewSessionFails(t) PROVE KeptInv'
  BY <1>10 DEF NewSessionFails, connVars, mapVars, closeVars, termVars
<1>11. ASSUME NEW t \in Terms, List(t) PROVE KeptInv'
  BY <1>11 DEF List, connVars, closeVars, termVars
<1>12. ASSUME NEW t \in Terms, OpenRebalances(t) PROVE KeptInv'
  BY <1>12 DEF OpenRebalances, connVars, mapVars, closeVars, termVars
<1>13. ASSUME NEW t \in Terms, OpenReturns(t) PROVE KeptInv'
  BY <1>13 DEF OpenReturns, connVars, mapVars, closeVars, termVars
<1>14. ASSUME NEW t \in Terms, WaiterUnlists(t) PROVE KeptInv'
  BY <1>14 DEF WaiterUnlists, connVars, closeVars, termVars
<1>15. ASSUME NEW t \in Terms, WaiterRebalances(t) PROVE KeptInv'
  BY <1>15 DEF WaiterRebalances, connVars, mapVars, closeVars, termVars
<1>16. ASSUME NEW t \in Terms, WaiterRebalanced(t) PROVE KeptInv'
  BY <1>16 DEF WaiterRebalanced, connVars, mapVars, closeVars, termVars
<1>17. ASSUME NEW t \in Terms, CloseTerminal(t) PROVE KeptInv'
  BY <1>17 DEF CloseTerminal, Last, connVars, termVars
<1>18. ASSUME NEW t \in Terms, CloserEnds(t) PROVE KeptInv'
  BY <1>18 DEF CloserEnds, connVars, mapVars
<1>19. ASSUME NEW t \in Terms, CloserDisconnects(t) PROVE KeptInv'
  <2>1. conn' = [conn EXCEPT ![session[t]] = None] /\ tabbed' = tabbed /\ session' = session
        /\ termSess' = termSess
    BY <1>19 DEF CloserDisconnects, DropConnection, mapVars
  <2>2. ASSUME NEW s1 \in Sessions, conn'[s1] \in tabbed'
        PROVE  s1 # session[t] /\ conn[s1] \in tabbed
    BY <2>1, <2>2, NoTab
  <2>3. closer' = [closer EXCEPT ![t] = "none"]
    BY <1>19 DEF CloserDisconnects
  <2>. QED
    BY <2>1, <2>2, <2>3
<1>20. ASSUME NEW r \in Runners, NEW t \in Terms, ApplyCap(r, t) PROVE KeptInv'
  BY <1>20 DEF ApplyCap, connVars, mapVars, closeVars, termVars
<1>21. CASE UNCHANGED vars
  BY <1>21 DEF vars, connVars, mapVars, closeVars, termVars
<1>. QED
  BY <1>1, <1>2, <1>3, <1>4, <1>5, <1>6, <1>7, <1>8, <1>9, <1>10, <1>11, <1>12, <1>13,
     <1>14, <1>15, <1>16, <1>17, <1>18, <1>19, <1>20, <1>21
     DEF Next, Opener, Waiter, Closer, Applying

-----------------------------------------------------------------------------
(* Rebalances *)

LEMMA RunnerInit == Init => RunnerInv
  BY DEF Init, RunnerInv, Left, Runners

LEMMA SnapshotFrame ==
  ASSUME TypeOK, NEW r \in Runners, Snapshot(r), NEW r1 \in Runners, r1 # r
  PROVE  todo'[r1] = todo[r1]
  BY Zenon DEF Snapshot, TypeOK

(* so the entries another runner has left to send stay *)
LEMMA LeftFrame ==
  ASSUME TypeOK, NEW r \in Runners, Snapshot(r), NEW r1 \in Runners, r1 # r
  PROVE  Left(r1)' = Left(r1)
<1>1. todo'[r1] = todo[r1]
  BY Zenon, SnapshotFrame
<1>. QED
  BY <1>1, Zenon DEF Left

(* the two runners of a terminal *)
LEMMA RunnersAre ==
  /\ \A t \in Terms : <<t, "open">> \in Runners /\ <<t, "wait">> \in Runners
  /\ \A t, u \in Terms : <<t, "open">> # <<u, "wait">>
  /\ \A t, u \in Terms : t # u =>
        <<t, "open">> # <<u, "open">> /\ <<t, "wait">> # <<u, "wait">>
  BY DEF Runners

LEMMA RunnerStep == TypeOK /\ OpenerInv /\ RunnerInv /\ [Next]_vars => RunnerInv'
<1>. SUFFICES ASSUME TypeOK, OpenerInv, RunnerInv, [Next]_vars PROVE RunnerInv'
  OBVIOUS
<1>. USE DEF TypeOK, RunnerInv, Left, OpenerPCs, WaiterPCs
<1>1. ASSUME NEW c \in Clients, LinkDies(c) PROVE RunnerInv'
  BY <1>1 DEF LinkDies, capVars
<1>2. ASSUME NEW s \in Sessions, Connect(s) PROVE RunnerInv'
  BY <1>2 DEF Connect, capVars
<1>3. ASSUME NEW s \in Sessions, WatchRemoves(s) PROVE RunnerInv'
  BY <1>3 DEF WatchRemoves, capVars
<1>4. ASSUME NEW s \in Sessions, Disconnect(s) PROVE RunnerInv'
  BY <1>4 DEF Disconnect, capVars
<1>5. ASSUME NEW t \in Terms, NEW s \in Sessions, OpenChecks(t, s) PROVE RunnerInv'
  BY <1>5 DEF OpenChecks, Goes, capVars
<1>6. ASSUME NEW t \in Terms, ShellExits(t) PROVE RunnerInv'
  BY <1>6 DEF ShellExits, capVars
<1>7. ASSUME NEW t \in Terms, OpenNotConnected(t) PROVE RunnerInv'
  BY <1>7 DEF OpenNotConnected, Goes, capVars
<1>8. ASSUME NEW t \in Terms, OpenGetsClient(t) PROVE RunnerInv'
  BY <1>8 DEF OpenGetsClient, Goes, capVars
<1>9. ASSUME NEW t \in Terms, NewSessionOpens(t) PROVE RunnerInv'
  BY <1>9 DEF NewSessionOpens, Goes, capVars
<1>10. ASSUME NEW t \in Terms, NewSessionFails(t) PROVE RunnerInv'
  BY <1>10 DEF NewSessionFails, Goes, capVars
<1>11. ASSUME NEW t \in Terms, List(t) PROVE RunnerInv'
  BY <1>11 DEF List, Goes, capVars
<1>12. ASSUME NEW t \in Terms, OpenRebalances(t) PROVE RunnerInv'
  <2>1. ASSUME NEW u \in Terms PROVE Left(<<u, "wait">>)' = Left(<<u, "wait">>)
    <3>. HIDE DEF TypeOK, RunnerInv, Left
    <3>1. Snapshot(<<t, "open">>)
      BY <1>12, Zenon DEF OpenRebalances
    <3>. QED
      BY <3>1, LeftFrame, RunnersAre, Zenon
  <2>2. ASSUME NEW u \in Terms, u # t PROVE Left(<<u, "open">>)' = Left(<<u, "open">>)
    <3>. HIDE DEF TypeOK, RunnerInv, Left
    <3>1. Snapshot(<<t, "open">>)
      BY <1>12, Zenon DEF OpenRebalances
    <3>. QED
      BY <2>2, <3>1, LeftFrame, RunnersAre, Zenon
  <2>3. opener' = [opener EXCEPT ![t] = "rebalancing"] /\ waiter' = waiter
    BY <1>12 DEF OpenRebalances, Goes
  <2>. QED
    BY <2>1, <2>2, <2>3 DEF RunnerInv
<1>13. ASSUME NEW t \in Terms, OpenReturns(t) PROVE RunnerInv'
  <2>1. \A r \in Runners : Left(r)' = Left(r)
    BY <1>13 DEF OpenReturns, capVars
  <2>2. waiter[t] = "none"
    BY <1>13 DEF OpenReturns, OpenerInv
  <2>3. Left(<<t, "open">>) = {} /\ Left(<<t, "wait">>) = {}
    BY <1>13, <2>2 DEF OpenReturns, RunnerInv
  <2>4. \A u \in Terms \ {t} : opener'[u] = opener[u] /\ waiter'[u] = waiter[u]
    BY <1>13 DEF OpenReturns, Goes
  <2>5. ASSUME NEW u \in Terms
        PROVE  Left(<<u, "open">>)' = Left(<<u, "open">>) /\ Left(<<u, "wait">>)' = Left(<<u, "wait">>)
    BY <2>1 DEF Runners
  <2>6. ASSUME NEW u \in Terms
        PROVE  /\ Left(<<u, "open">>)' # {} => opener'[u] = "rebalancing"
               /\ Left(<<u, "wait">>)' # {} => waiter'[u] = "rebalancing"
    <3>1. CASE u = t
      BY <2>3, <2>5, <3>1
    <3>2. CASE u # t
      BY <2>4, <2>5, <3>2 DEF RunnerInv
    <3>. QED
      BY <3>1, <3>2
  <2>. HIDE DEF Left
  <2>. QED
    BY <2>6 DEF RunnerInv
<1>14. ASSUME NEW t \in Terms, WaiterUnlists(t) PROVE RunnerInv'
  BY <1>14 DEF WaiterUnlists, WaiterGoes, capVars
<1>15. ASSUME NEW t \in Terms, WaiterRebalances(t) PROVE RunnerInv'
  <2>1. ASSUME NEW u \in Terms PROVE Left(<<u, "open">>)' = Left(<<u, "open">>)
    <3>. HIDE DEF TypeOK, RunnerInv, Left
    <3>1. Snapshot(<<t, "wait">>)
      BY <1>15, Zenon DEF WaiterRebalances
    <3>. QED
      BY <3>1, LeftFrame, RunnersAre, Zenon
  <2>2. ASSUME NEW u \in Terms, u # t PROVE Left(<<u, "wait">>)' = Left(<<u, "wait">>)
    <3>. HIDE DEF TypeOK, RunnerInv, Left
    <3>1. Snapshot(<<t, "wait">>)
      BY <1>15, Zenon DEF WaiterRebalances
    <3>. QED
      BY <2>2, <3>1, LeftFrame, RunnersAre, Zenon
  <2>3. waiter' = [waiter EXCEPT ![t] = "rebalancing"] /\ opener' = opener
    BY <1>15 DEF WaiterRebalances, WaiterGoes
  <2>. QED
    BY <2>1, <2>2, <2>3 DEF RunnerInv
<1>16. ASSUME NEW t \in Terms, WaiterRebalanced(t) PROVE RunnerInv'
  BY <1>16 DEF WaiterRebalanced, WaiterGoes, capVars
<1>17. ASSUME NEW t \in Terms, CloseTerminal(t) PROVE RunnerInv'
  BY <1>17 DEF CloseTerminal, capVars
<1>18. ASSUME NEW t \in Terms, CloserEnds(t) PROVE RunnerInv'
  BY <1>18 DEF CloserEnds, capVars
<1>19. ASSUME NEW t \in Terms, CloserDisconnects(t) PROVE RunnerInv'
  BY <1>19 DEF CloserDisconnects, capVars
<1>20. ASSUME NEW r \in Runners, NEW t \in Terms, ApplyCap(r, t) PROVE RunnerInv'
  BY <1>20 DEF ApplyCap, Runners
<1>21. CASE UNCHANGED vars
  BY <1>21 DEF vars, capVars
<1>. QED
  BY <1>1, <1>2, <1>3, <1>4, <1>5, <1>6, <1>7, <1>8, <1>9, <1>10, <1>11, <1>12, <1>13,
     <1>14, <1>15, <1>16, <1>17, <1>18, <1>19, <1>20, <1>21
     DEF Next, Opener, Waiter, Closer, Applying

LEMMA ShareInit == Init => ShareInv
  BY DEF Init, ShareInv, Left

\* A step that leaves the terminals and the caps alone, and takes back no snapshot
\* that is to come.
LEMMA ShareFrame ==
  ASSUME ShareInv, Coming => Coming', terms' = terms, UNCHANGED capVars
  PROVE  ShareInv'
  BY Zenon DEF ShareInv, Share, Left, capVars

\* A snapshot makes every other run that is under way an outdated one.
LEMMA SnapshotShares ==
  ASSUME TypeOK, NEW r \in Runners, Snapshot(r), terms' = terms
  PROVE  ShareInv'
<1>1. \A t \in Terms : todo'[r][t] = IF t \in terms THEN Share ELSE None
  BY DEF Snapshot, Share, TypeOK
<1>2. \A t \in Left(r)' : todo'[r][t] = Share
  BY <1>1 DEF Left
<1>3. ASSUME NEW r1 \in Runners \ outdated', r1 # r PROVE Left(r1)' = {}
  <2>1. todo'[r1] = todo[r1]
    BY <1>3, SnapshotFrame
  <2>2. Left(r1) = {}
    BY <1>3 DEF Snapshot, Rebalancing
  <2>. QED
    BY <2>1, <2>2 DEF Left
<1>4. Share' = Share
  BY DEF Share
<1>5. ASSUME Share # None PROVE terms' \subseteq Left(r)'
  BY <1>1, <1>5 DEF Left, TypeOK
<1>6. Share # None
  BY NoneAssumption, ShareType
<1>7. r \in Runners \ outdated'
  BY DEF Snapshot
<1>. QED
  BY <1>2, <1>3, <1>4, <1>5, <1>6, <1>7 DEF ShareInv

\* Setting one cap: the newest run brings the terminal its share, an outdated one
\* makes it stale.
LEMMA ApplyShares ==
  ASSUME TypeOK, ShareInv, NEW r \in Runners, NEW t \in Terms, ApplyCap(r, t)
  PROVE  ShareInv'
<1>1. UNCHANGED <<terms, opener, waiter>>
  BY DEF ApplyCap, mapVars
<1>2. Coming' <=> Coming
  BY <1>1 DEF Coming
<1>3. Share' = Share
  BY <1>1 DEF Share
<1>4. cap' = [cap EXCEPT ![t] = todo[r][t]]
  BY DEF ApplyCap
<1>5. \A r1 \in Runners : Left(r1)' = IF r1 = r THEN Left(r1) \ {t} ELSE Left(r1)
  BY DEF ApplyCap, Left, TypeOK
<1>6. \A r1 \in Runners : \A u \in Left(r1)' : todo'[r1][u] = todo[r1][u]
  BY DEF ApplyCap, Left, TypeOK
<1>7. \A r1 \in Runners \ outdated' : r1 \in outdated => Left(r1)' = {}
  BY <1>5 DEF ApplyCap
<1>8. Left(r)' # {} => (r \in outdated' <=> r \in outdated)
  BY <1>5 DEF ApplyCap
<1>9. outdated' \subseteq outdated /\ outdated \ {r} \subseteq outdated'
  BY DEF ApplyCap
<1>10. stale' = IF r \in outdated THEN stale \cup {t} ELSE stale \ {t}
  BY DEF ApplyCap
<1>11. t \in Left(r)
  BY DEF ApplyCap
<1>. SUFFICES ASSUME ~Coming
              PROVE  /\ \A r1 \in Runners \ outdated' : \A u \in Left(r1)' : todo'[r1][u] = Share
                     /\ \A u \in terms \ stale' :
                          cap'[u] = Share \/ \E r1 \in Runners \ outdated' : u \in Left(r1)'
  BY <1>1, <1>2, <1>3 DEF ShareInv
<1>12. ASSUME NEW r1 \in Runners \ outdated', NEW u \in Left(r1)' PROVE todo'[r1][u] = Share
  <2>1. r1 \notin outdated
    BY <1>7
  <2>2. u \in Left(r1)
    BY <1>5
  <2>. QED
    BY <2>1, <2>2, <1>6 DEF ShareInv
<1>13. ASSUME NEW u \in terms \ stale'
       PROVE  cap'[u] = Share \/ \E r1 \in Runners \ outdated' : u \in Left(r1)'
  <2>1. CASE u = t
    <3>1. r \notin outdated
      BY <1>10, <2>1
    <3>. QED
      BY <3>1, <2>1, <1>4, <1>11 DEF ShareInv, TypeOK
  <2>2. CASE u # t
    <3>1. u \in terms \ stale /\ cap'[u] = cap[u]
      BY <2>2, <1>4, <1>10 DEF TypeOK
    <3>2. ASSUME NEW r1 \in Runners \ outdated, u \in Left(r1)
          PROVE  r1 \in Runners \ outdated' /\ u \in Left(r1)'
      BY <3>2, <2>2, <1>5, <1>9
    <3>. QED
      BY <3>1, <3>2 DEF ShareInv
  <2>. QED
    BY <2>1, <2>2
<1>. QED
  BY <1>12, <1>13

LEMMA ShareStep == TypeOK /\ OpenerInv /\ ShareInv /\ [Next]_vars => ShareInv'
<1>. SUFFICES ASSUME TypeOK, OpenerInv, ShareInv, [Next]_vars PROVE ShareInv'
  OBVIOUS
<1>. USE DEF TypeOK, OpenerPCs, WaiterPCs
<1>1. ASSUME NEW c \in Clients, LinkDies(c) PROVE ShareInv'
  BY <1>1, ShareFrame DEF LinkDies, mapVars, Coming
<1>2. ASSUME NEW s \in Sessions, Connect(s) PROVE ShareInv'
  BY <1>2, ShareFrame DEF Connect, mapVars, Coming
<1>3. ASSUME NEW s \in Sessions, WatchRemoves(s) PROVE ShareInv'
  BY <1>3, ShareFrame DEF WatchRemoves, mapVars, Coming
<1>4. ASSUME NEW s \in Sessions, Disconnect(s) PROVE ShareInv'
  BY <1>4, ShareFrame DEF Disconnect, mapVars, Coming
<1>5. ASSUME NEW t \in Terms, NEW s \in Sessions, OpenChecks(t, s) PROVE ShareInv'
  BY <1>5, ShareFrame DEF OpenChecks, Goes, mapVars, Coming
<1>6. ASSUME NEW t \in Terms, ShellExits(t) PROVE ShareInv'
  BY <1>6, ShareFrame DEF ShellExits, mapVars, Coming
<1>7. ASSUME NEW t \in Terms, OpenNotConnected(t) PROVE ShareInv'
  BY <1>7, ShareFrame DEF OpenNotConnected, Goes, mapVars, Coming
<1>8. ASSUME NEW t \in Terms, OpenGetsClient(t) PROVE ShareInv'
  BY <1>8, ShareFrame DEF OpenGetsClient, Goes, mapVars, Coming
<1>9. ASSUME NEW t \in Terms, NewSessionOpens(t) PROVE ShareInv'
  BY <1>9, ShareFrame DEF NewSessionOpens, Goes, mapVars, Coming
<1>10. ASSUME NEW t \in Terms, NewSessionFails(t) PROVE ShareInv'
  BY <1>10, ShareFrame DEF NewSessionFails, Goes, mapVars, Coming
<1>11. ASSUME NEW t \in Terms, List(t) PROVE ShareInv'
  BY <1>11 DEF List, Goes, ShareInv, Coming
<1>12. ASSUME NEW t \in Terms, OpenRebalances(t) PROVE ShareInv'
  BY <1>12, SnapshotShares DEF OpenRebalances, mapVars, Runners
<1>13. ASSUME NEW t \in Terms, OpenReturns(t) PROVE ShareInv'
  <2>1. waiter[t] = "none" /\ opener[t] = "rebalancing" /\ waiter'[t] = "waiting"
    BY <1>13 DEF OpenReturns, OpenerInv
  <2>2. \A u \in Terms \ {t} : opener'[u] = opener[u] /\ waiter'[u] = waiter[u]
    BY <1>13 DEF OpenReturns, Goes
  <2>3. terms' = terms /\ UNCHANGED capVars
    BY <1>13 DEF OpenReturns, mapVars
  <2>4. Coming => Coming'
    BY <2>1, <2>2, <2>3 DEF Coming
  <2>. QED
    BY <2>3, <2>4, ShareFrame
<1>14. ASSUME NEW t \in Terms, WaiterUnlists(t) PROVE ShareInv'
  BY <1>14 DEF WaiterUnlists, WaiterGoes, ShareInv, Coming
<1>15. ASSUME NEW t \in Terms, WaiterRebalances(t) PROVE ShareInv'
  BY <1>15, SnapshotShares DEF WaiterRebalances, mapVars, Runners
<1>16. ASSUME NEW t \in Terms, WaiterRebalanced(t) PROVE ShareInv'
  BY <1>16, ShareFrame DEF WaiterRebalanced, WaiterGoes, mapVars, Coming
<1>17. ASSUME NEW t \in Terms, CloseTerminal(t) PROVE ShareInv'
  <2>1. CASE t \in terms
    <3>1. t \notin terms' /\ opener' = opener /\ waiter' = waiter
      BY <1>17 DEF CloseTerminal, Unlist
    <3>2. opener[t] \in {"listed", "rebalancing"} \/ waiter[t] = "waiting"
      BY <2>1 DEF OpenerInv
    <3>. QED
      BY <3>1, <3>2 DEF ShareInv, Coming
  <2>2. CASE t \notin terms
    BY <1>17, <2>2, ShareFrame DEF CloseTerminal, Unlist, Coming
  <2>. QED
    BY <2>1, <2>2
<1>18. ASSUME NEW t \in Terms, CloserEnds(t) PROVE ShareInv'
  BY <1>18, ShareFrame DEF CloserEnds, mapVars, Coming
<1>19. ASSUME NEW t \in Terms, CloserDisconnects(t) PROVE ShareInv'
  BY <1>19, ShareFrame DEF CloserDisconnects, mapVars, Coming
<1>20. ASSUME NEW r \in Runners, NEW t \in Terms, ApplyCap(r, t) PROVE ShareInv'
  BY <1>20, ApplyShares
<1>21. CASE UNCHANGED vars
  BY <1>21, ShareFrame DEF vars, capVars, Coming
<1>. QED
  BY <1>1, <1>2, <1>3, <1>4, <1>5, <1>6, <1>7, <1>8, <1>9, <1>10, <1>11, <1>12, <1>13,
     <1>14, <1>15, <1>16, <1>17, <1>18, <1>19, <1>20, <1>21
     DEF Next, Opener, Waiter, Closer, Applying

-----------------------------------------------------------------------------
(* The theorems *)

IInv ==
  /\ TypeOK
  /\ OpenerInv
  /\ ClientInv
  /\ KeptInv
  /\ RunnerInv
  /\ ShareInv

LEMMA Invariance == Spec => []IInv
<1>1. Init => IInv
  BY TypeInit, OpenerInit, ClientInit, KeptInit, RunnerInit, ShareInit DEF IInv
<1>2. IInv /\ [Next]_vars => IInv'
  BY TypeStep, OpenerStep, ClientStep, KeptStep, RunnerStep, ShareStep DEF IInv
<1>. QED
  BY <1>1, <1>2, PTL DEF Spec

\* Types are kept, and a terminal on a.terms is tracked in a.termSess.
THEOREM TypeCorrect == Spec => []TypeOK
<1>1. IInv => TypeOK
  BY DEF IInv
<1>. QED
  BY <1>1, Invariance, PTL

\* CloseTerminal leaves no connection without terminals behind: for any number of
\* tabs, sessions and connections, a connection that had terminals and has none
\* left is one that a CloseTerminal is about to drop.
THEOREM LastClose == Spec => []LastCloseDisconnects
<1>1. IInv => LastCloseDisconnects
  <2>. SUFFICES ASSUME IInv, NEW s \in Sessions, Abandoned(s) PROVE Dropping(s)
    BY DEF LastCloseDisconnects, Dropping
  <2>1. \A t \in termSess : session[t] # s
    BY DEF Abandoned, IInv, TypeOK
  <2>. QED
    BY <2>1 DEF Abandoned, IInv, KeptInv
<1>. QED
  BY <1>1, Invariance, PTL

\* rebalanceScrollback gives every open terminal its share of the budget, whichever
\* way opens, closes and exits interleave: only a run that another one overtook
\* while it was setting caps leaves a terminal with another run's share.
THEOREM SharesEven == Spec => []EvenShare
<1>1. IInv => EvenShare
  <2>. SUFFICES ASSUME IInv, \A t \in Terms : ~Unbalanced(t), NEW t \in terms \ stale
                PROVE  Fair(cap[t], Cardinality(terms))
    BY DEF EvenShare
  <2>1. \A r \in Runners : Left(r) = {}
    <3>1. ASSUME NEW u \in Terms PROVE Left(<<u, "open">>) = {} /\ Left(<<u, "wait">>) = {}
      BY DEF IInv, RunnerInv, Unbalanced
    <3>2. \A r \in Runners : \E u \in Terms : r = <<u, "open">> \/ r = <<u, "wait">>
      BY DEF Runners
    <3>. QED
      BY <3>1, <3>2
  <2>2. ~Coming
    BY DEF Coming, Unbalanced
  <2>3. cap[t] = Share
    BY <2>1, <2>2 DEF IInv, ShareInv
  <2>4. Cardinality(terms) \in Nat \ {0}
    <3>1. IsFiniteSet(terms)
      BY TermsAssumption, FS_Subset DEF IInv, TypeOK
    <3>. QED
      BY <3>1, FS_CardinalityType, FS_EmptySet
  <2>. QED
    BY <2>3, <2>4, CapIsFair DEF Share
<1>. QED
  BY <1>1, Invariance, PTL

-----------------------------------------------------------------------------
(* Broadcasts: the inductive invariant *)

Works == [at : {"idle", "begin", "send", "feed", "check", "advance"},
          job : Jobs \cup {NoJob}, t : Nat]

\* Every job has an entry for each of its targets, and every actor one for its work.
Shape ==
  /\ work \in [Actors -> Works]
  /\ cur \in [Jobs -> Nat]
  /\ DOMAIN state = Jobs /\ \A j \in Jobs : DOMAIN state[j] = DOMAIN Targets(j)
  /\ DOMAIN sends = Jobs /\ \A j \in Jobs : DOMAIN sends[j] = DOMAIN Targets(j)

\* How far Start has come: a target it has not come to is pending.
LoopInv ==
  \A j \in Jobs :
    /\ loop[j] >= 1
    /\ call[j] \in {"checked", "looping", "returned"} => Targets(j) # <<>>
    /\ Sequential(j) /\ loop[j] = 1 =>
         cur[j] = 1 /\ \A t \in DOMAIN Targets(j) : state[j][t] = "pending"
    /\ ~Sequential(j) => \A t \in DOMAIN Targets(j) : t >= loop[j] => state[j][t] = "pending"

\* Of a sequential job, targets before the current one are final and those after it pending.
OrderInv ==
  \A j \in Jobs : Sequential(j) =>
    /\ \A t \in DOMAIN Targets(j) : t < cur[j] => state[j][t] \in Final
    /\ \A t \in DOMAIN Targets(j) : t > cur[j] => state[j][t] = "pending"

\* A target that x is to begin is pending, and its turn has come.
Ready(x, j, t) ==
  /\ state[j][t] = "pending"
  /\ Sequential(j) => t = cur[j] /\ loop[j] > 1
  /\ ~Sequential(j) => x = <<j, "start">> /\ t < loop[j]

\* What an actor has in hand: a target it writes to has begun, one that hands over is final.
WorkInv ==
  \A x \in Actors :
    LET j == work[x].job  t == work[x].t IN
    /\ work[x].at = "begin" => Ready(x, j, t)
    /\ work[x].at = "send" => state[j][t] # "pending" /\ sends[j][t] = 0
    /\ work[x].at = "advance" => state[j][t] \in Final /\ Sequential(j)

\* A target is in the hands of one actor from its begin to its write ...
OneSender ==
  \A x, y \in Actors :
    /\ work[x].at \in {"begin", "send"}
    /\ work[y].at \in {"begin", "send"}
    /\ work[x].job = work[y].job
    /\ work[x].t = work[y].t
    => x = y

\* ... and is written to at most once, after its begin.
SendsInv ==
  \A j \in Jobs : \A t \in DOMAIN Targets(j) :
    sends[j][t] <= 1 /\ (state[j][t] = "pending" => sends[j][t] = 0)

\* A sweeper that unregisters has seen every target final.
SweepInv == \A j \in Jobs : sweeper[j] = "clearing" => AllFinal(j)

MultiSendInv ==
  /\ MultiSendType /\ Shape
  /\ LoopInv /\ OrderInv /\ WorkInv /\ OneSender /\ SendsInv /\ SweepInv
  /\ RunningJobHeard

-----------------------------------------------------------------------------
(* What an operation on the tables does *)

\* The arguments of a call are what they were, and of the types RequestsAssumption says.
LEMMA Requested ==
  ASSUME MultiSendType
  PROVE  \A j \in Jobs : /\ Targets(j) \in Seq(Terminals)
                         /\ Len(Targets(j)) \in Nat
                         /\ DOMAIN Targets(j) = 1 .. Len(Targets(j))
                         /\ Sequential(j) \in BOOLEAN
<1>1. \A j \in Jobs : request[j] \in [targets : Seq(Terminals), seq : BOOLEAN]
  BY RequestsAssumption DEF MultiSendType
<1>2. \A j \in Jobs : Targets(j) \in Seq(Terminals)
  BY <1>1 DEF Targets
<1>3. \A j \in Jobs : Sequential(j) \in BOOLEAN
  BY <1>1 DEF Sequential
<1>4. ASSUME NEW s \in Seq(Terminals) PROVE Len(s) \in Nat /\ DOMAIN s = 1 .. Len(s)
  OBVIOUS
<1>. QED
  BY <1>2, <1>3, <1>4, Zenon

LEMMA SameRequest ==
  ASSUME request' = request
  PROVE  \A j \in Jobs : Targets(j)' = Targets(j) /\ Sequential(j)' = Sequential(j)
  BY DEF Targets, Sequential

\* An actor at work has a target of a job in hand.
LEMMA InHand ==
  ASSUME MultiSendType, NEW x \in Actors, work[x].at # "idle"
  PROVE  work[x].job \in Jobs /\ work[x].t \in DOMAIN Targets(work[x].job)
  BY DEF MultiSendType, Idle

LEMMA Holding ==
  ASSUME MultiSendType, Shape, NEW x \in Actors, work[x].at # "idle"
  PROVE  \E j \in Jobs : \E t \in DOMAIN Targets(j) : work[x] = Doing(work[x].at, j, t)
  BY InHand DEF Shape, Works, Doing

LEMMA BecomesAt ==
  ASSUME Shape, NEW x \in Actors, NEW w \in Works, Becomes(x, w)
  PROVE  /\ work' \in [Actors -> Works]
         /\ \A y \in Actors : work'[y] = IF y = x THEN w ELSE work[y]
  BY DEF Shape, Becomes

LEMMA EntersAt ==
  ASSUME MultiSendType, Shape, NEW j \in Jobs, NEW t \in DOMAIN Targets(j), NEW s \in States,
         Enters(j, t, s)
  PROVE  /\ DOMAIN state' = Jobs
         /\ \A k \in Jobs : state'[k] \in [DOMAIN Targets(k) -> States]
         /\ \A k \in Jobs : \A i \in DOMAIN Targets(k) :
              state'[k][i] = IF k = j /\ i = t THEN s ELSE state[k][i]
<1>1. state' = [state EXCEPT ![j] = [state[j] EXCEPT ![t] = s]]
  BY DEF Enters
<1>2. state[j] \in [DOMAIN Targets(j) -> States]
  BY DEF MultiSendType
<1>. QED
  BY <1>1, <1>2 DEF MultiSendType, Shape

LEMMA SentAt ==
  ASSUME MultiSendType, Shape, NEW j \in Jobs, NEW t \in DOMAIN Targets(j),
         sends' = [sends EXCEPT ![j][t] = @ + 1]
  PROVE  /\ DOMAIN sends' = Jobs
         /\ \A k \in Jobs : sends'[k] \in [DOMAIN Targets(k) -> Nat]
         /\ \A k \in Jobs : \A i \in DOMAIN Targets(k) :
              sends'[k][i] = IF k = j /\ i = t THEN sends[k][i] + 1 ELSE sends[k][i]
<1>1. sends' = [sends EXCEPT ![j] = [sends[j] EXCEPT ![t] = sends[j][t] + 1]]
  OBVIOUS
<1>2. sends[j] \in [DOMAIN Targets(j) -> Nat]
  BY DEF MultiSendType
<1>. QED
  BY <1>1, <1>2 DEF MultiSendType, Shape

\* A work made by Doing is one, if it is of a target of a job.
LEMMA DoingWork ==
  ASSUME MultiSendType, NEW at \in {"begin", "send", "feed", "check", "advance"},
         NEW j \in Jobs, NEW t \in DOMAIN Targets(j)
  PROVE  Doing(at, j, t) \in Works
  BY Requested DEF Doing, Works

LEMMA IdleWork == Idle \in Works
  BY DEF Idle, Works

TablesOK ==
  \A j \in Jobs : /\ cur[j] \in 1 .. Len(Targets(j)) + 1
                  /\ state[j] \in [DOMAIN Targets(j) -> States]
                  /\ sends[j] \in [DOMAIN Targets(j) -> Nat]

WorksOK ==
  \A x \in Actors :
    work[x] = Idle \/
      /\ work[x].at \in {"begin", "send", "feed", "check", "advance"}
      /\ work[x].job \in Jobs
      /\ work[x].t \in DOMAIN Targets(work[x].job)

RestOK ==
  /\ msJob \in Jobs \cup {NoJob}
  /\ call \in [Jobs -> {"none", "checked", "refused", "looping", "returned"}]
  /\ request \in Requests
  /\ loop \in [Jobs -> Nat]
  /\ sweeper \in [Jobs -> {"off", "running", "clearing", "stopped"}]
  /\ cancelled \subseteq Jobs
  /\ displaced \subseteq Jobs

\* MultiSendType in three parts.
LEMMA TypeParts == MultiSendType <=> TablesOK /\ WorksOK /\ RestOK
  BY DEF MultiSendType, TablesOK, WorksOK, RestOK

\* The tables are well formed still if they are left alone ...
LEMMA TablesKept ==
  ASSUME MultiSendType, UNCHANGED <<request, cur, state, sends>>
  PROVE  TablesOK'
  BY SameRequest DEF MultiSendType, TablesOK

\* ... and so is the work in hand, if one actor takes up a target.
LEMMA WorkKept ==
  ASSUME MultiSendType, request' = request, NEW x \in Actors, NEW w,
         \/ w = Idle
         \/ \E at \in {"begin", "send", "feed", "check", "advance"}, j \in Jobs :
              \E t \in DOMAIN Targets(j) : w = Doing(at, j, t),
         \A y \in Actors : work'[y] = IF y = x THEN w ELSE work[y]
  PROVE  WorksOK'
<1>. SUFFICES ASSUME NEW y \in Actors, work'[y] # Idle
              PROVE  /\ work'[y].at \in {"begin", "send", "feed", "check", "advance"}
                     /\ work'[y].job \in Jobs
                     /\ work'[y].t \in DOMAIN (request'[work'[y].job].targets)
  BY DEF WorksOK, Targets
<1>1. CASE y = x
  BY <1>1 DEF Doing, Targets
<1>2. CASE y # x
  BY <1>2 DEF MultiSendType, Targets
<1>. QED
  BY <1>1, <1>2

-----------------------------------------------------------------------------
(* Steps that leave the tables alone *)

\* A step of the call, the sweeper or the user leaves every target as it is.
LEMMA Quiet ==
  ASSUME MultiSendInv, UNCHANGED <<jobVars, loop, work>>,
         \A j \in Jobs : call'[j] \in {"checked", "looping", "returned"} => Targets(j) # <<>>
  PROVE  Shape' /\ LoopInv' /\ OrderInv' /\ WorkInv' /\ OneSender' /\ SendsInv'
<1>. UNCHANGED <<request, cur, state, sends, loop, work>>
  BY DEF jobVars
<1>. USE SameRequest DEF MultiSendInv
<1>1. Shape'
  BY DEF Shape
<1>2. LoopInv'
  BY DEF LoopInv
<1>3. OrderInv'
  BY DEF OrderInv
<1>4. WorkInv'
  BY DEF WorkInv, Ready, Targets, Sequential
<1>5. OneSender'
  BY DEF OneSender
<1>6. SendsInv'
  BY DEF SendsInv
<1>. QED
  BY <1>1, <1>2, <1>3, <1>4, <1>5, <1>6

\* A step on a target leaves who is registered as it was, and who has seen every target
\* final was right: final targets stay so.
LEMMA FinalStays ==
  ASSUME MultiSendInv, UNCHANGED <<appVars, call, sweeper, request>>,
         \A j \in Jobs : \A t \in DOMAIN Targets(j) :
           state[j][t] \in Final => state'[j][t] \in Final
  PROVE  SweepInv' /\ RunningJobHeard'
<1>1. \A j \in Jobs : AllFinal(j) => AllFinal(j)'
  BY SameRequest DEF AllFinal
<1>2. SweepInv'
  BY <1>1 DEF SweepInv, MultiSendInv
<1>3. RunningJobHeard'
  BY <1>1 DEF RunningJobHeard, MultiSendInv, appVars
<1>. QED
  BY <1>2, <1>3

LEMMA StartChecksKeeps ==
  ASSUME MultiSendInv, NEW j \in Jobs, StartChecks(j)
  PROVE  MultiSendInv'
<1>. USE DEF MultiSendInv
<1>1. call' = [call EXCEPT ![j] = "checked"] /\ Targets(j) # <<>>
      /\ UNCHANGED <<jobVars, appVars, loop, work, sweeper>>
  BY DEF StartChecks
<1>2. MultiSendType'
  BY <1>1, SameRequest DEF MultiSendType, jobVars, appVars
<1>3. \A k \in Jobs : call'[k] \in {"checked", "looping", "returned"} => Targets(k) # <<>>
  BY <1>1 DEF MultiSendType, LoopInv
<1>4. SweepInv' /\ RunningJobHeard'
  BY <1>1, SameRequest DEF SweepInv, RunningJobHeard, AllFinal, MultiSendType, jobVars, appVars
<1>. QED
  BY <1>1, <1>2, <1>3, <1>4, Quiet

LEMMA StartRefusesKeeps ==
  ASSUME MultiSendInv, NEW j \in Jobs, StartRefuses(j)
  PROVE  MultiSendInv'
<1>. USE DEF MultiSendInv
<1>1. call' = [call EXCEPT ![j] = "refused"]
      /\ call[j] \in {"none", "checked"}
      /\ UNCHANGED <<jobVars, appVars, loop, work, sweeper>>
  BY DEF StartRefuses
<1>2. MultiSendType'
  BY <1>1, SameRequest DEF MultiSendType, jobVars, appVars
<1>3. \A k \in Jobs : call'[k] \in {"checked", "looping", "returned"} => Targets(k) # <<>>
  BY <1>1 DEF MultiSendType, LoopInv
<1>4. SweepInv' /\ RunningJobHeard'
  BY <1>1, SameRequest DEF SweepInv, RunningJobHeard, AllFinal, MultiSendType, jobVars, appVars
<1>. QED
  BY <1>1, <1>2, <1>3, <1>4, Quiet

LEMMA StartRegistersKeeps ==
  ASSUME MultiSendInv, NEW j \in Jobs, StartRegisters(j)
  PROVE  MultiSendInv'
<1>. USE DEF MultiSendInv
<1>1. /\ call[j] = "checked"
      /\ msJob' = j
      /\ displaced' = displaced \cup ({msJob} \ {NoJob})
      /\ call' = [call EXCEPT ![j] = "looping"]
      /\ UNCHANGED <<jobVars, cancelled, loop, work, sweeper>>
  BY DEF StartRegisters
<1>2. MultiSendType'
  BY <1>1, SameRequest DEF MultiSendType, jobVars
<1>3. \A k \in Jobs : call'[k] \in {"checked", "looping", "returned"} => Targets(k) # <<>>
  BY <1>1 DEF MultiSendType, LoopInv
<1>4. SweepInv'
  BY <1>1, SameRequest DEF SweepInv, AllFinal, jobVars
<1>5. RunningJobHeard'
  BY <1>1, SameRequest, NoJobAssumption DEF RunningJobHeard, AllFinal, MultiSendType, jobVars
<1>. QED
  BY <1>1, <1>2, <1>3, <1>4, <1>5, Quiet

LEMMA StartReturnsKeeps ==
  ASSUME MultiSendInv, NEW j \in Jobs, StartReturns(j)
  PROVE  MultiSendInv'
<1>. USE DEF MultiSendInv
<1>1. /\ call[j] = "looping"
      /\ call' = [call EXCEPT ![j] = "returned"]
      /\ sweeper' = [sweeper EXCEPT ![j] = "running"]
      /\ UNCHANGED <<jobVars, appVars, loop, work>>
  BY DEF StartReturns
<1>2. MultiSendType'
  BY <1>1, SameRequest DEF MultiSendType, jobVars, appVars
<1>3. \A k \in Jobs : call'[k] \in {"checked", "looping", "returned"} => Targets(k) # <<>>
  BY <1>1 DEF MultiSendType, LoopInv
<1>4. SweepInv' /\ RunningJobHeard'
  BY <1>1, SameRequest DEF SweepInv, RunningJobHeard, AllFinal, MultiSendType, jobVars, appVars
<1>. QED
  BY <1>1, <1>2, <1>3, <1>4, Quiet

LEMMA SweeperSeesDoneKeeps ==
  ASSUME MultiSendInv, NEW j \in Jobs, SweeperSeesDone(j)
  PROVE  MultiSendInv'
<1>. USE DEF MultiSendInv
<1>1. /\ AllFinal(j)
      /\ sweeper' = [sweeper EXCEPT ![j] = "clearing"]
      /\ UNCHANGED <<jobVars, appVars, call, loop, work>>
  BY DEF SweeperSeesDone
<1>2. MultiSendType'
  BY <1>1, SameRequest DEF MultiSendType, jobVars, appVars
<1>3. SweepInv' /\ RunningJobHeard'
  BY <1>1, SameRequest DEF SweepInv, RunningJobHeard, AllFinal, MultiSendType, jobVars, appVars
<1>. QED
  BY <1>1, <1>2, <1>3, Quiet DEF LoopInv

\* A sweeper takes off its own job only, and that one is done.
LEMMA SweeperClearsKeeps ==
  ASSUME MultiSendInv, NEW j \in Jobs, SweeperClears(j)
  PROVE  MultiSendInv'
<1>. USE DEF MultiSendInv
<1>1. /\ sweeper[j] = "clearing"
      /\ msJob' = IF msJob = j THEN NoJob ELSE msJob
      /\ sweeper' = [sweeper EXCEPT ![j] = "stopped"]
      /\ UNCHANGED <<jobVars, cancelled, displaced, call, loop, work>>
  BY DEF SweeperClears, ClearOwn
<1>2. MultiSendType'
  BY <1>1, SameRequest DEF MultiSendType, jobVars
<1>3. AllFinal(j)
  BY <1>1 DEF SweepInv
<1>4. \A k \in Jobs : AllFinal(k)' = AllFinal(k)
  BY <1>1, SameRequest DEF AllFinal, jobVars
<1>5. SweepInv'
  BY <1>1, <1>4 DEF SweepInv, MultiSendType
<1>6. RunningJobHeard'
  BY <1>1, <1>3, <1>4 DEF RunningJobHeard
<1>. QED
  BY <1>1, <1>2, <1>5, <1>6, Quiet DEF LoopInv

LEMMA SweeperStopsKeeps ==
  ASSUME MultiSendInv, NEW j \in Jobs, SweeperStops(j)
  PROVE  MultiSendInv'
<1>. USE DEF MultiSendInv
<1>1. /\ sweeper' = [sweeper EXCEPT ![j] = "stopped"]
      /\ UNCHANGED <<jobVars, appVars, call, loop, work>>
  BY DEF SweeperStops
<1>2. MultiSendType'
  BY <1>1, SameRequest DEF MultiSendType, jobVars, appVars
<1>3. SweepInv' /\ RunningJobHeard'
  BY <1>1, SameRequest DEF SweepInv, RunningJobHeard, AllFinal, MultiSendType, jobVars, appVars
<1>. QED
  BY <1>1, <1>2, <1>3, Quiet DEF LoopInv

LEMMA CancelKeeps ==
  ASSUME MultiSendInv, MultiSendCancel
  PROVE  MultiSendInv'
<1>. USE DEF MultiSendInv
<1>1. /\ msJob # NoJob
      /\ cancelled' = cancelled \cup {msJob}
      /\ msJob' = NoJob
      /\ UNCHANGED <<jobVars, displaced, call, loop, work, sweeper>>
  BY DEF MultiSendCancel
<1>2. MultiSendType'
  BY <1>1, SameRequest DEF MultiSendType, jobVars
<1>3. SweepInv' /\ RunningJobHeard'
  BY <1>1, SameRequest DEF SweepInv, RunningJobHeard, AllFinal, MultiSendType, jobVars
<1>. QED
  BY <1>1, <1>2, <1>3, Quiet DEF LoopInv

-----------------------------------------------------------------------------
(* Steps of the actors *)

\* Start takes up the next target, which nobody has begun.
LEMMA StartNextKeeps ==
  ASSUME MultiSendInv, NEW j \in Jobs, StartNext(j)
  PROVE  MultiSendInv'
<1>. DEFINE x == <<j, "start">>
<1>. USE DEF MultiSendInv
<1>1. loop[j] \in DOMAIN Targets(j)
  <2>1. loop[j] \in Nat /\ loop[j] >= 1 /\ Targets(j) # <<>>
    BY DEF StartNext, LoopInv, MultiSendType
  <2>2. Len(Targets(j)) >= 1
    BY <2>1, Requested
  <2>. QED
    BY <2>1, <2>2, Requested DEF StartNext
<1>2. PICK t \in DOMAIN Targets(j) : t = loop[j]
  BY <1>1
<1>3. /\ work[x] = Idle
      /\ t <= IF Sequential(j) THEN 1 ELSE Len(Targets(j))
      /\ Becomes(x, Doing("begin", j, t))
      /\ loop' = [loop EXCEPT ![j] = @ + 1]
      /\ UNCHANGED <<request, cur, state, sends, appVars, call, sweeper>>
  BY <1>2 DEF StartNext, Becomes, jobVars
<1>4. x \in Actors
  BY DEF Actors
<1>5. Doing("begin", j, t) \in Works
  BY DoingWork
<1>6. /\ work' \in [Actors -> Works]
      /\ \A y \in Actors : work'[y] = IF y = x THEN Doing("begin", j, t) ELSE work[y]
  BY <1>3, <1>4, <1>5, BecomesAt
<1>7. state[j][t] = "pending" /\ (Sequential(j) => t = 1 /\ cur[j] = 1)
  BY <1>2, <1>3, Requested DEF LoopInv, MultiSendType
<1>8. \A y \in Actors : work[y].at \in {"begin", "send"} /\ work[y].job = j => work[y].t # t
  BY <1>2, <1>3, <1>7, Requested DEF WorkInv, Ready, Idle
<1>. HIDE DEF x
<1>9. loop' \in [Jobs -> Nat] /\ \A k \in Jobs : loop'[k] = IF k = j THEN t + 1 ELSE loop[k]
  BY <1>2, <1>3 DEF MultiSendType
<1>10. MultiSendType'
  <2>1. WorksOK'
    BY <1>3, <1>4, <1>6, WorkKept
  <2>2. TablesOK'
    BY <1>3, TablesKept
  <2>3. RestOK'
    BY <1>3, <1>9 DEF MultiSendType, RestOK, appVars
  <2>. QED
    BY <2>1, <2>2, <2>3, TypeParts, PTL
<1>11. Shape'
  BY <1>3, <1>6, SameRequest DEF Shape
<1>12. LoopInv'
  BY <1>2, <1>3, <1>9, SameRequest DEF LoopInv, MultiSendType
<1>13. OrderInv'
  BY <1>3, SameRequest DEF OrderInv
<1>14. WorkInv'
  <2>1. \A k \in Jobs : loop[k] \in Nat
    BY DEF MultiSendType
  <2>2. ASSUME NEW y \in Actors, NEW k \in Jobs, NEW i \in DOMAIN Targets(k), Ready(y, k, i)
        PROVE  Ready(y, k, i)'
    BY <1>2, <1>3, <1>9, <2>1, <2>2, SameRequest, Requested DEF Ready
  <2>3. Ready(x, j, t)'
    BY <1>2, <1>3, <1>7, <1>9, <2>1, SameRequest, Requested DEF Ready, x
  <2>. QED
    BY <1>3, <1>6, <2>2, <2>3, InHand, SameRequest DEF WorkInv, Doing
<1>15. OneSender'
  BY <1>6, <1>8 DEF OneSender, Doing
<1>16. SendsInv'
  BY <1>3, SameRequest DEF SendsInv
<1>17. SweepInv' /\ RunningJobHeard'
  BY <1>3, FinalStays
<1>. QED
  BY <1>10, <1>11, <1>12, <1>13, <1>14, <1>15, <1>16, <1>17

\* A step that only changes what one actor has in hand, and neither begins a target with it
\* nor writes to one.
LEMMA HandsOver ==
  ASSUME MultiSendInv, NEW x \in Actors, NEW w \in Works,
         \/ w = Idle
         \/ \E at \in {"feed", "check", "advance"}, j \in Jobs :
              \E t \in DOMAIN Targets(j) :
                /\ w = Doing(at, j, t)
                /\ at = "advance" => state[j][t] \in Final /\ Sequential(j),
         Becomes(x, w),
         UNCHANGED <<request, cur, state, sends, appVars, call, loop, sweeper>>
  PROVE  MultiSendInv'
<1>. USE DEF MultiSendInv
<1>1. /\ work' \in [Actors -> Works]
      /\ \A y \in Actors : work'[y] = IF y = x THEN w ELSE work[y]
  BY BecomesAt
<1>2. MultiSendType'
  <2>1. WorksOK'
    BY <1>1, WorkKept
  <2>2. TablesOK'
    BY TablesKept
  <2>3. RestOK'
    BY DEF MultiSendType, RestOK, appVars
  <2>. QED
    BY <2>1, <2>2, <2>3, TypeParts, PTL
<1>3. Shape'
  BY <1>1, SameRequest DEF Shape
<1>4. LoopInv'
  BY SameRequest DEF LoopInv
<1>5. OrderInv'
  BY SameRequest DEF OrderInv
<1>6. WorkInv'
  <2>1. ASSUME NEW y \in Actors, NEW k \in Jobs, NEW i \in DOMAIN Targets(k), Ready(y, k, i)
        PROVE  Ready(y, k, i)'
    BY <2>1, SameRequest DEF Ready
  <2>. QED
    BY <1>1, <2>1, InHand, SameRequest DEF WorkInv, Doing, Idle
<1>7. OneSender'
  BY <1>1 DEF OneSender, Doing, Idle
<1>8. SendsInv'
  BY SameRequest DEF SendsInv
<1>9. SweepInv' /\ RunningJobHeard'
  BY FinalStays
<1>. QED
  BY <1>2, <1>3, <1>4, <1>5, <1>6, <1>7, <1>8, <1>9

\* A target enters a state: it has begun, or x begins it; it does not leave a final state;
\* and x goes on to write to it, or hands it over, or leaves it.
LEMMA Progress ==
  ASSUME MultiSendInv, NEW x \in Actors, NEW w \in Works,
         NEW j \in Jobs, NEW t \in DOMAIN Targets(j), NEW s \in States \ {"pending"},
         state[j][t] \in Final => s \in Final,
         state[j][t] = "pending" => work[x] = Doing("begin", j, t),
         \/ w = Idle
         \/ w = Doing("check", j, t)
         \/ w = Doing("send", j, t) /\ work[x] = Doing("begin", j, t)
         \/ w = Doing("advance", j, t) /\ s \in Final /\ Sequential(j),
         Enters(j, t, s), Becomes(x, w),
         UNCHANGED <<request, cur, sends, appVars, call, loop, sweeper>>
  PROVE  MultiSendInv'
<1>. USE DEF MultiSendInv
<1>1. /\ work' \in [Actors -> Works]
      /\ \A y \in Actors : work'[y] = IF y = x THEN w ELSE work[y]
  BY BecomesAt
<1>2. /\ DOMAIN state' = Jobs
      /\ \A k \in Jobs : state'[k] \in [DOMAIN Targets(k) -> States]
      /\ \A k \in Jobs : \A i \in DOMAIN Targets(k) :
           state'[k][i] = IF k = j /\ i = t THEN s ELSE state[k][i]
  BY EntersAt
<1>3. MultiSendType'
  <2>1. WorksOK'
    BY <1>1, WorkKept
  <2>2. TablesOK'
    BY <1>2, SameRequest DEF MultiSendType, TablesOK
  <2>3. RestOK'
    BY DEF MultiSendType, RestOK, appVars
  <2>. QED
    BY <2>1, <2>2, <2>3, TypeParts, PTL
<1>4. Shape'
  BY <1>1, <1>2, SameRequest DEF Shape
<1>5. state[j][t] = "pending" => Ready(x, j, t) /\ sends[j][t] = 0
  BY DEF WorkInv, SendsInv, Doing
<1>. /\ loop[j] \in Nat /\ cur[j] \in Nat /\ t \in Nat
     /\ Sequential(j) \in BOOLEAN
  BY Requested DEF MultiSendType, Shape
<1>6. /\ Sequential(j) => loop[j] # 1 /\ ~(t > cur[j]) /\ (t < cur[j] => s \in Final)
      /\ ~Sequential(j) => ~(t >= loop[j])
  <2>1. CASE state[j][t] = "pending"
    BY <1>5, <2>1 DEF Ready
  <2>2. CASE state[j][t] # "pending"
    BY <2>2 DEF LoopInv, OrderInv
  <2>. QED
    BY <2>1, <2>2
<1>7. LoopInv' /\ OrderInv'
  <2>1. LoopInv'
    BY <1>2, <1>6, SameRequest DEF LoopInv
  <2>2. OrderInv'
    BY <1>2, <1>6, SameRequest DEF OrderInv
  <2>. QED
    BY <2>1, <2>2
<1>8. WorkInv'
  <2>1. ASSUME NEW y \in Actors, y # x, work[y].at = "begin"
        PROVE  ~(work[y].job = j /\ work[y].t = t)
    BY <2>1, InHand DEF WorkInv, Ready, OneSender, Doing
  <2>2. ASSUME NEW y \in Actors, y # x, work[y].at = "begin"
        PROVE  Ready(y, work[y].job, work[y].t)'
    BY <1>1, <1>2, <2>1, <2>2, InHand, SameRequest DEF WorkInv, Ready
  <2>3. ASSUME NEW y \in Actors, y # x, work[y].at = "send"
        PROVE  state'[work[y].job][work[y].t] # "pending"
    BY <1>2, <2>3, InHand DEF WorkInv
  <2>4. ASSUME NEW y \in Actors, y # x, work[y].at = "advance"
        PROVE  state'[work[y].job][work[y].t] \in Final
    BY <1>2, <2>4, InHand DEF WorkInv
  <2>. QED
    <3>1. ASSUME NEW y \in Actors, y # x
          PROVE  LET k == work[y].job  i == work[y].t IN
                 /\ work[y].at = "begin" => Ready(y, k, i)'
                 /\ work[y].at = "send" => state'[k][i] # "pending" /\ sends[k][i] = 0
                 /\ work[y].at = "advance" => state'[k][i] \in Final /\ Sequential(k)
      BY <2>2, <2>3, <2>4, <3>1 DEF WorkInv
    <3>2. \A y \in Actors : work[y].at # "idle" => work[y].job \in Jobs
      BY InHand
    <3>3. /\ w.at # "begin"
          /\ w.at = "send" => /\ state'[w.job][w.t] # "pending"
                              /\ sends'[w.job][w.t] = 0
          /\ w.at = "advance" => /\ state'[w.job][w.t] \in Final
                                 /\ Sequential(j)' /\ w.job = j
      <4>1. state'[j][t] = s /\ sends'[j][t] = sends[j][t] /\ Sequential(j)' = Sequential(j)
        BY <1>2, SameRequest
      <4>2. work[x] = Doing("begin", j, t) => sends[j][t] = 0
        BY <1>5 DEF WorkInv, Ready, Doing
      <4>. QED
        BY <4>1, <4>2 DEF Doing, Idle
    <3>. QED
      BY <1>1, <3>1, <3>2, <3>3, SameRequest DEF WorkInv
<1>9. OneSender'
  BY <1>1 DEF OneSender, Doing, Idle
<1>10. SendsInv'
  BY <1>2, SameRequest DEF SendsInv
<1>11. SweepInv' /\ RunningJobHeard'
  BY <1>2, FinalStays
<1>. QED
  BY <1>3, <1>4, <1>7, <1>8, <1>9, <1>10, <1>11

LEMMA BeginKeeps ==
  ASSUME MultiSendInv, NEW x \in Actors, Begin(x)
  PROVE  MultiSendInv'
<1>1. work[x].at = "begin"
  BY DEF Begin
<1>a. PICK j \in Jobs : \E t \in DOMAIN Targets(j) : work[x] = Doing("begin", j, t)
  BY <1>1, Holding DEF MultiSendInv
<1>2. PICK t \in DOMAIN Targets(j) : work[x] = Doing("begin", j, t)
  BY <1>a
<1>3. /\ Enters(j, t, "sent")
      /\ Becomes(x, Doing("send", j, t))
      /\ UNCHANGED <<appVars, call, request, loop, cur, sends, sweeper>>
  BY <1>2 DEF Begin, Doing
<1>4. Doing("send", j, t) \in Works
  BY DoingWork DEF MultiSendInv
<1>5. state[j][t] = "pending"
  BY <1>2 DEF MultiSendInv, WorkInv, Ready, Doing
<1>. QED
  BY <1>2, <1>3, <1>4, <1>5, Progress DEF States, Final

LEMMA SendFailsKeeps ==
  ASSUME MultiSendInv, NEW x \in Actors, SendFails(x)
  PROVE  MultiSendInv'
<1>1. work[x].at = "send"
  BY DEF SendFails
<1>a. PICK j \in Jobs : \E t \in DOMAIN Targets(j) : work[x] = Doing("send", j, t)
  BY <1>1, Holding DEF MultiSendInv
<1>2. PICK t \in DOMAIN Targets(j) : work[x] = Doing("send", j, t)
  BY <1>a
<1>3. /\ Enters(j, t, "error")
      /\ Becomes(x, AfterFailure(j, t))
      /\ UNCHANGED <<appVars, call, request, loop, cur, sends, sweeper>>
  BY <1>2 DEF SendFails, Doing
<1>4. AfterFailure(j, t) \in Works
  BY DoingWork, IdleWork DEF MultiSendInv, AfterFailure
<1>5. state[j][t] # "pending"
  BY <1>2 DEF MultiSendInv, WorkInv, Doing
<1>. QED
  BY <1>3, <1>4, <1>5, Progress DEF States, Final, AfterFailure

LEMMA FeedMatchesKeeps ==
  ASSUME MultiSendInv, NEW x \in Actors, FeedMatches(x)
  PROVE  MultiSendInv'
<1>1. work[x].at = "feed"
  BY DEF FeedMatches
<1>a. PICK j \in Jobs : \E t \in DOMAIN Targets(j) : work[x] = Doing("feed", j, t)
  BY <1>1, Holding DEF MultiSendInv
<1>2. PICK t \in DOMAIN Targets(j) : work[x] = Doing("feed", j, t)
  BY <1>a
<1>3. PICK s \in {"echoed", "ok", "error"} : Enters(j, t, s)
  BY <1>2 DEF FeedMatches, Doing
<1>4. /\ state[j][t] \in Running
      /\ Becomes(x, Doing("check", j, t))
      /\ UNCHANGED <<appVars, call, request, loop, cur, sends, sweeper>>
  BY <1>2 DEF FeedMatches, Doing
<1>5. Doing("check", j, t) \in Works
  BY DoingWork DEF MultiSendInv
<1>. QED
  BY <1>3, <1>4, <1>5, Progress DEF States, Final, Running

LEMMA SweepTimesOutKeeps ==
  ASSUME MultiSendInv, NEW j \in Jobs, NEW t \in DOMAIN Targets(j), SweepTimesOut(j, t)
  PROVE  MultiSendInv'
<1>. DEFINE w == IF Sequential(j) THEN Doing("advance", j, t) ELSE Idle
<1>1. /\ state[j][t] \in Running
      /\ Enters(j, t, "timeout")
      /\ Becomes(<<j, "sweep">>, w)
      /\ UNCHANGED <<appVars, call, request, loop, cur, sends, sweeper>>
  BY DEF SweepTimesOut
<1>2. w \in Works /\ <<j, "sweep">> \in Actors
  BY DoingWork, IdleWork DEF MultiSendInv, Actors
<1>. QED
  BY <1>1, <1>2, Progress DEF States, Final, Running

LEMMA FeedNothingKeeps ==
  ASSUME MultiSendInv, NEW x \in Actors, FeedNothing(x)
  PROVE  MultiSendInv'
  BY HandsOver, IdleWork DEF FeedNothing, jobVars

LEMMA FeedChecksKeeps ==
  ASSUME MultiSendInv, NEW x \in Actors, FeedChecks(x)
  PROVE  MultiSendInv'
<1>1. work[x].at = "check"
  BY DEF FeedChecks
<1>a. PICK j \in Jobs : \E t \in DOMAIN Targets(j) : work[x] = Doing("check", j, t)
  BY <1>1, Holding DEF MultiSendInv
<1>2. PICK t \in DOMAIN Targets(j) : work[x] = Doing("check", j, t)
  BY <1>a
<1>3. PICK w \in Works :
        /\ w = IF state[j][t] \in Final /\ Sequential(j) THEN Doing("advance", j, t) ELSE Idle
        /\ Becomes(x, w)
  BY <1>2, DoingWork, IdleWork DEF FeedChecks, Doing, MultiSendInv
<1>. QED
  BY <1>3, HandsOver DEF FeedChecks, jobVars

LEMMA PumpReadsKeeps ==
  ASSUME MultiSendInv, NEW term \in Terminals, PumpReads(term)
  PROVE  MultiSendInv'
<1>1. msJob \in Jobs /\ <<term, "pump">> \in Actors
  BY DEF PumpReads, MultiSendInv, MultiSendType, Actors
<1>2. PICK t \in DOMAIN Targets(msJob) : Becomes(<<term, "pump">>, Doing("feed", msJob, t))
  BY DEF PumpReads
<1>3. Doing("feed", msJob, t) \in Works
  BY <1>1, DoingWork DEF MultiSendInv
<1>. QED
  BY <1>1, <1>2, <1>3, HandsOver DEF PumpReads, jobVars

\* A line is written: it was not before, and nobody else is about to.
LEMMA SendReturnsKeeps ==
  ASSUME MultiSendInv, NEW x \in Actors, SendReturns(x)
  PROVE  MultiSendInv'
<1>. USE DEF MultiSendInv
<1>1. work[x].at = "send"
  BY DEF SendReturns
<1>2. PICK j \in Jobs : \E t \in DOMAIN Targets(j) : work[x] = Doing("send", j, t)
  BY <1>1, Holding
<1>3. PICK t \in DOMAIN Targets(j) : work[x] = Doing("send", j, t)
  BY <1>2
<1>4. /\ sends' = [sends EXCEPT ![j][t] = @ + 1]
      /\ Becomes(x, Idle)
      /\ UNCHANGED <<appVars, call, request, loop, cur, state, sweeper>>
  BY <1>3 DEF SendReturns, Doing
<1>5. /\ work' \in [Actors -> Works]
      /\ \A y \in Actors : work'[y] = IF y = x THEN Idle ELSE work[y]
  BY <1>4, IdleWork, BecomesAt
<1>6. /\ DOMAIN sends' = Jobs
      /\ \A k \in Jobs : sends'[k] \in [DOMAIN Targets(k) -> Nat]
      /\ \A k \in Jobs : \A i \in DOMAIN Targets(k) :
           sends'[k][i] = IF k = j /\ i = t THEN sends[k][i] + 1 ELSE sends[k][i]
  BY <1>4, SentAt
<1>7. MultiSendType'
  <2>1. WorksOK'
    BY <1>4, <1>5, WorkKept
  <2>2. TablesOK'
    BY <1>4, <1>6, SameRequest DEF MultiSendType, TablesOK
  <2>3. RestOK'
    BY <1>4 DEF MultiSendType, RestOK, appVars
  <2>. QED
    BY <2>1, <2>2, <2>3, TypeParts, PTL
<1>8. Shape'
  BY <1>4, <1>5, <1>6, SameRequest DEF Shape
<1>9. LoopInv'
  BY <1>4, SameRequest DEF LoopInv
<1>10. OrderInv'
  BY <1>4, SameRequest DEF OrderInv
<1>11. state[j][t] # "pending" /\ sends[j][t] = 0
  BY <1>3 DEF WorkInv, Doing
<1>12. WorkInv'
  <2>1. ASSUME NEW y \in Actors, NEW k \in Jobs, NEW i \in DOMAIN Targets(k), Ready(y, k, i)
        PROVE  Ready(y, k, i)'
    BY <1>4, <2>1, SameRequest DEF Ready
  <2>2. ASSUME NEW y \in Actors, y # x, work[y].at = "send"
        PROVE  sends'[work[y].job][work[y].t] = 0
    BY <1>3, <1>6, <2>2, InHand DEF WorkInv, OneSender, Doing
  <2>. QED
    BY <1>4, <1>5, <2>1, <2>2, InHand, SameRequest DEF WorkInv, Idle
<1>13. OneSender'
  BY <1>5 DEF OneSender, Idle
<1>14. SendsInv'
  BY <1>4, <1>6, <1>11, SameRequest DEF SendsInv, MultiSendType
<1>15. SweepInv' /\ RunningJobHeard'
  BY <1>4, FinalStays
<1>. QED
  BY <1>7, <1>8, <1>9, <1>10, <1>12, <1>13, <1>14, <1>15

\* The current target is final, so nobody is at its begin, and the next one is pending:
\* whoever hands over first, the others find another target current.
LEMMA AdvanceKeeps ==
  ASSUME MultiSendInv, NEW x \in Actors, Advance(x)
  PROVE  MultiSendInv'
<1>. USE DEF MultiSendInv
<1>1. work[x].at = "advance"
  BY DEF Advance
<1>2. PICK j \in Jobs : \E t \in DOMAIN Targets(j) : work[x] = Doing("advance", j, t)
  BY <1>1, Holding
<1>3. PICK t \in DOMAIN Targets(j) : work[x] = Doing("advance", j, t)
  BY <1>2
<1>4. CASE cur[j] # t
  <2>1. /\ Becomes(x, Idle)
        /\ UNCHANGED <<appVars, call, request, loop, cur, state, sends, sweeper>>
    BY <1>3, <1>4 DEF Advance, Current, Doing
  <2>. QED
    BY <2>1, HandsOver, IdleWork
<1>5. CASE cur[j] = t
  <2>1. PICK n \in Nat : n = t + 1
    BY Requested
  <2>2. PICK w : w = IF n <= Len(Targets(j)) THEN Doing("begin", j, n) ELSE Idle
    OBVIOUS
  <2>3. /\ cur' = [cur EXCEPT ![j] = n]
        /\ Becomes(x, w)
        /\ UNCHANGED <<appVars, call, request, loop, state, sends, sweeper>>
    BY <1>3, <1>5, <2>1, <2>2 DEF Advance, Current, NextTarget, Doing
  <2>4. n <= Len(Targets(j)) => n \in DOMAIN Targets(j)
    BY <2>1, Requested
  <2>5. w \in Works
    BY <2>2, <2>4, DoingWork, IdleWork
  <2>6. /\ work' \in [Actors -> Works]
        /\ \A y \in Actors : work'[y] = IF y = x THEN w ELSE work[y]
    BY <2>3, <2>5, BecomesAt
  <2>7. state[j][t] \in Final /\ Sequential(j)
    BY <1>3 DEF WorkInv, Doing
  <2>8. /\ cur' \in [Jobs -> Nat]
        /\ \A k \in Jobs : cur'[k] = IF k = j THEN n ELSE cur[k]
    BY <2>3 DEF Shape
  <2>9. loop[j] \in Nat /\ loop[j] > 1
    BY <2>7 DEF LoopInv, MultiSendType, Final
  <2>10. \A i \in DOMAIN Targets(j) : /\ i < n => state[j][i] \in Final
                                      /\ i >= n => state[j][i] = "pending"
    BY <1>5, <2>1, <2>7, Requested DEF OrderInv
  <2>11. \A y \in Actors : work[y].at = "begin" => work[y].job # j
    BY <1>5, <2>7 DEF WorkInv, Ready, Final
  <2>12. MultiSendType'
    <3>1. WorksOK'
      BY <2>2, <2>3, <2>4, <2>6, WorkKept
    <3>2. n \in 1 .. Len(Targets(j)) + 1
      BY <2>1, Requested
    <3>3. TablesOK'
      BY <2>3, <2>8, <3>2, SameRequest DEF MultiSendType, TablesOK
    <3>4. RestOK'
      BY <2>3 DEF MultiSendType, RestOK, appVars
    <3>. QED
      BY <3>1, <3>3, <3>4, TypeParts, PTL
  <2>13. Shape'
    BY <2>3, <2>6, <2>8, SameRequest DEF Shape
  <2>14. LoopInv'
    BY <2>3, <2>8, <2>9, SameRequest DEF LoopInv
  <2>15. OrderInv'
    <3>. SUFFICES ASSUME NEW k \in Jobs, Sequential(k), NEW i \in DOMAIN Targets(k)
                  PROVE  /\ i < cur'[k] => state'[k][i] \in Final
                         /\ i > cur'[k] => state'[k][i] = "pending"
      BY SameRequest, <2>3 DEF OrderInv
    <3>2. CASE k = j
      <4>1. cur'[k] = n /\ state' = state /\ i \in DOMAIN Targets(j) /\ i \in Nat
        BY <2>3, <2>8, <3>2, Requested
      <4>. QED
        BY <2>10, <3>2, <4>1
    <3>3. CASE k # j
      BY <2>3, <2>8, <3>3 DEF OrderInv
    <3>. QED
      BY <3>2, <3>3
  <2>16. WorkInv'
    <3>1. ASSUME NEW y \in Actors, NEW k \in Jobs \ {j}, NEW i \in DOMAIN Targets(k),
                 Ready(y, k, i)
          PROVE  Ready(y, k, i)'
      BY <2>3, <2>8, <3>1, SameRequest DEF Ready
    <3>2. n <= Len(Targets(j)) => Ready(x, j, n)'
      BY <2>3, <2>4, <2>7, <2>8, <2>9, <2>10, SameRequest DEF Ready
    <3>3. ASSUME NEW y \in Actors, y # x
          PROVE  LET k == work[y].job  i == work[y].t IN
                 /\ work[y].at = "begin" => Ready(y, k, i)
                 /\ work[y].at = "send" => state[k][i] # "pending" /\ sends[k][i] = 0
                 /\ work[y].at = "advance" => state[k][i] \in Final /\ Sequential(k)
      BY DEF WorkInv
    <3>. QED
      BY <2>2, <2>3, <2>6, <2>11, <3>1, <3>2, <3>3, InHand, SameRequest DEF WorkInv, Doing, Idle
  <2>17. OneSender'
    <3>1. \A y \in Actors : work[y].at = "send" /\ work[y].job = j => state[j][work[y].t] # "pending"
      BY DEF WorkInv
    <3>2. n <= Len(Targets(j)) =>
            \A y \in Actors : work[y].at \in {"begin", "send"} /\ work[y].job = j => work[y].t # n
      BY <2>4, <2>10, <2>11, <3>1
    <3>. QED
      BY <2>2, <2>6, <3>2 DEF OneSender, Doing, Idle
  <2>18. SendsInv'
    BY <2>3, SameRequest DEF SendsInv
  <2>19. SweepInv' /\ RunningJobHeard'
    BY <2>3, FinalStays
  <2>. QED
    BY <2>12, <2>13, <2>14, <2>15, <2>16, <2>17, <2>18, <2>19
<1>. QED
  BY <1>4, <1>5

-----------------------------------------------------------------------------
(* The theorems *)

LEMMA InitKeeps == MultiSendInit => MultiSendInv
<1>. SUFFICES ASSUME MultiSendInit PROVE MultiSendInv
  OBVIOUS
<1>1. \A j \in Jobs : /\ Targets(j) \in Seq(Terminals)
                      /\ Len(Targets(j)) \in Nat
                      /\ DOMAIN Targets(j) = 1 .. Len(Targets(j))
  <2>1. \A j \in Jobs : Targets(j) \in Seq(Terminals)
    BY RequestsAssumption DEF MultiSendInit, Targets
  <2>2. ASSUME NEW s \in Seq(Terminals) PROVE Len(s) \in Nat /\ DOMAIN s = 1 .. Len(s)
    OBVIOUS
  <2>. QED
    BY <2>1, <2>2
<1>2. /\ cur = [j \in Jobs |-> 1]
      /\ state = [j \in Jobs |-> [t \in DOMAIN Targets(j) |-> "pending"]]
      /\ sends = [j \in Jobs |-> [t \in DOMAIN Targets(j) |-> 0]]
      /\ work = [x \in Actors |-> Idle]
      /\ loop = [j \in Jobs |-> 1]
      /\ sweeper = [j \in Jobs |-> "off"]
      /\ call = [j \in Jobs |-> "none"]
  BY DEF MultiSendInit
<1>3. MultiSendType
  <2>1. WorksOK
    BY <1>2 DEF WorksOK
  <2>2. TablesOK
    <3>1. "pending" \in States /\ 0 \in Nat
      BY DEF States
    <3>2. \A j \in Jobs : cur[j] \in 1 .. Len(Targets(j)) + 1
      <4>. SUFFICES ASSUME NEW j \in Jobs PROVE 1 \in 1 .. Len(Targets(j)) + 1
        BY <1>2
      <4>1. Len(Targets(j)) \in Nat
        BY <1>1
      <4>. QED
        BY <4>1
    <3>3. \A j \in Jobs : /\ state[j] \in [DOMAIN Targets(j) -> States]
                          /\ sends[j] \in [DOMAIN Targets(j) -> Nat]
      BY <1>2, <3>1
    <3>. QED
      BY <3>2, <3>3 DEF TablesOK
  <2>3. RestOK
    BY DEF MultiSendInit, RestOK
  <2>. QED
    BY <2>1, <2>2, <2>3, TypeParts
<1>4. Shape
  BY <1>2, IdleWork DEF Shape
<1>5. LoopInv
  <2>1. \A j \in Jobs : loop[j] = 1 /\ cur[j] = 1 /\ call[j] = "none"
    BY <1>2
  <2>2. \A j \in Jobs : \A t \in DOMAIN Targets(j) : state[j][t] = "pending"
    BY <1>2
  <2>3. ASSUME NEW j \in Jobs PROVE loop[j] >= 1
    <3>1. loop[j] = 1
      BY <2>1
    <3>. QED
      BY <3>1
  <2>4. \A j \in Jobs : call[j] \notin {"checked", "looping", "returned"}
    BY <2>1
  <2>. QED
    BY <2>1, <2>2, <2>3, <2>4, Zenon DEF LoopInv
<1>6. OrderInv
  BY <1>1, <1>2 DEF OrderInv
<1>7. WorkInv /\ OneSender
  BY <1>2 DEF WorkInv, OneSender, Idle
<1>8. SendsInv
  BY <1>2 DEF SendsInv
<1>9. SweepInv /\ RunningJobHeard
  BY <1>2 DEF SweepInv, RunningJobHeard
<1>. QED
  BY <1>3, <1>4, <1>5, <1>6, <1>7, <1>8, <1>9 DEF MultiSendInv

LEMMA NextKeeps == MultiSendInv /\ [MultiSendNext]_multiSendVars => MultiSendInv'
<1>. SUFFICES ASSUME MultiSendInv, [MultiSendNext]_multiSendVars PROVE MultiSendInv'
  OBVIOUS
<1>1. ASSUME NEW j \in Jobs, StartChecks(j) \/ StartRefuses(j) \/ StartRegisters(j) PROVE MultiSendInv'
  BY <1>1, StartChecksKeeps, StartRefusesKeeps, StartRegistersKeeps
<1>2. ASSUME NEW j \in Jobs, Starting(j) PROVE MultiSendInv'
  BY <1>2, StartNextKeeps, StartReturnsKeeps DEF Starting
<1>3. ASSUME NEW x \in Actors, Working(x) PROVE MultiSendInv'
  BY <1>3, BeginKeeps, SendReturnsKeeps, SendFailsKeeps, AdvanceKeeps, FeedMatchesKeeps,
     FeedNothingKeeps, FeedChecksKeeps DEF Working
<1>4. ASSUME NEW term \in Terminals, PumpReads(term) PROVE MultiSendInv'
  BY <1>4, PumpReadsKeeps
<1>5. ASSUME NEW j \in Jobs, Sweeping(j) PROVE MultiSendInv'
  BY <1>5, SweepTimesOutKeeps DEF Sweeping
<1>6. ASSUME NEW j \in Jobs, SweeperSeesDone(j) \/ SweeperClears(j) \/ SweeperStops(j)
      PROVE  MultiSendInv'
  BY <1>6, SweeperSeesDoneKeeps, SweeperClearsKeeps, SweeperStopsKeeps
<1>7. CASE MultiSendCancel
  BY <1>7, CancelKeeps
<1>8. CASE UNCHANGED multiSendVars
  <2>1. UNCHANGED <<jobVars, appVars, call, loop, work, sweeper>>
    BY <1>8 DEF multiSendVars, jobVars, appVars
  <2>2. MultiSendType'
    BY <2>1, SameRequest DEF MultiSendInv, MultiSendType, jobVars, appVars
  <2>3. SweepInv' /\ RunningJobHeard'
    BY <2>1, SameRequest DEF MultiSendInv, SweepInv, RunningJobHeard, AllFinal, jobVars, appVars
  <2>. QED
    BY <2>1, <2>2, <2>3, Quiet DEF MultiSendInv, LoopInv
<1>. QED
  BY <1>1, <1>2, <1>3, <1>4, <1>5, <1>6, <1>7, <1>8 DEF MultiSendNext

LEMMA Invariant == MultiSendSpec => []MultiSendInv
  BY InitKeeps, NextKeeps, PTL DEF MultiSendSpec

\* Every state of a broadcast, and of the goroutines that carry it on, is of its type.
THEOREM MultiSendTypeCorrect == MultiSendSpec => []MultiSendType
<1>1. MultiSendInv => MultiSendType
  BY DEF MultiSendInv
<1>. QED
  BY <1>1, Invariant, PTL

\* Targets of a sequential job are started in turn, each line is written at most once, and
\* a running job is the one output is fed to, for any jobs, requests and terminals, whoever
\* of the call, the pumps and the sweepers hands over (multisend.go:261-280).
THEOREM StartedInTurn == MultiSendSpec => []InTurn
<1>1. MultiSendInv => SeqInOrder
  <2>. SUFFICES ASSUME MultiSendInv, NEW j \in Jobs, NEW i \in DOMAIN Targets(j),
                       NEW k \in DOMAIN Targets(j),
                       Sequential(j), i < k, state[j][k] # "pending"
                PROVE  state[j][i] \in Final
    BY DEF SeqInOrder
  <2>1. cur[j] \in Nat /\ i \in Nat /\ k \in Nat
    BY Requested DEF MultiSendInv, Shape
  <2>2. ~(k > cur[j])
    BY DEF MultiSendInv, OrderInv
  <2>. QED
    BY <2>1, <2>2 DEF MultiSendInv, OrderInv
<1>2. MultiSendInv => NoLineTwice
  BY DEF MultiSendInv, SendsInv, NoLineTwice
<1>3. MultiSendInv => InTurn
  BY <1>1, <1>2 DEF MultiSendInv, InTurn
<1>. QED
  BY <1>3, Invariant, PTL

=============================================================================
