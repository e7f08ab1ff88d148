------------------------------- MODULE ConnMgr -------------------------------
(***************************************************************************)
(* The connection manager, src/internal/connmgr/connmgr.go: one map entry  *)
(* per session, one goroutine per dial, one watcher per opened client, and *)
(* a semaphore that bounds the dials in flight.                            *)
(*                                                                         *)
(* A dial is identified by the batch that started it and its position in  *)
(* the batch's target list; the client it opens carries the same name.     *)
(* Everything between m.mu.Lock and m.mu.Unlock is one step; Close of a    *)
(* client, which the code calls after unlocking, is a step of its own.     *)
(***************************************************************************)
EXTENDS Naturals, Sequences, FiniteSets

CONSTANTS
  Sessions,     \* session ids
  Batches,      \* ConnectBatch calls (bounds the number of calls)
  TargetLists,  \* batch -> the target lists its caller may pass
  MaxTargets,   \* the longest of them
  Cap,          \* capacity of the semaphore
  None          \* Go's nil: no dial, no client

ASSUME CapAssumption == Cap \in Nat \ {0}
ASSUME TargetsAssumption ==
  /\ MaxTargets \in Nat
  /\ TargetLists \in [Batches -> SUBSET Seq(Sessions)]
  /\ \A b \in Batches : \A ts \in TargetLists[b] : Len(ts) \in 1 .. MaxTargets

Dials == Batches \X (1 .. MaxTargets)

ASSUME NoneAssumption == None \notin Dials /\ None \notin Sessions
ASSUME FiniteAssumption == IsFiniteSet(Dials)

VARIABLES
  \* the map m.conns
  state,      \* session -> state of its entry, "absent" when it has none
  cli,        \* session -> e.client
  owner,      \* session -> the dial its entry was installed for (auxiliary)
  \* the dial goroutines and what they opened
  phase,      \* dial -> where its goroutine is
  sess,       \* dial -> its target's session
  client,     \* dial -> the client it opened
  sem,        \* tokens taken from m.sem
  toClose,    \* clients whose Close has been called and has not returned
  watch,      \* client -> its watch goroutine
  \* the callers
  targets,    \* batch -> its target list, << >> before the call
  next,       \* batch -> position of the next target of the loop
  done,       \* batch -> its done channel is closed
  cancelled,  \* batch -> its context is cancelled
  \* auxiliary: what the code does not record
  orphaned,   \* dials whose entry was removed before they settled
  misfiled    \* dials that settled into an entry installed for another dial

entryVars == <<state, cli, owner>>
batchVars == <<targets, next, done, cancelled>>
auxVars == <<orphaned, misfiled>>
vars == <<state, cli, owner, phase, sess, client, sem, toClose, watch,
          targets, next, done, cancelled, orphaned, misfiled>>

States == {"absent", "dialing", "connected", "error"}
Phases == {"unused", "waiting", "dialing", "failed", "opened",
           "settled", "vanished", "finished"}
ClientStates == {"none", "open", "dead", "closed"}
WatchStates == {"off", "waiting", "returned"}

\* A goroutine that has not yet recorded its result.
Unsettled == { d \in Dials : phase[d] \in {"waiting", "dialing", "failed", "opened"} }
\* A goroutine between its receive of a token and the deferred release.
Holding == { d \in Dials :
               phase[d] \in {"dialing", "failed", "opened", "settled", "vanished"} }

\* The dial that loses its entry when the entry of s is removed.
Orphans(s) == {owner[s]} \cap Unsettled

\* settle finds its entry by session id alone, so it may be another dial's.
Misfiled(d) == IF state[sess[d]] # "absent" /\ owner[sess[d]] # d THEN {d} ELSE {}

TypeOK ==
  /\ state \in [Sessions -> States]
  /\ cli \in [Sessions -> Dials \cup {None}]
  /\ owner \in [Sessions -> Dials \cup {None}]
  /\ phase \in [Dials -> Phases]
  /\ sess \in [Dials -> Sessions \cup {None}]
  /\ client \in [Dials -> ClientStates]
  /\ sem \in Nat
  /\ toClose \subseteq Dials
  /\ watch \in [Dials -> WatchStates]
  /\ targets \in [Batches -> Seq(Sessions)]
  /\ \A b \in Batches : Len(targets[b]) <= MaxTargets
  /\ next \in [Batches -> Nat \ {0}]
  /\ done \in [Batches -> BOOLEAN]
  /\ cancelled \in [Batches -> BOOLEAN]
  /\ orphaned \subseteq Dials
  /\ misfiled \subseteq Dials

Init ==
  /\ state = [s \in Sessions |-> "absent"]
  /\ cli = [s \in Sessions |-> None]
  /\ owner = [s \in Sessions |-> None]
  /\ phase = [d \in Dials |-> "unused"]
  /\ sess = [d \in Dials |-> None]
  /\ client = [d \in Dials |-> "none"]
  /\ sem = 0
  /\ toClose = {}
  /\ watch = [d \in Dials |-> "off"]
  /\ targets = [b \in Batches |-> <<>>]
  /\ next = [b \in Batches |-> 1]
  /\ done = [b \in Batches |-> FALSE]
  /\ cancelled = [b \in Batches |-> FALSE]
  /\ orphaned = {}
  /\ misfiled = {}

-----------------------------------------------------------------------------
(* Steps several operations share *)

\* Mutant: nobody closes the client of a removed entry.
CloseNothing(C) == toClose' = toClose

\* Close is called, after the unlock, on those of C that are clients.
CloseClients(C) == toClose' = toClose \cup (C \ {None})

\* Mutant: the row stays, marked as failed, with the client it holds.
MarkRow(s) ==
  /\ state' = [state EXCEPT ![s] = "error"]
  /\ UNCHANGED <<cli, owner, orphaned>>

\* delete(m.conns, id)
RemoveRow(s) ==
  /\ state' = [state EXCEPT ![s] = "absent"]
  /\ cli' = [cli EXCEPT ![s] = None]
  /\ owner' = [owner EXCEPT ![s] = None]
  /\ orphaned' = orphaned \cup Orphans(s)

\* Mutant: the token stays taken.
KeepToken == sem' = sem

\* <-m.sem
ReleaseToken == sem' = sem - 1

\* Mutant: no watcher is started.
StartNoWatch(d) == watch' = watch

\* go m.watch(id, client), when the dial opened one
StartWatch(d) ==
  watch' = IF client[d] = "none" THEN watch ELSE [watch EXCEPT ![d] = "waiting"]

-----------------------------------------------------------------------------
(* ConnectBatch *)

\* A caller passes a target list.
ConnectBatch(b, ts) ==
  /\ targets[b] = <<>>
  /\ targets' = [targets EXCEPT ![b] = ts]
  /\ UNCHANGED <<entryVars, phase, sess, client, sem, toClose, watch,
                 next, done, cancelled, auxVars>>

InLoop(b) == next[b] <= Len(targets[b])

\* Mutant: a target that is still dialing is dialed again.
BusyConnectedOnly(s) == state[s] = "connected"

Busy(s) == state[s] \in {"dialing", "connected"}

\* One turn of the loop: the target is already dialing or connected.
SkipTarget(b) ==
  /\ InLoop(b)
  /\ Busy(targets[b][next[b]])
  /\ next' = [next EXCEPT ![b] = @ + 1]
  /\ UNCHANGED <<entryVars, phase, sess, client, sem, toClose, watch,
                 targets, done, cancelled, auxVars>>

\* One turn of the loop: a fresh entry replaces whatever the map holds, the
\* client of a replaced entry is closed, and the dial goroutine starts.
StartDial(b) ==
  /\ InLoop(b)
  /\ LET s == targets[b][next[b]]
         d == <<b, next[b]>>
     IN /\ ~Busy(s)
        /\ state' = [state EXCEPT ![s] = "dialing"]
        /\ cli' = [cli EXCEPT ![s] = None]
        /\ owner' = [owner EXCEPT ![s] = d]
        /\ CloseClients({cli[s]})
        /\ phase' = [phase EXCEPT ![d] = "waiting"]
        /\ sess' = [sess EXCEPT ![d] = s]
  /\ next' = [next EXCEPT ![b] = @ + 1]
  /\ UNCHANGED <<client, sem, watch, targets, done, cancelled, auxVars>>

\* The waiter: every goroutine of the batch is done.
CloseDone(b) ==
  /\ targets[b] # <<>>
  /\ ~InLoop(b)
  /\ ~done[b]
  /\ \A i \in 1 .. MaxTargets : phase[<<b, i>>] \in {"unused", "finished"}
  /\ done' = [done EXCEPT ![b] = TRUE]
  /\ UNCHANGED <<entryVars, phase, sess, client, sem, toClose, watch,
                 targets, next, cancelled, auxVars>>

\* The caller gives up on the batch's context.
CancelContext(b) ==
  /\ targets[b] # <<>>
  /\ ~done[b]
  /\ ~cancelled[b]
  /\ cancelled' = [cancelled EXCEPT ![b] = TRUE]
  /\ UNCHANGED <<entryVars, phase, sess, client, sem, toClose, watch,
                 targets, next, done, auxVars>>

-----------------------------------------------------------------------------
(* The dial goroutine *)

Acquire(d) ==
  /\ phase[d] = "waiting"
  /\ sem < Cap
  /\ sem' = sem + 1
  /\ phase' = [phase EXCEPT ![d] = "dialing"]
  /\ UNCHANGED <<entryVars, sess, client, toClose, watch, batchVars, auxVars>>

DialFails(d) ==
  /\ phase[d] = "dialing"
  /\ phase' = [phase EXCEPT ![d] = "failed"]
  /\ UNCHANGED <<entryVars, sess, client, sem, toClose, watch, batchVars, auxVars>>

DialOpens(d) ==
  /\ phase[d] = "dialing"
  /\ phase' = [phase EXCEPT ![d] = "opened"]
  /\ client' = [client EXCEPT ![d] = "open"]
  /\ UNCHANGED <<entryVars, sess, sem, toClose, watch, batchVars, auxVars>>

\* settle's error branch, on whatever entry the session has now.
RecordError(d) ==
  /\ state' = IF state[sess[d]] = "absent" THEN state
              ELSE [state EXCEPT ![sess[d]] = "error"]
  /\ misfiled' = misfiled \cup Misfiled(d)
  /\ UNCHANGED <<cli, owner, orphaned>>

\* Mutant: the deferred release is registered before the token is taken.
GiveUpReleases(d) ==
  /\ phase[d] = "waiting"
  /\ cancelled[d[1]]
  /\ RecordError(d)
  /\ ReleaseToken
  /\ phase' = [phase EXCEPT ![d] = "finished"]
  /\ UNCHANGED <<sess, client, toClose, watch, batchVars>>

\* The context ends before a token is free: settle(id, nil, ctx.Err()).
GiveUp(d) ==
  /\ phase[d] = "waiting"
  /\ cancelled[d[1]]
  /\ RecordError(d)
  /\ phase' = [phase EXCEPT ![d] = "finished"]
  /\ UNCHANGED <<sess, client, sem, toClose, watch, batchVars>>

SettleError(d) ==
  /\ phase[d] = "failed"
  /\ RecordError(d)
  /\ phase' = [phase EXCEPT ![d] = "settled"]
  /\ UNCHANGED <<sess, client, sem, toClose, watch, batchVars>>

SettleClient(d) ==
  /\ phase[d] = "opened"
  /\ state[sess[d]] # "absent"
  /\ state' = [state EXCEPT ![sess[d]] = "connected"]
  /\ cli' = [cli EXCEPT ![sess[d]] = d]
  /\ phase' = [phase EXCEPT ![d] = "settled"]
  /\ misfiled' = misfiled \cup Misfiled(d)
  /\ UNCHANGED <<owner, sess, client, sem, toClose, watch, batchVars, orphaned>>

\* The entry vanished while the dial was in flight: settle closes the client
\* itself and only then returns.
SettleVanished(d) ==
  /\ phase[d] = "opened"
  /\ state[sess[d]] = "absent"
  /\ toClose' = toClose \cup {d}
  /\ phase' = [phase EXCEPT ![d] = "vanished"]
  /\ UNCHANGED <<entryVars, sess, client, sem, watch, batchVars, auxVars>>

\* settle returns: the watcher starts, the deferred calls release the token
\* and count the goroutine off.
Finish(d) ==
  /\ \/ /\ phase[d] = "settled"
        /\ StartWatch(d)
     \/ /\ phase[d] = "vanished"
        /\ client[d] = "closed"
        /\ watch' = watch
  /\ ReleaseToken
  /\ phase' = [phase EXCEPT ![d] = "finished"]
  /\ UNCHANGED <<entryVars, sess, client, toClose, batchVars, auxVars>>

-----------------------------------------------------------------------------
(* Clients and their watchers *)

\* The server goes away, or the keepalive declares the link dead.
LinkDies(d) ==
  /\ client[d] = "open"
  /\ client' = [client EXCEPT ![d] = "dead"]
  /\ UNCHANGED <<entryVars, phase, sess, sem, toClose, watch, batchVars, auxVars>>

\* A Close call returns.
Closed(d) ==
  /\ d \in toClose
  /\ toClose' = toClose \ {d}
  /\ client' = [client EXCEPT ![d] = "closed"]
  /\ UNCHANGED <<entryVars, phase, sess, sem, watch, batchVars, auxVars>>

\* client.Wait has returned; the watcher's entry is gone or holds another client.
WatchIgnores(d) ==
  /\ watch[d] = "waiting"
  /\ client[d] \in {"dead", "closed"}
  /\ cli[sess[d]] # d
  /\ watch' = [watch EXCEPT ![d] = "returned"]
  /\ UNCHANGED <<entryVars, phase, sess, client, sem, toClose, batchVars, auxVars>>

\* client.Wait has returned; the watcher removes the entry and closes the client.
WatchRemoves(d) ==
  /\ watch[d] = "waiting"
  /\ client[d] \in {"dead", "closed"}
  /\ cli[sess[d]] = d
  /\ RemoveRow(sess[d])
  /\ CloseClients({d})
  /\ watch' = [watch EXCEPT ![d] = "returned"]
  /\ UNCHANGED <<phase, sess, client, sem, batchVars, misfiled>>

-----------------------------------------------------------------------------
(* Disconnect and DisconnectAll *)

Disconnect(s) ==
  /\ state[s] # "absent"
  /\ RemoveRow(s)
  /\ CloseClients({cli[s]})
  /\ UNCHANGED <<phase, sess, client, sem, watch, batchVars, misfiled>>

DisconnectAll ==
  /\ state' = [s \in Sessions |-> "absent"]
  /\ cli' = [s \in Sessions |-> None]
  /\ owner' = [s \in Sessions |-> None]
  /\ orphaned' = orphaned \cup UNION { Orphans(s) : s \in Sessions }
  /\ CloseClients({ cli[s] : s \in Sessions })
  /\ UNCHANGED <<phase, sess, client, sem, watch, batchVars, misfiled>>

-----------------------------------------------------------------------------
BatchStep(b) == SkipTarget(b) \/ StartDial(b)
DialReturns(d) == DialFails(d) \/ DialOpens(d)
Settle(d) == SettleError(d) \/ SettleClient(d) \/ SettleVanished(d)
Watch(d) == WatchIgnores(d) \/ WatchRemoves(d)

Next ==
  \/ \E b \in Batches :
       \/ \E ts \in TargetLists[b] : ConnectBatch(b, ts)
       \/ SkipTarget(b)
       \/ StartDial(b)
       \/ CloseDone(b)
       \/ CancelContext(b)
  \/ \E d \in Dials :
       \/ Acquire(d)
       \/ GiveUp(d)
       \/ DialFails(d)
       \/ DialOpens(d)
       \/ SettleError(d)
       \/ SettleClient(d)
       \/ SettleVanished(d)
       \/ Finish(d)
       \/ LinkDies(d)
       \/ Closed(d)
       \/ WatchIgnores(d)
       \/ WatchRemoves(d)
  \/ \E s \in Sessions : Disconnect(s)
  \/ DisconnectAll

\* The goroutines run; a dial returns (the transport has its timeouts, and a
\* prompt is answered) and a Close returns. Callers, users and servers do
\* nothing they need not do.
Fairness ==
  /\ \A b \in Batches : WF_vars(BatchStep(b)) /\ WF_vars(CloseDone(b))
  /\ \A d \in Dials :
       /\ WF_vars(Acquire(d) \/ GiveUp(d))
       /\ WF_vars(DialReturns(d))
       /\ WF_vars(Settle(d))
       /\ WF_vars(Finish(d))
       /\ WF_vars(Closed(d))
       /\ WF_vars(Watch(d))

Spec == Init /\ [][Next]_vars /\ Fairness

-----------------------------------------------------------------------------
(* Correctness *)

\* A client nobody will ever close: its dial has settled, no entry holds it
\* and no Close of it is under way. Its transport and its SOCKS listener stay.
Leaked(d) ==
  /\ client[d] \in {"open", "dead"}
  /\ d \notin Unsettled
  /\ d \notin toClose
  /\ cli[sess[d]] # d

\* A session none of whose dials settled into another dial's entry.
Clean(s) == \A d \in misfiled : sess[d] # s

\* At most Cap dials are in flight, whatever cancels, fails or vanishes
\* (connmgr.go:91-92).
DialCap == Cardinality(Holding) <= Cap

\* Every client a session opened is tracked or closed, through disconnects in
\* the middle of a dial, dead links and redials, until a dial settles into an
\* entry that is not its own (connmgr.go:105-106, 150-151).
NoLeakWhenClean == \A d \in Dials : Leaked(d) => ~Clean(sess[d])

\* Until then the session's row tells the truth too: it reads "connected"
\* exactly when the entry holds a client, that client came from the entry's
\* own dial, and it reads "dialing" exactly while that dial runs.
RowTruthful ==
  \A s \in Sessions :
    (Clean(s) /\ state[s] # "absent") =>
      /\ (state[s] = "connected") <=> (cli[s] # None)
      /\ cli[s] \in {None, owner[s]}
      /\ (state[s] = "dialing") <=> (owner[s] \in Unsettled)

\* A client an entry holds is never closed under it, neither by the watcher
\* of another client nor by a dial that settles late (connmgr.go:177-186).
TrackedNotClosed ==
  \A s \in Sessions :
    cli[s] # None => cli[s] \notin toClose /\ client[cli[s]] # "closed"

\* Two dials of one session run at once only if one of them lost its entry to
\* a disconnect: the loop's check and the map agree (connmgr.go:91-93).
OneDialPerSession ==
  \A d, e \in Unsettled :
    (d # e /\ sess[d] = sess[e] /\ Clean(sess[d])) => (d \in orphaned \/ e \in orphaned)

\* What the manager owes its callers about dials, and no misfiled one excuses: the cap
\* on them, one at a time per session, and no client closed under its row.
DialsSound == DialCap /\ OneDialPerSession /\ TrackedNotClosed

\* The done channel of every ConnectBatch call is closed in the end.
BatchSettles == \A b \in Batches : (targets[b] # <<>>) ~> done[b]

Tracked(d) == \E s \in Sessions : cli[s] = d

\* An entry never keeps a client whose link died: a watcher removes it.
DeadRowGoes == \A d \in Dials : (client[d] = "dead" /\ Tracked(d)) ~> ~Tracked(d)

\* Both ends come: of a batch and of a dead connection's row, although a dial may settle
\* late, be disconnected, or die before it is watched.
Settles == BatchSettles /\ DeadRowGoes

\* No client is ever leaked: what connmgr.go:105-106 and :150-151 promise.
NoLeak == \A d \in Dials : ~Leaked(d)
=============================================================================
