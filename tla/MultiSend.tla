------------------------------ MODULE MultiSend ------------------------------
(***************************************************************************)
(* A broadcast to several terminals: the job and its targets in            *)
(* internal/multisend/multisend.go, and its registration, its sweeper and  *)
(* its cancellation in internal/app/multisend.go.                          *)
(*                                                                         *)
(* Three kinds of goroutine carry a job on: the MultiSendStart call, the   *)
(* sweeper it leaves behind, and the pumps of the terminals, which feed    *)
(* the job they find registered. Whichever of them finishes a target of a  *)
(* sequential job starts the next one. Their work between two locks is one *)
(* step. What a chunk of output matches, and when a target is overdue, is  *)
(* left open.                                                              *)
(***************************************************************************)
EXTENDS Naturals, Sequences

CONSTANTS
  Jobs,       \* MultiSendStart calls
  Terminals,
  Requests,   \* the arguments they may have: job -> terminals, and sequential
  NoJob       \* nil

ASSUME RequestsAssumption ==
  Requests \subseteq [Jobs -> [targets : Seq(Terminals), seq : BOOLEAN]]
ASSUME NoJobAssumption == NoJob \notin Jobs

Actors == (Jobs \X {"start", "sweep"}) \cup (Terminals \X {"pump"})

VARIABLES
  msJob,      \* a.msJob; a.msCancel is the channel of the same job
  call,       \* job -> where its MultiSendStart is
  request,    \* job -> the arguments of its call; constant
  loop,       \* job -> the next target of Start's loop
  cur,        \* job -> j.cur, from 1
  state,      \* job -> target -> t.state
  work,       \* actor -> what it is doing, to which target
  sweeper,    \* job -> multiSendSweeper
  cancelled,  \* jobs whose channel MultiSendCancel has closed
  \* auxiliary
  sends,      \* job -> target -> lines written to its terminal
  displaced   \* jobs another MultiSendStart registered over

jobVars == <<request, cur, state, sends>>
appVars == <<msJob, cancelled, displaced>>
multiSendVars == <<msJob, call, request, loop, cur, state, work, sweeper, cancelled, sends,
          displaced>>

Targets(j) == request[j].targets
Sequential(j) == request[j].seq

States == {"pending", "sent", "echoed", "ok", "error", "timeout"}
Final == {"ok", "error", "timeout"}
Running == {"sent", "echoed"}

Idle == [at |-> "idle", job |-> NoJob, t |-> 0]
Doing(at, j, t) == [at |-> at, job |-> j, t |-> t]

MultiSendType ==
  /\ msJob \in Jobs \cup {NoJob}
  /\ call \in [Jobs -> {"none", "checked", "refused", "looping", "returned"}]
  /\ request \in Requests
  /\ loop \in [Jobs -> Nat]
  /\ \A j \in Jobs : /\ cur[j] \in 1 .. Len(Targets(j)) + 1
                     /\ state[j] \in [DOMAIN Targets(j) -> States]
                     /\ sends[j] \in [DOMAIN Targets(j) -> Nat]
  /\ \A x \in Actors :
       work[x] = Idle \/
         /\ work[x].at \in {"begin", "send", "feed", "check", "advance"}
         /\ work[x].job \in Jobs
         /\ work[x].t \in DOMAIN Targets(work[x].job)
  /\ sweeper \in [Jobs -> {"off", "running", "clearing", "stopped"}]
  /\ cancelled \subseteq Jobs
  /\ displaced \subseteq Jobs

MultiSendInit ==
  /\ msJob = NoJob
  /\ call = [j \in Jobs |-> "none"]
  /\ request \in Requests
  /\ loop = [j \in Jobs |-> 1]
  /\ cur = [j \in Jobs |-> 1]
  /\ state = [j \in Jobs |-> [t \in DOMAIN Targets(j) |-> "pending"]]
  /\ work = [x \in Actors |-> Idle]
  /\ sweeper = [j \in Jobs |-> "off"]
  /\ cancelled = {}
  /\ sends = [j \in Jobs |-> [t \in DOMAIN Targets(j) |-> 0]]
  /\ displaced = {}

-----------------------------------------------------------------------------
(* MultiSendStart *)

\* There are targets and no broadcast is registered. The lock is dropped after the look.
StartChecks(j) ==
  /\ call[j] = "none"
  /\ Targets(j) # <<>>
  /\ msJob = NoJob
  /\ call' = [call EXCEPT ![j] = "checked"]
  /\ UNCHANGED <<jobVars, appVars, loop, work, sweeper>>

\* No targets; a broadcast is registered; a terminal is not open, or its line
\* does not render.
StartRefuses(j) ==
  /\ call[j] \in {"none", "checked"}
  /\ call' = [call EXCEPT ![j] = "refused"]
  /\ UNCHANGED <<jobVars, appVars, loop, work, sweeper>>

StartRegisters(j) ==
  /\ call[j] = "checked"
  /\ msJob' = j
  /\ displaced' = displaced \cup ({msJob} \ {NoJob})
  /\ call' = [call EXCEPT ![j] = "looping"]
  /\ UNCHANGED <<jobVars, cancelled, loop, work, sweeper>>

\* One turn of Start: every target at once, or the first alone.
StartNext(j) ==
  /\ call[j] = "looping"
  /\ work[<<j, "start">>] = Idle
  /\ loop[j] <= IF Sequential(j) THEN 1 ELSE Len(Targets(j))
  /\ work' = [work EXCEPT ![<<j, "start">>] = Doing("begin", j, loop[j])]
  /\ loop' = [loop EXCEPT ![j] = @ + 1]
  /\ UNCHANGED <<jobVars, appVars, call, sweeper>>

\* Start is through; the sweeper starts.
StartReturns(j) ==
  /\ call[j] = "looping"
  /\ work[<<j, "start">>] = Idle
  /\ loop[j] > IF Sequential(j) THEN 1 ELSE Len(Targets(j))
  /\ call' = [call EXCEPT ![j] = "returned"]
  /\ sweeper' = [sweeper EXCEPT ![j] = "running"]
  /\ UNCHANGED <<jobVars, appVars, loop, work>>

-----------------------------------------------------------------------------
(* startTarget and advanceSeq, run by any actor x *)

Becomes(x, w) == work' = [work EXCEPT ![x] = w]

Enters(j, t, s) == state' = [state EXCEPT ![j][t] = s]

\* begin
Begin(x) ==
  LET w == work[x] IN
    /\ w.at = "begin"
    /\ Enters(w.job, w.t, "sent")
    /\ Becomes(x, Doing("send", w.job, w.t))
    /\ UNCHANGED <<appVars, call, request, loop, cur, sends, sweeper>>

\* The line is written to the terminal.
SendReturns(x) ==
  LET w == work[x] IN
    /\ w.at = "send"
    /\ sends' = [sends EXCEPT ![w.job][w.t] = @ + 1]
    /\ Becomes(x, Idle)
    /\ UNCHANGED <<appVars, call, request, loop, cur, state, sweeper>>

\* Mutant: a target whose line cannot be sent does not hand over.
FailureStops(j, t) == Idle

\* What follows a target that is done, if the job is sequential.
AfterFailure(j, t) == IF Sequential(j) THEN Doing("advance", j, t) ELSE Idle

\* The terminal is closed or the write fails: failSend, whatever the target's
\* state has become meanwhile.
SendFails(x) ==
  LET w == work[x] IN
    /\ w.at = "send"
    /\ Enters(w.job, w.t, "error")
    /\ Becomes(x, AfterFailure(w.job, w.t))
    /\ UNCHANGED <<appVars, call, request, loop, cur, sends, sweeper>>

\* Mutant: any finished target hands over.
AnyTarget(j, t) == cur[j] <= Len(Targets(j))

Current(j, t) == cur[j] = t

\* Mutant: the finished target stays current.
SameTarget(j) == cur[j]

\* Mutant: a target is left out.
SecondNext(j) == cur[j] + 2

NextTarget(j) == cur[j] + 1

\* advanceSeq
Advance(x) ==
  LET w == work[x]
      n == NextTarget(w.job) IN
    /\ w.at = "advance"
    /\ IF Current(w.job, w.t)
       THEN /\ cur' = [cur EXCEPT ![w.job] = n]
            /\ Becomes(x, IF n <= Len(Targets(w.job)) THEN Doing("begin", w.job, n) ELSE Idle)
       ELSE /\ Becomes(x, Idle)
            /\ cur' = cur
    /\ UNCHANGED <<appVars, call, request, loop, state, sends, sweeper>>

-----------------------------------------------------------------------------
(* Output of a terminal *)

\* feedMultisend looks up the job, then feeds it without the lock.
PumpReads(term) ==
  /\ work[<<term, "pump">>] = Idle
  /\ msJob # NoJob
  /\ \E t \in DOMAIN Targets(msJob) :
       /\ Targets(msJob)[t] = term
       /\ Becomes(<<term, "pump">>, Doing("feed", msJob, t))
  /\ UNCHANGED <<jobVars, appVars, call, loop, sweeper>>

\* The chunk shows the echo, or the prompt with or without an error before it.
FeedMatches(x) ==
  LET w == work[x] IN
    /\ w.at = "feed"
    /\ state[w.job][w.t] \in Running
    /\ \E s \in {"echoed", "ok", "error"} \ {state[w.job][w.t]} : Enters(w.job, w.t, s)
    /\ Becomes(x, Doing("check", w.job, w.t))
    /\ UNCHANGED <<appVars, call, request, loop, cur, sends, sweeper>>

\* The chunk shows nothing, or the target is not running.
FeedNothing(x) ==
  /\ work[x].at = "feed"
  /\ Becomes(x, Idle)
  /\ UNCHANGED <<jobVars, appVars, call, loop, sweeper>>

\* Feed asks again whether the target is final.
FeedChecks(x) ==
  LET w == work[x] IN
    /\ w.at = "check"
    /\ Becomes(x, IF state[w.job][w.t] \in Final /\ Sequential(w.job)
                  THEN Doing("advance", w.job, w.t) ELSE Idle)
    /\ UNCHANGED <<jobVars, appVars, call, loop, sweeper>>

-----------------------------------------------------------------------------
(* The sweeper, and MultiSendCancel *)

\* Sweep finds a target overdue: markTimeout.
SweepTimesOut(j, t) ==
  /\ sweeper[j] = "running"
  /\ work[<<j, "sweep">>] = Idle
  /\ state[j][t] \in Running
  /\ Enters(j, t, "timeout")
  /\ Becomes(<<j, "sweep">>, IF Sequential(j) THEN Doing("advance", j, t) ELSE Idle)
  /\ UNCHANGED <<appVars, call, request, loop, cur, sends, sweeper>>

AllFinal(j) == \A t \in DOMAIN Targets(j) : state[j][t] \in Final

SweeperSeesDone(j) ==
  /\ sweeper[j] = "running"
  /\ work[<<j, "sweep">>] = Idle
  /\ AllFinal(j)
  /\ sweeper' = [sweeper EXCEPT ![j] = "clearing"]
  /\ UNCHANGED <<jobVars, appVars, call, loop, work>>

\* Mutant: whatever is registered is cleared.
ClearAny(j) == msJob' = NoJob

ClearOwn(j) == msJob' = IF msJob = j THEN NoJob ELSE msJob

SweeperClears(j) ==
  /\ sweeper[j] = "clearing"
  /\ ClearOwn(j)
  /\ sweeper' = [sweeper EXCEPT ![j] = "stopped"]
  /\ UNCHANGED <<jobVars, cancelled, displaced, call, loop, work>>

\* The sweeper sees its channel closed; a tick may come first.
SweeperStops(j) ==
  /\ sweeper[j] = "running"
  /\ work[<<j, "sweep">>] = Idle
  /\ j \in cancelled
  /\ sweeper' = [sweeper EXCEPT ![j] = "stopped"]
  /\ UNCHANGED <<jobVars, appVars, call, loop, work>>

MultiSendCancel ==
  /\ msJob # NoJob
  /\ cancelled' = cancelled \cup {msJob}
  /\ msJob' = NoJob
  /\ UNCHANGED <<jobVars, displaced, call, loop, work, sweeper>>

-----------------------------------------------------------------------------
Starting(j) == StartNext(j) \/ StartReturns(j)

Working(x) == \/ Begin(x) \/ SendReturns(x) \/ SendFails(x) \/ Advance(x)
              \/ FeedMatches(x) \/ FeedNothing(x) \/ FeedChecks(x)

Sweeping(j) == \E t \in DOMAIN Targets(j) : SweepTimesOut(j, t)

MultiSendNext ==
  \/ \E j \in Jobs : StartChecks(j) \/ StartRefuses(j) \/ StartRegisters(j)
  \/ \E j \in Jobs : Starting(j)
  \/ \E x \in Actors : Working(x)
  \/ \E term \in Terminals : PumpReads(term)
  \/ \E j \in Jobs : \/ Sweeping(j) \/ SweeperSeesDone(j)
                     \/ SweeperClears(j) \/ SweeperStops(j)
  \/ MultiSendCancel

\* Goroutines run, a write to a terminal returns, and every target becomes
\* overdue in the end. No terminal need ever produce output.
MultiSendFairness ==
  /\ \A j \in Jobs : WF_multiSendVars(Starting(j)) /\ WF_multiSendVars(Sweeping(j))
  /\ \A x \in Actors : WF_multiSendVars(Working(x))

MultiSendSpec == MultiSendInit /\ [][MultiSendNext]_multiSendVars /\ MultiSendFairness

-----------------------------------------------------------------------------
(* Properties *)

\* "seq runs targets one at a time (next starts after the previous finalizes)":
\* although the call, the pumps and the sweeper all hand over, and two of them
\* may do so for the same target (its prompt seen, its send failed).
SeqInOrder ==
  \A j \in Jobs : \A i, k \in DOMAIN Targets(j) :
    Sequential(j) /\ i < k /\ state[j][k] # "pending" => state[j][i] \in Final

\* A job writes its line to a terminal at most once.
NoLineTwice == \A j \in Jobs : \A t \in DOMAIN Targets(j) : sends[j][t] <= 1

\* A job with targets still to finish stays registered, so that its terminals'
\* output reaches it, whatever the sweepers of earlier jobs do at their end:
\* until it is cancelled, or a call that looked before it was there replaces it.
RunningJobHeard ==
  \A j \in Jobs :
    /\ call[j] \in {"looping", "returned"}
    /\ j \notin cancelled \cup displaced
    /\ ~AllFinal(j)
    => msJob = j

\* Targets are started in turn and once each, whoever hands over; and the outputs
\* that hand over reach the job.
InTurn == SeqInOrder /\ NoLineTwice /\ RunningJobHeard

\* A broadcast ends: every target of it is in a final state in the end, even if
\* no terminal answers, every write fails or another job replaces it; only a
\* cancelled one may stay unfinished.
JobSettles ==
  \A j \in Jobs : (call[j] = "looping") ~> (AllFinal(j) \/ j \in cancelled)

-----------------------------------------------------------------------------
(* What a comment says *)

\* "MultiSendCancel stops an in-flight broadcast; targets keep their last
\* state": no target of a cancelled job is started.
CancelStops ==
  [][\A j \in cancelled : \A t \in DOMAIN Targets(j) :
       state[j][t] = "pending" => state'[j][t] = "pending"]_multiSendVars
=============================================================================
