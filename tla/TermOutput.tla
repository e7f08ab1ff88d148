------------------------------ MODULE TermOutput ------------------------------
(***************************************************************************)
(* The output path of one terminal: the pumps of internal/sshx/session.go, *)
(* which hand what they read to the handler OpenTerminal registers, and    *)
(* that handler in internal/app/terminal.go: scrollback, flow control,     *)
(* coalescing and the events to the frontend, up to f9:termclosed.         *)
(*                                                                         *)
(* A chunk is what one Read returns, <<stream, number>>, one unit long.    *)
(* Three actors run the handler: a pump per stream, and OpenTerminal       *)
(* itself while it replays what was read before OnData. What a handler     *)
(* does between two locks of the terminal is one step.                     *)
(***************************************************************************)
EXTENDS Integers, Sequences, FiniteSets

CONSTANTS
  Streams,     \* stdout and stderr
  Opener,      \* the OpenTerminal call
  MaxChunks,   \* bound: stream -> reads that return something
  PendingCap,  \* pendingCap, in chunks
  Window,      \* flowWindow
  BatchMax     \* outChunk

ASSUME OpenerAssumption == IsFiniteSet(Streams) /\ Opener \notin Streams
ASSUME BoundsAssumption ==
  /\ MaxChunks \in [Streams -> Nat]
  /\ PendingCap \in Nat
  /\ Window \in Nat
  /\ BatchMax \in Nat \ {0}

Actors == Streams \cup {Opener}
Chunks == UNION { { <<s, i>> : i \in 1 .. MaxChunks[s] } : s \in Streams }

VARIABLES
  \* sshx.session
  registered,  \* w.handlers is not empty
  pending,     \* w.pending
  exited,      \* the session's channel is closed; its pipes keep what they hold
  \* the actors
  pc,          \* actor -> where it is
  data,        \* actor -> what it carries
  reads,       \* stream -> Reads so far
  \* terminal
  inTerms,     \* a.terms holds the terminal
  closing,     \* t.closing
  sbOpen,      \* the scrollback is open
  sb,          \* the chunks it has taken
  inflight,
  outPending,
  outBuf,
  timers,      \* flushOutput calls the timer still has to make
  waiter,      \* the goroutine that waits for the session
  closer,      \* CloseTerminal: its next step
  \* the frontend
  events,      \* what it was sent: output batches, and the closed event
  unacked,     \* chunks sent to it and not acknowledged
  \* auxiliary
  dropped,     \* chunks dropped from pending
  replayed,    \* chunks OnData took from pending
  drained,     \* what had been queued when drainOutput ran
  stalled,     \* flowStall has reset the window
  userExit,    \* the session was closed by CloseTerminal
  died         \* what f9:termclosed said

sessVars == <<registered, pending, exited, userExit>>
actorVars == <<pc, data, reads>>
flowVars == <<inflight, stalled>>
outVars == <<outPending, outBuf, timers, events>>
sbVars == <<sbOpen, sb>>
endVars == <<inTerms, closing, waiter, closer, drained, died>>
auxVars == <<dropped, replayed>>
vars == <<registered, pending, exited, userExit, pc, data, reads, inflight,
          stalled, outPending, outBuf, timers, events, unacked, sbOpen, sb,
          inTerms, closing, waiter, closer, drained, died, dropped, replayed>>

ActorPCs == {"read", "append", "credit", "queue", "end"}

TypeOK ==
  /\ registered \in BOOLEAN
  /\ pending \in Seq(Chunks)
  /\ exited \in BOOLEAN
  /\ pc \in [Actors -> ActorPCs]
  /\ data \in [Actors -> Seq(Chunks)]
  /\ reads \in [Streams -> Nat]
  /\ \A s \in Streams : reads[s] <= MaxChunks[s]
  /\ inTerms \in BOOLEAN
  /\ closing \in BOOLEAN
  /\ sbOpen \in BOOLEAN
  /\ sb \subseteq Chunks
  /\ inflight \in Nat
  /\ outPending \in BOOLEAN
  /\ outBuf \in Seq(Chunks)
  /\ timers \in Nat
  /\ waiter \in {"none", "waiting", "woken", "drained", "released", "done"}
  /\ closer \in {"none", "flag", "session", "scrollback", "done"}
  /\ events \in Seq([kind : {"data", "closed"}, batch : Seq(Chunks)])
  /\ unacked \in Nat
  /\ dropped \subseteq Chunks
  /\ replayed \subseteq Chunks
  /\ drained \subseteq Chunks
  /\ stalled \in BOOLEAN
  /\ userExit \in BOOLEAN
  /\ died \in {"unsaid", "yes", "no"}

Init ==
  /\ registered = FALSE
  /\ pending = <<>>
  /\ exited = FALSE
  /\ pc = [a \in Actors |-> "read"]
  /\ data = [a \in Actors |-> <<>>]
  /\ reads = [s \in Streams |-> 0]
  /\ inTerms = TRUE
  /\ closing = FALSE
  /\ sbOpen = TRUE
  /\ sb = {}
  /\ inflight = 0
  /\ outPending = FALSE
  /\ outBuf = <<>>
  /\ timers = 0
  /\ waiter = "none"
  /\ closer = "none"
  /\ events = <<>>
  /\ unacked = 0
  /\ dropped = {}
  /\ replayed = {}
  /\ drained = {}
  /\ stalled = FALSE
  /\ userExit = FALSE
  /\ died = "unsaid"

Elems(s) == { s[i] : i \in DOMAIN s }

-----------------------------------------------------------------------------
(* The pumps, and OnData *)

Pend(c) ==
  LET all == Append(pending, c) IN
    IF Len(all) > PendingCap
    THEN /\ pending' = Tail(all)
         /\ dropped' = dropped \cup {Head(all)}
    ELSE /\ pending' = all
         /\ dropped' = dropped

\* A Read returns a chunk; no handler is registered yet.
ReadEarly(s) ==
  /\ pc[s] = "read"
  /\ reads[s] < MaxChunks[s]
  /\ ~registered
  /\ reads' = [reads EXCEPT ![s] = @ + 1]
  /\ Pend(<<s, reads'[s]>>)
  /\ UNCHANGED <<registered, exited, userExit, pc, data, flowVars, outVars,
                 unacked, sbVars, endVars, replayed>>

\* A Read returns a chunk for the handler.
Read(s) ==
  /\ pc[s] = "read"
  /\ reads[s] < MaxChunks[s]
  /\ registered
  /\ reads' = [reads EXCEPT ![s] = @ + 1]
  /\ data' = [data EXCEPT ![s] = <<<<s, reads'[s]>>>>]
  /\ pc' = [pc EXCEPT ![s] = "append"]
  /\ UNCHANGED <<sessVars, flowVars, outVars, unacked, sbVars, endVars, auxVars>>

\* The pipe of a closed channel is empty: the pump returns.
ReadEOF(s) ==
  /\ pc[s] = "read"
  /\ exited
  /\ pc' = [pc EXCEPT ![s] = "end"]
  /\ UNCHANGED <<sessVars, data, reads, flowVars, outVars, unacked, sbVars,
                 endVars, auxVars>>

\* OpenTerminal registers its handler and takes what is pending; OnData
\* replays it after the unlock.
OnData ==
  /\ pc[Opener] = "read"
  /\ registered' = TRUE
  /\ data' = [data EXCEPT ![Opener] = pending]
  /\ pending' = <<>>
  /\ replayed' = Elems(pending)
  /\ pc' = [pc EXCEPT ![Opener] = IF pending = <<>> THEN "end" ELSE "append"]
  /\ UNCHANGED <<exited, userExit, reads, flowVars, outVars, unacked, sbVars,
                 endVars, dropped>>

-----------------------------------------------------------------------------
(* The handler *)

\* t.sb.Append, which a closed ring ignores.
KeepOutput(a) ==
  /\ pc[a] = "append"
  /\ sb' = IF sbOpen THEN sb \cup Elems(data[a]) ELSE sb
  /\ pc' = [pc EXCEPT ![a] = "credit"]
  /\ UNCHANGED <<sessVars, data, reads, flowVars, outVars, unacked, sbOpen,
                 endVars, auxVars>>

\* Mutant: the bytes are not counted.
TakeNoCredit(n) == inflight' = inflight

TakeCredit(n) == inflight' = inflight + n

\* waitCredit: room in the window, or a terminal that is closing.
Credit(a) ==
  /\ pc[a] = "credit"
  /\ inflight <= Window \/ closing
  /\ TakeCredit(Len(data[a]))
  /\ pc' = [pc EXCEPT ![a] = "queue"]
  /\ UNCHANGED <<sessVars, data, reads, stalled, outVars, unacked, sbVars,
                 endVars, auxVars>>

\* Mutant: no deadline.
NoDeadline(a) == FALSE

Deadline(a) == inflight > Window /\ ~closing

\* waitCredit: flowStall has passed without an acknowledgement.
Stall(a) ==
  /\ pc[a] = "credit"
  /\ Deadline(a)
  /\ inflight' = Len(data[a])
  /\ stalled' = TRUE
  /\ pc' = [pc EXCEPT ![a] = "queue"]
  /\ UNCHANGED <<sessVars, data, reads, outVars, unacked, sbVars, endVars, auxVars>>

\* t.emit: an event to the frontend.
Emit(batch) ==
  /\ events' = Append(events, [kind |-> "data", batch |-> batch])
  /\ unacked' = unacked + Len(batch)

\* The handler returns to its pump; OnData to OpenTerminal.
Return(a) ==
  /\ pc' = [pc EXCEPT ![a] = IF a = Opener THEN "end" ELSE "read"]
  /\ data' = [data EXCEPT ![a] = <<>>]

\* Mutant: only an empty buffer counts as idle.
BufferEmpty == outBuf = <<>>
\* Mutant: everything goes out at once.
AlwaysIdle == TRUE

Idle == ~outPending

\* queueOutput on an idle terminal: out at once, and a window opens.
QueueIdle(a) ==
  /\ pc[a] = "queue"
  /\ Idle
  /\ outPending' = TRUE
  /\ timers' = timers + 1
  /\ Emit(data[a])
  /\ Return(a)
  /\ UNCHANGED <<sessVars, reads, flowVars, outBuf, sbVars, endVars, auxVars>>

\* Mutant: a full batch stays in the buffer after it is emitted.
KeepBatch(all) == all

NoBatch(all) == <<>>

\* Mutant: the read goes ahead of the batch.
NewestFirst(a) == data[a] \o outBuf

Batch(a) == outBuf \o data[a]

\* queueOutput inside the window: into the batch, which leaves when full.
QueueBatch(a) ==
  /\ pc[a] = "queue"
  /\ ~Idle
  /\ LET all == Batch(a) IN
       IF Len(all) >= BatchMax
       THEN Emit(all) /\ outBuf' = NoBatch(all)
       ELSE outBuf' = all /\ UNCHANGED <<events, unacked>>
  /\ Return(a)
  /\ UNCHANGED <<sessVars, reads, flowVars, outPending, timers, sbVars, endVars, auxVars>>

\* Mutant: a flush that emitted does not open the next window.
NotRearmed == timers' = timers - 1

Rearmed == timers' = timers

\* The coalescing timer fires: flushOutput.
Flush ==
  /\ timers > 0
  /\ IF outBuf = <<>>
     THEN /\ outPending' = FALSE
          /\ timers' = timers - 1
          /\ UNCHANGED <<outBuf, events, unacked>>
     ELSE /\ Emit(outBuf)
          /\ outBuf' = <<>>
          /\ Rearmed
          /\ outPending' = outPending
  /\ UNCHANGED <<sessVars, actorVars, flowVars, sbVars, endVars, auxVars>>

\* Mutant: not clamped at zero.
Subtracted(n) == inflight - n

\* ack
Acked(n) == IF n > inflight THEN 0 ELSE inflight - n

\* TermAck: the frontend has consumed n chunks; the terminal may be gone.
TermAck(n) ==
  /\ n <= unacked
  /\ unacked' = unacked - n
  /\ inflight' = IF inTerms THEN Acked(n) ELSE inflight
  /\ UNCHANGED <<sessVars, actorVars, stalled, outVars, sbVars, endVars, auxVars>>

-----------------------------------------------------------------------------
(* The end of the session *)

\* The remote side closes the channel.
RemoteExit ==
  /\ ~exited
  /\ exited' = TRUE
  /\ UNCHANGED <<registered, pending, userExit, actorVars, flowVars, outVars,
                 unacked, sbVars, endVars, auxVars>>

\* OpenTerminal starts the waiter after OnData has returned.
StartWaiter ==
  /\ pc[Opener] = "end"
  /\ waiter = "none"
  /\ waiter' = "waiting"
  /\ UNCHANGED <<sessVars, actorVars, flowVars, outVars, unacked, sbVars, inTerms,
                 closing, closer, drained, died, auxVars>>

\* Mutant: the terminal stays on the map.
StayListed == inTerms' = inTerms

Unlist == inTerms' = FALSE

\* sess.Wait returns, which does not wait for the pumps; the waiter takes the
\* terminal off the map and wakes the readers.
WaiterWakes ==
  /\ waiter = "waiting"
  /\ exited
  /\ Unlist
  /\ waiter' = "woken"
  /\ UNCHANGED <<sessVars, actorVars, flowVars, outVars, unacked, sbVars, closing,
                 closer, drained, died, auxVars>>

Emitted == UNION { Elems(events[i].batch) : i \in DOMAIN events }

\* Mutant: nothing is flushed before the closed event.
DrainNothing == UNCHANGED <<outBuf, events, unacked>>

\* drainOutput
DrainBuffer ==
  IF outBuf = <<>> THEN UNCHANGED <<outBuf, events, unacked>>
  ELSE Emit(outBuf) /\ outBuf' = <<>>

WaiterDrains ==
  /\ waiter = "woken"
  /\ DrainBuffer
  /\ drained' = Emitted \cup Elems(outBuf)
  /\ waiter' = "drained"
  /\ UNCHANGED <<sessVars, actorVars, flowVars, outPending, timers, sbVars, inTerms,
                 closing, closer, died, auxVars>>

\* t.sb.Close
WaiterReleases ==
  /\ waiter = "drained"
  /\ sbOpen' = FALSE
  /\ waiter' = "released"
  /\ UNCHANGED <<sessVars, actorVars, flowVars, outVars, unacked, sb, inTerms,
                 closing, closer, drained, died, auxVars>>

\* f9:termclosed
WaiterNotifies ==
  /\ waiter = "released"
  /\ events' = Append(events, [kind |-> "closed", batch |-> <<>>])
  /\ died' = IF closing THEN "no" ELSE "yes"
  /\ waiter' = "done"
  /\ UNCHANGED <<sessVars, actorVars, flowVars, outPending, outBuf, timers, unacked,
                 sbVars, inTerms, closing, closer, drained, auxVars>>

\* Mutant: the session is closed before the terminal is flagged.
SessionFirst == [none |-> "session", session |-> "flag", flag |-> "scrollback",
                 scrollback |-> "done"]

\* The order of CloseTerminal's steps.
Then == [none |-> "flag", flag |-> "session", session |-> "scrollback",
         scrollback |-> "done"]

\* CloseTerminal finds the terminal and takes it off the map.
CloseTerminal ==
  /\ closer = "none"
  /\ inTerms
  /\ Unlist
  /\ closer' = Then["none"]
  /\ UNCHANGED <<sessVars, actorVars, flowVars, outVars, unacked, sbVars, closing,
                 waiter, drained, died, auxVars>>

\* t.closing, and the readers woken
CloserFlags ==
  /\ closer = "flag"
  /\ closing' = TRUE
  /\ closer' = Then["flag"]
  /\ UNCHANGED <<sessVars, actorVars, flowVars, outVars, unacked, sbVars, inTerms,
                 waiter, drained, died, auxVars>>

\* t.session.Close
CloserClosesSession ==
  /\ closer = "session"
  /\ exited' = TRUE
  /\ userExit' = (userExit \/ ~exited)
  /\ closer' = Then["session"]
  /\ UNCHANGED <<registered, pending, actorVars, flowVars, outVars, unacked, sbVars,
                 inTerms, closing, waiter, drained, died, auxVars>>

\* t.sb.Close
CloserClosesScrollback ==
  /\ closer = "scrollback"
  /\ sbOpen' = FALSE
  /\ closer' = Then["scrollback"]
  /\ UNCHANGED <<sessVars, actorVars, flowVars, outVars, unacked, sb, inTerms,
                 closing, waiter, drained, died, auxVars>>

-----------------------------------------------------------------------------
Handler(a) == KeepOutput(a) \/ Credit(a) \/ Stall(a) \/ QueueIdle(a) \/ QueueBatch(a)

Waiter == \/ StartWaiter \/ WaiterWakes \/ WaiterDrains \/ WaiterReleases
          \/ WaiterNotifies

Closer == CloserFlags \/ CloserClosesSession \/ CloserClosesScrollback

Next ==
  \/ \E s \in Streams : ReadEarly(s) \/ Read(s) \/ ReadEOF(s)
  \/ OnData
  \/ \E a \in Actors : Handler(a)
  \/ Flush
  \/ \E n \in 1 .. unacked : TermAck(n)
  \/ RemoteExit
  \/ Waiter
  \/ CloseTerminal
  \/ Closer

\* Goroutines and timers run. Nothing obliges the remote side to send or to
\* exit, the frontend to acknowledge, or the user to close the tab.
Fairness ==
  /\ WF_vars(OnData)
  /\ \A a \in Actors : WF_vars(Handler(a))
  /\ WF_vars(Flush)
  /\ WF_vars(Waiter)
  /\ WF_vars(Closer)

Spec == Init /\ [][Next]_vars /\ Fairness

-----------------------------------------------------------------------------
(* Properties *)

Carried(a) == Elems(data[a])

Came(c) == c[2] <= reads[c[1]]

Times(c, s) == Cardinality({ i \in DOMAIN s : s[i] = c })

\* The places in the events: the event, and the place in its batch.
Sent == UNION { {i} \X DOMAIN events[i].batch : i \in DOMAIN events }

Copies(c) ==
  Times(c, pending) + Times(c, outBuf)
    + Cardinality({ d \in dropped : d = c })
    + Cardinality({ a \in Actors : c \in Carried(a) })
    + Cardinality({ p \in Sent : events[p[1]].batch[p[2]] = c })

\* Across the replay, the batching, the timer and the drain, a chunk that was
\* read is in exactly one place: waiting for a handler, dropped there, in a
\* reader's hands, in the batch, or in one event. Nothing is lost and nothing
\* is sent twice.
OnePlace == \A c \in Chunks : Copies(c) = IF Came(c) THEN 1 ELSE 0

\* A batch never waits without a timer that will send it, and there is never a
\* second timer: flushOutput re-arms exactly when it leaves the window open,
\* whatever drainOutput or a full batch did to the buffer in between.
OneTimer ==
  /\ timers = IF outPending THEN 1 ELSE 0
  /\ outBuf # <<>> => outPending

\* c left for the frontend before d.
Before(c, d) ==
  \E i, j \in DOMAIN events :
    /\ c \in Elems(events[i].batch)
    /\ d \in Elems(events[j].batch)
    /\ \/ i < j
       \/ /\ i = j
          /\ \E m, n \in DOMAIN events[i].batch :
               m < n /\ events[i].batch[m] = c /\ events[i].batch[n] = d

\* Two chunks the same pump handed to the handler reach the frontend in the
\* order they were read, whichever of the idle path, the full batch, the timer
\* and the drain sent each.
PumpOrder ==
  \A c, d \in Emitted \ replayed :
    c[1] = d[1] /\ c[2] < d[2] => Before(c, d)

LongestRead == IF PendingCap > 1 THEN PendingCap ELSE 1

\* What a reader has credit for, and has not queued yet.
OnItsWay == UNION { Carried(a) : a \in { b \in Actors : pc[b] = "queue" } }

\* Flow control: what the frontend has not acknowledged, with what is on its
\* way to it, is counted in inflight until flowStall gives up on the frontend,
\* and exceeds the window by one read at most while the terminal is open.
FlowBounded ==
  ~stalled =>
    /\ unacked + Len(outBuf) + Cardinality(OnItsWay) <= inflight
    /\ ~closing => inflight <= Window + LongestRead

\* Batching and flow control keep their books: nothing lost, doubled, reordered within
\* a pump, left without a timer or uncounted.
BatchingExact == OnePlace /\ OneTimer /\ PumpOrder /\ FlowBounded

\* Search and grep miss nothing that is on the screen: while they can find the
\* terminal, what the frontend was sent, or is about to be, is in its
\* scrollback, although the waiter and CloseTerminal close the scrollback
\* under the pumps.
SearchSeesScreen == inTerms => Emitted \cup Elems(outBuf) \subseteq sb

\* "so no data trails f9:termclosed", as far as drainOutput can see to it: what
\* was in the batch when the session's end was noticed precedes the notice.
DrainedBeforeClosed ==
  \A j \in DOMAIN events :
    events[j].kind = "closed" =>
      drained \subseteq UNION { Elems(events[i].batch) : i \in 1 .. j }

\* A tab the user closed is never reported as a connection that died, whatever
\* the order of the waiter and CloseTerminal.
DiedTruthful == userExit => died # "yes"

\* The end of a session is told truthfully: after the output that was batched, with
\* the right cause, and with nothing on the screen that search cannot find.
EndTruthful == SearchSeesScreen /\ DrainedBeforeClosed /\ DiedTruthful

\* A chunk that was read reaches the frontend, or was dropped while no handler
\* was there: no missing acknowledgement, closing terminal or closed scrollback
\* holds a pump forever.
ChunksArrive == \A c \in Chunks : Came(c) ~> c \in Emitted \cup dropped

-----------------------------------------------------------------------------
(* What comments say *)

\* "emit is called with outMu held so events leave in read order."
ReadOrder ==
  \A c, d \in Emitted : c[1] = d[1] /\ c[2] < d[2] => Before(c, d)

\* "used before the closed notification so no data trails f9:termclosed."
NoTrailing ==
  \A i, j \in DOMAIN events : events[i].kind = "closed" => j <= i
=============================================================================
