-------------------------- MODULE TermOutputProofs --------------------------
(***************************************************************************)
(* Proofs about the output path of a terminal: no chunk is lost or sent    *)
(* twice, the pumps' order, one timer, the credit, and a truthful end, for *)
(* any streams, reads, caps, window and batch size.                        *)
(***************************************************************************)
EXTENDS TermOutput, FiniteSetTheorems, SequenceTheorems, TLAPS

-----------------------------------------------------------------------------
(* The inductive invariant *)

\* OnData is the border between a session that keeps what it reads and one that
\* hands it on. A pump carries the one chunk it read last, OpenTerminal only what
\* it replays, and none of them more than a read can bring.
HandInv ==
    /\ registered <=> pc[Opener] # "read"
    /\ waiter # "none" => pc[Opener] = "end"
    /\ IF registered THEN pending = <<>>
       ELSE outBuf = <<>> /\ events = <<>> /\ replayed = {}
    /\ Len(pending) <= PendingCap
    /\ \A a \in Actors : /\ data[a] = <<>> <=> pc[a] \in {"read", "end"}
                         /\ ~registered => data[a] = <<>>
                         /\ Len(data[a]) <= LongestRead
    /\ \A s \in Streams : data[s] \in {<<>>, << <<s, reads[s]>> >>}
    /\ Carried(Opener) \subseteq replayed

Behind == {"credit", "queue"}

\* Who has closed what: the waiter, CloseTerminal and the terminal's flags.
EndInv ==
    /\ waiter \in {"woken", "drained", "released", "done"} => exited /\ ~inTerms
    /\ closer # "none" => ~inTerms
    /\ inTerms => sbOpen
    /\ closer \in {"session", "scrollback", "done"} => closing
    /\ userExit => closing /\ died # "yes"
    /\ died # "unsaid" => waiter = "done"

\* What is past the handler's first step is in the scrollback of a listed terminal.
KeptInv ==
    inTerms => /\ Emitted \cup Elems(outBuf) \subseteq sb
               /\ \A a \in Actors : pc[a] \in Behind => Carried(a) \subseteq sb

DrainInv ==
    /\ \A j \in DOMAIN events : events[j].kind = "closed" => waiter = "done"
    /\ waiter \in {"drained", "released", "done"} => drained \subseteq Emitted
    /\ DrainedBeforeClosed

Out(i) == Elems(events[i].batch)

Hands == UNION { Carried(a) : a \in Actors }

\* No chunk is in the readers' hands twice, or in two events, or twice in one.
HeldOnce ==
    /\ \A a \in Actors : IsInjective(data[a])
    /\ \A a, b \in Actors : a # b => Carried(a) \cap Carried(b) = {}

SentOnce ==
    /\ \A i \in DOMAIN events : IsInjective(events[i].batch)
    /\ \A i, j \in DOMAIN events : i # j => Out(i) \cap Out(j) = {}

\* No two of the places hold the same chunk.
Apart ==
    /\ Elems(pending) \cap dropped = {}
    /\ (Elems(pending) \cup dropped) \cap Elems(outBuf) = {}
    /\ (Elems(pending) \cup dropped \cup Elems(outBuf)) \cap Hands = {}
    /\ (Elems(pending) \cup dropped \cup Elems(outBuf) \cup Hands) \cap Emitted = {}

\* What they hold is what was read.
AllHere ==
    \A c \in Chunks :
      Came(c) <=> c \in Elems(pending) \cup dropped \cup Elems(outBuf) \cup Hands \cup Emitted

PlaceInv ==
    /\ IsInjective(pending) /\ IsInjective(outBuf)
    /\ HeldOnce /\ SentOnce /\ Apart /\ AllHere

\* c left the pump before d, as far as order is promised.
InOrder(c, d) == c \in replayed \/ d \in replayed \/ c[1] # d[1] \/ c[2] < d[2]

Ascends(s) == \A i, j \in DOMAIN s : i < j => InOrder(s[i], s[j])

\* What left, and after it what waits in the batch, is as the pumps read it.
OrderInv ==
    /\ Ascends(outBuf)
    /\ \A i \in DOMAIN events : Ascends(events[i].batch)
    /\ \A i, j \in DOMAIN events : i < j =>
         \A c \in Out(i), d \in Out(j) : InOrder(c, d)
    /\ \A c \in Emitted, d \in Elems(outBuf) : InOrder(c, d)

IInv ==
    /\ TypeOK /\ HandInv /\ EndInv /\ KeptInv /\ DrainInv
    /\ PlaceInv /\ OrderInv /\ OneTimer /\ FlowBounded

-----------------------------------------------------------------------------
(* Sequences of chunks *)

LEMMA ElemsOf ==
    ASSUME NEW S, NEW s \in Seq(S)
    PROVE  /\ Len(s) \in Nat /\ DOMAIN s = 1..Len(s)
           /\ Elems(s) \subseteq S
           /\ \A i \in 1..Len(s) : s[i] \in Elems(s)
           /\ s = <<>> <=> Elems(s) = {}
BY EmptySeq, LenProperties, ElementOfSeq DEF Elems

LEMMA ElemsOne ==
    ASSUME NEW S, NEW x \in S
    PROVE  <<x>> \in Seq(S) /\ Len(<<x>>) = 1 /\ Elems(<<x>>) = {x} /\ IsInjective(<<x>>) /\ Ascends(<<x>>)
BY DEF Elems, IsInjective, Ascends

LEMMA ElemsNone == Elems(<<>>) = {} /\ IsInjective(<<>>) /\ Ascends(<<>>) /\ Len(<<>>) = 0
BY DEF Elems, IsInjective, Ascends

LEMMA ElemsAppend ==
    ASSUME NEW S, NEW s \in Seq(S), NEW x \in S
    PROVE  /\ Append(s, x) \in Seq(S) /\ Len(Append(s, x)) = Len(s) + 1
           /\ Elems(Append(s, x)) = Elems(s) \cup {x}
           /\ IsInjective(s) /\ x \notin Elems(s) => IsInjective(Append(s, x))
<1>1. /\ Append(s, x) \in Seq(S) /\ Len(Append(s, x)) = Len(s) + 1
      /\ \A i \in 1..Len(s) : Append(s, x)[i] = s[i]
      /\ Append(s, x)[Len(s) + 1] = x
  BY AppendProperties
<1>2. Len(s) \in Nat /\ DOMAIN s = 1..Len(s) /\ DOMAIN Append(s, x) = 1..(Len(s) + 1)
  BY <1>1, LenProperties
<1>3. Elems(Append(s, x)) = Elems(s) \cup {x}
  BY <1>1, <1>2 DEF Elems
<1>4. IsInjective(s) /\ x \notin Elems(s) => IsInjective(Append(s, x))
  BY <1>1, <1>2 DEF Elems, IsInjective
<1>. QED
  BY <1>1, <1>3, <1>4

LEMMA ElemsTail ==
    ASSUME NEW S, NEW s \in Seq(S), s # <<>>
    PROVE  /\ Tail(s) \in Seq(S) /\ Len(Tail(s)) = Len(s) - 1 /\ Head(s) \in S
           /\ Elems(s) = Elems(Tail(s)) \cup {Head(s)}
           /\ IsInjective(s) => IsInjective(Tail(s)) /\ Head(s) \notin Elems(Tail(s))
<1>1. /\ Tail(s) \in Seq(S) /\ Len(Tail(s)) = Len(s) - 1
      /\ \A i \in 1..Len(Tail(s)) : Tail(s)[i] = s[i + 1]
      /\ Head(s) = s[1]
  BY HeadTailProperties
<1>2. Len(s) \in Nat /\ Len(s) > 0 /\ DOMAIN s = 1..Len(s) /\ DOMAIN Tail(s) = 1..(Len(s) - 1)
  BY <1>1, LenProperties, EmptySeq
<1>3. Elems(s) = Elems(Tail(s)) \cup {Head(s)}
  <2>1. ASSUME NEW i \in 1..Len(s), i # 1 PROVE i - 1 \in 1..Len(Tail(s)) /\ Tail(s)[i - 1] = s[i]
    BY <1>1, <1>2, <2>1
  <2>2. ASSUME NEW c \in Elems(s) PROVE c \in Elems(Tail(s)) \cup {Head(s)}
    <3>1. PICK i \in 1..Len(s) : c = s[i]
      BY <1>2 DEF Elems
    <3>. QED
      BY <1>1, <1>2, <2>1, <3>1 DEF Elems
  <2>3. ASSUME NEW c \in Elems(Tail(s)) PROVE c \in Elems(s)
    <3>1. PICK i \in 1..Len(Tail(s)) : c = Tail(s)[i]
      BY <1>1, <1>2 DEF Elems
    <3>2. i + 1 \in 1..Len(s) /\ c = s[i + 1]
      BY <1>1, <1>2, <3>1
    <3>. QED
      BY <1>2, <3>2 DEF Elems
  <2>4. Head(s) \in Elems(s)
    BY <1>1, <1>2 DEF Elems
  <2>. QED
    BY <2>2, <2>3, <2>4
<1>4. IsInjective(s) => IsInjective(Tail(s)) /\ Head(s) \notin Elems(Tail(s))
  BY <1>1, <1>2 DEF Elems, IsInjective
<1>. QED
  BY <1>1, <1>2, <1>3, <1>4, ElementOfSeq

LEMMA ElemsConcat ==
    ASSUME NEW S, NEW s \in Seq(S), NEW t \in Seq(S)
    PROVE  /\ s \o t \in Seq(S) /\ Len(s \o t) = Len(s) + Len(t)
           /\ Elems(s \o t) = Elems(s) \cup Elems(t)
           /\ IsInjective(s) /\ IsInjective(t) /\ Elems(s) \cap Elems(t) = {} => IsInjective(s \o t)
           /\ Ascends(s) /\ Ascends(t) /\ (\A c \in Elems(s), d \in Elems(t) : InOrder(c, d))
                => Ascends(s \o t)
<1>. DEFINE u == s \o t
<1>1. /\ u \in Seq(S) /\ Len(u) = Len(s) + Len(t)
      /\ \A i \in 1..(Len(s) + Len(t)) : u[i] = IF i <= Len(s) THEN s[i] ELSE t[i - Len(s)]
  BY ConcatProperties
<1>2. /\ Len(s) \in Nat /\ Len(t) \in Nat /\ DOMAIN s = 1..Len(s) /\ DOMAIN t = 1..Len(t)
      /\ DOMAIN u = 1..(Len(s) + Len(t))
  BY <1>1, LenProperties
<1>. HIDE DEF u
<1>3. \A i \in DOMAIN u :
         \/ i \in DOMAIN s /\ i <= Len(s) /\ u[i] = s[i]
         \/ i - Len(s) \in DOMAIN t /\ i > Len(s) /\ u[i] = t[i - Len(s)]
  <2>. TAKE i \in DOMAIN u
  <2>1. i \in 1..(Len(s) + Len(t)) /\ i \in Int
    BY <1>2
  <2>2. CASE i <= Len(s)
    <3>1. i \in 1..Len(s)
      BY <1>2, <2>1, <2>2
    <3>2. u[i] = s[i]
      BY <1>1, <2>1, <2>2
    <3>3. i \in DOMAIN s
      BY <1>2, <3>1
    <3>. QED
      BY <2>2, <3>2, <3>3
  <2>3. CASE i > Len(s)
    <3>1. i - Len(s) \in 1..Len(t)
      BY <1>2, <2>1, <2>3
    <3>. QED
      BY <1>1, <1>2, <2>1, <2>3, <3>1
  <2>. QED
    BY <1>2, <2>1, <2>2, <2>3
<1>4. \A i \in DOMAIN s : i \in DOMAIN u /\ u[i] = s[i]
  BY <1>1, <1>2
<1>5. \A i \in DOMAIN t : i + Len(s) \in DOMAIN u /\ u[i + Len(s)] = t[i]
  BY <1>1, <1>2
<1>6. Elems(u) = Elems(s) \cup Elems(t)
  BY <1>3, <1>4, <1>5 DEF Elems
<1>7. ASSUME IsInjective(s), IsInjective(t), Elems(s) \cap Elems(t) = {}
      PROVE  IsInjective(u)
  <2>. SUFFICES ASSUME NEW i \in DOMAIN u, NEW j \in DOMAIN u, u[i] = u[j] PROVE i = j
    BY DEF IsInjective
  <2>. i \in Int /\ j \in Int
    BY <1>2
  <2>1. \A k \in DOMAIN s, l \in DOMAIN t : s[k] # t[l]
    BY <1>7 DEF Elems
  <2>2. CASE i <= Len(s) /\ j <= Len(s)
    BY <1>2, <1>3, <1>7, <2>2 DEF IsInjective
  <2>3. CASE i > Len(s) /\ j > Len(s)
    <3>1. /\ i - Len(s) \in DOMAIN t /\ j - Len(s) \in DOMAIN t
          /\ t[i - Len(s)] = t[j - Len(s)]
      BY <1>2, <1>3, <2>3
    <3>2. i - Len(s) = j - Len(s)
      BY <1>7, <3>1 DEF IsInjective
    <3>. QED
      BY <1>2, <3>2
  <2>4. CASE i <= Len(s) /\ j > Len(s)
    BY <1>2, <1>3, <2>1, <2>4
  <2>5. CASE i > Len(s) /\ j <= Len(s)
    BY <1>2, <1>3, <2>1, <2>5
  <2>. QED
    BY <1>2, <2>2, <2>3, <2>4, <2>5
<1>8. ASSUME Ascends(s), Ascends(t), \A c \in Elems(s), d \in Elems(t) : InOrder(c, d)
      PROVE  Ascends(u)
  <2>. SUFFICES ASSUME NEW i \in DOMAIN u, NEW j \in DOMAIN u, i < j PROVE InOrder(u[i], u[j])
    BY DEF Ascends
  <2>1. CASE j <= Len(s)
    BY <1>2, <1>3, <1>8, <2>1 DEF Ascends
  <2>2. CASE i <= Len(s) /\ j > Len(s)
    <3>1. u[i] \in Elems(s) /\ u[j] \in Elems(t)
      BY <1>2, <1>3, <2>2 DEF Elems
    <3>. QED
      BY <1>8, <3>1
  <2>3. CASE i > Len(s)
    <3>1. i - Len(s) \in DOMAIN t /\ j - Len(s) \in DOMAIN t /\ i - Len(s) < j - Len(s)
          /\ u[i] = t[i - Len(s)] /\ u[j] = t[j - Len(s)]
      BY <1>2, <1>3, <2>3
    <3>. QED
      BY <1>8, <3>1 DEF Ascends
  <2>. QED
    BY <1>2, <2>1, <2>2, <2>3
<1>. QED
  BY <1>1, <1>6, <1>7, <1>8 DEF u

\* The numbers of elements of a sequence without repetition.
LEMMA ElemsCount ==
    ASSUME NEW S, NEW s \in Seq(S)
    PROVE  /\ IsFiniteSet(Elems(s)) /\ Cardinality(Elems(s)) \in Nat
           /\ Cardinality(Elems(s)) <= Len(s)
           /\ IsInjective(s) => Cardinality(Elems(s)) = Len(s)
<1>1. Len(s) \in Nat /\ DOMAIN s = 1..Len(s) /\ Elems(s) = { s[i] : i \in 1..Len(s) }
  BY LenProperties DEF Elems
<1>2. IsFiniteSet(1..Len(s)) /\ Cardinality(1..Len(s)) = Len(s)
  <2>1. 1 \in Int /\ Len(s) \in Int
    BY <1>1
  <2>2. IsFiniteSet(1..Len(s)) /\ Cardinality(1..Len(s)) = IF 1 > Len(s) THEN 0 ELSE Len(s) - 1 + 1
    BY <2>1, FS_Interval
  <2>. QED
    BY <1>1, <2>2
<1>. DEFINE f == [i \in 1..Len(s) |-> s[i]]
<1>3. f \in Surjection(1..Len(s), Elems(s))
  BY <1>1 DEF Surjection
<1>4. /\ IsFiniteSet(Elems(s)) /\ Cardinality(Elems(s)) <= Len(s)
      /\ Cardinality(Elems(s)) = Len(s) <=> f \in Injection(1..Len(s), Elems(s))
  <2>. HIDE DEF f
  <2>. QED
    BY <1>2, <1>3, FS_Surjection
<1>5. IsInjective(s) => f \in Injection(1..Len(s), Elems(s))
  BY <1>1 DEF IsInjective, Injection
<1>6. Cardinality(Elems(s)) \in Nat
  BY <1>4, FS_CardinalityType
<1>. QED
  BY <1>4, <1>5, <1>6

-----------------------------------------------------------------------------
(* Types *)

LEMMA ActorsAre == Streams \subseteq Actors /\ Opener \in Actors /\ Opener \notin Streams
BY OpenerAssumption DEF Actors

\* The chunk a stream's next Read returns.
LEMMA ReadGets ==
    ASSUME TypeOK, NEW s \in Streams, reads[s] < MaxChunks[s],
           reads' = [reads EXCEPT ![s] = @ + 1]
    PROVE  /\ reads[s] \in Nat /\ reads'[s] = reads[s] + 1
           /\ <<s, reads'[s]>> \in Chunks
           /\ \A t \in Streams : t # s => reads'[t] = reads[t]
           /\ reads' \in [Streams -> Nat] /\ \A t \in Streams : reads'[t] <= MaxChunks[t]
<1>1. reads[s] \in Nat /\ MaxChunks[s] \in Nat /\ reads'[s] = reads[s] + 1
  BY BoundsAssumption DEF TypeOK
<1>2. reads'[s] \in 1..MaxChunks[s]
  BY <1>1
<1>3. <<s, reads'[s]>> \in Chunks
  BY <1>2 DEF Chunks
<1>4. reads' \in [Streams -> Nat] /\ \A t \in Streams : reads'[t] <= MaxChunks[t]
  BY <1>1 DEF TypeOK
<1>. QED
  BY <1>1, <1>3, <1>4 DEF TypeOK

LEMMA PendType ==
    ASSUME TypeOK, NEW c \in Chunks, Pend(c)
    PROVE  pending' \in Seq(Chunks) /\ dropped' \subseteq Chunks
<1>1. pending \in Seq(Chunks) /\ dropped \subseteq Chunks
  BY DEF TypeOK
<1>. DEFINE all == Append(pending, c)
<1>2. all \in Seq(Chunks) /\ Len(all) = Len(pending) + 1 /\ Len(pending) \in Nat
  BY <1>1, ElemsAppend, ElemsOf
<1>3. all # <<>>
  BY <1>2, EmptySeq
<1>4. \/ pending' = Tail(all) /\ dropped' = dropped \cup {Head(all)}
      \/ pending' = all /\ dropped' = dropped
  BY DEF Pend
<1>. HIDE DEF all
<1>5. Tail(all) \in Seq(Chunks) /\ Head(all) \in Chunks
  BY <1>2, <1>3, ElemsTail
<1>. QED
  BY <1>1, <1>2, <1>4, <1>5

LEMMA EmitType ==
    ASSUME TypeOK, NEW b \in Seq(Chunks), Emit(b)
    PROVE  /\ events' \in Seq([kind : {"data", "closed"}, batch : Seq(Chunks)])
           /\ unacked' \in Nat
<1>1. unacked \in Nat /\ Len(b) \in Nat
  BY ElemsOf DEF TypeOK
<1>. QED
  BY <1>1 DEF TypeOK, Emit

\* What a handler carries, and the batch with it, are chunks.
LEMMA CarryType ==
    ASSUME TypeOK, NEW a \in Actors
    PROVE  /\ data[a] \in Seq(Chunks) /\ Len(data[a]) \in Nat
           /\ outBuf \o data[a] \in Seq(Chunks)
BY ElemsOf, ElemsConcat DEF TypeOK

LEMMA ReturnType ==
    ASSUME TypeOK, NEW a \in Actors, Return(a)
    PROVE  pc' \in [Actors -> ActorPCs] /\ data' \in [Actors -> Seq(Chunks)]
BY DEF TypeOK, Return, ActorPCs

\* The steps of the readers.
LEMMA TypeReads ==
    ASSUME TypeOK, NEW s \in Streams, ReadEarly(s) \/ Read(s) \/ ReadEOF(s)
    PROVE  TypeOK'
<1>1. CASE ReadEarly(s)
  <2>1. /\ <<s, reads'[s]>> \in Chunks
        /\ reads' \in [Streams -> Nat] /\ \A t \in Streams : reads'[t] <= MaxChunks[t]
    BY <1>1, ReadGets DEF ReadEarly
  <2>2. pending' \in Seq(Chunks) /\ dropped' \subseteq Chunks
    BY <1>1, <2>1, PendType DEF ReadEarly
  <2>. QED
    BY <1>1, <2>1, <2>2 DEF ReadEarly, TypeOK, flowVars, outVars, sbVars, endVars
<1>2. CASE Read(s)
  <2>1. /\ <<s, reads'[s]>> \in Chunks
        /\ reads' \in [Streams -> Nat] /\ \A t \in Streams : reads'[t] <= MaxChunks[t]
    BY <1>2, ReadGets DEF Read
  <2>2. << <<s, reads'[s]>> >> \in Seq(Chunks)
    BY <2>1
  <2>3. data' \in [Actors -> Seq(Chunks)] /\ pc' \in [Actors -> ActorPCs]
    BY <1>2, <2>2, ActorsAre DEF Read, TypeOK, ActorPCs
  <2>. QED
    BY <1>2, <2>1, <2>3 DEF Read, TypeOK, sessVars, flowVars, outVars, sbVars, endVars, auxVars
<1>3. CASE ReadEOF(s)
  <2>1. pc' \in [Actors -> ActorPCs]
    BY <1>3, ActorsAre DEF ReadEOF, TypeOK, ActorPCs
  <2>. QED
    BY <1>3, <2>1 DEF ReadEOF, TypeOK, sessVars, flowVars, outVars, sbVars, endVars, auxVars
<1>. QED
  BY <1>1, <1>2, <1>3

LEMMA TypeOpens ==
    ASSUME TypeOK, OnData
    PROVE  TypeOK'
<1>1. pending \in Seq(Chunks) /\ Elems(pending) \subseteq Chunks
  BY ElemsOf DEF TypeOK
<1>2. data' \in [Actors -> Seq(Chunks)] /\ pc' \in [Actors -> ActorPCs]
  BY <1>1, ActorsAre DEF OnData, TypeOK, ActorPCs
<1>. QED
  BY <1>1, <1>2 DEF OnData, TypeOK, flowVars, outVars, sbVars, endVars

LEMMA TypeHandles ==
    ASSUME TypeOK, NEW a \in Actors, Handler(a)
    PROVE  TypeOK'
<1>. /\ data[a] \in Seq(Chunks) /\ Len(data[a]) \in Nat /\ outBuf \o data[a] \in Seq(Chunks)
     /\ Elems(data[a]) \subseteq Chunks
  BY CarryType, ElemsOf
<1>1. CASE KeepOutput(a)
  <2>1. pc' \in [Actors -> ActorPCs] /\ sb' \subseteq Chunks
    BY <1>1 DEF KeepOutput, TypeOK, ActorPCs
  <2>. QED
    BY <1>1, <2>1 DEF KeepOutput, TypeOK, sessVars, flowVars, outVars, endVars, auxVars
<1>2. CASE Credit(a)
  <2>1. pc' \in [Actors -> ActorPCs] /\ inflight' \in Nat
    BY <1>2 DEF Credit, TakeCredit, TypeOK, ActorPCs
  <2>. QED
    BY <1>2, <2>1 DEF Credit, TypeOK, sessVars, outVars, sbVars, endVars, auxVars
<1>3. CASE Stall(a)
  <2>1. pc' \in [Actors -> ActorPCs] /\ inflight' \in Nat
    BY <1>3 DEF Stall, TypeOK, ActorPCs
  <2>. QED
    BY <1>3, <2>1 DEF Stall, TypeOK, sessVars, outVars, sbVars, endVars, auxVars
<1>4. CASE QueueIdle(a)
  <2>1. pc' \in [Actors -> ActorPCs] /\ data' \in [Actors -> Seq(Chunks)]
    BY <1>4, ReturnType DEF QueueIdle
  <2>2. events' \in Seq([kind : {"data", "closed"}, batch : Seq(Chunks)]) /\ unacked' \in Nat
    BY <1>4, EmitType DEF QueueIdle
  <2>. QED
    BY <1>4, <2>1, <2>2 DEF QueueIdle, TypeOK, sessVars, flowVars, sbVars, endVars, auxVars
<1>5. CASE QueueBatch(a)
  <2>1. pc' \in [Actors -> ActorPCs] /\ data' \in [Actors -> Seq(Chunks)]
    BY <1>5, ReturnType DEF QueueBatch
  <2>2. \/ Emit(outBuf \o data[a]) /\ outBuf' = <<>>
        \/ outBuf' = outBuf \o data[a] /\ UNCHANGED <<events, unacked>>
    BY <1>5 DEF QueueBatch, Batch, NoBatch
  <2>3. /\ events' \in Seq([kind : {"data", "closed"}, batch : Seq(Chunks)]) /\ unacked' \in Nat
        /\ outBuf' \in Seq(Chunks)
    <3>1. CASE Emit(outBuf \o data[a]) /\ outBuf' = <<>>
      BY <3>1, EmitType, EmptySeq
    <3>2. CASE outBuf' = outBuf \o data[a] /\ UNCHANGED <<events, unacked>>
      BY <3>2 DEF TypeOK
    <3>. QED
      BY <2>2, <3>1, <3>2
  <2>. QED
    BY <1>5, <2>1, <2>3 DEF QueueBatch, TypeOK, sessVars, flowVars, sbVars, endVars, auxVars
<1>. QED
  BY <1>1, <1>2, <1>3, <1>4, <1>5 DEF Handler

\* Emitting what is in the batch, or nothing: flushOutput and drainOutput.
LEMMA DrainType ==
    ASSUME TypeOK, DrainBuffer
    PROVE  /\ events' \in Seq([kind : {"data", "closed"}, batch : Seq(Chunks)]) /\ unacked' \in Nat
           /\ outBuf' \in Seq(Chunks)
<1>1. CASE outBuf = <<>>
  BY <1>1 DEF DrainBuffer, TypeOK
<1>2. CASE outBuf # <<>>
  <2>1. Emit(outBuf) /\ outBuf' = <<>> /\ outBuf \in Seq(Chunks)
    BY <1>2 DEF DrainBuffer, TypeOK
  <2>. QED
    BY <2>1, EmitType, EmptySeq
<1>. QED
  BY <1>1, <1>2

LEMMA FlushDrains ==
    ASSUME Flush
    PROVE  /\ DrainBuffer /\ timers > 0
           /\ \/ outBuf = <<>> /\ outPending' = FALSE /\ timers' = timers - 1
              \/ outBuf # <<>> /\ outPending' = outPending /\ timers' = timers
           /\ UNCHANGED <<sessVars, actorVars, flowVars, sbVars, endVars, auxVars>>
<1>1. CASE outBuf = <<>>
  BY <1>1 DEF Flush, DrainBuffer
<1>2. CASE outBuf # <<>>
  BY <1>2 DEF Flush, DrainBuffer, Rearmed
<1>. QED
  BY <1>1, <1>2

LEMMA TypeFlushes ==
    ASSUME TypeOK, Flush
    PROVE  TypeOK'
<1>1. /\ events' \in Seq([kind : {"data", "closed"}, batch : Seq(Chunks)]) /\ unacked' \in Nat
      /\ outBuf' \in Seq(Chunks)
  BY FlushDrains, DrainType
<1>2. timers' \in Nat
  <2>1. timers \in Nat /\ timers > 0 /\ (timers' = timers \/ timers' = timers - 1)
    BY FlushDrains DEF TypeOK
  <2>. QED
    BY <2>1
<1>3. outPending' \in BOOLEAN
  <2>1. outPending \in BOOLEAN /\ (outPending' = outPending \/ outPending' = FALSE)
    BY FlushDrains DEF TypeOK
  <2>. QED
    BY <2>1
<1>. QED
  BY <1>1, <1>2, <1>3, FlushDrains DEF TypeOK, sessVars, actorVars, flowVars, sbVars, endVars, auxVars

LEMMA TypeAcks ==
    ASSUME TypeOK, NEW n \in 1..unacked, TermAck(n)
    PROVE  TypeOK'
<1>1. unacked' \in Nat /\ inflight' \in Nat
  BY DEF TermAck, Acked, TypeOK
<1>. QED
  BY <1>1 DEF TermAck, TypeOK, sessVars, actorVars, outVars, sbVars, endVars, auxVars

LEMMA EmittedAre ==
    ASSUME TypeOK
    PROVE  /\ Emitted \subseteq Chunks
           /\ \A i \in DOMAIN events : events[i].batch \in Seq(Chunks) /\ Out(i) \subseteq Chunks
           /\ \A i \in DOMAIN events : events[i] \in [kind : {"data", "closed"}, batch : Seq(Chunks)]
<1>. DEFINE R == [kind : {"data", "closed"}, batch : Seq(Chunks)]
<1>1. \A i \in DOMAIN events : events[i] \in R
  <2>1. events \in Seq(R)
    BY DEF TypeOK
  <2>. HIDE DEF R
  <2>. QED
    BY <2>1, LenProperties, ElementOfSeq
<1>2. \A i \in DOMAIN events : events[i].batch \in Seq(Chunks)
  BY <1>1
<1>3. \A i \in DOMAIN events : Elems(events[i].batch) \subseteq Chunks
  BY <1>2, ElemsOf
<1>. QED
  BY <1>1, <1>2, <1>3 DEF Out, Emitted

\* A step at the end of the terminal leaves what the readers and the output have.
LEMMA TypeEnds ==
    ASSUME TypeOK,
           UNCHANGED <<sessVars, actorVars, flowVars, outVars, unacked, sb, drained, died, auxVars>>,
           sbOpen' \in {sbOpen, FALSE}, inTerms' \in {inTerms, FALSE}, closing' \in {closing, TRUE},
           waiter' \in {"none", "waiting", "woken", "drained", "released", "done"},
           closer' \in {"none", "flag", "session", "scrollback", "done"}
    PROVE  TypeOK'
<1>1. /\ sbOpen' \in BOOLEAN /\ inTerms' \in BOOLEAN /\ closing' \in BOOLEAN
  BY DEF TypeOK
<1>2. /\ UNCHANGED <<registered, pending, exited, userExit, stalled, outPending>>
      /\ UNCHANGED <<pc, data, reads, inflight, outBuf, timers, events>>
      /\ UNCHANGED <<unacked, sb, drained, died, dropped, replayed>>
  BY DEF sessVars, actorVars, flowVars, outVars, auxVars
<1>. QED
  BY <1>1, <1>2 DEF TypeOK

LEMMA TypeWaits ==
    ASSUME TypeOK, Waiter
    PROVE  TypeOK'
<1>6. closer \in {"none", "flag", "session", "scrollback", "done"}
  BY DEF TypeOK
<1>1. CASE StartWaiter
  BY <1>1, <1>6, TypeEnds DEF StartWaiter, sbVars
<1>2. CASE WaiterWakes
  BY <1>2, <1>6, TypeEnds DEF WaiterWakes, Unlist, sbVars
<1>3. CASE WaiterDrains
  <2>1. /\ events' \in Seq([kind : {"data", "closed"}, batch : Seq(Chunks)]) /\ unacked' \in Nat
        /\ outBuf' \in Seq(Chunks)
    BY <1>3, DrainType DEF WaiterDrains
  <2>2. drained' \subseteq Chunks
    BY <1>3, EmittedAre, ElemsOf DEF WaiterDrains, TypeOK
  <2>. QED
    BY <1>3, <2>1, <2>2 DEF WaiterDrains, TypeOK, sessVars, actorVars, flowVars, sbVars, auxVars
<1>4. CASE WaiterReleases
  BY <1>4, <1>6, TypeEnds DEF WaiterReleases
<1>5. CASE WaiterNotifies
  <2>1. [kind |-> "closed", batch |-> <<>>] \in [kind : {"data", "closed"}, batch : Seq(Chunks)]
    BY EmptySeq
  <2>2. events' \in Seq([kind : {"data", "closed"}, batch : Seq(Chunks)])
    BY <1>5, <2>1 DEF WaiterNotifies, TypeOK
  <2>. QED
    BY <1>5, <2>2 DEF WaiterNotifies, TypeOK, sessVars, actorVars, flowVars, sbVars, auxVars
<1>. QED
  BY <1>1, <1>2, <1>3, <1>4, <1>5 DEF Waiter

LEMMA TypeCloses ==
    ASSUME TypeOK, RemoteExit \/ CloseTerminal \/ Closer
    PROVE  TypeOK'
<1>6. waiter \in {"none", "waiting", "woken", "drained", "released", "done"}
  BY DEF TypeOK
<1>1. CASE RemoteExit
  BY <1>1 DEF RemoteExit, TypeOK, actorVars, flowVars, outVars, sbVars, endVars, auxVars
<1>2. CASE CloseTerminal
  BY <1>2, <1>6, TypeEnds DEF CloseTerminal, Then, Unlist, sbVars
<1>3. CASE CloserFlags
  BY <1>3, <1>6, TypeEnds DEF CloserFlags, Then, sbVars
<1>4. CASE CloserClosesSession
  BY <1>4 DEF CloserClosesSession, Then, TypeOK, actorVars, flowVars, outVars, sbVars, auxVars
<1>5. CASE CloserClosesScrollback
  BY <1>5, <1>6, TypeEnds DEF CloserClosesScrollback, Then
<1>. QED
  BY <1>1, <1>2, <1>3, <1>4, <1>5 DEF Closer

LEMMA TypeInit == Init => TypeOK
<1>. SUFFICES ASSUME Init PROVE TypeOK
  OBVIOUS
<1>1. /\ pending \in Seq(Chunks) /\ outBuf \in Seq(Chunks)
              /\ events \in Seq([kind : {"data", "closed"}, batch : Seq(Chunks)])
              /\ data \in [Actors -> Seq(Chunks)]
  BY EmptySeq DEF Init
<1>2. reads \in [Streams -> Nat] /\ \A s \in Streams : reads[s] <= MaxChunks[s]
  BY BoundsAssumption DEF Init
<1>3. pc \in [Actors -> ActorPCs]
  BY DEF Init, ActorPCs
<1>4. /\ registered = FALSE /\ exited = FALSE /\ inTerms = TRUE /\ closing = FALSE
              /\ sbOpen = TRUE /\ outPending = FALSE /\ stalled = FALSE /\ userExit = FALSE
              /\ sb = {} /\ dropped = {} /\ replayed = {} /\ drained = {}
              /\ inflight = 0 /\ timers = 0 /\ unacked = 0
              /\ waiter = "none" /\ closer = "none" /\ died = "unsaid"
  BY DEF Init
<1>. QED
  BY <1>1, <1>2, <1>3, <1>4 DEF TypeOK

LEMMA TypeStep == TypeOK /\ [Next]_vars => TypeOK'
<1>. SUFFICES ASSUME TypeOK, [Next]_vars PROVE TypeOK'
  OBVIOUS
<1>1. CASE UNCHANGED vars
  BY <1>1 DEF vars, TypeOK
<1>. QED
  BY <1>1, TypeReads, TypeOpens, TypeHandles, TypeFlushes, TypeAcks, TypeWaits, TypeCloses DEF Next

-----------------------------------------------------------------------------
(* Events *)

\* An event goes to the end and changes nothing before it.
LEMMA EventAdded ==
    ASSUME TypeOK, NEW e, events' = Append(events, e)
    PROVE  /\ Len(events) \in Nat
           /\ DOMAIN events = 1..Len(events) /\ DOMAIN events' = 1..(Len(events) + 1)
           /\ \A i \in DOMAIN events : events'[i] = events[i] /\ Out(i)' = Out(i)
           /\ \A n \in DOMAIN events' : n \notin DOMAIN events => events'[n] = e /\ Out(n)' = Elems(e.batch)
           /\ Emitted' = Emitted \cup Elems(e.batch)
<1>. DEFINE R == [kind : {"data", "closed"}, batch : Seq(Chunks)]
<1>1. events \in Seq(R)
  BY DEF TypeOK
<1>. HIDE DEF R
<1>2. /\ Len(events) \in Nat
      /\ DOMAIN events = 1..Len(events) /\ DOMAIN events' = 1..(Len(events) + 1)
      /\ \A i \in DOMAIN events : events'[i] = events[i]
      /\ \A n \in DOMAIN events' : n \notin DOMAIN events => events'[n] = e
  BY <1>1
<1>3. /\ \A i \in DOMAIN events : Out(i)' = Out(i)
      /\ \A n \in DOMAIN events' : n \notin DOMAIN events => Out(n)' = Elems(e.batch)
  BY <1>2 DEF Out, Elems
<1>4. Emitted = UNION { Out(i) : i \in DOMAIN events }
  BY DEF Emitted, Out
<1>5. Emitted' = UNION { Out(i)' : i \in DOMAIN events' }
  BY DEF Emitted, Out
<1>6. Emitted' = Emitted \cup Elems(e.batch)
  <2>1. /\ Len(events) + 1 \in DOMAIN events' /\ Len(events) + 1 \notin DOMAIN events
        /\ \A n \in DOMAIN events' : n \in DOMAIN events \/ n = Len(events) + 1
        /\ \A n \in DOMAIN events : n \in DOMAIN events'
    BY <1>2
  <2>2. \A c : c \in Emitted' <=> \E i \in DOMAIN events' : c \in Out(i)'
    BY <1>5
  <2>3. \A c : c \in Emitted <=> \E i \in DOMAIN events : c \in Out(i)
    BY <1>4
  <2>. QED
    BY <1>3, <2>1, <2>2, <2>3
<1>. QED
  BY <1>2, <1>3, <1>6

LEMMA Emits ==
    ASSUME TypeOK, NEW b, Emit(b)
    PROVE  /\ Len(events) \in Nat
           /\ DOMAIN events = 1..Len(events) /\ DOMAIN events' = 1..(Len(events) + 1)
           /\ \A i \in DOMAIN events : events'[i] = events[i] /\ Out(i)' = Out(i)
           /\ \A n \in DOMAIN events' :
                n \notin DOMAIN events =>
                  events'[n] = [kind |-> "data", batch |-> b] /\ Out(n)' = Elems(b)
           /\ Emitted' = Emitted \cup Elems(b)
<1>1. events' = Append(events, [kind |-> "data", batch |-> b])
  BY DEF Emit
<1>2. [kind |-> "data", batch |-> b].batch = b
  OBVIOUS
<1>. QED
  BY <1>1, <1>2, EventAdded

LEMMA EmittedIs == Emitted = UNION { Out(i) : i \in DOMAIN events }
BY DEF Emitted, Out

\* The batch goes out, or stays empty.
LEMMA DrainMoves ==
    ASSUME TypeOK, DrainBuffer
    PROVE  /\ outBuf' = <<>>
           /\ Emitted' = Emitted \cup Elems(outBuf)
<1>1. CASE outBuf = <<>>
  BY <1>1, ElemsNone DEF DrainBuffer, Emitted
<1>2. CASE outBuf # <<>>
  BY <1>2, Emits DEF DrainBuffer
<1>. QED
  BY <1>1, <1>2

-----------------------------------------------------------------------------
(* Who carries what *)

\* The steps that leave the readers and what they read alone.
LEMMA HandsAlone ==
    ASSUME HandInv, UNCHANGED <<registered, pending, pc, data, reads, replayed, waiter>>,
           registered \/ UNCHANGED <<outBuf, events>>
    PROVE  HandInv'
BY DEF HandInv, Carried, Elems

LEMMA PendFits ==
    ASSUME TypeOK, NEW c \in Chunks, Pend(c), Len(pending) <= PendingCap
    PROVE  Len(pending') <= PendingCap
<1>1. pending \in Seq(Chunks) /\ PendingCap \in Nat
  BY BoundsAssumption DEF TypeOK
<1>. DEFINE all == Append(pending, c)
<1>2. all \in Seq(Chunks) /\ Len(all) = Len(pending) + 1 /\ Len(pending) \in Nat
  BY <1>1, ElemsAppend, ElemsOf
<1>3. \/ pending' = Tail(all)
      \/ pending' = all /\ ~(Len(all) > PendingCap)
  BY DEF Pend
<1>. HIDE DEF all
<1>4. all # <<>>
  BY <1>2, EmptySeq
<1>5. Len(Tail(all)) = Len(all) - 1
  BY <1>2, <1>4, ElemsTail
<1>. QED
  BY <1>1, <1>2, <1>3, <1>5

LEMMA LongestIs == LongestRead \in Nat /\ 1 <= LongestRead /\ PendingCap <= LongestRead
BY BoundsAssumption DEF LongestRead

\* A handler that has something moves on with it.
LEMMA HandMoves ==
    ASSUME TypeOK, HandInv, NEW a \in Actors, pc[a] \in {"append", "credit"},
           NEW q \in Behind, pc' = [pc EXCEPT ![a] = q],
           UNCHANGED <<registered, pending, data, reads, replayed, waiter, outBuf, events>>
    PROVE  HandInv'
<1>1. /\ pc'[a] = q /\ \A b \in Actors : b # a => pc'[b] = pc[b]
      /\ q \notin {"read", "end"} /\ pc[a] \notin {"read", "end"}
  BY DEF TypeOK, Behind
<1>2. \A b \in Actors : data[b] = <<>> <=> pc'[b] \in {"read", "end"}
  BY <1>1 DEF HandInv
<1>3. registered <=> pc'[Opener] # "read"
  BY <1>1, ActorsAre DEF HandInv
<1>4. waiter # "none" => pc'[Opener] = "end"
  BY <1>1, ActorsAre DEF HandInv
<1>. QED
  BY <1>2, <1>3, <1>4 DEF HandInv, Carried, Elems

\* A handler returns.
LEMMA HandReturns ==
    ASSUME TypeOK, HandInv, NEW a \in Actors, pc[a] = "queue", Return(a),
           UNCHANGED <<registered, pending, reads, replayed, waiter>>
    PROVE  HandInv'
<1>1. /\ pc'[a] \in {"read", "end"} /\ data'[a] = <<>>
      /\ a = Opener => pc'[a] = "end"
      /\ \A b \in Actors : b # a => pc'[b] = pc[b] /\ data'[b] = data[b]
  BY DEF TypeOK, Return
<1>2. registered
  BY DEF HandInv
<1>3. pc'[Opener] # "read" /\ (waiter # "none" => pc'[Opener] = "end")
  BY <1>1, <1>2, ActorsAre DEF HandInv
<1>4. \A b \in Actors : /\ data'[b] = <<>> <=> pc'[b] \in {"read", "end"}
                        /\ Len(data'[b]) <= LongestRead
  BY <1>1, LongestIs, ElemsNone DEF HandInv
<1>5. \A s \in Streams : data'[s] \in {<<>>, << <<s, reads[s]>> >>}
  BY <1>1, ActorsAre DEF HandInv
<1>6. Elems(data'[Opener]) \subseteq replayed
  <2>1. CASE a = Opener
    BY <1>1, <2>1, ElemsNone
  <2>2. CASE a # Opener
    <3>1. data'[Opener] = data[Opener]
      BY <1>1, <2>2, ActorsAre
    <3>. QED
      BY <3>1 DEF HandInv, Carried
  <2>. QED
    BY <2>1, <2>2
<1>. QED
  BY <1>2, <1>3, <1>4, <1>5, <1>6 DEF HandInv, Carried

LEMMA HandReads ==
    ASSUME TypeOK, HandInv, NEW s \in Streams, ReadEarly(s) \/ Read(s) \/ ReadEOF(s)
    PROVE  HandInv'
<1>. s \in Actors /\ s # Opener /\ Opener \in Actors
  BY ActorsAre
<1>1. CASE ReadEarly(s)
  <2>1. <<s, reads'[s]>> \in Chunks /\ \A t \in Streams : t # s => reads'[t] = reads[t]
    BY <1>1, ReadGets DEF ReadEarly
  <2>2. Len(pending') <= PendingCap
    BY <1>1, <2>1, PendFits DEF ReadEarly, HandInv
  <2>3. /\ ~registered /\ outBuf = <<>> /\ events = <<>> /\ replayed = {}
        /\ UNCHANGED <<registered, outBuf, events, replayed, data, pc, waiter>>
    BY <1>1 DEF ReadEarly, HandInv, outVars, endVars
  <2>4. \A a \in Actors : data[a] = <<>>
    BY <2>3 DEF HandInv
  <2>5. Carried(Opener)' = Carried(Opener)
    BY <2>3 DEF Carried, Elems
  <2>6. \A t \in Streams : data'[t] = <<>>
    BY <2>3, <2>4, ActorsAre
  <2>. QED
    BY <2>2, <2>3, <2>4, <2>5, <2>6 DEF HandInv
<1>2. CASE Read(s)
  <2>1. \A t \in Streams : t # s => reads'[t] = reads[t]
    BY <1>2, ReadGets DEF Read
  <2>2. /\ registered /\ pending = <<>> /\ waiter' = waiter
        /\ UNCHANGED <<registered, pending, replayed>>
        /\ data'[s] = << <<s, reads'[s]>> >> /\ pc'[s] = "append"
        /\ \A a \in Actors : a # s => data'[a] = data[a] /\ pc'[a] = pc[a]
    BY <1>2 DEF Read, TypeOK, HandInv, sessVars, endVars, auxVars
  <2>3. data'[s] # <<>> /\ Len(data'[s]) = 1
    BY <2>2
  <2>4. \A a \in Actors : /\ data'[a] = <<>> <=> pc'[a] \in {"read", "end"}
                          /\ Len(data'[a]) <= LongestRead
    BY <2>2, <2>3, LongestIs DEF HandInv
  <2>5. \A t \in Streams : data'[t] \in {<<>>, << <<t, reads'[t]>> >>}
    BY <2>1, <2>2, ActorsAre DEF HandInv
  <2>6. Elems(data'[Opener]) \subseteq replayed
    BY <2>2 DEF HandInv, Carried
  <2>. QED
    BY <2>2, <2>4, <2>5, <2>6 DEF HandInv, Carried
<1>3. CASE ReadEOF(s)
  <2>1. /\ UNCHANGED <<registered, pending, replayed, data, reads, waiter, outBuf, events>>
        /\ pc[s] = "read" /\ pc'[s] = "end" /\ \A a \in Actors : a # s => pc'[a] = pc[a]
    BY <1>3 DEF ReadEOF, TypeOK, sessVars, endVars, auxVars, outVars
  <2>2. \A a \in Actors : data[a] = <<>> <=> pc'[a] \in {"read", "end"}
    BY <2>1 DEF HandInv
  <2>. QED
    BY <2>1, <2>2 DEF HandInv, Carried, Elems
<1>. QED
  BY <1>1, <1>2, <1>3

LEMMA HandOpens ==
    ASSUME TypeOK, HandInv, OnData
    PROVE  HandInv'
<1>. Opener \in Actors /\ \A s \in Streams : s \in Actors /\ s # Opener
  BY ActorsAre
<1>1. /\ ~registered /\ registered' = TRUE /\ pending' = <<>> /\ replayed' = Elems(pending)
      /\ data'[Opener] = pending
      /\ pc[Opener] = "read" /\ (pending = <<>> => pc'[Opener] = "end")
      /\ (pending # <<>> => pc'[Opener] = "append")
      /\ \A a \in Actors : a # Opener => data'[a] = data[a] /\ pc'[a] = pc[a]
      /\ UNCHANGED <<reads, outBuf, events, waiter>>
  BY DEF OnData, TypeOK, HandInv, outVars, endVars
<1>2. Len(pending) \in Nat /\ Len(pending) <= LongestRead /\ PendingCap \in Nat
  BY LongestIs, ElemsOf, BoundsAssumption DEF HandInv, TypeOK
<1>3. \A a \in Actors : /\ data'[a] = <<>> <=> pc'[a] \in {"read", "end"}
                        /\ Len(data'[a]) <= LongestRead
  BY <1>1, <1>2 DEF HandInv
<1>4. \A s \in Streams : data'[s] = <<>>
  BY <1>1 DEF HandInv
<1>5. Elems(data'[Opener]) \subseteq replayed'
  BY <1>1
<1>6. Len(pending') <= PendingCap
  BY <1>1, <1>2, ElemsNone
<1>7. waiter = "none" /\ pc'[Opener] # "read"
  BY <1>1 DEF HandInv
<1>. QED
  BY <1>1, <1>3, <1>4, <1>5, <1>6, <1>7 DEF HandInv, Carried

LEMMA HandHandles ==
    ASSUME TypeOK, HandInv, NEW a \in Actors, Handler(a)
    PROVE  HandInv'
<1>1. CASE KeepOutput(a)
  <2>. "credit" \in Behind
    BY DEF Behind
  <2>. QED
    BY <1>1, HandMoves DEF KeepOutput, sessVars, outVars, endVars, auxVars
<1>2. CASE Credit(a)
  <2>. "queue" \in Behind
    BY DEF Behind
  <2>. QED
    BY <1>2, HandMoves DEF Credit, sessVars, outVars, endVars, auxVars
<1>3. CASE Stall(a)
  <2>. "queue" \in Behind
    BY DEF Behind
  <2>. QED
    BY <1>3, HandMoves DEF Stall, sessVars, outVars, endVars, auxVars
<1>4. CASE QueueIdle(a)
  BY <1>4, HandReturns DEF QueueIdle, sessVars, endVars, auxVars
<1>5. CASE QueueBatch(a)
  BY <1>5, HandReturns DEF QueueBatch, sessVars, endVars, auxVars
<1>. QED
  BY <1>1, <1>2, <1>3, <1>4, <1>5 DEF Handler

LEMMA HandWaits ==
    ASSUME TypeOK, HandInv, Waiter
    PROVE  HandInv'
<1>1. /\ UNCHANGED <<registered, pending, pc, data, reads, replayed>>
      /\ pc[Opener] = "end"
  BY DEF Waiter, StartWaiter, WaiterWakes, WaiterDrains, WaiterReleases, WaiterNotifies,
         HandInv, sessVars, actorVars, auxVars
<1>2. registered
  BY <1>1 DEF HandInv
<1>. QED
  BY <1>1, <1>2 DEF HandInv, Carried, Elems

LEMMA HandInit == Init => HandInv
<1>. SUFFICES ASSUME Init PROVE HandInv
  OBVIOUS
<1>1. /\ ~registered /\ pending = <<>> /\ outBuf = <<>> /\ events = <<>> /\ replayed = {}
      /\ waiter = "none" /\ pc[Opener] = "read"
      /\ \A a \in Actors : data[a] = <<>> /\ pc[a] = "read"
  BY ActorsAre DEF Init
<1>2. Len(pending) <= PendingCap /\ \A a \in Actors : Len(data[a]) <= LongestRead
  BY <1>1, ElemsNone, LongestIs, BoundsAssumption
<1>3. Carried(Opener) = {}
  BY <1>1, ActorsAre, ElemsNone DEF Carried
<1>. QED
  BY <1>1, <1>2, <1>3, ActorsAre DEF HandInv

LEMMA HandStep == TypeOK /\ HandInv /\ [Next]_vars => HandInv'
<1>. SUFFICES ASSUME TypeOK, HandInv, [Next]_vars PROVE HandInv'
  OBVIOUS
<1>1. CASE UNCHANGED vars
  BY <1>1, HandsAlone DEF vars
<1>2. CASE Flush
  <2>1. registered \/ UNCHANGED <<outBuf, events>>
    BY <1>2 DEF HandInv, Flush
  <2>. QED
    BY <1>2, <2>1, HandsAlone DEF Flush, sessVars, actorVars, auxVars, endVars
<1>3. CASE \E n \in 1..unacked : TermAck(n)
  BY <1>3, HandsAlone DEF TermAck, sessVars, actorVars, auxVars, endVars, outVars
<1>4. CASE RemoteExit \/ CloseTerminal \/ Closer
  BY <1>4, HandsAlone DEF RemoteExit, CloseTerminal, Closer, CloserFlags, CloserClosesSession,
     CloserClosesScrollback, sessVars, actorVars, auxVars, endVars, outVars
<1>. QED
  BY <1>1, <1>2, <1>3, <1>4, HandReads, HandOpens, HandHandles, HandWaits DEF Next

-----------------------------------------------------------------------------
(* The end *)

LEMMA EndAlone ==
    ASSUME EndInv,
           UNCHANGED <<waiter, exited, inTerms, closer, sbOpen, closing, userExit, died>>
    PROVE  EndInv'
BY DEF EndInv

LEMMA EndWaits ==
    ASSUME TypeOK, EndInv, Waiter
    PROVE  EndInv'
<1>1. CASE StartWaiter
  BY <1>1 DEF StartWaiter, EndInv, TypeOK, sessVars, sbVars
<1>2. CASE WaiterWakes
  BY <1>2 DEF WaiterWakes, Unlist, EndInv, TypeOK, sessVars, sbVars
<1>3. CASE WaiterDrains
  BY <1>3 DEF WaiterDrains, EndInv, TypeOK, sessVars, sbVars
<1>4. CASE WaiterReleases
  BY <1>4 DEF WaiterReleases, EndInv, TypeOK, sessVars
<1>5. CASE WaiterNotifies
  BY <1>5 DEF WaiterNotifies, EndInv, TypeOK, sessVars, sbVars
<1>. QED
  BY <1>1, <1>2, <1>3, <1>4, <1>5 DEF Waiter

LEMMA EndCloses ==
    ASSUME TypeOK, EndInv, RemoteExit \/ CloseTerminal \/ Closer
    PROVE  EndInv'
<1>1. CASE RemoteExit
  BY <1>1 DEF RemoteExit, EndInv, TypeOK, endVars, sbVars
<1>2. CASE CloseTerminal
  BY <1>2 DEF CloseTerminal, Then, Unlist, EndInv, TypeOK, sessVars, sbVars
<1>3. CASE CloserFlags
  BY <1>3 DEF CloserFlags, Then, EndInv, TypeOK, sessVars, sbVars
<1>4. CASE CloserClosesSession
  <2>1. /\ closing /\ ~inTerms /\ died \in {"unsaid", "yes", "no"}
        /\ UNCHANGED <<waiter, inTerms, sbOpen, closing, died>>
        /\ closer' = "scrollback" /\ exited' = TRUE
    BY <1>4 DEF CloserClosesSession, Then, EndInv, TypeOK, sbVars
  <2>2. userExit' => died # "yes"
    BY <1>4 DEF CloserClosesSession, EndInv, TypeOK
  <2>. QED
    BY <2>1, <2>2 DEF EndInv
<1>5. CASE CloserClosesScrollback
  BY <1>5 DEF CloserClosesScrollback, Then, EndInv, TypeOK, sessVars
<1>. QED
  BY <1>1, <1>2, <1>3, <1>4, <1>5 DEF Closer

LEMMA EndStep == TypeOK /\ EndInv /\ [Next]_vars => EndInv'
<1>. SUFFICES ASSUME TypeOK, EndInv, [Next]_vars PROVE EndInv'
  OBVIOUS
<1>1. CASE UNCHANGED vars
  BY <1>1, EndAlone DEF vars
<1>2. CASE \E s \in Streams : ReadEarly(s) \/ Read(s) \/ ReadEOF(s)
  BY <1>2, EndAlone DEF ReadEarly, Read, ReadEOF, sessVars, sbVars, endVars
<1>3. CASE OnData
  BY <1>3, EndAlone DEF OnData, sbVars, endVars
<1>4. CASE \E a \in Actors : Handler(a)
  BY <1>4, EndAlone DEF Handler, KeepOutput, Credit, Stall, QueueIdle, QueueBatch,
     sessVars, sbVars, endVars
<1>5. CASE Flush \/ \E n \in 1..unacked : TermAck(n)
  BY <1>5, EndAlone DEF Flush, TermAck, sessVars, sbVars, endVars
<1>. QED
  BY <1>1, <1>2, <1>3, <1>4, <1>5, EndWaits, EndCloses DEF Next

-----------------------------------------------------------------------------
(* The scrollback *)

LEMMA KeptAlone ==
    ASSUME KeptInv, UNCHANGED <<events, outBuf, sb, pc, data>>, inTerms' => inTerms
    PROVE  KeptInv'
BY DEF KeptInv, Emitted, Carried, Elems

\* A handler that returns leaves what it carried in the batch or in an event.
LEMMA KeptReturns ==
    ASSUME TypeOK, KeptInv, NEW a \in Actors, pc[a] = "queue", Return(a),
           UNCHANGED <<inTerms, sb>>,
           Emitted' \cup Elems(outBuf') \subseteq Emitted \cup Elems(outBuf) \cup Carried(a)
    PROVE  KeptInv'
<1>. SUFFICES ASSUME inTerms PROVE KeptInv'
  BY DEF KeptInv
<1>1. /\ Emitted \cup Elems(outBuf) \subseteq sb /\ Carried(a) \subseteq sb
      /\ \A b \in Actors : pc[b] \in Behind => Carried(b) \subseteq sb
  BY DEF KeptInv, Behind
<1>2. /\ pc'[a] \notin Behind
      /\ \A b \in Actors : b # a => pc'[b] = pc[b] /\ Carried(b)' = Carried(b)
  BY DEF TypeOK, Return, Behind, Carried, Elems
<1>. QED
  BY <1>1, <1>2 DEF KeptInv

LEMMA KeptHandles ==
    ASSUME TypeOK, EndInv, KeptInv, NEW a \in Actors, Handler(a)
    PROVE  KeptInv'
<1>. data[a] \in Seq(Chunks) /\ outBuf \in Seq(Chunks)
  BY DEF TypeOK
<1>1. CASE KeepOutput(a)
  <2>. SUFFICES ASSUME inTerms PROVE KeptInv'
    BY <1>1 DEF KeptInv, KeepOutput, endVars
  <2>1. /\ sb' = sb \cup Elems(data[a])
        /\ UNCHANGED <<events, outBuf, data>>
        /\ \A b \in Actors : b # a => pc'[b] = pc[b]
    BY <1>1 DEF KeepOutput, EndInv, TypeOK, outVars
  <2>2. Emitted' = Emitted /\ Elems(outBuf)' = Elems(outBuf) /\ \A b : Carried(b)' = Carried(b)
    BY <2>1 DEF Emitted, Elems, Carried
  <2>. QED
    BY <2>1, <2>2 DEF KeptInv, Carried
<1>2. CASE Credit(a) \/ Stall(a)
  <2>1. /\ UNCHANGED <<events, outBuf, data, sb, inTerms>>
        /\ pc[a] \in Behind /\ \A b \in Actors : b # a => pc'[b] = pc[b]
    BY <1>2 DEF Credit, Stall, TypeOK, Behind, outVars, sbVars, endVars
  <2>2. Emitted' = Emitted /\ Elems(outBuf)' = Elems(outBuf) /\ \A b : Carried(b)' = Carried(b)
    BY <2>1 DEF Emitted, Elems, Carried
  <2>. QED
    BY <2>1, <2>2 DEF KeptInv
<1>3. CASE QueueIdle(a)
  <2>1. outBuf' = outBuf /\ UNCHANGED <<inTerms, sb>> /\ Emit(data[a]) /\ pc[a] = "queue" /\ Return(a)
    BY <1>3 DEF QueueIdle, sbVars, endVars
  <2>2. Emitted' = Emitted \cup Elems(data[a])
    BY <2>1, Emits
  <2>. QED
    BY <2>1, <2>2, KeptReturns DEF Carried
<1>4. CASE QueueBatch(a)
  <2>1. UNCHANGED <<inTerms, sb>> /\ pc[a] = "queue" /\ Return(a)
    BY <1>4 DEF QueueBatch, sbVars, endVars
  <2>2. \/ Emit(outBuf \o data[a]) /\ outBuf' = <<>>
        \/ outBuf' = outBuf \o data[a] /\ UNCHANGED <<events, unacked>>
    BY <1>4 DEF QueueBatch, Batch, NoBatch
  <2>3. Elems(outBuf \o data[a]) = Elems(outBuf) \cup Elems(data[a])
    BY ElemsConcat
  <2>4. Emitted' \cup Elems(outBuf') = Emitted \cup Elems(outBuf) \cup Elems(data[a])
    <3>1. CASE Emit(outBuf \o data[a]) /\ outBuf' = <<>>
      <4>1. Emitted' = Emitted \cup Elems(outBuf \o data[a])
        BY <3>1, Emits
      <4>. QED
        BY <3>1, <4>1, <2>3, ElemsNone
    <3>2. CASE outBuf' = outBuf \o data[a] /\ UNCHANGED <<events, unacked>>
      <4>1. Emitted' = Emitted
        BY <3>2 DEF Emitted, Elems
      <4>. QED
        BY <3>2, <4>1, <2>3
    <3>. QED
      BY <2>2, <3>1, <3>2
  <2>. QED
    BY <2>1, <2>4, KeptReturns DEF Carried
<1>. QED
  BY <1>1, <1>2, <1>3, <1>4 DEF Handler

LEMMA KeptDrains ==
    ASSUME TypeOK, KeptInv, DrainBuffer, UNCHANGED <<inTerms, sb, pc, data>>
    PROVE  KeptInv'
<1>1. outBuf' = <<>> /\ Emitted' = Emitted \cup Elems(outBuf)
  BY DrainMoves
<1>2. \A b : Carried(b)' = Carried(b)
  BY DEF Carried, Elems
<1>. QED
  BY <1>1, <1>2, ElemsNone DEF KeptInv

LEMMA KeptReads ==
    ASSUME TypeOK, HandInv, KeptInv, NEW s \in Streams, ReadEarly(s) \/ Read(s) \/ ReadEOF(s)
    PROVE  KeptInv'
<1>. s \in Actors
  BY ActorsAre
<1>1. CASE ReadEarly(s)
  BY <1>1, KeptAlone DEF ReadEarly, outVars, sbVars, endVars
<1>2. CASE Read(s)
  <2>1. /\ UNCHANGED <<events, outBuf, sb, inTerms>> /\ pc'[s] \notin Behind
        /\ \A a \in Actors : a # s => data'[a] = data[a] /\ pc'[a] = pc[a]
    BY <1>2 DEF Read, TypeOK, Behind, outVars, sbVars, endVars
  <2>2. Emitted' = Emitted /\ Elems(outBuf)' = Elems(outBuf)
        /\ \A b \in Actors : b # s => Carried(b)' = Carried(b)
    BY <2>1 DEF Emitted, Elems, Carried
  <2>. QED
    BY <2>1, <2>2 DEF KeptInv
<1>3. CASE ReadEOF(s)
  <2>1. /\ UNCHANGED <<events, outBuf, sb, inTerms, data>> /\ pc'[s] \notin Behind
        /\ \A a \in Actors : a # s => pc'[a] = pc[a]
    BY <1>3 DEF ReadEOF, TypeOK, Behind, outVars, sbVars, endVars
  <2>2. Emitted' = Emitted /\ Elems(outBuf)' = Elems(outBuf) /\ \A b : Carried(b)' = Carried(b)
    BY <2>1 DEF Emitted, Elems, Carried
  <2>. QED
    BY <2>1, <2>2 DEF KeptInv
<1>. QED
  BY <1>1, <1>2, <1>3

LEMMA KeptOpens ==
    ASSUME TypeOK, KeptInv, OnData
    PROVE  KeptInv'
<1>. Opener \in Actors
  BY ActorsAre
<1>1. /\ UNCHANGED <<events, outBuf, sb, inTerms>> /\ pc'[Opener] \notin Behind
      /\ \A a \in Actors : a # Opener => data'[a] = data[a] /\ pc'[a] = pc[a]
  BY DEF OnData, TypeOK, Behind, outVars, sbVars, endVars
<1>2. Emitted' = Emitted /\ Elems(outBuf)' = Elems(outBuf)
      /\ \A b \in Actors : b # Opener => Carried(b)' = Carried(b)
  BY <1>1 DEF Emitted, Elems, Carried
<1>. QED
  BY <1>1, <1>2 DEF KeptInv

LEMMA KeptWaits ==
    ASSUME TypeOK, KeptInv, Waiter
    PROVE  KeptInv'
<1>1. CASE StartWaiter \/ WaiterWakes \/ WaiterReleases
  BY <1>1, KeptAlone DEF StartWaiter, WaiterWakes, WaiterReleases, Unlist, actorVars, outVars, sbVars
<1>2. CASE WaiterDrains
  BY <1>2, KeptDrains DEF WaiterDrains, actorVars, sbVars
<1>3. CASE WaiterNotifies
  <2>1. /\ UNCHANGED <<outBuf, sb, pc, data, inTerms>>
        /\ events' = Append(events, [kind |-> "closed", batch |-> <<>>])
    BY <1>3 DEF WaiterNotifies, actorVars, sbVars
  <2>2. [kind |-> "closed", batch |-> <<>>].batch = <<>>
    OBVIOUS
  <2>3. Emitted' = Emitted \cup Elems(<<>>)
    BY <2>1, <2>2, EventAdded
  <2>4. Elems(outBuf)' = Elems(outBuf) /\ \A b : Carried(b)' = Carried(b)
    BY <2>1 DEF Elems, Carried
  <2>. QED
    BY <2>1, <2>3, <2>4, ElemsNone DEF KeptInv
<1>. QED
  BY <1>1, <1>2, <1>3 DEF Waiter

LEMMA KeptStep == TypeOK /\ HandInv /\ EndInv /\ KeptInv /\ [Next]_vars => KeptInv'
<1>. SUFFICES ASSUME TypeOK, HandInv, EndInv, KeptInv, [Next]_vars PROVE KeptInv'
  OBVIOUS
<1>1. CASE UNCHANGED vars
  BY <1>1, KeptAlone DEF vars
<1>2. CASE Flush
  BY <1>2, FlushDrains, KeptDrains DEF actorVars, sbVars, endVars
<1>3. CASE \E n \in 1..unacked : TermAck(n)
  BY <1>3, KeptAlone DEF TermAck, actorVars, outVars, sbVars, endVars
<1>4. CASE RemoteExit \/ CloseTerminal \/ Closer
  BY <1>4, KeptAlone DEF RemoteExit, CloseTerminal, Closer, CloserFlags, CloserClosesSession,
     CloserClosesScrollback, Unlist, actorVars, outVars, sbVars, endVars
<1>. QED
  BY <1>1, <1>2, <1>3, <1>4, KeptReads, KeptOpens, KeptHandles, KeptWaits DEF Next

-----------------------------------------------------------------------------
(* The notice *)

LEMMA DrainAlone ==
    ASSUME DrainInv, UNCHANGED <<events, drained>>,
           waiter' = waiter \/ (waiter \notin {"woken", "drained", "released", "done"}
                                  /\ waiter' \notin {"drained", "released", "done"})
                            \/ (waiter = "drained" /\ waiter' = "released")
    PROVE  DrainInv'
<1>1. Emitted' = Emitted
  BY DEF Emitted, Elems
<1>2. DrainedBeforeClosed'
  BY DEF DrainInv, DrainedBeforeClosed, Elems
<1>. QED
  BY <1>1, <1>2 DEF DrainInv

\* Output that follows the notice changes nothing before it.
LEMMA DrainEmits ==
    ASSUME TypeOK, DrainInv, NEW b, Emit(b), UNCHANGED <<waiter, drained>>
    PROVE  DrainInv'
<1>1. /\ Len(events) \in Nat
      /\ DOMAIN events = 1..Len(events) /\ DOMAIN events' = 1..(Len(events) + 1)
      /\ \A i \in DOMAIN events : events'[i] = events[i] /\ Out(i)' = Out(i)
      /\ \A n \in DOMAIN events' :
           n \notin DOMAIN events =>
             events'[n] = [kind |-> "data", batch |-> b] /\ Out(n)' = Elems(b)
      /\ Emitted' = Emitted \cup Elems(b)
  BY Emits
<1>2. \A j \in DOMAIN events' : events'[j].kind = "closed" => j \in DOMAIN events /\ events[j].kind = "closed"
  BY <1>1
<1>3. ASSUME NEW j \in DOMAIN events', events'[j].kind = "closed"
      PROVE  drained' \subseteq UNION { Elems(events'[i].batch) : i \in 1 .. j }
  <2>1. j \in 1..Len(events) /\ drained \subseteq UNION { Elems(events[i].batch) : i \in 1 .. j }
    BY <1>1, <1>2, <1>3 DEF DrainInv, DrainedBeforeClosed
  <2>2. \A i \in 1..j : Elems(events'[i].batch) = Elems(events[i].batch)
    BY <1>1, <2>1
  <2>. QED
    BY <2>1, <2>2
<1>4. DrainedBeforeClosed'
  BY <1>3 DEF DrainedBeforeClosed
<1>. QED
  BY <1>1, <1>2, <1>4 DEF DrainInv

LEMMA DrainFlushes ==
    ASSUME TypeOK, DrainInv, DrainBuffer, UNCHANGED <<waiter, drained>>
    PROVE  DrainInv'
<1>1. CASE outBuf = <<>>
  BY <1>1, DrainAlone DEF DrainBuffer
<1>2. CASE outBuf # <<>>
  BY <1>2, DrainEmits DEF DrainBuffer
<1>. QED
  BY <1>1, <1>2

LEMMA DrainWaits ==
    ASSUME TypeOK, DrainInv, Waiter
    PROVE  DrainInv'
<1>1. CASE StartWaiter \/ WaiterWakes \/ WaiterReleases
  BY <1>1, DrainAlone DEF StartWaiter, WaiterWakes, WaiterReleases, outVars
<1>2. CASE WaiterDrains
  <2>1. waiter = "woken" /\ waiter' = "drained" /\ drained' = Emitted \cup Elems(outBuf) /\ DrainBuffer
    BY <1>2 DEF WaiterDrains
  <2>2. \A j \in DOMAIN events : events[j].kind # "closed"
    BY <2>1 DEF DrainInv
  <2>3. \A j \in DOMAIN events' : events'[j].kind # "closed"
    <3>1. CASE outBuf = <<>>
      BY <2>1, <2>2, <3>1 DEF DrainBuffer
    <3>2. CASE outBuf # <<>>
      <4>1. Emit(outBuf)
        BY <2>1, <3>2 DEF DrainBuffer
      <4>2. /\ \A i \in DOMAIN events : events'[i] = events[i]
            /\ \A n \in DOMAIN events' :
                 n \notin DOMAIN events => events'[n] = [kind |-> "data", batch |-> outBuf]
        BY <4>1, Emits
      <4>. QED
        BY <2>2, <4>2
    <3>. QED
      BY <3>1, <3>2
  <2>4. Emitted' = Emitted \cup Elems(outBuf)
    BY <2>1, DrainMoves
  <2>5. DrainedBeforeClosed'
    BY <2>3 DEF DrainedBeforeClosed
  <2>. QED
    BY <2>1, <2>3, <2>4, <2>5 DEF DrainInv
<1>3. CASE WaiterNotifies
  <2>1. /\ waiter = "released" /\ waiter' = "done" /\ drained' = drained
        /\ events' = Append(events, [kind |-> "closed", batch |-> <<>>])
    BY <1>3 DEF WaiterNotifies
  <2>2. drained \subseteq Emitted /\ \A j \in DOMAIN events : events[j].kind # "closed"
    BY <2>1 DEF DrainInv
  <2>3. /\ Len(events) \in Nat
        /\ DOMAIN events = 1..Len(events) /\ DOMAIN events' = 1..(Len(events) + 1)
        /\ \A i \in DOMAIN events : events'[i] = events[i] /\ Out(i)' = Out(i)
        /\ Emitted \subseteq Emitted'
    BY <2>1, EventAdded
  <2>4. ASSUME NEW j \in DOMAIN events', events'[j].kind = "closed"
        PROVE  drained' \subseteq UNION { Elems(events'[i].batch) : i \in 1 .. j }
    <3>1. j = Len(events) + 1
      BY <2>2, <2>3, <2>4
    <3>2. 1..j = DOMAIN events'
      BY <2>3, <3>1
    <3>3. Emitted' = UNION { Elems(events'[i].batch) : i \in 1..j }
      BY <3>2 DEF Emitted
    <3>. QED
      BY <2>1, <2>2, <2>3, <3>3
  <2>5. DrainedBeforeClosed'
    BY <2>4 DEF DrainedBeforeClosed
  <2>. QED
    BY <2>1, <2>2, <2>3, <2>5 DEF DrainInv
<1>. QED
  BY <1>1, <1>2, <1>3 DEF Waiter

LEMMA DrainStep == TypeOK /\ DrainInv /\ [Next]_vars => DrainInv'
<1>. SUFFICES ASSUME TypeOK, DrainInv, [Next]_vars PROVE DrainInv'
  OBVIOUS
<1>1. CASE UNCHANGED vars
  BY <1>1, DrainAlone DEF vars
<1>2. CASE \E s \in Streams : ReadEarly(s) \/ Read(s) \/ ReadEOF(s)
  BY <1>2, DrainAlone DEF ReadEarly, Read, ReadEOF, outVars, endVars
<1>3. CASE OnData
  BY <1>3, DrainAlone DEF OnData, outVars, endVars
<1>4. ASSUME NEW a \in Actors, Handler(a) PROVE DrainInv'
  <2>1. CASE KeepOutput(a) \/ Credit(a) \/ Stall(a)
    BY <2>1, DrainAlone DEF KeepOutput, Credit, Stall, outVars, endVars
  <2>2. CASE QueueIdle(a)
    BY <2>2, DrainEmits DEF QueueIdle, endVars
  <2>3. CASE QueueBatch(a)
    <3>1. \/ Emit(outBuf \o data[a])
          \/ UNCHANGED events
      BY <2>3 DEF QueueBatch, Batch, NoBatch
    <3>2. UNCHANGED <<waiter, drained>>
      BY <2>3 DEF QueueBatch, endVars
    <3>. QED
      BY <3>1, <3>2, DrainEmits, DrainAlone
  <2>. QED
    BY <1>4, <2>1, <2>2, <2>3 DEF Handler
<1>5. CASE Flush
  BY <1>5, FlushDrains, DrainFlushes DEF endVars
<1>6. CASE \E n \in 1..unacked : TermAck(n)
  BY <1>6, DrainAlone DEF TermAck, outVars, endVars
<1>7. CASE RemoteExit \/ CloseTerminal \/ Closer
  BY <1>7, DrainAlone DEF RemoteExit, CloseTerminal, Closer, CloserFlags, CloserClosesSession,
     CloserClosesScrollback, outVars, endVars
<1>. QED
  BY <1>1, <1>2, <1>3, <1>4, <1>5, <1>6, <1>7, DrainWaits DEF Next

LEMMA EndInit == Init => EndInv /\ KeptInv /\ DrainInv
<1>. SUFFICES ASSUME Init PROVE EndInv /\ KeptInv /\ DrainInv
  OBVIOUS
<1>1. EndInv
  BY DEF Init, EndInv
<1>2. events = <<>> /\ outBuf = <<>> /\ waiter = "none" /\ \A a \in Actors : pc[a] = "read"
  BY DEF Init
<1>3. DOMAIN events = {}
  BY <1>2
<1>4. Emitted = {} /\ Elems(outBuf) = {}
  BY <1>2, <1>3, ElemsNone DEF Emitted
<1>5. KeptInv
  BY <1>2, <1>4 DEF KeptInv, Behind
<1>6. DrainInv
  BY <1>2, <1>3 DEF DrainInv, DrainedBeforeClosed
<1>. QED
  BY <1>1, <1>5, <1>6

-----------------------------------------------------------------------------
(* One place for each chunk *)

LEMMA PlaceAlone ==
    ASSUME PlaceInv, UNCHANGED <<pending, outBuf, data, events, dropped, reads>>
    PROVE  PlaceInv'
<1>1. /\ Emitted' = Emitted /\ Hands' = Hands /\ Elems(pending)' = Elems(pending)
      /\ Elems(outBuf)' = Elems(outBuf) /\ \A a : Carried(a)' = Carried(a)
      /\ \A i : Out(i)' = Out(i)
      /\ \A c : Came(c)' = Came(c)
  BY DEF Emitted, Hands, Carried, Elems, Out, Came
<1>2. HeldOnce' /\ SentOnce'
  BY <1>1 DEF PlaceInv, HeldOnce, SentOnce
<1>3. Apart' /\ AllHere'
  BY <1>1 DEF PlaceInv, Apart, AllHere
<1>. QED
  BY <1>2, <1>3 DEF PlaceInv

\* What is where, as sets of chunks.
LEMMA PlaceTypes ==
    ASSUME TypeOK
    PROVE  /\ Elems(pending) \subseteq Chunks /\ Elems(outBuf) \subseteq Chunks
           /\ dropped \subseteq Chunks /\ Emitted \subseteq Chunks /\ Hands \subseteq Chunks
           /\ \A a \in Actors : Carried(a) \subseteq Hands /\ Carried(a) \subseteq Chunks
<1>1. \A a \in Actors : Carried(a) \subseteq Chunks
  BY ElemsOf DEF TypeOK, Carried
<1>2. Hands \subseteq Chunks /\ \A a \in Actors : Carried(a) \subseteq Hands
  BY <1>1 DEF Hands
<1>. QED
  BY <1>1, <1>2, ElemsOf, EmittedAre DEF TypeOK

LEMMA ChunkIs ==
    ASSUME NEW c \in Chunks
    PROVE  \E s \in Streams : \E i \in 1..MaxChunks[s] :
             c = <<s, i>> /\ i \in Nat /\ MaxChunks[s] \in Nat /\ c[1] = s /\ c[2] = i
<1>1. PICK s \in Streams : c \in { <<s, i>> : i \in 1..MaxChunks[s] }
  BY DEF Chunks
<1>2. PICK i \in 1..MaxChunks[s] : c = <<s, i>>
  BY <1>1
<1>3. MaxChunks[s] \in Nat /\ i \in Nat
  BY BoundsAssumption
<1>. QED
  BY <1>2, <1>3

\* One Read makes one more chunk come.
LEMMA CameNext ==
    ASSUME TypeOK, NEW s \in Streams, reads[s] < MaxChunks[s],
           reads' = [reads EXCEPT ![s] = @ + 1]
    PROVE  /\ ~Came(<<s, reads'[s]>>)
           /\ \A c \in Chunks : Came(c)' <=> Came(c) \/ c = <<s, reads'[s]>>
<1>1. /\ reads[s] \in Nat /\ reads'[s] = reads[s] + 1
      /\ \A t \in Streams : t # s => reads'[t] = reads[t]
  BY ReadGets
<1>2. ~Came(<<s, reads'[s]>>)
  BY <1>1 DEF Came
<1>3. ASSUME NEW c \in Chunks PROVE Came(c)' <=> Came(c) \/ c = <<s, reads'[s]>>
  <2>1. PICK t \in Streams : \E i \in 1..MaxChunks[t] :
             c = <<t, i>> /\ i \in Nat /\ MaxChunks[t] \in Nat /\ c[1] = t /\ c[2] = i
    BY ChunkIs
  <2>a. PICK i \in 1..MaxChunks[t] :
             c = <<t, i>> /\ i \in Nat /\ MaxChunks[t] \in Nat /\ c[1] = t /\ c[2] = i
    BY <2>1
  <2>2. MaxChunks[t] \in Nat /\ i \in Nat /\ c[1] = t /\ c[2] = i /\ c = <<t, i>>
    BY <2>a
  <2>3. (Came(c)' <=> i <= reads'[t]) /\ (Came(c) <=> i <= reads[t])
    BY <2>2 DEF Came
  <2>4. CASE t = s
    <3>1. c = <<s, reads'[s]>> <=> i = reads[s] + 1
      BY <1>1, <2>2, <2>4
    <3>. QED
      BY <1>1, <2>2, <2>3, <2>4, <3>1
  <2>5. CASE t # s
    BY <1>1, <2>2, <2>3, <2>5
  <2>. QED
    BY <2>4, <2>5
<1>. QED
  BY <1>2, <1>3

\* A reader takes what none of them has.
LEMMA HandsTake ==
    ASSUME TypeOK, HeldOnce, NEW a \in Actors, NEW b \in Seq(Chunks),
           data' = [data EXCEPT ![a] = b], Carried(a) = {},
           IsInjective(b), Elems(b) \cap Hands = {}
    PROVE  HeldOnce' /\ Hands' = Hands \cup Elems(b)
<1>1. /\ data'[a] = b /\ Carried(a)' = Elems(b)
      /\ \A x \in Actors : x # a => data'[x] = data[x] /\ Carried(x)' = Carried(x)
  BY DEF TypeOK, Carried, Elems
<1>2. \A x \in Actors : Carried(x) \subseteq Hands
  BY DEF Hands
<1>3. \A c : c \in Hands <=> \E x \in Actors : c \in Carried(x)
  BY DEF Hands
<1>4. \A c : c \in Hands' <=> \E x \in Actors : c \in Carried(x)'
  BY DEF Hands
<1>5. Hands' = Hands \cup Elems(b)
  BY <1>1, <1>3, <1>4
<1>6. \A x \in Actors : IsInjective(data'[x])
  BY <1>1 DEF HeldOnce
<1>7. \A x, y \in Actors : x # y => Carried(x)' \cap Carried(y)' = {}
  BY <1>1, <1>2 DEF HeldOnce
<1>. QED
  BY <1>5, <1>6, <1>7 DEF HeldOnce

\* A reader gives away what no other has.
LEMMA HandsGive ==
    ASSUME TypeOK, HeldOnce, NEW a \in Actors, Return(a)
    PROVE  HeldOnce' /\ Hands = Hands' \cup Carried(a) /\ Hands' \cap Carried(a) = {}
<1>1. /\ data'[a] = <<>> /\ Carried(a)' = {}
      /\ \A x \in Actors : x # a => data'[x] = data[x] /\ Carried(x)' = Carried(x)
  BY ElemsNone DEF TypeOK, Carried, Return
<1>3. \A c : c \in Hands <=> \E x \in Actors : c \in Carried(x)
  BY DEF Hands
<1>4. \A c : c \in Hands' <=> \E x \in Actors : c \in Carried(x)'
  BY DEF Hands
<1>5. Hands = Hands' \cup Carried(a)
  BY <1>1, <1>3, <1>4
<1>6. Hands' \cap Carried(a) = {}
  BY <1>1, <1>4 DEF HeldOnce
<1>7. \A x \in Actors : IsInjective(data'[x])
  BY <1>1, ElemsNone DEF HeldOnce
<1>8. \A x, y \in Actors : x # y => Carried(x)' \cap Carried(y)' = {}
  BY <1>1 DEF HeldOnce
<1>. QED
  BY <1>5, <1>6, <1>7, <1>8 DEF HeldOnce

\* An event with chunks that none before it had.
LEMMA SentAdds ==
    ASSUME TypeOK, SentOnce, NEW e, events' = Append(events, e),
           IsInjective(e.batch), Elems(e.batch) \cap Emitted = {}
    PROVE  SentOnce' /\ Emitted' = Emitted \cup Elems(e.batch)
<1>1. /\ Len(events) \in Nat
      /\ DOMAIN events = 1..Len(events) /\ DOMAIN events' = 1..(Len(events) + 1)
      /\ \A i \in DOMAIN events : events'[i] = events[i] /\ Out(i)' = Out(i)
      /\ \A n \in DOMAIN events' : n \notin DOMAIN events => events'[n] = e /\ Out(n)' = Elems(e.batch)
      /\ Emitted' = Emitted \cup Elems(e.batch)
  BY EventAdded
<1>2. \A n, m \in DOMAIN events' : n \notin DOMAIN events /\ m \notin DOMAIN events => n = m
  BY <1>1
<1>3. \A i \in DOMAIN events : Out(i) \subseteq Emitted
  BY EmittedIs
<1>4. \A i \in DOMAIN events' : IsInjective(events'[i].batch)
  BY <1>1 DEF SentOnce
<1>5. ASSUME NEW i \in DOMAIN events', NEW j \in DOMAIN events', i # j
      PROVE  Out(i)' \cap Out(j)' = {}
  <2>1. CASE i \in DOMAIN events /\ j \in DOMAIN events
    BY <1>1, <1>5, <2>1 DEF SentOnce
  <2>2. CASE i \in DOMAIN events /\ j \notin DOMAIN events
    BY <1>1, <1>3, <2>2
  <2>3. CASE i \notin DOMAIN events /\ j \in DOMAIN events
    BY <1>1, <1>3, <2>3
  <2>. QED
    BY <1>2, <1>5, <2>1, <2>2, <2>3
<1>. QED
  BY <1>1, <1>4, <1>5 DEF SentOnce

LEMMA SentEmits ==
    ASSUME TypeOK, SentOnce, NEW b, Emit(b), IsInjective(b), Elems(b) \cap Emitted = {}
    PROVE  SentOnce' /\ Emitted' = Emitted \cup Elems(b)
<1>1. events' = Append(events, [kind |-> "data", batch |-> b])
  BY DEF Emit
<1>2. [kind |-> "data", batch |-> b].batch = b
  OBVIOUS
<1>. QED
  BY <1>1, <1>2, SentAdds

LEMMA SentAlone ==
    ASSUME SentOnce, UNCHANGED events
    PROVE  SentOnce' /\ Emitted' = Emitted
BY DEF SentOnce, Out, Emitted, Elems

LEMMA HeldAlone ==
    ASSUME HeldOnce, UNCHANGED data
    PROVE  HeldOnce' /\ Hands' = Hands
BY DEF HeldOnce, Hands, Carried, Elems

\* The Read that finds no handler.
LEMMA PendPlaces ==
    ASSUME TypeOK, NEW c \in Chunks, Pend(c), IsInjective(pending),
           c \notin Elems(pending) \cup dropped, Elems(pending) \cap dropped = {}
    PROVE  /\ IsInjective(pending') /\ Elems(pending') \cap dropped' = {}
           /\ Elems(pending') \cup dropped' = Elems(pending) \cup dropped \cup {c}
<1>1. pending \in Seq(Chunks)
  BY DEF TypeOK
<1>. DEFINE all == Append(pending, c)
<1>2. all \in Seq(Chunks) /\ Len(all) = Len(pending) + 1 /\ Len(pending) \in Nat
      /\ Elems(all) = Elems(pending) \cup {c} /\ IsInjective(all)
  BY <1>1, ElemsAppend, ElemsOf
<1>3. all # <<>>
  BY <1>2, EmptySeq
<1>4. \/ pending' = Tail(all) /\ dropped' = dropped \cup {Head(all)}
      \/ pending' = all /\ dropped' = dropped
  BY DEF Pend
<1>. HIDE DEF all
<1>5. /\ Elems(all) = Elems(Tail(all)) \cup {Head(all)}
      /\ IsInjective(Tail(all)) /\ Head(all) \notin Elems(Tail(all))
  BY <1>2, <1>3, ElemsTail
<1>6. CASE pending' = all /\ dropped' = dropped
  BY <1>2, <1>6
<1>7. CASE pending' = Tail(all) /\ dropped' = dropped \cup {Head(all)}
  BY <1>2, <1>5, <1>7
<1>. QED
  BY <1>4, <1>6, <1>7

LEMMA PlaceReads ==
    ASSUME TypeOK, HandInv, PlaceInv, NEW s \in Streams, ReadEarly(s) \/ Read(s) \/ ReadEOF(s)
    PROVE  PlaceInv'
<1>. s \in Actors
  BY ActorsAre
<1>. DEFINE c == <<s, reads'[s]>>
<1>1. CASE ReadEarly(s) \/ Read(s)
  <2>1. c \in Chunks /\ ~Came(c) /\ \A d \in Chunks : Came(d)' <=> Came(d) \/ d = c
    BY <1>1, ReadGets, CameNext DEF ReadEarly, Read
  <2>. HIDE DEF c
  <2>2. c \notin Elems(pending) \cup dropped \cup Elems(outBuf) \cup Hands \cup Emitted
    BY <2>1 DEF PlaceInv, AllHere
  <2>3. UNCHANGED <<outBuf, events>>
    BY <1>1 DEF ReadEarly, Read, outVars
  <2>4. SentOnce' /\ Emitted' = Emitted
    BY <2>3, SentAlone DEF PlaceInv
  <2>5. CASE ReadEarly(s)
    <3>1. Pend(c) /\ data' = data
      BY <2>5 DEF ReadEarly, c
    <3>2. /\ IsInjective(pending') /\ Elems(pending') \cap dropped' = {}
          /\ Elems(pending') \cup dropped' = Elems(pending) \cup dropped \cup {c}
      BY <2>1, <2>2, <3>1, PendPlaces DEF PlaceInv, Apart
    <3>3. HeldOnce' /\ Hands' = Hands
      BY <3>1, HeldAlone DEF PlaceInv
    <3>4. Apart'
      BY <2>2, <2>3, <2>4, <3>2, <3>3 DEF PlaceInv, Apart
    <3>5. AllHere'
      BY <2>1, <2>3, <2>4, <3>2, <3>3 DEF PlaceInv, AllHere
    <3>. QED
      BY <2>3, <2>4, <3>2, <3>3, <3>4, <3>5 DEF PlaceInv
  <2>6. CASE Read(s)
    <3>1. data' = [data EXCEPT ![s] = <<c>>] /\ UNCHANGED <<pending, dropped>> /\ pc[s] = "read"
      BY <2>6 DEF Read, c, sessVars, auxVars
    <3>2. data[s] = <<>>
      BY <3>1 DEF HandInv
    <3>3. Carried(s) = {}
      BY <3>2, ElemsNone DEF Carried
    <3>4. <<c>> \in Seq(Chunks) /\ Elems(<<c>>) = {c} /\ IsInjective(<<c>>)
      BY <2>1, ElemsOne
    <3>5. HeldOnce' /\ Hands' = Hands \cup {c}
      BY <2>2, <3>1, <3>3, <3>4, HandsTake DEF PlaceInv
    <3>6. Apart'
      BY <2>2, <2>3, <2>4, <3>1, <3>5 DEF PlaceInv, Apart
    <3>7. AllHere'
      BY <2>1, <2>3, <2>4, <3>1, <3>5 DEF PlaceInv, AllHere
    <3>. QED
      BY <2>3, <2>4, <3>1, <3>5, <3>6, <3>7 DEF PlaceInv
  <2>. QED
    BY <1>1, <2>5, <2>6
<1>2. CASE ReadEOF(s)
  BY <1>2, PlaceAlone DEF ReadEOF, sessVars, outVars, auxVars
<1>. QED
  BY <1>1, <1>2

LEMMA PlaceOpens ==
    ASSUME TypeOK, HandInv, PlaceInv, OnData
    PROVE  PlaceInv'
<1>. Opener \in Actors
  BY ActorsAre
<1>1. /\ data' = [data EXCEPT ![Opener] = pending] /\ pending' = <<>>
      /\ UNCHANGED <<outBuf, events, dropped, reads>> /\ pc[Opener] = "read"
  BY DEF OnData, outVars
<1>2. data[Opener] = <<>>
  BY <1>1 DEF HandInv
<1>3. Carried(Opener) = {}
  BY <1>2, ElemsNone DEF Carried
<1>4. pending \in Seq(Chunks) /\ IsInjective(pending) /\ Elems(pending) \cap Hands = {}
  BY DEF TypeOK, PlaceInv, Apart
<1>5. HeldOnce' /\ Hands' = Hands \cup Elems(pending)
  BY <1>1, <1>3, <1>4, HandsTake DEF PlaceInv
<1>6. SentOnce' /\ Emitted' = Emitted
  BY <1>1, SentAlone DEF PlaceInv
<1>7. Elems(pending') = {} /\ IsInjective(pending')
  BY <1>1, ElemsNone
<1>8. \A c : Came(c)' = Came(c)
  BY <1>1 DEF Came
<1>9. Apart'
  BY <1>1, <1>5, <1>6, <1>7 DEF PlaceInv, Apart
<1>10. AllHere'
  BY <1>1, <1>5, <1>6, <1>7, <1>8 DEF PlaceInv, AllHere
<1>. QED
  BY <1>1, <1>5, <1>6, <1>7, <1>9, <1>10 DEF PlaceInv

LEMMA PlaceHandles ==
    ASSUME TypeOK, PlaceInv, NEW a \in Actors, Handler(a)
    PROVE  PlaceInv'
<1>1. CASE KeepOutput(a) \/ Credit(a) \/ Stall(a)
  BY <1>1, PlaceAlone DEF KeepOutput, Credit, Stall, sessVars, outVars, auxVars
<1>2. CASE QueueIdle(a) \/ QueueBatch(a)
  <2>1. Return(a) /\ UNCHANGED <<pending, dropped, reads>>
    BY <1>2 DEF QueueIdle, QueueBatch, sessVars, auxVars
  <2>2. HeldOnce' /\ Hands = Hands' \cup Carried(a) /\ Hands' \cap Carried(a) = {}
    BY <2>1, HandsGive DEF PlaceInv
  <2>3. \A c : Came(c)' = Came(c)
    BY <2>1 DEF Came
  <2>4. /\ Carried(a) = Elems(data[a]) /\ IsInjective(data[a]) /\ data[a] \in Seq(Chunks)
        /\ outBuf \in Seq(Chunks)
    BY DEF PlaceInv, HeldOnce, TypeOK, Carried
  <2>5. /\ Elems(outBuf) \cap Carried(a) = {} /\ Emitted \cap (Elems(outBuf) \cup Carried(a)) = {}
    BY <2>2 DEF PlaceInv, Apart
  <2>6. CASE outBuf' = outBuf /\ Emit(data[a])
    <3>1. SentOnce' /\ Emitted' = Emitted \cup Carried(a)
      BY <2>4, <2>5, <2>6, SentEmits DEF PlaceInv
    <3>2. Apart'
      BY <2>1, <2>2, <2>6, <3>1 DEF PlaceInv, Apart
    <3>3. AllHere'
      BY <2>1, <2>2, <2>3, <2>6, <3>1 DEF PlaceInv, AllHere
    <3>. QED
      BY <2>1, <2>2, <2>6, <3>1, <3>2, <3>3 DEF PlaceInv
  <2>. DEFINE all == outBuf \o data[a]
  <2>7. Elems(all) = Elems(outBuf) \cup Carried(a) /\ IsInjective(all)
    BY <2>4, <2>5, ElemsConcat DEF PlaceInv
  <2>. HIDE DEF all
  <2>8. CASE outBuf' = <<>> /\ Emit(all)
    <3>1. SentOnce' /\ Emitted' = Emitted \cup Elems(outBuf) \cup Carried(a)
      BY <2>5, <2>7, <2>8, SentEmits DEF PlaceInv
    <3>2. Elems(outBuf') = {} /\ IsInjective(outBuf')
      BY <2>8, ElemsNone
    <3>3. Apart'
      BY <2>1, <2>2, <3>1, <3>2 DEF PlaceInv, Apart
    <3>4. AllHere'
      BY <2>1, <2>2, <2>3, <3>1, <3>2 DEF PlaceInv, AllHere
    <3>. QED
      BY <2>1, <2>2, <3>1, <3>2, <3>3, <3>4 DEF PlaceInv
  <2>9. CASE outBuf' = all /\ UNCHANGED events
    <3>1. SentOnce' /\ Emitted' = Emitted
      BY <2>9, SentAlone DEF PlaceInv
    <3>2. Elems(outBuf') = Elems(outBuf) \cup Carried(a) /\ IsInjective(outBuf')
      BY <2>7, <2>9
    <3>3. Apart'
      BY <2>1, <2>2, <2>5, <3>1, <3>2 DEF PlaceInv, Apart
    <3>4. AllHere'
      BY <2>1, <2>2, <2>3, <3>1, <3>2 DEF PlaceInv, AllHere
    <3>. QED
      BY <2>1, <2>2, <3>1, <3>2, <3>3, <3>4 DEF PlaceInv
  <2>10. \/ outBuf' = outBuf /\ Emit(data[a])
         \/ outBuf' = <<>> /\ Emit(all)
         \/ outBuf' = all /\ UNCHANGED events
    BY <1>2 DEF QueueIdle, QueueBatch, Batch, NoBatch, all
  <2>. QED
    BY <2>6, <2>8, <2>9, <2>10
<1>. QED
  BY <1>1, <1>2 DEF Handler

LEMMA PlaceDrains ==
    ASSUME TypeOK, PlaceInv, DrainBuffer, UNCHANGED <<pending, data, dropped, reads>>
    PROVE  PlaceInv'
<1>1. CASE outBuf = <<>>
  BY <1>1, PlaceAlone DEF DrainBuffer
<1>2. CASE outBuf # <<>>
  <2>1. Emit(outBuf) /\ outBuf' = <<>>
    BY <1>2 DEF DrainBuffer
  <2>2. SentOnce' /\ Emitted' = Emitted \cup Elems(outBuf)
    BY <2>1, SentEmits DEF PlaceInv, Apart
  <2>3. HeldOnce' /\ Hands' = Hands
    BY HeldAlone DEF PlaceInv
  <2>4. Elems(outBuf') = {} /\ IsInjective(outBuf') /\ \A c : Came(c)' = Came(c)
    BY <2>1, ElemsNone DEF Came
  <2>5. Apart'
    BY <2>2, <2>3, <2>4 DEF PlaceInv, Apart
  <2>6. AllHere'
    BY <2>2, <2>3, <2>4 DEF PlaceInv, AllHere
  <2>. QED
    BY <2>2, <2>3, <2>4, <2>5, <2>6 DEF PlaceInv
<1>. QED
  BY <1>1, <1>2

LEMMA PlaceWaits ==
    ASSUME TypeOK, PlaceInv, Waiter
    PROVE  PlaceInv'
<1>1. CASE StartWaiter \/ WaiterWakes \/ WaiterReleases
  BY <1>1, PlaceAlone DEF StartWaiter, WaiterWakes, WaiterReleases, sessVars, actorVars, outVars, auxVars
<1>2. CASE WaiterDrains
  BY <1>2, PlaceDrains DEF WaiterDrains, sessVars, actorVars, auxVars
<1>3. CASE WaiterNotifies
  <2>1. /\ UNCHANGED <<pending, outBuf, data, dropped, reads>>
        /\ events' = Append(events, [kind |-> "closed", batch |-> <<>>])
    BY <1>3 DEF WaiterNotifies, sessVars, actorVars, auxVars
  <2>2. [kind |-> "closed", batch |-> <<>>].batch = <<>>
    OBVIOUS
  <2>3. SentOnce' /\ Emitted' = Emitted
    BY <2>1, <2>2, SentAdds, ElemsNone DEF PlaceInv
  <2>4. HeldOnce' /\ Hands' = Hands
    BY <2>1, HeldAlone DEF PlaceInv
  <2>5. \A c : Came(c)' = Came(c)
    BY <2>1 DEF Came
  <2>6. Apart' /\ AllHere'
    BY <2>1, <2>3, <2>4, <2>5 DEF PlaceInv, Apart, AllHere
  <2>. QED
    BY <2>1, <2>3, <2>4, <2>6 DEF PlaceInv
<1>. QED
  BY <1>1, <1>2, <1>3 DEF Waiter

LEMMA PlaceInit == Init => PlaceInv
<1>. SUFFICES ASSUME Init PROVE PlaceInv
  OBVIOUS
<1>1. /\ pending = <<>> /\ outBuf = <<>> /\ events = <<>> /\ dropped = {}
      /\ \A a \in Actors : data[a] = <<>>
      /\ \A s \in Streams : reads[s] = 0
  BY DEF Init
<1>2. DOMAIN events = {}
  BY <1>1
<1>3. \A a \in Actors : Carried(a) = {}
  BY <1>1, ElemsNone DEF Carried
<1>4. Hands = {} /\ Emitted = {} /\ Elems(pending) = {} /\ Elems(outBuf) = {}
  BY <1>1, <1>2, <1>3, ElemsNone DEF Hands, Emitted
<1>5. ASSUME NEW c \in Chunks PROVE ~Came(c)
  <2>1. c[1] \in Streams /\ c[2] \in Nat /\ c[2] >= 1
    BY ChunkIs, BoundsAssumption
  <2>. QED
    BY <1>1, <2>1 DEF Came
<1>6. HeldOnce /\ SentOnce
  BY <1>1, <1>2, <1>3, ElemsNone DEF HeldOnce, SentOnce
<1>7. Apart /\ AllHere
  BY <1>1, <1>4, <1>5 DEF Apart, AllHere
<1>. QED
  BY <1>1, <1>6, <1>7, ElemsNone DEF PlaceInv

LEMMA PlaceStep == TypeOK /\ HandInv /\ PlaceInv /\ [Next]_vars => PlaceInv'
<1>. SUFFICES ASSUME TypeOK, HandInv, PlaceInv, [Next]_vars PROVE PlaceInv'
  OBVIOUS
<1>1. CASE UNCHANGED vars
  BY <1>1, PlaceAlone DEF vars
<1>2. CASE Flush
  BY <1>2, FlushDrains, PlaceDrains DEF sessVars, actorVars, auxVars
<1>3. CASE \E n \in 1..unacked : TermAck(n)
  BY <1>3, PlaceAlone DEF TermAck, sessVars, actorVars, outVars, auxVars
<1>4. CASE RemoteExit \/ CloseTerminal \/ Closer
  BY <1>4, PlaceAlone DEF RemoteExit, CloseTerminal, Closer, CloserFlags, CloserClosesSession,
     CloserClosesScrollback, sessVars, actorVars, outVars, auxVars
<1>. QED
  BY <1>1, <1>2, <1>3, <1>4, PlaceReads, PlaceOpens, PlaceHandles, PlaceWaits DEF Next

-----------------------------------------------------------------------------
(* One timer *)

LEMMA TimerStep == TypeOK /\ OneTimer /\ [Next]_vars => OneTimer'
<1>. SUFFICES ASSUME TypeOK, OneTimer, [Next]_vars PROVE OneTimer'
  OBVIOUS
<1>. outBuf \in Seq(Chunks) /\ outPending \in BOOLEAN /\ timers \in Nat
  BY DEF TypeOK
<1>1. ASSUME UNCHANGED <<outPending, outBuf, timers>> PROVE OneTimer'
  BY <1>1 DEF OneTimer
<1>2. CASE UNCHANGED vars
  BY <1>1, <1>2 DEF vars
<1>3. CASE \E s \in Streams : ReadEarly(s) \/ Read(s) \/ ReadEOF(s)
  BY <1>1, <1>3 DEF ReadEarly, Read, ReadEOF, outVars
<1>4. CASE OnData
  BY <1>1, <1>4 DEF OnData, outVars
<1>5. ASSUME NEW a \in Actors, Handler(a) PROVE OneTimer'
  <2>1. CASE KeepOutput(a) \/ Credit(a) \/ Stall(a)
    BY <1>1, <2>1 DEF KeepOutput, Credit, Stall, outVars
  <2>2. CASE QueueIdle(a)
    BY <2>2 DEF QueueIdle, Idle, OneTimer
  <2>3. CASE QueueBatch(a)
    BY <2>3 DEF QueueBatch, Idle, OneTimer
  <2>. QED
    BY <1>5, <2>1, <2>2, <2>3 DEF Handler
<1>6. CASE Flush
  <2>1. /\ timers > 0
        /\ \/ outBuf = <<>> /\ outPending' = FALSE /\ timers' = timers - 1
           \/ outBuf # <<>> /\ outPending' = outPending /\ timers' = timers
    BY <1>6, FlushDrains
  <2>2. outBuf' = <<>>
    BY <1>6, FlushDrains, DrainMoves
  <2>3. outPending /\ timers = 1
    BY <2>1 DEF OneTimer
  <2>4. CASE outBuf = <<>>
    <3>1. outPending' = FALSE /\ timers' = 0
      BY <2>1, <2>3, <2>4
    <3>. QED
      BY <2>2, <3>1 DEF OneTimer
  <2>5. CASE outBuf # <<>>
    <3>1. outPending' /\ timers' = 1
      BY <2>1, <2>3, <2>5
    <3>. QED
      BY <2>2, <3>1 DEF OneTimer
  <2>. QED
    BY <2>4, <2>5
<1>7. CASE \E n \in 1..unacked : TermAck(n)
  BY <1>1, <1>7 DEF TermAck, outVars
<1>8. CASE Waiter
  <2>1. CASE StartWaiter \/ WaiterWakes \/ WaiterReleases \/ WaiterNotifies
    BY <1>1, <2>1 DEF StartWaiter, WaiterWakes, WaiterReleases, WaiterNotifies, outVars
  <2>2. CASE WaiterDrains
    <3>1. outBuf' = <<>> /\ UNCHANGED <<outPending, timers>>
      BY <2>2, DrainMoves DEF WaiterDrains
    <3>. QED
      BY <3>1 DEF OneTimer
  <2>. QED
    BY <1>8, <2>1, <2>2 DEF Waiter
<1>9. CASE RemoteExit \/ CloseTerminal \/ Closer
  BY <1>1, <1>9 DEF RemoteExit, CloseTerminal, Closer, CloserFlags, CloserClosesSession,
     CloserClosesScrollback, outVars
<1>. QED
  BY <1>2, <1>3, <1>4, <1>5, <1>6, <1>7, <1>8, <1>9 DEF Next

-----------------------------------------------------------------------------
(* Order *)

LEMMA OrderAlone ==
    ASSUME OrderInv, UNCHANGED <<outBuf, events, replayed>>
    PROVE  OrderInv'
<1>1. \A c, d : InOrder(c, d)' <=> InOrder(c, d)
  BY DEF InOrder
<1>2. Emitted' = Emitted /\ Elems(outBuf)' = Elems(outBuf) /\ \A i : Out(i)' = Out(i)
  BY DEF Emitted, Elems, Out
<1>3. Ascends(outBuf)' /\ \A i \in DOMAIN events : Ascends(events[i].batch)'
  BY <1>1 DEF OrderInv, Ascends
<1>. QED
  BY <1>1, <1>2, <1>3 DEF OrderInv

\* What left before is in order with what a reader carries.
LEMMA CarriedAfter ==
    ASSUME TypeOK, HandInv, PlaceInv, NEW a \in Actors
    PROVE  /\ Ascends(data[a])
           /\ \A c \in Emitted \cup Elems(outBuf), d \in Elems(data[a]) : InOrder(c, d)
<1>1. CASE a = Opener
  <2>1. \A d \in Elems(data[a]) : d \in replayed
    BY <1>1 DEF HandInv, Carried
  <2>2. \A i \in DOMAIN data[a] : data[a][i] \in Elems(data[a])
    BY DEF Elems
  <2>. QED
    BY <2>1, <2>2 DEF Ascends, InOrder
<1>2. CASE a \in Streams /\ data[a] = <<>>
  BY <1>2, ElemsNone
<1>3. CASE a \in Streams /\ data[a] # <<>>
  <2>1. data[a] = << <<a, reads[a]>> >>
    BY <1>3 DEF HandInv
  <2>2. Elems(data[a]) = {<<a, reads[a]>>} /\ Ascends(data[a])
    BY <2>1, ElemsOne
  <2>3. ASSUME NEW c \in Emitted \cup Elems(outBuf) PROVE InOrder(c, <<a, reads[a]>>)
    <3>1. c \in Chunks /\ Came(c)
      BY PlaceTypes DEF PlaceInv, AllHere
    <3>2. c # <<a, reads[a]>>
      BY <2>2, PlaceTypes DEF PlaceInv, Apart, Carried
    <3>3. PICK s \in Streams : \E i \in 1..MaxChunks[s] :
             c = <<s, i>> /\ i \in Nat /\ MaxChunks[s] \in Nat /\ c[1] = s /\ c[2] = i
      BY <3>1, ChunkIs
    <3>4. c = <<c[1], c[2]>> /\ c[2] \in Nat /\ c[1] = s
      BY <3>3
    <3>5. reads[s] \in Nat /\ c[2] <= reads[s]
      BY <3>1, <3>4 DEF Came, TypeOK
    <3>6. CASE s = a
      <4>1. c[2] # reads[a]
        BY <3>2, <3>4, <3>6
      <4>2. c[2] < reads[a]
        BY <3>4, <3>5, <3>6, <4>1
      <4>. QED
        BY <3>4, <3>6, <4>2 DEF InOrder
    <3>7. CASE s # a
      BY <3>4, <3>7 DEF InOrder
    <3>. QED
      BY <3>6, <3>7
  <2>. QED
    BY <2>2, <2>3
<1>. QED
  BY <1>1, <1>2, <1>3 DEF Actors

SentInOrder ==
    /\ \A i \in DOMAIN events : Ascends(events[i].batch)
    /\ \A i, j \in DOMAIN events : i < j =>
         \A c \in Out(i), d \in Out(j) : InOrder(c, d)

LEMMA OrderAdds ==
    ASSUME TypeOK, SentInOrder, NEW e, events' = Append(events, e), UNCHANGED replayed,
           Ascends(e.batch), \A c \in Emitted, d \in Elems(e.batch) : InOrder(c, d)
    PROVE  SentInOrder'
<1>1. /\ Len(events) \in Nat
      /\ DOMAIN events = 1..Len(events) /\ DOMAIN events' = 1..(Len(events) + 1)
      /\ \A i \in DOMAIN events : events'[i] = events[i] /\ Out(i)' = Out(i)
      /\ \A n \in DOMAIN events' : n \notin DOMAIN events => events'[n] = e /\ Out(n)' = Elems(e.batch)
  BY EventAdded
<1>2. \A c, d : InOrder(c, d)' <=> InOrder(c, d)
  BY DEF InOrder
<1>4. \A i \in DOMAIN events : Out(i) \subseteq Emitted
  BY EmittedIs
<1>5. ASSUME NEW i \in DOMAIN events' PROVE Ascends(events[i].batch)'
  <2>1. CASE i \in DOMAIN events
    <3>1. events'[i] = events[i] /\ Ascends(events[i].batch)
      BY <1>1, <2>1 DEF SentInOrder
    <3>. QED
      BY <1>2, <3>1 DEF Ascends
  <2>2. CASE i \notin DOMAIN events
    <3>1. events'[i] = e
      BY <1>1, <2>2
    <3>. QED
      BY <1>2, <3>1 DEF Ascends
  <2>. QED
    BY <2>1, <2>2
<1>6. ASSUME NEW i \in DOMAIN events', NEW j \in DOMAIN events', i < j
      PROVE  \A c \in Out(i)', d \in Out(j)' : InOrder(c, d)'
  <2>1. i \in DOMAIN events /\ Out(i)' = Out(i)
    BY <1>1, <1>6
  <2>2. CASE j \in DOMAIN events
    BY <1>1, <1>2, <1>6, <2>1, <2>2 DEF SentInOrder
  <2>3. CASE j \notin DOMAIN events
    BY <1>1, <1>2, <1>4, <2>1, <2>3
  <2>. QED
    BY <2>2, <2>3
<1>. QED
  BY <1>5, <1>6 DEF SentInOrder

LEMMA OrderEmits ==
    ASSUME TypeOK, SentInOrder, NEW b, Emit(b), UNCHANGED replayed,
           Ascends(b), \A c \in Emitted, d \in Elems(b) : InOrder(c, d)
    PROVE  SentInOrder' /\ Emitted' = Emitted \cup Elems(b)
<1>1. events' = Append(events, [kind |-> "data", batch |-> b])
  BY DEF Emit
<1>2. [kind |-> "data", batch |-> b].batch = b
  OBVIOUS
<1>. QED
  BY <1>1, <1>2, OrderAdds, Emits

LEMMA OrderIs ==
    OrderInv <=> /\ SentInOrder /\ Ascends(outBuf)
                 /\ \A c \in Emitted, d \in Elems(outBuf) : InOrder(c, d)
BY DEF OrderInv, SentInOrder

\* Nothing in the batch: what was sent is all there is to the order.
LEMMA OrderEmpty ==
    ASSUME SentInOrder', outBuf' = <<>>
    PROVE  OrderInv'
<1>1. Elems(outBuf') = {}
  BY ElemsNone
<1>2. Ascends(outBuf)'
  BY DEF Ascends
<1>. QED
  BY <1>1, <1>2 DEF OrderInv, SentInOrder

LEMMA OrderHandles ==
    ASSUME TypeOK, HandInv, PlaceInv, OneTimer, OrderInv, NEW a \in Actors, Handler(a)
    PROVE  OrderInv'
<1>1. CASE KeepOutput(a) \/ Credit(a) \/ Stall(a)
  BY <1>1, OrderAlone DEF KeepOutput, Credit, Stall, outVars, auxVars
<1>. data[a] \in Seq(Chunks) /\ outBuf \in Seq(Chunks)
  BY DEF TypeOK
<1>2. /\ Ascends(data[a])
      /\ \A c \in Emitted \cup Elems(outBuf), d \in Elems(data[a]) : InOrder(c, d)
  BY CarriedAfter
<1>3. SentInOrder /\ Ascends(outBuf) /\ \A c \in Emitted, d \in Elems(outBuf) : InOrder(c, d)
  BY OrderIs
<1>4. CASE QueueIdle(a)
  <2>1. outBuf = <<>> /\ outBuf' = <<>> /\ Emit(data[a]) /\ UNCHANGED replayed
    BY <1>4 DEF QueueIdle, Idle, OneTimer, auxVars
  <2>2. SentInOrder'
    BY <1>2, <1>3, <2>1, OrderEmits
  <2>. QED
    BY <2>1, <2>2, OrderEmpty
<1>5. CASE QueueBatch(a)
  <2>. DEFINE all == outBuf \o data[a]
  <2>1. UNCHANGED replayed /\ \/ Emit(all) /\ outBuf' = <<>>
                              \/ outBuf' = all /\ UNCHANGED events
    BY <1>5 DEF QueueBatch, Batch, NoBatch, auxVars
  <2>2. Elems(all) = Elems(outBuf) \cup Elems(data[a]) /\ Ascends(all)
    BY <1>2, <1>3, ElemsConcat
  <2>3. \A c \in Emitted, d \in Elems(all) : InOrder(c, d)
    BY <1>2, <1>3, <2>2
  <2>. HIDE DEF all
  <2>4. CASE Emit(all) /\ outBuf' = <<>>
    <3>1. SentInOrder'
      BY <1>3, <2>1, <2>2, <2>3, <2>4, OrderEmits
    <3>. QED
      BY <2>4, <3>1, OrderEmpty
  <2>5. CASE outBuf' = all /\ UNCHANGED events
    <3>1. \A c, d : InOrder(c, d)' <=> InOrder(c, d)
      BY <2>1 DEF InOrder
    <3>2. Emitted' = Emitted /\ \A i : Out(i)' = Out(i)
      BY <2>5 DEF Emitted, Out, Elems
    <3>3. SentInOrder'
      BY <1>3, <2>5, <3>1, <3>2 DEF SentInOrder, Ascends
    <3>4. Ascends(outBuf)'
      BY <2>2, <2>5, <3>1 DEF Ascends
    <3>5. \A c \in Emitted', d \in Elems(outBuf') : InOrder(c, d)'
      BY <2>3, <2>5, <3>1, <3>2
    <3>. QED
      BY <3>3, <3>4, <3>5 DEF OrderInv, SentInOrder
  <2>. QED
    BY <2>1, <2>4, <2>5
<1>. QED
  BY <1>1, <1>4, <1>5 DEF Handler

LEMMA OrderDrains ==
    ASSUME TypeOK, OrderInv, DrainBuffer, UNCHANGED replayed
    PROVE  OrderInv'
<1>1. CASE outBuf = <<>>
  BY <1>1, OrderAlone DEF DrainBuffer
<1>2. CASE outBuf # <<>>
  <2>1. Emit(outBuf) /\ outBuf' = <<>>
    BY <1>2 DEF DrainBuffer
  <2>2. SentInOrder'
    BY <2>1, OrderIs, OrderEmits
  <2>. QED
    BY <2>1, <2>2, OrderEmpty
<1>. QED
  BY <1>1, <1>2

LEMMA OrderWaits ==
    ASSUME TypeOK, OrderInv, Waiter
    PROVE  OrderInv'
<1>1. CASE StartWaiter \/ WaiterWakes \/ WaiterReleases
  BY <1>1, OrderAlone DEF StartWaiter, WaiterWakes, WaiterReleases, outVars, auxVars
<1>2. CASE WaiterDrains
  BY <1>2, OrderDrains DEF WaiterDrains, auxVars
<1>3. CASE WaiterNotifies
  <2>1. /\ UNCHANGED <<outBuf, replayed>>
        /\ events' = Append(events, [kind |-> "closed", batch |-> <<>>])
    BY <1>3 DEF WaiterNotifies, auxVars
  <2>2. [kind |-> "closed", batch |-> <<>>].batch = <<>>
    OBVIOUS
  <2>3. SentInOrder'
    BY <2>1, <2>2, OrderIs, OrderAdds, ElemsNone
  <2>4. Emitted' = Emitted
    BY <2>1, <2>2, EventAdded, ElemsNone
  <2>5. \A c, d : InOrder(c, d)' <=> InOrder(c, d)
    BY <2>1 DEF InOrder
  <2>6. Ascends(outBuf)'
    BY <2>1, <2>5 DEF OrderInv, Ascends
  <2>7. \A c \in Emitted', d \in Elems(outBuf') : InOrder(c, d)'
    BY <2>1, <2>4, <2>5 DEF OrderInv
  <2>. QED
    BY <2>3, <2>6, <2>7 DEF OrderInv, SentInOrder
<1>. QED
  BY <1>1, <1>2, <1>3 DEF Waiter

LEMMA OrderNothing ==
    ASSUME events = <<>>, outBuf = <<>>
    PROVE  OrderInv
<1>1. DOMAIN events = {} /\ DOMAIN outBuf = {}
  OBVIOUS
<1>2. Emitted = {}
  BY <1>1 DEF Emitted
<1>. QED
  BY <1>1, <1>2 DEF OrderInv, Ascends

LEMMA OrderOpens ==
    ASSUME HandInv, OnData
    PROVE  OrderInv'
<1>1. events' = <<>> /\ outBuf' = <<>>
  BY DEF OnData, HandInv, outVars
<1>2. DOMAIN events' = {} /\ DOMAIN outBuf' = {}
  BY <1>1
<1>3. Emitted' = {}
  BY <1>2 DEF Emitted
<1>. QED
  BY <1>2, <1>3 DEF OrderInv, Ascends

LEMMA OrderStep ==
    TypeOK /\ HandInv /\ PlaceInv /\ OneTimer /\ OrderInv /\ [Next]_vars => OrderInv'
<1>. SUFFICES ASSUME TypeOK, HandInv, PlaceInv, OneTimer, OrderInv, [Next]_vars PROVE OrderInv'
  OBVIOUS
<1>1. CASE UNCHANGED vars
  BY <1>1, OrderAlone DEF vars
<1>2. CASE \E s \in Streams : ReadEarly(s) \/ Read(s) \/ ReadEOF(s)
  BY <1>2, OrderAlone DEF ReadEarly, Read, ReadEOF, outVars, auxVars
<1>3. CASE Flush
  BY <1>3, FlushDrains, OrderDrains DEF auxVars
<1>4. CASE \E n \in 1..unacked : TermAck(n)
  BY <1>4, OrderAlone DEF TermAck, outVars, auxVars
<1>5. CASE RemoteExit \/ CloseTerminal \/ Closer
  BY <1>5, OrderAlone DEF RemoteExit, CloseTerminal, Closer, CloserFlags, CloserClosesSession,
     CloserClosesScrollback, outVars, auxVars
<1>. QED
  BY <1>1, <1>2, <1>3, <1>4, <1>5, OrderOpens, OrderHandles, OrderWaits DEF Next

-----------------------------------------------------------------------------
(* The credit *)

LEMMA FiniteHands ==
    ASSUME TypeOK
    PROVE  IsFiniteSet(Hands)
<1>1. IsFiniteSet(Actors)
  BY OpenerAssumption, FS_AddElement DEF Actors
<1>. DEFINE C == { Carried(a) : a \in Actors }
            f == [a \in Actors |-> Carried(a)]
<1>2. f \in Surjection(Actors, C)
  BY DEF Surjection
<1>3. IsFiniteSet(C)
  <2>. HIDE DEF f, C
  <2>. QED
    BY <1>1, <1>2, FS_Surjection
<1>4. \A T \in C : IsFiniteSet(T)
  <2>1. \A a \in Actors : IsFiniteSet(Carried(a))
    BY ElemsCount DEF TypeOK, Carried
  <2>. QED
    BY <2>1
<1>5. IsFiniteSet(UNION C)
  <2>. HIDE DEF C
  <2>. QED
    BY <1>3, <1>4, FS_UNION
<1>. QED
  BY <1>5 DEF Hands

LEMMA WayIs ==
    ASSUME TypeOK
    PROVE  /\ OnItsWay \subseteq Hands /\ IsFiniteSet(OnItsWay) /\ Cardinality(OnItsWay) \in Nat
           /\ \A c : c \in OnItsWay <=> \E a \in Actors : pc[a] = "queue" /\ c \in Carried(a)
<1>1. \A c : c \in OnItsWay <=> \E a \in Actors : pc[a] = "queue" /\ c \in Carried(a)
  BY DEF OnItsWay
<1>2. OnItsWay \subseteq Hands
  BY <1>1 DEF Hands
<1>. QED
  BY <1>1, <1>2, FiniteHands, FS_Subset, FS_CardinalityType

\* Who is about to queue, and what, stays.
LEMMA WayAlone ==
    ASSUME \A a \in Actors : /\ pc'[a] = "queue" <=> pc[a] = "queue"
                             /\ pc[a] = "queue" => data'[a] = data[a]
    PROVE  OnItsWay' = OnItsWay
<1>1. \A c : c \in OnItsWay <=> \E a \in Actors : pc[a] = "queue" /\ c \in Elems(data[a])
  BY DEF OnItsWay, Carried
<1>2. \A c : c \in OnItsWay' <=> \E a \in Actors : pc'[a] = "queue" /\ c \in Elems(data'[a])
  BY DEF OnItsWay, Carried
<1>. QED
  BY <1>1, <1>2

LEMMA WayTakes ==
    ASSUME TypeOK, NEW a \in Actors, pc' = [pc EXCEPT ![a] = "queue"], UNCHANGED data
    PROVE  /\ Cardinality(OnItsWay') \in Nat
           /\ Cardinality(OnItsWay') <= Cardinality(OnItsWay) + Len(data[a])
<1>1. pc'[a] = "queue" /\ \A b \in Actors : b # a => pc'[b] = pc[b]
  BY DEF TypeOK
<1>2. \A b : Carried(b)' = Carried(b)
  BY DEF Carried, Elems
<1>3. /\ IsFiniteSet(OnItsWay) /\ Cardinality(OnItsWay) \in Nat
      /\ \A c : c \in OnItsWay <=> \E b \in Actors : pc[b] = "queue" /\ c \in Carried(b)
  BY WayIs
<1>4. \A c : c \in OnItsWay' <=> \E b \in Actors : pc'[b] = "queue" /\ c \in Carried(b)'
  BY DEF OnItsWay
<1>5. OnItsWay' = OnItsWay \cup Carried(a)
  BY <1>1, <1>2, <1>3, <1>4
<1>6. /\ IsFiniteSet(Carried(a)) /\ Cardinality(Carried(a)) \in Nat
      /\ Cardinality(Carried(a)) <= Len(data[a]) /\ Len(data[a]) \in Nat
  BY ElemsCount, ElemsOf DEF TypeOK, Carried
<1>. DEFINE X == OnItsWay  Y == Carried(a)
<1>7. /\ Cardinality(X \cup Y) = Cardinality(X) + Cardinality(Y) - Cardinality(X \cap Y)
      /\ Cardinality(X \cap Y) \in Nat /\ Cardinality(X \cup Y) \in Nat
  <2>. IsFiniteSet(X) /\ IsFiniteSet(Y)
    BY <1>3, <1>6
  <2>. HIDE DEF X, Y
  <2>1. IsFiniteSet(X \cap Y)
    BY FS_Subset
  <2>. QED
    BY <2>1, FS_Union, FS_CardinalityType
<1>. QED
  BY <1>3, <1>5, <1>6, <1>7

LEMMA WayGives ==
    ASSUME TypeOK, HeldOnce, NEW a \in Actors, pc[a] = "queue", Return(a)
    PROVE  /\ Cardinality(OnItsWay') \in Nat
           /\ Cardinality(OnItsWay) = Cardinality(OnItsWay') + Len(data[a])
<1>1. /\ pc'[a] # "queue" /\ Carried(a)' = {}
      /\ \A b \in Actors : b # a => pc'[b] = pc[b] /\ Carried(b)' = Carried(b)
  BY ElemsNone DEF TypeOK, Return, Carried
<1>2. /\ IsFiniteSet(OnItsWay) /\ Cardinality(OnItsWay) \in Nat
      /\ \A c : c \in OnItsWay <=> \E b \in Actors : pc[b] = "queue" /\ c \in Carried(b)
  BY WayIs
<1>3. \A c : c \in OnItsWay' <=> \E b \in Actors : pc'[b] = "queue" /\ c \in Carried(b)'
  BY DEF OnItsWay
<1>4. OnItsWay = OnItsWay' \cup Carried(a)
  BY <1>1, <1>2, <1>3
<1>5. OnItsWay' \cap Carried(a) = {}
  BY <1>1, <1>3 DEF HeldOnce
<1>6. /\ IsFiniteSet(Carried(a)) /\ Cardinality(Carried(a)) = Len(data[a]) /\ Len(data[a]) \in Nat
  BY ElemsCount, ElemsOf DEF TypeOK, Carried, HeldOnce
<1>. DEFINE X == OnItsWay'  Y == Carried(a)
<1>7. Cardinality(X \cup Y) = Cardinality(X) + Cardinality(Y) /\ Cardinality(X) \in Nat
  <2>1. IsFiniteSet(X) /\ IsFiniteSet(Y) /\ X \cap Y = {}
    BY <1>2, <1>4, <1>5, <1>6, FS_Subset
  <2>. HIDE DEF X, Y
  <2>2. /\ Cardinality(X \cup Y) = Cardinality(X) + Cardinality(Y) - Cardinality(X \cap Y)
        /\ Cardinality(X) \in Nat /\ Cardinality(Y) \in Nat
    BY <2>1, FS_Union, FS_CardinalityType
  <2>3. Cardinality(X \cap Y) = 0
    BY <2>1, FS_EmptySet
  <2>. QED
    BY <2>2, <2>3
<1>. QED
  BY <1>4, <1>6, <1>7

\* The numbers the credit is about.
LEMMA FlowTypes ==
    ASSUME TypeOK
    PROVE  /\ inflight \in Nat /\ unacked \in Nat /\ Len(outBuf) \in Nat
           /\ Cardinality(OnItsWay) \in Nat /\ Window \in Nat /\ LongestRead \in Nat
           /\ \A a \in Actors : Len(data[a]) \in Nat
BY WayIs, ElemsOf, LongestIs, BoundsAssumption DEF TypeOK

LEMMA FlowAlone ==
    ASSUME FlowBounded, UNCHANGED <<stalled, inflight>>, closing => closing',
           unacked' + Len(outBuf') + Cardinality(OnItsWay')
             = unacked + Len(outBuf) + Cardinality(OnItsWay)
    PROVE  FlowBounded'
BY DEF FlowBounded

\* Steps that touch neither the batch nor the books.
LEMMA FlowKeeps ==
    ASSUME FlowBounded, UNCHANGED <<stalled, inflight, unacked, outBuf>>, closing => closing',
           \A a \in Actors : /\ pc'[a] = "queue" <=> pc[a] = "queue"
                             /\ pc[a] = "queue" => data'[a] = data[a]
    PROVE  FlowBounded'
<1>1. OnItsWay' = OnItsWay
  BY WayAlone
<1>. QED
  BY <1>1, FlowAlone

LEMMA FlowReads ==
    ASSUME TypeOK, FlowBounded, NEW s \in Streams, ReadEarly(s) \/ Read(s) \/ ReadEOF(s)
    PROVE  FlowBounded'
<1>. s \in Actors
  BY ActorsAre
<1>1. UNCHANGED <<stalled, inflight, unacked, outBuf, closing>>
  BY DEF ReadEarly, Read, ReadEOF, flowVars, outVars, endVars
<1>2. \A a \in Actors : /\ pc'[a] = "queue" <=> pc[a] = "queue"
                        /\ pc[a] = "queue" => data'[a] = data[a]
  BY DEF ReadEarly, Read, ReadEOF, TypeOK
<1>. QED
  BY <1>1, <1>2, FlowKeeps

LEMMA FlowOpens ==
    ASSUME TypeOK, FlowBounded, OnData
    PROVE  FlowBounded'
<1>. Opener \in Actors
  BY ActorsAre
<1>1. UNCHANGED <<stalled, inflight, unacked, outBuf, closing>>
  BY DEF OnData, flowVars, outVars, endVars
<1>2. \A a \in Actors : /\ pc'[a] = "queue" <=> pc[a] = "queue"
                        /\ pc[a] = "queue" => data'[a] = data[a]
  BY DEF OnData, TypeOK
<1>. QED
  BY <1>1, <1>2, FlowKeeps

LEMMA FlowHandles ==
    ASSUME TypeOK, TypeOK', HandInv, HeldOnce, FlowBounded, NEW a \in Actors, Handler(a)
    PROVE  FlowBounded'
<1>1. /\ inflight \in Nat /\ unacked \in Nat /\ Len(outBuf) \in Nat
      /\ Cardinality(OnItsWay) \in Nat /\ Window \in Nat /\ LongestRead \in Nat
      /\ Len(data[a]) \in Nat /\ Len(data[a]) <= LongestRead
  BY FlowTypes DEF HandInv
<1>2. inflight' \in Nat /\ unacked' \in Nat /\ Len(outBuf') \in Nat
  BY ElemsOf DEF TypeOK
<1>3. CASE KeepOutput(a)
  <2>1. UNCHANGED <<stalled, inflight, unacked, outBuf, closing>>
    BY <1>3 DEF KeepOutput, flowVars, outVars, endVars
  <2>2. \A b \in Actors : /\ pc'[b] = "queue" <=> pc[b] = "queue"
                          /\ pc[b] = "queue" => data'[b] = data[b]
    BY <1>3 DEF KeepOutput, TypeOK
  <2>. QED
    BY <2>1, <2>2, FlowKeeps
<1>4. CASE Credit(a)
  <2>1. /\ inflight <= Window \/ closing
        /\ inflight' = inflight + Len(data[a])
        /\ UNCHANGED <<stalled, unacked, outBuf, closing>>
    BY <1>4 DEF Credit, TakeCredit, outVars, endVars
  <2>2. /\ Cardinality(OnItsWay') \in Nat
        /\ Cardinality(OnItsWay') <= Cardinality(OnItsWay) + Len(data[a])
    BY <1>4, WayTakes DEF Credit
  <2>3. SUFFICES ASSUME ~stalled PROVE FlowBounded'
    BY <2>1 DEF FlowBounded
  <2>4. unacked + Len(outBuf) + Cardinality(OnItsWay) <= inflight
    BY <2>3 DEF FlowBounded
  <2>5. unacked' + Len(outBuf') + Cardinality(OnItsWay') <= inflight'
    <3>1. unacked' = unacked /\ Len(outBuf') = Len(outBuf)
      BY <2>1
    <3>. QED
      BY <1>1, <1>2, <2>1, <2>2, <2>4, <3>1
  <2>6. ~closing' => inflight' <= Window + LongestRead
    BY <1>1, <2>1
  <2>. QED
    BY <2>5, <2>6 DEF FlowBounded
<1>5. CASE Stall(a)
  BY <1>5 DEF Stall, FlowBounded
<1>6. CASE QueueIdle(a) \/ QueueBatch(a)
  <2>1. pc[a] = "queue" /\ Return(a) /\ UNCHANGED <<stalled, inflight, closing>>
    BY <1>6 DEF QueueIdle, QueueBatch, flowVars, endVars
  <2>2. /\ Cardinality(OnItsWay') \in Nat
        /\ Cardinality(OnItsWay) = Cardinality(OnItsWay') + Len(data[a])
    BY <2>1, WayGives
  <2>3. PICK u \in Nat, u1 \in Nat, o \in Nat, o1 \in Nat, l \in Nat, w \in Nat, w1 \in Nat :
          /\ u = unacked /\ u1 = unacked' /\ o = Len(outBuf) /\ o1 = Len(outBuf') /\ l = Len(data[a])
          /\ w = Cardinality(OnItsWay) /\ w1 = Cardinality(OnItsWay') /\ w = w1 + l
    BY <1>1, <1>2, <2>2
  <2>4. \/ o1 = o /\ u1 = u + l
        \/ o1 = 0 /\ u1 = u + (o + l)
        \/ o1 = o + l /\ u1 = u
    <3>1. data[a] \in Seq(Chunks) /\ outBuf \in Seq(Chunks)
      BY DEF TypeOK
    <3>2. PICK all \in Seq(Chunks) : all = outBuf \o data[a] /\ Len(all) = o + l
      BY <2>3, <3>1, ElemsConcat
    <3>3. \/ outBuf' = outBuf /\ unacked' = unacked + Len(data[a])
          \/ outBuf' = <<>> /\ unacked' = unacked + Len(all)
          \/ outBuf' = all /\ unacked' = unacked
      BY <1>6, <3>2 DEF QueueIdle, QueueBatch, Batch, NoBatch, Emit
    <3>4. CASE outBuf' = outBuf /\ unacked' = unacked + Len(data[a])
      BY <2>3, <3>4
    <3>5. CASE outBuf' = <<>> /\ unacked' = unacked + Len(all)
      <4>1. o1 = 0
        BY <2>3, <3>5, ElemsNone
      <4>2. u1 = u + (o + l)
        BY <2>3, <3>2, <3>5
      <4>. QED
        BY <4>1, <4>2
    <3>6. CASE outBuf' = all /\ unacked' = unacked
      BY <2>3, <3>2, <3>6
    <3>. QED
      BY <3>3, <3>4, <3>5, <3>6
  <2>5. u1 + o1 + w1 = u + o + w
    <3>1. w = w1 + l
      BY <2>3
    <3>. QED
      BY <2>4, <3>1
  <2>6. unacked' + Len(outBuf') + Cardinality(OnItsWay')
          = unacked + Len(outBuf) + Cardinality(OnItsWay)
    BY <2>3, <2>5
  <2>. QED
    BY <2>1, <2>6, FlowAlone
<1>. QED
  BY <1>3, <1>4, <1>5, <1>6 DEF Handler

LEMMA FlowDrains ==
    ASSUME TypeOK, FlowBounded, DrainBuffer, UNCHANGED <<stalled, inflight, pc, data, closing>>
    PROVE  FlowBounded'
<1>1. OnItsWay' = OnItsWay
  BY WayAlone
<1>2. unacked' + Len(outBuf') = unacked + Len(outBuf)
  <2>1. CASE outBuf = <<>>
    BY <2>1 DEF DrainBuffer
  <2>2. CASE outBuf # <<>>
    <3>1. outBuf' = <<>> /\ unacked' = unacked + Len(outBuf)
      BY <2>2 DEF DrainBuffer, Emit
    <3>2. Len(outBuf') = 0
      BY <3>1, ElemsNone
    <3>. QED
      BY <3>1, <3>2, FlowTypes
  <2>. QED
    BY <2>1, <2>2
<1>. QED
  BY <1>1, <1>2, FlowAlone

LEMMA FlowAcks ==
    ASSUME TypeOK, FlowBounded, NEW n \in 1..unacked, TermAck(n)
    PROVE  FlowBounded'
<1>1. /\ UNCHANGED <<stalled, outBuf, pc, data, closing>>
      /\ unacked' = unacked - n /\ (inflight' = inflight \/ inflight' = Acked(n))
  BY DEF TermAck, actorVars, outVars, endVars
<1>2. OnItsWay' = OnItsWay
  BY <1>1, WayAlone
<1>3. SUFFICES ASSUME ~stalled PROVE FlowBounded'
  BY <1>1 DEF FlowBounded
<1>4. /\ inflight \in Nat /\ unacked \in Nat /\ Len(outBuf) \in Nat
      /\ Cardinality(OnItsWay) \in Nat /\ Window \in Nat /\ LongestRead \in Nat
      /\ n \in Nat /\ n <= unacked
  BY FlowTypes
<1>5. unacked + Len(outBuf) + Cardinality(OnItsWay) <= inflight
  BY <1>3 DEF FlowBounded
<1>6. inflight' \in Nat /\ inflight' <= inflight /\ inflight' >= inflight - n
  BY <1>1, <1>4 DEF Acked
<1>7. unacked' + Len(outBuf) + Cardinality(OnItsWay) <= inflight'
  BY <1>1, <1>4, <1>5, <1>6
<1>8. ~closing => inflight' <= Window + LongestRead
  <2>. SUFFICES ASSUME ~closing PROVE inflight' <= Window + LongestRead
    OBVIOUS
  <2>1. inflight <= Window + LongestRead
    BY <1>3 DEF FlowBounded
  <2>. QED
    BY <1>4, <1>6, <2>1
<1>. QED
  BY <1>1, <1>2, <1>7, <1>8 DEF FlowBounded

LEMMA FlowStep ==
    TypeOK /\ HandInv /\ PlaceInv /\ FlowBounded /\ [Next]_vars => FlowBounded'
<1>. SUFFICES ASSUME TypeOK, HandInv, PlaceInv, FlowBounded, [Next]_vars PROVE FlowBounded'
  OBVIOUS
<1>. TypeOK' /\ HeldOnce
  BY TypeStep DEF PlaceInv
<1>1. ASSUME UNCHANGED <<stalled, inflight, unacked, outBuf, pc, data>>, closing => closing'
      PROVE  FlowBounded'
  BY <1>1, FlowKeeps
<1>2. CASE UNCHANGED vars
  BY <1>1, <1>2 DEF vars
<1>3. CASE Flush
  BY <1>3, FlushDrains, FlowDrains DEF actorVars, flowVars, endVars
<1>4. CASE Waiter
  <2>1. CASE StartWaiter \/ WaiterWakes \/ WaiterReleases \/ WaiterNotifies
    BY <1>1, <2>1 DEF StartWaiter, WaiterWakes, WaiterReleases, WaiterNotifies,
       actorVars, flowVars, outVars
  <2>2. CASE WaiterDrains
    BY <2>2, FlowDrains DEF WaiterDrains, actorVars, flowVars
  <2>. QED
    BY <1>4, <2>1, <2>2 DEF Waiter
<1>5. CASE RemoteExit \/ CloseTerminal \/ Closer
  BY <1>1, <1>5 DEF RemoteExit, CloseTerminal, Closer, CloserFlags, CloserClosesSession,
     CloserClosesScrollback, actorVars, flowVars, outVars, endVars
<1>. QED
  BY <1>2, <1>3, <1>4, <1>5, FlowReads, FlowOpens, FlowHandles, FlowAcks DEF Next

LEMMA FlowInit == Init => FlowBounded
<1>. SUFFICES ASSUME Init PROVE FlowBounded
  OBVIOUS
<1>1. inflight = 0 /\ unacked = 0 /\ outBuf = <<>> /\ \A a \in Actors : pc[a] = "read"
  BY DEF Init
<1>2. OnItsWay = {}
  BY <1>1 DEF OnItsWay
<1>3. Cardinality(OnItsWay) = 0 /\ Len(outBuf) = 0
  BY <1>1, <1>2, FS_EmptySet, ElemsNone
<1>4. inflight <= Window + LongestRead
  BY <1>1, LongestIs, BoundsAssumption
<1>. QED
  BY <1>1, <1>3, <1>4 DEF FlowBounded

-----------------------------------------------------------------------------
(* What the invariant says *)

LEMMA TimesOne ==
    ASSUME NEW s, NEW c, IsInjective(s)
    PROVE  Times(c, s) = IF c \in Elems(s) THEN 1 ELSE 0
<1>. DEFINE I == { i \in DOMAIN s : s[i] = c }
<1>1. CASE c \in Elems(s)
  <2>1. PICK i \in DOMAIN s : s[i] = c
    BY <1>1 DEF Elems
  <2>2. I = {i}
    BY <2>1 DEF IsInjective
  <2>. QED
    BY <1>1, <2>2, FS_Singleton DEF Times
<1>2. CASE c \notin Elems(s)
  <2>1. I = {}
    BY <1>2 DEF Elems
  <2>. QED
    BY <1>2, <2>1, FS_EmptySet DEF Times
<1>. QED
  BY <1>1, <1>2

LEMMA HeldByOne ==
    ASSUME HeldOnce, NEW c
    PROVE  Cardinality({ a \in Actors : c \in Carried(a) }) = IF c \in Hands THEN 1 ELSE 0
<1>. DEFINE A == { a \in Actors : c \in Carried(a) }
<1>1. CASE c \in Hands
  <2>1. PICK a \in Actors : c \in Carried(a)
    BY <1>1 DEF Hands
  <2>2. A = {a}
    BY <2>1 DEF HeldOnce
  <2>. QED
    BY <1>1, <2>2, FS_Singleton
<1>2. CASE c \notin Hands
  <2>1. A = {}
    BY <1>2 DEF Hands
  <2>. QED
    BY <1>2, <2>1, FS_EmptySet
<1>. QED
  BY <1>1, <1>2

LEMMA SentAre ==
    /\ \A p \in Sent : /\ p = <<p[1], p[2]>> /\ p[1] \in DOMAIN events
                       /\ p[2] \in DOMAIN events[p[1]].batch
    /\ \A i \in DOMAIN events : \A j \in DOMAIN events[i].batch : <<i, j>> \in Sent
<1>1. ASSUME NEW p \in Sent
      PROVE  /\ p = <<p[1], p[2]>> /\ p[1] \in DOMAIN events
             /\ p[2] \in DOMAIN events[p[1]].batch
  <2>1. PICK i \in DOMAIN events : p \in {i} \X DOMAIN events[i].batch
    BY DEF Sent
  <2>. QED
    BY <2>1
<1>2. ASSUME NEW i \in DOMAIN events, NEW j \in DOMAIN events[i].batch
      PROVE  <<i, j>> \in Sent
  <2>1. <<i, j>> \in {i} \X DOMAIN events[i].batch
    OBVIOUS
  <2>. QED
    BY <2>1 DEF Sent
<1>. QED
  BY <1>1, <1>2

LEMMA SentByOne ==
    ASSUME SentOnce, NEW c
    PROVE  Cardinality({ p \in Sent : events[p[1]].batch[p[2]] = c }) = IF c \in Emitted THEN 1 ELSE 0
<1>. DEFINE A == { p \in Sent : events[p[1]].batch[p[2]] = c }
<1>1. CASE c \in Emitted
  <2>1. PICK i \in DOMAIN events : c \in Out(i)
    BY <1>1, EmittedIs
  <2>2. PICK j \in DOMAIN events[i].batch : events[i].batch[j] = c
    BY <2>1 DEF Out, Elems
  <2>3. <<i, j>> \in A
    BY <2>2, SentAre
  <2>4. ASSUME NEW p \in A PROVE p = <<i, j>>
    <3>1. /\ p = <<p[1], p[2]>> /\ p[1] \in DOMAIN events
          /\ p[2] \in DOMAIN events[p[1]].batch
          /\ events[p[1]].batch[p[2]] = c
      BY SentAre
    <3>2. c \in Out(p[1])
      BY <3>1 DEF Out, Elems
    <3>3. p[1] = i
      BY <2>1, <3>1, <3>2 DEF SentOnce
    <3>4. p[2] = j
      BY <2>2, <3>1, <3>3 DEF SentOnce, IsInjective
    <3>. QED
      BY <3>1, <3>3, <3>4
  <2>5. A = {<<i, j>>}
    <3>. HIDE DEF A
    <3>. QED
      BY <2>3, <2>4
  <2>. QED
    BY <1>1, <2>5, FS_Singleton
<1>2. CASE c \notin Emitted
  <2>1. ASSUME NEW p \in A PROVE FALSE
    <3>1. /\ p[1] \in DOMAIN events /\ p[2] \in DOMAIN events[p[1]].batch
          /\ events[p[1]].batch[p[2]] = c
      BY <2>1, SentAre
    <3>2. c \in Out(p[1])
      BY <3>1 DEF Out, Elems
    <3>. QED
      BY <1>2, <3>1, <3>2, EmittedIs
  <2>2. A = {}
    BY <2>1
  <2>. QED
    BY <1>2, <2>2, FS_EmptySet
<1>. QED
  BY <1>1, <1>2

\* The invariant counts: one place for what was read, none for what was not.
LEMMA OnePlaceIs == PlaceInv => OnePlace
<1>. SUFFICES ASSUME PlaceInv, NEW c \in Chunks PROVE Copies(c) = IF Came(c) THEN 1 ELSE 0
  BY DEF OnePlace
<1>1. /\ Times(c, pending) = IF c \in Elems(pending) THEN 1 ELSE 0
      /\ Times(c, outBuf) = IF c \in Elems(outBuf) THEN 1 ELSE 0
  BY TimesOne DEF PlaceInv
<1>2. Cardinality({ d \in dropped : d = c }) = IF c \in dropped THEN 1 ELSE 0
  <2>1. CASE c \in dropped
    <3>1. { d \in dropped : d = c } = {c}
      BY <2>1
    <3>. QED
      BY <2>1, <3>1, FS_Singleton
  <2>2. CASE c \notin dropped
    <3>1. { d \in dropped : d = c } = {}
      BY <2>2
    <3>. QED
      BY <2>2, <3>1, FS_EmptySet
  <2>. QED
    BY <2>1, <2>2
<1>3. Cardinality({ a \in Actors : c \in Carried(a) }) = IF c \in Hands THEN 1 ELSE 0
  BY HeldByOne DEF PlaceInv
<1>4. Cardinality({ p \in Sent : events[p[1]].batch[p[2]] = c }) = IF c \in Emitted THEN 1 ELSE 0
  BY SentByOne DEF PlaceInv
<1>5. PICK n1 \in 0..1, n2 \in 0..1, n3 \in 0..1, n4 \in 0..1, n5 \in 0..1 :
        /\ n1 = Times(c, pending) /\ n2 = Times(c, outBuf)
        /\ n3 = Cardinality({ d \in dropped : d = c })
        /\ n4 = Cardinality({ a \in Actors : c \in Carried(a) })
        /\ n5 = Cardinality({ p \in Sent : events[p[1]].batch[p[2]] = c })
  BY <1>1, <1>2, <1>3, <1>4
<1>6. /\ n1 = IF c \in Elems(pending) THEN 1 ELSE 0
      /\ n2 = IF c \in Elems(outBuf) THEN 1 ELSE 0
      /\ n3 = IF c \in dropped THEN 1 ELSE 0
      /\ n4 = IF c \in Hands THEN 1 ELSE 0
      /\ n5 = IF c \in Emitted THEN 1 ELSE 0
  BY <1>1, <1>2, <1>3, <1>4, <1>5
<1>7. /\ ~(c \in Elems(pending) /\ c \in dropped)
      /\ c \in Elems(outBuf) => c \notin Elems(pending) /\ c \notin dropped
      /\ c \in Hands => c \notin Elems(pending) /\ c \notin dropped /\ c \notin Elems(outBuf)
      /\ c \in Emitted => /\ c \notin Elems(pending) /\ c \notin dropped /\ c \notin Elems(outBuf)
                          /\ c \notin Hands
  BY DEF PlaceInv, Apart
<1>8. Came(c) <=> \/ c \in Elems(pending) \/ c \in dropped \/ c \in Elems(outBuf)
                  \/ c \in Hands \/ c \in Emitted
  BY DEF PlaceInv, AllHere
<1>9. n1 + n2 + n3 + n4 + n5 = IF Came(c) THEN 1 ELSE 0
  BY <1>6, <1>7, <1>8
<1>10. Copies(c) = n1 + n2 + n3 + n4 + n5
  BY <1>5 DEF Copies
<1>. QED
  BY <1>9, <1>10

\* Ascending batches, one after the other, are the order the pumps read in.
LEMMA PumpOrderIs == TypeOK /\ OrderInv => PumpOrder
<1>. SUFFICES ASSUME TypeOK, OrderInv, NEW c \in Emitted \ replayed, NEW d \in Emitted \ replayed,
                     c[1] = d[1], c[2] < d[2]
              PROVE  Before(c, d)
  BY DEF PumpOrder
<1>1. c \in Chunks /\ d \in Chunks
  BY EmittedAre
<1>2. c[2] \in Nat /\ d[2] \in Nat
  <2>1. \A x \in Chunks : x[2] \in Nat
    BY ChunkIs
  <2>. QED
    BY <1>1, <2>1
<1>3. ~InOrder(d, c)
  BY <1>2 DEF InOrder
<1>4. PICK i \in DOMAIN events : c \in Out(i)
  BY EmittedIs
<1>5. PICK j \in DOMAIN events : d \in Out(j)
  BY EmittedIs
<1>6. i \in Nat /\ j \in Nat
  BY DEF TypeOK
<1>7. ~(j < i)
  BY <1>3, <1>4, <1>5 DEF OrderInv
<1>8. CASE i < j
  BY <1>4, <1>5, <1>8 DEF Before, Out
<1>9. CASE i = j
  <2>1. PICK m \in DOMAIN events[i].batch : events[i].batch[m] = c
    BY <1>4 DEF Out, Elems
  <2>2. PICK n \in DOMAIN events[i].batch : events[i].batch[n] = d
    BY <1>5, <1>9 DEF Out, Elems
  <2>3. m \in Nat /\ n \in Nat
    BY EmittedAre, ElemsOf
  <2>4. ~(n < m)
    BY <1>3, <2>1, <2>2 DEF OrderInv, Ascends
  <2>5. m # n
    BY <1>2, <2>1, <2>2
  <2>6. m < n
    BY <2>3, <2>4, <2>5
  <2>. QED
    BY <1>4, <1>5, <1>9, <2>1, <2>2, <2>6 DEF Before, Out
<1>. QED
  BY <1>6, <1>7, <1>8, <1>9

-----------------------------------------------------------------------------
(* The theorems *)

\* Each part of the invariant from those before it.
THEOREM Inductive == Spec => []IInv
<1>1. Init => IInv
  <2>1. Init => OneTimer
    BY DEF Init, OneTimer
  <2>2. Init => OrderInv
    BY OrderNothing DEF Init
  <2>. QED
    BY <2>1, <2>2, TypeInit, HandInit, EndInit, PlaceInit, FlowInit DEF IInv
<1>2. IInv /\ [Next]_vars => IInv'
  BY TypeStep, HandStep, EndStep, KeptStep, DrainStep, PlaceStep, OrderStep, TimerStep,
     FlowStep DEF IInv
<1>. QED
  BY <1>1, <1>2, PTL DEF Spec

\* Every variable keeps its type: chunks everywhere, counters that never go below zero.
THEOREM TypeCorrect == Spec => []TypeOK
<1>1. IInv => TypeOK
  BY DEF IInv
<1>. QED
  BY <1>1, Inductive, PTL

\* Nothing that was read is lost, sent twice, overtaken by what the same pump
\* read later, left in the batch without a timer, or sent without credit.
THEOREM BatchesExact == Spec => []BatchingExact
<1>1. IInv => BatchingExact
  BY OnePlaceIs, PumpOrderIs DEF IInv, BatchingExact
<1>. QED
  BY <1>1, Inductive, PTL

\* The end of a session is told after its output, with its cause, while what is
\* on the screen can be found.
THEOREM EndTold == Spec => []EndTruthful
<1>1. IInv => EndTruthful
  BY DEF IInv, EndInv, KeptInv, DrainInv, EndTruthful, SearchSeesScreen, DiedTruthful
<1>. QED
  BY <1>1, Inductive, PTL
====
