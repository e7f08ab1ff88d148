------------------------------ MODULE Scrollback ------------------------------
(***************************************************************************)
(* The chunked ring of a terminal, src/internal/scrollback/ring.go: writes *)
(* append to an active chunk, full chunks are sealed and handed to one     *)
(* compressor goroutine over a bounded channel (or compressed inline when  *)
(* it is full), and compressed chunks are evicted from the old end.        *)
(*                                                                         *)
(* A line is its length in bytes, its newline included. r.mu is modelled   *)
(* as its holder, and the two loops that run under it, maybeSealLocked and *)
(* evictLocked, take one step per turn; what else runs under it is one     *)
(* step. A chunk is identified by its first line.                          *)
(***************************************************************************)
EXTENDS Integers, Sequences, FiniteSets, Functions

CONSTANTS
  ChunkSize,    \* cfg.ChunkSize
  ForcedSplit,  \* forcedLineSplit
  MaxLines,     \* cfg.MaxLines
  ByteCaps,     \* the values SetMaxBytes is called with
  SealCap,      \* capacity of sealCh
  CacheMax,     \* chunks in the decompress cache
  CompSizes,    \* what a compressed chunk may measure
  Pieces,       \* what Append may be called with
  MaxAppends    \* bound: calls of Append

\* A piece is its complete lines, newline included, and the bytes after its
\* last newline. Append ignores an empty one.
ASSUME SizesAssumption ==
  /\ ChunkSize \in Nat \ {0}
  /\ ForcedSplit \in Nat \ {0}
  /\ MaxLines \in Nat
  /\ ByteCaps \subseteq Nat
  /\ ByteCaps # {}
  /\ SealCap \in Nat
  /\ CacheMax \in Nat
  /\ CompSizes \subseteq Nat \ {0}
  /\ MaxAppends \in Nat
ASSUME PiecesAssumption == Pieces \subseteq [lines : Seq(Nat), rest : Nat]
ASSUME NotEmptyAssumption ==
  \A p \in Pieces : IF p.lines = <<>> THEN p.rest > 0 ELSE Head(p.lines) > 0

VARIABLES
  sealed,       \* r.sealed: chunks; comp is 0 until the chunk is compressed
  active,       \* r.active up to its last newline: the lines in it
  tail,         \* r.active after its last newline: bytes
  firstAvail,
  activeFirst,
  totalBytes,
  maxBytes,     \* r.cfg.MaxBytes
  closed,
  sealCh,       \* the channel's content
  chClosed,     \* close(r.sealCh) has run
  cached,       \* r.cache: chunks by their first lines
  cacheKeys,    \* r.cacheKeys
  mu,           \* who holds r.mu and where
  comp,         \* the compressor goroutine
  chunk,        \* the chunk it works on
  notify,       \* the running Append's OnSeal calls, to be made once it unlocks
  firing,       \* OnSeal calls under way
  \* auxiliary
  reported,     \* chunks whose OnSeal call has been made
  log,          \* every line completed since creation
  appends       \* Append calls so far

ringVars == <<sealed, active, tail, firstAvail, activeFirst, totalBytes>>
cacheVars == <<cached, cacheKeys>>
sealVars == <<notify, firing, reported>>
vars == <<sealed, active, tail, firstAvail, activeFirst, totalBytes, maxBytes,
          closed, sealCh, chClosed, cached, cacheKeys, mu, comp, chunk, notify,
          firing, reported, log, appends>>

\* A chunk in the ring, and one handed to the compressor.
Chunk == [first : Nat, lines : Seq(Nat), comp : Nat]
Handed == [first : Nat, lines : Seq(Nat)]
Holders == {"free", "seal", "evictInline", "evictComp", "evictSet"}
Evicting == {"evictInline", "evictComp", "evictSet"}

RingType ==
  /\ sealed \in Seq(Chunk)
  /\ active \in Seq(Nat)
  /\ tail \in Nat
  /\ firstAvail \in Nat
  /\ activeFirst \in Nat
  /\ maxBytes \in ByteCaps
  /\ closed \in BOOLEAN
  /\ sealCh \in Seq(Handed)
  /\ chClosed \in BOOLEAN
  /\ mu \in Holders
  /\ comp \in {"idle", "encoding", "evicting", "notifying", "exited"}
  /\ chunk \in Handed
  /\ notify \subseteq Nat
  /\ firing \subseteq Nat
  /\ reported \subseteq Nat
  /\ log \in Seq(Nat)
  /\ appends \in 0 .. MaxAppends

TypeOK ==
  /\ RingType
  /\ totalBytes \in Int
  /\ cached \subseteq Nat
  /\ cacheKeys \in Seq(Nat)

Init ==
  /\ sealed = <<>>
  /\ active = <<>>
  /\ tail = 0
  /\ firstAvail = 0
  /\ activeFirst = 0
  /\ totalBytes = 0
  /\ maxBytes \in ByteCaps
  /\ closed = FALSE
  /\ sealCh = <<>>
  /\ chClosed = FALSE
  /\ cached = {}
  /\ cacheKeys = <<>>
  /\ mu = "free"
  /\ comp = "idle"
  /\ chunk = [first |-> 0, lines |-> <<>>]
  /\ notify = {}
  /\ firing = {}
  /\ reported = {}
  /\ log = <<>>
  /\ appends = 0

-----------------------------------------------------------------------------
(* Append *)

Sum(ls) == SumFunction(ls)

ActiveBytes == Sum(active) + tail

\* activeLinesLocked: a partial line counts.
ActiveLines == Len(active) + (IF tail > 0 THEN 1 ELSE 0)

\* The lines p completes: the first of them starts with the partial line.
NewLines(p) ==
  IF p.lines = <<>> THEN <<>>
  ELSE <<tail + Head(p.lines)>> \o Tail(p.lines)

\* Mutant: a closed ring still takes writes.
Writable == TRUE

NewTail(p) == IF p.lines = <<>> THEN tail + p.rest ELSE p.rest

Open == ~closed

\* Append takes the lock, copies the bytes and indexes the newlines.
AppendBytes(p) ==
  /\ mu = "free"
  /\ Open
  /\ appends < MaxAppends
  /\ appends' = appends + 1
  /\ active' = active \o NewLines(p)
  /\ log' = log \o NewLines(p)
  /\ tail' = NewTail(p)
  /\ totalBytes' = totalBytes + Sum(p.lines) + p.rest
  /\ mu' = "seal"
  /\ UNCHANGED <<sealed, firstAvail, activeFirst, maxBytes, closed, sealCh,
                 chClosed, cacheVars, comp, chunk, sealVars>>

\* maybeSealLocked goes on: a full chunk, and a place to cut it.
CanSeal ==
  /\ ActiveBytes >= ChunkSize
  /\ active # <<>> \/ tail >= ForcedSplit

\* A chunk is cut at the last newline; without one, the whole active part is
\* a line of its own.
CutLines == IF active # <<>> THEN active ELSE <<tail>>

\* Mutant: a forced split leaves the cut bytes in the active chunk too.
KeepCut == tail

CutTail == IF active # <<>> THEN tail ELSE 0

CutChunk(size) ==
  /\ sealed' = Append(sealed, [first |-> activeFirst, lines |-> CutLines, comp |-> size])
  /\ active' = <<>>
  /\ tail' = CutTail
  /\ activeFirst' = activeFirst + Len(CutLines)
  /\ log' = IF active # <<>> THEN log ELSE log \o CutLines

\* Mutant: the channel is never full.
AlwaysRoom == TRUE

HasRoom == Len(sealCh) < SealCap

\* One turn of maybeSealLocked: the chunk goes to the compressor.
SealToChannel ==
  /\ mu = "seal"
  /\ CanSeal
  /\ HasRoom
  /\ CutChunk(0)
  /\ sealCh' = Append(sealCh, [first |-> activeFirst, lines |-> CutLines])
  /\ UNCHANGED <<firstAvail, totalBytes, maxBytes, closed, chClosed, cacheVars,
                 mu, comp, chunk, sealVars, appends>>

\* One turn of maybeSealLocked: the channel is full, Append compresses.
SealInline(size) ==
  /\ mu = "seal"
  /\ CanSeal
  /\ ~HasRoom
  /\ CutChunk(size)
  /\ totalBytes' = totalBytes + size - Sum(CutLines)
  /\ notify' = notify \cup {activeFirst}
  /\ mu' = "evictInline"
  /\ UNCHANGED <<firstAvail, maxBytes, closed, sealCh, chClosed, cacheVars,
                 comp, chunk, firing, reported, appends>>

\* Append unlocks and makes its OnSeal calls.
AppendDone ==
  /\ mu = "seal"
  /\ ~CanSeal
  /\ mu' = "free"
  /\ firing' = firing \cup notify
  /\ notify' = {}
  /\ UNCHANGED <<ringVars, maxBytes, closed, sealCh, chClosed, cacheVars, comp,
                 chunk, reported, log, appends>>

ReportInline(c) ==
  /\ c \in firing
  /\ firing' = firing \ {c}
  /\ reported' = reported \cup {c}
  /\ UNCHANGED <<ringVars, maxBytes, closed, sealCh, chClosed, cacheVars, mu,
                 comp, chunk, notify, log, appends>>

-----------------------------------------------------------------------------
(* evictLocked *)

Retained == activeFirst - firstAvail + ActiveLines

\* Mutant: only the byte cap counts.
OverBytes == totalBytes > maxBytes

OverCap == totalBytes > maxBytes \/ Retained > MaxLines

\* Mutant: a raw head is evicted like any other.
AnyHead == sealed # <<>>

\* A raw head waits for its compression.
HeadCompressed == sealed # <<>> /\ Head(sealed).comp # 0

\* Mutant: the cache entry of the evicted chunk stays.
KeepCached(c) == cached' = cached

\* delete(r.cache, head); cacheKeys keeps the key.
Uncache(c) == cached' = cached \ {c}

\* Mutants: the window moves back, or by a line instead of a chunk.
RewindFirst(h) == firstAvail' = firstAvail - Len(h.lines)
AdvanceOne(h) == firstAvail' = firstAvail + 1

AdvanceFirst(h) == firstAvail' = firstAvail + Len(h.lines)

\* One turn of the loop.
EvictHead ==
  /\ mu \in Evicting
  /\ HeadCompressed
  /\ OverCap
  /\ LET h == Head(sealed) IN
       /\ totalBytes' = totalBytes - h.comp
       /\ AdvanceFirst(h)
       /\ Uncache(h.first)
  /\ sealed' = Tail(sealed)
  /\ UNCHANGED <<active, tail, activeFirst, maxBytes, closed, sealCh, chClosed,
                 cacheKeys, mu, comp, chunk, sealVars, log, appends>>

\* The loop ends; its caller goes on or unlocks.
EvictDone ==
  /\ mu \in Evicting
  /\ ~(HeadCompressed /\ OverCap)
  /\ mu' = IF mu = "evictInline" THEN "seal" ELSE "free"
  /\ comp' = IF mu = "evictComp" THEN "notifying" ELSE comp
  /\ UNCHANGED <<ringVars, maxBytes, closed, sealCh, chClosed, cacheVars, chunk,
                 sealVars, log, appends>>

SetMaxBytes(n) ==
  /\ mu = "free"
  /\ maxBytes' = n
  /\ mu' = "evictSet"
  /\ UNCHANGED <<ringVars, closed, sealCh, chClosed, cacheVars, comp, chunk,
                 sealVars, log, appends>>

-----------------------------------------------------------------------------
(* The compressor *)

\* It receives a chunk and encodes it without the lock.
Receive ==
  /\ comp = "idle"
  /\ sealCh # <<>>
  /\ chunk' = Head(sealCh)
  /\ sealCh' = Tail(sealCh)
  /\ comp' = "encoding"
  /\ UNCHANGED <<ringVars, maxBytes, closed, chClosed, cacheVars, mu, sealVars,
                 log, appends>>

\* It stores the result in its chunk and evicts.
Compressed(size) ==
  /\ comp = "encoding"
  /\ mu = "free"
  /\ sealed' = [i \in DOMAIN sealed |->
                  IF sealed[i].first = chunk.first THEN [sealed[i] EXCEPT !.comp = size]
                  ELSE sealed[i]]
  /\ totalBytes' = totalBytes + size - Sum(chunk.lines)
  /\ mu' = "evictComp"
  /\ comp' = "evicting"
  /\ UNCHANGED <<active, tail, firstAvail, activeFirst, maxBytes, closed, sealCh,
                 chClosed, cacheVars, chunk, sealVars, log, appends>>

Report ==
  /\ comp = "notifying"
  /\ reported' = reported \cup {chunk.first}
  /\ comp' = "idle"
  /\ UNCHANGED <<ringVars, maxBytes, closed, sealCh, chClosed, cacheVars, mu,
                 chunk, notify, firing, log, appends>>

\* Mutant: a closed channel ends the loop at once.
NotDrained == TRUE

Drained == sealCh = <<>>

\* The channel is closed and empty.
Exit ==
  /\ comp = "idle"
  /\ chClosed
  /\ Drained
  /\ comp' = "exited"
  /\ UNCHANGED <<ringVars, maxBytes, closed, sealCh, chClosed, cacheVars, mu,
                 chunk, sealVars, log, appends>>

-----------------------------------------------------------------------------
(* Reads *)

End == activeFirst + ActiveLines

\* What splitLines finds in the active chunk.
ActiveContent == IF tail > 0 THEN Append(active, tail) ELSE active

\* Mutant: the upper bound is taken as included.
SliceInclusive(lines, f, from, to) ==
  SubSeq(lines, (IF from > f THEN from - f ELSE 0) + 1,
                IF to - f < Len(lines) THEN to - f + 1 ELSE Len(lines))

\* The lines of a chunk starting at number f that lie in [from, to).
Slice(lines, f, from, to) ==
  SubSeq(lines, (IF from > f THEN from - f ELSE 0) + 1,
                IF to - f < Len(lines) THEN to - f ELSE Len(lines))

\* Lines for a range inside the window: chunk after chunk, then the active one.
LinesOf(from, to) ==
  LET upto[i \in 0 .. Len(sealed)] ==
        IF i = 0 THEN <<>>
        ELSE upto[i-1] \o Slice(sealed[i].lines, sealed[i].first, from, to)
  IN upto[Len(sealed)] \o Slice(ActiveContent, activeFirst, from, to)

\* rawOfLocked on a chunk: a miss decompresses it and may push out the oldest.
CacheOne(c, f) ==
  IF f \in c.cached THEN c
  ELSE LET keys == Append(c.keys, f) IN
       IF Len(keys) > CacheMax
       THEN [keys |-> Tail(keys), cached |-> (c.cached \cup {f}) \ {Head(keys)}]
       ELSE [keys |-> keys, cached |-> c.cached \cup {f}]

\* Lines(from, to) goes through the cache for each compressed chunk it meets.
ReadLines(from, to) ==
  /\ mu = "free"
  /\ firstAvail <= from /\ from <= to /\ to <= End
  /\ LET meets(i) == sealed[i].first < to /\ sealed[i].first + Len(sealed[i].lines) > from
         after[i \in 0 .. Len(sealed)] ==
           IF i = 0 THEN [keys |-> cacheKeys, cached |-> cached]
           ELSE IF meets(i) /\ sealed[i].comp # 0
                THEN CacheOne(after[i-1], sealed[i].first)
                ELSE after[i-1]
     IN /\ cacheKeys' = after[Len(sealed)].keys
        /\ cached' = after[Len(sealed)].cached
  /\ UNCHANGED <<ringVars, maxBytes, closed, sealCh, chClosed, mu, comp, chunk,
                 sealVars, log, appends>>

-----------------------------------------------------------------------------
(* Close *)

CloseRing ==
  /\ mu = "free"
  /\ ~closed
  /\ closed' = TRUE
  /\ UNCHANGED <<ringVars, maxBytes, sealCh, chClosed, cacheVars, mu, comp, chunk,
                 sealVars, log, appends>>

\* Mutant: the channel is left open.
LeaveOpen == chClosed' = chClosed

CloseSealCh == chClosed' = TRUE

\* close(r.sealCh), after the unlock; then wg.Wait.
CloseChannel ==
  /\ closed
  /\ ~chClosed
  /\ CloseSealCh
  /\ UNCHANGED <<ringVars, maxBytes, closed, sealCh, cacheVars, mu, comp, chunk,
                 sealVars, log, appends>>

-----------------------------------------------------------------------------
Writer == SealToChannel \/ (\E n \in CompSizes : SealInline(n)) \/ AppendDone
Evict == EvictHead \/ EvictDone
Compressor == Receive \/ (\E n \in CompSizes : Compressed(n)) \/ Report \/ Exit

Next ==
  \/ \E p \in Pieces : AppendBytes(p)
  \/ SealToChannel
  \/ \E n \in CompSizes : SealInline(n)
  \/ AppendDone
  \/ \E c \in firing : ReportInline(c)
  \/ EvictHead
  \/ EvictDone
  \/ \E n \in ByteCaps : SetMaxBytes(n)
  \/ Receive
  \/ \E n \in CompSizes : Compressed(n)
  \/ Report
  \/ Exit
  \/ \E from, to \in firstAvail .. End : ReadLines(from, to)
  \/ CloseRing
  \/ CloseChannel

\* Goroutines run; the compressor gets the lock again and again (Go's mutex
\* does not starve a waiter). Nobody has to call anything.
Fairness ==
  /\ WF_vars(Writer)
  /\ WF_vars(Evict)
  /\ WF_vars(\E c \in firing : ReportInline(c))
  /\ SF_vars(Compressor)
  /\ WF_vars(CloseChannel)

Spec == Init /\ [][Next]_vars /\ Fairness

-----------------------------------------------------------------------------
(* Correctness *)

\* Exactly what was written as the lines numbered from f.
Holds(lines, f) ==
  /\ f + Len(lines) <= Len(log)
  /\ \A k \in 1 .. Len(lines) : lines[k] = log[f + k]

\* The number of the line after a chunk.
After(i) == sealed[i].first + Len(sealed[i].lines)

Placed(i) ==
  /\ sealed[i].lines # <<>>
  /\ Holds(sealed[i].lines, sealed[i].first)
  /\ sealed[i].first = IF i = 1 THEN firstAvail ELSE After(i - 1)

ActivePlaced ==
  /\ activeFirst = IF sealed = <<>> THEN firstAvail ELSE After(Len(sealed))
  /\ activeFirst + Len(active) = Len(log)
  /\ Holds(active, activeFirst)

\* Line numbers: chunks follow each other from firstAvail to activeFirst
\* without a gap, each holds the very lines written under its numbers, and
\* the active chunk holds the rest (buffer.go:50-53). Lines and Grep both
\* count from these numbers.
Numbered == (\A i \in DOMAIN sealed : Placed(i)) /\ ActivePlaced

\* A read of any range inside the window returns exactly the lines written
\* there, whatever was sealed, compressed or evicted since (buffer.go:56).
ReadsExact ==
  \A from, to \in firstAvail .. End :
    from <= to =>
      LinesOf(from, to) = SubSeq(IF tail > 0 THEN Append(log, tail) ELSE log, from + 1, to)

RawChunks == { i \in DOMAIN sealed : sealed[i].comp = 0 }
CompBytes == Sum([i \in DOMAIN sealed |-> sealed[i].comp])
CompLines == Sum([i \in DOMAIN sealed \ RawChunks |-> Len(sealed[i].lines)])

\* The byte count is what the ring really holds, after any interleaving of
\* writes, inline and background compression and eviction (ring.go:35).
BytesAccounted ==
  totalBytes = ActiveBytes + CompBytes
               + Sum([i \in RawChunks |-> Sum(sealed[i].lines)])

\* Outside the lock, the compressed history is within both caps, unless a
\* chunk that still waits for the compressor stands at the old end
\* (ring.go:221).
CapsHold ==
  (mu = "free" /\ HeadCompressed) =>
    CompBytes <= maxBytes /\ CompLines <= MaxLines

\* However far the compressor lags, no more uncompressed chunks pile up than
\* the channel holds plus the one in its hands (ring.go:171-173).
RawBounded == Cardinality(RawChunks) <= SealCap + 1

\* The decompress cache holds retained, compressed chunks only, and at most
\* CacheMax of them: eviction leaves its keys behind but not the data
\* (ring.go:39-40).
CacheCoherent ==
  /\ Cardinality(cached) <= CacheMax
  /\ \A f \in cached :
       \E i \in DOMAIN sealed : sealed[i].first = f /\ sealed[i].comp # 0

\* The books of the ring: what it returns, counts, caps and caches is what it holds,
\* after any interleaving of writes, compression, eviction and reads.
BooksExact == ReadsExact /\ BytesAccounted /\ CapsHold /\ RawBounded /\ CacheCoherent

\* Nothing is sent on the closed channel (a panic): no Append is in its seal
\* loop once the channel is closed (ring.go:120-124, 496-503).
NoSendOnClosed == mu \in {"seal", "evictInline"} => ~chClosed

\* Every sealed chunk, named by its first line (an Append completes two lines
\* at most here), is reported to the OnSeal callbacks in the end, the
\* chunks still queued when the ring closes included (buffer.go:61-62).
EveryChunkReported ==
  \A f \in 0 .. 2 * MaxAppends - 1 :
    (\E i \in DOMAIN sealed : sealed[i].first = f) ~> (f \in reported)

\* Close returns: the compressor drains the channel and exits.
CloseReturns == closed ~> (comp = "exited")

\* The compressor's work comes to an end: its reports, and its exit.
CompressorFinishes == EveryChunkReported /\ CloseReturns

\* The ring implements the promise of the Buffer interface.
Promise == INSTANCE ScrollbackLog WITH part <- tail, first <- firstAvail
PromiseHolds == Promise!Spec
=============================================================================
