--------------------------- MODULE ScrollbackProofs ---------------------------
(***************************************************************************)
(* Theorems about the scrollback ring, for every chunk size, cap, channel  *)
(* capacity and set of writes.                                             *)
(***************************************************************************)
EXTENDS Scrollback, FiniteSetTheorems, SequenceTheorems, WellFoundedInduction, TLAPS

\* The lock keeps Close and the seal loop apart.
LockInv ==
  /\ chClosed => closed
  /\ mu \in {"seal", "evictInline"} => ~closed

-----------------------------------------------------------------------------
(* What the operators return *)

LEMMA FunctionIsSeq ==
  ASSUME NEW S, NEW n \in Nat, NEW f \in [1 .. n -> S]
  PROVE  f \in Seq(S) /\ Len(f) = n
<1>1. f \in UNION { [1 .. m -> S] : m \in Nat }
  OBVIOUS
<1>2. f \in Seq(S)
  BY <1>1, SeqDef, Zenon
<1>3. DOMAIN f = 1 .. n /\ DOMAIN f = 1 .. Len(f) /\ Len(f) \in Nat
  BY <1>2, LenProperties
<1>4. QED
  BY <1>2, <1>3

LEMMA NewLinesType ==
  ASSUME RingType, NEW p \in Pieces
  PROVE  NewLines(p) \in Seq(Nat) /\ NewTail(p) \in Nat
<1>1. p.lines \in Seq(Nat) /\ p.rest \in Nat /\ tail \in Nat
  BY PiecesAssumption DEF RingType
<1>2. CASE p.lines = <<>>
  BY <1>1, <1>2 DEF NewLines, NewTail
<1>3. CASE p.lines # <<>>
  <2>1. Head(p.lines) \in Nat /\ Tail(p.lines) \in Seq(Nat)
    BY <1>1, <1>3, HeadTailProperties
  <2>2. QED
    BY <1>1, <1>3, <2>1 DEF NewLines, NewTail
<1>4. QED
  BY <1>2, <1>3

LEMMA CutLinesType ==
  ASSUME RingType
  PROVE  /\ CutLines \in Seq(Nat)
         /\ CutLines # <<>>
         /\ Len(CutLines) \in Nat \ {0}
         /\ CutTail \in Nat
<1>1. CASE active # <<>>
  BY <1>1, EmptySeq DEF RingType, CutLines, CutTail
<1>2. CASE active = <<>>
  BY <1>2 DEF RingType, CutLines, CutTail
<1>3. QED
  BY <1>1, <1>2

-----------------------------------------------------------------------------
(* Type correctness of everything but the byte counter and the cache *)

LEMMA RingTypeInit == Init => RingType
<1>1. <<>> \in Seq(Nat) /\ <<>> \in Seq(Chunk) /\ <<>> \in Seq(Handed)
  BY EmptySeq
<1>2. [first |-> 0, lines |-> <<>>] \in Handed
  BY <1>1 DEF Handed
<1>3. SUFFICES ASSUME Init PROVE RingType
  OBVIOUS
<1>4. /\ chunk \in Handed
      /\ sealed \in Seq(Chunk) /\ active \in Seq(Nat)
      /\ sealCh \in Seq(Handed) /\ log \in Seq(Nat)
  BY <1>1, <1>2, <1>3, Zenon DEF Init
<1>5. appends \in 0 .. MaxAppends
  BY <1>3, SizesAssumption DEF Init
<1>6. QED
  BY <1>3, <1>4, <1>5 DEF Init, RingType, Holders

LEMMA RingTypeStep == RingType /\ [Next]_vars => RingType'
<1>. SUFFICES ASSUME RingType, [Next]_vars PROVE RingType'
  OBVIOUS
<1>. USE DEF RingType, ringVars, cacheVars, sealVars
<1>1. ASSUME NEW p \in Pieces, AppendBytes(p)
      PROVE  RingType'
  <2>1. NewLines(p) \in Seq(Nat) /\ NewTail(p) \in Nat
    BY NewLinesType
  <2>2. active' \in Seq(Nat) /\ log' \in Seq(Nat)
    BY <1>1, <2>1, ConcatProperties DEF AppendBytes
  <2>3. appends' \in 0 .. MaxAppends
    BY <1>1, SizesAssumption DEF AppendBytes
  <2>4. QED
    BY <1>1, <2>1, <2>2, <2>3 DEF AppendBytes, Holders
<1>2. ASSUME NEW size \in Nat, CutChunk(size)
      PROVE  /\ sealed' \in Seq(Chunk)
             /\ active' \in Seq(Nat)
             /\ tail' \in Nat
             /\ activeFirst' \in Nat
             /\ log' \in Seq(Nat)
  <2>1. /\ CutLines \in Seq(Nat)
        /\ Len(CutLines) \in Nat
        /\ CutTail \in Nat
    BY CutLinesType
  <2>2. [first |-> activeFirst, lines |-> CutLines, comp |-> size] \in Chunk
    BY <2>1 DEF Chunk
  <2>3. log \o CutLines \in Seq(Nat)
    BY <2>1, ConcatProperties
  <2>4. QED
    BY <1>2, <2>1, <2>2, <2>3 DEF CutChunk
<1>3. CASE SealToChannel
  <2>1. [first |-> activeFirst, lines |-> CutLines] \in Handed
    BY CutLinesType DEF Handed
  <2>2. sealCh' \in Seq(Handed)
    BY <1>3, <2>1 DEF SealToChannel
  <2>3. CutChunk(0)
    BY <1>3 DEF SealToChannel
  <2>4. QED
    BY <1>2, <1>3, <2>2, <2>3 DEF SealToChannel
<1>4. ASSUME NEW size \in CompSizes, SealInline(size)
      PROVE  RingType'
  <2>1. size \in Nat /\ CutChunk(size)
    BY <1>4, SizesAssumption DEF SealInline
  <2>2. QED
    BY <1>2, <1>4, <2>1 DEF SealInline, Holders
<1>5. CASE AppendDone
  BY <1>5 DEF AppendDone, Holders
<1>6. ASSUME NEW c \in firing, ReportInline(c)
      PROVE  RingType'
  BY <1>6 DEF ReportInline
<1>7. CASE EvictHead
  <2>1. sealed # <<>>
    BY <1>7 DEF EvictHead, HeadCompressed
  <2>2. Head(sealed) \in Chunk /\ Tail(sealed) \in Seq(Chunk)
    BY <2>1, HeadTailProperties
  <2>3. Len(Head(sealed).lines) \in Nat
    BY <2>2 DEF Chunk
  <2>4. QED
    BY <1>7, <2>2, <2>3 DEF EvictHead, AdvanceFirst
<1>8. CASE EvictDone
  BY <1>8 DEF EvictDone, Holders, Evicting
<1>9. ASSUME NEW n \in ByteCaps, SetMaxBytes(n)
      PROVE  RingType'
  BY <1>9 DEF SetMaxBytes, Holders
<1>10. CASE Receive
  <2>1. Head(sealCh) \in Handed /\ Tail(sealCh) \in Seq(Handed)
    BY <1>10, HeadTailProperties DEF Receive
  <2>2. QED
    BY <1>10, <2>1 DEF Receive
<1>11. ASSUME NEW size \in CompSizes, Compressed(size)
      PROVE  RingType'
  <2>1. size \in Nat
    BY SizesAssumption
  <2>2. sealed' \in [1 .. Len(sealed) -> Chunk]
    <3>1. DOMAIN sealed = 1 .. Len(sealed) /\ \A i \in DOMAIN sealed : sealed[i] \in Chunk
      BY LenProperties
    <3>2. \A c \in Chunk : [c EXCEPT !.comp = size] \in Chunk
      BY <2>1 DEF Chunk
    <3>3. QED
      BY <1>11, <3>1, <3>2 DEF Compressed
  <2>3. sealed' \in Seq(Chunk)
    BY <2>2, FunctionIsSeq, LenProperties
  <2>4. QED
    BY <1>11, <2>3 DEF Compressed, Holders
<1>12. CASE Report
  BY <1>12 DEF Report, Handed
<1>13. CASE Exit
  BY <1>13 DEF Exit
<1>14. ASSUME NEW from \in Nat, NEW to \in Nat, ReadLines(from, to)
      PROVE  RingType'
  BY <1>14 DEF ReadLines
<1>15. CASE CloseRing
  BY <1>15 DEF CloseRing
<1>16. CASE CloseChannel
  BY <1>16 DEF CloseChannel, CloseSealCh
<1>17. CASE UNCHANGED vars
  BY <1>17 DEF vars
<1>18. firstAvail .. End \subseteq Nat
  BY DEF End, ActiveLines
<1>19. QED
  BY <1>1, <1>3, <1>4, <1>5, <1>6, <1>7, <1>8, <1>9, <1>10, <1>11, <1>12,
     <1>13, <1>14, <1>15, <1>16, <1>17, <1>18 DEF Next

-----------------------------------------------------------------------------
(* Line numbers and contents *)

LEMMA ChunkTypes ==
  ASSUME RingType
  PROVE  /\ Len(sealed) \in Nat /\ DOMAIN sealed = 1 .. Len(sealed)
         /\ \A i \in DOMAIN sealed :
              /\ sealed[i].first \in Nat
              /\ sealed[i].lines \in Seq(Nat)
              /\ Len(sealed[i].lines) \in Nat
<1>1. Len(sealed) \in Nat /\ DOMAIN sealed = 1 .. Len(sealed)
  BY LenProperties DEF RingType
<1>2. \A i \in DOMAIN sealed : sealed[i] \in Chunk
  BY <1>1, ElementOfSeq DEF RingType
<1>3. QED
  BY <1>1, <1>2, LenProperties DEF Chunk

LEMMA NumberedFacts ==
  ASSUME RingType, Numbered
  PROVE  /\ \A i \in DOMAIN sealed :
              /\ sealed[i].lines # <<>>
              /\ Holds(sealed[i].lines, sealed[i].first)
              /\ i = 1 => sealed[i].first = firstAvail
              /\ i # 1 => sealed[i].first = After(i - 1)
         /\ sealed = <<>> => activeFirst = firstAvail
         /\ sealed # <<>> => activeFirst = After(Len(sealed))
         /\ activeFirst + Len(active) = Len(log)
         /\ Holds(active, activeFirst)
  BY DEF Numbered, Placed, ActivePlaced

LEMMA NumberedInit == Init => Numbered
<1>1. Len(<<>>) = 0 /\ DOMAIN <<>> = {}
  OBVIOUS
<1>2. QED
  BY <1>1 DEF Init, Numbered, Placed, ActivePlaced, Holds

\* Lines added to the log leave what it holds already.
LEMMA LogGrows ==
  ASSUME NEW l \in Seq(Nat), NEW x \in Seq(Nat)
  PROVE  /\ l \o x \in Seq(Nat)
         /\ Len(l \o x) = Len(l) + Len(x)
         /\ \A i \in 1 .. Len(l) : (l \o x)[i] = l[i]
         /\ \A i \in 1 .. Len(x) : (l \o x)[Len(l) + i] = x[i]
<1>1. Len(l) \in Nat /\ Len(x) \in Nat
  BY LenProperties
<1>2. QED
  BY <1>1, ConcatProperties

\* What holds of a log holds of the log it grows into.
LEMMA HoldsStays ==
  ASSUME NEW lines, NEW f \in Nat, Len(lines) \in Nat, Holds(lines, f),
         Len(log) \in Nat, Len(log') \in Nat, Len(log) <= Len(log'),
         \A i \in 1 .. Len(log) : log'[i] = log[i]
  PROVE  /\ f + Len(lines) <= Len(log')
         /\ \A k \in 1 .. Len(lines) : lines[k] = log'[f + k]
<1>1. f + Len(lines) <= Len(log')
  BY DEF Holds
<1>2. ASSUME NEW k \in 1 .. Len(lines)
      PROVE  lines[k] = log'[f + k]
  <2>1. f + k \in 1 .. Len(log)
    BY DEF Holds
  <2>2. lines[k] = log[f + k]
    BY DEF Holds
  <2>3. QED
    BY <2>1, <2>2
<1>3. QED
  BY <1>1, <1>2

LEMMA NumberedAppend ==
  ASSUME RingType, Numbered, NEW p \in Pieces, AppendBytes(p)
  PROVE  Numbered'
<1>1. /\ active' = active \o NewLines(p)
      /\ log' = log \o NewLines(p)
      /\ UNCHANGED <<sealed, firstAvail, activeFirst>>
  BY DEF AppendBytes
<1>2. NewLines(p) \in Seq(Nat)
  BY NewLinesType
<1>3. /\ Len(log) \in Nat /\ Len(active) \in Nat /\ activeFirst \in Nat
      /\ Len(NewLines(p)) \in Nat
  BY <1>2, LenProperties DEF RingType
<1>4. /\ Len(log') = Len(log) + Len(NewLines(p))
      /\ \A i \in 1 .. Len(log) : log'[i] = log[i]
      /\ \A i \in 1 .. Len(NewLines(p)) : log'[Len(log) + i] = NewLines(p)[i]
  BY <1>1, <1>2, LogGrows DEF RingType
<1>5. /\ Len(active') = Len(active) + Len(NewLines(p))
      /\ \A i \in 1 .. Len(active) : active'[i] = active[i]
      /\ \A i \in 1 .. Len(NewLines(p)) : active'[Len(active) + i] = NewLines(p)[i]
  BY <1>1, <1>2, LogGrows DEF RingType
<1>6. \A i \in DOMAIN sealed : Holds(sealed[i].lines, sealed[i].first)'
  <2>1. ASSUME NEW i \in DOMAIN sealed
        PROVE  Holds(sealed[i].lines, sealed[i].first)'
    <3>1. Holds(sealed[i].lines, sealed[i].first)
      BY NumberedFacts
    <3>2. /\ sealed[i].first \in Nat
          /\ Len(sealed[i].lines) \in Nat
      BY ChunkTypes
    <3>3. Len(log') \in Nat /\ Len(log) <= Len(log')
      BY <1>3, <1>4
    <3>4. /\ sealed[i].first + Len(sealed[i].lines) <= Len(log')
          /\ \A k \in 1 .. Len(sealed[i].lines) :
               sealed[i].lines[k] = log'[sealed[i].first + k]
      BY <1>3, <1>4, <3>1, <3>2, <3>3, HoldsStays
    <3>5. QED
      BY <1>1, <3>4 DEF Holds
  <2>2. QED
    BY <1>1, <2>1
<1>7. activeFirst' + Len(active') = Len(log')
  <2>1. activeFirst + Len(active) = Len(log)
    BY NumberedFacts
  <2>2. /\ activeFirst' = activeFirst
        /\ Len(active') = Len(active) + Len(NewLines(p))
        /\ Len(log') = Len(log) + Len(NewLines(p))
    BY <1>1, <1>4, <1>5
  <2>3. QED
    BY <1>3, <2>1, <2>2
<1>8. Holds(active, activeFirst)'
  <2>1. ASSUME NEW k \in 1 .. Len(active')
        PROVE  active'[k] = log'[activeFirst + k]
    <3>1. CASE k \in 1 .. Len(active)
      <4>1. activeFirst + k \in 1 .. Len(log) /\ active[k] = log[activeFirst + k]
        BY <1>3, <3>1, NumberedFacts DEF Holds
      <4>2. QED
        BY <1>4, <1>5, <3>1, <4>1
    <3>2. CASE k \notin 1 .. Len(active)
      <4>1. PICK i \in 1 .. Len(NewLines(p)) : k = Len(active) + i
        <5>1. k - Len(active) \in 1 .. Len(NewLines(p))
          BY <1>3, <1>5, <2>1, <3>2
        <5>2. k = Len(active) + (k - Len(active))
          BY <1>3
        <5>3. QED
          BY <5>1, <5>2, Zenon
      <4>2. activeFirst + k = Len(log) + i
        <5>1. activeFirst + Len(active) = Len(log)
          BY NumberedFacts
        <5>2. i \in Nat
          BY <1>3
        <5>3. QED
          BY <1>3, <4>1, <5>1, <5>2
      <4>3. QED
        BY <1>4, <1>5, <4>1, <4>2
    <3>3. QED
      BY <3>1, <3>2
  <2>2. QED
    BY <1>1, <1>3, <1>7, <2>1 DEF Holds
<1>9. QED
  BY <1>1, <1>6, <1>7, <1>8, NumberedFacts DEF Numbered, Placed, ActivePlaced, After

LEMMA NumberedCut ==
  ASSUME RingType, Numbered, NEW size \in Nat, CutChunk(size), firstAvail' = firstAvail
  PROVE  Numbered'
<1> DEFINE c == [first |-> activeFirst, lines |-> CutLines, comp |-> size]
           n == Len(sealed)
<1>1. /\ CutLines \in Seq(Nat)
      /\ CutLines # <<>>
      /\ Len(CutLines) \in Nat \ {0}
  BY CutLinesType
<1>2. /\ Len(log) \in Nat /\ Len(active) \in Nat /\ activeFirst \in Nat /\ n \in Nat
  BY LenProperties DEF RingType
<1>3. /\ sealed' = Append(sealed, c)
      /\ active' = <<>>
      /\ activeFirst' = activeFirst + Len(CutLines)
  BY DEF CutChunk
<1>4. c \in Chunk
  BY <1>1, <1>2 DEF Chunk
<1>5. /\ Len(sealed') = n + 1
      /\ DOMAIN sealed' = 1 .. n + 1
      /\ \A i \in 1 .. n : sealed'[i] = sealed[i]
      /\ sealed'[n + 1] = c
  BY <1>2, <1>3, <1>4 DEF RingType
\* The log ends with the lines of the new chunk.
<1>6. /\ Len(log') = activeFirst + Len(CutLines)
      /\ Len(log) <= Len(log')
      /\ \A i \in 1 .. Len(log) : log'[i] = log[i]
      /\ \A k \in 1 .. Len(CutLines) : CutLines[k] = log'[activeFirst + k]
  <2>1. CASE active # <<>>
    BY <1>2, <2>1, NumberedFacts DEF CutChunk, CutLines, Holds
  <2>2. CASE active = <<>>
    <3>1. activeFirst = Len(log) /\ log' = log \o CutLines
      BY <1>2, <2>2, NumberedFacts DEF CutChunk
    <3>2. QED
      BY <1>1, <1>2, <3>1, LogGrows DEF RingType
  <2>3. QED
    BY <2>1, <2>2
<1>7. ASSUME NEW i \in 1 .. n + 1
      PROVE  /\ sealed'[i].lines # <<>>
             /\ Holds(sealed[i].lines, sealed[i].first)'
  <2>1. CASE i \in 1 .. n
    <3>1. sealed[i].lines # <<>> /\ Holds(sealed[i].lines, sealed[i].first)
      BY <2>1, ChunkTypes, NumberedFacts
    <3>2. sealed[i].first \in Nat /\ Len(sealed[i].lines) \in Nat
      BY <2>1, ChunkTypes
    <3>3. /\ sealed[i].first + Len(sealed[i].lines) <= Len(log')
          /\ \A k \in 1 .. Len(sealed[i].lines) :
               sealed[i].lines[k] = log'[sealed[i].first + k]
      <4>1. Len(log') \in Nat
        BY <1>1, <1>2, <1>6
      <4>2. QED
        BY <1>2, <1>6, <3>1, <3>2, <4>1, HoldsStays
    <3>4. sealed'[i] = sealed[i]
      BY <1>5, <2>1
    <3>5. QED
      BY <3>1, <3>3, <3>4, Zenon DEF Holds
  <2>2. CASE i = n + 1
    <3>1. sealed'[i].lines = CutLines /\ sealed'[i].first = activeFirst
      BY <1>5, <2>2
    <3>2. QED
      BY <1>1, <1>2, <1>6, <3>1 DEF Holds
  <2>3. QED
    BY <1>2, <2>1, <2>2
<1>8. ASSUME NEW i \in 1 .. n + 1
      PROVE  sealed'[i].first = IF i = 1 THEN firstAvail'
                                ELSE After(i - 1)'
  <2>1. CASE i \in 1 .. n
    <3>1. i - 1 \in 1 .. n \/ i = 1
      BY <1>2, <2>1
    <3>2. QED
      BY <1>5, <2>1, <3>1, ChunkTypes, NumberedFacts DEF After
  <2>2. CASE i = n + 1
    <3>1. CASE n = 0
      <4>1. sealed = <<>>
        BY <3>1, EmptySeq DEF RingType
      <4>2. QED
        BY <1>5, <2>2, <3>1, <4>1, NumberedFacts
    <3>2. CASE n # 0
      <4>1. sealed # <<>> /\ n \in 1 .. n
        BY <1>2, <3>2
      <4>2. QED
        BY <1>2, <1>5, <2>2, <3>2, <4>1, NumberedFacts DEF After
    <3>3. QED
      BY <3>1, <3>2
  <2>3. QED
    BY <1>2, <2>1, <2>2
<1>9. activeFirst' = IF sealed' = <<>> THEN firstAvail'
                     ELSE After(Len(sealed))'
  <2>1. sealed' # <<>>
    BY <1>2, <1>5
  <2>2. QED
    BY <1>2, <1>3, <1>5, <2>1 DEF After
<1>10. activeFirst' + Len(active') = Len(log') /\ Holds(active, activeFirst)'
  BY <1>1, <1>2, <1>3, <1>6 DEF Holds
<1>11. QED
  BY <1>5, <1>7, <1>8, <1>9, <1>10 DEF Numbered, Placed, ActivePlaced

LEMMA NumberedEvict ==
  ASSUME RingType, Numbered, EvictHead
  PROVE  Numbered'
<1> DEFINE n == Len(sealed)
<1>1. /\ sealed # <<>>
      /\ sealed' = Tail(sealed)
      /\ firstAvail' = firstAvail + Len(Head(sealed).lines)
      /\ UNCHANGED <<active, activeFirst, log>>
  BY DEF EvictHead, HeadCompressed, AdvanceFirst
<1>2. n \in Nat \ {0} /\ DOMAIN sealed = 1 .. n
  BY <1>1, EmptySeq, LenProperties DEF RingType
<1>3. /\ sealed' \in Seq(Chunk)
      /\ Len(sealed') = n - 1
      /\ DOMAIN sealed' = 1 .. n - 1
      /\ \A i \in 1 .. n - 1 : sealed'[i] = sealed[i + 1]
  BY <1>1, <1>2, HeadTailProperties, LenProperties DEF RingType
<1>4. firstAvail' = After(1)
  <2>1. Head(sealed) = sealed[1] /\ 1 \in DOMAIN sealed
    BY <1>1, <1>2
  <2>2. QED
    BY <1>1, <2>1, NumberedFacts DEF After
<1>5. ASSUME NEW i \in 1 .. n - 1
      PROVE  /\ sealed'[i].lines # <<>>
             /\ Holds(sealed[i].lines, sealed[i].first)'
             /\ sealed'[i].first = IF i = 1 THEN firstAvail'
                                   ELSE After(i - 1)'
  <2>1. i + 1 \in DOMAIN sealed /\ sealed'[i] = sealed[i + 1]
    BY <1>2, <1>3
  <2>2. sealed'[i].lines # <<>> /\ Holds(sealed[i].lines, sealed[i].first)'
    BY <1>1, <2>1, NumberedFacts DEF Holds
  <2>3. CASE i = 1
    <3>1. sealed[2].first = After(1)
      BY <1>2, <2>1, <2>3, NumberedFacts
    <3>2. QED
      BY <1>4, <2>1, <2>2, <2>3, <3>1
  <2>4. CASE i # 1
    <3>1. i - 1 \in 1 .. n - 1 /\ sealed'[i-1] = sealed[i]
      BY <1>2, <1>3, <2>4
    <3>2. sealed[i+1].first = After(i)
      <4>1. i + 1 # 1 /\ (i + 1) - 1 = i
        BY <1>2
      <4>2. QED
        BY <2>1, <4>1, NumberedFacts
    <3>3. QED
      BY <2>1, <2>2, <2>4, <3>1, <3>2 DEF After
  <2>5. QED
    BY <2>2, <2>3, <2>4
<1>6. activeFirst' = IF sealed' = <<>> THEN firstAvail'
                     ELSE After(Len(sealed))'
  <2>1. activeFirst' = After(n)
    BY <1>1, NumberedFacts
  <2>2. CASE n = 1
    BY <1>3, <1>4, <2>1, <2>2, EmptySeq
  <2>3. CASE n # 1
    <3>1. n - 1 \in 1 .. n - 1 /\ sealed'[n-1] = sealed[n] /\ sealed' # <<>>
      BY <1>2, <1>3, <2>3
    <3>2. QED
      BY <1>3, <2>1, <3>1 DEF After
  <2>4. QED
    BY <2>2, <2>3
<1>7. activeFirst' + Len(active') = Len(log') /\ Holds(active, activeFirst)'
  BY <1>1, NumberedFacts DEF Holds
<1>8. QED
  BY <1>3, <1>5, <1>6, <1>7 DEF Numbered, Placed, ActivePlaced

LEMMA NumberedCompressed ==
  ASSUME RingType, Numbered, NEW size \in CompSizes, Compressed(size)
  PROVE  Numbered'
<1>1. /\ DOMAIN sealed' = DOMAIN sealed
      /\ \A i \in DOMAIN sealed : /\ sealed'[i].first = sealed[i].first
                                 /\ sealed'[i].lines = sealed[i].lines
      /\ UNCHANGED <<active, activeFirst, firstAvail, log>>
  <2>1. \A i \in DOMAIN sealed : sealed[i] \in Chunk
    BY LenProperties, ElementOfSeq DEF RingType
  <2>2. QED
    BY <2>1 DEF Compressed, Chunk
<1>2. Len(sealed') = Len(sealed) /\ (sealed' = <<>> <=> sealed = <<>>)
  <2>1. sealed' \in Seq(Chunk)
    BY RingTypeStep DEF Next, RingType
  <2>2. QED
    BY <1>1, <2>1, LenProperties, EmptySeq DEF RingType
<1>3. ASSUME NEW i \in DOMAIN sealed
      PROVE  /\ sealed'[i].lines # <<>>
             /\ Holds(sealed[i].lines, sealed[i].first)'
             /\ sealed'[i].first = IF i = 1 THEN firstAvail'
                                   ELSE After(i - 1)'
  <2>1. i = 1 \/ i - 1 \in DOMAIN sealed
    BY ChunkTypes
  <2>2. QED
    BY <1>1, <2>1, NumberedFacts DEF Holds, After
<1>4. Len(sealed) \in DOMAIN sealed \/ sealed = <<>>
  BY ChunkTypes, EmptySeq DEF RingType
<1>5. QED
  BY <1>1, <1>2, <1>3, <1>4, NumberedFacts DEF Numbered, Placed, ActivePlaced, Holds, After

LEMMA NumberedStep == RingType /\ Numbered /\ [Next]_vars => Numbered'
<1>. SUFFICES ASSUME RingType, Numbered, [Next]_vars PROVE Numbered'
  OBVIOUS
<1> DEFINE Same == UNCHANGED <<sealed, active, firstAvail, activeFirst, log>>
<1>1. ASSUME Same PROVE Numbered'
  BY <1>1 DEF Numbered, Placed, ActivePlaced, Holds, After
<1>2. ASSUME NEW p \in Pieces, AppendBytes(p) PROVE Numbered'
  BY <1>2, NumberedAppend
<1>3. CASE SealToChannel
  BY <1>3, NumberedCut DEF SealToChannel
<1>4. ASSUME NEW size \in CompSizes, SealInline(size) PROVE Numbered'
  BY <1>4, NumberedCut, SizesAssumption DEF SealInline
<1>5. CASE EvictHead
  BY <1>5, NumberedEvict
<1>6. ASSUME NEW size \in CompSizes, Compressed(size) PROVE Numbered'
  BY <1>6, NumberedCompressed
<1>7. ASSUME \/ AppendDone \/ (\E c \in firing : ReportInline(c)) \/ EvictDone
             \/ (\E m \in ByteCaps : SetMaxBytes(m)) \/ Receive \/ Report \/ Exit
             \/ (\E from, to \in firstAvail .. End : ReadLines(from, to))
             \/ CloseRing \/ CloseChannel \/ UNCHANGED vars
      PROVE  Same
  BY <1>7 DEF AppendDone, ReportInline, EvictDone, SetMaxBytes, Receive, Report,
     Exit, ReadLines, CloseRing, CloseChannel, ringVars, vars
<1>8. QED
  BY <1>1, <1>2, <1>3, <1>4, <1>5, <1>6, <1>7 DEF Next

-----------------------------------------------------------------------------
(* The lock, and the promise of the interface *)

LEMMA LockStep == LockInv /\ [Next]_vars => LockInv'
<1>. SUFFICES ASSUME LockInv, [Next]_vars PROVE LockInv'
  OBVIOUS
<1>. USE DEF LockInv
<1>1. ASSUME NEW p \in Pieces, AppendBytes(p) PROVE LockInv'
  BY <1>1 DEF AppendBytes, Open
<1>2. CASE SealToChannel
  BY <1>2 DEF SealToChannel
<1>3. ASSUME NEW size \in CompSizes, SealInline(size) PROVE LockInv'
  BY <1>3 DEF SealInline
<1>4. ASSUME AppendDone \/ EvictDone PROVE LockInv'
  BY <1>4 DEF AppendDone, EvictDone, Evicting
<1>5. ASSUME NEW m \in ByteCaps, SetMaxBytes(m) PROVE LockInv'
  BY <1>5 DEF SetMaxBytes
<1>6. ASSUME NEW size \in CompSizes, Compressed(size) PROVE LockInv'
  BY <1>6 DEF Compressed
<1>7. CASE CloseRing
  BY <1>7 DEF CloseRing
<1>8. CASE CloseChannel
  BY <1>8 DEF CloseChannel, CloseSealCh
<1>9. ASSUME \/ EvictHead \/ (\E c \in firing : ReportInline(c)) \/ Receive \/ Report \/ Exit
             \/ (\E from, to \in firstAvail .. End : ReadLines(from, to))
             \/ UNCHANGED vars
      PROVE  LockInv'
  BY <1>9 DEF EvictHead, ReportInline, Receive, Report, Exit, ReadLines, vars
<1>10. QED
  BY <1>1, <1>2, <1>3, <1>4, <1>5, <1>6, <1>7, <1>8, <1>9 DEF Next

LEMMA WriteStep ==
  ASSUME RingType, NEW p \in Pieces, AppendBytes(p)
  PROVE  Promise!Write
<1>1. /\ log' = log \o NewLines(p)
      /\ ~closed
      /\ UNCHANGED <<firstAvail, closed>>
  BY DEF AppendBytes, Open
<1>2. Len(log) <= Len(log') /\ \A i \in 1 .. Len(log) : log'[i] = log[i]
  <2>1. Len(log) \in Nat /\ Len(NewLines(p)) \in Nat
    BY NewLinesType, LenProperties DEF RingType
  <2>2. QED
    BY <1>1, <2>1, NewLinesType, LogGrows DEF RingType
<1>3. tail \in Nat /\ p.lines \in Seq(Nat) /\ p.rest \in Nat
  BY PiecesAssumption DEF RingType
<1>4. CASE p.lines = <<>>
  <2>1. log' = log
    BY <1>1, <1>4 DEF NewLines, RingType
  <2>2. tail' > tail
    BY <1>3, <1>4, NotEmptyAssumption DEF AppendBytes, NewTail
  <2>3. QED
    BY <1>1, <1>2, <2>1, <2>2 DEF Promise!Write
<1>5. CASE p.lines # <<>>
  <2>1. Head(p.lines) \in Nat /\ Head(p.lines) > 0 /\ Tail(p.lines) \in Seq(Nat)
    BY <1>3, <1>5, NotEmptyAssumption, HeadTailProperties
  <2>2. NewLines(p) = <<tail + Head(p.lines)>> \o Tail(p.lines)
    BY <1>5 DEF NewLines
  <2>3. Len(NewLines(p)) >= 1 /\ NewLines(p)[1] = tail + Head(p.lines)
    BY <1>3, <2>1, <2>2
  <2>4. /\ Len(log') = Len(log) + Len(NewLines(p))
        /\ log'[Len(log) + 1] = NewLines(p)[1]
    BY <1>1, <2>3, NewLinesType DEF RingType
  <2>7. Len(log) \in Nat /\ Len(NewLines(p)) \in Nat
    BY <1>1, <1>3, NewLinesType, LenProperties DEF RingType
  <2>8. log' # log
    <3>1. Len(log') # Len(log)
      BY <2>3, <2>4, <2>7
    <3>. QED
      BY <3>1, Zenon
  <2>9. log'[Len(log) + 1] > tail
    BY <1>3, <2>1, <2>3, <2>4
  <2>5. log' # log /\ log'[Len(log) + 1] > tail
    BY <2>8, <2>9
  <2>6. QED
    BY <1>1, <1>2, <2>5 DEF Promise!Write
<1>6. QED
  BY <1>4, <1>5

LEMMA CutStep ==
  ASSUME RingType, NEW size, CutChunk(size), CanSeal, UNCHANGED <<firstAvail, closed>>
  PROVE  Promise!Next \/ UNCHANGED <<log, tail, firstAvail, closed>>
<1>1. CASE active # <<>>
  BY <1>1 DEF CutChunk, CutTail
<1>2. CASE active = <<>>
  <2>1. log' = Append(log, tail)
    <3>1. log' = log \o <<tail>>
      BY <1>2 DEF CutChunk, CutLines
    <3>2. QED
      BY <3>1 DEF RingType
  <2>2. Promise!Split
    BY <1>2, <2>1 DEF CutChunk, CutTail, CanSeal, Promise!Split
  <2>3. QED
    BY <2>2 DEF Promise!Next
<1>3. QED
  BY <1>1, <1>2

LEMMA DropStep ==
  ASSUME RingType, Numbered, EvictHead
  PROVE  Promise!Drop
<1>1. /\ sealed # <<>>
      /\ firstAvail' = firstAvail + Len(Head(sealed).lines)
      /\ UNCHANGED <<log, tail, closed>>
  BY DEF EvictHead, HeadCompressed, AdvanceFirst
<1>2. 1 \in DOMAIN sealed /\ Head(sealed) = sealed[1]
  BY <1>1, EmptySeq DEF RingType
<1>3. /\ sealed[1].first = firstAvail
      /\ sealed[1].lines # <<>>
      /\ firstAvail + Len(sealed[1].lines) <= Len(log)
  BY <1>2, NumberedFacts DEF Holds
<1>4. Len(sealed[1].lines) \in Nat \ {0} /\ firstAvail \in Nat
  BY <1>2, <1>3, ChunkTypes, EmptySeq DEF RingType
<1>5. QED
  BY <1>1, <1>2, <1>3, <1>4 DEF Promise!Drop

LEMMA PromiseStep ==
  RingType /\ Numbered /\ [Next]_vars => [Promise!Next]_(Promise!vars)
<1>. SUFFICES ASSUME RingType, Numbered, [Next]_vars
              PROVE  Promise!Next \/ UNCHANGED <<log, tail, firstAvail, closed>>
  BY DEF Promise!vars
<1>1. ASSUME NEW p \in Pieces, AppendBytes(p) PROVE Promise!Next
  BY <1>1, WriteStep DEF Promise!Next
<1>2. ASSUME NEW size, CutChunk(size), CanSeal, UNCHANGED <<firstAvail, closed>>
      PROVE  Promise!Next \/ UNCHANGED <<log, tail, firstAvail, closed>>
  BY <1>2, CutStep
<1>3. ASSUME SealToChannel \/ \E size \in CompSizes : SealInline(size)
      PROVE  Promise!Next \/ UNCHANGED <<log, tail, firstAvail, closed>>
  BY <1>2, <1>3 DEF SealToChannel, SealInline
<1>4. CASE EvictHead
  BY <1>4, DropStep DEF Promise!Next
<1>5. CASE CloseRing
  BY <1>5 DEF CloseRing, ringVars, Promise!Next, Promise!Close
<1>6. ASSUME \/ AppendDone \/ (\E c \in firing : ReportInline(c)) \/ EvictDone
             \/ (\E m \in ByteCaps : SetMaxBytes(m)) \/ Receive \/ Report \/ Exit
             \/ (\E size \in CompSizes : Compressed(size))
             \/ (\E from, to \in firstAvail .. End : ReadLines(from, to))
             \/ CloseChannel \/ UNCHANGED vars
      PROVE  UNCHANGED <<log, tail, firstAvail, closed>>
  BY <1>6 DEF AppendDone, ReportInline, EvictDone, SetMaxBytes, Receive, Report,
     Exit, Compressed, ReadLines, CloseChannel, ringVars, vars
<1>7. QED
  BY <1>1, <1>3, <1>4, <1>5, <1>6 DEF Next

-----------------------------------------------------------------------------
(* The backlog of the compressor *)

Queued(f) == \E k \in 1 .. Len(sealCh) : sealCh[k].first = f
InHand(f) == comp = "encoding" /\ chunk.first = f

\* What waits for its compression is in the channel or in the compressor's
\* hands, and no two chunks have the same first line.
BacklogInv ==
  /\ Len(sealCh) <= SealCap
  /\ \A i \in RawChunks : Queued(sealed[i].first) \/ InHand(sealed[i].first)
  /\ \A i, j \in DOMAIN sealed : i < j => sealed[i].first < sealed[j].first
  /\ \A i \in DOMAIN sealed : sealed[i].first < activeFirst
  /\ mu = "evictComp" => comp = "evicting"

LEMMA BacklogInit == Init => BacklogInv
<1>1. DOMAIN <<>> = {} /\ Len(<<>>) = 0
  OBVIOUS
<1>2. QED
  BY <1>1, SizesAssumption DEF Init, BacklogInv, RawChunks

\* A new chunk gets the highest first line so far.
LEMMA BacklogCut ==
  ASSUME RingType, BacklogInv, NEW size \in Nat, CutChunk(size)
  PROVE  /\ DOMAIN sealed' = 1 .. Len(sealed) + 1
         /\ \A i \in DOMAIN sealed : i \in DOMAIN sealed' /\ sealed'[i] = sealed[i]
         /\ sealed'[Len(sealed) + 1] = [first |-> activeFirst, lines |-> CutLines, comp |-> size]
         /\ \A i, j \in DOMAIN sealed' : i < j => sealed'[i].first < sealed'[j].first
         /\ \A i \in DOMAIN sealed' : sealed'[i].first < activeFirst'
<1> DEFINE n == Len(sealed)
           c == [first |-> activeFirst, lines |-> CutLines, comp |-> size]
<1>1. /\ CutLines \in Seq(Nat)
      /\ Len(CutLines) \in Nat \ {0}
  BY CutLinesType
<1>2. c \in Chunk /\ c.first = activeFirst
  BY <1>1 DEF Chunk, RingType
<1>3. n \in Nat /\ DOMAIN sealed = 1 .. n
  BY ChunkTypes
<1>4. /\ DOMAIN sealed' = 1 .. n + 1
      /\ \A i \in 1 .. n : sealed'[i] = sealed[i]
      /\ sealed'[n + 1] = c
  BY <1>2, <1>3 DEF CutChunk, RingType
<1>5. activeFirst' > activeFirst /\ activeFirst \in Nat
  BY <1>1 DEF CutChunk, RingType
<1>6. ASSUME NEW i \in 1 .. n
      PROVE  sealed'[i].first \in Nat /\ sealed'[i].first < activeFirst
  BY <1>3, <1>4, ChunkTypes DEF BacklogInv
<1>7. ASSUME NEW i \in 1 .. n + 1, NEW j \in 1 .. n + 1, i < j
      PROVE  sealed'[i].first < sealed'[j].first
  <2>1. i \in 1 .. n
    BY <1>3, <1>7
  <2>2. CASE j \in 1 .. n
    BY <1>3, <1>4, <1>7, <2>1, <2>2 DEF BacklogInv
  <2>3. CASE j = n + 1
    BY <1>2, <1>4, <1>6, <2>1, <2>3
  <2>4. QED
    BY <1>3, <2>2, <2>3
<1>8. ASSUME NEW i \in 1 .. n + 1
      PROVE  sealed'[i].first < activeFirst'
  <2>1. CASE i \in 1 .. n
    <3>1. activeFirst' \in Nat
      BY <1>1 DEF CutChunk, RingType
    <3>2. QED
      BY <1>5, <1>6, <2>1, <3>1
  <2>2. CASE i = n + 1
    BY <1>2, <1>4, <1>5, <2>2
  <2>3. QED
    BY <1>3, <2>1, <2>2
<1>9. QED
  BY <1>3, <1>4, <1>7, <1>8

LEMMA BacklogStep == RingType /\ BacklogInv /\ [Next]_vars => BacklogInv'
<1>. SUFFICES ASSUME RingType, BacklogInv, [Next]_vars PROVE BacklogInv'
  OBVIOUS
<1>1. CASE SealToChannel
  <2> DEFINE h == [first |-> activeFirst, lines |-> CutLines]
             m == Len(sealCh)
  <2>1. CutChunk(0) /\ sealCh' = Append(sealCh, h) /\ m < SealCap /\ UNCHANGED <<comp, chunk, mu>>
    BY <1>1 DEF SealToChannel, HasRoom
  <2> DEFINE c == [first |-> activeFirst, lines |-> CutLines, comp |-> 0]
  <2>4. /\ DOMAIN sealed' = 1 .. Len(sealed) + 1
        /\ \A i \in DOMAIN sealed : sealed'[i] = sealed[i]
        /\ sealed'[Len(sealed) + 1] = c
    BY <2>1, BacklogCut
  <2>5. Len(sealed) \in Nat /\ DOMAIN sealed = 1 .. Len(sealed)
    BY ChunkTypes
  <2>2. h \in Handed /\ m \in Nat
    BY CutLinesType, LenProperties DEF Handed, RingType
  <2>3. /\ Len(sealCh') = m + 1
        /\ \A k \in 1 .. m : sealCh'[k] = sealCh[k]
        /\ sealCh'[m + 1] = h
    BY <2>1, <2>2 DEF RingType
  <2>6. ASSUME NEW i \in RawChunks'
        PROVE  (Queued(sealed[i].first) \/ InHand(sealed[i].first))'
    <3>1. CASE i \in DOMAIN sealed
      <4>1. i \in RawChunks /\ sealed'[i] = sealed[i]
        BY <2>4, <3>1 DEF RawChunks
      <4>2. Queued(sealed[i].first) \/ InHand(sealed[i].first)
        BY <4>1 DEF BacklogInv
      <4>3. QED
        BY <2>1, <2>2, <2>3, <4>1, <4>2 DEF Queued, InHand
    <3>2. CASE i = Len(sealed) + 1
      <4>1. sealed'[i].first = activeFirst
        BY <2>4, <3>2
      <4>2. m + 1 \in 1 .. Len(sealCh') /\ sealCh'[m + 1].first = activeFirst
        BY <2>2, <2>3
      <4>3. QED
        BY <4>1, <4>2 DEF Queued
    <3>3. QED
      BY <2>4, <2>5, <3>1, <3>2 DEF RawChunks
  <2>7. Len(sealCh') <= SealCap
    BY <2>1, <2>2, <2>3, SizesAssumption
  <2>8. /\ \A i, j \in DOMAIN sealed' : i < j => sealed'[i].first < sealed'[j].first
        /\ \A i \in DOMAIN sealed' : sealed'[i].first < activeFirst'
    BY <2>1, BacklogCut
  <2>9. QED
    BY <2>1, <2>6, <2>7, <2>8 DEF BacklogInv
<1>2. ASSUME NEW size \in CompSizes, SealInline(size) PROVE BacklogInv'
  <2> DEFINE c == [first |-> activeFirst, lines |-> CutLines, comp |-> size]
  <2>1. CutChunk(size) /\ UNCHANGED <<sealCh, comp, chunk>> /\ mu' = "evictInline"
    BY <1>2 DEF SealInline
  <2>2. size \in Nat /\ size # 0
    BY SizesAssumption
  <2>3. /\ DOMAIN sealed' = 1 .. Len(sealed) + 1
        /\ \A i \in DOMAIN sealed : sealed'[i] = sealed[i]
        /\ sealed'[Len(sealed) + 1] = c
    BY <2>1, <2>2, BacklogCut
  <2>4. Len(sealed) \in Nat /\ DOMAIN sealed = 1 .. Len(sealed)
    BY ChunkTypes
  <2>5. /\ \A i, j \in DOMAIN sealed' : i < j => sealed'[i].first < sealed'[j].first
        /\ \A i \in DOMAIN sealed' : sealed'[i].first < activeFirst'
    BY <2>1, <2>2, BacklogCut
  <2>6. ASSUME NEW i \in RawChunks'
        PROVE  i \in RawChunks /\ sealed'[i] = sealed[i]
    <3>1. i \in DOMAIN sealed' /\ sealed'[i].comp = 0
      BY DEF RawChunks
    <3>2. i # Len(sealed) + 1
      BY <2>2, <2>3, <3>1
    <3>3. i \in DOMAIN sealed
      BY <2>3, <2>4, <3>1, <3>2
    <3>4. QED
      BY <2>3, <3>1, <3>3 DEF RawChunks
  <2>7. QED
    BY <2>1, <2>5, <2>6 DEF BacklogInv, Queued, InHand
<1>3. CASE EvictHead
  <2> DEFINE n == Len(sealed)
  <2>1. sealed # <<>> /\ sealed' = Tail(sealed) /\ UNCHANGED <<sealCh, comp, chunk, activeFirst, mu>>
    BY <1>3 DEF EvictHead, HeadCompressed
  <2>2. n \in Nat \ {0} /\ DOMAIN sealed = 1 .. n
    BY <2>1, EmptySeq, ChunkTypes DEF RingType
  <2>3. /\ DOMAIN sealed' = 1 .. n - 1
        /\ \A i \in 1 .. n - 1 : i + 1 \in DOMAIN sealed /\ sealed'[i] = sealed[i + 1]
    BY <2>1, <2>2, HeadTailProperties, LenProperties DEF RingType
  <2>4. \A i \in RawChunks' : i + 1 \in RawChunks /\ sealed'[i] = sealed[i + 1]
    BY <2>3 DEF RawChunks
  <2>5. ASSUME NEW i \in 1 .. n - 1, NEW j \in 1 .. n - 1, i < j
        PROVE  sealed'[i].first < sealed'[j].first
    <3>1. i + 1 \in DOMAIN sealed /\ j + 1 \in DOMAIN sealed /\ i + 1 < j + 1
      BY <2>2, <2>3, <2>5
    <3>2. QED
      BY <2>3, <3>1 DEF BacklogInv
  <2>6. \A i \in 1 .. n - 1 : sealed'[i].first < activeFirst'
    BY <2>1, <2>3 DEF BacklogInv
  <2>7. \A i \in RawChunks' : (Queued(sealed[i].first) \/ InHand(sealed[i].first))'
    BY <2>1, <2>4 DEF BacklogInv, Queued, InHand
  <2>8. QED
    BY <2>1, <2>3, <2>5, <2>6, <2>7 DEF BacklogInv
<1>4. CASE Receive
  <2> DEFINE m == Len(sealCh)
  <2>1. /\ comp = "idle" /\ comp' = "encoding"
        /\ sealCh # <<>> /\ chunk' = Head(sealCh) /\ sealCh' = Tail(sealCh)
        /\ UNCHANGED <<sealed, activeFirst, mu>>
    BY <1>4 DEF Receive, ringVars
  <2>2. m \in Nat \ {0}
    BY <2>1, EmptySeq, LenProperties DEF RingType
  <2>3. /\ Len(sealCh') = m - 1
        /\ \A k \in 1 .. m - 1 : sealCh'[k] = sealCh[k + 1]
        /\ chunk' = sealCh[1]
    BY <2>1, <2>2, HeadTailProperties DEF RingType
  <2>4. ASSUME NEW i \in RawChunks
        PROVE  (Queued(sealed[i].first) \/ InHand(sealed[i].first))'
    <3>1. PICK k \in 1 .. m : sealCh[k].first = sealed[i].first
      BY <2>1 DEF BacklogInv, Queued, InHand
    <3>2. CASE k = 1
      BY <2>1, <2>3, <3>1, <3>2 DEF InHand
    <3>3. CASE k # 1
      <4>1. k - 1 \in 1 .. m - 1 /\ sealCh'[k - 1] = sealCh[k]
        BY <2>2, <2>3, <3>3
      <4>2. QED
        BY <2>1, <2>3, <3>1, <4>1 DEF Queued
    <3>4. QED
      BY <3>2, <3>3
  <2>5. Len(sealCh') <= SealCap
    BY <2>2, <2>3, SizesAssumption DEF BacklogInv
  <2>6. QED
    BY <2>1, <2>4, <2>5 DEF BacklogInv, RawChunks
<1>5. ASSUME NEW size \in CompSizes, Compressed(size) PROVE BacklogInv'
  <2>1. \A i \in DOMAIN sealed : sealed[i] \in Chunk
    BY LenProperties, ElementOfSeq DEF RingType
  <2>2. size # 0
    BY SizesAssumption
  <2>3. /\ DOMAIN sealed' = DOMAIN sealed
        /\ \A i \in DOMAIN sealed :
             /\ sealed'[i].first = sealed[i].first
             /\ sealed'[i].comp = 0 => sealed[i].comp = 0 /\ sealed[i].first # chunk.first
        /\ UNCHANGED <<sealCh, chunk, activeFirst>>
        /\ mu' = "evictComp" /\ comp' = "evicting"
    BY <1>5, <2>1, <2>2 DEF Compressed, Chunk
  <2>4. \A i \in RawChunks' : i \in RawChunks /\ sealed[i].first # chunk.first
    BY <2>3 DEF RawChunks
  <2>5. \A i \in RawChunks' : Queued(sealed[i].first)
    BY <2>4 DEF BacklogInv, InHand
  <2>6. \A i \in RawChunks' : Queued(sealed[i].first)'
    BY <2>3, <2>5 DEF Queued, RawChunks
  <2>7. QED
    BY <2>3, <2>6 DEF BacklogInv
<1>6. ASSUME \/ (\E p \in Pieces : AppendBytes(p)) \/ AppendDone
             \/ (\E c \in firing : ReportInline(c)) \/ EvictDone
             \/ (\E m \in ByteCaps : SetMaxBytes(m)) \/ Report \/ Exit
             \/ (\E from, to \in firstAvail .. End : ReadLines(from, to))
             \/ CloseRing \/ CloseChannel \/ UNCHANGED vars
      PROVE  BacklogInv'
  <2>1. UNCHANGED <<sealed, sealCh, chunk, activeFirst>>
    BY <1>6 DEF AppendBytes, AppendDone, ReportInline, EvictDone, SetMaxBytes, Report,
       Exit, ReadLines, CloseRing, CloseChannel, ringVars, vars
  <2>2. /\ comp = "encoding" => comp' = "encoding"
        /\ mu' = "evictComp" => comp' = "evicting"
    BY <1>6 DEF BacklogInv, AppendBytes, AppendDone, ReportInline, EvictDone, Evicting,
       SetMaxBytes, Report, Exit, ReadLines, CloseRing, CloseChannel, ringVars, vars
  <2>3. QED
    BY <2>1, <2>2 DEF BacklogInv, RawChunks, Queued, InHand
<1>7. QED
  BY <1>1, <1>2, <1>3, <1>4, <1>5, <1>6 DEF Next

\* Each raw chunk has a place of its own among SealCap + 1.
LEMMA BacklogBounds ==
  ASSUME RingType, BacklogInv
  PROVE  RawBounded
<1> DEFINE At(i, k) == \/ k = 0 /\ chunk.first = sealed[i].first
                       \/ k \in 1 .. Len(sealCh) /\ sealCh[k].first = sealed[i].first
           place == [i \in RawChunks |-> CHOOSE k \in 0 .. SealCap : At(i, k)]
<1>1. Len(sealCh) \in Nat /\ Len(sealCh) <= SealCap /\ SealCap \in Nat
  BY SizesAssumption, LenProperties DEF RingType, BacklogInv
<1>2. ASSUME NEW i \in RawChunks
      PROVE  \E k \in 0 .. SealCap : At(i, k)
  <2>1. CASE InHand(sealed[i].first)
    BY <1>1, <2>1 DEF InHand
  <2>2. CASE Queued(sealed[i].first)
    <3>1. PICK k \in 1 .. Len(sealCh) : sealCh[k].first = sealed[i].first
      BY <2>2 DEF Queued
    <3>2. k \in 0 .. SealCap /\ At(i, k)
      BY <1>1, <3>1
    <3>3. QED
      BY <3>2
  <2>3. QED
    BY <2>1, <2>2 DEF BacklogInv
<1>3. \A i \in RawChunks : place[i] \in 0 .. SealCap /\ At(i, place[i])
  BY <1>2
<1>4. ASSUME NEW i \in RawChunks, NEW j \in RawChunks, place[i] = place[j]
      PROVE  i = j
  <2>1. sealed[i].first = sealed[j].first
    <3>1. PICK k \in 0 .. SealCap : At(i, k) /\ At(j, k)
      <4>. HIDE DEF At, place
      <4>. QED
        BY <1>3, <1>4
    <3>. QED
      BY <3>1
  <2>2. i \in DOMAIN sealed /\ j \in DOMAIN sealed
    BY DEF RawChunks
  <2>3. i \in Nat /\ j \in Nat /\ sealed[i].first \in Nat /\ sealed[j].first \in Nat
    BY <2>2, ChunkTypes
  <2>4. ~(i < j) /\ ~(j < i)
    BY <2>1, <2>2, <2>3 DEF BacklogInv
  <2>5. QED
    BY <2>3, <2>4
<1>5. place \in Injection(RawChunks, 0 .. SealCap)
  <2>1. place \in [RawChunks -> 0 .. SealCap]
    BY <1>3
  <2>2. IsInjective(place)
    BY <1>4, <2>1 DEF IsInjective
  <2>3. QED
    BY <2>1, <2>2 DEF Injection
<1>6. IsFiniteSet(0 .. SealCap) /\ Cardinality(0 .. SealCap) = SealCap + 1
  BY <1>1, FS_Interval
<1>7. QED
  BY <1>5, <1>6, FS_Injection DEF RawBounded

-----------------------------------------------------------------------------
(* Induction over natural numbers and finite sets: a least counterexample *)

LEMMA Least ==
  ASSUME NEW T, T \subseteq Nat, T # {}
  PROVE  \E x \in T : \A y \in T : x <= y
<1>1. PICK x \in T : \A y \in T : <<y, x>> \notin OpToRel(<, Nat)
  BY NatLessThanWellFounded, WFMin
<1>2. \A y \in T : ~(y < x)
  BY <1>1 DEF OpToRel
<1>. QED
  BY <1>2

\* Induction over the natural numbers, for the set of those that have the property.
LEMMA Induct ==
  ASSUME NEW T, 0 \in T, \A n \in Nat : n \in T => n + 1 \in T
  PROVE  Nat \subseteq T
<1>1. CASE Nat \ T # {}
  <2>1. PICK x \in Nat \ T : \A y \in Nat \ T : x <= y
    BY <1>1, Least
  <2>2. x - 1 \in Nat /\ x - 1 \in T
    BY <2>1
  <2>. QED
    BY <2>1, <2>2
<1>. QED
  BY <1>1

\* The same for the subsets of a finite set.
LEMMA InductSets ==
  ASSUME NEW S, IsFiniteSet(S), NEW G, {} \in G,
         \A T \in SUBSET S : T # {} => \E x \in T : T \ {x} \in G => T \in G
  PROVE  SUBSET S \subseteq G
<1>1. IsWellFoundedOn(StrictSubsetOrdering(S), SUBSET S)
  BY FS_StrictSubsetOrderingWellFounded, FS_FiniteSubsetsOfFinite
<1>2. CASE (SUBSET S) \ G # {}
  <2>1. PICK T \in (SUBSET S) \ G : \A U \in (SUBSET S) \ G : <<U, T>> \notin StrictSubsetOrdering(S)
    BY <1>1, <1>2, WFMin
  <2>2. PICK x \in T : T \ {x} \in G => T \in G
    BY <2>1
  <2>3. <<T \ {x}, T>> \in StrictSubsetOrdering(S)
    BY DEF StrictSubsetOrdering
  <2>. QED
    BY <2>1, <2>2, <2>3
<1>. QED
  BY <1>2

\* A function that is defined by recursion over 0 .. n is what its definition says.
LEMMA RecursionHolds ==
  ASSUME NEW S, NEW a \in S, NEW n \in Nat, NEW st \in [1 .. n -> [S -> S]]
  PROVE  \E g \in [0 .. n -> S] : g = [i \in 0 .. n |-> IF i = 0 THEN a ELSE st[i][g[i-1]]]
<1> DEFINE Upto(k, g) == \A i \in 0 .. k : g[i] = IF i = 0 THEN a ELSE st[i][g[i-1]]
           T == {k \in Nat : k <= n => \E g \in [0 .. k -> S] : Upto(k, g)}
<1>1. 0 \in T
  <2>1. [i \in 0 .. 0 |-> a] \in [0 .. 0 -> S] /\ Upto(0, [i \in 0 .. 0 |-> a])
    OBVIOUS
  <2>. QED
    BY <2>1
<1>2. ASSUME NEW k \in Nat, k \in T PROVE k + 1 \in T
  <2>1. SUFFICES ASSUME k + 1 <= n PROVE \E g \in [0 .. k + 1 -> S] : Upto(k + 1, g)
    OBVIOUS
  <2>2. PICK g \in [0 .. k -> S] : Upto(k, g)
    BY <1>2, <2>1
  <2> DEFINE h == [i \in 0 .. k + 1 |-> IF i = k + 1 THEN st[k+1][g[k]] ELSE g[i]]
  <2>3. st[k + 1] \in [S -> S]
    BY <2>1
  <2>4. h \in [0 .. k + 1 -> S]
    BY <2>3
  <2>5. ASSUME NEW i \in 0 .. k + 1
        PROVE  h[i] = IF i = 0 THEN a ELSE st[i][h[i-1]]
    <3>1. CASE i = k + 1
      BY <3>1
    <3>2. CASE i # k + 1
      <4>1. i \in 0 .. k /\ h[i] = g[i]
        BY <3>2
      <4>2. i # 0 => i - 1 \in 0 .. k + 1 /\ h[i-1] = g[i-1]
        BY <4>1
      <4>. QED
        BY <2>2, <4>1, <4>2
    <3>. QED
      BY <3>1, <3>2
  <2>. QED
    BY <2>4, <2>5
<1>3. n \in T
  <2>. HIDE DEF T
  <2>. QED
    BY <1>1, <1>2, Induct
<1>4. PICK g \in [0 .. n -> S] : Upto(n, g)
  BY <1>3
<1>5. g = [i \in 0 .. n |-> IF i = 0 THEN a ELSE st[i][g[i-1]]]
  BY <1>4
<1>. QED
  BY <1>5

-----------------------------------------------------------------------------
(* Sums *)

\* One of the elements of s, and the sum as the definition takes it apart.
Some(s) == CHOOSE x \in s : TRUE
Summed(f, g, S) ==
  \A t \in SUBSET S : g[t] = IF t = {} THEN 0 ELSE f[Some(t)] + g[t \ {Some(t)}]
Ints(f, S) == \A i \in S : f[i] \in Int

LEMMA SomeFacts ==
  ASSUME NEW S, IsFiniteSet(S), NEW t \in SUBSET S
  PROVE  /\ IsFiniteSet(t)
         /\ Cardinality(t) \in Nat
         /\ (Cardinality(t) = 0) <=> (t = {})
         /\ t # {} => /\ Some(t) \in t
                      /\ Cardinality(t \ {Some(t)}) = Cardinality(t) - 1
<1>1. IsFiniteSet(t) /\ Cardinality(t) \in Nat
  BY FS_Subset, FS_CardinalityType
<1>2. (Cardinality(t) = 0) <=> (t = {})
  BY <1>1, FS_EmptySet
<1>3. ASSUME t # {}
      PROVE  Some(t) \in t /\ Cardinality(t \ {Some(t)}) = Cardinality(t) - 1
  <2>1. Some(t) \in t
    BY <1>3 DEF Some
  <2>. QED
    BY <1>1, <2>1, FS_RemoveElement
<1>. QED
  BY <1>1, <1>2, <1>3

LEMMA SumExists ==
  ASSUME NEW S, IsFiniteSet(S), NEW f, Ints(f, S)
  PROVE  \E g \in [SUBSET S -> Int] : Summed(f, g, S)
<1> DEFINE Small(n) == {t \in SUBSET S : Cardinality(t) <= n}
           Right(g, t) == g[t] = IF t = {} THEN 0 ELSE f[Some(t)] + g[t \ {Some(t)}]
           T == {n \in Nat : \E g \in [Small(n) -> Int] : \A t \in Small(n) : Right(g, t)}
<1>0. \A t \in SUBSET S : /\ Cardinality(t) \in Nat
                          /\ (Cardinality(t) <= 0) <=> (t = {})
                          /\ t # {} => /\ Some(t) \in t
                                       /\ t \ {Some(t)} \in SUBSET S
                                       /\ Cardinality(t \ {Some(t)}) = Cardinality(t) - 1
  <2>1. ASSUME NEW t \in SUBSET S
        PROVE  /\ Cardinality(t) \in Nat
               /\ (Cardinality(t) <= 0) <=> (t = {})
               /\ t # {} => /\ Some(t) \in t
                            /\ Cardinality(t \ {Some(t)}) = Cardinality(t) - 1
    BY SomeFacts
  <2>. QED
    BY <2>1
<1>1. 0 \in T
  <2>1. Small(0) = {{}}
    BY <1>0
  <2>2. [t \in {{}} |-> 0] \in [{{}} -> Int] /\ Right([t \in {{}} |-> 0], {})
    OBVIOUS
  <2>. QED
    BY <2>1, <2>2
<1>2. ASSUME NEW n \in Nat, n \in T PROVE n + 1 \in T
  <2>1. PICK g \in [Small(n) -> Int] : \A t \in Small(n) : Right(g, t)
    BY <1>2
  <2> DEFINE h == [t \in Small(n + 1) |-> IF t = {} THEN 0 ELSE f[Some(t)] + g[t \ {Some(t)}]]
  <2>2. ASSUME NEW t \in Small(n + 1), t # {}
        PROVE  t \ {Some(t)} \in Small(n) /\ f[Some(t)] \in Int
    BY <1>0, <2>2 DEF Ints
  <2>3. \A t \in Small(n) : t \in Small(n + 1)
    <3>1. \A t \in SUBSET S : Cardinality(t) \in Nat
      BY <1>0
    <3>2. \A k \in Nat : k <= n => k <= n + 1
      OBVIOUS
    <3>. QED
      BY <3>1, <3>2
  <2>4. h \in [Small(n + 1) -> Int]
    BY <2>1, <2>2
  <2>5. \A t \in Small(n) : h[t] = g[t]
    BY <2>1, <2>3
  <2>6. ASSUME NEW t \in Small(n + 1)
        PROVE  Right(h, t)
    <3>1. t # {} => h[t \ {Some(t)}] = g[t \ {Some(t)}]
      BY <2>2, <2>5
    <3>. QED
      BY <3>1
  <2>7. \A t \in Small(n + 1) : Right(h, t)
    BY <2>6
  <2>. HIDE DEF h
  <2>8. \E g1 \in [Small(n + 1) -> Int] : \A t \in Small(n + 1) : Right(g1, t)
    <3>. HIDE DEF Small, Right
    <3>. QED
      BY <2>4, <2>7
  <2>9. n + 1 \in Nat
    OBVIOUS
  <2>. HIDE DEF Small, Right
  <2>. QED
    BY <2>8, <2>9, Zenon
<1>3. Cardinality(S) \in T
  <2>1. Cardinality(S) \in Nat
    BY FS_CardinalityType
  <2>. HIDE DEF T
  <2>. QED
    BY <1>1, <1>2, <2>1, Induct
<1>4. Small(Cardinality(S)) = SUBSET S
  BY FS_Subset
<1>. QED
  BY <1>3, <1>4 DEF Summed


LEMMA SummedInts ==
  ASSUME NEW S, IsFiniteSet(S), NEW f, Ints(f, S), NEW c, Summed(f, c, S), NEW T \in SUBSET S
  PROVE  c[T] \in Int
<1> DEFINE G == {t \in SUBSET S : c[t] \in Int}
<1>1. {} \in G
  <2>1. {} \in SUBSET S
    OBVIOUS
  <2>2. c[{}] = 0
    BY <2>1, Zenon DEF Summed
  <2>. QED
    BY <2>1, <2>2
<1>2. ASSUME NEW t \in SUBSET S, t # {}
      PROVE  \E x \in t : t \ {x} \in G => t \in G
  <2>1. Some(t) \in t /\ f[Some(t)] \in Int
    BY <1>2 DEF Ints, Some
  <2>2. c[t] = f[Some(t)] + c[t \ {Some(t)}]
    BY <1>2 DEF Summed
  <2>3. t \ {Some(t)} \in G => c[t] \in Int
    BY <2>1, <2>2
  <2>. QED
    BY <2>1, <2>3
<1>3. SUBSET S \subseteq G
  <2>. HIDE DEF G
  <2>. QED
    BY <1>1, <1>2, InductSets
<1>. QED
  BY <1>3

\* What the sum is: some function takes it apart element by element.
LEMMA SumUnfolds ==
  ASSUME NEW S, IsFiniteSet(S), NEW f, Ints(f, S)
  PROVE  \E g : /\ \A T \in SUBSET S : g[T] \in Int
                /\ Summed(f, g, S)
                /\ SumFunctionOnSet(f, S) = g[S]
<1> DEFINE D(g) == g = [t \in SUBSET S |-> IF t = {} THEN 0 ELSE f[Some(t)] + g[t \ {Some(t)}]]
<1>1. PICK h \in [SUBSET S -> Int] : Summed(f, h, S)
  BY SumExists
<1>2. D(h)
  BY <1>1 DEF Summed
<1>3. D(CHOOSE g : D(g))
  BY <1>2
<1>4. SumFunctionOnSet(f, S) = (CHOOSE g : D(g))[S]
  BY DEF SumFunctionOnSet, FoldFunctionOnSet, MapThenFoldSet, Some
<1>5. Summed(f, CHOOSE g : D(g), S)
  BY <1>3 DEF Summed
<1>. QED
  BY <1>4, <1>5, SummedInts

\* Two functions that take sums apart agree.
LEMMA SumUnique ==
  ASSUME NEW S, IsFiniteSet(S), NEW f, NEW T \in SUBSET S,
         NEW g, Summed(f, g, S), NEW h, Summed(f, h, T)
  PROVE  g[T] = h[T]
<1> DEFINE G == {U \in SUBSET T : g[U] = h[U]}
<1>1. {} \in G
  BY DEF Summed
<1>2. ASSUME NEW U \in SUBSET T, U # {}
      PROVE  \E x \in U : U \ {x} \in G => U \in G
  <2>1. Some(U) \in U
    BY <1>2 DEF Some
  <2>. QED
    BY <1>2, <2>1 DEF Summed
<1>3. IsFiniteSet(T)
  BY FS_Subset
<1>4. SUBSET T \subseteq G
  <2>. HIDE DEF G
  <2>. QED
    BY <1>1, <1>2, <1>3, InductSets
<1>. QED
  BY <1>4

\* The element taken out of a sum does not matter.
LEMMA SumAny ==
  ASSUME NEW S, IsFiniteSet(S), NEW f, Ints(f, S), NEW g, Summed(f, g, S),
         NEW T \in SUBSET S, NEW y \in T
  PROVE  g[T] = f[y] + g[T \ {y}]
<1> DEFINE G == {U \in SUBSET S : \A x \in U : g[U] = f[x] + g[U \ {x}]}
<1>1. {} \in G
  OBVIOUS
<1>2. ASSUME NEW V \in SUBSET S, V # {}, \A U \in SUBSET V : U # V => U \in G
      PROVE  V \in G
  <2>1. SUFFICES ASSUME NEW x \in V PROVE g[V] = f[x] + g[V \ {x}]
    OBVIOUS
  <2>2. PICK p \in V : g[V] = f[p] + g[V \ {p}]
    <3>1. Some(V) \in V
      BY <1>2 DEF Some
    <3>2. g[V] = f[Some(V)] + g[V \ {Some(V)}]
      BY <1>2 DEF Summed
    <3>. QED
      BY <3>1, <3>2
  <2>3. CASE x # p
    <3>1. g[V \ {p}] = f[x] + g[(V \ {p}) \ {x}]
      BY <1>2, <2>2, <2>3
    <3>2. g[V \ {x}] = f[p] + g[(V \ {x}) \ {p}]
      BY <1>2, <2>2, <2>3
    <3>3. (V \ {p}) \ {x} = (V \ {x}) \ {p}
      OBVIOUS
    <3>4. f[x] \in Int /\ f[p] \in Int
      BY <2>2 DEF Ints
    <3>5. g[(V \ {x}) \ {p}] \in Int
      BY SummedInts
    <3>6. g[V \ {p}] = f[x] + g[(V \ {x}) \ {p}]
      BY <3>1, <3>3, Zenon
    <3>. QED
      BY <2>2, <3>2, <3>4, <3>5, <3>6
  <2>. QED
    BY <2>2, <2>3
<1>3. (SUBSET S) \ G = {}
  <2>1. IsWellFoundedOn(StrictSubsetOrdering(S), SUBSET S)
    BY FS_StrictSubsetOrderingWellFounded, FS_FiniteSubsetsOfFinite
  <2>2. SUFFICES ASSUME (SUBSET S) \ G # {} PROVE FALSE
    OBVIOUS
  <2>3. PICK V \in (SUBSET S) \ G : \A U \in (SUBSET S) \ G : <<U, V>> \notin StrictSubsetOrdering(S)
    BY <2>1, <2>2, WFMin
  <2>4. \A U \in SUBSET V : U # V => U \in G
    BY <2>3 DEF StrictSubsetOrdering
  <2>. QED
    BY <1>1, <1>2, <2>3, <2>4
<1>. QED
  BY <1>3

\* What a reader needs of sums.
LEMMA SumEmpty == ASSUME NEW f PROVE SumFunctionOnSet(f, {}) = 0
<1>1. IsFiniteSet({}) /\ Ints(f, {})
  BY FS_EmptySet DEF Ints
<1>. QED
  BY <1>1, SumUnfolds DEF Summed

LEMMA SumInt ==
  ASSUME NEW S, IsFiniteSet(S), NEW f, Ints(f, S)
  PROVE  SumFunctionOnSet(f, S) \in Int
<1>1. PICK g : SumFunctionOnSet(f, S) = g[S] /\ g[S] \in Int
  BY SumUnfolds
<1>. QED
  BY <1>1

LEMMA SumOut ==
  ASSUME NEW S, IsFiniteSet(S), NEW f, Ints(f, S), NEW x \in S
  PROVE  SumFunctionOnSet(f, S) = f[x] + SumFunctionOnSet(f, S \ {x})
<1> DEFINE T == S \ {x}
<1>1. IsFiniteSet(T) /\ Ints(f, T)
  BY FS_RemoveElement DEF Ints
<1>2. PICK g : Summed(f, g, S) /\ SumFunctionOnSet(f, S) = g[S]
  BY SumUnfolds
<1>3. PICK h : Summed(f, h, T) /\ SumFunctionOnSet(f, T) = h[T]
  <2>. HIDE DEF T
  <2>. QED
    BY <1>1, SumUnfolds
<1>4. g[T] = h[T]
  BY <1>2, <1>3, SumUnique
<1>. QED
  BY <1>2, <1>3, <1>4, SumAny

LEMMA SumIn ==
  ASSUME NEW S, IsFiniteSet(S), NEW f, Ints(f, S), NEW x, x \notin S, f[x] \in Int
  PROVE  SumFunctionOnSet(f, S \cup {x}) = SumFunctionOnSet(f, S) + f[x]
<1> DEFINE T == S \cup {x}
<1>1. IsFiniteSet(T) /\ Ints(f, T) /\ x \in T /\ T \ {x} = S
  BY FS_AddElement DEF Ints
<1>2. SumFunctionOnSet(f, T) = f[x] + SumFunctionOnSet(f, T \ {x})
  <2>. HIDE DEF T
  <2>. QED
    BY <1>1, SumOut
<1>3. SumFunctionOnSet(f, S) \in Int
  BY SumInt
<1>4. SumFunctionOnSet(f, T) = f[x] + SumFunctionOnSet(f, S)
  BY <1>1, <1>2, Zenon
<1>. QED
  BY <1>3, <1>4

LEMMA SumAgrees ==
  ASSUME NEW S, IsFiniteSet(S), NEW f, NEW g, Ints(f, S), \A i \in S : f[i] = g[i]
  PROVE  SumFunctionOnSet(f, S) = SumFunctionOnSet(g, S)
<1> DEFINE G == {U \in SUBSET S : SumFunctionOnSet(f, U) = SumFunctionOnSet(g, U)}
<1>1. {} \in G
  BY SumEmpty
<1>2. ASSUME NEW U \in SUBSET S, U # {}
      PROVE  \E x \in U : U \ {x} \in G => U \in G
  <2>1. PICK x \in U : TRUE
    BY <1>2
  <2>2. IsFiniteSet(U) /\ Ints(f, U) /\ Ints(g, U)
    BY FS_Subset DEF Ints
  <2>3. /\ SumFunctionOnSet(f, U) = f[x] + SumFunctionOnSet(f, U \ {x})
        /\ SumFunctionOnSet(g, U) = g[x] + SumFunctionOnSet(g, U \ {x})
    BY <2>2, SumOut
  <2>. QED
    BY <2>3
<1>3. SUBSET S \subseteq G
  <2>. HIDE DEF G
  <2>. QED
    BY <1>1, <1>2, InductSets
<1>. QED
  BY <1>3

LEMMA SumNat ==
  ASSUME NEW S, IsFiniteSet(S), NEW f, \A i \in S : f[i] \in Nat
  PROVE  SumFunctionOnSet(f, S) \in Nat
<1> DEFINE G == {U \in SUBSET S : SumFunctionOnSet(f, U) \in Nat}
<1>1. {} \in G
  BY SumEmpty
<1>2. ASSUME NEW U \in SUBSET S, U # {}
      PROVE  \E x \in U : U \ {x} \in G => U \in G
  <2>1. PICK x \in U : TRUE
    BY <1>2
  <2>2. IsFiniteSet(U) /\ Ints(f, U)
    BY FS_Subset DEF Ints
  <2>3. SumFunctionOnSet(f, U) = f[x] + SumFunctionOnSet(f, U \ {x})
    BY <2>2, SumOut
  <2>4. f[x] \in Nat
    OBVIOUS
  <2>. QED
    BY <2>3, <2>4
<1>3. SUBSET S \subseteq G
  <2>. HIDE DEF G
  <2>. QED
    BY <1>1, <1>2, InductSets
<1>. QED
  BY <1>3

\* Two sums, the second over some of the elements, make one.
LEMMA SumSplits ==
  ASSUME NEW S, IsFiniteSet(S), NEW R \in SUBSET S, NEW f, Ints(f, S), NEW g, Ints(g, R), NEW w,
         \A i \in S : w[i] = IF i \in R THEN f[i] + g[i] ELSE f[i]
  PROVE  SumFunctionOnSet(w, S) = SumFunctionOnSet(f, S) + SumFunctionOnSet(g, R)
<1> DEFINE P(U) == SumFunctionOnSet(w, U) = SumFunctionOnSet(f, U) + SumFunctionOnSet(g, U \cap R)
           G == {U \in SUBSET S : P(U)}
<1>1. {} \in G
  <2>1. {} \cap R = {}
    OBVIOUS
  <2>. QED
    BY <2>1, SumEmpty
<1>2. ASSUME NEW U \in SUBSET S, U # {}
      PROVE  \E x \in U : U \ {x} \in G => U \in G
  <2>1. PICK x \in U : TRUE
    BY <1>2
  <2> DEFINE V == U \ {x}
  <2>2. IsFiniteSet(U) /\ Ints(f, U) /\ Ints(w, U) /\ Ints(f, V) /\ IsFiniteSet(V)
    BY FS_Subset DEF Ints
  <2>3. IsFiniteSet(U \cap R) /\ Ints(g, U \cap R) /\ IsFiniteSet(V \cap R) /\ Ints(g, V \cap R)
    BY FS_Subset DEF Ints
  <2>4. /\ SumFunctionOnSet(f, U) = f[x] + SumFunctionOnSet(f, V)
        /\ SumFunctionOnSet(w, U) = w[x] + SumFunctionOnSet(w, V)
    BY <2>2, SumOut
  <2>5. SumFunctionOnSet(f, V) \in Int /\ SumFunctionOnSet(g, V \cap R) \in Int /\ f[x] \in Int
    BY <2>2, <2>3, SumInt DEF Ints
  <2>6. CASE x \in R
    <3>1. (U \cap R) \ {x} = V \cap R
      OBVIOUS
    <3>2. SumFunctionOnSet(g, U \cap R) = g[x] + SumFunctionOnSet(g, (U \cap R) \ {x})
      BY <2>3, <2>6, SumOut
    <3>3. w[x] = f[x] + g[x] /\ g[x] \in Int
      BY <2>6 DEF Ints
    <3>4. SumFunctionOnSet(g, U \cap R) = g[x] + SumFunctionOnSet(g, V \cap R)
      BY <3>1, <3>2, Zenon
    <3>5. P(V) => P(U)
      <4>. HIDE DEF V
      <4>. QED
        BY <2>4, <2>5, <3>3, <3>4
    <3>. QED
      BY <3>5
  <2>7. CASE x \notin R
    <3>1. U \cap R = V \cap R
      BY <2>7
    <3>2. w[x] = f[x]
      BY <2>7
    <3>3. SumFunctionOnSet(g, U \cap R) = SumFunctionOnSet(g, V \cap R)
      BY <3>1, Zenon
    <3>4. P(V) => P(U)
      <4>. HIDE DEF V
      <4>. QED
        BY <2>4, <2>5, <3>2, <3>3
    <3>. QED
      BY <3>4
  <2>. QED
    BY <2>6, <2>7
<1>3. SUBSET S \subseteq G
  <2>. HIDE DEF G
  <2>. QED
    BY <1>1, <1>2, InductSets
<1>4. S \cap R = R
  OBVIOUS
<1>. QED
  BY <1>3, <1>4

\* The elements may be numbered otherwise.
LEMMA SumMoves ==
  ASSUME NEW S, IsFiniteSet(S), NEW f, Ints(f, S), NEW h,
         \A i, j \in S : h[i] = h[j] => i = j,
         NEW g, \A i \in S : g[h[i]] = f[i]
  PROVE  SumFunctionOnSet(g, {h[i] : i \in S}) = SumFunctionOnSet(f, S)
<1> DEFINE Im(U) == {h[i] : i \in U}
           P(U) == IsFiniteSet(Im(U)) /\ SumFunctionOnSet(g, Im(U)) = SumFunctionOnSet(f, U)
           G == {U \in SUBSET S : P(U)}
<1>1. {} \in G
  <2>1. Im({}) = {}
    OBVIOUS
  <2>. QED
    BY <2>1, SumEmpty, FS_EmptySet
<1>2. ASSUME NEW U \in SUBSET S, U # {}
      PROVE  \E x \in U : U \ {x} \in G => U \in G
  <2>1. PICK x \in U : TRUE
    BY <1>2
  <2> DEFINE V == U \ {x}
  <2>2. IsFiniteSet(U) /\ Ints(f, U)
    BY FS_Subset DEF Ints
  <2>3. SumFunctionOnSet(f, U) = f[x] + SumFunctionOnSet(f, V)
    BY <2>2, SumOut
  <2>4. Im(U) = Im(V) \cup {h[x]} /\ h[x] \notin Im(V)
    OBVIOUS
  <2>5. Ints(g, Im(V)) /\ g[h[x]] = f[x] /\ f[x] \in Int
    BY DEF Ints
  <2>6. ASSUME P(V) PROVE P(U)
    <3> DEFINE I == Im(V)
               y == h[x]
    <3>1. IsFiniteSet(I) /\ Ints(g, I) /\ y \notin I /\ g[y] \in Int
      BY <2>4, <2>5, <2>6
    <3>2. IsFiniteSet(I \cup {y}) /\ SumFunctionOnSet(g, I \cup {y}) = SumFunctionOnSet(g, I) + g[y]
      <4>. HIDE DEF I, y
      <4>. QED
        BY <3>1, SumIn, FS_AddElement
    <3>3. Im(U) = I \cup {y} /\ g[y] = f[x] /\ SumFunctionOnSet(g, I) = SumFunctionOnSet(f, V)
      BY <2>4, <2>5, <2>6
    <3>4. SumFunctionOnSet(f, V) \in Int /\ f[x] \in Int
      <4>1. IsFiniteSet(V) /\ Ints(f, V)
        BY FS_Subset DEF Ints
      <4>. HIDE DEF V
      <4>. QED
        BY <2>5, <4>1, SumInt
    <3>. HIDE DEF I, y, V, Im
    <3>. QED
      BY <2>3, <3>2, <3>3, <3>4
  <2>7. V \in G => U \in G
    <3>. HIDE DEF P
    <3>. QED
      BY <2>6
  <2>. QED
    BY <2>7
<1>3. SUBSET S \subseteq G
  <2>. HIDE DEF G
  <2>. QED
    BY <1>1, <1>2, InductSets
<1>. QED
  BY <1>3

LEMMA SumOfSeq ==
  ASSUME NEW s \in Seq(Nat)
  PROVE  /\ Len(s) \in Nat /\ IsFiniteSet(1 .. Len(s)) /\ Ints(s, 1 .. Len(s))
         /\ SumFunction(s) = SumFunctionOnSet(s, 1 .. Len(s))
         /\ SumFunction(s) \in Nat
<1>1. Len(s) \in Nat /\ DOMAIN s = 1 .. Len(s) /\ \A i \in 1 .. Len(s) : s[i] \in Nat
  BY LenProperties
<1>2. IsFiniteSet(1 .. Len(s))
  BY <1>1, FS_Interval
<1>3. Ints(s, 1 .. Len(s))
  BY <1>1 DEF Ints
<1>4. SumFunction(s) = SumFunctionOnSet(s, 1 .. Len(s))
  BY <1>1 DEF SumFunction
<1>5. SumFunctionOnSet(s, 1 .. Len(s)) \in Nat
  BY <1>1, <1>2, SumNat
<1>. QED
  BY <1>1, <1>2, <1>3, <1>4, <1>5

LEMMA SumOfNone == SumFunction(<<>>) = 0
<1>1. DOMAIN <<>> = {}
  OBVIOUS
<1>. QED
  BY <1>1, SumEmpty DEF SumFunction

LEMMA SumConcat ==
  ASSUME NEW s \in Seq(Nat), NEW t \in Seq(Nat)
  PROVE  SumFunction(s \o t) = SumFunction(s) + SumFunction(t)
<1> DEFINE u == s \o t
           P(n) == SumFunctionOnSet(u, 1 .. Len(s) + n) = SumFunction(s) + SumFunctionOnSet(t, 1 .. n)
           G == {n \in Nat : n <= Len(t) => P(n)}
<1>1. /\ u \in Seq(Nat) /\ Len(u) = Len(s) + Len(t) /\ Len(s) \in Nat /\ Len(t) \in Nat
      /\ \A i \in 1 .. Len(s) : u[i] = s[i]
      /\ \A i \in 1 .. Len(t) : u[Len(s) + i] = t[i]
  BY ConcatProperties, LenProperties
<1>2. 0 \in G
  <2>1. SumFunctionOnSet(s, 1 .. Len(s)) = SumFunctionOnSet(u, 1 .. Len(s))
    BY <1>1, SumOfSeq, SumAgrees
  <2>2. Len(s) + 0 = Len(s) /\ 1 .. 0 = {}
    BY <1>1
  <2>3. SumFunctionOnSet(t, 1 .. 0) = 0
    BY <2>2, SumEmpty, Zenon
  <2>4. SumFunction(s) = SumFunctionOnSet(u, 1 .. Len(s) + 0)
    BY <2>1, <2>2, SumOfSeq
  <2>. HIDE DEF u
  <2>. QED
    BY <2>3, <2>4, SumOfSeq
<1>3. ASSUME NEW n \in Nat, n \in G PROVE n + 1 \in G
  <2>1. SUFFICES ASSUME n + 1 <= Len(t) PROVE P(n + 1)
    OBVIOUS
  <2> DEFINE A == 1 .. Len(s) + n
             x == Len(s) + n + 1
             B == 1 .. n
  <2>. HIDE DEF u
  <2>2. /\ IsFiniteSet(A) /\ Ints(u, A) /\ x \notin A /\ u[x] = t[n + 1] /\ t[n + 1] \in Nat
        /\ IsFiniteSet(B) /\ Ints(t, B) /\ n + 1 \notin B
    <3>1. IsFiniteSet(A) /\ IsFiniteSet(B)
      <4>1. Len(s) + n \in Int /\ n \in Int /\ 1 \in Int
        BY <1>1
      <4>. QED
        BY <4>1, FS_Interval
    <3>2. Ints(u, A) /\ Ints(t, B)
      <4>1. \A i \in A : i \in 1 .. Len(u)
        BY <1>1, <2>1
      <4>2. \A i \in B : i \in 1 .. Len(t)
        BY <1>1, <2>1
      <4>3. \A i \in A : u[i] \in Nat
        BY <1>1, <4>1, ElementOfSeq
      <4>4. \A i \in B : t[i] \in Nat
        BY <4>2, ElementOfSeq
      <4>. QED
        BY <4>3, <4>4 DEF Ints
    <3>3. x = Len(s) + (n + 1) /\ n + 1 \in 1 .. Len(t)
      BY <1>1, <2>1
    <3>4. u[x] = t[n + 1] /\ t[n + 1] \in Nat
      <4>1. u[x] = t[n + 1]
        BY <1>1, <3>3
      <4>2. t[n + 1] \in Nat
        BY <3>3, ElementOfSeq
      <4>. QED
        BY <4>1, <4>2
    <3>5. x \notin A /\ n + 1 \notin B
      BY <1>1
    <3>. HIDE DEF A, B, x
    <3>. QED
      BY <3>1, <3>2, <3>4, <3>5
  <2>3. A \cup {x} = 1 .. Len(s) + (n + 1) /\ B \cup {n + 1} = 1 .. n + 1
    <3>1. Len(s) \in Nat
      BY <1>1
    <3>. QED
      BY <3>1
  <2>4. SumFunctionOnSet(u, A \cup {x}) = SumFunctionOnSet(u, A) + u[x]
    <3>. HIDE DEF A, x
    <3>. QED
      BY <2>2, SumIn
  <2>5. SumFunctionOnSet(t, B \cup {n + 1}) = SumFunctionOnSet(t, B) + t[n + 1]
    <3>. HIDE DEF B
    <3>. QED
      BY <2>2, SumIn
  <2>6. /\ SumFunctionOnSet(u, 1 .. Len(s) + (n + 1)) = SumFunctionOnSet(u, A) + u[x]
        /\ SumFunctionOnSet(t, 1 .. n + 1) = SumFunctionOnSet(t, B) + t[n + 1]
    BY <2>3, <2>4, <2>5, Zenon
  <2>7. SumFunctionOnSet(u, A) = SumFunction(s) + SumFunctionOnSet(t, B)
    BY <1>1, <1>3, <2>1
  <2>8. SumFunction(s) \in Int /\ SumFunctionOnSet(t, B) \in Int
    BY <2>2, SumOfSeq, SumInt
  <2>. HIDE DEF A, B, x
  <2>. QED
    BY <2>2, <2>6, <2>7, <2>8
<1>4. Len(t) \in G
  <2>. HIDE DEF G
  <2>. QED
    BY <1>1, <1>2, <1>3, Induct
<1>5. SumFunction(u) = SumFunctionOnSet(u, 1 .. Len(s) + Len(t))
  BY <1>1, SumOfSeq
<1>. QED
  BY <1>1, <1>4, <1>5, SumOfSeq

LEMMA SumOfOne == ASSUME NEW n \in Nat PROVE SumFunction(<<n>>) = n
<1> DEFINE s == <<n>>
<1>1. s \in Seq(Nat) /\ Len(s) = 1 /\ s[1] = n
  OBVIOUS
<1>2. 1 .. 1 = {} \cup {1}
  OBVIOUS
<1>3. IsFiniteSet({}) /\ Ints(s, {}) /\ 1 \notin {} /\ s[1] \in Int
  BY FS_EmptySet DEF Ints
<1>4. SumFunctionOnSet(s, {} \cup {1}) = SumFunctionOnSet(s, {}) + s[1]
  <2>. HIDE DEF s
  <2>. QED
    BY <1>3, SumIn
<1>5. SumFunctionOnSet(s, {}) = 0
  BY SumEmpty
<1>6. SumFunctionOnSet(s, 1 .. 1) = SumFunctionOnSet(s, {}) + s[1]
  BY <1>2, <1>4, Zenon
<1>. HIDE DEF s
<1>7. SumFunction(s) = SumFunctionOnSet(s, 1 .. 1)
  BY <1>1, SumOfSeq
<1>. QED
  BY <1>1, <1>5, <1>6, <1>7 DEF s

-----------------------------------------------------------------------------
(* The byte count *)

\* What a sealed chunk counts for.
Measure(c) == IF c.comp = 0 THEN Sum(c.lines) ELSE c.comp
Measures == [i \in DOMAIN sealed |-> Measure(sealed[i])]
SealedBytes == SumFunctionOnSet(Measures, DOMAIN sealed)

BytesInv == totalBytes = ActiveBytes + SealedBytes

LEMMA MeasureFacts ==
  ASSUME RingType
  PROVE  /\ IsFiniteSet(DOMAIN sealed)
         /\ \A i \in DOMAIN sealed : sealed[i] \in Chunk /\ Measures[i] \in Nat
         /\ \A c \in Chunk : Measure(c) \in Nat
         /\ Ints(Measures, DOMAIN sealed)
         /\ SealedBytes \in Nat
         /\ ActiveBytes \in Nat
<1>1. Len(sealed) \in Nat /\ DOMAIN sealed = 1 .. Len(sealed)
  BY ChunkTypes
<1>2. IsFiniteSet(DOMAIN sealed)
  BY <1>1, FS_Interval
<1>3. \A i \in DOMAIN sealed : sealed[i] \in Chunk
  BY <1>1, ElementOfSeq DEF RingType
<1>4. ASSUME NEW c \in Chunk PROVE Measure(c) \in Nat
  <2>1. c.comp \in Nat /\ c.lines \in Seq(Nat)
    BY DEF Chunk
  <2>. QED
    BY <2>1, SumOfSeq DEF Measure, Sum
<1>5. \A i \in DOMAIN sealed : Measures[i] \in Nat
  BY <1>3, <1>4 DEF Measures
<1>6. SealedBytes \in Nat
  BY <1>2, <1>5, SumNat DEF SealedBytes
<1>7. ActiveBytes \in Nat
  BY SumOfSeq DEF ActiveBytes, Sum, RingType
<1>. QED
  BY <1>2, <1>3, <1>4, <1>5, <1>6, <1>7 DEF Ints

\* What the ring counts is what it holds, raw and compressed.
LEMMA BytesInvMeans ==
  ASSUME RingType, BytesInv
  PROVE  BytesAccounted /\ CompBytes \in Nat /\ CompBytes <= totalBytes
<1> DEFINE D == DOMAIN sealed
           f == [i \in D |-> sealed[i].comp]
           g == [i \in RawChunks |-> Sum(sealed[i].lines)]
<1>1. IsFiniteSet(D) /\ RawChunks \in SUBSET D /\ IsFiniteSet(RawChunks)
  BY MeasureFacts, FS_Subset DEF RawChunks
<1>2. ASSUME NEW i \in D PROVE sealed[i].comp \in Nat /\ Sum(sealed[i].lines) \in Nat
  <2>1. sealed[i].lines \in Seq(Nat) /\ sealed[i].comp \in Nat
    BY MeasureFacts DEF Chunk
  <2>. QED
    BY <2>1, SumOfSeq DEF Sum
<1>3. \A i \in D : Measures[i] = IF i \in RawChunks THEN f[i] + g[i] ELSE f[i]
  BY <1>2 DEF Measures, Measure, RawChunks
<1>4. (\A i \in D : f[i] \in Nat) /\ (\A i \in RawChunks : g[i] \in Nat)
  BY <1>1, <1>2
<1>5. Ints(f, D) /\ Ints(g, RawChunks)
  BY <1>4 DEF Ints
<1>6. CompBytes = SumFunctionOnSet(f, D)
      /\ Sum([i \in RawChunks |-> Sum(sealed[i].lines)]) = SumFunctionOnSet(g, RawChunks)
  BY DEF CompBytes, Sum, SumFunction
<1>. HIDE DEF D, f, g
<1>7. SumFunctionOnSet(Measures, D) = SumFunctionOnSet(f, D) + SumFunctionOnSet(g, RawChunks)
  BY <1>1, <1>3, <1>5, SumSplits
<1>8. SumFunctionOnSet(f, D) \in Nat /\ SumFunctionOnSet(g, RawChunks) \in Nat
  BY <1>1, <1>4, SumNat
<1>9. SealedBytes = SumFunctionOnSet(Measures, D)
  BY DEF SealedBytes, D
<1>. QED
  BY <1>6, <1>7, <1>8, <1>9, MeasureFacts DEF BytesInv, BytesAccounted

LEMMA BytesAppend ==
  ASSUME RingType, BytesInv, NEW p \in Pieces, AppendBytes(p)
  PROVE  BytesInv'
<1>1. /\ active' = active \o NewLines(p) /\ tail' = NewTail(p)
      /\ totalBytes' = totalBytes + Sum(p.lines) + p.rest
      /\ sealed' = sealed
  BY DEF AppendBytes
<1>2. p.lines \in Seq(Nat) /\ p.rest \in Nat /\ tail \in Nat /\ active \in Seq(Nat)
  BY PiecesAssumption DEF RingType
<1>3. NewLines(p) \in Seq(Nat)
  BY NewLinesType
<1>4. Sum(active') = Sum(active) + Sum(NewLines(p))
  BY <1>1, <1>2, <1>3, SumConcat DEF Sum
<1>5. Sum(NewLines(p)) + NewTail(p) = tail + Sum(p.lines) + p.rest
  <2>1. CASE p.lines = <<>>
    BY <1>2, <2>1, SumOfNone DEF Sum, NewLines, NewTail
  <2>2. CASE p.lines # <<>>
    <3> DEFINE h == Head(p.lines)
               t == Tail(p.lines)
    <3>1. h \in Nat /\ t \in Seq(Nat) /\ p.lines = <<h>> \o t
      BY <1>2, <2>2, HeadTailProperties
    <3>2. <<h>> \in Seq(Nat) /\ <<tail + h>> \in Seq(Nat)
      BY <1>2, <3>1
    <3>3. NewLines(p) = <<tail + h>> \o t /\ NewTail(p) = p.rest
      BY <2>2 DEF NewLines, NewTail
    <3>. HIDE DEF h, t
    <3>4. SumFunction(<<h>>) = h /\ SumFunction(<<tail + h>>) = tail + h /\ SumFunction(t) \in Nat
      BY <1>2, <3>1, SumOfOne, SumOfSeq
    <3>5. /\ Sum(p.lines) = h + SumFunction(t)
          /\ Sum(NewLines(p)) = (tail + h) + SumFunction(t)
      BY <3>1, <3>2, <3>3, <3>4, SumConcat DEF Sum
    <3>6. h \in Nat
      BY <3>1
    <3>7. NewTail(p) = p.rest /\ p.rest \in Nat /\ tail \in Nat
      BY <1>2, <3>3
    <3>. QED
      BY <3>4, <3>5, <3>6, <3>7
  <2>. QED
    BY <2>1, <2>2
<1>6. Sum(active) \in Nat /\ Sum(NewLines(p)) \in Nat /\ Sum(p.lines) \in Nat /\ NewTail(p) \in Nat
  BY <1>2, <1>3, SumOfSeq, NewLinesType DEF Sum
<1>7. SealedBytes' = SealedBytes /\ SealedBytes \in Nat
  BY <1>1, MeasureFacts DEF SealedBytes, Measures, Measure
<1>8. ActiveBytes' = Sum(active') + NewTail(p) /\ ActiveBytes = Sum(active) + tail
  BY <1>1 DEF ActiveBytes, Sum
<1>9. p.rest \in Nat /\ tail \in Nat /\ totalBytes' = totalBytes + Sum(p.lines) + p.rest
  BY <1>1, <1>2
<1>10. totalBytes = ActiveBytes + SealedBytes
  BY DEF BytesInv
<1>11. totalBytes' = ActiveBytes' + SealedBytes'
  BY <1>4, <1>5, <1>6, <1>7, <1>8, <1>9, <1>10
<1>. QED
  BY <1>11 DEF BytesInv

\* A cut moves the active bytes into the new chunk.
LEMMA BytesCut ==
  ASSUME RingType, NEW size \in Nat, CutChunk(size)
  PROVE  /\ ActiveBytes = Sum(CutLines) + ActiveBytes'
         /\ SealedBytes' = SealedBytes + (IF size = 0 THEN Sum(CutLines) ELSE size)
         /\ ActiveBytes' \in Nat /\ Sum(CutLines) \in Nat
<1> DEFINE n == Len(sealed)
           c == [first |-> activeFirst, lines |-> CutLines, comp |-> size]
<1>1. CutLines \in Seq(Nat) /\ CutTail \in Nat /\ active \in Seq(Nat) /\ tail \in Nat
  BY CutLinesType DEF RingType
<1>2. active' = <<>> /\ tail' = CutTail /\ sealed' = Append(sealed, c)
  BY DEF CutChunk
<1>3. ActiveBytes' = CutTail
  BY <1>1, <1>2, SumOfNone DEF ActiveBytes, Sum
<1>4. Sum(CutLines) \in Nat
  BY <1>1, SumOfSeq DEF Sum
<1>5. ActiveBytes = Sum(CutLines) + CutTail
  <2>1. CASE active # <<>>
    BY <2>1 DEF ActiveBytes, CutLines, CutTail
  <2>2. CASE active = <<>>
    BY <1>1, <2>2, SumOfNone, SumOfOne DEF ActiveBytes, CutLines, CutTail, Sum
  <2>. QED
    BY <2>1, <2>2
<1>6. c \in Chunk
  BY <1>1 DEF Chunk, RingType
<1>7. /\ n \in Nat /\ DOMAIN sealed = 1 .. n /\ DOMAIN sealed' = 1 .. n + 1
      /\ \A i \in 1 .. n : sealed'[i] = sealed[i]
      /\ sealed'[n + 1] = c
  BY <1>2, <1>6, LenProperties, AppendProperties DEF RingType
<1>8. SealedBytes' = SealedBytes + Measure(c)
  <2> DEFINE f == Measures'
  <2>1. Measures' = [i \in 1 .. n + 1 |-> Measure(sealed'[i])]
    BY <1>7 DEF Measures, Measure
  <2>2. (\A i \in 1 .. n : f[i] = Measures[i]) /\ f[n + 1] = Measure(c)
    BY <1>7, <2>1 DEF Measures
  <2>3. IsFiniteSet(1 .. n) /\ Ints(Measures, 1 .. n) /\ Measure(c) \in Nat
    BY <1>6, <1>7, MeasureFacts
  <2>. HIDE DEF f
  <2>4. Ints(f, 1 .. n) /\ f[n + 1] \in Int /\ n + 1 \notin 1 .. n
    BY <1>7, <2>2, <2>3 DEF Ints
  <2>5. SumFunctionOnSet(f, (1 .. n) \cup {n + 1}) = SumFunctionOnSet(f, 1 .. n) + f[n + 1]
    <3> DEFINE A == 1 .. n
               x == n + 1
    <3>1. IsFiniteSet(A) /\ Ints(f, A) /\ x \notin A /\ f[x] \in Int
      BY <2>3, <2>4
    <3>. HIDE DEF A, x
    <3>2. SumFunctionOnSet(f, A \cup {x}) = SumFunctionOnSet(f, A) + f[x]
      BY <3>1, SumIn
    <3>. QED
      BY <3>2 DEF A, x
  <2>6. (1 .. n) \cup {n + 1} = 1 .. n + 1
    BY <1>7
  <2>7. SumFunctionOnSet(f, 1 .. n + 1) = SumFunctionOnSet(f, 1 .. n) + f[n + 1]
    BY <2>5, <2>6, Zenon
  <2>8. SumFunctionOnSet(f, 1 .. n) = SumFunctionOnSet(Measures, 1 .. n)
    BY <2>2, <2>3, <2>4, SumAgrees
  <2>9. SealedBytes' = SumFunctionOnSet(f, 1 .. n + 1)
    BY <1>7 DEF SealedBytes, f
  <2>10. SealedBytes = SumFunctionOnSet(Measures, 1 .. n)
    BY <1>7 DEF SealedBytes
  <2>. QED
    BY <2>2, <2>7, <2>8, <2>9, <2>10
<1>. QED
  BY <1>1, <1>3, <1>4, <1>5, <1>8 DEF Measure

LEMMA BytesEvict ==
  ASSUME RingType, BytesInv, EvictHead
  PROVE  BytesInv'
<1> DEFINE n == Len(sealed)
<1>1. /\ sealed # <<>> /\ Head(sealed).comp # 0
      /\ sealed' = Tail(sealed)
      /\ totalBytes' = totalBytes - Head(sealed).comp
      /\ UNCHANGED <<active, tail>>
  BY DEF EvictHead, HeadCompressed
<1>2. n \in Nat \ {0} /\ DOMAIN sealed = 1 .. n
  BY <1>1, EmptySeq, LenProperties DEF RingType
<1>3. /\ DOMAIN sealed' = 1 .. n - 1
      /\ \A i \in 1 .. n - 1 : sealed'[i] = sealed[i + 1]
      /\ Head(sealed) = sealed[1]
  BY <1>1, <1>2, HeadTailProperties, LenProperties DEF RingType
<1>4. Measures[1] = Head(sealed).comp /\ 1 \in DOMAIN sealed
  BY <1>1, <1>2, <1>3 DEF Measures, Measure
<1>5. SealedBytes = Measures[1] + SumFunctionOnSet(Measures, DOMAIN sealed \ {1})
  BY <1>4, MeasureFacts, SumOut DEF SealedBytes
<1>6. SumFunctionOnSet(Measures, DOMAIN sealed \ {1}) = SealedBytes'
  <2> DEFINE S == 1 .. n - 1
             f == Measures'
             h == [i \in S |-> i + 1]
  <2>1. f = [i \in S |-> Measure(sealed'[i])]
    BY <1>3 DEF Measures, Measure
  <2>2. \A i \in S : Measures[h[i]] = f[i]
    BY <1>2, <1>3, <2>1 DEF Measures
  <2>3. {h[i] : i \in S} = DOMAIN sealed \ {1}
    <3>1. ASSUME NEW j \in DOMAIN sealed \ {1} PROVE j \in {h[i] : i \in S}
      <4>1. j - 1 \in S /\ h[j - 1] = j
        BY <1>2
      <4>. QED
        BY <4>1, Zenon
    <3>2. \A i \in S : h[i] \in DOMAIN sealed \ {1}
      BY <1>2
    <3>. QED
      BY <3>1, <3>2
  <2>4. IsFiniteSet(S) /\ (\A i, j \in S : h[i] = h[j] => i = j)
    <3>1. n - 1 \in Int
      BY <1>2
    <3>. QED
      BY <3>1, FS_Interval
  <2>5. Ints(f, S)
    <3>1. \A i \in S : h[i] \in DOMAIN sealed
      BY <1>2
    <3>. QED
      BY <2>2, <3>1, MeasureFacts DEF Ints
  <2>6. SealedBytes' = SumFunctionOnSet(f, S)
    BY <1>3 DEF SealedBytes
  <2>. HIDE DEF S, f, h
  <2>7. SumFunctionOnSet(Measures, {h[i] : i \in S}) = SumFunctionOnSet(f, S)
    BY <2>2, <2>4, <2>5, SumMoves
  <2>. QED
    BY <2>3, <2>6, <2>7, Zenon
<1>7. ActiveBytes' = ActiveBytes
  BY <1>1 DEF ActiveBytes, Sum
<1>8. SealedBytes \in Nat /\ ActiveBytes \in Nat /\ Measures[1] \in Nat
  BY <1>4, MeasureFacts
<1>9. SumFunctionOnSet(Measures, DOMAIN sealed \ {1}) \in Int
  <2>1. IsFiniteSet(DOMAIN sealed \ {1}) /\ Ints(Measures, DOMAIN sealed \ {1})
    BY MeasureFacts, FS_Subset DEF Ints
  <2>. QED
    BY <2>1, SumInt
<1>. QED
  <2>1. totalBytes' = totalBytes - Measures[1]
    BY <1>1, <1>4
  <2>2. SealedBytes = Measures[1] + SealedBytes' /\ SealedBytes' \in Int
    BY <1>5, <1>6, <1>9
  <2>3. totalBytes = ActiveBytes + SealedBytes
    BY DEF BytesInv
  <2>4. totalBytes' = ActiveBytes + SealedBytes'
    BY <1>8, <2>1, <2>2, <2>3
  <2>. QED
    BY <1>7, <2>4 DEF BytesInv

-----------------------------------------------------------------------------
(* What is in the channel *)

Waits(ring, h) ==
  \E i \in DOMAIN ring :
    ring[i].comp = 0 /\ ring[i].first = h.first /\ ring[i].lines = h.lines

\* What the compressor has or will get is in the ring, raw, and each chunk but once.
PendingInv ==
  /\ \A k \in 1 .. Len(sealCh) : Waits(sealed, sealCh[k])
  /\ comp = "encoding" => Waits(sealed, chunk)
  /\ \A j, k \in 1 .. Len(sealCh) : j < k => sealCh[j].first # sealCh[k].first
  /\ comp = "encoding" => \A k \in 1 .. Len(sealCh) : sealCh[k].first # chunk.first

\* A chunk that is added or evicted leaves what waits.
LEMMA WaitsCut ==
  ASSUME RingType, BacklogInv, NEW size \in Nat, CutChunk(size), NEW h, Waits(sealed, h)
  PROVE  Waits(sealed', h)
  BY BacklogCut DEF Waits

LEMMA WaitsEvict ==
  ASSUME RingType, EvictHead, NEW h, Waits(sealed, h)
  PROVE  Waits(sealed', h)
<1> DEFINE n == Len(sealed)
<1>1. sealed # <<>> /\ sealed' = Tail(sealed) /\ Head(sealed).comp # 0
  BY DEF EvictHead, HeadCompressed
<1>2. n \in Nat \ {0} /\ DOMAIN sealed = 1 .. n
  BY <1>1, EmptySeq, ChunkTypes DEF RingType
<1>3. /\ DOMAIN sealed' = 1 .. n - 1
      /\ \A i \in 1 .. n - 1 : sealed'[i] = sealed[i + 1]
      /\ sealed[1].comp # 0
  BY <1>1, <1>2, HeadTailProperties, LenProperties DEF RingType
<1>4. PICK i \in 1 .. n : sealed[i].comp = 0 /\ sealed[i].first = h.first /\ sealed[i].lines = h.lines
  BY <1>2 DEF Waits
<1>5. i - 1 \in 1 .. n - 1 /\ sealed'[i - 1] = sealed[i]
  BY <1>2, <1>3, <1>4
<1>. QED
  BY <1>3, <1>4, <1>5 DEF Waits

LEMMA PendingInit == Init => PendingInv
<1>1. Len(<<>>) = 0
  OBVIOUS
<1>. QED
  BY <1>1 DEF Init, PendingInv

LEMMA PendingStep == RingType /\ BacklogInv /\ PendingInv /\ [Next]_vars => PendingInv'
<1>. SUFFICES ASSUME RingType, BacklogInv, PendingInv, [Next]_vars PROVE PendingInv'
  OBVIOUS
<1>. DEFINE m == Len(sealCh)
\* Without a new entry in the channel it is enough that what waits still does.
<1>0. ASSUME sealCh' = sealCh, comp' = "encoding" => comp = "encoding", chunk' = chunk,
             \A h : Waits(sealed, h) => Waits(sealed', h)
      PROVE  PendingInv'
  BY <1>0 DEF PendingInv
<1>1. CASE SealToChannel
  <2> DEFINE h == [first |-> activeFirst, lines |-> CutLines]
  <2>1. CutChunk(0) /\ sealCh' = Append(sealCh, h) /\ UNCHANGED <<comp, chunk>>
    BY <1>1 DEF SealToChannel
  <2>2. h \in Handed /\ m \in Nat
    BY CutLinesType, LenProperties DEF Handed, RingType
  <2>3. /\ Len(sealCh') = m + 1
        /\ \A k \in 1 .. m : sealCh'[k] = sealCh[k]
        /\ sealCh'[m + 1] = h
    BY <2>1, <2>2 DEF RingType
  <2>4. Len(sealed) + 1 \in DOMAIN sealed'
        /\ sealed'[Len(sealed) + 1] = [first |-> activeFirst, lines |-> CutLines, comp |-> 0]
    <3>1. Len(sealed) \in Nat
      BY ChunkTypes
    <3>. QED
      BY <2>1, <3>1, BacklogCut
  <2>5. Waits(sealed', h)
    BY <2>4 DEF Waits
  <2>6. ASSUME NEW k \in 1 .. m PROVE Waits(sealed', sealCh'[k]) /\ sealCh'[k].first # activeFirst
    <3>1. Waits(sealed, sealCh[k])
      BY DEF PendingInv
    <3>2. Waits(sealed', sealCh'[k])
      BY <2>1, <2>3, <3>1, WaitsCut DEF Waits
    <3>3. sealCh[k].first # activeFirst
      <4>1. PICK i \in DOMAIN sealed : sealed[i].first = sealCh[k].first
        BY <3>1 DEF Waits
      <4>2. sealed[i].first < activeFirst /\ sealed[i].first \in Nat /\ activeFirst \in Nat
        BY ChunkTypes DEF BacklogInv, RingType
      <4>. QED
        BY <4>1, <4>2
    <3>. QED
      BY <2>3, <3>2, <3>3
  <2>7. comp = "encoding" => Waits(sealed', chunk) /\ chunk.first # activeFirst
    <3>1. SUFFICES ASSUME comp = "encoding" PROVE Waits(sealed', chunk) /\ chunk.first # activeFirst
      OBVIOUS
    <3>2. Waits(sealed, chunk)
      BY <3>1 DEF PendingInv
    <3>3. Waits(sealed', chunk)
      BY <2>1, <3>2, WaitsCut DEF Waits
    <3>4. PICK i \in DOMAIN sealed : sealed[i].first = chunk.first
      BY <3>2 DEF Waits
    <3>5. sealed[i].first < activeFirst /\ sealed[i].first \in Nat /\ activeFirst \in Nat
      BY ChunkTypes DEF BacklogInv, RingType
    <3>. QED
      BY <3>3, <3>4, <3>5
  <2>8. \A k \in 1 .. m + 1 : k \in 1 .. m \/ k = m + 1
    BY <2>2
  <2>9. h.first = activeFirst
    OBVIOUS
  <2>10. \A k \in 1 .. m + 1 : Waits(sealed', sealCh'[k])
    BY <2>3, <2>5, <2>6, <2>8
  <2>11. ASSUME NEW j \in 1 .. m + 1, NEW k \in 1 .. m + 1, j < k
         PROVE  sealCh'[j].first # sealCh'[k].first
    <3>1. j \in 1 .. m
      BY <2>2, <2>11
    <3>2. CASE k \in 1 .. m
      BY <2>3, <2>11, <3>1, <3>2 DEF PendingInv
    <3>3. CASE k = m + 1
      BY <2>3, <2>6, <2>9, <3>1, <3>3
    <3>. QED
      BY <2>8, <3>2, <3>3
  <2>12. comp = "encoding" => \A k \in 1 .. m + 1 : sealCh'[k].first # chunk.first
    BY <2>3, <2>7, <2>8, <2>9 DEF PendingInv
  <2>. QED
    BY <2>1, <2>3, <2>7, <2>10, <2>11, <2>12 DEF PendingInv
<1>2. ASSUME NEW size \in CompSizes, SealInline(size) PROVE PendingInv'
  <2>1. CutChunk(size) /\ UNCHANGED <<sealCh, comp, chunk>> /\ size \in Nat
    BY <1>2, SizesAssumption DEF SealInline
  <2>2. \A h : Waits(sealed, h) => Waits(sealed', h)
    BY <2>1, WaitsCut DEF Waits
  <2>. QED
    BY <1>0, <2>1, <2>2
<1>3. CASE EvictHead
  <2>1. UNCHANGED <<sealCh, comp, chunk>>
    BY <1>3 DEF EvictHead
  <2>2. \A h : Waits(sealed, h) => Waits(sealed', h)
    BY <1>3, WaitsEvict DEF Waits
  <2>. QED
    BY <1>0, <2>1, <2>2
<1>4. CASE Receive
  <2>1. /\ sealCh # <<>> /\ chunk' = Head(sealCh) /\ sealCh' = Tail(sealCh)
        /\ UNCHANGED sealed
    BY <1>4 DEF Receive, ringVars
  <2>2. m \in Nat \ {0}
    BY <2>1, EmptySeq, LenProperties DEF RingType
  <2>3. /\ Len(sealCh') = m - 1
        /\ \A k \in 1 .. m - 1 : k + 1 \in 1 .. m /\ sealCh'[k] = sealCh[k + 1]
        /\ chunk' = sealCh[1] /\ 1 \in 1 .. m
    BY <2>1, <2>2, HeadTailProperties DEF RingType
  <2>4. \A h : Waits(sealed', h) <=> Waits(sealed, h)
    BY <2>1 DEF Waits
  <2>5. Waits(sealed', chunk') /\ \A k \in 1 .. m - 1 : Waits(sealed', sealCh'[k])
    BY <2>3, <2>4 DEF PendingInv
  <2>6. ASSUME NEW j \in 1 .. m - 1, NEW k \in 1 .. m - 1, j < k
        PROVE  sealCh'[j].first # sealCh'[k].first
    <3>1. j + 1 < k + 1
      BY <2>6
    <3>. QED
      BY <2>3, <3>1 DEF PendingInv
  <2>7. ASSUME NEW k \in 1 .. m - 1
        PROVE  sealCh'[k].first # chunk'.first
    <3>1. 1 < k + 1
      OBVIOUS
    <3>. QED
      BY <2>3, <3>1 DEF PendingInv
  <2>. QED
    BY <2>3, <2>5, <2>6, <2>7 DEF PendingInv
<1>5. ASSUME NEW size \in CompSizes, Compressed(size) PROVE PendingInv'
  <2>1. comp = "encoding" /\ comp' = "evicting" /\ UNCHANGED <<sealCh, chunk>>
    BY <1>5 DEF Compressed
  <2>2. ASSUME NEW k \in 1 .. m PROVE Waits(sealed', sealCh[k])
    <3>1. PICK i \in DOMAIN sealed : /\ sealed[i].comp = 0
                                     /\ sealed[i].first = sealCh[k].first
                                     /\ sealed[i].lines = sealCh[k].lines
      BY DEF PendingInv, Waits
    <3>2. sealed[i].first # chunk.first
      BY <2>1, <3>1 DEF PendingInv
    <3>3. DOMAIN sealed' = DOMAIN sealed /\ sealed'[i] = sealed[i]
      BY <1>5, <3>2 DEF Compressed
    <3>. QED
      BY <2>1, <3>1, <3>3 DEF Waits
  <2>. QED
    BY <2>1, <2>2 DEF PendingInv
<1>6. ASSUME \/ (\E p \in Pieces : AppendBytes(p)) \/ AppendDone
             \/ (\E c \in firing : ReportInline(c)) \/ EvictDone
             \/ (\E n \in ByteCaps : SetMaxBytes(n)) \/ Report \/ Exit
             \/ (\E from, to \in firstAvail .. End : ReadLines(from, to))
             \/ CloseRing \/ CloseChannel \/ UNCHANGED vars
      PROVE  PendingInv'
  <2>1. UNCHANGED <<sealed, sealCh, chunk>>
    BY <1>6 DEF AppendBytes, AppendDone, ReportInline, EvictDone, SetMaxBytes, Report,
       Exit, ReadLines, CloseRing, CloseChannel, ringVars, vars
  <2>2. comp' = "encoding" => comp = "encoding"
    BY <1>6 DEF AppendBytes, AppendDone, ReportInline, EvictDone, SetMaxBytes, Report,
       Exit, ReadLines, CloseRing, CloseChannel, ringVars, vars
  <2>. QED
    BY <1>0, <2>1, <2>2 DEF Waits
<1>. QED
  BY <1>1, <1>2, <1>3, <1>4, <1>5, <1>6 DEF Next

\* Its compression replaces the bytes of the very chunk that was handed over.
LEMMA BytesCompressed ==
  ASSUME RingType, BacklogInv, PendingInv, BytesInv, NEW size \in CompSizes, Compressed(size)
  PROVE  BytesInv'
<1>1. /\ comp = "encoding"
      /\ totalBytes' = totalBytes + size - Sum(chunk.lines)
      /\ UNCHANGED <<active, tail>>
      /\ size \in Nat /\ size # 0
  BY SizesAssumption DEF Compressed
<1>2. PICK j \in DOMAIN sealed : /\ sealed[j].comp = 0
                                 /\ sealed[j].first = chunk.first
                                 /\ sealed[j].lines = chunk.lines
  BY <1>1 DEF PendingInv, Waits
<1>3. \A i \in DOMAIN sealed : i # j => sealed[i].first # chunk.first
  <2>1. ASSUME NEW i \in DOMAIN sealed, i # j PROVE sealed[i].first # chunk.first
    <3>1. i \in Nat /\ j \in Nat /\ sealed[i].first \in Nat /\ sealed[j].first \in Nat
      BY ChunkTypes
    <3>2. i < j \/ j < i
      BY <2>1, <3>1
    <3>. QED
      BY <1>2, <3>1, <3>2 DEF BacklogInv
  <2>. QED
    BY <2>1
<1>4. /\ DOMAIN sealed' = DOMAIN sealed
      /\ \A i \in DOMAIN sealed : i # j => sealed'[i] = sealed[i]
      /\ sealed'[j].comp = size
  <2>1. sealed[j] \in Chunk
    BY MeasureFacts
  <2>. QED
    BY <1>2, <1>3, <2>1 DEF Compressed, Chunk
<1> DEFINE D == DOMAIN sealed
           f == Measures'
<1>5. /\ \A i \in D \ {j} : f[i] = Measures[i]
      /\ f[j] = size /\ Measures[j] = Sum(chunk.lines)
  BY <1>1, <1>2, <1>4 DEF Measures, Measure
<1>6. IsFiniteSet(D) /\ Ints(Measures, D) /\ j \in D
  BY MeasureFacts
<1>7. SealedBytes = SumFunctionOnSet(Measures, D) /\ SealedBytes' = SumFunctionOnSet(f, D)
  BY <1>4 DEF SealedBytes
<1>. HIDE DEF D, f
<1>8. IsFiniteSet(D \ {j}) /\ Ints(Measures, D \ {j}) /\ Ints(f, D)
  BY <1>1, <1>5, <1>6, FS_Subset DEF Ints
<1>9. /\ SumFunctionOnSet(Measures, D) = Measures[j] + SumFunctionOnSet(Measures, D \ {j})
      /\ SumFunctionOnSet(f, D) = f[j] + SumFunctionOnSet(f, D \ {j})
  BY <1>6, <1>8, SumOut
<1>10. SumFunctionOnSet(Measures, D \ {j}) = SumFunctionOnSet(f, D \ {j})
  BY <1>5, <1>8, SumAgrees
<1>11. SumFunctionOnSet(Measures, D \ {j}) \in Int /\ Measures[j] \in Int
  BY <1>6, <1>8, SumInt DEF Ints
<1>12. ActiveBytes' = ActiveBytes /\ ActiveBytes \in Nat
  BY <1>1, MeasureFacts DEF ActiveBytes, Sum
<1>13. totalBytes = ActiveBytes + SealedBytes
  BY DEF BytesInv
<1>14. totalBytes' = totalBytes + size - Sum(chunk.lines) /\ size \in Nat
  BY <1>1
<1>15. totalBytes' = ActiveBytes' + SealedBytes'
  BY <1>5, <1>7, <1>9, <1>10, <1>11, <1>12, <1>13, <1>14
<1>. QED
  BY <1>15 DEF BytesInv

LEMMA BytesInit == Init => BytesInv
<1>1. DOMAIN <<>> = {}
  OBVIOUS
<1>2. SUFFICES ASSUME Init PROVE BytesInv
  OBVIOUS
<1>3. SealedBytes = 0
  BY <1>1, <1>2, SumEmpty DEF Init, SealedBytes
<1>4. ActiveBytes = 0
  BY <1>2, SumOfNone DEF Init, ActiveBytes, Sum
<1>. QED
  BY <1>2, <1>3, <1>4 DEF Init, BytesInv

LEMMA BytesStep ==
  RingType /\ BacklogInv /\ PendingInv /\ BytesInv /\ [Next]_vars => BytesInv'
<1>. SUFFICES ASSUME RingType, BacklogInv, PendingInv, BytesInv, [Next]_vars PROVE BytesInv'
  OBVIOUS
<1>0. ActiveBytes \in Nat /\ SealedBytes \in Nat /\ totalBytes = ActiveBytes + SealedBytes
  BY MeasureFacts DEF BytesInv
<1>1. ASSUME NEW p \in Pieces, AppendBytes(p) PROVE BytesInv'
  BY <1>1, BytesAppend
<1>2. CASE SealToChannel
  <2>1. CutChunk(0) /\ totalBytes' = totalBytes
    BY <1>2 DEF SealToChannel
  <2>2. /\ ActiveBytes = Sum(CutLines) + ActiveBytes'
        /\ SealedBytes' = SealedBytes + Sum(CutLines)
        /\ ActiveBytes' \in Nat /\ Sum(CutLines) \in Nat
    BY <2>1, BytesCut
  <2>3. totalBytes' = ActiveBytes' + SealedBytes'
    BY <1>0, <2>1, <2>2
  <2>. QED
    BY <2>3 DEF BytesInv
<1>3. ASSUME NEW size \in CompSizes, SealInline(size) PROVE BytesInv'
  <2>1. CutChunk(size) /\ totalBytes' = totalBytes + size - Sum(CutLines) /\ size \in Nat /\ size # 0
    BY <1>3, SizesAssumption DEF SealInline
  <2>2. /\ ActiveBytes = Sum(CutLines) + ActiveBytes'
        /\ SealedBytes' = SealedBytes + size
        /\ ActiveBytes' \in Nat /\ Sum(CutLines) \in Nat
    BY <2>1, BytesCut
  <2>3. totalBytes' = ActiveBytes' + SealedBytes'
    BY <1>0, <2>1, <2>2
  <2>. QED
    BY <2>3 DEF BytesInv
<1>4. CASE EvictHead
  BY <1>4, BytesEvict
<1>5. ASSUME NEW size \in CompSizes, Compressed(size) PROVE BytesInv'
  BY <1>5, BytesCompressed
<1>6. ASSUME \/ AppendDone \/ (\E c \in firing : ReportInline(c)) \/ EvictDone
             \/ (\E n \in ByteCaps : SetMaxBytes(n)) \/ Receive \/ Report \/ Exit
             \/ (\E from, to \in firstAvail .. End : ReadLines(from, to))
             \/ CloseRing \/ CloseChannel \/ UNCHANGED vars
      PROVE  BytesInv'
  <2>1. UNCHANGED <<sealed, active, tail, totalBytes>>
    BY <1>6 DEF AppendDone, ReportInline, EvictDone, SetMaxBytes, Receive, Report,
       Exit, ReadLines, CloseRing, CloseChannel, ringVars, vars
  <2>. QED
    BY <2>1 DEF BytesInv, ActiveBytes, SealedBytes, Measures, Measure, Sum
<1>. QED
  BY <1>1, <1>2, <1>3, <1>4, <1>5, <1>6 DEF Next

-----------------------------------------------------------------------------
(* The caps *)

\* The compressed chunks are within the caps once the loop of evictLocked has ended, and
\* what other steps add is raw.
CapsInv ==
  (mu \in {"free", "seal"} /\ HeadCompressed) => CompBytes <= maxBytes /\ CompLines <= MaxLines

\* Lines of compressed chunks are among those between firstAvail and activeFirst.
LEMMA CompLinesBound ==
  ASSUME RingType, Numbered
  PROVE  CompLines \in Nat /\ CompLines <= activeFirst - firstAvail
<1> DEFINE n == Len(sealed)
           C == DOMAIN sealed \ RawChunks
           f == [i \in C |-> Len(sealed[i].lines)]
           E(k) == IF k = 0 THEN firstAvail ELSE After(k)
           P(k) == SumFunctionOnSet(f, {i \in C : i <= k}) <= E(k) - firstAvail
           G == {k \in Nat : k <= n => P(k)}
<1>1. n \in Nat /\ DOMAIN sealed = 1 .. n /\ firstAvail \in Nat
  BY ChunkTypes DEF RingType
<1>2. IsFiniteSet(C)
  <2>1. IsFiniteSet(1 .. n)
    BY <1>1, FS_Interval
  <2>. QED
    BY <1>1, <2>1, FS_Subset
<1>3. \A i \in C : f[i] \in Nat
  BY ChunkTypes
<1>4. \A k \in 0 .. n : E(k) \in Nat
  BY <1>1, ChunkTypes DEF After
<1>5. 0 \in G
  <2>1. {i \in C : i <= 0} = {}
    BY <1>1
  <2>2. SumFunctionOnSet(f, {i \in C : i <= 0}) = 0
    BY <2>1, SumEmpty, Zenon
  <2>. HIDE DEF f
  <2>. QED
    BY <1>1, <2>2
<1>6. ASSUME NEW k \in Nat, k \in G PROVE k + 1 \in G
  <2>1. SUFFICES ASSUME k + 1 <= n PROVE P(k + 1)
    OBVIOUS
  <2> DEFINE A == {i \in C : i <= k}
             B == {i \in C : i <= k + 1}
             x == k + 1
  <2>2. x \in DOMAIN sealed /\ Len(sealed[x].lines) \in Nat /\ sealed[x].first = E(k)
    <3>1. x \in DOMAIN sealed
      BY <1>1, <2>1
    <3>2. k = 0 => sealed[x].first = firstAvail
      BY <3>1, NumberedFacts
    <3>3. k # 0 => x # 1 /\ x - 1 = k
      OBVIOUS
    <3>. QED
      BY <3>1, <3>2, <3>3, ChunkTypes, NumberedFacts
  <2>3. E(x) = E(k) + Len(sealed[x].lines)
    BY <2>2 DEF After
  <2>4. IsFiniteSet(A) /\ Ints(f, A) /\ x \notin A
    <3>1. A \subseteq C
      OBVIOUS
    <3>. QED
      BY <1>2, <1>3, <3>1, FS_Subset DEF Ints
  <2>5. SumFunctionOnSet(f, A) <= E(k) - firstAvail /\ SumFunctionOnSet(f, A) \in Int
    <3>1. k <= n
      BY <1>1, <2>1
    <3>2. P(k)
      BY <1>6, <3>1
    <3>3. SumFunctionOnSet(f, A) \in Int
      <4>. HIDE DEF A, f
      <4>. QED
        BY <2>4, SumInt
    <3>. QED
      BY <3>2, <3>3
  <2>6. E(k) \in Nat
    BY <1>1, <1>4, <2>1
  <2>7. CASE x \in C
    <3>1. B = A \cup {x}
      BY <1>1, <2>7
    <3>2. f[x] = Len(sealed[x].lines)
      BY <2>7
    <3>3. SumFunctionOnSet(f, A \cup {x}) = SumFunctionOnSet(f, A) + f[x]
      <4>1. f[x] \in Int
        BY <1>3, <2>7
      <4>. HIDE DEF A, f, x
      <4>. QED
        BY <2>4, <4>1, SumIn
    <3>4. SumFunctionOnSet(f, B) = SumFunctionOnSet(f, A) + Len(sealed[x].lines)
      BY <3>1, <3>2, <3>3, Zenon
    <3>. HIDE DEF A, f, B, E
    <3>. QED
      BY <1>1, <2>2, <2>3, <2>5, <2>6, <3>4 DEF B
  <2>8. CASE x \notin C
    <3>1. B = A
      BY <1>1, <2>8
    <3>2. SumFunctionOnSet(f, B) = SumFunctionOnSet(f, A)
      BY <3>1, Zenon
    <3>. HIDE DEF A, f, B, E
    <3>. QED
      BY <1>1, <2>2, <2>3, <2>5, <2>6, <3>2 DEF B
  <2>. QED
    BY <2>7, <2>8
<1>7. P(n)
  <2>1. n \in G
    <3>. HIDE DEF G
    <3>. QED
      BY <1>1, <1>5, <1>6, Induct
  <2>. QED
    BY <1>1, <2>1
<1>8. {i \in C : i <= n} = C
  BY <1>1
<1>9. E(n) = activeFirst
  <2>1. n = 0 <=> sealed = <<>>
    BY EmptySeq DEF RingType
  <2>. QED
    BY <2>1, NumberedFacts
<1>10. CompLines = SumFunctionOnSet(f, C)
  BY DEF CompLines, Sum, SumFunction
<1>11. SumFunctionOnSet(f, C) \in Nat
  <2>. HIDE DEF f, C
  <2>. QED
    BY <1>2, <1>3, SumNat
<1>12. SumFunctionOnSet(f, C) <= E(n) - firstAvail
  BY <1>7, <1>8, Zenon
<1>. HIDE DEF f, C, E
<1>. QED
  BY <1>9, <1>10, <1>11, <1>12

\* A raw chunk at the new end changes neither sum.
LEMMA CapsCut ==
  ASSUME RingType, CutChunk(0)
  PROVE  /\ CompBytes' = CompBytes
         /\ CompLines' = CompLines
         /\ HeadCompressed' => HeadCompressed
<1> DEFINE n == Len(sealed)
           c == [first |-> activeFirst, lines |-> CutLines, comp |-> 0]
<1>1. sealed' = Append(sealed, c) /\ c \in Chunk
  BY CutLinesType DEF CutChunk, Chunk, RingType
<1>2. /\ n \in Nat /\ DOMAIN sealed = 1 .. n /\ DOMAIN sealed' = 1 .. n + 1
      /\ \A i \in 1 .. n : sealed'[i] = sealed[i]
      /\ sealed'[n + 1] = c
  BY <1>1, LenProperties, AppendProperties DEF RingType
<1>3. DOMAIN sealed' \ RawChunks' = DOMAIN sealed \ RawChunks
  BY <1>2 DEF RawChunks
<1>4. CompLines' = CompLines
  <2>1. [i \in DOMAIN sealed' \ RawChunks' |-> Len(sealed'[i].lines)]
          = [i \in DOMAIN sealed \ RawChunks |-> Len(sealed[i].lines)]
    BY <1>2, <1>3
  <2>. QED
    BY <2>1, Zenon DEF CompLines, Sum
<1>5. CompBytes' = CompBytes
  <2> DEFINE A == DOMAIN sealed
             x == n + 1
             f == [i \in A |-> sealed[i].comp]
             g == [i \in DOMAIN sealed' |-> sealed'[i].comp]
  <2>1. IsFiniteSet(A) /\ x \notin A /\ A \cup {x} = DOMAIN sealed'
    BY <1>2, MeasureFacts
  <2>2. (\A i \in A : f[i] = g[i]) /\ g[x] = 0
    BY <1>2
  <2>3. Ints(f, A) /\ Ints(g, A)
    <3>1. \A i \in A : sealed[i].comp \in Nat
      BY MeasureFacts DEF Chunk
    <3>2. \A i \in A : f[i] \in Int
      BY <3>1
    <3>. QED
      BY <2>2, <3>2 DEF Ints
  <2>4. CompBytes = SumFunctionOnSet(f, A) /\ CompBytes' = SumFunctionOnSet(g, DOMAIN sealed')
    BY DEF CompBytes, Sum, SumFunction
  <2>. HIDE DEF A, x, f, g
  <2>5. SumFunctionOnSet(g, A \cup {x}) = SumFunctionOnSet(g, A) + g[x]
    BY <2>1, <2>2, <2>3, SumIn
  <2>6. SumFunctionOnSet(f, A) = SumFunctionOnSet(g, A)
    BY <2>1, <2>2, <2>3, SumAgrees
  <2>7. SumFunctionOnSet(g, A) \in Int
    BY <2>1, <2>3, SumInt
  <2>8. CompBytes' = SumFunctionOnSet(g, A) + g[x]
    BY <2>1, <2>4, <2>5, Zenon
  <2>. QED
    BY <2>2, <2>4, <2>6, <2>7, <2>8
<1>6. HeadCompressed' => HeadCompressed
  <2>1. CASE n = 0
    <3>1. Head(sealed') = c
      BY <1>1, <1>2, <2>1
    <3>. QED
      BY <3>1 DEF HeadCompressed
  <2>2. CASE n # 0
    <3>1. sealed # <<>> /\ Head(sealed') = Head(sealed)
      BY <1>1, <1>2, <2>2 DEF RingType
    <3>. QED
      BY <3>1 DEF HeadCompressed
  <2>. QED
    BY <2>1, <2>2
<1>. QED
  BY <1>4, <1>5, <1>6

LEMMA CapsInit == Init => CapsInv
  BY DEF Init, CapsInv, HeadCompressed

LEMMA CapsStep ==
  RingType /\ Numbered /\ BytesInv /\ CapsInv /\ [Next]_vars => CapsInv'
<1>. SUFFICES ASSUME RingType, Numbered, BytesInv, CapsInv, [Next]_vars PROVE CapsInv'
  OBVIOUS
<1>0. ASSUME UNCHANGED <<sealed, maxBytes>>, mu' \in {"free", "seal"} => mu \in {"free", "seal"}
      PROVE  CapsInv'
  BY <1>0 DEF CapsInv, HeadCompressed, CompBytes, CompLines, RawChunks, Sum
<1>1. ASSUME NEW p \in Pieces, AppendBytes(p) PROVE CapsInv'
  BY <1>0, <1>1 DEF AppendBytes
<1>2. CASE SealToChannel
  <2>1. CutChunk(0) /\ UNCHANGED <<mu, maxBytes>>
    BY <1>2 DEF SealToChannel
  <2>. QED
    BY <2>1, CapsCut DEF CapsInv
<1>3. ASSUME NEW size \in CompSizes, SealInline(size) PROVE CapsInv'
  BY <1>3 DEF SealInline, CapsInv
<1>4. CASE EvictHead
  BY <1>4 DEF EvictHead, CapsInv, Evicting
<1>5. CASE EvictDone
  <2>1. UNCHANGED <<sealed, maxBytes>> /\ ~(HeadCompressed /\ OverCap)
    BY <1>5 DEF EvictDone, ringVars
  <2>2. SUFFICES ASSUME HeadCompressed PROVE CompBytes <= maxBytes /\ CompLines <= MaxLines
    BY <2>1 DEF CapsInv, HeadCompressed, CompBytes, CompLines, RawChunks, Sum
  <2>3. totalBytes <= maxBytes /\ Retained <= MaxLines
    <3>1. totalBytes \in Int /\ maxBytes \in Int /\ Retained \in Int /\ MaxLines \in Int
      BY MeasureFacts, SizesAssumption DEF BytesInv, RingType, Retained, ActiveLines
    <3>. QED
      BY <2>1, <2>2, <3>1 DEF OverCap
  <2>4. CompBytes \in Nat /\ CompBytes <= totalBytes
    BY BytesInvMeans
  <2>5. totalBytes \in Int /\ maxBytes \in Int /\ MaxLines \in Int
    BY MeasureFacts, SizesAssumption DEF BytesInv, RingType
  <2>6. CompLines \in Nat /\ CompLines <= activeFirst - firstAvail
    BY CompLinesBound
  <2>7. ActiveLines \in Nat /\ activeFirst \in Nat /\ firstAvail \in Nat
    BY DEF ActiveLines, RingType
  <2>. QED
    BY <2>3, <2>4, <2>5, <2>6, <2>7 DEF Retained
<1>6. ASSUME NEW n \in ByteCaps, SetMaxBytes(n) PROVE CapsInv'
  BY <1>6 DEF SetMaxBytes, CapsInv
<1>7. ASSUME NEW size \in CompSizes, Compressed(size) PROVE CapsInv'
  BY <1>7 DEF Compressed, CapsInv
<1>8. ASSUME \/ AppendDone \/ (\E c \in firing : ReportInline(c)) \/ Receive \/ Report \/ Exit
             \/ (\E from, to \in firstAvail .. End : ReadLines(from, to))
             \/ CloseRing \/ CloseChannel \/ UNCHANGED vars
      PROVE  CapsInv'
  <2>1. UNCHANGED <<sealed, maxBytes>> /\ (mu' \in {"free", "seal"} => mu \in {"free", "seal"})
    BY <1>8 DEF AppendDone, ReportInline, Receive, Report, Exit, ReadLines, CloseRing,
       CloseChannel, ringVars, vars
  <2>. QED
    BY <1>0, <2>1
<1>. QED
  BY <1>1, <1>2, <1>3, <1>4, <1>5, <1>6, <1>7, <1>8 DEF Next

-----------------------------------------------------------------------------
(* The cache *)

Holding(f) == \E i \in DOMAIN sealed : sealed[i].first = f /\ sealed[i].comp # 0

\* What the cache may be: its entries have a key and are compressed chunks of the ring.
CacheStates ==
  {c \in [keys : Seq(Nat), cached : SUBSET Nat] :
     /\ Len(c.keys) <= CacheMax
     /\ \A f \in c.cached : Holding(f) /\ \E k \in 1 .. Len(c.keys) : c.keys[k] = f}

CacheInv == [keys |-> cacheKeys, cached |-> cached] \in CacheStates

LEMMA CacheOneKeeps ==
  ASSUME RingType, NEW c \in CacheStates, NEW f \in Nat, Holding(f)
  PROVE  CacheOne(c, f) \in CacheStates
<1>1. /\ c \in [keys : Seq(Nat), cached : SUBSET Nat]
      /\ c.keys \in Seq(Nat) /\ c.cached \subseteq Nat /\ Len(c.keys) <= CacheMax
      /\ CacheMax \in Nat /\ Len(c.keys) \in Nat
      /\ \A g \in c.cached : Holding(g) /\ \E k \in 1 .. Len(c.keys) : c.keys[k] = g
  BY SizesAssumption, LenProperties DEF CacheStates
<1> DEFINE m == Len(c.keys)
           keys == Append(c.keys, f)
<1>2. /\ keys \in Seq(Nat) /\ Len(keys) = m + 1
      /\ \A k \in 1 .. m : keys[k] = c.keys[k]
      /\ keys[m + 1] = f
  BY <1>1
<1>3. ASSUME NEW g \in c.cached \cup {f} PROVE Holding(g) /\ \E k \in 1 .. m + 1 : keys[k] = g
  <2>1. CASE g = f
    BY <1>1, <1>2, <2>1
  <2>2. CASE g # f
    BY <1>1, <1>2, <2>2
  <2>. QED
    BY <2>1, <2>2
<1>4. CASE f \in c.cached
  BY <1>4 DEF CacheOne
<1>5. CASE f \notin c.cached /\ Len(keys) > CacheMax
  <2> DEFINE d == [keys |-> Tail(keys), cached |-> (c.cached \cup {f}) \ {Head(keys)}]
  <2>1. CacheOne(c, f) = d
    BY <1>5 DEF CacheOne
  <2>2. keys # <<>>
    BY <1>1, <1>2
  <2>3. /\ Tail(keys) \in Seq(Nat) /\ Len(Tail(keys)) = m
        /\ \A k \in 1 .. m : Tail(keys)[k] = keys[k + 1]
        /\ Head(keys) = keys[1]
    BY <1>1, <1>2, <2>2, HeadTailProperties
  <2>4. ASSUME NEW g \in d.cached PROVE Holding(g) /\ \E k \in 1 .. m : Tail(keys)[k] = g
    <3>1. PICK k \in 1 .. m + 1 : keys[k] = g
      BY <1>3
    <3>2. k # 1
      BY <2>3, <3>1
    <3>3. k - 1 \in 1 .. m /\ Tail(keys)[k - 1] = g
      BY <1>1, <2>3, <3>1, <3>2
    <3>. QED
      BY <1>3, <3>3
  <2>5. d \in [keys : Seq(Nat), cached : SUBSET Nat]
    BY <1>1, <2>3
  <2>6. d.keys = Tail(keys) /\ Len(d.keys) <= CacheMax
    BY <1>1, <2>3
  <2>7. \A g \in d.cached : Holding(g) /\ \E k \in 1 .. Len(d.keys) : d.keys[k] = g
    BY <2>3, <2>4, <2>6
  <2>. HIDE DEF d
  <2>. QED
    BY <2>1, <2>5, <2>6, <2>7 DEF CacheStates
<1>6. CASE f \notin c.cached /\ ~(Len(keys) > CacheMax)
  <2> DEFINE d == [keys |-> keys, cached |-> c.cached \cup {f}]
  <2>1. CacheOne(c, f) = d
    BY <1>6 DEF CacheOne
  <2>2. d \in [keys : Seq(Nat), cached : SUBSET Nat]
    BY <1>1, <1>2
  <2>3. d.keys = keys /\ Len(d.keys) <= CacheMax
    BY <1>1, <1>2, <1>6
  <2>4. \A g \in d.cached : Holding(g) /\ \E k \in 1 .. Len(d.keys) : d.keys[k] = g
    BY <1>2, <1>3, <2>3
  <2>. HIDE DEF d
  <2>. QED
    BY <2>1, <2>2, <2>3, <2>4 DEF CacheStates
<1>. QED
  BY <1>4, <1>5, <1>6

LEMMA CacheRead ==
  ASSUME RingType, CacheInv, NEW from \in Nat, NEW to \in Nat, ReadLines(from, to)
  PROVE  [keys |-> cacheKeys', cached |-> cached'] \in CacheStates
<1> DEFINE n == Len(sealed)
           meets(i) == sealed[i].first < to /\ sealed[i].first + Len(sealed[i].lines) > from
           a == [keys |-> cacheKeys, cached |-> cached]
           D(g) == g = [i \in 0 .. n |->
                          IF i = 0 THEN a
                          ELSE IF meets(i) /\ sealed[i].comp # 0
                               THEN CacheOne(g[i-1], sealed[i].first)
                               ELSE g[i-1]]
           st == [i \in 1 .. n |->
                    [c \in CacheStates |->
                       IF meets(i) /\ sealed[i].comp # 0 THEN CacheOne(c, sealed[i].first) ELSE c]]
<1>1. n \in Nat /\ DOMAIN sealed = 1 .. n /\ a \in CacheStates
  BY ChunkTypes DEF CacheInv
<1>2. ASSUME NEW i \in 1 .. n, NEW c \in CacheStates, meets(i), sealed[i].comp # 0
      PROVE  CacheOne(c, sealed[i].first) \in CacheStates
  <2>1. sealed[i].first \in Nat /\ Holding(sealed[i].first)
    BY <1>1, <1>2, ChunkTypes DEF Holding
  <2>. QED
    BY <2>1, CacheOneKeeps
<1>3. st \in [1 .. n -> [CacheStates -> CacheStates]]
  BY <1>2
<1>4. PICK g \in [0 .. n -> CacheStates] : g = [i \in 0 .. n |-> IF i = 0 THEN a ELSE st[i][g[i-1]]]
  <2>. HIDE DEF st, a
  <2>. QED
    BY <1>1, <1>3, RecursionHolds
<1>5. D(g)
  <2>1. ASSUME NEW i \in 0 .. n, i # 0
        PROVE  st[i][g[i-1]] = IF meets(i) /\ sealed[i].comp # 0
                               THEN CacheOne(g[i-1], sealed[i].first)
                               ELSE g[i-1]
    <3>1. i \in 1 .. n /\ i - 1 \in 0 .. n
      BY <1>1, <2>1
    <3>2. g[i-1] \in CacheStates
      BY <3>1
    <3>. QED
      BY <3>1, <3>2
  <2>. HIDE DEF st
  <2>. QED
    BY <1>4, <2>1
<1> DEFINE after == CHOOSE h : D(h)
<1>6. D(after)
  BY <1>5
<1>7. cacheKeys' = after[n].keys /\ cached' = after[n].cached
  BY DEF ReadLines
<1>. HIDE DEF after
<1>8. after[n] \in CacheStates
  <2> DEFINE G == {k \in Nat : k <= n => after[k] \in CacheStates}
  <2>1. 0 \in G
    BY <1>1, <1>6
  <2>2. ASSUME NEW k \in Nat, k \in G PROVE k + 1 \in G
    <3>1. SUFFICES ASSUME k + 1 <= n PROVE after[k + 1] \in CacheStates
      OBVIOUS
    <3>2. k + 1 \in 1 .. n /\ k + 1 \in 0 .. n /\ (k + 1) - 1 = k /\ after[k] \in CacheStates
      BY <1>1, <2>2, <3>1
    <3>3. after[k + 1] = IF meets(k + 1) /\ sealed[k + 1].comp # 0
                         THEN CacheOne(after[k], sealed[k + 1].first)
                         ELSE after[k]
      BY <1>6, <3>2
    <3>. QED
      BY <1>2, <3>2, <3>3
  <2>3. n \in G
    <3>. HIDE DEF G
    <3>. QED
      BY <1>1, <2>1, <2>2, Induct
  <2>. QED
    BY <1>1, <2>3
<1>9. after[n] = [keys |-> after[n].keys, cached |-> after[n].cached]
  BY <1>8 DEF CacheStates
<1>. QED
  BY <1>7, <1>8, <1>9

LEMMA CacheKept ==
  ASSUME RingType, CacheInv, cacheKeys' = cacheKeys, cached' \subseteq cached,
         \A f \in cached' : Holding(f) => Holding(f)'
  PROVE  CacheInv'
<1>1. /\ cacheKeys \in Seq(Nat) /\ Len(cacheKeys) <= CacheMax /\ cached \subseteq Nat
      /\ \A f \in cached : Holding(f) /\ \E k \in 1 .. Len(cacheKeys) : cacheKeys[k] = f
  BY DEF CacheInv, CacheStates
<1>2. [keys |-> cacheKeys', cached |-> cached'] \in [keys : Seq(Nat), cached : SUBSET Nat]
  BY <1>1
<1>3. \A f \in cached' : Holding(f)' /\ \E k \in 1 .. Len(cacheKeys') : cacheKeys'[k] = f
  BY <1>1
<1>. QED
  BY <1>1, <1>2, <1>3 DEF CacheInv, CacheStates

LEMMA CacheInit == Init => CacheInv
<1>1. <<>> \in Seq(Nat) /\ Len(<<>>) = 0
  OBVIOUS
<1>2. SUFFICES ASSUME Init PROVE CacheInv
  OBVIOUS
<1>3. cacheKeys \in Seq(Nat) /\ Len(cacheKeys) = 0 /\ cached = {}
  BY <1>1, <1>2, Zenon DEF Init
<1>4. 0 <= CacheMax
  BY SizesAssumption
<1>. QED
  BY <1>3, <1>4 DEF CacheInv, CacheStates

LEMMA CacheStep == RingType /\ BacklogInv /\ CacheInv /\ [Next]_vars => CacheInv'
<1>. SUFFICES ASSUME RingType, BacklogInv, CacheInv, [Next]_vars PROVE CacheInv'
  OBVIOUS
<1>1. ASSUME NEW size \in Nat, CutChunk(size), UNCHANGED cacheVars PROVE CacheInv'
  <2>1. \A f : Holding(f) => Holding(f)'
    BY <1>1, BacklogCut DEF Holding
  <2>. QED
    BY <1>1, <2>1, CacheKept DEF cacheVars
<1>2. CASE EvictHead
  <2> DEFINE n == Len(sealed)
  <2>1. /\ sealed # <<>> /\ sealed' = Tail(sealed)
        /\ cached' = cached \ {Head(sealed).first} /\ cacheKeys' = cacheKeys
    BY <1>2 DEF EvictHead, HeadCompressed, Uncache
  <2>2. n \in Nat \ {0} /\ DOMAIN sealed = 1 .. n
    BY <2>1, EmptySeq, ChunkTypes DEF RingType
  <2>3. /\ DOMAIN sealed' = 1 .. n - 1
        /\ \A i \in 1 .. n - 1 : sealed'[i] = sealed[i + 1]
        /\ Head(sealed) = sealed[1]
    BY <2>1, <2>2, HeadTailProperties, LenProperties DEF RingType
  <2>4. ASSUME NEW f \in cached', Holding(f) PROVE Holding(f)'
    <3>1. PICK i \in 1 .. n : sealed[i].first = f /\ sealed[i].comp # 0
      BY <2>2, <2>4 DEF Holding
    <3>2. i # 1
      BY <2>1, <2>3, <3>1
    <3>3. i - 1 \in 1 .. n - 1 /\ sealed'[i - 1] = sealed[i]
      BY <2>2, <2>3, <3>2
    <3>. QED
      BY <2>3, <3>1, <3>3 DEF Holding
  <2>5. cached' \subseteq cached
    BY <2>1
  <2>. QED
    BY <2>1, <2>4, <2>5, CacheKept
<1>3. ASSUME NEW size \in CompSizes, Compressed(size) PROVE CacheInv'
  <2>1. ASSUME NEW f, Holding(f) PROVE Holding(f)'
    <3>1. PICK i \in DOMAIN sealed : sealed[i].first = f /\ sealed[i].comp # 0
      BY <2>1 DEF Holding
    <3>2. sealed[i] \in Chunk /\ size # 0
      BY MeasureFacts, SizesAssumption
    <3>3. i \in DOMAIN sealed' /\ sealed'[i].first = f /\ sealed'[i].comp # 0
      BY <1>3, <3>1, <3>2 DEF Compressed, Chunk
    <3>. QED
      BY <3>3 DEF Holding
  <2>. QED
    BY <1>3, <2>1, CacheKept DEF Compressed, cacheVars
<1>4. ASSUME NEW from \in Nat, NEW to \in Nat, ReadLines(from, to) PROVE CacheInv'
  <2>1. [keys |-> cacheKeys', cached |-> cached'] \in CacheStates
    BY <1>4, CacheRead
  <2>2. sealed' = sealed
    BY <1>4 DEF ReadLines, ringVars
  <2>. QED
    BY <2>1, <2>2 DEF CacheInv, CacheStates, Holding
<1>5. ASSUME \/ (\E p \in Pieces : AppendBytes(p)) \/ AppendDone
             \/ (\E c \in firing : ReportInline(c)) \/ EvictDone
             \/ (\E n \in ByteCaps : SetMaxBytes(n)) \/ Receive \/ Report \/ Exit
             \/ CloseRing \/ CloseChannel \/ UNCHANGED vars
      PROVE  CacheInv'
  <2>1. UNCHANGED <<sealed, cacheKeys, cached>>
    BY <1>5 DEF AppendBytes, AppendDone, ReportInline, EvictDone, SetMaxBytes, Receive, Report,
       Exit, CloseRing, CloseChannel, ringVars, cacheVars, vars
  <2>. QED
    BY <2>1, CacheKept DEF Holding
<1>6. CASE SealToChannel
  BY <1>1, <1>6 DEF SealToChannel
<1>7. ASSUME NEW size \in CompSizes, SealInline(size) PROVE CacheInv'
  BY <1>1, <1>7, SizesAssumption DEF SealInline
<1>8. firstAvail .. End \subseteq Nat
  BY DEF End, ActiveLines, RingType
<1>. QED
  BY <1>2, <1>3, <1>4, <1>5, <1>6, <1>7, <1>8 DEF Next

LEMMA CacheMeans ==
  ASSUME RingType, CacheInv
  PROVE  /\ cached \subseteq Nat
         /\ cacheKeys \in Seq(Nat)
         /\ CacheCoherent
<1> DEFINE m == Len(cacheKeys)
           K == {cacheKeys[k] : k \in 1 .. m}
<1>1. /\ cacheKeys \in Seq(Nat) /\ m <= CacheMax /\ cached \subseteq Nat
      /\ \A f \in cached : Holding(f) /\ \E k \in 1 .. m : cacheKeys[k] = f
  BY DEF CacheInv, CacheStates
<1>2. m \in Nat /\ CacheMax \in Nat
  BY <1>1, LenProperties, SizesAssumption
<1>3. IsFiniteSet(1 .. m) /\ Cardinality(1 .. m) = m
  <2>. HIDE DEF m
  <2>1. /\ IsFiniteSet(1 .. m)
        /\ Cardinality(1 .. m) = IF 1 > m THEN 0 ELSE m - 1 + 1
    BY <1>2, FS_Interval
  <2>. QED
    BY <1>2, <2>1
<1>4. IsFiniteSet(K) /\ Cardinality(K) <= m
  <2> DEFINE I == 1 .. m
             g == [k \in I |-> cacheKeys[k]]
  <2>1. g \in [I -> K] /\ \A f \in K : \E k \in I : g[k] = f
    OBVIOUS
  <2>2. IsFiniteSet(I) /\ Cardinality(I) = m
    BY <1>3
  <2>. HIDE DEF I, g, K, m
  <2>3. g \in Surjection(I, K)
    BY <2>1 DEF Surjection
  <2>. QED
    BY <2>2, <2>3, FS_Surjection
<1>5. cached \subseteq K
  BY <1>1
<1>6. IsFiniteSet(cached) /\ Cardinality(cached) <= Cardinality(K)
  BY <1>4, <1>5, FS_Subset
<1>7. Cardinality(cached) \in Nat /\ Cardinality(K) \in Nat
  BY <1>4, <1>6, FS_CardinalityType
<1>8. Cardinality(cached) <= CacheMax
  BY <1>1, <1>2, <1>4, <1>6, <1>7
<1>. QED
  BY <1>1, <1>8 DEF CacheCoherent, Holding


-----------------------------------------------------------------------------
(* Reads *)

\* The lines of a terminal, the unfinished one at the end.
AllLines == IF tail > 0 THEN Append(log, tail) ELSE log

\* s is what stands from line `from` up to, not including, line `upto`.
ReadsUpto(s, from, upto) ==
  /\ s \in Seq(Nat)
  /\ Len(s) = IF upto > from THEN upto - from ELSE 0
  /\ \A k \in 1 .. Len(s) : s[k] = AllLines[from + k]

\* How far a read has come after one chunk more of L lines from f on.
LEMMA ReadsOn ==
  ASSUME NEW from \in Nat, NEW to \in Nat, from <= to, NEW f \in Nat, NEW L \in Nat,
         NEW lo \in Int, lo = (IF from > f THEN from - f ELSE 0) + 1,
         NEW hi \in Int, hi = IF to - f < L THEN to - f ELSE L,
         NEW m \in Int, m = IF lo <= hi THEN hi - lo + 1 ELSE 0,
         NEW d \in Nat, d = (IF to < f THEN to ELSE f),
         NEW e \in Nat, e = (IF to < f + L THEN to ELSE f + L),
         NEW n \in Int, n = IF d > from THEN d - from ELSE 0
  PROVE  /\ m > 0 => from + n = f + (lo - 1)
         /\ n + m = IF e > from THEN e - from ELSE 0
  OBVIOUS

\* One chunk more: lines stands from line f on.
LEMMA ReadsChunk ==
  ASSUME NEW lines \in Seq(Nat), NEW f \in Nat, NEW from \in Nat, NEW to \in Nat, from <= to,
         \A k \in 1 .. Len(lines) : lines[k] = AllLines[f + k],
         NEW s, ReadsUpto(s, from, IF to < f THEN to ELSE f)
  PROVE  ReadsUpto(s \o Slice(lines, f, from, to), from,
                   IF to < f + Len(lines) THEN to ELSE f + Len(lines))
<1> DEFINE L == Len(lines)
           lo == (IF from > f THEN from - f ELSE 0) + 1
           hi == IF to - f < L THEN to - f ELSE L
           x == Slice(lines, f, from, to)
           n == Len(s)
<1>1. L \in Nat /\ lo \in Nat \ {0} /\ hi \in Int /\ hi <= L
  BY LenProperties
<1>2. \A i \in lo .. hi : lines[i] \in Nat /\ lines[i] = AllLines[f + i]
  BY <1>1, ElementOfSeq
<1>3. x = SubSeq(lines, lo, hi)
  BY DEF Slice
<1>4. /\ x \in Seq(Nat)
      /\ Len(x) = IF lo <= hi THEN hi - lo + 1 ELSE 0
      /\ \A i \in 1 .. hi - lo + 1 : x[i] = lines[lo + i - 1]
  <2>. HIDE DEF lo, hi, x
  <2>. QED
    BY <1>1, <1>2, <1>3, SubSeqProperties
<1>5. \A i \in 1 .. Len(x) : x[i] = AllLines[f + (lo + i - 1)]
  <2>1. ASSUME NEW i \in 1 .. Len(x) PROVE x[i] = AllLines[f + (lo + i - 1)]
    <3>. HIDE DEF lo, hi, x
    <3>1. i \in 1 .. hi - lo + 1 /\ lo + i - 1 \in lo .. hi
      BY <1>1, <1>4
    <3>. QED
      BY <1>2, <1>4, <3>1
  <2>. QED
    BY <2>1
<1>6. s \in Seq(Nat) /\ n \in Nat /\ \A k \in 1 .. n : s[k] = AllLines[from + k]
  BY LenProperties DEF ReadsUpto
<1>7. n = IF (IF to < f THEN to ELSE f) > from THEN (IF to < f THEN to ELSE f) - from ELSE 0
  BY DEF ReadsUpto
<1>. HIDE DEF x
<1>8. /\ s \o x \in Seq(Nat) /\ Len(s \o x) = n + Len(x) /\ Len(x) \in Nat
      /\ \A k \in 1 .. n + Len(x) : (s \o x)[k] = IF k <= n THEN s[k] ELSE x[k - n]
  BY <1>4, <1>6, ConcatProperties, LenProperties
<1> DEFINE d == IF to < f THEN to ELSE f
           e == IF to < f + L THEN to ELSE f + L
           m == Len(x)
<1>9. /\ m > 0 => from + n = f + (lo - 1)
      /\ n + m = IF e > from THEN e - from ELSE 0
  <2>1. /\ lo \in Int /\ hi \in Int /\ m \in Int /\ n \in Int /\ L \in Nat
        /\ d \in Nat /\ e \in Nat
    BY <1>1, <1>6, <1>8
  <2>2. m = IF lo <= hi THEN hi - lo + 1 ELSE 0
    BY <1>4
  <2>3. n = IF d > from THEN d - from ELSE 0
    BY <1>7
  <2>4. /\ d = IF to < f THEN to ELSE f
        /\ e = IF to < f + L THEN to ELSE f + L
        /\ lo = (IF from > f THEN from - f ELSE 0) + 1
        /\ hi = IF to - f < L THEN to - f ELSE L
    OBVIOUS
  <2>. HIDE DEF d, e, m, n, lo, hi, L
  <2>. QED
    BY <2>1, <2>2, <2>3, <2>4, ReadsOn
<1>10. ASSUME NEW k \in 1 .. n + Len(x) PROVE (s \o x)[k] = AllLines[from + k]
  <2>1. CASE k <= n
    BY <1>6, <1>8, <2>1
  <2>2. CASE ~(k <= n)
    <3>1. k - n \in 1 .. Len(x) /\ Len(x) > 0
      BY <1>6, <1>8, <2>2
    <3>2. f + (lo + (k - n) - 1) = from + k
      <4>1. from + n = f + (lo - 1) /\ lo \in Int /\ n \in Int
        BY <1>1, <1>6, <1>9, <3>1
      <4>. HIDE DEF lo, n
      <4>. QED
        BY <4>1
    <3>3. x[k - n] = AllLines[f + (lo + (k - n) - 1)]
      BY <1>5, <3>1
    <3>. QED
      BY <1>8, <2>2, <3>2, <3>3
  <2>. QED
    BY <2>1, <2>2
<1>. QED
  BY <1>8, <1>9, <1>10 DEF ReadsUpto, x

LEMMA SliceType ==
  ASSUME NEW lines \in Seq(Nat), NEW f \in Nat, NEW from \in Nat, NEW to \in Nat
  PROVE  Slice(lines, f, from, to) \in Seq(Nat)
<1> DEFINE L == Len(lines)
           lo == (IF from > f THEN from - f ELSE 0) + 1
           hi == IF to - f < L THEN to - f ELSE L
<1>1. L \in Nat /\ lo \in Nat \ {0} /\ hi \in Int /\ hi <= L
  BY LenProperties
<1>2. \A i \in lo .. hi : lines[i] \in Nat
  BY <1>1, ElementOfSeq
<1>3. Slice(lines, f, from, to) = SubSeq(lines, lo, hi)
  BY DEF Slice
<1>. HIDE DEF lo, hi
<1>. QED
  BY <1>1, <1>2, <1>3, SubSeqProperties

\* The lines written stand in AllLines, and the unfinished one after them.
LEMMA AllLinesFacts ==
  ASSUME RingType
  PROVE  /\ AllLines \in Seq(Nat)
         /\ Len(AllLines) = IF tail > 0 THEN Len(log) + 1 ELSE Len(log)
         /\ Len(log) \in Nat
         /\ \A k \in 1 .. Len(log) : AllLines[k] = log[k]
         /\ tail > 0 => AllLines[Len(log) + 1] = tail
<1>1. log \in Seq(Nat) /\ tail \in Nat /\ Len(log) \in Nat
  BY LenProperties DEF RingType
<1>2. CASE tail > 0
  BY <1>1, <1>2, AppendProperties DEF AllLines
<1>3. CASE ~(tail > 0)
  BY <1>1, <1>3 DEF AllLines
<1>. QED
  BY <1>2, <1>3

LEMMA ActiveFacts ==
  ASSUME RingType, Numbered
  PROVE  /\ ActiveContent \in Seq(Nat)
         /\ activeFirst \in Nat
         /\ activeFirst + Len(ActiveContent) = Len(AllLines)
         /\ End = Len(AllLines)
         /\ \A k \in 1 .. Len(ActiveContent) : ActiveContent[k] = AllLines[activeFirst + k]
<1>1. /\ active \in Seq(Nat) /\ tail \in Nat /\ Len(active) \in Nat
      /\ activeFirst \in Nat
  BY LenProperties DEF RingType
<1>2. /\ activeFirst + Len(active) = Len(log)
      /\ \A k \in 1 .. Len(active) : active[k] = log[activeFirst + k]
  BY DEF Numbered, ActivePlaced, Holds
<1>3. ASSUME NEW k \in 1 .. Len(active) PROVE active[k] = AllLines[activeFirst + k]
  <2>1. activeFirst + k \in 1 .. Len(log)
    BY <1>1, <1>2
  <2>. QED
    BY <1>2, <2>1, AllLinesFacts
<1>4. CASE tail > 0
  <2>1. /\ ActiveContent \in Seq(Nat) /\ Len(ActiveContent) = Len(active) + 1
        /\ \A k \in 1 .. Len(active) : ActiveContent[k] = active[k]
        /\ ActiveContent[Len(active) + 1] = tail
    BY <1>1, <1>4, AppendProperties DEF ActiveContent
  <2>2. AllLines[activeFirst + (Len(active) + 1)] = tail
    BY <1>1, <1>2, <1>4, AllLinesFacts
  <2>3. End = Len(log) + 1 /\ activeFirst + Len(ActiveContent) = Len(log) + 1
    BY <1>1, <1>2, <1>4, <2>1, AllLinesFacts DEF End, ActiveLines
  <2>4. ASSUME NEW k \in 1 .. Len(ActiveContent)
        PROVE  ActiveContent[k] = AllLines[activeFirst + k]
    <3>1. k \in 1 .. Len(active) \/ k = Len(active) + 1
      BY <1>1, <2>1
    <3>. QED
      BY <1>3, <2>1, <2>2, <3>1
  <2>. QED
    BY <1>1, <1>4, <2>1, <2>3, <2>4, AllLinesFacts
<1>5. CASE ~(tail > 0)
  BY <1>1, <1>2, <1>3, <1>5, AllLinesFacts DEF ActiveContent, End, ActiveLines
<1>. QED
  BY <1>4, <1>5

\* Chunk after chunk, and the active one at the end, a read gives what was written.
LEMMA ReadsRight ==
  ASSUME RingType, Numbered,
         NEW from \in firstAvail .. End, NEW to \in firstAvail .. End, from <= to
  PROVE  ReadsUpto(LinesOf(from, to), from, to)
<1> DEFINE n == Len(sealed)
           E(k) == IF k = 0 THEN firstAvail ELSE After(k)
           Part(i) == Slice(sealed[i].lines, sealed[i].first, from, to)
           st == [i \in 1 .. n |-> [c \in Seq(Nat) |-> c \o Part(i)]]
           Is(g) == g = [i \in 0 .. n |-> IF i = 0 THEN <<>> ELSE g[i-1] \o Part(i)]
           upto == CHOOSE g : Is(g)
           Right(k) == ReadsUpto(upto[k], from, IF to < E(k) THEN to ELSE E(k))
           G == {k \in Nat : k <= n => Right(k)}
<1>1. n \in Nat /\ DOMAIN sealed = 1 .. n
  BY ChunkTypes
<1>2. firstAvail \in Nat /\ End \in Nat /\ from \in Nat /\ to \in Nat /\ firstAvail <= from
  BY ActiveFacts, AllLinesFacts, LenProperties DEF RingType
<1>3. \A i \in 1 .. n : Part(i) \in Seq(Nat)
  BY <1>1, <1>2, ChunkTypes, SliceType
<1>4. Is(upto)
  <2>1. st \in [1 .. n -> [Seq(Nat) -> Seq(Nat)]] /\ <<>> \in Seq(Nat)
    BY <1>3, EmptySeq, ConcatProperties
  <2>2. PICK g \in [0 .. n -> Seq(Nat)] :
               g = [i \in 0 .. n |-> IF i = 0 THEN <<>> ELSE st[i][g[i-1]]]
    <3> DEFINE S == Seq(Nat)
               a == <<>>
    <3>1. n \in Nat /\ a \in S /\ st \in [1 .. n -> [S -> S]]
      BY <1>1, <2>1
    <3>2. (\E g \in [0 .. n -> S] : g = [i \in 0 .. n |-> IF i = 0 THEN a ELSE st[i][g[i-1]]])
      <4>. HIDE DEF S, a, st, n
      <4>. QED
        BY <3>1, RecursionHolds
    <3>. HIDE DEF st, n
    <3>. QED
      BY <3>2, Zenon
  <2>3. ASSUME NEW i \in 0 .. n, i # 0 PROVE st[i][g[i-1]] = g[i-1] \o Part(i)
    <3>1. i \in 1 .. n /\ i - 1 \in 0 .. n
      BY <1>1, <2>3
    <3>2. g[i-1] \in Seq(Nat)
      BY <2>2, <3>1
    <3>. HIDE DEF Part, n
    <3>. QED
      BY <3>1, <3>2
  <2>4. Is(g)
    <3>. HIDE DEF Part, st, n
    <3>. QED
      BY <2>2, <2>3
  <2>. QED
    BY <2>4
<1>5. upto[0] = <<>> /\ \A i \in 1 .. n : upto[i] = upto[i-1] \o Part(i)
  <2>1. 0 \in 0 .. n /\ \A i \in 1 .. n : i \in 0 .. n /\ i # 0
    BY <1>1
  <2>. HIDE DEF upto, Part, n
  <2>2. upto = [i \in 0 .. n |-> IF i = 0 THEN <<>> ELSE upto[i-1] \o Part(i)]
    BY <1>4
  <2>3. \A i \in 0 .. n : upto[i] = IF i = 0 THEN <<>> ELSE upto[i-1] \o Part(i)
    BY <2>2, Zenon
  <2>. QED
    BY <2>1, <2>3, Zenon
<1>6. LinesOf(from, to) = upto[n] \o Slice(ActiveContent, activeFirst, from, to)
  BY DEF LinesOf
<1>7. 0 \in G
  <2>1. Len(<<>>) = 0 /\ <<>> \in Seq(Nat)
    BY EmptySeq
  <2>2. ~((IF to < firstAvail THEN to ELSE firstAvail) > from)
    BY <1>2
  <2>3. ReadsUpto(<<>>, from, IF to < firstAvail THEN to ELSE firstAvail)
    BY <2>1, <2>2 DEF ReadsUpto
  <2>4. upto[0] = <<>>
    BY <1>5
  <2>. HIDE DEF upto
  <2>. QED
    BY <2>3, <2>4
<1>8. ASSUME NEW k \in Nat, k \in G PROVE k + 1 \in G
  <2>1. SUFFICES ASSUME k + 1 <= n PROVE Right(k + 1)
    OBVIOUS
  <2> DEFINE x == k + 1
             lines == sealed[x].lines
             f == sealed[x].first
  <2>2. x \in DOMAIN sealed /\ lines \in Seq(Nat) /\ Len(lines) \in Nat /\ f \in Nat
    BY <1>1, <2>1, ChunkTypes
  <2>3. f = E(k)
    <3>1. k = 0 => f = firstAvail
      BY <2>2, NumberedFacts
    <3>2. k # 0 => x # 1 /\ x - 1 = k
      OBVIOUS
    <3>. QED
      BY <2>2, <3>1, <3>2, NumberedFacts
  <2>4. \A j \in 1 .. Len(lines) : lines[j] = AllLines[f + j]
    <3>1. /\ f + Len(lines) <= Len(log)
          /\ \A j \in 1 .. Len(lines) : lines[j] = log[f + j]
      BY <2>2, NumberedFacts DEF Holds
    <3>. HIDE DEF lines, f
    <3>. QED
      BY <2>2, <3>1, AllLinesFacts
  <2>5. ReadsUpto(upto[k], from, IF to < f THEN to ELSE f)
    <3>1. Right(k)
      BY <1>8, <2>1, <1>1
    <3>. HIDE DEF upto, f
    <3>. QED
      BY <2>3, <3>1
  <2>6. ReadsUpto(upto[k] \o Slice(lines, f, from, to), from,
                  IF to < f + Len(lines) THEN to ELSE f + Len(lines))
    <3>. HIDE DEF upto, lines, f
    <3>. QED
      BY <1>2, <2>2, <2>4, <2>5, ReadsChunk
  <2>7. upto[x] = upto[k] \o Slice(lines, f, from, to)
    <3>1. x \in 1 .. n /\ x - 1 = k
      BY <1>1, <2>1
    <3>. HIDE DEF upto
    <3>. QED
      BY <1>5, <3>1
  <2>8. E(x) = f + Len(lines)
    BY DEF After
  <2>. HIDE DEF upto, lines, f, E
  <2>. QED
    BY <2>6, <2>7, <2>8
<1>9. Right(n)
  <2>1. n \in G
    <3>. HIDE DEF G, n
    <3>. QED
      BY <1>1, <1>7, <1>8, Induct
  <2>2. n \in Nat
    BY <1>1
  <2>. HIDE DEF Right, n
  <2>. QED
    BY <2>1, <2>2
<1>10. E(n) = activeFirst
  <2>1. (n = 0) <=> (sealed = <<>>)
    BY EmptySeq, <1>1 DEF RingType
  <2>. QED
    BY <2>1 DEF Numbered, ActivePlaced
<1>11. ReadsUpto(upto[n], from, IF to < activeFirst THEN to ELSE activeFirst)
  <2>. HIDE DEF upto, n, E
  <2>. QED
    BY <1>9, <1>10
<1>12. ReadsUpto(LinesOf(from, to), from,
                 IF to < activeFirst + Len(ActiveContent) THEN to
                 ELSE activeFirst + Len(ActiveContent))
  <2>. HIDE DEF upto, n
  <2>. QED
    BY <1>2, <1>6, <1>11, ActiveFacts, ReadsChunk
<1>13. (IF to < activeFirst + Len(ActiveContent) THEN to
        ELSE activeFirst + Len(ActiveContent)) = to
  BY <1>2, ActiveFacts
<1>. QED
  BY <1>12, <1>13

LEMMA ReadsMean ==
  ASSUME RingType, Numbered
  PROVE  ReadsExact
<1>1. SUFFICES ASSUME NEW from \in firstAvail .. End, NEW to \in firstAvail .. End, from <= to
               PROVE  LinesOf(from, to) = SubSeq(AllLines, from + 1, to)
  BY DEF ReadsExact, AllLines
<1> DEFINE s == LinesOf(from, to)
           t == SubSeq(AllLines, from + 1, to)
<1>2. ReadsUpto(s, from, to)
  BY <1>1, ReadsRight
<1>3. from \in Nat /\ to \in Nat /\ to <= Len(AllLines) /\ AllLines \in Seq(Nat)
      /\ Len(AllLines) \in Nat
  BY <1>1, ActiveFacts, AllLinesFacts, LenProperties DEF RingType
<1>4. s \in Seq(Nat) /\ Len(s) = to - from /\ \A k \in 1 .. Len(s) : s[k] = AllLines[from + k]
  <2>. HIDE DEF s
  <2>. QED
    BY <1>1, <1>2, <1>3 DEF ReadsUpto
<1>5. \A i \in from + 1 .. to : AllLines[i] \in Nat
  BY <1>3, ElementOfSeq
<1>6. /\ t \in Seq(Nat)
      /\ Len(t) = to - from
      /\ \A i \in 1 .. to - from : t[i] = AllLines[from + i]
  <2>1. /\ t \in Seq(Nat)
        /\ Len(t) = IF from + 1 <= to THEN to - (from + 1) + 1 ELSE 0
        /\ \A i \in 1 .. to - (from + 1) + 1 : t[i] = AllLines[from + 1 + i - 1]
    <3>1. from + 1 \in Int /\ to \in Int
      BY <1>3
    <3>. QED
      BY <1>5, <3>1, SubSeqProperties
  <2>2. to - (from + 1) + 1 = to - from
    BY <1>3
  <2>3. Len(t) = to - from
    <3>. HIDE DEF t
    <3>. QED
      BY <1>1, <1>3, <2>1, <2>2
  <2>4. ASSUME NEW i \in 1 .. to - from PROVE t[i] = AllLines[from + i]
    <3>1. i \in 1 .. to - (from + 1) + 1 /\ from + 1 + i - 1 = from + i
      BY <1>3, <2>2
    <3>. HIDE DEF t
    <3>. QED
      BY <2>1, <3>1
  <2>. QED
    BY <2>1, <2>3, <2>4
<1>7. s = t
  <2>. HIDE DEF s, t
  <2>1. s \in Seq(Nat) /\ t \in Seq(Nat) /\ Len(s) = Len(t)
    BY <1>4, <1>6
  <2>2. \A k \in 1 .. Len(s) : s[k] = t[k]
    BY <1>4, <1>6
  <2>. QED
    BY <2>1, <2>2, SeqEqual
<1>. QED
  BY <1>7

-----------------------------------------------------------------------------
(* Theorems *)

\* The ring's variables keep their types, for all sizes and capacities.
THEOREM RingTypeCorrect == Spec => []RingType
<1>1. Init => RingType
  BY RingTypeInit
<1>2. RingType /\ [Next]_vars => RingType'
  BY RingTypeStep
<1>3. QED
  BY <1>1, <1>2, PTL DEF Spec

\* Line numbers are contiguous and every chunk holds the lines written under
\* its numbers, after any sequence of writes, cuts, compressions, evictions.
THEOREM NumberedHolds == Spec => []Numbered
<1>1. Init => Numbered
  BY NumberedInit
<1>2. RingType /\ Numbered /\ [Next]_vars => Numbered'
  BY NumberedStep
<1>3. QED
  BY <1>1, <1>2, RingTypeCorrect, PTL DEF Spec

\* No Append can meet the closed channel.
THEOREM NoSendOnClosedHolds == Spec => []NoSendOnClosed
<1>1. Init => LockInv
  BY DEF Init, LockInv
<1>2. LockInv /\ [Next]_vars => LockInv'
  BY LockStep
<1>3. LockInv => NoSendOnClosed
  BY DEF LockInv, NoSendOnClosed
<1>4. QED
  BY <1>1, <1>2, <1>3, PTL DEF Spec

\* The backlog is bounded, for every capacity of the channel: a slow compressor
\* makes writers compress, it does not make them pile up raw chunks.
THEOREM RawBoundedHolds == Spec => []RawBounded
<1>1. Init => BacklogInv
  BY BacklogInit
<1>2. RingType /\ BacklogInv /\ [Next]_vars => BacklogInv'
  BY BacklogStep
<1>3. RingType /\ BacklogInv => RawBounded
  BY BacklogBounds
<1>4. QED
  BY <1>1, <1>2, <1>3, RingTypeCorrect, PTL DEF Spec

\* The ring's books: a read returns the lines written, the byte count is what the ring
\* holds, the caps hold outside the lock, the backlog is bounded and the cache holds no
\* evicted chunk, for all sizes, caps and capacities and all that is written.
THEOREM BooksHold == Spec => []BooksExact
<1>1. Init => BacklogInv /\ PendingInv /\ BytesInv /\ CapsInv /\ CacheInv
  BY BacklogInit, PendingInit, BytesInit, CapsInit, CacheInit
<1>2. RingType /\ BacklogInv /\ [Next]_vars => BacklogInv'
  BY BacklogStep
<1>3. RingType /\ BacklogInv /\ PendingInv /\ [Next]_vars => PendingInv'
  BY PendingStep
<1>4. RingType /\ BacklogInv /\ PendingInv /\ BytesInv /\ [Next]_vars => BytesInv'
  BY BytesStep
<1>5. RingType /\ Numbered /\ BytesInv /\ CapsInv /\ [Next]_vars => CapsInv'
  BY CapsStep
<1>6. RingType /\ BacklogInv /\ CacheInv /\ [Next]_vars => CacheInv'
  BY CacheStep
<1>7. RingType /\ Numbered /\ BacklogInv /\ BytesInv /\ CapsInv /\ CacheInv => BooksExact
  <2>. SUFFICES ASSUME RingType, Numbered, BacklogInv, BytesInv, CapsInv, CacheInv
                PROVE  BooksExact
    OBVIOUS
  <2>1. ReadsExact /\ BytesAccounted /\ RawBounded /\ CacheCoherent
    BY ReadsMean, BytesInvMeans, BacklogBounds, CacheMeans
  <2>2. CapsHold
    BY DEF CapsInv, CapsHold
  <2>. QED
    BY <2>1, <2>2 DEF BooksExact
<1>. QED
  BY <1>1, <1>2, <1>3, <1>4, <1>5, <1>6, <1>7, RingTypeCorrect, NumberedHolds, PTL DEF Spec

\* The types of all of the ring's variables. That the byte count is an integer and the
\* cache's keys are line numbers rests on the books.
THEOREM TypeCorrect == Spec => []TypeOK
<1>1. Init => BacklogInv /\ PendingInv /\ BytesInv /\ CacheInv
  BY BacklogInit, PendingInit, BytesInit, CacheInit
<1>2. RingType /\ BacklogInv /\ [Next]_vars => BacklogInv'
  BY BacklogStep
<1>3. RingType /\ BacklogInv /\ PendingInv /\ [Next]_vars => PendingInv'
  BY PendingStep
<1>4. RingType /\ BacklogInv /\ PendingInv /\ BytesInv /\ [Next]_vars => BytesInv'
  BY BytesStep
<1>5. RingType /\ BacklogInv /\ CacheInv /\ [Next]_vars => CacheInv'
  BY CacheStep
<1>6. RingType /\ BytesInv /\ CacheInv => TypeOK
  <2>. SUFFICES ASSUME RingType, BytesInv, CacheInv PROVE TypeOK
    OBVIOUS
  <2>1. totalBytes \in Int
    BY MeasureFacts DEF BytesInv
  <2>. QED
    BY <2>1, CacheMeans DEF TypeOK
<1>. QED
  BY <1>1, <1>2, <1>3, <1>4, <1>5, <1>6, RingTypeCorrect, PTL DEF Spec

\* The ring implements the promise of the Buffer interface: lines are only
\* added at the end and dropped at the beginning, and none after Close.
THEOREM PromiseKept == Spec => PromiseHolds
<1>1. Init => Promise!Init
  BY DEF Init, Promise!Init
<1>2. RingType /\ Numbered /\ [Next]_vars => [Promise!Next]_(Promise!vars)
  BY PromiseStep
<1>3. QED
  BY <1>1, <1>2, RingTypeCorrect, NumberedHolds, PTL DEF Spec, PromiseHolds, Promise!Spec
=============================================================================
