---------------------------- MODULE ScrollbackLog ----------------------------
(***************************************************************************)
(* What scrollback.Buffer promises (internal/scrollback/buffer.go:50-66):  *)
(* lines numbered since creation, never renumbered or rewritten, a         *)
(* retained window that loses lines only at its old end, and nothing       *)
(* written after Close. A line is represented by its length in bytes.      *)
(***************************************************************************)
EXTENDS Naturals, Sequences

CONSTANT ForcedSplit   \* a line this long is complete without its newline

VARIABLES
  log,     \* every line completed since creation
  part,    \* bytes of the line not completed yet
  first,   \* the first retained line: lines 0 .. first-1 are gone
  closed   \* Close has been called

vars == <<log, part, first, closed>>

Init ==
  /\ log = <<>>
  /\ part = 0
  /\ first = 0
  /\ closed = FALSE

\* Bytes are added to what is there already, and never after Close: the partial
\* line grows, or becomes the start of the next line.
Write ==
  /\ ~closed
  /\ Len(log) <= Len(log')
  /\ \A i \in 1 .. Len(log) : log'[i] = log[i]
  /\ IF log' = log THEN part' > part ELSE log'[Len(log) + 1] > part
  /\ UNCHANGED <<first, closed>>

\* A line without a newline is cut.
Split ==
  /\ part >= ForcedSplit
  /\ log' = Append(log, part)
  /\ part' = 0
  /\ UNCHANGED <<first, closed>>

\* The oldest lines are dropped; they were complete.
Drop ==
  /\ first' > first
  /\ first' <= Len(log)
  /\ UNCHANGED <<log, part, closed>>

Close ==
  /\ ~closed
  /\ closed' = TRUE
  /\ UNCHANGED <<log, part, first>>

Next == Write \/ Split \/ Drop \/ Close

Spec == Init /\ [][Next]_vars
=============================================================================
