---------------------------- MODULE MCScrollback ----------------------------
(* A chunk of 3 bytes, a forced split at 4, lines of different lengths.     *)
EXTENDS Scrollback

\* "\nab\nc", "abc", "ab\n"
MCPieces ==
  { [lines |-> <<1, 3>>, rest |-> 1],
    [lines |-> <<>>,     rest |-> 4],
    [lines |-> <<2>>,    rest |-> 0] }
=============================================================================
