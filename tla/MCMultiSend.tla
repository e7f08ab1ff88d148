----------------------------- MODULE MCMultiSend -----------------------------
(* One broadcast to three terminals, or two to the same one. *)
EXTENDS MultiSend

CONSTANTS j1, j2, a, b, c

MCJobs == {j1, j2}
MCTerminals == {a, b, c}

To(ts, s) == [targets |-> ts, seq |-> s]

MCRequests ==
  { [j \in MCJobs |-> IF j = j1 THEN To(<<a, b, c>>, s) ELSE To(<<>>, s)] : s \in BOOLEAN }
    \cup { [j \in MCJobs |-> To(<<a>>, FALSE)] }
=============================================================================
