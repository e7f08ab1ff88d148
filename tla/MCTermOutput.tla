----------------------------- MODULE MCTermOutput -----------------------------
(* TermOutput with two chunks on stdout and one on stderr. *)
EXTENDS TermOutput

CONSTANTS stdout, stderr

MCStreams == {stdout, stderr}

MCMaxChunks == [s \in MCStreams |-> IF s = stdout THEN 2 ELSE 1]
=============================================================================
