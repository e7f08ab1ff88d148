--------------------------- MODULE MCTermLifecycle ---------------------------
(* TermLifecycle with two tabs, of the same session or of two. *)
EXTENDS TermLifecycle

CONSTANTS s1, s2, t1, t2

MCSessions == {s1, s2}
MCTerms == {t1, t2}
=============================================================================
