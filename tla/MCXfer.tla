------------------------------- MODULE MCXfer --------------------------------
(* Two uploads, of one file or of two, and two calls of XferClose on one handle. *)
EXTENDS Xfer

MCBatches == {<<"a">>, <<"a", "b">>}
=============================================================================
