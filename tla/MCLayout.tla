------------------------------- MODULE MCLayout -------------------------------
(* Values for TLC: a mouse inside the frame, on an edge and outside of it. *)
EXTENDS Layout

MCMice == {<<0, 1>>, <<5, 5>>}
=============================================================================
