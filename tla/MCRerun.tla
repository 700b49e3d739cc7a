------------------------------ MODULE MCRerun ------------------------------
(* A small instance of Rerun. *)
EXTENDS Rerun

\* The second copy finds more files than the first.
More == <<1, 2>>
=============================================================================
