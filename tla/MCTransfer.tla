----------------------------- MODULE MCTransfer -----------------------------
(* A small instance of Transfer. *)
EXTENDS Transfer

\* An empty file and one of two packets: the threads can take them in any way.
EmptyAndTwo == <<0, 2>>
=============================================================================
