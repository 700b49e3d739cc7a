--------------------------- MODULE MCSocketServer ---------------------------
(* A small instance of SocketServer. *)
EXTENDS SocketServer

First  == CHOOSE c \in Clients : TRUE
Second == CHOOSE c \in Clients \ {First} : TRUE

\* One client that sends twice, one once, and one that only closes.
TwoOneNone == [c \in Clients |-> IF c = First THEN 2 ELSE IF c = Second THEN 1 ELSE 0]
=============================================================================
