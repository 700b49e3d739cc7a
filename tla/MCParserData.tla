---------------------------- MODULE MCParserData ----------------------------
(* Three files of every size from 0 to 2 for ParserData. *)
EXTENDS ParserData

F(j, size) ==
    [file |-> j, nFileSize |-> size, sent |-> HeaderSize + size,
     counts |-> [k \in Counter |-> j]]

AllSizes == {<<F(1, x), F(2, y), F(3, z)>> : x \in 0..2, y \in 0..2, z \in 0..2}
=============================================================================
