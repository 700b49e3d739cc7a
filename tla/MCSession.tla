----------------------------- MODULE MCSession -----------------------------
(* Small instances of Session for TLC. *)
EXTENDS Session

F(j, size, body) ==
    [file |-> j, nFileSize |-> size, sent |-> HeaderSize + body,
     counts |-> [k \in Counter |-> IF k = "Decrypt" THEN j ELSE 2]]

First == CHOOSE c \in Conns : TRUE

\* One connection, three files of every size from 0 to 2, all sent whole.
OneWhole ==
    {[c \in Conns |-> <<F(1, x, x), F(2, y, y), F(3, z, z)>>] :
        x \in 0..2, y \in 0..2, z \in 0..2}

\* One connection whose second file is sent short, down to a part of the header.
OneShort == {[c \in Conns |-> <<F(1, 1, 1), F(2, 2, s), F(4, 1, 1)>>] : s \in {0 - HeaderSize + 1, 0, 1}}

OneAny == OneWhole \cup OneShort

\* Two connections, the sizes of their first files chosen independently.
TwoWhole ==
    {[c \in Conns |-> IF c = First THEN <<F(1, x, x), F(4, 1, 1)>> ELSE <<F(3, y, y)>>] :
        x \in 0..2, y \in {0, 2}}

\* Two connections for the runs with failing disks.
TwoDisk ==
    {[c \in Conns |-> IF c = First THEN <<F(1, x, x), F(4, 1, 1)>> ELSE <<F(3, 1, 1)>>] :
        x \in {0, 2}}

\* Two connections, one of which sends less or more than it announces, down to a
\* part of the header.
TwoShort ==
    {[c \in Conns |-> IF c = First THEN <<F(1, 1, 1), F(2, 2, s), F(4, 1, 1)>>
                               ELSE <<F(3, 2, 2)>>] :
        s \in {0 - HeaderSize + 1, 0, 1, 3}}

\* Every file sent whole, or one of them not.
TwoAny == TwoWhole \cup TwoShort
=============================================================================
