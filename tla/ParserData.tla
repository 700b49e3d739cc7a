----------------------------- MODULE ParserData -----------------------------
(***************************************************************************)
(* CJokeDSEDlg's receiver on CSocketServer: OnRecv, ParserData, GetFile    *)
(* and OnDisConnect for one CFileClient.  It is what class session was     *)
(* rewritten from; the compiled program still contains it, but no thread   *)
(* calls it.  A client is served by one thread, so a whole OnRecv is one   *)
(* step; the counts and the lock it shares with the dialog are Session's   *)
(* subject, and the disk does not fail here.                               *)
(*                                                                         *)
(* Definitions marked "Mistake" are ways the definition after them could   *)
(* have been written wrong.                                                *)
(***************************************************************************)
EXTENDS Frames, SequencesExt

CONSTANTS Scripts,   \* the frame sequences the sender may send
          MaxRead    \* the size of OnRecv's buffer, in cells

ASSUME ParserDataAssumption == Scripts \subseteq Seq(Frame) /\ MaxRead \in Nat \ {0}

VARIABLES
    script,        \* what is sent (never changes)
    received,      \* cells read so far
    connected,
    client,        \* the CFileClient
    \* history
    clean,         \* every read so far ended inside or after a file's content
    dropped        \* cells lost by ParserData

vars == <<script, received, connected, client, dropped, clean>>

Row == [frame : Header, name : Seq(Cells), nFileSize : Nat, nStatus : BOOLEAN, disk : Seq(Cells)]

Client == [pRecvBuffer : Seq(Cells), nOffset : Nat, nFileSize : Nat, nSavedLength : Nat,
           rows : Seq(Row)]

Stream == FlattenSeq([k \in DOMAIN script |-> FrameCells(script[k])])

Init ==
    /\ script \in Scripts /\ received = 0 /\ connected = TRUE
    /\ client = [pRecvBuffer |-> <<>>, nOffset |-> 0, nFileSize |-> 0, nSavedLength |-> 0,
                 rows |-> <<>>]
    /\ clean = TRUE /\ dropped = 0

-----------------------------------------------------------------------------
(* The parser, as functions of the client. *)

nDataLength(c) == Len(c.pRecvBuffer)

\* FileSave.Close and what goes with it, once the file is complete.
CloseIfSaved(c) ==
    IF c.nSavedLength # c.nFileSize THEN c
    ELSE [c EXCEPT !.nSavedLength = 0, !.nFileSize = 0, !.rows[Len(c.rows)].nStatus = TRUE]

\* FileSave.Write of the n cells at offset o of the buffer, to the last row.
Save(c, o, n) ==
    [c EXCEPT !.rows[Len(c.rows)].disk = @ \o SubSeq(c.pRecvBuffer, o + 1, o + n),
              !.nOffset = o + n, !.nSavedLength = @ + n]

\* GetFile's loop and if conditions, as in session.
HeaderReady(c) ==
    /\ nDataLength(c) - c.nOffset >= HeadCells
    /\ ValidHeader(c.pRecvBuffer, c.nOffset)
    /\ nDataLength(c) > HeaderSize + c.nOffset

\* Mistake: all that is left, into the next frame if it is there.
AllThatIsLeft(c, o, size) == nDataLength(c) - o

\* nToSave: what is left in the buffer, up to what the file still lacks.
ToSave(c, o, size) == Smaller(nDataLength(c) - o, size)

\* One round of GetFile's loop.
OneFile(c) ==
    LET header == c.pRecvBuffer[c.nOffset + 1].frame
        o == c.nOffset + HeaderSize
        row == [frame |-> header, name |-> SubSeq(c.pRecvBuffer, c.nOffset + HeadCells + 1, o),
                nFileSize |-> header.nFileSize, nStatus |-> FALSE, disk |-> <<>>]
        new == [c EXCEPT !.rows = Append(@, row), !.nFileSize = header.nFileSize,
                         !.nSavedLength = 0]
    IN  CloseIfSaved(Save(new, o, ToSave(new, o, header.nFileSize)))

GetFile[c \in Client] == IF HeaderReady(c) THEN GetFile[OneFile(c)] ELSE c

\* The file under way, if there is one, then the frames behind it.
Parsed(c) ==
    IF c.nFileSize = 0 THEN GetFile[c]
    ELSE GetFile[CloseIfSaved(Save(c, 0, ToSave(c, 0, c.nFileSize - c.nSavedLength)))]

\* The compaction.  nOffset has been taken off nDataLength already, and is
\* compared with it and taken off again: the last nOffset cells are not kept.
Kept(c) == SubSeq(c.pRecvBuffer, c.nOffset + 1, nDataLength(c) - c.nOffset)

Compacted(c) == [c EXCEPT !.pRecvBuffer = Kept(c), !.nOffset = 0]

\* ParserData.
ParserData(c) ==
    LET after == Parsed(c)
    IN  /\ client' = Compacted(after)
        /\ dropped' = dropped + nDataLength(after) - after.nOffset - Len(Kept(after))

-----------------------------------------------------------------------------
\* Cell n of the stream is content, or the last of a frame that has some.
EndsInContent(n) == Stream[n].part = "body"

\* CSockClient::Recv appends what was read with MemMerge.
OnRecv ==
    /\ connected
    /\ \E n \in 1..Smaller(MaxRead, Len(Stream) - received) :
          /\ received' = received + n
          /\ clean' = (clean /\ EndsInContent(received + n))
          /\ ParserData([client EXCEPT !.pRecvBuffer =
                            @ \o SubSeq(Stream, received + 1, received + n)])
    /\ UNCHANGED <<script, connected>>

\* OnDisConnect parses what is left once more.
OnDisConnect ==
    /\ connected /\ received = Len(Stream)
    /\ connected' = FALSE
    /\ IF nDataLength(client) > 0 THEN ParserData(client) ELSE UNCHANGED <<client, dropped>>
    /\ UNCHANGED <<script, received, clean>>

Next == OnRecv \/ OnDisConnect

Spec == Init /\ [][Next]_vars

-----------------------------------------------------------------------------
\* Row k was saved under its name with its content.
Whole(k) ==
    LET row == client.rows[k]
    IN  /\ row.disk = Content(row.frame)
        /\ row.name = SubSeq(HeadOf(row.frame), HeadCells + 1, HeaderSize)

(***************************************************************************)
(* LostOnlyByCuts.  ParserData takes nOffset off nDataLength twice, but    *)
(* nothing comes of it while every read ends inside or after some content. *)
(* Then, and whenever no cell was lost, a row marked true holds its file   *)
(* under its name, and in the end the files are saved in order, but for    *)
(* empty ones at the end of a stream that was cut otherwise.               *)
(***************************************************************************)
LostOnlyByCuts ==
    /\ clean => dropped = 0
    /\ dropped = 0 => \A k \in DOMAIN client.rows : client.rows[k].nStatus => Whole(k)
    /\ dropped = 0 /\ ~connected =>
          /\ \A k \in DOMAIN client.rows : client.rows[k].frame = HeaderOf(script[k])
          /\ \A k \in DOMAIN script \ DOMAIN client.rows : ~clean /\ script[k].nFileSize = 0
          /\ clean => \A k \in DOMAIN client.rows : client.rows[k].nStatus
=============================================================================
