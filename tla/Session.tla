------------------------------ MODULE Session ------------------------------
(***************************************************************************)
(* The receiving side of the copy: CJokeDSEDlg::do_accept, class session   *)
(* (do_read, Parser, GetFile, CloseFile) and the list half of OnTimer.     *)
(*                                                                         *)
(* Every connection has a session object, and all sessions are served by   *)
(* the one thread that runs io_context::run (CJokeDSEDlg::Start).  That    *)
(* thread takes one completion at a time; pc says where it is inside the   *)
(* completion handler, cur which session the handler belongs to.  The      *)
(* handler is cut where it enters or leaves a critical section, because    *)
(* the UI thread (OnTimer, every 50 ms) can run there.                     *)
(*                                                                         *)
(* Definitions marked "Mistake" are not part of Next.  Each is a way the   *)
(* definition after it could have been written wrong, and stands in for it *)
(* to confirm that a property tells the two apart.                         *)
(***************************************************************************)
EXTENDS Frames, FiniteSets, SequencesExt

CONSTANTS Conns,          \* the connections senders make
          Scripts,        \* the frame sequences the senders may have sent
          MaxRead,        \* session::max_length, in cells
          MaxFaults,      \* bound: sessions that may meet disk errors
          MaxResets,      \* bound: connections a sender may reset
          MaxBadAccepts   \* bound: accepts that complete with an error

ASSUME SessionAssumption ==
    /\ IsFiniteSet(Conns)
    /\ Scripts \subseteq [Conns -> Seq(Frame)]
    /\ MaxRead \in Nat \ {0}
    /\ MaxFaults \in Nat
    /\ MaxResets \in Nat
    /\ MaxBadAccepts \in Nat

VARIABLES
    \* the connections, seen from this end
    script,        \* the frames sent on each connection (never changes)
    toSend,        \* those its sender has still to send
    wire,          \* cells sent and not yet read
    link,          \* "pending" | "open" | "closed": the session's life
    \* the session objects
    pBuffer,       \* pBuffer[0 .. nDataLength)
    nFileSize,     \* announced size of the file being received, 0 if none
    nSavedLength,  \* cells of it written so far
    pFileItem,     \* its row, an index of items (0 = nullptr)
    FileSave,      \* the open CFile, an index of disk (0 = not open)
    \* the io thread
    pc,            \* where the handler stands
    cur,           \* the session it serves
    ec,            \* the completion's error code is set
    nOffset,       \* Parser's local offset into pBuffer
    \* the dialog
    items,         \* every FileItem ever made
    disk,          \* the destination file of each item
    m_vecFileTemp, \* items not yet taken by OnTimer
    m_vecFileList, \* items the list control shows
    m_nSavedFiles,
    m_nCounts,     \* m_nFoundFiles, m_nSkippedFiles, m_nDecrypedFiles
    m_nClients,
    m_nExceptions,
    \* history, for the properties and the bounds only
    faulted,       \* sessions that met a disk error
    lost,          \* connections that were reset
    badAccepts     \* accepts that failed

netVars  == <<script, toSend, wire, link>>
sessVars == <<pBuffer, nFileSize, nSavedLength, pFileItem, FileSave>>
ioVars   == <<pc, cur, ec, nOffset>>
fileVars == <<items, disk>>
listVars == <<m_vecFileTemp, m_vecFileList>>
dlgVars  == <<m_nSavedFiles, m_nCounts, m_nClients, m_nExceptions>>
history  == <<faulted, lost, badAccepts>>
vars == <<netVars, sessVars, ioVars, fileVars, listVars, dlgVars, history>>

-----------------------------------------------------------------------------
Init ==
    /\ script \in Scripts
    /\ toSend = script
    /\ wire = [c \in Conns |-> <<>>]
    /\ link = [c \in Conns |-> "pending"]
    /\ pBuffer = [c \in Conns |-> <<>>]
    /\ nFileSize = [c \in Conns |-> 0]
    /\ nSavedLength = [c \in Conns |-> 0]
    /\ pFileItem = [c \in Conns |-> 0]
    /\ FileSave = [c \in Conns |-> 0]
    /\ pc = "idle" /\ cur \in Conns /\ ec = FALSE /\ nOffset = 0
    /\ items = <<>> /\ disk = <<>>
    /\ m_vecFileTemp = <<>> /\ m_vecFileList = <<>>
    /\ m_nSavedFiles = 0
    /\ m_nCounts = [k \in Counter |-> 0]
    /\ m_nClients = 0 /\ m_nExceptions = 0
    /\ faulted = {} /\ lost = {} /\ badAccepts = 0

nDataLength(c) == Len(pBuffer[c])

-----------------------------------------------------------------------------
(* Completions the io thread picks up between two handlers. *)

OneMoreClient == m_nClients' = m_nClients + 1 /\ UNCHANGED <<m_nSavedFiles, m_nCounts, m_nExceptions>>

\* Mistake: the session is made and not started, so that nothing holds it.
NotStarted(c) ==
    /\ pc = "idle" /\ link[c] = "pending"
    /\ OneMoreClient
    /\ link' = [link EXCEPT ![c] = "closed"]
    /\ UNCHANGED <<script, toSend, wire, sessVars, ioVars, fileVars, listVars, history>>

\* do_accept's handler on success: count the client, make the session, read.
Accept(c) ==
    /\ pc = "idle" /\ link[c] = "pending"
    /\ OneMoreClient
    /\ link' = [link EXCEPT ![c] = "open"]
    /\ UNCHANGED <<script, toSend, wire, sessVars, ioVars, fileVars, listVars, history>>

\* do_accept's handler when the accept failed: the client is counted all the same.
AcceptError ==
    /\ pc = "idle" /\ badAccepts < MaxBadAccepts
    /\ OneMoreClient
    /\ badAccepts' = badAccepts + 1
    /\ UNCHANGED <<netVars, sessVars, ioVars, fileVars, listVars, faulted, lost>>

\* do_read's handler up to the call of Parser: MemMerge appends what was read,
\* which is any number of the cells that have arrived, up to max_length.
Read(c) ==
    /\ pc = "idle" /\ link[c] = "open"
    /\ \E n \in 1..Smaller(MaxRead, Len(wire[c])) :
          /\ pBuffer' = [pBuffer EXCEPT ![c] = @ \o SubSeq(wire[c], 1, n)]
          /\ wire' = [wire EXCEPT ![c] = SubSeq(@, n + 1, Len(@))]
    /\ pc' = "parser" /\ cur' = c /\ ec' = FALSE /\ nOffset' = 0
    /\ UNCHANGED <<script, toSend, link, nFileSize, nSavedLength, pFileItem, FileSave,
                   fileVars, listVars, dlgVars, history>>

\* The same handler when the peer has closed: MemMerge gets length 0 and
\* changes nothing, but Parser runs once more.
ReadEnd(c) ==
    /\ pc = "idle" /\ link[c] = "open" /\ wire[c] = <<>> /\ toSend[c] = <<>>
    /\ pc' = "parser" /\ cur' = c /\ ec' = TRUE /\ nOffset' = 0
    /\ UNCHANGED <<netVars, sessVars, fileVars, listVars, dlgVars, history>>

\* The sender puts its next file on the connection (JokeAssist's SendFile).
PeerSend(c) ==
    /\ toSend[c] # <<>>
    /\ wire' = [wire EXCEPT ![c] = @ \o FrameCells(Head(toSend[c]))]
    /\ toSend' = [toSend EXCEPT ![c] = Tail(@)]
    /\ UNCHANGED <<script, link, sessVars, ioVars, fileVars, listVars, dlgVars, history>>

\* The sender's process dies: what was not read is lost.
PeerReset(c) ==
    /\ link[c] = "open" /\ Cardinality(lost) < MaxResets
    /\ wire' = [wire EXCEPT ![c] = <<>>]
    /\ toSend' = [toSend EXCEPT ![c] = <<>>]
    /\ lost' = lost \cup {c}
    /\ UNCHANGED <<script, link, sessVars, ioVars, fileVars, listVars, dlgVars, faulted,
                   badAccepts>>

-----------------------------------------------------------------------------
(* session::Parser, session::GetFile, session::CloseFile.  They all work for *)
(* session cur.                                                              *)

\* A step of the handler leaves the connections and the session it serves alone.
Inside(from, to) == pc = from /\ pc' = to /\ UNCHANGED <<netVars, cur, ec>>

\* FileSave.Write: append cells to the open file, and the sizes that follow it.
Write(cells, saved) ==
    /\ FileSave[cur] # 0
    /\ disk' = [disk EXCEPT ![FileSave[cur]] = @ \o cells]
    /\ nSavedLength' = [nSavedLength EXCEPT ![cur] = saved]
    /\ items' = [items EXCEPT ![pFileItem[cur]].nRecved = saved]

DiskMayFail == cur \in faulted \/ Cardinality(faulted) < MaxFaults

DiskFails ==
    /\ faulted' = faulted \cup {cur}
    /\ UNCHANGED <<lost, badAccepts>>

\* FileSave.Write throws: the file was never opened, or the disk takes only
\* the first k cells.  The handler's state stays as it is.
WriteThrows(cells) ==
    /\ \/ FileSave[cur] = 0 /\ UNCHANGED disk
       \/ /\ FileSave[cur] # 0 /\ DiskMayFail
          /\ \E k \in 0..(Len(cells) - 1) :
                disk' = [disk EXCEPT ![FileSave[cur]] = @ \o SubSeq(cells, 1, k)]
    /\ DiskFails
    /\ UNCHANGED <<sessVars, nOffset, items, listVars, dlgVars>>

\* Mistake: the whole buffer, whatever the file still lacks.
WholeBuffer == pBuffer[cur]

\* The cells Parser writes first when a file is under way.
NextPart ==
    LET nRemainedFileLen == nFileSize[cur] - nSavedLength[cur]
    IN  SubSeq(pBuffer[cur], 1, Smaller(nRemainedFileLen, nDataLength(cur)))

ParserContinue ==
    /\ nFileSize[cur] # 0
    /\ LET saved == nSavedLength[cur] + Len(NextPart)
       IN  /\ Inside("parser", IF saved = nFileSize[cur] THEN "close" ELSE "compact")
           /\ Write(NextPart, saved)
    /\ nOffset' = Len(NextPart)
    /\ UNCHANGED <<pBuffer, nFileSize, pFileItem, FileSave, listVars, dlgVars, history>>

ParserThrows ==
    /\ Inside("parser", "catch")
    /\ nFileSize[cur] # 0 /\ NextPart # <<>>
    /\ WriteThrows(NextPart)

ParserFresh ==
    /\ Inside("parser", "getfile")
    /\ nFileSize[cur] = 0
    /\ UNCHANGED <<sessVars, nOffset, fileVars, listVars, dlgVars, history>>

\* Mistake: the file stays open and its size set.
ForgetLength == nSavedLength' = [nSavedLength EXCEPT ![cur] = 0] /\ UNCHANGED <<nFileSize, FileSave>>

\* What CloseFile clears before anything can go wrong, and FileSave.Close.
ForgetFile ==
    /\ nSavedLength' = [nSavedLength EXCEPT ![cur] = 0]
    /\ nFileSize' = [nFileSize EXCEPT ![cur] = 0]
    /\ FileSave' = [FileSave EXCEPT ![cur] = 0]

\* CloseFile, whose shared half is under m_csList; GetFile goes on after it.
CloseFile ==
    /\ Inside("close", "getfile")
    /\ ForgetFile
    /\ m_nSavedFiles' = m_nSavedFiles + 1
    /\ items' = [items EXCEPT ![pFileItem[cur]].nStatus = TRUE]
    /\ UNCHANGED <<pBuffer, pFileItem, nOffset, disk, listVars, m_nCounts, m_nClients,
                   m_nExceptions, history>>

\* FileSave.Close throws: the sizes are gone, the row is not true.
CloseThrows ==
    /\ Inside("close", "catch")
    /\ FileSave[cur] # 0 /\ DiskMayFail
    /\ ForgetFile
    /\ DiskFails
    /\ UNCHANGED <<pBuffer, pFileItem, nOffset, fileVars, listVars, dlgVars>>

\* GetFile's loop and if conditions: a whole header and at least one more cell.
HeaderReady ==
    /\ nDataLength(cur) - nOffset >= HeadCells
    /\ ValidHeader(pBuffer[cur], nOffset)
    /\ nDataLength(cur) > HeaderSize + nOffset

\* Mistake: the counters of the header parsed last.
LatestCounts(header) == header.counts

\* The three comparisons GetFile starts with.
RaisedCounts(header) ==
    [k \in Counter |-> IF m_nCounts[k] < header.counts[k]
                       THEN header.counts[k] ELSE m_nCounts[k]]

\* GetFile, first half of an iteration: the counters and the new list row.
GetFileHeader ==
    /\ Inside("getfile", "open")
    /\ HeaderReady
    /\ LET header == pBuffer[cur][nOffset + 1].frame
       IN  /\ m_nCounts' = RaisedCounts(header)
           /\ nFileSize' = [nFileSize EXCEPT ![cur] = header.nFileSize]
           /\ items' = Append(items, [conn |-> cur, frame |-> header,
                                      nRecved |-> 0, nStatus |-> FALSE])
    /\ disk' = Append(disk, <<>>)
    /\ pFileItem' = [pFileItem EXCEPT ![cur] = Len(items) + 1]
    /\ m_vecFileTemp' = Append(m_vecFileTemp, Len(items) + 1)
    /\ UNCHANGED <<pBuffer, nSavedLength, FileSave, nOffset, m_vecFileList, m_nSavedFiles,
                   m_nClients, m_nExceptions, history>>

\* FileSave.Open creates an empty file; its result is ignored.
OpenFile ==
    /\ Inside("open", "store")
    /\ \/ FileSave' = [FileSave EXCEPT ![cur] = pFileItem[cur]] /\ UNCHANGED history
       \/ DiskMayFail /\ DiskFails /\ UNCHANGED FileSave
    /\ UNCHANGED <<pBuffer, nFileSize, nSavedLength, pFileItem, nOffset, fileVars,
                   listVars, dlgVars>>

\* Mistake: the content is thought to follow the fixed part of the header.
FirstPartWithName ==
    LET nDataSize == nDataLength(cur) - nOffset - HeaderSize
    IN  SubSeq(pBuffer[cur], nOffset + HeadCells + 1,
               nOffset + HeadCells + Smaller(nDataSize, nFileSize[cur]))

\* The content that came in the same buffer as the header.
FirstPart ==
    LET nDataSize == nDataLength(cur) - nOffset - HeaderSize
    IN  SubSeq(pBuffer[cur], nOffset + HeaderSize + 1,
               nOffset + HeaderSize + Smaller(nDataSize, nFileSize[cur]))

\* GetFile, second half of an iteration.
GetFileStore ==
    /\ Inside("store", IF Len(FirstPart) = nFileSize[cur] THEN "close" ELSE "getfile")
    /\ IF nFileSize[cur] # 0
       THEN Write(FirstPart, Len(FirstPart))
       ELSE UNCHANGED <<nSavedLength, fileVars>>
    /\ nOffset' = nOffset + HeaderSize + Len(FirstPart)
    /\ UNCHANGED <<pBuffer, nFileSize, pFileItem, FileSave, listVars, dlgVars, history>>

GetFileThrows ==
    /\ Inside("store", "catch")
    /\ nFileSize[cur] # 0
    /\ WriteThrows(FirstPart)

\* GetFile leaves its loop.
GetFileDone ==
    /\ Inside("getfile", "compact")
    /\ ~HeaderReady
    /\ UNCHANGED <<sessVars, nOffset, fileVars, listVars, dlgVars, history>>

\* Mistake: what was not used is dropped.
NoRest == <<>>

Rest == SubSeq(pBuffer[cur], nOffset + 1, nDataLength(cur))

\* The end of Parser: move what was not used to the front of pBuffer.
Compact ==
    /\ Inside("compact", "after")
    /\ pBuffer' = [pBuffer EXCEPT ![cur] = Rest]
    /\ nOffset' = 0
    /\ UNCHANGED <<nFileSize, nSavedLength, pFileItem, FileSave, fileVars, listVars,
                   dlgVars, history>>

\* Parser's catch blocks: a message and a count; pBuffer is not compacted.
Catch ==
    /\ Inside("catch", "after")
    /\ m_nExceptions' = m_nExceptions + 1
    /\ nOffset' = 0
    /\ UNCHANGED <<sessVars, fileVars, listVars, m_nSavedFiles, m_nCounts, m_nClients,
                   history>>

\* The end of do_read's handler: read again,
ReadAgain ==
    /\ Inside("after", "idle")
    /\ ~ec
    /\ UNCHANGED <<sessVars, nOffset, fileVars, listVars, dlgVars, history>>

\* Mistakes: the client is never taken off, or by the session's end once more.
SameClients == m_nClients
TwoClientsLess == m_nClients - 2

OneClientLess == m_nClients - 1

\* or take the client off and let the session go, which closes its file.
SessionGone ==
    /\ pc = "after" /\ ec
    /\ m_nClients' = OneClientLess
    /\ link' = [link EXCEPT ![cur] = "closed"]
    /\ FileSave' = [FileSave EXCEPT ![cur] = 0]
    /\ pc' = "idle" /\ ec' = FALSE
    /\ UNCHANGED <<script, toSend, wire, pBuffer, nFileSize, nSavedLength, pFileItem, cur,
                   nOffset, fileVars, listVars, m_nSavedFiles, m_nCounts,
                   m_nExceptions, history>>

-----------------------------------------------------------------------------
\* Mistake: the waiting rows are copied and stay where they are.
LeftWaiting == m_vecFileTemp

NoneWaiting == <<>>

\* The list half of CJokeDSEDlg::OnTimer, on the UI thread: swap m_vecFileTemp
\* out under m_csList, append it to the list only this thread uses.
OnTimer ==
    /\ m_vecFileTemp # <<>>
    /\ m_vecFileTemp' = NoneWaiting
    /\ m_vecFileList' = m_vecFileList \o m_vecFileTemp
    /\ UNCHANGED <<netVars, sessVars, ioVars, fileVars, dlgVars, history>>

Completion == \E c \in Conns : Accept(c) \/ Read(c) \/ ReadEnd(c)

Handler ==
    \/ ParserContinue \/ ParserThrows \/ ParserFresh
    \/ CloseFile \/ CloseThrows
    \/ GetFileHeader \/ OpenFile \/ GetFileStore \/ GetFileThrows
    \/ GetFileDone \/ Compact \/ Catch \/ ReadAgain \/ SessionGone

Environment == AcceptError \/ \E c \in Conns : PeerSend(c) \/ PeerReset(c)

Next == Completion \/ Handler \/ Environment \/ OnTimer

Spec == Init /\ [][Next]_vars

(***************************************************************************)
(* io_context::run keeps running handlers while completions are ready, and *)
(* the window timer keeps firing.  Nothing is assumed of the environment.  *)
(***************************************************************************)
Fairness == WF_vars(Completion \/ Handler) /\ WF_vars(OnTimer)

FairSpec == Spec /\ Fairness
-----------------------------------------------------------------------------
(* Properties. *)

FileItem == [conn : Conns, frame : Header, nRecved : Nat, nStatus : BOOLEAN]

TypeOK ==
    /\ script \in Scripts
    /\ toSend \in [Conns -> Seq(Frame)]
    /\ wire \in [Conns -> Seq(Cells)]
    /\ link \in [Conns -> {"pending", "open", "closed"}]
    /\ pBuffer \in [Conns -> Seq(Cells)]
    /\ nFileSize \in [Conns -> Nat] /\ nSavedLength \in [Conns -> Nat]
    /\ pFileItem \in [Conns -> 0..Len(items)]
    /\ FileSave \in [Conns -> 0..Len(items)]
    /\ pc \in {"idle", "parser", "getfile", "open", "store", "close",
               "compact", "catch", "after"}
    /\ cur \in Conns /\ ec \in BOOLEAN /\ nOffset \in Nat
    /\ items \in Seq(FileItem)
    /\ disk \in Seq(Seq(Cells)) /\ Len(disk) = Len(items)
    /\ m_vecFileTemp \in Seq(1..Len(items)) /\ m_vecFileList \in Seq(1..Len(items))
    /\ m_nSavedFiles \in Nat /\ m_nCounts \in [Counter -> Nat]
    /\ m_nClients \in Nat /\ m_nExceptions \in Nat
    /\ faulted \subseteq Conns /\ lost \subseteq Conns /\ badAccepts \in Nat

\* The rows of c: where they are in items, what they say, and their files.
RowsIn(c) == FlattenSeq([i \in DOMAIN items |-> IF items[i].conn = c THEN <<i>> ELSE <<>>])

Rows(c) == [j \in DOMAIN RowsIn(c) |-> items[RowsIn(c)[j]]]

CopiesOf(c) == [j \in DOMAIN RowsIn(c) |-> disk[RowsIn(c)[j]]]

\* The frames of c before the first one that did not go out as announced.
WholeFrames(c) ==
    LET wrong == {j \in DOMAIN script[c] : ~IsWhole(script[c][j])}
    IN  {j \in DOMAIN script[c] : \A k \in wrong : j < k}

(* A session whose sender kept its word so far and whose disk never failed. *)
Healthy(c) == c \notin faulted /\ Len(Rows(c)) \in WholeFrames(c) \cup {0}

\* The files of c that were sent and are not the empty end of what was sent.
Due(c, j) ==
    LET sent == Len(script[c]) - Len(toSend[c])
    IN  j < sent \/ (j = sent /\ script[c][j].nFileSize > 0)

\* GetFile has left nothing that it could use: either a file is under way, the buffer
\* is empty and what is recorded of the file agrees everywhere, or no file is and the
\* buffer is the beginning of the next header, at most the whole of it (unless that
\* one did not go out whole).
AllConsumed(c) ==
    \/ /\ nFileSize[c] > 0
       /\ nSavedLength[c] < nFileSize[c] /\ pBuffer[c] = <<>>
       /\ pFileItem[c] # 0 /\ FileSave[c] = pFileItem[c]
       /\ ~items[pFileItem[c]].nStatus
       /\ items[pFileItem[c]].nRecved = nSavedLength[c]
       /\ Len(disk[pFileItem[c]]) = nSavedLength[c]
    \/ /\ nFileSize[c] = 0 /\ nSavedLength[c] = 0 /\ FileSave[c] = 0
       /\ LET next == Len(Rows(c)) + 1
          IN  IF next > Len(script[c])
              THEN pBuffer[c] = <<>>
              ELSE script[c][next].sent >= HeaderSize =>
                       IsPrefix(pBuffer[c], HeadOf(script[c][next]))

(***************************************************************************)
(* Residue.  Between two handlers a healthy session has consumed all it    *)
(* can, and when all that was sent to it has been read, every file that    *)
(* was sent is saved, but for an empty file nothing follows.  This is what *)
(* Parser and GetFile owe whatever the chunks async_read_some returns.     *)
(***************************************************************************)
Residue ==
    \A c \in Conns : pc = "idle" /\ Healthy(c) =>
        /\ link[c] = "open" => AllConsumed(c)
        /\ wire[c] = <<>> /\ c \notin lost =>
              \A j \in WholeFrames(c) : Due(c, j) => Len(Rows(c)) >= j /\ Rows(c)[j].nStatus

(***************************************************************************)
(* SavedCount.  m_nSavedFiles is the number of rows whose status is true:  *)
(* CloseFile runs once for a row, on no path twice, whatever goes wrong.   *)
(***************************************************************************)
SavedCount == m_nSavedFiles = Cardinality({i \in DOMAIN items : items[i].nStatus})

(***************************************************************************)
(* RowsOnce.  No row is lost or shown twice between GetFile's push_back    *)
(* and OnTimer's swap: the list and the part still waiting are all items,  *)
(* in the order they were made.                                            *)
(***************************************************************************)
RowsOnce == m_vecFileList \o m_vecFileTemp = [i \in DOMAIN items |-> i]

(***************************************************************************)
(* ClientCount.  m_nClients exceeds the live sessions by exactly the       *)
(* accepts that failed: do_accept counts before it looks at ec, and only a *)
(* session's last read takes a client off.  While a session's last handler *)
(* runs it is still counted.                                               *)
(***************************************************************************)
ClientCount == m_nClients = Cardinality({c \in Conns : link[c] = "open"}) + badAccepts

(***************************************************************************)
(* CountsAreMaxima.  The numbers shown are the largest any parsed header   *)
(* carried, in whatever order the connections' headers are parsed.         *)
(***************************************************************************)
CountsAreMaxima ==
    \A k \in Counter : m_nCounts[k] = Max({0} \cup {items[i].frame.counts[k] : i \in DOMAIN items})

(***************************************************************************)
(* SavedIsFinal.  No step changes a file, or the status or length of its   *)
(* row, once the row is true, although a session uses one CFile and one    *)
(* pFileItem for all its files.                                            *)
(***************************************************************************)
SavedIsFinal ==
    [][\A i \in DOMAIN items : items[i].nStatus =>
          disk'[i] = disk[i] /\ items'[i] = items[i]]_vars

(***************************************************************************)
(* AllSaved.  Every file sent on a connection that is neither reset nor    *)
(* damaged is saved in the end, but for an empty file nothing follows: its *)
(* header is only taken when one more byte is there.                       *)
(***************************************************************************)
AllSaved ==
    \A c \in Conns : \A j \in 1..Max({Len(s[c]) : s \in Scripts}) :
        Due(c, j) ~> \/ c \in faulted \cup lost
                     \/ j \notin WholeFrames(c)
                     \/ Len(Rows(c)) >= j /\ Rows(c)[j].nStatus

\* No file is under way, and the unused part of pBuffer begins with cells that
\* are no header.
OutOfStep(c) ==
    /\ nFileSize[c] = 0 /\ nDataLength(c) >= HeadCells /\ ~ValidHeader(pBuffer[c], 0)
    /\ cur = c => nOffset = 0

(***************************************************************************)
(* LostForGood.  GetFile only breaks off at what is no header: a session   *)
(* out of step stays so, whatever headers follow, makes no row any more    *)
(* and keeps every byte it reads, until its connection ends.               *)
(***************************************************************************)
LostForGood ==
    [][\A c \in Conns : OutOfStep(c) =>
          OutOfStep(c)' /\ Rows(c)' = Rows(c) /\ IsPrefix(pBuffer[c], pBuffer'[c])]_vars
-----------------------------------------------------------------------------
(* The receiver implements FileCopy. *)

Copies == INSTANCE FileCopy WITH
    Plans  <- {[c \in Conns |-> [j \in DOMAIN s[c] |-> Content(s[c][j])]] : s \in Scripts},
    files  <- [c \in Conns |-> [j \in DOMAIN script[c] |-> Content(script[c][j])]],
    copies <- [c \in Conns |-> CopiesOf(c)],
    done   <- [c \in Conns |-> Cardinality({j \in DOMAIN Rows(c) : Rows(c)[j].nStatus})],
    broken <- {c \in Conns : ~Healthy(c)}

(***************************************************************************)
(* ImplementsFileCopy.  However the streams are cut into reads and the     *)
(* sessions' handlers interleave, the files of a connection are copied in  *)
(* order, each is reported saved only with its whole content on disk, and  *)
(* what breaks one connection changes no file of another.                  *)
(***************************************************************************)
ImplementsFileCopy == Copies!Spec
=============================================================================
