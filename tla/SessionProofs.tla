--------------------------- MODULE SessionProofs ---------------------------
(***************************************************************************)
(* Proofs about Session for any connections, files, reads and failures:    *)
(* first about the rows, the clients and the counters, then about what the *)
(* receiver makes of the byte streams: that a healthy session never loses  *)
(* its place in its stream, so that Residue holds and the receiver         *)
(* implements FileCopy, and that one that has lost its place never finds   *)
(* it again (LostForGood).                                                 *)
(*                                                                         *)
(* The inductive invariant of the second part says for each healthy        *)
(* connection: what is still in the buffer from the place the handler has  *)
(* reached, on the wire and unsent is the beginning of what the rows made  *)
(* so far leave to come.                                                   *)
(***************************************************************************)
EXTENDS Session, SequenceLemmas, FiniteSetTheorems

-----------------------------------------------------------------------------
(* Sequences of cells and of rows. *)

\* A part of a sequence that lies within it.
LEMMA PartOfSeq ==
    ASSUME NEW S, NEW s \in Seq(S), NEW m \in Nat \ {0}, NEW n \in Int, n <= Len(s)
    PROVE  /\ SubSeq(s, m, n) \in Seq(S)
           /\ Len(SubSeq(s, m, n)) = IF m <= n THEN n - m + 1 ELSE 0
<1>1. \A i \in m..n : s[i] \in S
  BY ElementOfSeq
<1> QED BY <1>1, SubSeqProperties

\* What a sender puts on the wire are cells.
LEMMA HeaderOfType ==
    ASSUME NEW f \in Frame
    PROVE  HeaderOf(f) \in Header /\ f.sent \in Nat /\ f.nFileSize \in Nat
BY DEF HeaderOf, Header, Frame

LEMMA CellOfType == ASSUME NEW f \in Frame, NEW k \in Nat \ {0} PROVE CellOf(f, k) \in Cells
<1>1. HeaderSize \in Nat
  BY FrameAssumption DEF HeaderSize
<1>2. \A part \in Part, n \in Nat : Cell(part, f, n) \in Cells
  BY HeaderOfType DEF Cell, Cells
<1>3. CASE k <= HeaderSize
  <2>1. k \in 1..HeaderSize
    BY <1>1, <1>3
  <2>2. HeadOf(f)[k] = IF k <= HeadCells THEN Cell("head", f, k)
                                         ELSE Cell("name", f, k - HeadCells)
    BY <2>1 DEF HeadOf
  <2>3. CASE k <= HeadCells
    BY <1>2, <1>3, <2>2, <2>3 DEF CellOf, Part
  <2>4. CASE ~(k <= HeadCells)
    <3>1. k - HeadCells \in Nat
      BY <2>4, FrameAssumption
    <3> QED BY <1>2, <1>3, <2>2, <2>4, <3>1 DEF CellOf, Part
  <2> QED BY <2>3, <2>4
<1>4. CASE ~(k <= HeaderSize)
  <2>1. k - HeaderSize \in Nat
    BY <1>1, <1>4
  <2> QED BY <1>2, <1>4, <2>1 DEF CellOf, Part
<1> QED BY <1>3, <1>4

LEMMA FrameCellsType == ASSUME NEW f \in Frame PROVE FrameCells(f) \in Seq(Cells)
<1>1. \A k \in 1..f.sent : CellOf(f, k) \in Cells
  BY CellOfType, HeaderOfType
<1>2. FrameCells(f) \in [1..f.sent -> Cells]
  BY <1>1 DEF FrameCells
<1> QED BY <1>2, HeaderOfType, SeqDef

\* Parser's and GetFile's parts of the buffer are cells.
LEMMA PartTypes ==
    ASSUME TypeOK
    PROVE  /\ NextPart \in Seq(Cells) /\ Len(NextPart) \in Nat
           /\ FirstPart \in Seq(Cells) /\ Len(FirstPart) \in Nat
           /\ Rest \in Seq(Cells)
<1>1. /\ pBuffer[cur] \in Seq(Cells) /\ nDataLength(cur) \in Nat
      /\ nFileSize[cur] \in Nat /\ nSavedLength[cur] \in Nat /\ nOffset \in Nat
      /\ HeaderSize \in Nat
  BY LenProperties, FrameAssumption DEF TypeOK, nDataLength, HeaderSize
<1>2. NextPart \in Seq(Cells)
  BY <1>1, PartOfSeq DEF NextPart, Smaller, nDataLength
<1>3. FirstPart \in Seq(Cells)
  BY <1>1, PartOfSeq DEF FirstPart, Smaller, nDataLength
<1>4. Rest \in Seq(Cells)
  BY <1>1, PartOfSeq DEF Rest, nDataLength
<1> QED BY <1>2, <1>3, <1>4, LenProperties

\* A row that is written to is still a row, and no row comes or goes.
LEMMA RowsType ==
    ASSUME TypeOK, NEW i
    PROVE  /\ \A n \in Nat : /\ [items EXCEPT ![i].nRecved = n] \in Seq(FileItem)
                             /\ Len([items EXCEPT ![i].nRecved = n]) = Len(items)
           /\ [items EXCEPT ![i].nStatus = TRUE] \in Seq(FileItem)
           /\ Len([items EXCEPT ![i].nStatus = TRUE]) = Len(items)
<1>1. /\ items \in [1..Len(items) -> FileItem] /\ DOMAIN items = 1..Len(items)
      /\ Len(items) \in Nat
  BY LenProperties DEF TypeOK
<1>2. ASSUME NEW n \in Nat
      PROVE  [items EXCEPT ![i].nRecved = n] \in [1..Len(items) -> FileItem]
  BY <1>1 DEF FileItem
<1>3. [items EXCEPT ![i].nStatus = TRUE] \in [1..Len(items) -> FileItem]
  BY <1>1 DEF FileItem
<1>4. ASSUME NEW g \in [1..Len(items) -> FileItem]
      PROVE  g \in Seq(FileItem) /\ Len(g) = Len(items)
  BY <1>1, <1>4, SeqDef
<1> QED BY <1>2, <1>3, <1>4

\* A file that is written to still holds cells.
LEMMA DiskType ==
    ASSUME TypeOK, NEW cells \in Seq(Cells), FileSave[cur] # 0
    PROVE  /\ [disk EXCEPT ![FileSave[cur]] = @ \o cells] \in Seq(Seq(Cells))
           /\ Len([disk EXCEPT ![FileSave[cur]] = @ \o cells]) = Len(items)
<1>1. disk \in Seq(Seq(Cells)) /\ Len(disk) = Len(items) /\ FileSave[cur] \in 1..Len(disk)
  BY LenProperties DEF TypeOK
<1>2. disk[FileSave[cur]] \in Seq(Cells)
  BY <1>1, ElementOfSeq
<1>3. disk[FileSave[cur]] \o cells \in Seq(Cells)
  BY <1>2, ConcatProperties
<1> QED BY <1>1, <1>3, ExceptSeq

\* FileSave.Write, and the same when it throws.
LEMMA WriteType ==
    ASSUME TypeOK, NEW cells \in Seq(Cells), NEW saved \in Nat, Write(cells, saved)
    PROVE  /\ disk' \in Seq(Seq(Cells)) /\ Len(disk') = Len(items)
           /\ nSavedLength' \in [Conns -> Nat]
           /\ items' \in Seq(FileItem) /\ Len(items') = Len(items)
BY DiskType, RowsType DEF Write, TypeOK

LEMMA WriteThrowsType ==
    ASSUME TypeOK, NEW cells \in Seq(Cells), WriteThrows(cells)
    PROVE  /\ disk' \in Seq(Seq(Cells)) /\ Len(disk') = Len(items)
           /\ faulted' \subseteq Conns
<1>1. \A k \in 0..(Len(cells) - 1) : SubSeq(cells, 1, k) \in Seq(Cells)
  BY PartOfSeq, LenProperties
<1>2. disk' \in Seq(Seq(Cells)) /\ Len(disk') = Len(items)
  BY <1>1, DiskType DEF WriteThrows, TypeOK
<1> QED BY <1>2 DEF WriteThrows, DiskFails, TypeOK

-----------------------------------------------------------------------------
(* The type invariant.  It is not inductive as it stands: m_nClients stays *)
(* a natural number only because the session that takes itself off was     *)
(* counted, so ClientCount and Serving are proved along with it.           *)

\* A handler runs for a session that still lives.
Serving == pc # "idle" => link[cur] = "open"

\* The sessions that live.
Live == {c \in Conns : link[c] = "open"}

LEMMA LiveIsFinite == IsFiniteSet(Live) /\ Cardinality(Live) \in Nat
BY FS_Subset, FS_CardinalityType, SessionAssumption DEF Live

\* Initially every variable is in its set.
LEMMA InitType == Init => TypeOK
<1> SUFFICES ASSUME Init PROVE TypeOK
  OBVIOUS
<1>1. script \in [Conns -> Seq(Frame)]
  BY SessionAssumption DEF Init
<1>2. /\ \A S : <<>> \in Seq(S)
      /\ Len(<<>>) = 0
  BY EmptySeq
<1>3. script \in Scripts /\ toSend \in [Conns -> Seq(Frame)]
  BY <1>1 DEF Init
<1>4. wire \in [Conns -> Seq(Cells)] /\ pBuffer \in [Conns -> Seq(Cells)]
  BY <1>2 DEF Init
<1>5. /\ link \in [Conns -> {"pending", "open", "closed"}]
      /\ nFileSize \in [Conns -> Nat] /\ nSavedLength \in [Conns -> Nat]
      /\ m_nCounts \in [Counter -> Nat]
  BY DEF Init
<1>6. Len(items) = 0 /\ Len(disk) = 0
  BY <1>2 DEF Init
<1>7. pFileItem \in [Conns -> 0..Len(items)] /\ FileSave \in [Conns -> 0..Len(items)]
  BY <1>6 DEF Init
<1> QED BY <1>2, <1>3, <1>4, <1>5, <1>6, <1>7 DEF Init, TypeOK

\* A step that takes no completion in hand and touches no file.
LEMMA OutsideType ==
    ASSUME TypeOK,
           \/ AcceptError \/ OnTimer
           \/ \E c \in Conns : Accept(c) \/ ReadEnd(c) \/ PeerReset(c)
    PROVE  TypeOK'
<1>1. CASE AcceptError
  BY <1>1 DEF TypeOK, AcceptError, OneMoreClient, netVars, sessVars, ioVars, fileVars, listVars
<1>2. CASE OnTimer
  <2>1. m_vecFileList \o m_vecFileTemp \in Seq(1..Len(items))
    BY ConcatProperties DEF TypeOK
  <2>2. <<>> \in Seq(1..Len(items))
    BY EmptySeq
  <2> QED BY <1>2, <2>1, <2>2
          DEF TypeOK, OnTimer, NoneWaiting, netVars, sessVars, ioVars, fileVars, dlgVars, history
<1>3. ASSUME NEW c \in Conns, Accept(c) PROVE TypeOK'
  <2>1. link' \in [Conns -> {"pending", "open", "closed"}]
    BY <1>3 DEF TypeOK, Accept
  <2>2. m_nClients' \in Nat
    BY <1>3 DEF TypeOK, Accept, OneMoreClient
  <2> QED BY <1>3, <2>1, <2>2
          DEF TypeOK, Accept, OneMoreClient, sessVars, ioVars, fileVars, listVars, history
<1>4. ASSUME NEW c \in Conns, ReadEnd(c) PROVE TypeOK'
  BY <1>4 DEF TypeOK, ReadEnd, netVars, sessVars, fileVars, listVars, dlgVars, history
<1>5. ASSUME NEW c \in Conns, PeerReset(c) PROVE TypeOK'
  <2>1. \A S : <<>> \in Seq(S)
    BY EmptySeq
  <2> QED BY <1>5, <2>1 DEF TypeOK, PeerReset, sessVars, ioVars, fileVars, listVars, dlgVars
<1> QED BY <1>1, <1>2, <1>3, <1>4, <1>5

\* A sender sends, and what it sent is read.
LEMMA PeerSendType == ASSUME TypeOK, NEW c \in Conns, PeerSend(c) PROVE TypeOK'
<1>1. Head(toSend[c]) \in Frame /\ Tail(toSend[c]) \in Seq(Frame)
  BY HeadTailProperties DEF TypeOK, PeerSend
<1>2. wire[c] \o FrameCells(Head(toSend[c])) \in Seq(Cells)
  BY <1>1, FrameCellsType, ConcatProperties DEF TypeOK
<1> QED BY <1>1, <1>2 DEF TypeOK, PeerSend, sessVars, ioVars, fileVars, listVars, dlgVars, history

LEMMA ReadType == ASSUME TypeOK, NEW c \in Conns, Read(c) PROVE TypeOK'
<1>1. PICK n \in 1..Smaller(MaxRead, Len(wire[c])) :
         /\ pBuffer' = [pBuffer EXCEPT ![c] = @ \o SubSeq(wire[c], 1, n)]
         /\ wire' = [wire EXCEPT ![c] = SubSeq(@, n + 1, Len(@))]
  BY DEF Read
<1>2. wire[c] \in Seq(Cells) /\ Len(wire[c]) \in Nat /\ pBuffer[c] \in Seq(Cells)
  BY LenProperties DEF TypeOK
<1>3. n \in Nat \ {0} /\ n <= Len(wire[c])
  BY <1>2, SessionAssumption DEF Smaller
<1>4. SubSeq(wire[c], 1, n) \in Seq(Cells) /\ SubSeq(wire[c], n + 1, Len(wire[c])) \in Seq(Cells)
  BY <1>2, <1>3, PartOfSeq
<1>5. pBuffer[c] \o SubSeq(wire[c], 1, n) \in Seq(Cells)
  BY <1>2, <1>4, ConcatProperties
<1>6. pBuffer' \in [Conns -> Seq(Cells)] /\ wire' \in [Conns -> Seq(Cells)]
  BY <1>1, <1>4, <1>5 DEF TypeOK
<1> QED BY <1>6 DEF TypeOK, Read, fileVars, listVars, dlgVars, history

\* Parser before GetFile.
LEMMA ParserType == ASSUME TypeOK, ParserContinue \/ ParserThrows \/ ParserFresh PROVE TypeOK'
<1>1. CASE ParserContinue
  <2>1. Len(NextPart) \in Nat /\ nSavedLength[cur] + Len(NextPart) \in Nat
    <3>1. nSavedLength[cur] \in Nat
      BY DEF TypeOK
    <3> QED BY <3>1, PartTypes
  <2>2. Write(NextPart, nSavedLength[cur] + Len(NextPart))
    BY <1>1 DEF ParserContinue
  <2>3. /\ disk' \in Seq(Seq(Cells)) /\ Len(disk') = Len(items)
        /\ nSavedLength' \in [Conns -> Nat]
        /\ items' \in Seq(FileItem) /\ Len(items') = Len(items)
    BY <2>1, <2>2, PartTypes, WriteType
  <2> QED BY <1>1, <2>1, <2>3
          DEF TypeOK, ParserContinue, Inside, netVars, listVars, dlgVars, history
<1>2. CASE ParserThrows
  <2>1. /\ disk' \in Seq(Seq(Cells)) /\ Len(disk') = Len(items)
        /\ faulted' \subseteq Conns
    BY <1>2, PartTypes, WriteThrowsType DEF ParserThrows
  <2> QED BY <1>2, <2>1
          DEF TypeOK, ParserThrows, WriteThrows, DiskFails, Inside, netVars, sessVars, listVars, dlgVars
<1>3. CASE ParserFresh
  BY <1>3 DEF TypeOK, ParserFresh, Inside, netVars, sessVars, fileVars, listVars, dlgVars, history
<1> QED BY <1>1, <1>2, <1>3

LEMMA CloseType == ASSUME TypeOK, CloseFile \/ CloseThrows PROVE TypeOK'
<1>1. ASSUME ForgetFile
      PROVE  /\ nSavedLength' \in [Conns -> Nat] /\ nFileSize' \in [Conns -> Nat]
             /\ FileSave' \in [Conns -> 0..Len(items)]
  BY <1>1 DEF ForgetFile, TypeOK
<1>2. CASE CloseFile
  <2>1. items' \in Seq(FileItem) /\ Len(items') = Len(items)
    BY <1>2, RowsType DEF CloseFile
  <2>2. ForgetFile /\ m_nSavedFiles' \in Nat
    BY <1>2 DEF TypeOK, CloseFile
  <2>3. /\ nSavedLength' \in [Conns -> Nat] /\ nFileSize' \in [Conns -> Nat]
        /\ FileSave' \in [Conns -> 0..Len(items)]
    BY <1>1, <2>2
  <2> QED BY <1>2, <2>1, <2>2, <2>3 DEF TypeOK, CloseFile, Inside, netVars, listVars, history
<1>3. CASE CloseThrows
  BY <1>1, <1>3 DEF TypeOK, CloseThrows, DiskFails, Inside, netVars, fileVars, listVars, dlgVars
<1> QED BY <1>2, <1>3

\* What GetFile finds is a header.
LEMMA HeaderType ==
    ASSUME TypeOK, HeaderReady
    PROVE  pBuffer[cur][nOffset + 1].frame \in Header
<1>1. pBuffer[cur] \in Seq(Cells) /\ nDataLength(cur) \in Nat /\ nOffset \in Nat
  BY LenProperties DEF TypeOK, nDataLength
<1>2. nOffset + 1 \in 1..Len(pBuffer[cur])
  BY <1>1, FrameAssumption DEF HeaderReady, nDataLength
<1>3. pBuffer[cur][nOffset + 1] \in Cells
  BY <1>1, <1>2, ElementOfSeq
<1> QED BY <1>3 DEF Cells

LEMMA GetFileHeaderType == ASSUME TypeOK, GetFileHeader PROVE TypeOK'
<1> DEFINE header == pBuffer[cur][nOffset + 1].frame
           row == [conn |-> cur, frame |-> header, nRecved |-> 0, nStatus |-> FALSE]
<1>1. header \in Header
  BY HeaderType DEF GetFileHeader
<1>2. m_nCounts' \in [Counter -> Nat] /\ nFileSize' \in [Conns -> Nat]
  <2>1. header.nFileSize \in Nat /\ header.counts \in [Counter -> Nat]
    BY <1>1 DEF Header
  <2>2. m_nCounts' = RaisedCounts(header)
    BY DEF GetFileHeader
  <2>3. nFileSize' = [nFileSize EXCEPT ![cur] = header.nFileSize]
    BY DEF GetFileHeader
  <2> HIDE DEF header
  <2>4. m_nCounts' \in [Counter -> Nat]
    BY <2>1, <2>2 DEF TypeOK, RaisedCounts
  <2> QED BY <2>1, <2>3, <2>4 DEF TypeOK
<1>3. row \in FileItem
  BY <1>1 DEF TypeOK, FileItem
<1>4. items' = Append(items, row) /\ disk' = Append(disk, <<>>)
  BY DEF GetFileHeader
<1>5. items' \in Seq(FileItem) /\ Len(items') = Len(items) + 1
  <2>1. items \in Seq(FileItem)
    BY DEF TypeOK
  <2> HIDE DEF row
  <2> QED BY ONLY <1>3, <1>4, <2>1, AppendProperties
<1>6. disk' \in Seq(Seq(Cells)) /\ Len(disk') = Len(disk) + 1
  <2>1. disk \in Seq(Seq(Cells)) /\ Len(disk) = Len(items) /\ <<>> \in Seq(Cells)
    BY EmptySeq DEF TypeOK
  <2> QED BY ONLY <1>4, <2>1, AppendProperties
<1>7. Len(items) \in Nat
  BY LenProperties DEF TypeOK
<1>8. /\ m_vecFileTemp' \in Seq(1..Len(items'))
      /\ m_vecFileList' \in Seq(1..Len(items'))
  <2>1. 1..Len(items) \subseteq 1..Len(items') /\ Len(items) + 1 \in 1..Len(items')
    BY <1>5, <1>7
  <2>2. m_vecFileTemp \in Seq(1..Len(items')) /\ m_vecFileList \in Seq(1..Len(items'))
    BY <2>1, SeqMonotonic DEF TypeOK
  <2> QED BY <2>1, <2>2, AppendProperties DEF GetFileHeader
<1>9. /\ pFileItem' \in [Conns -> 0..Len(items')]
      /\ FileSave' \in [Conns -> 0..Len(items')]
  <2>1. 0..Len(items) \subseteq 0..Len(items') /\ Len(items) + 1 \in 0..Len(items')
    BY <1>5, <1>7
  <2> QED BY <2>1 DEF TypeOK, GetFileHeader
<1> QED BY <1>2, <1>5, <1>6, <1>7, <1>8, <1>9 DEF TypeOK, GetFileHeader, Inside, netVars, history

LEMMA OpenFileType == ASSUME TypeOK, OpenFile PROVE TypeOK'
<1>1. FileSave' \in [Conns -> 0..Len(items)] /\ faulted' \subseteq Conns
  BY DEF TypeOK, OpenFile, DiskFails, history
<1>2. lost' = lost /\ badAccepts' = badAccepts
  BY DEF OpenFile, DiskFails, history
<1> QED BY <1>1, <1>2 DEF TypeOK, OpenFile, Inside, netVars, fileVars, listVars, dlgVars

LEMMA StoreType == ASSUME TypeOK, GetFileStore \/ GetFileThrows PROVE TypeOK'
<1>1. CASE GetFileStore
  <2>1. /\ disk' \in Seq(Seq(Cells)) /\ Len(disk') = Len(items)
        /\ nSavedLength' \in [Conns -> Nat]
        /\ items' \in Seq(FileItem) /\ Len(items') = Len(items)
    <3>1. CASE nFileSize[cur] # 0
      BY <1>1, <3>1, PartTypes, WriteType DEF GetFileStore
    <3>2. CASE nFileSize[cur] = 0
      BY <1>1, <3>2 DEF TypeOK, GetFileStore, fileVars
    <3> QED BY <3>1, <3>2
  <2>2. nOffset' \in Nat
    BY <1>1, PartTypes, FrameAssumption DEF TypeOK, GetFileStore, HeaderSize
  <2> QED BY <1>1, <2>1, <2>2
          DEF TypeOK, GetFileStore, Inside, netVars, listVars, dlgVars, history
<1>2. CASE GetFileThrows
  <2>1. /\ disk' \in Seq(Seq(Cells)) /\ Len(disk') = Len(items)
        /\ faulted' \subseteq Conns
    BY <1>2, PartTypes, WriteThrowsType DEF GetFileThrows
  <2> QED BY <1>2, <2>1
          DEF TypeOK, GetFileThrows, WriteThrows, DiskFails, Inside, netVars, sessVars, listVars, dlgVars
<1> QED BY <1>1, <1>2

\* The handler's last steps but the one that ends the session.
LEMMA EndType == ASSUME TypeOK, GetFileDone \/ Compact \/ Catch \/ ReadAgain PROVE TypeOK'
<1>1. CASE GetFileDone
  BY <1>1 DEF TypeOK, GetFileDone, Inside, netVars, sessVars, fileVars, listVars, dlgVars, history
<1>2. CASE Compact
  BY <1>2, PartTypes DEF TypeOK, Compact, Inside, netVars, fileVars, listVars, dlgVars, history
<1>3. CASE Catch
  BY <1>3 DEF TypeOK, Catch, Inside, netVars, sessVars, fileVars, listVars, history
<1>4. CASE ReadAgain
  BY <1>4 DEF TypeOK, ReadAgain, Inside, netVars, sessVars, fileVars, listVars, dlgVars, history
<1> QED BY <1>1, <1>2, <1>3, <1>4

\* A session that goes was counted, so the count does not fall below zero.
LEMMA SessionGoneType ==
    ASSUME TypeOK, ClientCount, Serving, SessionGone
    PROVE  TypeOK'
<1>1. cur \in Live
  BY DEF TypeOK, Serving, SessionGone, Live
<1>2. Cardinality(Live) > 0
  BY <1>1, LiveIsFinite, FS_EmptySet
<1>3. OneClientLess \in Nat
  BY <1>2, LiveIsFinite DEF TypeOK, ClientCount, Live, OneClientLess
<1>4. /\ link' \in [Conns -> {"pending", "open", "closed"}]
      /\ FileSave' \in [Conns -> 0..Len(items)]
  BY DEF TypeOK, SessionGone
<1> QED BY <1>3, <1>4 DEF TypeOK, SessionGone, fileVars, listVars, history

-----------------------------------------------------------------------------
(* The clients: m_nClients against the sessions that live. *)

\* Within a handler no client comes or goes.
LEMMA HandlerKeepsClients ==
    ASSUME Handler, ~SessionGone
    PROVE  pc # "idle" /\ UNCHANGED <<link, cur, m_nClients, badAccepts>>
<1>1. pc # "idle" /\ UNCHANGED <<netVars, cur>>
  BY DEF Handler, Inside, ParserContinue, ParserThrows, ParserFresh, CloseFile, CloseThrows,
         GetFileHeader, OpenFile, GetFileStore, GetFileThrows, GetFileDone, Compact, Catch, ReadAgain
<1>2. UNCHANGED <<m_nClients, badAccepts>>
  BY DEF Handler, WriteThrows, DiskFails, dlgVars, history,
         ParserContinue, ParserThrows, ParserFresh, CloseFile, CloseThrows,
         GetFileHeader, OpenFile, GetFileStore, GetFileThrows, GetFileDone, Compact, Catch, ReadAgain
<1> QED BY <1>1, <1>2 DEF netVars

Counted == TypeOK /\ ClientCount /\ Serving

LEMMA CountedStart == Init => Counted
<1> SUFFICES ASSUME Init PROVE Counted
  OBVIOUS
<1>1. Live = {}
  BY DEF Init, Live
<1>2. ClientCount
  <2>1. Cardinality(Live) = 0 /\ m_nClients = 0 /\ badAccepts = 0
    BY <1>1, FS_EmptySet DEF Init
  <2> QED BY <2>1 DEF ClientCount, Live
<1> QED BY <1>2, InitType DEF Init, Counted, Serving

LEMMA TypeStep == ASSUME Counted, [Next]_vars PROVE TypeOK'
<1> USE DEF Counted
<1>1. CASE Completion
  BY <1>1, OutsideType, ReadType DEF Completion
<1>2. CASE Handler
  BY <1>2, ParserType, CloseType, GetFileHeaderType, OpenFileType, StoreType, EndType,
     SessionGoneType DEF Handler
<1>3. CASE Environment
  BY <1>3, OutsideType, PeerSendType DEF Environment
<1>4. CASE OnTimer
  BY <1>4, OutsideType
<1>5. CASE UNCHANGED vars
  BY <1>5 DEF TypeOK, vars, netVars, sessVars, ioVars, fileVars, listVars, dlgVars, history
<1> QED BY <1>1, <1>2, <1>3, <1>4, <1>5 DEF Next

LEMMA ServingStep == ASSUME Counted, [Next]_vars PROVE Serving'
<1> USE DEF Counted
<1>1. ASSUME NEW c \in Conns, Accept(c) PROVE Serving'
  BY <1>1 DEF Accept, Serving, ioVars
<1>2. ASSUME NEW c \in Conns, Read(c) \/ ReadEnd(c) PROVE Serving'
  BY <1>2 DEF Read, ReadEnd, Serving, netVars
<1>3. CASE Handler
  <2>1. CASE SessionGone
    BY <2>1 DEF SessionGone, Serving
  <2>2. CASE ~SessionGone
    BY <1>3, <2>2, HandlerKeepsClients DEF Serving
  <2> QED BY <2>1, <2>2
<1>4. CASE Environment \/ OnTimer \/ UNCHANGED vars
  BY <1>4 DEF Environment, AcceptError, PeerSend, PeerReset, OnTimer, vars, Serving, netVars, ioVars
<1> QED BY <1>1, <1>2, <1>3, <1>4 DEF Next, Completion

LEMMA ClientStep == ASSUME Counted, [Next]_vars PROVE ClientCount'
<1> USE DEF Counted
<1>1. /\ Cardinality(Live) \in Nat /\ badAccepts \in Nat
      /\ m_nClients = Cardinality(Live) + badAccepts
  BY LiveIsFinite DEF TypeOK, ClientCount, Live
<1>2. SUFFICES m_nClients' = Cardinality(Live') + badAccepts'
  BY DEF ClientCount, Live
<1>3. ASSUME UNCHANGED <<link, m_nClients, badAccepts>>
      PROVE  m_nClients' = Cardinality(Live') + badAccepts'
  BY <1>1, <1>3 DEF Live
<1>4. ASSUME NEW c \in Conns, Accept(c)
      PROVE  m_nClients' = Cardinality(Live') + badAccepts'
  <2>1. Live' = Live \cup {c} /\ c \notin Live
    BY <1>4 DEF Accept, Live, TypeOK
  <2>2. Cardinality(Live') = Cardinality(Live) + 1
    BY <2>1, LiveIsFinite, FS_AddElement
  <2> QED BY <1>1, <1>4, <2>2 DEF Accept, OneMoreClient, history
<1>5. CASE AcceptError
  BY <1>1, <1>5 DEF AcceptError, OneMoreClient, netVars, Live
<1>6. CASE SessionGone
  <2>1. Live' = Live \ {cur} /\ cur \in Live
    BY <1>6 DEF SessionGone, Serving, Live, TypeOK
  <2>2. Cardinality(Live') = Cardinality(Live) - 1
    BY <2>1, LiveIsFinite, FS_RemoveElement
  <2> QED BY <1>1, <1>6, <2>2 DEF SessionGone, OneClientLess, history
<1>7. CASE Handler /\ ~SessionGone
  BY <1>3, <1>7, HandlerKeepsClients
<1>8. ASSUME NEW c \in Conns, Read(c) \/ ReadEnd(c) \/ PeerSend(c) \/ PeerReset(c)
      PROVE  m_nClients' = Cardinality(Live') + badAccepts'
  BY <1>3, <1>8 DEF Read, ReadEnd, PeerSend, PeerReset, netVars, dlgVars, history
<1>9. CASE OnTimer \/ UNCHANGED vars
  BY <1>3, <1>9 DEF OnTimer, vars, netVars, dlgVars, history
<1> QED BY <1>4, <1>5, <1>6, <1>7, <1>8, <1>9 DEF Next, Completion, Environment

LEMMA CountedAlways == Spec => []Counted
<1>1. Counted /\ [Next]_vars => Counted'
  BY TypeStep, ServingStep, ClientStep DEF Counted
<1> QED BY CountedStart, <1>1, PTL DEF Spec

(***************************************************************************)
(* TypeCorrect.  For any connections, files, read sizes and failures every *)
(* variable of the receiver keeps its type: no index of a session, of the  *)
(* waiting rows or of the list goes beyond the items there are, and the    *)
(* number of clients never falls below zero.                               *)
(***************************************************************************)
THEOREM TypeCorrect == Spec => []TypeOK
<1>1. Counted => TypeOK
  BY DEF Counted
<1> QED BY CountedAlways, <1>1, PTL

(***************************************************************************)
(* ClientCountAlways.  However accepts, last reads and failed accepts of   *)
(* any number of connections interleave, m_nClients is the live sessions   *)
(* and the failed accepts together (do_accept, do_read).                   *)
(***************************************************************************)
THEOREM ClientCountAlways == Spec => []ClientCount
<1>1. Counted => ClientCount
  BY DEF Counted
<1> QED BY CountedAlways, <1>1, PTL

-----------------------------------------------------------------------------
(* A saved file is never touched again.  A session has one CFile and one   *)
(* pFileItem for all its files, so what has to be known is that the file   *)
(* that is open is always the one of its last row, that this row is not    *)
(* true, and that GetFile starts a row only when no file is open.          *)

OneFile ==
    \A c \in Conns :
        /\ pFileItem[c] # 0 => items[pFileItem[c]].conn = c
        /\ FileSave[c] # 0 => FileSave[c] = pFileItem[c] /\ ~items[pFileItem[c]].nStatus
        /\ nFileSize[c] = 0 /\ ~(c = cur /\ pc \in {"store", "close"}) => FileSave[c] = 0

Underway ==
    /\ pc \in {"open", "store", "close"} =>
          pFileItem[cur] # 0 /\ ~items[pFileItem[cur]].nStatus
    /\ pc = "open" => FileSave[cur] = 0
    /\ pc \in {"open", "store"} => nDataLength(cur) > nOffset + HeaderSize
    /\ pc = "getfile" => FileSave[cur] = 0 \/ nDataLength(cur) <= nOffset

Owned == Counted /\ OneFile /\ Underway

\* The rows that were there keep their session and their status.
KeepsRows ==
    \A i \in 1..Len(items) : items'[i].conn = items[i].conn /\ items'[i].nStatus = items[i].nStatus

\* Indexes of rows.
LEMMA RowIndexes ==
    ASSUME TypeOK
    PROVE  /\ Len(items) \in Nat /\ Len(disk) = Len(items)
           /\ DOMAIN items = 1..Len(items) /\ DOMAIN disk = 1..Len(items)
           /\ \A c \in Conns : /\ pFileItem[c] # 0 => pFileItem[c] \in 1..Len(items)
                               /\ FileSave[c] # 0 => FileSave[c] \in 1..Len(items)
           /\ \A i \in 1..Len(items) : items[i] \in FileItem
<1>1. items \in Seq(FileItem) /\ disk \in Seq(Seq(Cells)) /\ Len(disk) = Len(items)
  BY DEF TypeOK
<1>2. /\ Len(items) \in Nat /\ DOMAIN items = 1..Len(items) /\ DOMAIN disk = 1..Len(items)
      /\ \A i \in 1..Len(items) : items[i] \in FileItem
  BY <1>1, LenProperties, ElementOfSeq
<1> QED BY <1>1, <1>2 DEF TypeOK

\* A write changes the length of a row, and nothing else of it.
LEMMA WriteKeepsRows ==
    ASSUME TypeOK, NEW cells, NEW saved, Write(cells, saved)
    PROVE  KeepsRows
<1>1. \A i \in 1..Len(items) : items[i] \in FileItem /\ i \in DOMAIN items
  BY RowIndexes
<1>2. items' = [items EXCEPT ![pFileItem[cur]].nRecved = saved]
  BY DEF Write
<1> QED BY <1>1, <1>2 DEF KeepsRows, FileItem

\* A step that opens, closes and begins no file, and forgets none half way.
LEMMA SameFile ==
    ASSUME TypeOK, OneFile, KeepsRows, UNCHANGED <<nFileSize, pFileItem, FileSave>>,
           nFileSize[cur] = 0 /\ pc \in {"store", "close"} =>
               cur' = cur /\ pc' \in {"store", "close"}
    PROVE  OneFile'
BY RowIndexes DEF OneFile, KeepsRows

\* The part of the content that came with the header.
LEMMA FirstPartLength ==
    ASSUME TypeOK, nDataLength(cur) > nOffset + HeaderSize
    PROVE  /\ Len(FirstPart) =
                 Smaller(nDataLength(cur) - nOffset - HeaderSize, nFileSize[cur])
           /\ Len(FirstPart) # nFileSize[cur] =>
                 nFileSize[cur] # 0 /\ nOffset + HeaderSize + Len(FirstPart) = nDataLength(cur)
<1> DEFINE n == Smaller(nDataLength(cur) - nOffset - HeaderSize, nFileSize[cur])
<1>1. /\ pBuffer[cur] \in Seq(Cells) /\ nDataLength(cur) = Len(pBuffer[cur])
      /\ nDataLength(cur) \in Nat /\ nFileSize[cur] \in Nat /\ nOffset \in Nat /\ HeaderSize \in Nat
  BY LenProperties, FrameAssumption DEF TypeOK, nDataLength, HeaderSize
<1>2. n \in Nat /\ nOffset + HeaderSize + n <= Len(pBuffer[cur])
  BY <1>1 DEF Smaller
<1>3. Len(FirstPart) = n
  <2>1. FirstPart = SubSeq(pBuffer[cur], nOffset + HeaderSize + 1, nOffset + HeaderSize + n)
    BY DEF FirstPart
  <2> HIDE DEF n
  <2> QED BY <1>1, <1>2, <2>1, PartOfSeq
<1> QED BY <1>1, <1>3 DEF Smaller

LEMMA OwnedStart == Init => Owned
<1>1. Init => OneFile /\ Underway
  BY DEF Init, OneFile, Underway
<1> QED BY <1>1, CountedStart DEF Owned

\* Outside the handlers, and in those of their steps that keep to the file there is.
LEMMA OneFileKept ==
    ASSUME Owned,
           \/ Completion \/ Environment \/ OnTimer \/ UNCHANGED vars
           \/ ParserContinue \/ ParserThrows \/ ParserFresh \/ GetFileStore \/ GetFileThrows
           \/ GetFileDone \/ Compact \/ Catch \/ ReadAgain
    PROVE  OneFile'
<1> USE DEF Owned, Counted
<1>1. UNCHANGED <<nFileSize, pFileItem, FileSave>>
  BY DEF Completion, Environment, Accept, AcceptError, Read, ReadEnd, PeerSend, PeerReset, OnTimer,
         vars, sessVars, ParserContinue, ParserThrows, ParserFresh, GetFileStore, GetFileThrows,
         WriteThrows, GetFileDone, Compact, Catch, ReadAgain
<1>2. KeepsRows
  <2>1. ASSUME UNCHANGED items PROVE KeepsRows
    BY <2>1 DEF KeepsRows
  <2>2. CASE ParserContinue
    BY <2>2, WriteKeepsRows DEF ParserContinue
  <2>3. CASE GetFileStore
    BY <2>1, <2>3, WriteKeepsRows DEF GetFileStore, fileVars
  <2>4. CASE ~ParserContinue /\ ~GetFileStore
    BY <2>1, <2>4 DEF Completion, Environment, Accept, AcceptError, Read, ReadEnd, PeerSend,
       PeerReset, OnTimer, vars, fileVars, ParserThrows, ParserFresh, GetFileThrows, WriteThrows,
       GetFileDone, Compact, Catch, ReadAgain
  <2> QED BY <2>2, <2>3, <2>4
<1>3. nFileSize[cur] = 0 /\ pc \in {"store", "close"} => cur' = cur /\ pc' \in {"store", "close"}
  <2>1. CASE GetFileStore
    BY <2>1, FirstPartLength DEF GetFileStore, Inside, Underway
  <2>2. CASE ~GetFileStore
    BY <2>2 DEF Completion, Environment, Accept, AcceptError, Read, ReadEnd, PeerSend, PeerReset,
       OnTimer, vars, ioVars, Inside, ParserContinue, ParserThrows, ParserFresh, GetFileThrows,
       GetFileDone, Compact, Catch, ReadAgain
  <2> QED BY <2>1, <2>2
<1> QED BY <1>1, <1>2, <1>3, SameFile

\* The steps that begin, open and close files.
LEMMA OneFileChanged ==
    ASSUME Owned, CloseFile \/ CloseThrows \/ GetFileHeader \/ OpenFile \/ SessionGone
    PROVE  OneFile'
<1> USE DEF Owned, Counted
<1>1. cur \in Conns
  BY DEF TypeOK
<1>2. CASE CloseFile
  <2>1. /\ cur' = cur /\ pc' = "getfile" /\ pFileItem' = pFileItem
        /\ FileSave' = [FileSave EXCEPT ![cur] = 0]
        /\ nFileSize' = [nFileSize EXCEPT ![cur] = 0]
    BY <1>2 DEF CloseFile, Inside, ForgetFile
  <2>2. \A i \in 1..Len(items) : /\ items'[i].conn = items[i].conn
                                 /\ i # pFileItem[cur] => items'[i].nStatus = items[i].nStatus
    BY <1>2, RowIndexes DEF CloseFile, FileItem
  <2>3. SUFFICES ASSUME NEW c \in Conns
                 PROVE  /\ pFileItem[c] # 0 => items'[pFileItem[c]].conn = c
                        /\ FileSave'[c] # 0 => FileSave'[c] = pFileItem[c]
                                               /\ ~items'[pFileItem[c]].nStatus
                        /\ nFileSize'[c] = 0 => FileSave'[c] = 0
    BY <2>1 DEF OneFile
  <2>4. pFileItem[c] # 0 => items'[pFileItem[c]].conn = c
    BY <2>2, RowIndexes DEF OneFile
  <2>5. CASE c = cur
    BY <2>1, <2>4, <2>5 DEF TypeOK
  <2>6. CASE c # cur
    <3>1. FileSave'[c] = FileSave[c] /\ nFileSize'[c] = nFileSize[c]
      BY <2>1, <2>6 DEF TypeOK
    <3>2. pFileItem[c] # 0 => pFileItem[c] # pFileItem[cur]
      BY <1>1, <2>6 DEF OneFile
    <3> QED BY <2>2, <2>4, <2>6, <3>1, <3>2, RowIndexes DEF OneFile
  <2> QED BY <2>5, <2>6
<1>3. CASE CloseThrows \/ SessionGone
  <2>1. /\ items' = items /\ pFileItem' = pFileItem
        /\ FileSave' = [FileSave EXCEPT ![cur] = 0]
        /\ \A c \in Conns : c # cur => nFileSize'[c] = nFileSize[c]
    BY <1>3 DEF CloseThrows, SessionGone, ForgetFile, fileVars, TypeOK
  <2> QED BY <1>1, <2>1 DEF OneFile, TypeOK
<1>4. CASE GetFileHeader
  <2> DEFINE row == [conn |-> cur, frame |-> pBuffer[cur][nOffset + 1].frame,
                     nRecved |-> 0, nStatus |-> FALSE]
  <2>1. row \in FileItem
    BY <1>4, HeaderType DEF GetFileHeader, FileItem, TypeOK
  <2>2. /\ items' = Append(items, row) /\ pc' = "open" /\ cur' = cur /\ FileSave' = FileSave
        /\ pFileItem' = [pFileItem EXCEPT ![cur] = Len(items) + 1]
        /\ \A c \in Conns : c # cur => nFileSize'[c] = nFileSize[c]
    BY <1>4 DEF GetFileHeader, Inside, TypeOK
  <2>3. /\ \A i \in 1..Len(items) : items'[i] = items[i]
        /\ items'[Len(items) + 1] = row
    <3> HIDE DEF row
    <3> QED BY <2>1, <2>2, AppendProperties DEF TypeOK
  <2>4. FileSave[cur] = 0
    BY <1>4, FrameAssumption DEF GetFileHeader, Inside, HeaderReady, Underway, HeaderSize, TypeOK,
       nDataLength
  <2>5. SUFFICES ASSUME NEW c \in Conns
                 PROVE  /\ pFileItem'[c] # 0 => items'[pFileItem'[c]].conn = c
                        /\ FileSave[c] # 0 => FileSave[c] = pFileItem'[c]
                                              /\ ~items'[pFileItem'[c]].nStatus
                        /\ nFileSize'[c] = 0 => FileSave[c] = 0
    BY <2>2 DEF OneFile
  <2>6. CASE c = cur
    BY <2>2, <2>3, <2>4, <2>6 DEF TypeOK
  <2>7. CASE c # cur
    <3>1. pFileItem'[c] = pFileItem[c] /\ nFileSize'[c] = nFileSize[c]
      BY <2>2, <2>7 DEF TypeOK
    <3>2. pFileItem[c] # 0 => items'[pFileItem[c]] = items[pFileItem[c]]
      BY <2>3, RowIndexes
    <3> QED BY <2>7, <3>1, <3>2 DEF OneFile, TypeOK
  <2> QED BY <2>6, <2>7
<1>5. CASE OpenFile
  <2>1. /\ items' = items /\ pFileItem' = pFileItem /\ nFileSize' = nFileSize
        /\ pc' = "store" /\ cur' = cur
        /\ FileSave' = [FileSave EXCEPT ![cur] = pFileItem[cur]] \/ FileSave' = FileSave
    BY <1>5 DEF OpenFile, Inside, fileVars
  <2>2. ~items[pFileItem[cur]].nStatus
    BY <1>5 DEF OpenFile, Inside, Underway
  <2> QED BY <1>1, <2>1, <2>2 DEF OneFile, TypeOK
<1> QED BY <1>2, <1>3, <1>4, <1>5

\* Steps after which no file of the session in service is half way.
LEMMA UnderwayTrivially ==
    ASSUME pc' \in {"idle", "parser", "compact", "catch", "after"}
    PROVE  Underway'
BY DEF Underway

LEMMA UnderwayStep == ASSUME Owned, [Next]_vars PROVE Underway'
<1> USE DEF Owned, Counted
<1>1. CASE \/ AcceptError \/ OnTimer \/ UNCHANGED vars
           \/ \E c \in Conns : Accept(c) \/ PeerSend(c) \/ PeerReset(c)
  <2>1. UNCHANGED <<pc, cur, nOffset, pBuffer, pFileItem, FileSave, items>>
    BY <1>1 DEF AcceptError, OnTimer, Accept, PeerSend, PeerReset, vars, ioVars, sessVars, fileVars
  <2> QED BY <2>1 DEF Underway, nDataLength
<1>2. CASE \/ ParserThrows \/ CloseThrows \/ GetFileThrows \/ GetFileDone \/ Compact \/ Catch
           \/ ReadAgain \/ SessionGone \/ \E c \in Conns : Read(c) \/ ReadEnd(c)
  BY <1>2, UnderwayTrivially DEF ParserThrows, CloseThrows, GetFileThrows, GetFileDone, Compact,
     Catch, ReadAgain, SessionGone, Read, ReadEnd, Inside
<1>3. CASE ParserContinue
  <2>1. FileSave[cur] # 0 /\ KeepsRows /\ UNCHANGED <<cur, pFileItem>>
        /\ pc' \in {"close", "compact"}
    BY <1>3, WriteKeepsRows DEF ParserContinue, Inside, Write
  <2>2. pFileItem[cur] # 0 /\ ~items'[pFileItem[cur]].nStatus
    BY <2>1, RowIndexes DEF OneFile, KeepsRows, TypeOK
  <2> QED BY <2>1, <2>2 DEF Underway
<1>4. CASE ParserFresh
  <2>1. pc = "parser" /\ nFileSize[cur] = 0 /\ pc' = "getfile" /\ UNCHANGED <<cur, FileSave>>
    BY <1>4 DEF ParserFresh, Inside, sessVars
  <2>2. FileSave[cur] = 0
    BY <2>1 DEF OneFile, TypeOK
  <2> QED BY <2>1, <2>2 DEF Underway
<1>5. CASE CloseFile
  BY <1>5 DEF CloseFile, ForgetFile, Inside, Underway, TypeOK
<1>6. CASE GetFileHeader
  <2> DEFINE row == [conn |-> cur, frame |-> pBuffer[cur][nOffset + 1].frame,
                     nRecved |-> 0, nStatus |-> FALSE]
  <2>1. row \in FileItem
    BY <1>6, HeaderType DEF GetFileHeader, FileItem, TypeOK
  <2>2. /\ items' = Append(items, row) /\ pc' = "open"
        /\ UNCHANGED <<cur, FileSave, pBuffer, nOffset>>
        /\ pFileItem'[cur] = Len(items) + 1
    BY <1>6 DEF GetFileHeader, Inside, TypeOK
  <2>3. items'[Len(items) + 1] = row
    <3> HIDE DEF row
    <3> QED BY <2>1, <2>2, AppendProperties DEF TypeOK
  <2>4. nDataLength(cur) > nOffset + HeaderSize
    BY <1>6, LenProperties, FrameAssumption
       DEF GetFileHeader, HeaderReady, TypeOK, nDataLength, HeaderSize
  <2>5. FileSave[cur] = 0
    BY <1>6, <2>4, FrameAssumption, LenProperties
       DEF GetFileHeader, Inside, Underway, HeaderSize, TypeOK, nDataLength
  <2> QED BY <2>2, <2>3, <2>4, <2>5, RowIndexes DEF Underway, nDataLength
<1>7. CASE OpenFile
  <2>1. /\ pc = "open" /\ pc' = "store"
        /\ UNCHANGED <<cur, items, pFileItem, pBuffer, nOffset>>
    BY <1>7 DEF OpenFile, Inside, fileVars
  <2> QED BY <2>1 DEF Underway, nDataLength
<1>8. CASE GetFileStore
  <2>1. /\ pc = "store" /\ UNCHANGED <<cur, pFileItem, pBuffer>>
        /\ pc' = IF Len(FirstPart) = nFileSize[cur] THEN "close" ELSE "getfile"
        /\ nOffset' = nOffset + HeaderSize + Len(FirstPart)
    BY <1>8 DEF GetFileStore, Inside
  <2>2. KeepsRows
    BY <1>8, WriteKeepsRows DEF GetFileStore, fileVars, KeepsRows
  <2>3. CASE Len(FirstPart) = nFileSize[cur]
    <3>1. pFileItem[cur] \in 1..Len(items) /\ ~items[pFileItem[cur]].nStatus
      BY <2>1, RowIndexes DEF Underway, TypeOK
    <3>2. ~items'[pFileItem[cur]].nStatus
      BY <2>2, <3>1 DEF KeepsRows
    <3> QED BY <2>1, <2>3, <3>1, <3>2 DEF Underway
  <2>4. CASE Len(FirstPart) # nFileSize[cur]
    <3>1. nOffset' = nDataLength(cur)
      BY <2>1, <2>4, FirstPartLength DEF Underway
    <3>2. nDataLength(cur) \in Nat
      BY LenProperties DEF TypeOK, nDataLength
    <3> QED BY <2>1, <2>4, <3>1, <3>2 DEF Underway, nDataLength
  <2> QED BY <2>3, <2>4
<1> QED BY <1>1, <1>2, <1>3, <1>4, <1>5, <1>6, <1>7, <1>8 DEF Next, Completion, Handler, Environment

LEMMA OwnedAlways == Spec => []Owned
<1>1. Owned /\ [Next]_vars => Owned'
  <2> SUFFICES ASSUME Owned, [Next]_vars PROVE Owned'
    OBVIOUS
  <2>1. Counted'
    BY TypeStep, ServingStep, ClientStep DEF Owned, Counted
  <2>2. OneFile'
    BY OneFileKept, OneFileChanged DEF Next, Handler
  <2> QED BY <2>1, <2>2, UnderwayStep DEF Owned
<1> QED BY OwnedStart, <1>1, PTL DEF Spec

\* A step leaves what is saved alone.
SavedKept ==
    \A i \in DOMAIN items : items[i].nStatus => disk'[i] = disk[i] /\ items'[i] = items[i]

\* Writes go to the open file, and that one is not saved yet.
LEMMA WriteSavedKept ==
    ASSUME Owned,
           \/ \E cells, saved : Write(cells, saved)
           \/ \E cells : WriteThrows(cells)
    PROVE  SavedKept
<1>1. \A i \in DOMAIN items : items[i].nStatus => i # FileSave[cur]
  BY DEF Owned, Counted, OneFile, TypeOK
<1>2. /\ DOMAIN disk = DOMAIN items
      /\ FileSave[cur] # 0 => FileSave[cur] = pFileItem[cur]
  BY RowIndexes DEF Owned, Counted, OneFile, TypeOK
<1>3. ASSUME NEW cells, NEW saved, Write(cells, saved) PROVE SavedKept
  BY <1>1, <1>2, <1>3 DEF Write, SavedKept
<1>4. ASSUME NEW cells, WriteThrows(cells) PROVE SavedKept
  BY <1>1, <1>2, <1>4 DEF WriteThrows, SavedKept
<1> QED BY <1>3, <1>4

LEMMA SavedStep == ASSUME Owned, [Next]_vars PROVE SavedKept
<1> USE DEF Owned, Counted
<1>1. ASSUME UNCHANGED fileVars PROVE SavedKept
  BY <1>1 DEF fileVars, SavedKept
<1>2. CASE ParserContinue \/ ParserThrows \/ GetFileStore \/ GetFileThrows
  BY <1>1, <1>2, WriteSavedKept DEF ParserContinue, ParserThrows, GetFileStore, GetFileThrows, fileVars
<1>3. CASE CloseFile
  <2>1. pFileItem[cur] \in DOMAIN items /\ ~items[pFileItem[cur]].nStatus
    BY <1>3, RowIndexes DEF CloseFile, Inside, Underway, TypeOK
  <2> QED BY <1>3, <2>1 DEF CloseFile, SavedKept
<1>4. CASE GetFileHeader
  <2> DEFINE row == [conn |-> cur, frame |-> pBuffer[cur][nOffset + 1].frame,
                     nRecved |-> 0, nStatus |-> FALSE]
  <2>1. row \in FileItem
    BY <1>4, HeaderType DEF GetFileHeader, FileItem, TypeOK
  <2>2. items' = Append(items, row) /\ disk' = Append(disk, <<>>)
    BY <1>4 DEF GetFileHeader
  <2>3. \A i \in 1..Len(items) : items'[i] = items[i]
    <3> HIDE DEF row
    <3> QED BY <2>1, <2>2, AppendProperties DEF TypeOK
  <2>4. \A i \in 1..Len(disk) : disk'[i] = disk[i]
    BY <2>2, EmptySeq, AppendProperties DEF TypeOK
  <2> QED BY <2>3, <2>4, RowIndexes DEF SavedKept
<1>5. CASE Completion \/ Environment \/ OnTimer \/ UNCHANGED vars
  BY <1>1, <1>5 DEF Completion, Environment, Accept, AcceptError, Read, ReadEnd, PeerSend, PeerReset,
     OnTimer, vars
<1>6. CASE \/ ParserFresh \/ CloseThrows \/ OpenFile \/ GetFileDone \/ Compact \/ Catch
           \/ ReadAgain \/ SessionGone
  BY <1>1, <1>6 DEF ParserFresh, CloseThrows, OpenFile, GetFileDone, Compact, Catch, ReadAgain,
     SessionGone
<1> QED BY <1>2, <1>3, <1>4, <1>5, <1>6 DEF Next, Handler

(***************************************************************************)
(* SavedIsFinalAlways.  Once CloseFile has made a row true, no later read, *)
(* file, failure or end of any session writes to its file or changes its   *)
(* row, although a session reuses its CFile and its pFileItem for every    *)
(* file and goes on after an exception with what these then hold.          *)
(***************************************************************************)
THEOREM SavedIsFinalAlways == Spec => SavedIsFinal
<1>1. Owned /\ [Next]_vars =>
        [\A i \in DOMAIN items : items[i].nStatus =>
            disk'[i] = disk[i] /\ items'[i] = items[i]]_vars
  BY SavedStep DEF SavedKept
<1> QED BY OwnedAlways, <1>1, PTL DEF Spec, SavedIsFinal

-----------------------------------------------------------------------------
(* m_nSavedFiles counts the rows that are true. *)

TrueRows == {i \in DOMAIN items : items[i].nStatus}

LEMMA TrueRowsAreFinite == ASSUME TypeOK PROVE IsFiniteSet(TrueRows) /\ Cardinality(TrueRows) \in Nat
<1>1. IsFiniteSet(1..Len(items)) /\ TrueRows \in SUBSET (1..Len(items))
  BY FS_Interval, RowIndexes DEF TrueRows
<1> QED BY <1>1, FS_Subset, FS_CardinalityType

\* CloseFile makes one more row true.
LEMMA CloseCounts ==
    ASSUME Owned, CloseFile
    PROVE  Cardinality(TrueRows') = Cardinality(TrueRows) + 1
<1> USE DEF Owned, Counted
<1>1. pFileItem[cur] \in 1..Len(items) /\ ~items[pFileItem[cur]].nStatus
  BY RowIndexes DEF CloseFile, Inside, Underway, TypeOK
<1>2. items' = [items EXCEPT ![pFileItem[cur]].nStatus = TRUE]
  BY DEF CloseFile
<1>3. TrueRows' = TrueRows \cup {pFileItem[cur]} /\ pFileItem[cur] \notin TrueRows
  <2>1. DOMAIN items' = DOMAIN items
    BY <1>2
  <2>2. \A i \in DOMAIN items : items'[i].nStatus <=> items[i].nStatus \/ i = pFileItem[cur]
    BY <1>1, <1>2, RowIndexes DEF FileItem
  <2> QED BY <1>1, <2>1, <2>2, RowIndexes DEF TrueRows
<1> QED BY <1>3, TrueRowsAreFinite, FS_AddElement

LEMMA SavedCountStep == ASSUME Owned, SavedCount, [Next]_vars PROVE SavedCount'
<1> USE DEF Owned, Counted
<1>1. SUFFICES m_nSavedFiles' = Cardinality(TrueRows')
  BY DEF SavedCount, TrueRows
<1>2. m_nSavedFiles = Cardinality(TrueRows) /\ Cardinality(TrueRows) \in Nat
  BY TrueRowsAreFinite DEF SavedCount, TrueRows
<1>3. ASSUME KeepsRows, DOMAIN items' = DOMAIN items, UNCHANGED m_nSavedFiles
      PROVE  m_nSavedFiles' = Cardinality(TrueRows')
  BY <1>2, <1>3, RowIndexes DEF KeepsRows, TrueRows
<1>4. ASSUME UNCHANGED <<items, m_nSavedFiles>>
      PROVE  m_nSavedFiles' = Cardinality(TrueRows')
  BY <1>2, <1>4 DEF TrueRows
<1>5. CASE ParserContinue \/ GetFileStore
  <2>1. UNCHANGED m_nSavedFiles
    BY <1>5 DEF ParserContinue, GetFileStore, dlgVars
  <2>2. UNCHANGED items \/ \E cells, saved : Write(cells, saved)
    BY <1>5 DEF ParserContinue, GetFileStore, fileVars
  <2>3. ASSUME NEW cells, NEW saved, Write(cells, saved) PROVE KeepsRows /\ DOMAIN items' = DOMAIN items
    BY <2>3, WriteKeepsRows DEF Write
  <2> QED BY <1>3, <1>4, <2>1, <2>2, <2>3
<1>6. CASE CloseFile
  BY <1>2, <1>6, CloseCounts DEF CloseFile
<1>7. CASE GetFileHeader
  <2> DEFINE row == [conn |-> cur, frame |-> pBuffer[cur][nOffset + 1].frame,
                     nRecved |-> 0, nStatus |-> FALSE]
  <2>1. row \in FileItem
    BY <1>7, HeaderType DEF GetFileHeader, FileItem, TypeOK
  <2>2. /\ items' = Append(items, row) /\ UNCHANGED m_nSavedFiles
    BY <1>7 DEF GetFileHeader
  <2>3. /\ \A i \in 1..Len(items) : items'[i] = items[i]
        /\ items'[Len(items) + 1] = row
        /\ DOMAIN items' = 1..(Len(items) + 1)
    <3> HIDE DEF row
    <3> QED BY <2>1, <2>2, AppendProperties, LenProperties DEF TypeOK
  <2>4. TrueRows' = TrueRows
    BY <2>3, RowIndexes DEF TrueRows
  <2> QED BY <1>2, <2>2, <2>4
<1>8. CASE Completion \/ Environment \/ OnTimer \/ UNCHANGED vars
  BY <1>4, <1>8 DEF Completion, Environment, Accept, AcceptError, OneMoreClient, Read, ReadEnd,
     PeerSend, PeerReset, OnTimer, vars, fileVars, dlgVars
<1>9. CASE \/ ParserThrows \/ ParserFresh \/ CloseThrows \/ OpenFile \/ GetFileThrows
           \/ GetFileDone \/ Compact \/ Catch \/ ReadAgain \/ SessionGone
  BY <1>4, <1>9 DEF ParserThrows, ParserFresh, CloseThrows, OpenFile, GetFileThrows, WriteThrows,
     GetFileDone, Compact, Catch, ReadAgain, SessionGone, fileVars, dlgVars
<1> QED BY <1>5, <1>6, <1>7, <1>8, <1>9 DEF Next, Handler

(***************************************************************************)
(* SavedCountAlways.  For any number of connections, files and failures    *)
(* the saved count shown is the number of rows that are true: CloseFile    *)
(* reaches each row at most once and always finds one that is not true.    *)
(***************************************************************************)
THEOREM SavedCountAlways == Spec => []SavedCount
<1>1. Init => SavedCount
  <2> SUFFICES ASSUME Init PROVE SavedCount
    OBVIOUS
  <2>1. DOMAIN items = {}
    BY DEF Init
  <2>2. TrueRows = {} /\ m_nSavedFiles = 0
    BY <2>1 DEF Init, TrueRows
  <2> QED BY <2>2, FS_EmptySet DEF SavedCount, TrueRows
<1>2. Owned /\ SavedCount /\ [Next]_vars => SavedCount'
  BY SavedCountStep
<1> QED BY OwnedAlways, <1>1, <1>2, PTL DEF Spec

-----------------------------------------------------------------------------
(* The rows shown and waiting. *)

\* 1, 2, ..., n
Upto(n) == [i \in 1..n |-> i]

LEMMA UptoType ==
    ASSUME NEW n \in Nat
    PROVE  /\ Upto(n) \in Seq(Nat) /\ Len(Upto(n)) = n
           /\ Append(Upto(n), n + 1) = Upto(n + 1)
<1>1. ASSUME NEW k \in Nat PROVE Upto(k) \in Seq(Nat) /\ Len(Upto(k)) = k
  <2>1. Upto(k) \in [1..k -> Nat]
    BY DEF Upto
  <2> QED BY <1>1, <2>1, SeqDef
<1>2. Upto(n) \in Seq(Nat) /\ Len(Upto(n)) = n /\ Upto(n + 1) \in Seq(Nat) /\ Len(Upto(n + 1)) = n + 1
  BY <1>1
<1>3. /\ Append(Upto(n), n + 1) \in Seq(Nat) /\ Len(Append(Upto(n), n + 1)) = n + 1
      /\ \A i \in 1..n : Append(Upto(n), n + 1)[i] = Upto(n)[i]
      /\ Append(Upto(n), n + 1)[n + 1] = n + 1
  BY <1>2, AppendProperties
<1>4. \A i \in 1..(n + 1) : Append(Upto(n), n + 1)[i] = Upto(n + 1)[i]
  BY <1>3 DEF Upto
<1> QED BY <1>2, <1>3, <1>4, SeqEqual

\* A row that is made is put behind all others.
LEMMA RowAppended ==
    ASSUME TypeOK, RowsOnce, GetFileHeader
    PROVE  RowsOnce'
<1> DEFINE n == Len(items)
           row == [conn |-> cur, frame |-> pBuffer[cur][nOffset + 1].frame,
                   nRecved |-> 0, nStatus |-> FALSE]
<1>1. /\ m_vecFileTemp' = Append(m_vecFileTemp, n + 1) /\ m_vecFileList' = m_vecFileList
      /\ items' = Append(items, row)
  BY DEF GetFileHeader
<1>2. row \in FileItem
  BY HeaderType DEF GetFileHeader, FileItem, TypeOK
<1>3. DOMAIN items' = 1..(n + 1) /\ n \in Nat
  <2> HIDE DEF row
  <2> QED BY <1>1, <1>2, AppendProperties, LenProperties DEF TypeOK
<1>4. m_vecFileList \in Seq(Nat) /\ m_vecFileTemp \in Seq(Nat)
  <2>1. 1..n \subseteq Nat
    BY <1>3
  <2> QED BY <2>1, SeqMonotonic DEF TypeOK
<1>5. m_vecFileList \o m_vecFileTemp = Upto(n)
  BY RowIndexes DEF RowsOnce, Upto
<1>6. m_vecFileList \o Append(m_vecFileTemp, n + 1) = Append(m_vecFileList \o m_vecFileTemp, n + 1)
  <2>1. n + 1 \in Nat /\ <<n + 1>> \in Seq(Nat)
    BY <1>3
  <2>2. /\ m_vecFileList \o m_vecFileTemp \in Seq(Nat)
        /\ Append(m_vecFileTemp, n + 1) = m_vecFileTemp \o <<n + 1>>
    BY <1>4, <2>1, ConcatProperties, AppendIsConcat
  <2>3. Append(m_vecFileList \o m_vecFileTemp, n + 1) =
          (m_vecFileList \o m_vecFileTemp) \o <<n + 1>>
    BY <2>1, <2>2, AppendIsConcat
  <2>4. (m_vecFileList \o m_vecFileTemp) \o <<n + 1>> =
          m_vecFileList \o (m_vecFileTemp \o <<n + 1>>)
    <3> HIDE DEF n
    <3> QED BY <1>4, <2>1, ConcatAssociative
  <2> QED BY <2>2, <2>3, <2>4
<1>7. m_vecFileList' \o m_vecFileTemp' = Upto(n + 1)
  BY <1>1, <1>3, <1>5, <1>6, UptoType
<1> QED BY <1>3, <1>7 DEF RowsOnce, Upto

\* OnTimer moves rows from one vector to the other and keeps their order.
LEMMA RowsMoved == ASSUME TypeOK, RowsOnce, OnTimer PROVE RowsOnce'
<1>1. m_vecFileList \o m_vecFileTemp \in Seq(1..Len(items))
  BY ConcatProperties DEF TypeOK
<1>2. m_vecFileList' \o m_vecFileTemp' = m_vecFileList \o m_vecFileTemp
  BY <1>1, ConcatEmptySeq DEF OnTimer, NoneWaiting
<1> QED BY <1>2 DEF RowsOnce, OnTimer, fileVars

LEMMA RowsStep == ASSUME Counted, RowsOnce, [Next]_vars PROVE RowsOnce'
<1> USE DEF Counted
<1>1. ASSUME UNCHANGED listVars, DOMAIN items' = DOMAIN items PROVE RowsOnce'
  BY <1>1 DEF RowsOnce, listVars
<1>2. ASSUME UNCHANGED <<listVars, items>> PROVE RowsOnce'
  BY <1>2 DEF RowsOnce, listVars
<1>3. CASE ParserContinue \/ GetFileStore \/ CloseFile
  <2>1. UNCHANGED listVars
    BY <1>3 DEF ParserContinue, GetFileStore, CloseFile
  <2>2. DOMAIN items' = DOMAIN items
    BY <1>3 DEF ParserContinue, GetFileStore, CloseFile, Write, fileVars
  <2> QED BY <1>1, <2>1, <2>2
<1>4. CASE Completion \/ Environment \/ UNCHANGED vars
  BY <1>2, <1>4 DEF Completion, Environment, Accept, AcceptError, Read, ReadEnd, PeerSend, PeerReset,
     vars, fileVars
<1>5. CASE \/ ParserThrows \/ ParserFresh \/ CloseThrows \/ OpenFile \/ GetFileThrows
           \/ GetFileDone \/ Compact \/ Catch \/ ReadAgain \/ SessionGone
  BY <1>2, <1>5 DEF ParserThrows, ParserFresh, CloseThrows, OpenFile, GetFileThrows, WriteThrows,
     GetFileDone, Compact, Catch, ReadAgain, SessionGone, fileVars
<1> QED BY <1>3, <1>4, <1>5, RowAppended, RowsMoved DEF Next, Handler

(***************************************************************************)
(* RowsOnceAlways.  However the sessions' push_back and the timer's swap   *)
(* of m_vecFileTemp interleave, every FileItem is on the list or waiting   *)
(* for it exactly once, in the order in which the items were made.         *)
(***************************************************************************)
THEOREM RowsOnceAlways == Spec => []RowsOnce
<1>1. Init => RowsOnce
  <2> SUFFICES ASSUME Init PROVE RowsOnce
    OBVIOUS
  <2>1. m_vecFileList \o m_vecFileTemp = <<>>
    BY ConcatEmptySeq, EmptySeq DEF Init
  <2>2. DOMAIN items = 1..0
    BY DEF Init
  <2>3. Upto(0) = <<>>
    BY UptoType, EmptySeq
  <2> QED BY <2>1, <2>2, <2>3 DEF RowsOnce, Upto
<1>2. Counted /\ RowsOnce /\ [Next]_vars => RowsOnce'
  BY RowsStep
<1> QED BY CountedAlways, <1>1, <1>2, PTL DEF Spec

-----------------------------------------------------------------------------
(* CountsAreMaxima.  A row keeps the frame it was made for, so only a new  *)
(* row can raise a maximum, and GetFile makes it together with the counts. *)

\* n is the largest of the counts k that the rows carry, 0 if there is none.
IsLargest(n, k) ==
    /\ n = 0 \/ \E i \in DOMAIN items : items[i].frame.counts[k] = n
    /\ \A i \in DOMAIN items : items[i].frame.counts[k] <= n

Largest == \A k \in Counter : IsLargest(m_nCounts[k], k)

LEMMA FrameCounts ==
    ASSUME TypeOK, NEW k \in Counter, NEW i \in DOMAIN items
    PROVE  items[i].frame.counts[k] \in Nat
<1>1. items[i] \in FileItem
  BY RowIndexes
<1> QED BY <1>1 DEF FileItem, Header

\* What a handler's step does to the rows and the counts, but for GetFileHeader.
LEMMA SameFrames ==
    ASSUME TypeOK, [Next]_vars, ~GetFileHeader
    PROVE  /\ m_nCounts' = m_nCounts /\ DOMAIN items' = DOMAIN items
           /\ \A i \in DOMAIN items : /\ items'[i].frame = items[i].frame
                                      /\ items'[i].conn = items[i].conn
<1>1. m_nCounts' = m_nCounts
  BY DEF Next, Completion, Environment, Handler, Accept, AcceptError, OneMoreClient, Read, ReadEnd,
     PeerSend, PeerReset, OnTimer, vars, dlgVars, ParserContinue, ParserThrows, ParserFresh,
     CloseFile, CloseThrows, OpenFile, GetFileStore, GetFileThrows, WriteThrows, GetFileDone,
     Compact, Catch, ReadAgain, SessionGone
<1>2. \A i \in DOMAIN items : items[i] \in FileItem
  BY RowIndexes
<1>3. CASE items' = items
  BY <1>1, <1>3
<1>4. CASE \E n : items' = [items EXCEPT ![pFileItem[cur]].nRecved = n]
  BY <1>1, <1>2, <1>4 DEF FileItem
<1>5. CASE items' = [items EXCEPT ![pFileItem[cur]].nStatus = TRUE]
  BY <1>1, <1>2, <1>5 DEF FileItem
<1> QED
  BY <1>3, <1>4, <1>5
  DEF Next, Completion, Environment, Handler, Accept, AcceptError, Read, ReadEnd,
     PeerSend, PeerReset, OnTimer, vars, fileVars, ParserContinue, ParserThrows, ParserFresh, Write,
     CloseFile, CloseThrows, OpenFile, GetFileStore, GetFileThrows, WriteThrows, GetFileDone,
     Compact, Catch, ReadAgain, SessionGone

LEMMA LargestStep == ASSUME TypeOK, Largest, [Next]_vars PROVE Largest'
<1>1. CASE ~GetFileHeader
  <2> SUFFICES ASSUME NEW k \in Counter PROVE IsLargest(m_nCounts[k], k)'
    BY DEF Largest
  <2>1. IsLargest(m_nCounts[k], k)
    BY DEF Largest
  <2> QED BY <1>1, <2>1, SameFrames DEF IsLargest
<1>2. CASE GetFileHeader
  <2> DEFINE header == pBuffer[cur][nOffset + 1].frame
             row == [conn |-> cur, frame |-> header, nRecved |-> 0, nStatus |-> FALSE]
  <2>1. header \in Header /\ row \in FileItem /\ row.frame = header
    BY <1>2, HeaderType DEF GetFileHeader, FileItem, TypeOK
  <2>2. items' = Append(items, row) /\ m_nCounts' = RaisedCounts(header)
    BY <1>2 DEF GetFileHeader
  <2> HIDE DEF row, header
  <2>3. /\ DOMAIN items = 1..Len(items) /\ DOMAIN items' = 1..(Len(items) + 1)
        /\ Len(items) \in Nat /\ items'[Len(items) + 1] = row
        /\ \A i \in 1..Len(items) : items'[i] = items[i]
    BY <2>1, <2>2, AppendProperties, RowIndexes, LenProperties DEF TypeOK
  <2> SUFFICES ASSUME NEW k \in Counter PROVE IsLargest(m_nCounts[k], k)'
    BY DEF Largest
  <2>4. IsLargest(m_nCounts[k], k) /\ m_nCounts[k] \in Nat /\ header.counts[k] \in Nat
    BY <2>1 DEF Largest, Header, TypeOK
  <2>5. m_nCounts'[k] = IF m_nCounts[k] < header.counts[k] THEN header.counts[k] ELSE m_nCounts[k]
    BY <2>2 DEF RaisedCounts
  <2>6. \A i \in 1..Len(items) : items[i].frame.counts[k] \in Nat
    BY <2>3, FrameCounts
  <2>7. \A i \in DOMAIN items' : items'[i].frame.counts[k] <= m_nCounts'[k]
    BY <2>1, <2>3, <2>4, <2>5, <2>6 DEF IsLargest
  <2>8. m_nCounts'[k] = 0 \/ \E i \in DOMAIN items' : items'[i].frame.counts[k] = m_nCounts'[k]
    BY <2>1, <2>3, <2>4, <2>5 DEF IsLargest
  <2> QED BY <2>7, <2>8 DEF IsLargest
<1> QED BY <1>1, <1>2

\* The largest is what Max is.
LEMMA LargestIsMax ==
    ASSUME TypeOK, NEW k \in Counter, NEW n \in Nat, IsLargest(n, k)
    PROVE  n = Max({0} \cup {items[i].frame.counts[k] : i \in DOMAIN items})
<1> DEFINE S == {0} \cup {items[i].frame.counts[k] : i \in DOMAIN items}
<1>1. S \subseteq Nat
  BY FrameCounts
<1>2. n \in S /\ \A y \in S : n >= y
  BY FrameCounts DEF IsLargest
<1>3. \A x \in S : (\A y \in S : x >= y) => x = n
  BY <1>1, <1>2
<1> HIDE DEF S
<1>4. Max(S) = n
  BY <1>2, <1>3 DEF Max
<1> QED BY <1>4 DEF S

(***************************************************************************)
(* CountsAreMaximaAlways.  For any connections and frames: the counters    *)
(* shown are the largest a parsed header carried, whatever the order the   *)
(* headers of different connections come in (GetFile).                     *)
(***************************************************************************)
THEOREM CountsAreMaximaAlways == Spec => []CountsAreMaxima
<1>1. Init => Largest
  BY EmptySeq DEF Init, Largest, IsLargest
<1>2. Counted /\ Largest /\ [Next]_vars => Largest'
  BY LargestStep DEF Counted
<1>3. Counted /\ Largest => CountsAreMaxima
  <2> SUFFICES ASSUME TypeOK, Largest, NEW k \in Counter
               PROVE  m_nCounts[k] = Max({0} \cup {items[i].frame.counts[k] : i \in DOMAIN items})
    BY DEF Counted, CountsAreMaxima
  <2>1. m_nCounts[k] \in Nat
    BY DEF TypeOK
  <2> QED BY <2>1, LargestIsMax DEF Largest
<1> QED BY CountedAlways, <1>1, <1>2, <1>3, PTL DEF Spec

-----------------------------------------------------------------------------
(* Frames as sequences of cells. *)

\* The cells of f after the a-th, up to the b-th; and those of its content.
Cut(f, a, b) == [i \in 1..(b - a) |-> CellOf(f, a + i)]

Piece(f, a, b) == Cut(f, HeaderSize + a, HeaderSize + b)

\* The cells of frames sent one after the other.
Flow(fs) == FlattenSeq([j \in DOMAIN fs |-> FrameCells(fs[j])])

LEMMA CutType ==
    ASSUME NEW f \in Frame, NEW a \in Nat, NEW b \in Nat, a <= b
    PROVE  /\ Cut(f, a, b) \in Seq(Cells) /\ Len(Cut(f, a, b)) = b - a
           /\ \A i \in 1..(b - a) : Cut(f, a, b)[i] = CellOf(f, a + i)
<1>1. b - a \in Nat /\ \A i \in 1..(b - a) : a + i \in Nat \ {0}
  OBVIOUS
<1>2. Cut(f, a, b) \in [1..(b - a) -> Cells]
  BY <1>1, CellOfType DEF Cut
<1> QED BY <1>1, <1>2, SeqDef DEF Cut

LEMMA CutConcat ==
    ASSUME NEW f \in Frame, NEW a \in Nat, NEW b \in Nat, NEW d \in Nat, a <= b, b <= d
    PROVE  Cut(f, a, b) \o Cut(f, b, d) = Cut(f, a, d)
<1> DEFINE p == Cut(f, a, b)
           q == Cut(f, b, d)
           r == Cut(f, a, d)
<1>1. /\ p \in Seq(Cells) /\ Len(p) = b - a
      /\ \A i \in 1..(b - a) : p[i] = CellOf(f, a + i)
  BY CutType
<1>2. /\ q \in Seq(Cells) /\ Len(q) = d - b
      /\ \A i \in 1..(d - b) : q[i] = CellOf(f, b + i)
  BY CutType
<1>3. /\ r \in Seq(Cells) /\ Len(r) = d - a
      /\ \A i \in 1..(d - a) : r[i] = CellOf(f, a + i)
  BY CutType
<1> HIDE DEF p, q, r
<1>4. /\ p \o q \in Seq(Cells) /\ Len(p \o q) = Len(p) + Len(q)
      /\ \A i \in 1..(Len(p) + Len(q)) : (p \o q)[i] = IF i <= Len(p) THEN p[i] ELSE q[i - Len(p)]
  BY ONLY <1>1, <1>2, ConcatProperties
<1>5. Len(p) + Len(q) = d - a
  BY <1>1, <1>2
<1>6. ASSUME NEW i \in 1..(d - a) PROVE (p \o q)[i] = r[i]
  <2>1. (p \o q)[i] = IF i <= b - a THEN p[i] ELSE q[i - (b - a)]
    BY <1>1, <1>4, <1>5
  <2>2. CASE i <= b - a
    BY <1>1, <1>3, <2>1, <2>2
  <2>3. CASE ~(i <= b - a)
    <3>1. i - (b - a) \in 1..(d - b) /\ b + (i - (b - a)) = a + i
      BY <2>3
    <3>2. q[i - (b - a)] = CellOf(f, b + (i - (b - a)))
      BY <1>2, <3>1
    <3> QED BY <1>3, <2>1, <2>3, <3>1, <3>2
  <2> QED BY <2>2, <2>3
<1>7. p \o q = r
  BY <1>3, <1>4, <1>5, <1>6, SeqEqual
<1> QED BY <1>7 DEF p, q, r

LEMMA CutEmpty == ASSUME NEW f, NEW a \in Nat PROVE Cut(f, a, a) = <<>>
<1>1. DOMAIN Cut(f, a, a) = {}
  BY DEF Cut
<1> QED BY <1>1 DEF Cut

LEMMA HeaderSizeIs == HeaderSize \in Nat /\ HeadCells <= HeaderSize /\ HeadCells \in Nat \ {0}
BY FrameAssumption DEF HeaderSize

LEMMA PieceType ==
    ASSUME NEW f \in Frame, NEW a \in Nat, NEW b \in Nat, a <= b
    PROVE  /\ Piece(f, a, b) \in Seq(Cells) /\ Len(Piece(f, a, b)) = b - a
           /\ \A i \in 1..(b - a) : Piece(f, a, b)[i] = Cell("body", f, a + i)
<1>1. /\ HeaderSize + a \in Nat /\ HeaderSize + b \in Nat /\ HeaderSize + a <= HeaderSize + b
      /\ (HeaderSize + b) - (HeaderSize + a) = b - a
  BY HeaderSizeIs
<1>2. /\ Piece(f, a, b) \in Seq(Cells) /\ Len(Piece(f, a, b)) = b - a
      /\ \A i \in 1..(b - a) : Piece(f, a, b)[i] = CellOf(f, (HeaderSize + a) + i)
  <2> DEFINE a2 == HeaderSize + a
             b2 == HeaderSize + b
  <2>1. a2 \in Nat /\ b2 \in Nat /\ a2 <= b2 /\ b2 - a2 = b - a
    BY <1>1
  <2> HIDE DEF a2, b2
  <2>2. /\ Cut(f, a2, b2) \in Seq(Cells) /\ Len(Cut(f, a2, b2)) = b2 - a2
        /\ \A i \in 1..(b2 - a2) : Cut(f, a2, b2)[i] = CellOf(f, a2 + i)
    BY <2>1, CutType
  <2> QED BY <2>1, <2>2 DEF Piece, a2, b2
<1>3. \A i \in 1..(b - a) : CellOf(f, (HeaderSize + a) + i) = Cell("body", f, a + i)
  <2> TAKE i \in 1..(b - a)
  <2>1. ~((HeaderSize + a) + i <= HeaderSize) /\ ((HeaderSize + a) + i) - HeaderSize = a + i
    BY HeaderSizeIs
  <2> QED BY <2>1 DEF CellOf
<1> QED BY <1>2, <1>3

LEMMA PieceOfBody == ASSUME NEW f \in Frame, NEW n \in Nat PROVE BodyOf(f, n) = Piece(f, 0, n)
<1>1. /\ Piece(f, 0, n) \in Seq(Cells) /\ Len(Piece(f, 0, n)) = n
      /\ \A i \in 1..n : Piece(f, 0, n)[i] = Cell("body", f, i)
  <2>1. 0 \in Nat /\ 0 <= n /\ n - 0 = n /\ \A i \in 1..n : 0 + i = i
    OBVIOUS
  <2>2. /\ Piece(f, 0, n) \in Seq(Cells) /\ Len(Piece(f, 0, n)) = n - 0
        /\ \A i \in 1..(n - 0) : Piece(f, 0, n)[i] = Cell("body", f, 0 + i)
    BY <2>1, PieceType
  <2> QED BY <2>1, <2>2
<1>2. DOMAIN Piece(f, 0, n) = 1..n /\ DOMAIN BodyOf(f, n) = 1..n
  BY <1>1, LenProperties DEF BodyOf
<1>3. BodyOf(f, n) \in [1..n -> Cells]
  <2>1. \A i \in 1..n : BodyOf(f, n)[i] = Piece(f, 0, n)[i]
    BY <1>1 DEF BodyOf
  <2>2. \A i \in 1..n : Piece(f, 0, n)[i] \in Cells
    BY <1>1, ElementOfSeq
  <2> QED BY <2>1, <2>2 DEF BodyOf
<1>4. BodyOf(f, n) \in Seq(Cells) /\ Len(BodyOf(f, n)) = n
  BY <1>3, FunctionIsSeq
<1>5. \A i \in 1..n : BodyOf(f, n)[i] = Piece(f, 0, n)[i]
  BY <1>1 DEF BodyOf
<1> QED BY <1>1, <1>4, <1>5, SeqEqual

LEMMA PieceConcat ==
    ASSUME NEW f \in Frame, NEW a \in Nat, NEW b \in Nat, NEW d \in Nat, a <= b, b <= d
    PROVE  Piece(f, a, b) \o Piece(f, b, d) = Piece(f, a, d)
<1>1. /\ HeaderSize + a \in Nat /\ HeaderSize + b \in Nat /\ HeaderSize + d \in Nat
      /\ HeaderSize + a <= HeaderSize + b /\ HeaderSize + b <= HeaderSize + d
  BY HeaderSizeIs
<1> QED BY <1>1, CutConcat DEF Piece

LEMMA PieceEmpty == ASSUME NEW f, NEW a \in Nat PROVE Piece(f, a, a) = <<>>
<1>1. HeaderSize + a \in Nat
  BY HeaderSizeIs
<1> QED BY <1>1, CutEmpty DEF Piece

\* The header of a frame, and the frame.
LEMMA HeadShape ==
    ASSUME NEW f \in Frame
    PROVE  /\ HeaderSize \in Nat /\ HeadCells <= HeaderSize /\ HeadCells \in Nat \ {0}
           /\ HeadOf(f) \in Seq(Cells) /\ Len(HeadOf(f)) = HeaderSize
           /\ HeadOf(f) = Cut(f, 0, HeaderSize)
           /\ \A k \in 1..HeadCells : HeadOf(f)[k] = Cell("head", f, k)
<1>1. /\ Cut(f, 0, HeaderSize) \in Seq(Cells) /\ Len(Cut(f, 0, HeaderSize)) = HeaderSize
      /\ \A k \in 1..HeaderSize : Cut(f, 0, HeaderSize)[k] = HeadOf(f)[k]
  <2>1. /\ HeaderSize - 0 = HeaderSize /\ 0 \in Nat /\ 0 <= HeaderSize
        /\ \A k \in 1..HeaderSize : 0 + k = k /\ k <= HeaderSize
    BY HeaderSizeIs
  <2>2. \A k \in 1..HeaderSize : CellOf(f, k) = HeadOf(f)[k]
    BY <2>1 DEF CellOf
  <2>3. /\ Cut(f, 0, HeaderSize) \in Seq(Cells) /\ Len(Cut(f, 0, HeaderSize)) = HeaderSize - 0
        /\ \A k \in 1..(HeaderSize - 0) : Cut(f, 0, HeaderSize)[k] = CellOf(f, 0 + k)
    BY <2>1, HeaderSizeIs, CutType
  <2> QED BY <2>1, <2>2, <2>3
<1>2. HeadOf(f) \in [1..HeaderSize -> Cells]
  <2>1. \A k \in 1..HeaderSize : HeadOf(f)[k] \in Cells
    BY <1>1, ElementOfSeq
  <2> QED BY <2>1 DEF HeadOf
<1>3. HeadOf(f) \in Seq(Cells) /\ Len(HeadOf(f)) = HeaderSize
  BY <1>2, HeaderSizeIs, FunctionIsSeq
<1>4. HeadOf(f) = Cut(f, 0, HeaderSize)
  BY <1>1, <1>3, SeqEqual
<1>5. \A k \in 1..HeadCells : HeadOf(f)[k] = Cell("head", f, k)
  BY HeaderSizeIs DEF HeadOf
<1> QED BY <1>3, <1>4, <1>5, HeaderSizeIs

LEMMA FrameIsCut ==
    ASSUME NEW f \in Frame
    PROVE  FrameCells(f) = Cut(f, 0, f.sent) /\ f.sent \in Nat \ {0} /\ f.nFileSize \in Nat
<1>1. f.sent \in Nat \ {0} /\ f.nFileSize \in Nat
  BY DEF Frame
<1>2. f.sent - 0 = f.sent /\ \A k \in 1..f.sent : 0 + k = k
  BY <1>1
<1> QED BY <1>1, <1>2 DEF FrameCells, Cut

LEMMA FirstCell == ASSUME NEW f \in Frame PROVE FrameCells(f)[1] = Cell("head", f, 1)
<1>1. 1 \in 1..f.sent /\ 1 \in 1..HeadCells /\ 1 <= HeaderSize
  BY FrameIsCut, HeaderSizeIs
<1>2. HeadOf(f)[1] = Cell("head", f, 1)
  BY <1>1, HeadShape
<1> QED BY <1>1, <1>2 DEF FrameCells, CellOf

LEMMA FrameStart ==
    ASSUME NEW f \in Frame, f.sent >= HeaderSize
    PROVE  /\ FrameCells(f) = HeadOf(f) \o Cut(f, HeaderSize, f.sent)
           /\ Cut(f, HeaderSize, f.sent) \in Seq(Cells)
<1>1. f.sent \in Nat /\ HeaderSize \in Nat /\ 0 \in Nat /\ 0 <= HeaderSize /\ HeaderSize <= f.sent
  BY FrameIsCut, HeaderSizeIs
<1>2. Cut(f, 0, HeaderSize) \o Cut(f, HeaderSize, f.sent) = Cut(f, 0, f.sent)
  BY <1>1, CutConcat
<1>3. Cut(f, HeaderSize, f.sent) \in Seq(Cells)
  BY <1>1, CutType
<1>4. FrameCells(f) = Cut(f, 0, f.sent) /\ HeadOf(f) = Cut(f, 0, HeaderSize)
  BY FrameIsCut, HeadShape
<1> QED BY <1>2, <1>3, <1>4

LEMMA FrameShape ==
    ASSUME NEW f \in Frame, IsWhole(f)
    PROVE  FrameCells(f) = HeadOf(f) \o Piece(f, 0, f.nFileSize)
<1>1. f.sent >= HeaderSize /\ HeaderSize + 0 = HeaderSize
  BY FrameIsCut, HeaderSizeIs DEF IsWhole
<1> QED BY <1>1, FrameStart DEF Piece, IsWhole

LEMMA CellsOfFrames ==
    ASSUME NEW fs \in Seq(Frame)
    PROVE  /\ [j \in DOMAIN fs |-> FrameCells(fs[j])] \in Seq(Seq(Cells))
           /\ Len([j \in DOMAIN fs |-> FrameCells(fs[j])]) = Len(fs)
<1>1. DOMAIN fs = 1..Len(fs) /\ Len(fs) \in Nat /\ \A j \in 1..Len(fs) : fs[j] \in Frame
  BY LenProperties, ElementOfSeq
<1>2. \A j \in 1..Len(fs) : FrameCells(fs[j]) \in Seq(Cells)
  BY <1>1, FrameCellsType
<1>3. [j \in DOMAIN fs |-> FrameCells(fs[j])] \in [1..Len(fs) -> Seq(Cells)]
  BY <1>1, <1>2
<1> QED BY <1>1, <1>3, SeqDef

LEMMA FlowType == ASSUME NEW fs \in Seq(Frame) PROVE Flow(fs) \in Seq(Cells)
BY CellsOfFrames, FlattenType DEF Flow

LEMMA FlowEmpty == Flow(<<>>) = <<>>
<1>1. DOMAIN <<>> = {}
  OBVIOUS
<1>2. [j \in DOMAIN <<>> |-> FrameCells(<<>>[j])] = <<>>
  BY <1>1
<1> QED BY <1>2, FlattenEmpty DEF Flow

\* The first frame's cells come first.
LEMMA FlowFirst ==
    ASSUME NEW fs \in Seq(Frame), fs # <<>>
    PROVE  /\ Head(fs) \in Frame /\ Tail(fs) \in Seq(Frame)
           /\ Flow(fs) = FrameCells(Head(fs)) \o Flow(Tail(fs))
<1> DEFINE all == [j \in DOMAIN fs |-> FrameCells(fs[j])]
           first == FrameCells(Head(fs))
           others == [j \in DOMAIN Tail(fs) |-> FrameCells(Tail(fs)[j])]
<1>1. /\ Head(fs) \in Frame /\ Tail(fs) \in Seq(Frame) /\ Len(Tail(fs)) = Len(fs) - 1
      /\ \A i \in 1..Len(Tail(fs)) : Tail(fs)[i] = fs[i + 1]
  BY HeadTailProperties
<1>2. Len(fs) \in Nat \ {0} /\ Head(fs) = fs[1]
  BY EmptySeq
<1>3. /\ all \in Seq(Seq(Cells)) /\ Len(all) = Len(fs)
      /\ others \in Seq(Seq(Cells)) /\ Len(others) = Len(fs) - 1
      /\ first \in Seq(Cells)
  BY <1>1, CellsOfFrames, FrameCellsType
<1>4. \A i \in 1..Len(fs) : all[i] = FrameCells(fs[i])
  BY LenProperties
<1>5. \A i \in 1..(Len(fs) - 1) : others[i] = FrameCells(fs[i + 1])
  BY <1>1, LenProperties
<1>6. <<first>> \in Seq(Seq(Cells)) /\ Len(<<first>>) = 1 /\ <<first>>[1] = FrameCells(fs[1])
  BY <1>2, <1>3
<1> HIDE DEF all, first, others
<1>7. /\ <<first>> \o others \in Seq(Seq(Cells))
      /\ Len(<<first>> \o others) = Len(<<first>>) + Len(others)
      /\ \A i \in 1..(Len(<<first>>) + Len(others)) : (<<first>> \o others)[i] =
            IF i <= Len(<<first>>) THEN <<first>>[i] ELSE others[i - Len(<<first>>)]
  BY <1>3, <1>6, ConcatProperties
<1>8. Len(<<first>> \o others) = Len(all)
  BY <1>2, <1>3, <1>6, <1>7
<1>9. ASSUME NEW i \in 1..Len(fs) PROVE (<<first>> \o others)[i] = all[i]
  <2>1. (<<first>> \o others)[i] = IF i <= 1 THEN <<first>>[i] ELSE others[i - 1]
    BY <1>2, <1>3, <1>6, <1>7
  <2>2. CASE i = 1
    BY <1>2, <1>4, <1>6, <2>1, <2>2
  <2>3. CASE i # 1
    <3>1. i - 1 \in 1..(Len(fs) - 1) /\ (i - 1) + 1 = i
      BY <1>2, <2>3
    <3>2. others[i - 1] = FrameCells(fs[(i - 1) + 1])
      BY <1>5, <3>1
    <3>3. (<<first>> \o others)[i] = others[i - 1]
      <4>1. ~(i <= 1)
        BY <1>2, <2>3
      <4> QED BY <2>1, <4>1
    <3> QED BY <1>4, <3>1, <3>2, <3>3
  <2> QED BY <2>2, <2>3
<1>10. all = <<first>> \o others
  BY <1>3, <1>7, <1>8, <1>9, SeqEqual
<1>11. FlattenSeq(all) = first \o FlattenSeq(others)
  BY <1>3, <1>10, FlattenFirst
<1> QED BY <1>1, <1>11 DEF all, first, others, Flow

-----------------------------------------------------------------------------
(* The rows of a connection. *)

\* What RowsIn flattens.
Marks(c) == [i \in DOMAIN items |-> IF items[i].conn = c THEN <<i>> ELSE <<>>]

\* RowsIn(c) names rows of c, each once.
Listed ==
    \A c \in Conns :
        /\ RowsIn(c) \in Seq(Nat)
        /\ \A j \in 1..Len(RowsIn(c)) : /\ RowsIn(c)[j] \in 1..Len(items)
                                        /\ items[RowsIn(c)[j]].conn = c
        /\ \A j, k \in 1..Len(RowsIn(c)) : RowsIn(c)[j] = RowsIn(c)[k] => j = k

LEMMA MarksType ==
    ASSUME TypeOK, NEW c
    PROVE  Marks(c) \in Seq(Seq(Nat)) /\ Len(Marks(c)) = Len(items)
<1>1. DOMAIN items = 1..Len(items) /\ Len(items) \in Nat
  BY RowIndexes
<1>2. \A i \in 1..Len(items) : <<i>> \in Seq(Nat) /\ <<>> \in Seq(Nat)
  BY <1>1, EmptySeq
<1>3. Marks(c) \in [1..Len(items) -> Seq(Nat)]
  BY <1>1, <1>2 DEF Marks
<1> QED BY <1>1, <1>3, SeqDef

LEMMA RowsInType == ASSUME TypeOK, NEW c PROVE RowsIn(c) \in Seq(Nat)
BY MarksType, FlattenType DEF RowsIn, Marks

\* As long as no row is made and none changes hands,
LEMMA SameRowsIn ==
    ASSUME NEW c, DOMAIN items' = DOMAIN items,
           \A i \in DOMAIN items : items'[i].conn = items[i].conn
    PROVE  RowsIn(c)' = RowsIn(c)
<1>1. Marks(c)' = Marks(c)
  BY DEF Marks
<1> QED BY <1>1 DEF RowsIn, Marks

\* and when one is made.
LEMMA RowAdded ==
    ASSUME TypeOK, NEW row \in FileItem, items' = Append(items, row), NEW c
    PROVE  RowsIn(c)' = IF row.conn = c THEN Append(RowsIn(c), Len(items) + 1) ELSE RowsIn(c)
<1> DEFINE n == Len(items)
           mark == IF row.conn = c THEN <<n + 1>> ELSE <<>>
<1>1. /\ DOMAIN items = 1..n /\ n \in Nat /\ DOMAIN items' = 1..(n + 1)
      /\ items'[n + 1] = row /\ \A i \in 1..n : items'[i] = items[i]
  BY RowIndexes, AppendProperties, LenProperties DEF TypeOK
<1>2. mark \in Seq(Nat)
  BY <1>1, EmptySeq
<1>3. Marks(c) \in Seq(Seq(Nat)) /\ Len(Marks(c)) = n
  BY MarksType
<1>4. \A i \in 1..n : Marks(c)[i] = IF items[i].conn = c THEN <<i>> ELSE <<>>
  BY <1>1 DEF Marks
<1>5. /\ DOMAIN Marks(c)' = 1..(n + 1)
      /\ \A i \in 1..(n + 1) : Marks(c)'[i] = IF items'[i].conn = c THEN <<i>> ELSE <<>>
  BY <1>1 DEF Marks
<1> HIDE DEF mark, n
<1>6. /\ Append(Marks(c), mark) \in Seq(Seq(Nat)) /\ Len(Append(Marks(c), mark)) = n + 1
      /\ \A i \in 1..n : Append(Marks(c), mark)[i] = Marks(c)[i]
      /\ Append(Marks(c), mark)[n + 1] = mark
  BY <1>2, <1>3, AppendProperties
<1>7. /\ \A i \in 1..n : Marks(c)'[i] = Marks(c)[i]
      /\ Marks(c)'[n + 1] = mark
  <2>1. /\ \A i \in 1..n : i \in 1..(n + 1) /\ items'[i].conn = items[i].conn
        /\ n + 1 \in 1..(n + 1) /\ items'[n + 1].conn = row.conn
    BY <1>1
  <2>2. \A i \in 1..n : Marks(c)'[i] = Marks(c)[i]
    BY <1>4, <1>5, <2>1
  <2>3. Marks(c)'[n + 1] = mark
    BY <1>5, <2>1 DEF mark
  <2> QED BY <2>2, <2>3
<1>8. Marks(c)' \in Seq(Seq(Nat)) /\ Len(Marks(c)') = n + 1
  <2>1. \A i \in 1..(n + 1) : <<i>> \in Seq(Nat) /\ <<>> \in Seq(Nat)
    BY <1>1, EmptySeq
  <2>2. Marks(c)' = [i \in 1..(n + 1) |-> IF items'[i].conn = c THEN <<i>> ELSE <<>>]
    BY <1>1 DEF Marks
  <2>3. Marks(c)' \in [1..(n + 1) -> Seq(Nat)]
    BY <2>1, <2>2
  <2> QED BY <1>1, <2>3, SeqDef
<1>9. \A i \in 1..(n + 1) : Marks(c)'[i] = Append(Marks(c), mark)[i]
  BY <1>1, <1>6, <1>7
<1>10. Marks(c)' = Append(Marks(c), mark)
  BY <1>6, <1>8, <1>9, SeqEqual
<1>11. RowsIn(c)' = RowsIn(c) \o mark
  <2>1. FlattenSeq(Append(Marks(c), mark)) = FlattenSeq(Marks(c)) \o mark
    BY <1>2, <1>3, FlattenLast
  <2> QED BY <1>10, <2>1 DEF RowsIn, Marks
<1>12. RowsIn(c) \in Seq(Nat)
  BY RowsInType
<1>13. CASE row.conn = c
  <2>1. n + 1 \in Nat /\ mark = <<n + 1>>
    BY <1>1, <1>13 DEF mark
  <2> QED BY <1>11, <1>12, <1>13, <2>1, AppendIsConcat DEF n
<1>14. CASE row.conn # c
  <2>1. mark = <<>>
    BY <1>14 DEF mark
  <2> QED BY <1>11, <1>12, <1>14, <2>1, ConcatEmptySeq
<1> QED BY <1>13, <1>14

LEMMA RowsAre ==
    ASSUME TypeOK, Listed, NEW c \in Conns
    PROVE  /\ Len(RowsIn(c)) \in Nat /\ DOMAIN RowsIn(c) = 1..Len(RowsIn(c))
           /\ Rows(c) \in Seq(FileItem) /\ Len(Rows(c)) = Len(RowsIn(c))
           /\ DOMAIN Rows(c) = 1..Len(RowsIn(c))
           /\ CopiesOf(c) \in Seq(Seq(Cells)) /\ Len(CopiesOf(c)) = Len(RowsIn(c))
           /\ DOMAIN CopiesOf(c) = 1..Len(RowsIn(c))
           /\ \A j \in 1..Len(RowsIn(c)) : /\ Rows(c)[j] = items[RowsIn(c)[j]]
                                           /\ CopiesOf(c)[j] = disk[RowsIn(c)[j]]
                                           /\ Rows(c)[j] \in FileItem
                                           /\ CopiesOf(c)[j] \in Seq(Cells)
<1>1. /\ Len(RowsIn(c)) \in Nat /\ DOMAIN RowsIn(c) = 1..Len(RowsIn(c))
      /\ \A j \in 1..Len(RowsIn(c)) : RowsIn(c)[j] \in 1..Len(items)
  BY LenProperties DEF Listed
<1>2. \A i \in 1..Len(items) : items[i] \in FileItem /\ disk[i] \in Seq(Cells)
  BY ElementOfSeq DEF TypeOK
<1>3. /\ Rows(c) \in [1..Len(RowsIn(c)) -> FileItem]
      /\ CopiesOf(c) \in [1..Len(RowsIn(c)) -> Seq(Cells)]
  BY <1>1, <1>2 DEF Rows, CopiesOf
<1>4. /\ Rows(c) \in Seq(FileItem) /\ Len(Rows(c)) = Len(RowsIn(c))
      /\ CopiesOf(c) \in Seq(Seq(Cells)) /\ Len(CopiesOf(c)) = Len(RowsIn(c))
  BY <1>1, <1>3, FunctionIsSeq
<1> QED BY <1>1, <1>2, <1>3, <1>4 DEF Rows, CopiesOf

-----------------------------------------------------------------------------
(* A session's step leaves the rows and files of the others alone. *)

LEMMA RowsKept ==
    ASSUME TypeOK, Listed, NEW c \in Conns, RowsIn(c)' = RowsIn(c),
           \A i \in 1..Len(items) : items[i].conn = c => items'[i] = items[i] /\ disk'[i] = disk[i]
    PROVE  Rows(c)' = Rows(c) /\ CopiesOf(c)' = CopiesOf(c)
<1>1. /\ DOMAIN RowsIn(c) = 1..Len(RowsIn(c))
      /\ \A j \in 1..Len(RowsIn(c)) : RowsIn(c)[j] \in 1..Len(items) /\ items[RowsIn(c)[j]].conn = c
  BY RowsAre DEF Listed
<1>2. \A j \in DOMAIN RowsIn(c) : items'[RowsIn(c)[j]] = items[RowsIn(c)[j]]
                                  /\ disk'[RowsIn(c)[j]] = disk[RowsIn(c)[j]]
  BY <1>1
<1> QED BY <1>2 DEF Rows, CopiesOf

SameRows(c) == RowsIn(c)' = RowsIn(c) /\ Rows(c)' = Rows(c) /\ CopiesOf(c)' = CopiesOf(c)

LEMMA SameRowsIfUnchanged == ASSUME NEW c, UNCHANGED <<items, disk>> PROVE SameRows(c)
BY DEF SameRows, RowsIn, Rows, CopiesOf

\* Of the rows that were there a write touches the one of the session served.
LEMMA WriteOthers ==
    ASSUME Owned, NEW cells, NEW saved, Write(cells, saved)
    PROVE  /\ DOMAIN items' = DOMAIN items
           /\ \A i \in 1..Len(items) : /\ items'[i].conn = items[i].conn
                                       /\ i # pFileItem[cur] => items'[i] = items[i] /\ disk'[i] = disk[i]
           /\ pFileItem[cur] \in 1..Len(items) /\ items[pFileItem[cur]].conn = cur
           /\ FileSave[cur] = pFileItem[cur]
<1>1. cur \in Conns /\ FileSave[cur] # 0 /\ pFileItem[cur] = FileSave[cur]
  BY DEF Owned, Counted, TypeOK, OneFile, Write
<1>2. pFileItem[cur] \in 1..Len(items) /\ items[pFileItem[cur]].conn = cur
  BY <1>1, RowIndexes DEF Owned, Counted, OneFile
<1>3. \A i \in 1..Len(items) : items'[i].conn = items[i].conn
  BY WriteKeepsRows DEF Owned, Counted, KeepsRows
<1>4. /\ disk' = [disk EXCEPT ![FileSave[cur]] = @ \o cells]
      /\ items' = [items EXCEPT ![pFileItem[cur]].nRecved = saved]
      /\ DOMAIN items = 1..Len(items) /\ DOMAIN disk = 1..Len(items)
  BY RowIndexes DEF Owned, Counted, Write
<1> QED BY <1>1, <1>2, <1>3, <1>4

LEMMA HandlerOthers ==
    ASSUME Owned, Listed, Handler, NEW c \in Conns, c # cur
    PROVE  SameRows(c)
<1> USE DEF Owned, Counted
<1>1. DOMAIN items = 1..Len(items) /\ DOMAIN disk = 1..Len(items) /\ cur \in Conns
  BY RowIndexes DEF TypeOK
<1>2. ASSUME DOMAIN items' = DOMAIN items,
             \A i \in 1..Len(items) : items'[i].conn = items[i].conn,
             \A i \in 1..Len(items) : items[i].conn = c => items'[i] = items[i] /\ disk'[i] = disk[i]
      PROVE  SameRows(c)
  <2>1. RowsIn(c)' = RowsIn(c)
    BY <1>1, <1>2, SameRowsIn
  <2> QED BY <1>2, <2>1, RowsKept DEF SameRows
<1>3. ASSUME NEW cells, NEW saved, Write(cells, saved) PROVE SameRows(c)
  BY <1>2, <1>3, WriteOthers
<1>4. ASSUME NEW cells, WriteThrows(cells) PROVE SameRows(c)
  <2>1. items' = items
    BY <1>4 DEF WriteThrows
  <2>2. \A i \in 1..Len(items) : i # FileSave[cur] => disk'[i] = disk[i]
    BY <1>1, <1>4 DEF WriteThrows
  <2>3. FileSave[cur] # 0 => items[FileSave[cur]].conn = cur
    BY <1>1 DEF OneFile, TypeOK
  <2>4. \A i \in 1..Len(items) : items[i].conn = c => i # FileSave[cur]
    BY <1>1, <2>3, RowIndexes
  <2> QED BY <1>2, <2>1, <2>2, <2>4
<1>5. CASE ParserContinue \/ GetFileStore
  BY <1>3, <1>5, SameRowsIfUnchanged DEF ParserContinue, GetFileStore, fileVars
<1>6. CASE ParserThrows \/ GetFileThrows
  BY <1>4, <1>6 DEF ParserThrows, GetFileThrows
<1>7. CASE CloseFile
  <2>1. items' = [items EXCEPT ![pFileItem[cur]].nStatus = TRUE] /\ disk' = disk
    BY <1>7 DEF CloseFile
  <2>2. /\ pFileItem[cur] \in 1..Len(items) /\ items[pFileItem[cur]].conn = cur
    BY <1>1, <1>7, RowIndexes DEF CloseFile, Inside, Underway, OneFile, TypeOK
  <2>3. \A i \in 1..Len(items) : items'[i].conn = items[i].conn
    BY <2>1, RowIndexes DEF FileItem
  <2> QED BY <1>1, <1>2, <2>1, <2>2, <2>3
<1>8. CASE GetFileHeader
  <2> DEFINE row == [conn |-> cur, frame |-> pBuffer[cur][nOffset + 1].frame,
                     nRecved |-> 0, nStatus |-> FALSE]
  <2>1. row \in FileItem /\ row.conn = cur
    BY <1>8, HeaderType DEF GetFileHeader, FileItem, TypeOK
  <2>2. items' = Append(items, row) /\ disk' = Append(disk, <<>>)
    BY <1>8 DEF GetFileHeader
  <2>3. \A i \in 1..Len(disk) : disk'[i] = disk[i]
    BY <2>2, EmptySeq, AppendProperties DEF TypeOK
  <2> HIDE DEF row
  <2>4. \A i \in 1..Len(items) : items'[i] = items[i]
    BY <2>1, <2>2, AppendProperties DEF TypeOK
  <2>5. RowsIn(c)' = RowsIn(c)
    BY <2>1, <2>2, RowAdded
  <2> QED BY <2>3, <2>4, <2>5, RowsKept, RowIndexes DEF SameRows
<1>9. CASE \/ ParserFresh \/ CloseThrows \/ OpenFile \/ GetFileDone \/ Compact \/ Catch
           \/ ReadAgain \/ SessionGone
  BY <1>9, SameRowsIfUnchanged DEF ParserFresh, CloseThrows, OpenFile, GetFileDone, Compact, Catch,
     ReadAgain, SessionGone, fileVars
<1> QED BY <1>5, <1>6, <1>7, <1>8, <1>9 DEF Handler

LEMMA ListedStep == ASSUME Owned, Listed, [Next]_vars PROVE Listed'
<1> USE DEF Owned, Counted
<1>1. ASSUME DOMAIN items' = DOMAIN items, \A i \in DOMAIN items : items'[i].conn = items[i].conn,
             Len(items') = Len(items)
      PROVE  Listed'
  <2> SUFFICES ASSUME NEW c \in Conns
               PROVE  /\ RowsIn(c)' \in Seq(Nat)
                      /\ \A j \in 1..Len(RowsIn(c)') :
                            /\ RowsIn(c)'[j] \in 1..Len(items')
                            /\ items'[RowsIn(c)'[j]].conn = c
                      /\ \A j, k \in 1..Len(RowsIn(c)') : RowsIn(c)'[j] = RowsIn(c)'[k] => j = k
    BY DEF Listed
  <2>1. RowsIn(c)' = RowsIn(c)
    BY <1>1, SameRowsIn
  <2> QED BY <1>1, <2>1, RowIndexes DEF Listed
<1>2. CASE UNCHANGED items
  BY <1>1, <1>2
<1>3. ASSUME NEW cells, NEW saved, Write(cells, saved) PROVE Listed'
  <2>1. Len(items') = Len(items)
    BY <1>3, RowsType, RowIndexes, LenProperties DEF Write
  <2> QED BY <1>1, <1>3, <2>1, WriteOthers, RowIndexes
<1>4. CASE CloseFile
  <2>1. items' = [items EXCEPT ![pFileItem[cur]].nStatus = TRUE]
    BY <1>4 DEF CloseFile
  <2>2. Len(items') = Len(items)
    BY <2>1, RowsType
  <2>3. \A i \in 1..Len(items) : items'[i].conn = items[i].conn
    BY <2>1, RowIndexes DEF FileItem
  <2> QED BY <1>1, <2>1, <2>2, <2>3, RowIndexes
<1>5. CASE GetFileHeader
  <2> DEFINE n == Len(items)
             row == [conn |-> cur, frame |-> pBuffer[cur][nOffset + 1].frame,
                     nRecved |-> 0, nStatus |-> FALSE]
  <2>1. row \in FileItem /\ row.conn = cur
    BY <1>5, HeaderType DEF GetFileHeader, FileItem, TypeOK
  <2>2. items' = Append(items, row)
    BY <1>5 DEF GetFileHeader
  <2> HIDE DEF row
  <2>3. /\ n \in Nat /\ Len(items') = n + 1 /\ items'[n + 1] = row
        /\ \A i \in 1..n : items'[i] = items[i]
    BY <2>1, <2>2, RowIndexes, AppendProperties DEF TypeOK
  <2> SUFFICES ASSUME NEW c \in Conns
               PROVE  /\ RowsIn(c)' \in Seq(Nat)
                      /\ \A j \in 1..Len(RowsIn(c)') :
                            /\ RowsIn(c)'[j] \in 1..(n + 1)
                            /\ items'[RowsIn(c)'[j]].conn = c
                      /\ \A j, k \in 1..Len(RowsIn(c)') : RowsIn(c)'[j] = RowsIn(c)'[k] => j = k
    BY <2>3 DEF Listed
  <2> DEFINE L == Len(RowsIn(c))
  <2>4. /\ RowsIn(c) \in Seq(Nat) /\ L \in Nat
        /\ \A j \in 1..L : RowsIn(c)[j] \in 1..n /\ items[RowsIn(c)[j]].conn = c
        /\ \A j, k \in 1..L : RowsIn(c)[j] = RowsIn(c)[k] => j = k
    BY LenProperties DEF Listed
  <2> HIDE DEF L, n
  <2>5. CASE c # cur
    <3>1. RowsIn(c)' = RowsIn(c)
      BY <2>1, <2>2, <2>5, RowAdded
    <3> QED BY <2>3, <2>4, <3>1 DEF L
  <2>6. CASE c = cur
    <3>1. RowsIn(c)' = Append(RowsIn(c), n + 1)
      BY <2>1, <2>2, <2>6, RowAdded DEF n
    <3>2. n + 1 \in Nat
      BY <2>3
    <3>3. /\ RowsIn(c)' \in Seq(Nat) /\ Len(RowsIn(c)') = L + 1
          /\ \A j \in 1..L : RowsIn(c)'[j] = RowsIn(c)[j]
          /\ RowsIn(c)'[L + 1] = n + 1
      BY <2>4, <3>1, <3>2, AppendProperties DEF L
    <3>4. \A j \in 1..(L + 1) : j \in 1..L \/ j = L + 1
      BY <2>4
    <3>5. \A j \in 1..(L + 1) : RowsIn(c)'[j] \in 1..(n + 1) /\ items'[RowsIn(c)'[j]].conn = c
      BY <2>1, <2>3, <2>4, <2>6, <3>3, <3>4
    <3>6. \A j, k \in 1..(L + 1) : RowsIn(c)'[j] = RowsIn(c)'[k] => j = k
      BY <2>3, <2>4, <3>3, <3>4
    <3> QED BY <3>3, <3>5, <3>6
  <2> QED BY <2>5, <2>6
<1>6. CASE ParserContinue \/ GetFileStore
  BY <1>2, <1>3, <1>6 DEF ParserContinue, GetFileStore, fileVars
<1>7. CASE Completion \/ Environment \/ OnTimer \/ UNCHANGED vars
  BY <1>2, <1>7 DEF Completion, Environment, Accept, AcceptError, Read, ReadEnd, PeerSend, PeerReset,
     OnTimer, vars, fileVars
<1>8. CASE \/ ParserThrows \/ ParserFresh \/ CloseThrows \/ OpenFile \/ GetFileThrows
           \/ GetFileDone \/ Compact \/ Catch \/ ReadAgain \/ SessionGone
  BY <1>2, <1>8 DEF ParserThrows, ParserFresh, CloseThrows, OpenFile, GetFileThrows, WriteThrows,
     GetFileDone, Compact, Catch, ReadAgain, SessionGone, fileVars
<1> QED BY <1>4, <1>5, <1>6, <1>7, <1>8 DEF Next, Handler

LEMMA ListedStart == Init => Listed
<1> SUFFICES ASSUME Init PROVE Listed
  OBVIOUS
<1>1. ASSUME NEW c \in Conns PROVE RowsIn(c) = <<>>
  <2>1. DOMAIN items = {}
    BY DEF Init
  <2>2. Marks(c) = <<>>
    BY <2>1 DEF Marks
  <2> QED BY <2>2, FlattenEmpty DEF RowsIn, Marks
<1>2. Len(<<>>) = 0 /\ <<>> \in Seq(Nat) /\ 1..0 = {}
  BY EmptySeq
<1> QED BY <1>1, <1>2 DEF Listed

-----------------------------------------------------------------------------
(* What is to come of a connection, and what should be. *)

\* Where the handler stands for c, and how much of c's buffer it has used.
Stage(c) == IF c = cur THEN pc ELSE "idle"
Used(c) == IF c = cur THEN nOffset ELSE 0

\* A row is made and its file not closed yet.
Busy == {"open", "store", "close"}

Filling(c) == nFileSize[c] # 0 \/ Stage(c) \in Busy

\* The number of rows made.
Made(c) == Len(RowsIn(c))

\* What comes: the unused part of the buffer, the wire, what is not yet sent.
Ahead(c) == SubSeq(pBuffer[c], Used(c) + 1, Len(pBuffer[c]))

ToCome(c) == Ahead(c) \o (wire[c] \o Flow(toSend[c]))

\* The cells of the frames after the k-th.
FilesLeft(c, k) == Flow(SubSeq(script[c], k + 1, Len(script[c])))

\* What has to come: while GetFile is at a header the frame of the last row too,
\* while a file is under way the rest of its content, and the frames behind it.
Expected(c) ==
    IF Stage(c) \in {"open", "store"} THEN FilesLeft(c, Made(c) - 1)
    ELSE IF Filling(c)
    THEN Piece(script[c][Made(c)], nSavedLength[c], nFileSize[c]) \o FilesLeft(c, Made(c))
    ELSE FilesLeft(c, Made(c))

\* Only a reset takes something off the end.
InStep(c) == \E rest \in Seq(Cells) : Expected(c) = ToCome(c) \o rest

\* The other steps keep what is missing at the end.
Kept(c) ==
    \A rest \in Seq(Cells) : Expected(c) = ToCome(c) \o rest => Expected(c)' = ToCome(c)' \o rest

\* The rows are those of the first frames, and all but the one under way are saved.
RowsRight(c) ==
    /\ Made(c) <= Len(script[c])
    /\ \A j \in 1..Made(c) : Rows(c)[j].frame = HeaderOf(script[c][j])
    /\ \A j \in 1..Made(c) :
          j < Made(c) \/ ~Filling(c) =>
              Rows(c)[j].nStatus /\ CopiesOf(c)[j] = Content(script[c][j])

\* What is known of the file under way.
UnderWay(c) ==
    /\ Made(c) > 0 /\ pFileItem[c] = RowsIn(c)[Made(c)]
    /\ nFileSize[c] = script[c][Made(c)].nFileSize
    /\ ~Rows(c)[Made(c)].nStatus /\ Rows(c)[Made(c)].nRecved = nSavedLength[c]
    /\ CopiesOf(c)[Made(c)] = BodyOf(script[c][Made(c)], nSavedLength[c])

Current(c) ==
    /\ nSavedLength[c] <= nFileSize[c]
    /\ Stage(c) \in {"open", "store"} => nSavedLength[c] = 0
    /\ Stage(c) = "close" => nSavedLength[c] = nFileSize[c]
    /\ nFileSize[c] # 0 /\ Stage(c) \notin Busy => nSavedLength[c] < nFileSize[c]
    /\ Filling(c) => UnderWay(c)
    /\ Filling(c) /\ Stage(c) # "open" /\ link[c] # "closed" => FileSave[c] = pFileItem[c]

Core(c) == InStep(c) /\ RowsRight(c) /\ Current(c)

\* A buffer at which GetFile would take a header.
Ready(a) == Len(a) >= HeadCells /\ ValidHeader(a, 0) /\ Len(a) > HeaderSize

\* After GetFile nothing is left that it could use.
Drained(c) ==
    Stage(c) \in {"compact", "after", "idle"} =>
        IF nFileSize[c] # 0 THEN Ahead(c) = <<>> ELSE ~Ready(Ahead(c))

InOrder == \A c \in Conns : Healthy(c) => Core(c) /\ Drained(c)

Placed ==
    /\ nOffset <= nDataLength(cur)
    /\ pc \in {"idle", "parser", "after"} => nOffset = 0
    /\ pc = "catch" => cur \in faulted

Copying == Owned /\ Listed /\ Placed /\ InOrder

-----------------------------------------------------------------------------
LEMMA AheadType ==
    ASSUME TypeOK, NEW c \in Conns
    PROVE  /\ pBuffer[c] \in Seq(Cells) /\ Len(pBuffer[c]) \in Nat /\ Used(c) \in Nat
           /\ Ahead(c) \in Seq(Cells)
           /\ wire[c] \in Seq(Cells) /\ toSend[c] \in Seq(Frame)
           /\ Flow(toSend[c]) \in Seq(Cells)
           /\ wire[c] \o Flow(toSend[c]) \in Seq(Cells)
           /\ ToCome(c) \in Seq(Cells)
<1>1. pBuffer[c] \in Seq(Cells) /\ Len(pBuffer[c]) \in Nat /\ Used(c) \in Nat
  BY LenProperties DEF TypeOK, Used
<1>2. Ahead(c) \in Seq(Cells)
  BY <1>1, PartOfSeq DEF Ahead
<1>3. wire[c] \in Seq(Cells) /\ toSend[c] \in Seq(Frame)
  BY DEF TypeOK
<1>4. Flow(toSend[c]) \in Seq(Cells)
  BY <1>3, FlowType
<1>5. wire[c] \o Flow(toSend[c]) \in Seq(Cells)
  BY <1>3, <1>4, ConcatProperties
<1> QED BY <1>1, <1>2, <1>3, <1>4, <1>5, ConcatProperties DEF ToCome

\* The frames still to be made rows of, one at a time.
LEMMA FilesLeftAre ==
    ASSUME TypeOK, NEW c \in Conns
    PROVE  /\ script[c] \in Seq(Frame) /\ Len(script[c]) \in Nat
           /\ \A k \in 0..Len(script[c]) : FilesLeft(c, k) \in Seq(Cells)
           /\ FilesLeft(c, Len(script[c])) = <<>>
           /\ \A k \in 0..(Len(script[c]) - 1) :
                 /\ script[c][k + 1] \in Frame
                 /\ FilesLeft(c, k) = FrameCells(script[c][k + 1]) \o FilesLeft(c, k + 1)
<1> DEFINE s == script[c]
           n == Len(s)
<1>1. s \in Seq(Frame) /\ n \in Nat
  BY SessionAssumption, LenProperties DEF TypeOK
<1> HIDE DEF s
<1>2. \A k \in 0..n : SubSeq(s, k + 1, n) \in Seq(Frame)
  BY <1>1, PartOfSeq
<1>3. \A k \in 0..n : FilesLeft(c, k) = Flow(SubSeq(s, k + 1, n))
  BY DEF FilesLeft, s
<1>4. \A k \in 0..n : FilesLeft(c, k) \in Seq(Cells)
  BY <1>2, <1>3, FlowType
<1>5. FilesLeft(c, n) = <<>>
  <2>1. SubSeq(s, n + 1, n) = <<>>
    BY <1>1, SubSeqEmpty
  <2>2. FilesLeft(c, n) = Flow(SubSeq(s, n + 1, n))
    BY <1>1, <1>3
  <2> QED BY <2>1, <2>2, FlowEmpty
<1>6. ASSUME NEW k \in 0..(n - 1)
      PROVE  s[k + 1] \in Frame /\ FilesLeft(c, k) = FrameCells(s[k + 1]) \o FilesLeft(c, k + 1)
  <2> DEFINE t == SubSeq(s, k + 1, n)
  <2>1. k \in 0..n /\ k + 1 \in 0..n /\ k + 1 \in 1..n
    BY <1>1
  <2>2. t \in Seq(Frame) /\ s[k + 1] \in Frame
    BY <1>1, <1>2, <2>1, ElementOfSeq
  <2>3. t # <<>> /\ Head(t) = s[k + 1] /\ Tail(t) = SubSeq(s, (k + 1) + 1, n)
    BY <1>1, TailOfRest
  <2>4. FilesLeft(c, k) = Flow(t) /\ FilesLeft(c, k + 1) = Flow(SubSeq(s, (k + 1) + 1, n))
    BY <1>3, <2>1
  <2> HIDE DEF t, n
  <2>5. Flow(t) = FrameCells(Head(t)) \o Flow(Tail(t))
    BY <2>2, <2>3, FlowFirst
  <2> QED BY <2>2, <2>3, <2>4, <2>5
<1> QED BY <1>1, <1>4, <1>5, <1>6 DEF s

-----------------------------------------------------------------------------
(* What leaves a connection in order. *)

LEMMA SameExpected ==
    ASSUME NEW c \in Conns, SameRows(c), UNCHANGED <<script, nFileSize[c], nSavedLength[c]>>,
           Stage(c)' = Stage(c) \/ (Stage(c) \notin Busy /\ Stage(c)' \notin Busy)
    PROVE  Filling(c)' = Filling(c) /\ Made(c)' = Made(c) /\ Expected(c)' = Expected(c)
<1>1. Filling(c)' = Filling(c) /\ Made(c)' = Made(c)
  BY DEF Filling, Made, Busy, SameRows
<1>2. \A k : FilesLeft(c, k)' = FilesLeft(c, k)
  BY DEF FilesLeft
<1> QED BY <1>1, <1>2 DEF Expected, Busy

\* Nothing of the connection but what its sender takes back has changed.
LEMMA CoreKept ==
    ASSUME NEW c \in Conns, Core(c), SameRows(c),
           \E more \in Seq(Cells) : ToCome(c) = ToCome(c)' \o more,
           ToCome(c)' \in Seq(Cells),
           UNCHANGED <<script, nFileSize[c], nSavedLength[c], pFileItem[c]>>,
           Stage(c)' = Stage(c) \/ (Stage(c) \notin Busy /\ Stage(c)' \notin Busy),
           link'[c] # "closed" => link[c] # "closed" /\ FileSave'[c] = FileSave[c]
    PROVE  Core(c)'
<1>1. Filling(c)' = Filling(c) /\ Made(c)' = Made(c)
  BY SameExpected
<1>2. Expected(c)' = Expected(c)
  BY SameExpected
<1>3. InStep(c)'
  <2>1. PICK rest \in Seq(Cells) : Expected(c) = ToCome(c) \o rest
    BY DEF Core, InStep
  <2>2. PICK more \in Seq(Cells) : ToCome(c) = ToCome(c)' \o more
    OBVIOUS
  <2>3. Expected(c)' = ToCome(c)' \o (more \o rest)
    <3>1. Expected(c)' = (ToCome(c)' \o more) \o rest
      BY <1>2, <2>1, <2>2
    <3>2. PICK t \in Seq(Cells) : t = ToCome(c)'
      BY <2>2
    <3>3. Regroups(t, more, rest)
      BY ONLY <3>2, <2>2, <2>1, RegroupsAlways
    <3> QED BY <3>1, <3>2, <3>3 DEF Regroups
  <2>4. more \o rest \in Seq(Cells)
    BY <2>1, <2>2, ConcatProperties
  <2> QED BY <2>3, <2>4 DEF InStep
<1>4. RowsRight(c)'
  BY <1>1 DEF Core, RowsRight, SameRows
<1>5. UnderWay(c) => UnderWay(c)'
  BY <1>1 DEF UnderWay, SameRows
<1>6. Current(c)'
  BY <1>1, <1>5 DEF Core, Current, Busy
<1> QED BY <1>3, <1>4, <1>6 DEF Core

LEMMA AllKept ==
    ASSUME TypeOK, NEW c \in Conns, Core(c) /\ Drained(c), SameRows(c), ToCome(c)' = ToCome(c),
           UNCHANGED <<script, nFileSize[c], nSavedLength[c], pFileItem[c]>>,
           Stage(c)' = Stage(c) \/ (Stage(c) \notin Busy /\ Stage(c)' \notin Busy),
           link'[c] # "closed" => link[c] # "closed" /\ FileSave'[c] = FileSave[c],
           Stage(c)' \in {"compact", "after", "idle"} =>
               Stage(c) \in {"compact", "after", "idle"} /\ Ahead(c)' = Ahead(c)
    PROVE  Core(c)' /\ Drained(c)' /\ Kept(c)
<1>1. ToCome(c) \in Seq(Cells) /\ <<>> \in Seq(Cells) /\ ToCome(c) = ToCome(c) \o <<>>
  BY AheadType, EmptySeq, ConcatEmptySeq
<1>2. Core(c)'
  BY <1>1, CoreKept
<1>3. Drained(c)'
  BY DEF Drained
<1>4. Kept(c)
  BY SameExpected DEF Kept
<1> QED BY <1>2, <1>3, <1>4

-----------------------------------------------------------------------------
(* Healthy sessions. *)

LEMMA WholeIs ==
    ASSUME TypeOK, NEW c \in Conns, NEW m \in Nat
    PROVE  m \in WholeFrames(c) \cup {0} <=>
               m <= Len(script[c]) /\ \A j \in 1..m : IsWhole(script[c][j])
<1>1. DOMAIN script[c] = 1..Len(script[c]) /\ Len(script[c]) \in Nat
  BY FilesLeftAre, LenProperties
<1>2. m \in WholeFrames(c) <=>
         /\ m \in 1..Len(script[c])
         /\ \A k \in 1..Len(script[c]) : ~IsWhole(script[c][k]) => m < k
  BY <1>1 DEF WholeFrames
<1>3. ASSUME m \in 1..Len(script[c])
      PROVE  (\A k \in 1..Len(script[c]) : ~IsWhole(script[c][k]) => m < k)
             <=> \A j \in 1..m : IsWhole(script[c][j])
  BY <1>1, <1>3
<1> QED BY <1>1, <1>2, <1>3

Sound(c) ==
    /\ c \notin faulted /\ Made(c) <= Len(script[c])
    /\ \A j \in 1..Made(c) : IsWhole(script[c][j])

LEMMA HealthyIs == ASSUME TypeOK, NEW c \in Conns PROVE Healthy(c) <=> Sound(c)
<1>1. RowsIn(c) \in Seq(Nat) /\ DOMAIN RowsIn(c) = 1..Made(c) /\ Made(c) \in Nat
  BY RowsInType, LenProperties DEF Made
<1>2. Rows(c) \in [1..Made(c) -> {items[RowsIn(c)[j]] : j \in 1..Made(c)}]
  BY <1>1 DEF Rows
<1>3. Len(Rows(c)) = Made(c)
  BY <1>1, <1>2, FunctionIsSeq
<1> QED BY <1>1, <1>3, WholeIs DEF Healthy, Sound

LEMMA HealthyNext ==
    ASSUME TypeOK, NEW c \in Conns, RowsIn(c)' \in Seq(Nat), script' = script
    PROVE  Healthy(c)' <=> Sound(c)'
<1>1. DOMAIN RowsIn(c)' = 1..Made(c)' /\ Made(c)' \in Nat
  BY LenProperties DEF Made
<1>2. Rows(c)' \in [1..Made(c)' -> {items'[RowsIn(c)'[j]] : j \in 1..Made(c)'}]
  BY <1>1 DEF Rows
<1>3. Len(Rows(c)') = Made(c)'
  BY <1>1, <1>2, FunctionIsSeq
<1>4. WholeFrames(c)' = WholeFrames(c)
  BY DEF WholeFrames
<1>5. Made(c)' \in WholeFrames(c) \cup {0} <=>
          /\ Made(c)' <= Len(script[c])
          /\ \A j \in 1..Made(c)' : IsWhole(script[c][j])
  BY <1>1, WholeIs
<1> QED BY <1>1, <1>3, <1>4, <1>5 DEF Healthy, Sound

\* Sessions do not recover.
LEMMA HealthyBefore ==
    ASSUME TypeOK, NEW c \in Conns, script' = script, faulted \subseteq faulted', Healthy(c)',
           RowsIn(c)' = RowsIn(c) \/ \E i \in Nat : RowsIn(c)' = Append(RowsIn(c), i)
    PROVE  Healthy(c) /\ Sound(c)'
<1>1. RowsIn(c) \in Seq(Nat) /\ Made(c) \in Nat
  BY RowsInType, LenProperties DEF Made
<1>2. RowsIn(c)' \in Seq(Nat) /\ Made(c)' \in Nat /\ Made(c) <= Made(c)'
  BY <1>1, AppendProperties DEF Made
<1>3. Sound(c)'
  BY <1>2, HealthyNext
<1>4. Sound(c)
  BY <1>1, <1>2, <1>3 DEF Sound
<1> QED BY <1>3, <1>4, HealthyIs

-----------------------------------------------------------------------------
(* The sessions a handler does not serve. *)

LEMMA HandlerOnlyCur ==
    ASSUME Owned, Handler, NEW c \in Conns, c # cur
    PROVE  /\ UNCHANGED <<cur, script, wire, toSend, link[c], pBuffer[c], nFileSize[c],
                          nSavedLength[c], pFileItem[c], FileSave[c]>>
           /\ faulted \subseteq faulted'
<1> USE DEF Owned, Counted, TypeOK
<1>1. CASE ParserContinue \/ GetFileStore
  BY <1>1 DEF ParserContinue, GetFileStore, Write, Inside, netVars, history
<1>2. CASE ParserThrows \/ GetFileThrows
  BY <1>2 DEF ParserThrows, GetFileThrows, WriteThrows, DiskFails, Inside, netVars, sessVars
<1>3. CASE CloseFile \/ CloseThrows
  BY <1>3 DEF CloseFile, CloseThrows, ForgetFile, DiskFails, Inside, netVars, history
<1>4. CASE GetFileHeader \/ OpenFile
  BY <1>4 DEF GetFileHeader, OpenFile, DiskFails, Inside, netVars, history
<1>5. CASE ParserFresh \/ GetFileDone \/ Compact \/ Catch \/ ReadAgain \/ SessionGone
  BY <1>5 DEF ParserFresh, GetFileDone, Compact, Catch, ReadAgain, SessionGone, Inside, netVars,
     sessVars, history
<1> QED BY <1>1, <1>2, <1>3, <1>4, <1>5 DEF Handler

LEMMA OthersInOrder ==
    ASSUME Copying, Handler, NEW c \in Conns, c # cur, Healthy(c)'
    PROVE  Core(c)' /\ Drained(c)' /\ Kept(c)
<1> USE DEF Copying, Owned, Counted
<1>1. /\ UNCHANGED <<cur, script, wire, toSend, link[c], pBuffer[c], nFileSize[c],
                     nSavedLength[c], pFileItem[c], FileSave[c]>>
      /\ faulted \subseteq faulted'
  BY HandlerOnlyCur
<1>2. SameRows(c)
  BY HandlerOthers
<1>3. Healthy(c)
  BY <1>1, <1>2, HealthyBefore DEF SameRows
<1>4. Stage(c)' = Stage(c) /\ Used(c)' = Used(c)
  BY <1>1 DEF Stage, Used
<1>5. Ahead(c)' = Ahead(c) /\ ToCome(c)' = ToCome(c)
  <2>1. Ahead(c)' = Ahead(c)
    BY <1>1, <1>4 DEF Ahead
  <2> QED BY <1>1, <2>1 DEF ToCome, Flow
<1>6. Core(c) /\ Drained(c)
  BY <1>3 DEF InOrder
<1> QED BY <1>1, <1>2, <1>4, <1>5, <1>6, AllKept

-----------------------------------------------------------------------------
(* The steps between two handlers. *)

LEMMA OutsideInOrder ==
    ASSUME Copying, AcceptError \/ OnTimer \/ UNCHANGED vars \/ (\E d \in Conns : Accept(d)),
           NEW c \in Conns, Healthy(c)'
    PROVE  Core(c)' /\ Drained(c)' /\ Kept(c)
<1> USE DEF Copying, Owned, Counted
<1>1. /\ UNCHANGED <<script, toSend, wire, sessVars, ioVars, fileVars, faulted>>
      /\ link'[c] # "closed" => link[c] # "closed"
  BY DEF AcceptError, OnTimer, vars, Accept, history, netVars, TypeOK
<1>2. SameRows(c)
  BY <1>1, SameRowsIfUnchanged DEF fileVars
<1>3. Healthy(c)
  BY <1>1, <1>2, HealthyBefore DEF SameRows
<1>4. Stage(c)' = Stage(c) /\ Used(c)' = Used(c)
  BY <1>1 DEF Stage, Used, ioVars
<1>5. Ahead(c)' = Ahead(c) /\ ToCome(c)' = ToCome(c)
  <2>1. Ahead(c)' = Ahead(c)
    BY <1>1, <1>4 DEF Ahead, sessVars
  <2> QED BY <1>1, <2>1 DEF ToCome, Flow
<1>6. Core(c) /\ Drained(c)
  BY <1>3 DEF InOrder
<1> QED BY <1>1, <1>2, <1>4, <1>5, <1>6, AllKept DEF sessVars

\* What the sender puts on the wire it no longer has to send.
LEMMA PeerSendInOrder ==
    ASSUME Copying, NEW d \in Conns, PeerSend(d), NEW c \in Conns, Healthy(c)'
    PROVE  Core(c)' /\ Drained(c)' /\ Kept(c)
<1> USE DEF Copying, Owned, Counted
<1>1. UNCHANGED <<script, link, sessVars, ioVars, fileVars, faulted>>
  BY DEF PeerSend, history
<1>2. SameRows(c)
  BY <1>1, SameRowsIfUnchanged DEF fileVars
<1>3. Healthy(c)
  BY <1>1, <1>2, HealthyBefore DEF SameRows
<1>4. Stage(c)' = Stage(c) /\ Ahead(c)' = Ahead(c)
  BY <1>1 DEF Stage, Used, ioVars, Ahead, sessVars
<1>5. wire'[c] \o Flow(toSend'[c]) = wire[c] \o Flow(toSend[c])
  <2>1. CASE c # d
    BY <2>1 DEF PeerSend, TypeOK
  <2>2. CASE c = d
    <3>1. wire'[c] = wire[c] \o FrameCells(Head(toSend[c])) /\ toSend'[c] = Tail(toSend[c])
      BY <2>2 DEF PeerSend, TypeOK
    <3>2. /\ Head(toSend[c]) \in Frame /\ Tail(toSend[c]) \in Seq(Frame)
          /\ Flow(toSend[c]) = FrameCells(Head(toSend[c])) \o Flow(Tail(toSend[c]))
      BY <2>2, AheadType, FlowFirst DEF PeerSend
    <3>3. /\ wire[c] \in Seq(Cells) /\ FrameCells(Head(toSend[c])) \in Seq(Cells)
          /\ Flow(Tail(toSend[c])) \in Seq(Cells)
      BY <3>2, AheadType, FrameCellsType, FlowType
    <3> DEFINE a == wire[c]
               b == FrameCells(Head(toSend[c]))
               e == Flow(Tail(toSend[c]))
    <3>4. a \in Seq(Cells) /\ b \in Seq(Cells) /\ e \in Seq(Cells)
      BY <3>3
    <3>5. wire'[c] \o Flow(toSend'[c]) = (a \o b) \o e /\ Flow(toSend[c]) = b \o e
      BY <3>1, <3>2
    <3> HIDE DEF a, b, e
    <3>6. (a \o b) \o e = a \o (b \o e)
      <4>1. Regroups(a, b, e)
        BY ONLY <3>4, RegroupsAlways
      <4> QED BY <4>1 DEF Regroups
    <3> QED BY <3>5, <3>6 DEF a
  <2> QED BY <2>1, <2>2
<1>6. ToCome(c)' = ToCome(c)
  <2>1. ToCome(c)' = Ahead(c)' \o (wire'[c] \o Flow(toSend'[c]))
    BY DEF ToCome, Flow
  <2> QED BY <1>4, <1>5, <2>1 DEF ToCome
<1>7. Core(c) /\ Drained(c)
  BY <1>3 DEF InOrder
<1> QED BY <1>1, <1>2, <1>4, <1>6, <1>7, AllKept DEF sessVars

LEMMA PeerResetInOrder ==
    ASSUME Copying, NEW d \in Conns, PeerReset(d), NEW c \in Conns, Healthy(c)'
    PROVE  Core(c)' /\ Drained(c)'
<1> USE DEF Copying, Owned, Counted
<1>1. UNCHANGED <<script, link, sessVars, ioVars, fileVars, faulted>>
  BY DEF PeerReset
<1>2. SameRows(c)
  BY <1>1, SameRowsIfUnchanged DEF fileVars
<1>3. Healthy(c)
  BY <1>1, <1>2, HealthyBefore DEF SameRows
<1>4. Stage(c)' = Stage(c) /\ Ahead(c)' = Ahead(c)
  BY <1>1 DEF Stage, Used, ioVars, Ahead, sessVars
<1>5. ToCome(c)' \in Seq(Cells) /\ \E more \in Seq(Cells) : ToCome(c) = ToCome(c)' \o more
  <2>1. ToCome(c)' = Ahead(c)' \o (wire'[c] \o Flow(toSend'[c]))
    BY DEF ToCome, Flow
  <2>2. CASE c # d
    <3>1. ToCome(c)' = ToCome(c)
      BY <1>4, <2>1, <2>2 DEF PeerReset, TypeOK, ToCome
    <3> QED BY <3>1, AheadType, EmptySeq, ConcatEmptySeq
  <2>3. CASE c = d
    <3>1. wire'[c] = <<>> /\ toSend'[c] = <<>>
      BY <2>3 DEF PeerReset, TypeOK
    <3>2. wire'[c] \o Flow(toSend'[c]) = <<>>
      BY <3>1, FlowEmpty, EmptySeq, ConcatEmptySeq
    <3>3. ToCome(c)' = Ahead(c)
      BY <1>4, <2>1, <3>2, AheadType, ConcatEmptySeq
    <3> QED BY <3>3, AheadType DEF ToCome
  <2> QED BY <2>2, <2>3
<1>6. Core(c) /\ Drained(c)
  BY <1>3 DEF InOrder
<1>7. Core(c)'
  BY <1>1, <1>2, <1>4, <1>5, <1>6, CoreKept DEF sessVars
<1>8. Drained(c)'
  BY <1>1, <1>4, <1>6 DEF Drained, sessVars
<1> QED BY <1>7, <1>8

\* What is read moves from the wire to the end of the buffer.
LEMMA ReadInOrder ==
    ASSUME Copying, NEW d \in Conns, Read(d) \/ ReadEnd(d), NEW c \in Conns, Healthy(c)'
    PROVE  Core(c)' /\ Drained(c)' /\ Kept(c)
<1> USE DEF Copying, Owned, Counted
<1>1. /\ UNCHANGED <<script, toSend, link, nFileSize, nSavedLength, pFileItem, FileSave,
                     fileVars, faulted>>
      /\ pc = "idle" /\ pc' = "parser" /\ cur' = d /\ nOffset' = 0 /\ nOffset = 0
  BY DEF Read, ReadEnd, netVars, sessVars, history, Placed
<1>2. SameRows(c)
  BY <1>1, SameRowsIfUnchanged DEF fileVars
<1>3. Healthy(c)
  BY <1>1, <1>2, HealthyBefore DEF SameRows
<1>4. Stage(c) = "idle" /\ Used(c) = 0 /\ Used(c)' = 0 /\ Ahead(c) = pBuffer[c]
  <2>1. Stage(c) = "idle" /\ Used(c) = 0 /\ Used(c)' = 0
    BY <1>1 DEF Stage, Used
  <2> QED BY <2>1, AheadType, SubSeqFull DEF Ahead
<1>5. Core(c) /\ Drained(c)
  BY <1>3 DEF InOrder
<1>6. ToCome(c)' = Ahead(c)' \o (wire'[c] \o Flow(toSend'[c]))
  BY DEF ToCome, Flow
<1>7. CASE c # d
  <2>1. Stage(c)' = "idle"
    BY <1>1, <1>7 DEF Stage
  <2>2. pBuffer'[c] = pBuffer[c] /\ wire'[c] = wire[c]
    BY <1>7 DEF Read, ReadEnd, netVars, sessVars, TypeOK
  <2>3. Ahead(c)' = Ahead(c)
    BY <1>4, <2>2 DEF Ahead
  <2>4. ToCome(c)' = ToCome(c)
    BY <1>1, <1>6, <2>2, <2>3 DEF ToCome
  <2> QED BY <1>1, <1>2, <1>4, <1>5, <2>1, <2>3, <2>4, AllKept
<1>8. CASE c = d
  <2>1. Stage(c)' = "parser"
    BY <1>1, <1>8 DEF Stage
  <2>2. ToCome(c)' = ToCome(c)
    <3>1. CASE ReadEnd(d)
      <4>1. pBuffer' = pBuffer /\ wire' = wire
        BY <3>1 DEF ReadEnd, netVars, sessVars
      <4>2. Ahead(c)' = Ahead(c)
        BY <1>4, <4>1 DEF Ahead
      <4> QED BY <1>1, <1>6, <4>1, <4>2 DEF ToCome
    <3>2. CASE Read(d)
      <4>1. PICK n \in 1..Smaller(MaxRead, Len(wire[c])) :
               /\ pBuffer' = [pBuffer EXCEPT ![c] = @ \o SubSeq(wire[c], 1, n)]
               /\ wire' = [wire EXCEPT ![c] = SubSeq(@, n + 1, Len(@))]
        BY <1>8, <3>2 DEF Read
      <4> DEFINE p == SubSeq(wire[c], 1, n)
                 q == SubSeq(wire[c], n + 1, Len(wire[c]))
      <4>2. n \in 0..Len(wire[c])
        BY <4>1, AheadType, LenProperties, SessionAssumption DEF Smaller
      <4>3. p \in Seq(Cells) /\ q \in Seq(Cells) /\ wire[c] = p \o q
        BY <4>2, AheadType, CutSeq
      <4>4. pBuffer'[c] = pBuffer[c] \o p /\ wire'[c] = q
        BY <4>1 DEF TypeOK
      <4> DEFINE w == Flow(toSend[c])
                 b == pBuffer[c]
      <4> HIDE DEF p, q
      <4>5. pBuffer'[c] \in Seq(Cells) /\ Ahead(c)' = pBuffer'[c]
        <5>1. pBuffer'[c] \in Seq(Cells)
          BY <4>3, <4>4, AheadType, ConcatProperties
        <5> QED BY <1>4, <5>1, SubSeqFull DEF Ahead
      <4>6. ToCome(c)' = (b \o p) \o (q \o w) /\ ToCome(c) = b \o ((p \o q) \o w)
        BY <1>1, <1>4, <1>6, <4>3, <4>4, <4>5 DEF ToCome
      <4>7. b \in Seq(Cells) /\ w \in Seq(Cells)
        BY AheadType
      <4> HIDE DEF b, w
      <4>8. b \in Seq(Cells) /\ p \in Seq(Cells) /\ q \in Seq(Cells) /\ w \in Seq(Cells)
        BY <4>3, <4>7
      <4> DEFINE z == q \o w
      <4>9. z \in Seq(Cells)
        BY ONLY <4>8, ConcatProperties
      <4>10. (p \o q) \o w = p \o z
        <5>1. Regroups(p, q, w)
          BY ONLY <4>8, RegroupsAlways
        <5> QED BY <5>1 DEF Regroups, z
      <4> HIDE DEF z
      <4>11. (b \o p) \o z = b \o (p \o z)
        <5>1. Regroups(b, p, z)
          BY ONLY <4>8, <4>9, RegroupsAlways
        <5> QED BY <5>1 DEF Regroups
      <4> QED BY <4>6, <4>10, <4>11 DEF z
    <3> QED BY <3>1, <3>2
  <2>3. Stage(c) \notin Busy /\ Stage(c)' \notin Busy
    BY <1>4, <2>1 DEF Busy
  <2> QED BY <1>1, <1>2, <1>5, <2>1, <2>2, <2>3, AllKept
<1> QED BY <1>7, <1>8

-----------------------------------------------------------------------------
(* The session a handler serves. *)

LEMMA PlacedStep == ASSUME Owned, Placed, [Next]_vars PROVE Placed'
<1> USE DEF Owned, Counted
<1>1. cur \in Conns /\ Len(pBuffer[cur]) \in Nat /\ nOffset \in Nat
  BY AheadType DEF TypeOK
<1>2. CASE \/ AcceptError \/ OnTimer \/ UNCHANGED vars
           \/ \E c \in Conns : Accept(c) \/ PeerSend(c) \/ PeerReset(c)
  BY <1>2 DEF AcceptError, OnTimer, Accept, PeerSend, PeerReset, vars, ioVars, sessVars, history,
     Placed, nDataLength
<1>3. ASSUME NEW c \in Conns, Read(c) \/ ReadEnd(c) PROVE Placed'
  <2>1. pc' = "parser" /\ cur' = c /\ nOffset' = 0 /\ Len(pBuffer'[c]) \in Nat
    <3>1. TypeOK'
      BY <1>3, TypeStep DEF Next, Completion
    <3>2. pBuffer'[c] \in Seq(Cells)
      BY <3>1 DEF TypeOK
    <3> QED BY <1>3, <3>2, LenProperties DEF Read, ReadEnd
  <2> QED BY <2>1 DEF Placed, nDataLength
<1>4. CASE ParserThrows \/ GetFileThrows \/ CloseThrows
  BY <1>4 DEF ParserThrows, GetFileThrows, CloseThrows, WriteThrows, DiskFails, Inside, sessVars,
     Placed, nDataLength
<1>5. CASE ParserContinue
  <2> DEFINE k == Smaller(nFileSize[cur] - nSavedLength[cur], nDataLength(cur))
  <2>1. k \in Int /\ k <= Len(pBuffer[cur])
    BY <1>1 DEF TypeOK, Smaller, nDataLength
  <2>2. NextPart = SubSeq(pBuffer[cur], 1, k) /\ pBuffer[cur] \in Seq(Cells)
    BY AheadType, <1>1 DEF NextPart
  <2> HIDE DEF k
  <2>3. Len(NextPart) <= Len(pBuffer[cur])
    BY <1>1, <2>1, <2>2, PartOfSeq
  <2>4. /\ cur' = cur /\ pc' \in {"close", "compact"} /\ pBuffer' = pBuffer
        /\ nOffset' = Len(NextPart)
    BY <1>5 DEF ParserContinue, Inside
  <2> QED BY <2>3, <2>4 DEF Placed, nDataLength
<1>6. CASE GetFileStore
  <2>1. /\ cur' = cur /\ pc' \in {"close", "getfile"} /\ pBuffer' = pBuffer
        /\ nOffset' = nOffset + HeaderSize + Len(FirstPart)
        /\ nDataLength(cur) > nOffset + HeaderSize
    BY <1>6 DEF GetFileStore, Inside, Underway
  <2>2. nDataLength(cur) \in Nat /\ HeaderSize \in Nat /\ nFileSize[cur] \in Nat
    BY <1>1, FrameAssumption DEF nDataLength, TypeOK, HeaderSize
  <2>3. Len(FirstPart) = Smaller(nDataLength(cur) - nOffset - HeaderSize, nFileSize[cur])
    BY <2>1, FirstPartLength
  <2>4. nOffset' <= nDataLength(cur)
    BY <1>1, <2>1, <2>2, <2>3 DEF Smaller
  <2> QED BY <2>1, <2>4 DEF Placed, nDataLength
<1>7. CASE ParserFresh \/ CloseFile \/ GetFileHeader \/ OpenFile \/ GetFileDone
  BY <1>7 DEF ParserFresh, CloseFile, GetFileHeader, OpenFile, GetFileDone, Inside, sessVars,
     Placed, nDataLength
<1>8. CASE Compact \/ Catch \/ ReadAgain \/ SessionGone
  <2>1. cur' = cur /\ pc' \in {"idle", "after"} /\ nOffset' = 0
    BY <1>8 DEF Compact, Catch, ReadAgain, SessionGone, Inside, sessVars, Placed
  <2>2. Len(pBuffer'[cur]) \in Nat
    <3>1. TypeOK'
      BY <1>8, TypeStep DEF Next, Handler
    <3>2. pBuffer'[cur] \in Seq(Cells)
      BY <1>1, <3>1 DEF TypeOK
    <3> QED BY <3>2, LenProperties
  <2> QED BY <2>1, <2>2 DEF Placed, nDataLength
<1> QED BY <1>2, <1>3, <1>4, <1>5, <1>6, <1>7, <1>8 DEF Next, Completion, Handler, Environment

LEMMA CurIs ==
    ASSUME TypeOK, Placed
    PROVE  /\ cur \in Conns /\ Stage(cur) = pc /\ Used(cur) = nOffset
           /\ nOffset \in 0..Len(pBuffer[cur]) /\ nOffset \in Nat /\ Len(pBuffer[cur]) \in Nat
           /\ pBuffer[cur] \in Seq(Cells)
           /\ Ahead(cur) = SubSeq(pBuffer[cur], nOffset + 1, Len(pBuffer[cur]))
           /\ Ahead(cur) \in Seq(Cells)
           /\ Len(Ahead(cur)) = Len(pBuffer[cur]) - nOffset
           /\ \A i \in 1..(Len(pBuffer[cur]) - nOffset) : Ahead(cur)[i] = pBuffer[cur][nOffset + i]
<1>1. cur \in Conns /\ Stage(cur) = pc /\ Used(cur) = nOffset
  BY DEF TypeOK, Stage, Used
<1>2. pBuffer[cur] \in Seq(Cells) /\ Len(pBuffer[cur]) \in Nat /\ Ahead(cur) \in Seq(Cells)
  BY <1>1, AheadType
<1>3. nOffset \in 0..Len(pBuffer[cur]) /\ nOffset \in Nat
  BY <1>2 DEF TypeOK, Placed, nDataLength
<1>4. Ahead(cur) = SubSeq(pBuffer[cur], nOffset + 1, Len(pBuffer[cur]))
  BY <1>1 DEF Ahead
<1> QED BY <1>1, <1>2, <1>3, <1>4, CutSeq

LEMMA HeaderReadyIs ==
    ASSUME TypeOK, Placed
    PROVE  /\ HeaderReady <=> Ready(Ahead(cur))
           /\ HeaderReady => /\ pBuffer[cur][nOffset + 1] = Ahead(cur)[1]
                             /\ Len(Ahead(cur)) > HeaderSize
<1> DEFINE a == Ahead(cur)
           n == Len(pBuffer[cur])
<1>1. /\ nOffset \in Nat /\ n \in Nat /\ nOffset <= n /\ Len(a) = n - nOffset
      /\ \A i \in 1..(n - nOffset) : a[i] = pBuffer[cur][nOffset + i]
  BY CurIs
<1>2. HeadCells \in Nat \ {0} /\ HeaderSize \in Nat
  BY FrameAssumption DEF HeaderSize
<1> HIDE DEF a
<1>3. ASSUME n - nOffset >= HeadCells
      PROVE  /\ ValidHeader(pBuffer[cur], nOffset) <=> ValidHeader(a, 0)
             /\ pBuffer[cur][nOffset + 1] = a[1]
  <2>1. \A k \in 1..HeadCells : a[k] = pBuffer[cur][nOffset + k] /\ a[0 + k] = a[k]
    BY <1>1, <1>2, <1>3
  <2>2. 1 \in 1..HeadCells
    BY <1>2
  <2>3. ValidHeader(a, 0) <=> \A k \in 1..HeadCells : a[k] = Cell("head", a[1].frame, k)
    BY <2>1 DEF ValidHeader
  <2>4. ValidHeader(pBuffer[cur], nOffset) <=>
            \A k \in 1..HeadCells : pBuffer[cur][nOffset + k]
                                    = Cell("head", pBuffer[cur][nOffset + 1].frame, k)
    BY DEF ValidHeader
  <2> QED BY <2>1, <2>2, <2>3, <2>4
<1>4. HeaderReady <=> /\ n - nOffset >= HeadCells /\ ValidHeader(pBuffer[cur], nOffset)
                      /\ n > HeaderSize + nOffset
  BY DEF HeaderReady, nDataLength
<1>5. Ready(a) <=> n - nOffset >= HeadCells /\ ValidHeader(a, 0) /\ n - nOffset > HeaderSize
  BY <1>1 DEF Ready
<1>6. n > HeaderSize + nOffset <=> n - nOffset > HeaderSize
  BY <1>1, <1>2
<1> QED BY <1>1, <1>3, <1>4, <1>5, <1>6 DEF a

\* The handler moves on in the buffer.
LEMMA AheadAfter ==
    ASSUME TypeOK, Placed, pBuffer' = pBuffer, cur' = cur, NEW n \in Nat,
           n <= Len(Ahead(cur)), nOffset' = nOffset + n
    PROVE  /\ Ahead(cur)' = SubSeq(Ahead(cur), n + 1, Len(Ahead(cur)))
           /\ Ahead(cur)' \in Seq(Cells) /\ Len(Ahead(cur)') = Len(Ahead(cur)) - n
<1> DEFINE s == pBuffer[cur]
           a == Ahead(cur)
<1>1. /\ s \in Seq(Cells) /\ nOffset \in 0..Len(s) /\ Len(s) \in Nat /\ nOffset \in Nat
      /\ a = SubSeq(s, nOffset + 1, Len(s)) /\ Len(a) = Len(s) - nOffset /\ a \in Seq(Cells)
  BY CurIs
<1>2. Ahead(cur)' = SubSeq(s, nOffset + n + 1, Len(s))
  BY DEF Ahead, Used
<1>3. n <= Len(a)
  OBVIOUS
<1> HIDE DEF s, a
<1>4. SubSeq(SubSeq(s, nOffset + 1, Len(s)), n + 1, Len(a)) = SubSeq(s, nOffset + n + 1, nOffset + Len(a))
  <2>1. Len(a) \in Nat /\ nOffset + Len(a) <= Len(s)
    BY <1>1
  <2> QED BY <1>1, <1>3, <2>1, PartOfRest
<1>5. nOffset + Len(a) = Len(s)
  BY <1>1
<1>6. Ahead(cur)' = SubSeq(a, n + 1, Len(a))
  BY <1>1, <1>2, <1>4, <1>5
<1>7. SubSeq(a, n + 1, Len(a)) \in Seq(Cells) /\ Len(SubSeq(a, n + 1, Len(a))) = Len(a) - n
  <2>1. n \in 0..Len(a)
    BY <1>1, <1>3
  <2> QED BY <1>1, <2>1, CutSeq
<1> QED BY <1>6, <1>7 DEF a

-----------------------------------------------------------------------------
(* The steps of the handler, for the session it serves. *)

\* The handler's steps that neither use the buffer nor touch a file.
LEMMA QuietInOrder ==
    ASSUME Copying, Healthy(cur)',
           ParserFresh \/ OpenFile \/ GetFileDone \/ Compact \/ ReadAgain \/ SessionGone
    PROVE  Core(cur)' /\ Drained(cur)' /\ Kept(cur)
<1> USE DEF Copying, Owned, Counted
<1>1. /\ UNCHANGED <<script, toSend, wire, fileVars, cur, nFileSize, nSavedLength, pFileItem>>
      /\ faulted \subseteq faulted'
  BY DEF ParserFresh, OpenFile, GetFileDone, Compact, ReadAgain, SessionGone, DiskFails, Inside,
     netVars, sessVars, history
<1>2. SameRows(cur)
  BY <1>1, SameRowsIfUnchanged DEF fileVars
<1>3. cur \in Conns /\ Stage(cur) = pc /\ Stage(cur)' = pc'
  BY <1>1, CurIs DEF Stage
<1>4. Healthy(cur) /\ cur \notin faulted'
  BY <1>1, <1>2, <1>3, HealthyBefore DEF SameRows, Sound
<1>5. Core(cur) /\ Drained(cur)
  BY <1>3, <1>4 DEF InOrder
<1>6. Ahead(cur)' = Ahead(cur)
  <2>1. CASE Compact
    <3>1. pBuffer'[cur] = Ahead(cur) /\ nOffset' = 0
      BY <1>3, <2>1, CurIs DEF Compact, Rest, TypeOK, nDataLength
    <3>2. Ahead(cur)' = SubSeq(pBuffer'[cur], 1, Len(pBuffer'[cur]))
      BY <1>1, <3>1 DEF Ahead, Used
    <3> QED BY <3>1, <3>2, CurIs, SubSeqFull
  <2>2. CASE ~Compact
    <3>1. pBuffer' = pBuffer /\ nOffset' = nOffset
      BY <2>2 DEF ParserFresh, OpenFile, GetFileDone, ReadAgain, SessionGone, sessVars
    <3> QED BY <1>1, <3>1 DEF Ahead, Used
  <2> QED BY <2>1, <2>2
<1>7. ToCome(cur)' = ToCome(cur)
  BY <1>1, <1>6 DEF ToCome, Flow
<1>8. CASE OpenFile
  <2>1. pc = "open" /\ pc' = "store" /\ link' = link
    BY <1>8 DEF OpenFile, Inside, netVars
  <2>2. FileSave'[cur] = pFileItem[cur]
    BY <1>3, <1>4, <1>8 DEF OpenFile, DiskFails, TypeOK
  <2>3. Drained(cur)'
    BY <1>3, <2>1 DEF Drained
  <2>4. Filling(cur) /\ Filling(cur)' /\ Made(cur)' = Made(cur)
    BY <1>2, <1>3, <2>1 DEF Filling, Busy, Made, SameRows
  <2>5. InStep(cur)' /\ Kept(cur)
    <3>1. Expected(cur)' = Expected(cur)
      <4>1. \A k : FilesLeft(cur, k)' = FilesLeft(cur, k)
        BY <1>1 DEF FilesLeft
      <4> QED BY <1>3, <2>1, <2>4, <4>1 DEF Expected
    <3> QED BY <1>5, <1>7, <3>1 DEF Core, InStep, Kept
  <2>6. RowsRight(cur)'
    BY <1>1, <1>2, <1>5, <2>4 DEF Core, RowsRight, SameRows
  <2>7. UnderWay(cur)'
    BY <1>1, <1>2, <1>5, <2>4 DEF Core, Current, UnderWay, SameRows
  <2>8. Current(cur)'
    BY <1>1, <1>3, <1>5, <2>1, <2>2, <2>7 DEF Core, Current, Busy
  <2> QED BY <2>3, <2>5, <2>6, <2>8 DEF Core
<1>9. CASE GetFileDone
  <2>1. pc = "getfile" /\ pc' = "compact" /\ ~HeaderReady /\ link' = link /\ FileSave' = FileSave
    BY <1>9 DEF GetFileDone, Inside, netVars, sessVars
  <2>2. <<>> \in Seq(Cells) /\ ToCome(cur) = ToCome(cur)' \o <<>> /\ ToCome(cur)' \in Seq(Cells)
    BY <1>3, <1>7, AheadType, EmptySeq, ConcatEmptySeq
  <2>3. Core(cur)'
    <3>1. \E more \in Seq(Cells) : ToCome(cur) = ToCome(cur)' \o more
      BY <2>2
    <3> QED BY <1>1, <1>2, <1>3, <1>5, <2>1, <2>2, <3>1, CoreKept DEF Busy
  <2>4. nFileSize[cur] # 0 => Ahead(cur) = <<>>
    <3> SUFFICES ASSUME nFileSize[cur] # 0 PROVE Ahead(cur) = <<>>
      OBVIOUS
    <3>1. Filling(cur) /\ Stage(cur) # "open" /\ link[cur] = "open"
      BY <1>3, <2>1 DEF Filling, Serving
    <3>2. FileSave[cur] = pFileItem[cur] /\ pFileItem[cur] # 0
      <4>1. FileSave[cur] = pFileItem[cur] /\ UnderWay(cur)
        BY <1>5, <3>1 DEF Core, Current
      <4>2. Made(cur) \in 1..Len(RowsIn(cur))
        BY <1>3, <4>1, RowsInType, LenProperties DEF UnderWay, Made
      <4> QED BY <1>3, <4>1, <4>2 DEF UnderWay, Listed
    <3>3. Len(pBuffer[cur]) <= nOffset
      BY <2>1, <3>2 DEF Underway, nDataLength
    <3>4. Len(Ahead(cur)) = 0
      BY <3>3, CurIs
    <3> QED BY <3>4, CurIs, EmptySeq
  <2>5. nFileSize[cur] = 0 => ~Ready(Ahead(cur))
    BY <2>1, HeaderReadyIs
  <2>6. Kept(cur)
    BY <1>1, <1>2, <1>3, <1>7, <2>1, SameExpected DEF Kept, Busy
  <2> QED BY <1>1, <1>6, <2>3, <2>4, <2>5, <2>6 DEF Drained
<1>10. CASE ParserFresh \/ Compact \/ ReadAgain \/ SessionGone
  <2>1. /\ pc \notin Busy /\ pc' \notin Busy
        /\ pc' \in {"compact", "after", "idle"} => pc \in {"compact", "after", "idle"}
        /\ link'[cur] # "closed" => link[cur] # "closed" /\ FileSave'[cur] = FileSave[cur]
    BY <1>3, <1>10 DEF ParserFresh, Compact, ReadAgain, SessionGone, Inside, netVars, sessVars, Busy,
       TypeOK
  <2> QED BY <1>1, <1>2, <1>3, <1>5, <1>6, <1>7, <2>1, AllKept
<1> QED BY <1>8, <1>9, <1>10

-----------------------------------------------------------------------------
LEMMA ClosedInOrder ==
    ASSUME Copying, Healthy(cur)', CloseFile
    PROVE  Core(cur)' /\ Drained(cur)' /\ Kept(cur)
<1> USE DEF Copying, Owned, Counted
<1> DEFINE r == Made(cur)
           f == script[cur][r]
<1>1. /\ UNCHANGED <<script, toSend, wire, link, cur, pBuffer, nOffset, pFileItem, disk, faulted>>
      /\ pc = "close" /\ pc' = "getfile"
      /\ nFileSize'[cur] = 0 /\ nSavedLength'[cur] = 0
      /\ items' = [items EXCEPT ![pFileItem[cur]].nStatus = TRUE]
  BY DEF CloseFile, ForgetFile, Inside, netVars, history, TypeOK
<1>2. cur \in Conns /\ Stage(cur) = pc /\ Stage(cur)' = pc'
  BY <1>1, CurIs DEF Stage
<1>3. pFileItem[cur] \in 1..Len(items) /\ DOMAIN items = 1..Len(items)
  BY <1>1, <1>2, RowIndexes DEF Underway
<1>4. RowsIn(cur)' = RowsIn(cur)
  <2>1. /\ DOMAIN items' = DOMAIN items
        /\ \A i \in DOMAIN items : items'[i].conn = items[i].conn
    BY <1>1, <1>3, RowIndexes DEF FileItem
  <2> QED BY <1>1, <2>1, SameRowsIn
<1>5. Healthy(cur)
  BY <1>1, <1>2, <1>4, HealthyBefore
<1>6. Core(cur)
  BY <1>2, <1>5 DEF InOrder
<1>7. /\ Filling(cur) /\ ~Filling(cur)' /\ r' = r
  BY <1>1, <1>2, <1>4 DEF Filling, Busy, Made
<1>8. /\ UnderWay(cur) /\ nSavedLength[cur] = nFileSize[cur]
  BY <1>1, <1>2, <1>6, <1>7 DEF Core, Current
<1>9. /\ r \in Nat /\ r > 0 /\ r <= Len(script[cur]) /\ r = Len(RowsIn(cur))
      /\ f \in Frame /\ nFileSize[cur] = f.nFileSize /\ nFileSize[cur] \in Nat
      /\ pFileItem[cur] = RowsIn(cur)[r]
  <2>1. r \in Nat /\ r = Len(RowsIn(cur)) /\ nFileSize[cur] \in Nat
    BY <1>2, RowsInType, LenProperties DEF Made, TypeOK
  <2>2. r > 0 /\ r <= Len(script[cur]) /\ nFileSize[cur] = f.nFileSize
        /\ pFileItem[cur] = RowsIn(cur)[r]
    BY <1>6, <1>8 DEF Core, RowsRight, UnderWay
  <2>3. f \in Frame
    BY <1>2, <2>1, <2>2, FilesLeftAre, ElementOfSeq
  <2> QED BY <2>1, <2>2, <2>3
<1> HIDE DEF r, f
<1>10. \A j \in 1..r : /\ Rows(cur)'[j].frame = Rows(cur)[j].frame
                       /\ CopiesOf(cur)'[j] = CopiesOf(cur)[j]
                       /\ Rows(cur)'[j].nStatus = (Rows(cur)[j].nStatus \/ j = r)
  <2> SUFFICES ASSUME NEW j \in 1..r
               PROVE  /\ Rows(cur)'[j].frame = Rows(cur)[j].frame
                      /\ CopiesOf(cur)'[j] = CopiesOf(cur)[j]
                      /\ Rows(cur)'[j].nStatus = (Rows(cur)[j].nStatus \/ j = r)
    OBVIOUS
  <2> DEFINE i == RowsIn(cur)[j]
  <2>1. /\ DOMAIN RowsIn(cur) = 1..r /\ i \in 1..Len(items)
        /\ i = pFileItem[cur] <=> j = r
    BY <1>2, <1>9, LenProperties DEF Listed
  <2>2. /\ Rows(cur)'[j] = items'[i] /\ Rows(cur)[j] = items[i]
        /\ CopiesOf(cur)'[j] = disk[i] /\ CopiesOf(cur)[j] = disk[i]
    BY <1>1, <1>4, <2>1 DEF Rows, CopiesOf
  <2> HIDE DEF i
  <2>3. items[i] \in FileItem
    BY <2>1, RowIndexes
  <2>4. /\ items'[i].frame = items[i].frame
        /\ items'[i].nStatus = (items[i].nStatus \/ i = pFileItem[cur])
    BY <1>1, <1>3, <2>1, <2>3 DEF FileItem
  <2> QED BY <2>1, <2>2, <2>4
<1>11. InStep(cur)' /\ Kept(cur)
  <2>1. Expected(cur) = FilesLeft(cur, r)
    <3>1. Expected(cur) = Piece(f, nSavedLength[cur], nFileSize[cur]) \o FilesLeft(cur, r)
      BY <1>1, <1>2, <1>7 DEF Expected, r, f
    <3>2. Piece(f, nSavedLength[cur], nFileSize[cur]) = <<>>
      BY <1>8, <1>9, PieceEmpty
    <3>3. FilesLeft(cur, r) \in Seq(Cells)
      BY <1>2, <1>9, FilesLeftAre
    <3> QED BY <3>1, <3>2, <3>3, ConcatEmptySeq
  <2>2. Expected(cur)' = FilesLeft(cur, r)
    <3>1. \A k : FilesLeft(cur, k)' = FilesLeft(cur, k)
      BY <1>1 DEF FilesLeft
    <3>2. Expected(cur)' = FilesLeft(cur, r)'
      BY <1>1, <1>2, <1>7 DEF Expected, r
    <3> QED BY <1>7, <3>1, <3>2
  <2>3. ToCome(cur)' = ToCome(cur)
    <3>1. Ahead(cur)' = Ahead(cur)
      BY <1>1 DEF Ahead, Used
    <3> QED BY <1>1, <3>1 DEF ToCome, Flow
  <2> QED BY <1>6, <2>1, <2>2, <2>3 DEF Core, InStep, Kept
<1>12. RowsRight(cur)'
  <2>1. /\ r <= Len(script[cur])
        /\ \A j \in 1..r : Rows(cur)[j].frame = HeaderOf(script[cur][j])
        /\ \A j \in 1..r : j < r => Rows(cur)[j].nStatus /\ CopiesOf(cur)[j] = Content(script[cur][j])
    BY <1>6 DEF Core, RowsRight, r
  <2>2. CopiesOf(cur)[r] = Content(f)
    BY <1>8, <1>9 DEF UnderWay, Content, r, f
  <2>3. \A j \in 1..r : j < r \/ j = r
    BY <1>9
  <2>4. \A j \in 1..r : Rows(cur)'[j].nStatus /\ CopiesOf(cur)'[j] = Content(script[cur][j])
    BY <1>10, <2>1, <2>2, <2>3 DEF f
  <2>5. \A j \in 1..r : Rows(cur)'[j].frame = HeaderOf(script[cur][j])
    BY <1>10, <2>1
  <2>6. Made(cur)' = r
    BY <1>7 DEF r
  <2> QED BY <1>1, <2>1, <2>4, <2>5, <2>6 DEF RowsRight
<1>13. Current(cur)'
  BY <1>1, <1>2, <1>7 DEF Current
<1>14. Drained(cur)'
  BY <1>1, <1>2 DEF Drained
<1> QED BY <1>11, <1>12, <1>13, <1>14 DEF Core

-----------------------------------------------------------------------------
\* What comes next is a frame, and GetFile is at its first cell.
LEMMA NextFrame ==
    ASSUME Copying, Healthy(cur), pc = "getfile", HeaderReady
    PROVE  /\ nFileSize[cur] = 0 /\ nSavedLength[cur] = 0 /\ ~Filling(cur)
           /\ Made(cur) < Len(script[cur]) /\ Made(cur) \in Nat
           /\ script[cur][Made(cur) + 1] \in Frame
           /\ pBuffer[cur][nOffset + 1].frame = HeaderOf(script[cur][Made(cur) + 1])
<1> USE DEF Copying, Owned, Counted
<1> DEFINE r == Made(cur)
           a == Ahead(cur)
           f == script[cur][r + 1]
<1>1. /\ cur \in Conns /\ Stage(cur) = pc /\ a \in Seq(Cells) /\ Len(a) \in Nat
      /\ Len(a) = Len(pBuffer[cur]) - nOffset
  BY CurIs, LenProperties
<1>2. Core(cur)
  BY <1>1 DEF InOrder
<1>3. Len(a) > HeaderSize /\ pBuffer[cur][nOffset + 1] = a[1]
  BY HeaderReadyIs
<1>4. HeaderSize \in Nat /\ HeadCells \in Nat \ {0} /\ HeadCells <= HeaderSize
  BY FrameAssumption DEF HeaderSize
<1>5. r \in Nat /\ r = Len(RowsIn(cur)) /\ r <= Len(script[cur]) /\ Len(script[cur]) \in Nat
  <2>1. r \in Nat /\ r = Len(RowsIn(cur))
    BY <1>1, RowsInType, LenProperties DEF Made
  <2>2. r <= Len(script[cur])
    BY <1>2 DEF Core, RowsRight
  <2> QED BY <1>1, <2>1, <2>2, FilesLeftAre
<1>6. nFileSize[cur] = 0
  <2> SUFFICES ASSUME nFileSize[cur] # 0 PROVE FALSE
    OBVIOUS
  <2>1. Filling(cur) /\ Stage(cur) # "open" /\ link[cur] = "open"
    BY <1>1 DEF Filling, Serving
  <2>2. FileSave[cur] = pFileItem[cur] /\ UnderWay(cur)
    BY <1>2, <2>1 DEF Core, Current
  <2>3. r \in 1..Len(RowsIn(cur)) /\ pFileItem[cur] = RowsIn(cur)[r]
    BY <1>5, <2>2 DEF UnderWay
  <2>4. FileSave[cur] # 0
    BY <1>1, <2>2, <2>3 DEF Listed
  <2>5. Len(pBuffer[cur]) <= nOffset
    BY <2>4 DEF Underway, nDataLength
  <2>6. nOffset \in Nat /\ Len(pBuffer[cur]) \in Nat
    BY CurIs
  <2> QED BY <1>1, <1>3, <1>4, <2>5, <2>6
<1>7. nSavedLength[cur] = 0 /\ ~Filling(cur)
  <2>1. nSavedLength[cur] <= nFileSize[cur] /\ nSavedLength[cur] \in Nat
    BY <1>1, <1>2 DEF Core, Current, TypeOK
  <2> QED BY <1>1, <1>6, <2>1 DEF Filling, Busy
<1> HIDE DEF r, f, a
<1>8. PICK rest \in Seq(Cells) : FilesLeft(cur, r) = ToCome(cur) \o rest
  <2>1. Expected(cur) = FilesLeft(cur, r)
    BY <1>1, <1>7 DEF Expected, r
  <2> QED BY <1>2, <2>1 DEF Core, InStep
<1>9. \E v \in Seq(Cells) : FilesLeft(cur, r) = a \o v
  <2> DEFINE w == wire[cur] \o Flow(toSend[cur])
  <2>1. w \in Seq(Cells) /\ ToCome(cur) = a \o w
    BY <1>1, AheadType DEF ToCome, a
  <2> HIDE DEF w
  <2>2. w \in Seq(Cells) /\ rest \in Seq(Cells) /\ a \in Seq(Cells)
    BY <1>1, <2>1
  <2>3. (a \o w) \o rest = a \o (w \o rest) /\ w \o rest \in Seq(Cells)
    <3>1. Regroups(a, w, rest)
      BY ONLY <2>2, RegroupsAlways
    <3>2. w \o rest \in Seq(Cells)
      BY ONLY <2>2, JoinType
    <3> QED BY <3>1, <3>2 DEF Regroups
  <2> QED BY <1>8, <2>1, <2>3
<1>10. PICK v \in Seq(Cells) : FilesLeft(cur, r) = a \o v
  BY <1>9
<1>11. r < Len(script[cur])
  <2> SUFFICES ASSUME r = Len(script[cur]) PROVE FALSE
    BY <1>5
  <2>1. FilesLeft(cur, r) = <<>>
    BY <1>1, FilesLeftAre
  <2>2. Len(a \o v) = Len(a) + Len(v) /\ Len(v) \in Nat
    BY <1>1, <1>10, ConcatProperties, LenProperties
  <2> QED BY <1>1, <1>3, <1>4, <1>10, <2>1, <2>2, EmptySeq
<1>12. f \in Frame /\ FilesLeft(cur, r) = FrameCells(f) \o FilesLeft(cur, r + 1)
       /\ FilesLeft(cur, r + 1) \in Seq(Cells)
  <2>1. r \in 0..(Len(script[cur]) - 1) /\ r + 1 \in 0..Len(script[cur])
    BY <1>5, <1>11
  <2> QED BY <1>1, <2>1, FilesLeftAre DEF f
<1>13. a[1] = Cell("head", f, 1)
  <2> DEFINE h == FrameCells(f)
             w == FilesLeft(cur, r + 1)
  <2>1. /\ h \in Seq(Cells) /\ Len(h) \in Nat \ {0} /\ h[1] = Cell("head", f, 1)
        /\ w \in Seq(Cells) /\ h \o w = a \o v
    <3>1. Len(FrameCells(f)) = f.sent
      <4>1. f.sent - 0 = f.sent /\ 0 <= f.sent /\ 0 \in Nat /\ f.sent \in Nat
        BY <1>12, FrameIsCut
      <4>2. \A k, l \in Nat : k <= l => Len(Cut(f, k, l)) = l - k
        BY <1>12, CutType
      <4>3. FrameCells(f) = Cut(f, 0, f.sent)
        BY <1>12, FrameIsCut
      <4> HIDE DEF f
      <4>4. Len(Cut(f, 0, f.sent)) = f.sent - 0
        BY <4>1, <4>2
      <4> QED BY <4>1, <4>3, <4>4
    <3> QED BY <1>10, <1>12, <3>1, FrameIsCut, FrameCellsType, FirstCell
  <2> HIDE DEF h, w
  <2>2. 1 \in 1..Len(h) /\ 1 \in 1..Len(a)
    BY <1>1, <1>3, <1>4, <2>1
  <2>3. (h \o w)[1] = h[1] /\ (a \o v)[1] = a[1]
    BY ONLY <1>1, <1>10, <2>1, <2>2, ConcatProperties, LenProperties
  <2> QED BY <2>1, <2>3
<1>14. a[1].frame = HeaderOf(f)
  BY <1>13 DEF Cell
<1> QED BY <1>3, <1>5, <1>6, <1>7, <1>11, <1>12, <1>14 DEF r, f

LEMMA HeaderInOrder ==
    ASSUME Copying, Healthy(cur)', GetFileHeader
    PROVE  Core(cur)' /\ Drained(cur)' /\ Kept(cur)
<1> USE DEF Copying, Owned, Counted
<1> DEFINE r == Made(cur)
           n == Len(items)
           header == pBuffer[cur][nOffset + 1].frame
           row == [conn |-> cur, frame |-> header, nRecved |-> 0, nStatus |-> FALSE]
<1>1. /\ UNCHANGED <<script, toSend, wire, link, cur, pBuffer, nOffset, faulted, nSavedLength>>
      /\ pc = "getfile" /\ pc' = "open" /\ HeaderReady
      /\ nFileSize'[cur] = header.nFileSize /\ pFileItem'[cur] = n + 1
      /\ items' = Append(items, row) /\ disk' = Append(disk, <<>>)
  BY DEF GetFileHeader, Inside, netVars, history, TypeOK
<1>2. cur \in Conns /\ Stage(cur) = pc /\ Stage(cur)' = pc' /\ n \in Nat
  BY <1>1, CurIs, RowIndexes DEF Stage
<1>3. row \in FileItem /\ row.conn = cur
  BY <1>1, <1>2, HeaderType DEF FileItem
<1>4. RowsIn(cur)' = Append(RowsIn(cur), n + 1)
  <2> HIDE DEF row
  <2> QED BY <1>1, <1>3, RowAdded
<1>5. Healthy(cur)
  <2>1. n + 1 \in Nat
    BY <1>2
  <2> QED BY <1>1, <1>2, <1>4, <2>1, HealthyBefore
<1>6. /\ nFileSize[cur] = 0 /\ nSavedLength[cur] = 0 /\ ~Filling(cur)
      /\ r < Len(script[cur]) /\ r \in Nat
      /\ script[cur][r + 1] \in Frame /\ header = HeaderOf(script[cur][r + 1])
  BY <1>1, <1>5, NextFrame
<1>7. Core(cur)
  BY <1>2, <1>5 DEF InOrder
<1> HIDE DEF header
<1>8. /\ items'[n + 1].frame = header /\ items'[n + 1].nRecved = 0 /\ ~items'[n + 1].nStatus
      /\ disk'[n + 1] = <<>>
      /\ \A i \in 1..n : items'[i] = items[i] /\ disk'[i] = disk[i]
  <2>1. items'[n + 1] = row /\ \A i \in 1..n : items'[i] = items[i]
    <3> HIDE DEF row
    <3> QED BY <1>1, <1>3, AppendProperties DEF TypeOK
  <2>2. disk'[n + 1] = <<>> /\ \A i \in 1..n : disk'[i] = disk[i]
    <3>1. disk \in Seq(Seq(Cells)) /\ Len(disk) = n /\ <<>> \in Seq(Cells)
      BY EmptySeq DEF TypeOK
    <3> QED BY <1>1, <3>1, AppendProperties
  <2> QED BY <2>1, <2>2
<1>9. /\ RowsIn(cur) \in Seq(Nat) /\ r = Len(RowsIn(cur))
      /\ Len(RowsIn(cur)') = r + 1 /\ DOMAIN RowsIn(cur)' = 1..(r + 1)
      /\ RowsIn(cur)'[r + 1] = n + 1
      /\ \A j \in 1..r : RowsIn(cur)'[j] = RowsIn(cur)[j] /\ RowsIn(cur)[j] \in 1..n
  <2>1. RowsIn(cur) \in Seq(Nat) /\ r = Len(RowsIn(cur)) /\ n + 1 \in Nat
    BY <1>2, RowsInType DEF Made
  <2>2. \A j \in 1..r : RowsIn(cur)[j] \in 1..n
    BY <1>2, <2>1 DEF Listed
  <2> HIDE DEF n, r
  <2>3. /\ RowsIn(cur)' \in Seq(Nat) /\ Len(RowsIn(cur)') = r + 1
        /\ RowsIn(cur)'[r + 1] = n + 1
        /\ \A j \in 1..r : RowsIn(cur)'[j] = RowsIn(cur)[j]
    BY <1>4, <2>1, AppendProperties
  <2>4. DOMAIN RowsIn(cur)' = 1..(r + 1)
    BY <2>3, LenProperties
  <2> QED BY <2>1, <2>2, <2>3, <2>4
<1>10. /\ \A j \in 1..r : Rows(cur)'[j] = Rows(cur)[j] /\ CopiesOf(cur)'[j] = CopiesOf(cur)[j]
       /\ Rows(cur)'[r + 1].frame = header /\ Rows(cur)'[r + 1].nRecved = 0
       /\ ~Rows(cur)'[r + 1].nStatus /\ CopiesOf(cur)'[r + 1] = <<>>
  <2> HIDE DEF n, r
  <2>1. \A j \in 1..(r + 1) : /\ Rows(cur)'[j] = items'[RowsIn(cur)'[j]]
                              /\ CopiesOf(cur)'[j] = disk'[RowsIn(cur)'[j]]
    BY <1>9 DEF Rows, CopiesOf
  <2>2. \A j \in 1..r : Rows(cur)[j] = items[RowsIn(cur)[j]] /\ CopiesOf(cur)[j] = disk[RowsIn(cur)[j]]
    BY <1>9, LenProperties DEF Rows, CopiesOf
  <2>3. r \in Nat /\ r + 1 \in 1..(r + 1) /\ \A j \in 1..r : j \in 1..(r + 1)
    BY <1>6
  <2> QED BY <1>8, <1>9, <2>1, <2>2, <2>3
<1>11. Filling(cur)' /\ Made(cur)' = r + 1
  BY <1>1, <1>2, <1>9 DEF Filling, Busy, Made
<1> HIDE DEF r, n, row
<1>12. InStep(cur)' /\ Kept(cur)
  <2>1. Expected(cur) = FilesLeft(cur, r)
    BY <1>1, <1>2, <1>6 DEF Expected, r
  <2>2. Expected(cur)' = FilesLeft(cur, r)
    <3>1. Expected(cur)' = FilesLeft(cur, Made(cur) - 1)'
      BY <1>1, <1>2 DEF Expected
    <3>2. FilesLeft(cur, Made(cur) - 1)'
          = Flow(SubSeq(script[cur], (Made(cur)' - 1) + 1, Len(script[cur])))
      BY <1>1 DEF FilesLeft, Flow
    <3>3. (Made(cur)' - 1) + 1 = r + 1
      BY <1>6, <1>11
    <3> QED BY <3>1, <3>2, <3>3 DEF FilesLeft
  <2>3. ToCome(cur)' = ToCome(cur)
    <3>1. Ahead(cur)' = Ahead(cur)
      BY <1>1 DEF Ahead, Used
    <3> QED BY <1>1, <3>1 DEF ToCome, Flow
  <2> QED BY <1>7, <2>1, <2>2, <2>3 DEF Core, InStep, Kept
<1>13. RowsRight(cur)'
  <2>1. /\ \A j \in 1..r : Rows(cur)[j].frame = HeaderOf(script[cur][j])
        /\ \A j \in 1..r : Rows(cur)[j].nStatus /\ CopiesOf(cur)[j] = Content(script[cur][j])
    BY <1>6, <1>7 DEF Core, RowsRight, r
  <2>2. r + 1 <= Len(script[cur]) /\ \A j \in 1..(r + 1) : j = r + 1 \/ (j \in 1..r /\ j < r + 1)
    <3>1. Len(script[cur]) \in Nat
      BY <1>2, FilesLeftAre
    <3> QED BY <1>6, <3>1
  <2>3. \A j \in 1..(r + 1) : Rows(cur)'[j].frame = HeaderOf(script[cur][j])
    BY <1>6, <1>10, <2>1, <2>2
  <2>4. \A j \in 1..(r + 1) :
            j < r + 1 => Rows(cur)'[j].nStatus /\ CopiesOf(cur)'[j] = Content(script[cur][j])
    BY <1>6, <1>10, <2>1, <2>2
  <2> QED BY <1>1, <1>11, <2>2, <2>3, <2>4 DEF RowsRight
<1>14. UnderWay(cur)'
  <2>1. BodyOf(script[cur][r + 1], 0) = <<>>
    BY <1>6, PieceOfBody, PieceEmpty
  <2>2. r + 1 > 0 /\ nFileSize'[cur] = script[cur][r + 1].nFileSize
    BY <1>1, <1>6 DEF HeaderOf
  <2> QED BY <1>1, <1>6, <1>9, <1>10, <1>11, <2>1, <2>2 DEF UnderWay
<1>15. Current(cur)'
  <2>1. header.nFileSize \in Nat
    BY <1>6, HeaderOfType DEF HeaderOf
  <2> QED BY <1>1, <1>2, <1>6, <1>14, <2>1 DEF Current, Busy
<1>16. Drained(cur)'
  BY <1>1, <1>2 DEF Drained
<1> QED BY <1>12, <1>13, <1>15, <1>16 DEF Core

-----------------------------------------------------------------------------
(* The writes. *)

LEMMA Regroup ==
    ASSUME NEW p \in Seq(Cells), NEW q \in Seq(Cells), NEW w \in Seq(Cells)
    PROVE  (p \o q) \o w = p \o (q \o w) /\ q \o w \in Seq(Cells) /\ p \o q \in Seq(Cells)
<1>1. Regroups(p, q, w) /\ q \o w \in Seq(Cells) /\ p \o q \in Seq(Cells)
  BY RegroupsAlways, JoinType
<1> QED BY <1>1 DEF Regroups

LEMMA RegroupFour ==
    ASSUME NEW h \in Seq(Cells), NEW p \in Seq(Cells), NEW q \in Seq(Cells), NEW w \in Seq(Cells)
    PROVE  (h \o (p \o q)) \o w = (h \o p) \o (q \o w)
<1> DEFINE z == q \o w
           y == p \o q
<1>1. z \in Seq(Cells) /\ y \in Seq(Cells)
  BY ConcatProperties
<1>2. y \o w = p \o z
  <2>1. Regroups(p, q, w)
    BY ONLY p \in Seq(Cells), q \in Seq(Cells), w \in Seq(Cells), RegroupsAlways
  <2> QED BY <2>1 DEF Regroups, y, z
<1> HIDE DEF z, y
<1>3. (h \o y) \o w = h \o (y \o w)
  <2>1. Regroups(h, y, w)
    BY ONLY <1>1, h \in Seq(Cells), w \in Seq(Cells), RegroupsAlways
  <2> QED BY <2>1 DEF Regroups
<1>4. (h \o p) \o z = h \o (p \o z)
  <2>1. Regroups(h, p, z)
    BY ONLY <1>1, h \in Seq(Cells), p \in Seq(Cells), RegroupsAlways
  <2> QED BY <2>1 DEF Regroups
<1> QED BY <1>2, <1>3, <1>4 DEF z, y

\* What the handler has used of the buffer is what was expected.
LEMMA UsedUpBy ==
    ASSUME TypeOK, Placed, NEW rest \in Seq(Cells), Expected(cur) = ToCome(cur) \o rest, NEW s \in Seq(Cells), NEW t \in Seq(Cells),
           Expected(cur) = s \o t, Len(s) <= Len(Ahead(cur)),
           UNCHANGED <<pBuffer, cur, wire, toSend>>, nOffset' = nOffset + Len(s)
    PROVE  /\ \A i \in 1..Len(s) : Ahead(cur)[i] = s[i]
           /\ SubSeq(Ahead(cur), 1, Len(s)) = s
           /\ Len(Ahead(cur)') = Len(Ahead(cur)) - Len(s) /\ Ahead(cur)' \in Seq(Cells)
           /\ Expected(cur)' = t => Expected(cur)' = ToCome(cur)' \o rest
<1> DEFINE a == Ahead(cur)
           w == wire[cur] \o Flow(toSend[cur])
<1>1. s \o t = ToCome(cur) \o rest
  OBVIOUS
<1>2. /\ cur \in Conns /\ a \in Seq(Cells) /\ w \in Seq(Cells) /\ ToCome(cur) = a \o w
  <2>1. cur \in Conns
    BY CurIs
  <2> QED BY <2>1, AheadType DEF ToCome
<1> HIDE DEF a, w
<1>3. s \o t = a \o (w \o rest) /\ w \o rest \in Seq(Cells)
  <2>1. a \in Seq(Cells) /\ w \in Seq(Cells) /\ rest \in Seq(Cells)
    BY <1>2
  <2>2. (a \o w) \o rest = a \o (w \o rest) /\ w \o rest \in Seq(Cells)
    <3>1. Regroups(a, w, rest)
      BY ONLY <2>1, RegroupsAlways
    <3>2. w \o rest \in Seq(Cells)
      BY ONLY <2>1, JoinType
    <3> QED BY <3>1, <3>2 DEF Regroups
  <2> QED BY <1>1, <1>2, <2>2
<1>4. /\ \A i \in 1..Len(s) : a[i] = s[i]
      /\ SubSeq(a, 1, Len(s)) = s
      /\ t = SubSeq(a, Len(s) + 1, Len(a)) \o (w \o rest)
  <2> DEFINE v == w \o rest
  <2>1. v \in Seq(Cells) /\ a \in Seq(Cells) /\ s \o t = a \o v /\ Len(s) <= Len(a)
    BY <1>2, <1>3 DEF a
  <2> HIDE DEF v
  <2>2. \A i \in 1..Len(s) : a[i] = s[i]
    BY <2>1, SameSeqCutTwice
  <2>3. SubSeq(a, 1, Len(s)) = s
    BY <2>1, SameSeqCutTwice
  <2> DEFINE p == SubSeq(a, Len(s) + 1, Len(a))
             z == p \o v
  <2>4. p \in Seq(Cells) /\ a = s \o p
    <3>1. Len(s) \in 0..Len(a)
      BY <2>1, LenProperties
    <3> QED BY <2>1, <2>3, <3>1, CutSeq
  <2> HIDE DEF p
  <2>5. s \in Seq(Cells) /\ p \in Seq(Cells) /\ v \in Seq(Cells)
    BY <2>1, <2>4
  <2>6. (s \o p) \o v = s \o z /\ z \in Seq(Cells)
    BY ONLY SMTT(30), <2>5, Regroup
  <2> HIDE DEF z
  <2>7. t = z
    BY <2>1, <2>4, <2>6, ConcatSimplifications
  <2> QED BY <2>2, <2>3, <2>7 DEF v, p, z
<1>5. /\ Ahead(cur)' = SubSeq(a, Len(s) + 1, Len(a)) /\ Ahead(cur)' \in Seq(Cells)
      /\ Len(Ahead(cur)') = Len(a) - Len(s)
  <2>1. Len(s) \in Nat
    BY LenProperties
  <2> QED BY <2>1, AheadAfter DEF a
<1>6. ASSUME Expected(cur)' = t PROVE Expected(cur)' = ToCome(cur)' \o rest
  <2> DEFINE b == Ahead(cur)'
  <2>1. t = b \o (w \o rest) /\ b \in Seq(Cells)
    BY <1>4, <1>5
  <2>2. ToCome(cur)' = b \o w
    BY DEF ToCome, Flow, w
  <2> HIDE DEF b
  <2>3. b \in Seq(Cells) /\ w \in Seq(Cells) /\ rest \in Seq(Cells)
    BY <1>2, <2>1
  <2>4. (b \o w) \o rest = b \o (w \o rest)
    <3>1. Regroups(b, w, rest)
      BY ONLY <2>3, RegroupsAlways
    <3> QED BY <3>1 DEF Regroups
  <2> QED BY <1>6, <2>1, <2>2, <2>4
<1> QED BY <1>4, <1>5, <1>6 DEF a

LEMMA UsedUp ==
    ASSUME TypeOK, Placed, InStep(cur), NEW s \in Seq(Cells), NEW t \in Seq(Cells),
           Expected(cur) = s \o t, Len(s) <= Len(Ahead(cur)),
           UNCHANGED <<pBuffer, cur, wire, toSend>>, nOffset' = nOffset + Len(s)
    PROVE  /\ \A i \in 1..Len(s) : Ahead(cur)[i] = s[i]
           /\ SubSeq(Ahead(cur), 1, Len(s)) = s
           /\ Len(Ahead(cur)') = Len(Ahead(cur)) - Len(s) /\ Ahead(cur)' \in Seq(Cells)
           /\ Expected(cur)' = t => InStep(cur)' /\ Kept(cur)
<1>1. PICK rest \in Seq(Cells) : Expected(cur) = ToCome(cur) \o rest
  BY DEF InStep
<1>2. /\ \A i \in 1..Len(s) : Ahead(cur)[i] = s[i]
      /\ SubSeq(Ahead(cur), 1, Len(s)) = s
      /\ Len(Ahead(cur)') = Len(Ahead(cur)) - Len(s) /\ Ahead(cur)' \in Seq(Cells)
      /\ Expected(cur)' = t => Expected(cur)' = ToCome(cur)' \o rest
  BY <1>1, UsedUpBy
<1>3. Expected(cur)' = t => Kept(cur)
  BY UsedUpBy DEF Kept
<1> QED BY <1>1, <1>2, <1>3 DEF InStep

\* A write goes to the last row and its file.
LEMMA WriteRows ==
    ASSUME Copying, UnderWay(cur), NEW cells \in Seq(Cells), NEW saved \in Nat,
           Write(cells, saved), cur' = cur
    PROVE  /\ RowsIn(cur)' = RowsIn(cur)
           /\ \A j \in 1..Made(cur) :
                 /\ Rows(cur)'[j].frame = Rows(cur)[j].frame
                 /\ Rows(cur)'[j].nStatus = Rows(cur)[j].nStatus
                 /\ j < Made(cur) => CopiesOf(cur)'[j] = CopiesOf(cur)[j]
           /\ Rows(cur)'[Made(cur)].nRecved = saved
           /\ CopiesOf(cur)'[Made(cur)] = CopiesOf(cur)[Made(cur)] \o cells
<1> USE DEF Copying, Owned, Counted
<1> DEFINE r == Made(cur)
<1>1. /\ FileSave[cur] = pFileItem[cur] /\ pFileItem[cur] \in 1..Len(items)
      /\ DOMAIN items' = DOMAIN items /\ cur \in Conns
      /\ \A i \in 1..Len(items) : items'[i].conn = items[i].conn
  BY WriteOthers, CurIs
<1>2. RowsIn(cur)' = RowsIn(cur)
  <2>1. \A i \in DOMAIN items : items'[i].conn = items[i].conn
    BY <1>1, RowIndexes
  <2> QED BY <1>1, <2>1, SameRowsIn
<1>3. /\ r \in Nat /\ r > 0 /\ DOMAIN RowsIn(cur) = 1..r
      /\ pFileItem[cur] = RowsIn(cur)[r]
      /\ \A j \in 1..r : RowsIn(cur)[j] \in 1..Len(items)
      /\ \A j \in 1..r : RowsIn(cur)[j] = RowsIn(cur)[r] => j = r
  BY <1>1, RowsInType, LenProperties DEF UnderWay, Made, Listed
<1>4. \A j \in 1..r : /\ Rows(cur)'[j] = items'[RowsIn(cur)[j]] /\ Rows(cur)[j] = items[RowsIn(cur)[j]]
                      /\ CopiesOf(cur)'[j] = disk'[RowsIn(cur)[j]]
                      /\ CopiesOf(cur)[j] = disk[RowsIn(cur)[j]]
  BY <1>2, <1>3 DEF Rows, CopiesOf
<1>5. /\ disk' = [disk EXCEPT ![pFileItem[cur]] = @ \o cells]
      /\ items' = [items EXCEPT ![pFileItem[cur]].nRecved = saved]
  BY <1>1 DEF Write
<1>6. /\ DOMAIN items = 1..Len(items) /\ DOMAIN disk = 1..Len(items)
      /\ \A i \in 1..Len(items) : items[i] \in FileItem
  BY RowIndexes
<1>7. /\ \A i \in 1..Len(items) : /\ items'[i].frame = items[i].frame
                                  /\ items'[i].nStatus = items[i].nStatus
                                  /\ i # pFileItem[cur] => disk'[i] = disk[i]
      /\ items'[pFileItem[cur]].nRecved = saved
      /\ disk'[pFileItem[cur]] = disk[pFileItem[cur]] \o cells
  BY <1>1, <1>5, <1>6 DEF FileItem
<1> HIDE DEF r
<1>8. \A j \in 1..r : /\ Rows(cur)'[j].frame = Rows(cur)[j].frame
                      /\ Rows(cur)'[j].nStatus = Rows(cur)[j].nStatus
                      /\ j < r => CopiesOf(cur)'[j] = CopiesOf(cur)[j]
  BY SMTT(30), <1>3, <1>4, <1>7
<1>9. Rows(cur)'[r].nRecved = saved /\ CopiesOf(cur)'[r] = CopiesOf(cur)[r] \o cells
  <2>1. r \in 1..r
    BY <1>3
  <2> QED BY <1>3, <1>4, <1>7, <2>1
<1> QED BY <1>2, <1>8, <1>9 DEF r

\* Writing the next piece of the file under way.
LEMMA WriteInOrder ==
    ASSUME Copying, RowsRight(cur), UnderWay(cur), pc \in {"parser", "store"}, Filling(cur),
           FileSave[cur] = pFileItem[cur], NEW n \in Nat,
           nSavedLength[cur] + n <= nFileSize[cur],
           Write(Piece(script[cur][Made(cur)], nSavedLength[cur], nSavedLength[cur] + n),
                 nSavedLength[cur] + n),
           UNCHANGED <<script, link, cur, pFileItem, FileSave, nFileSize>>,
           IF nSavedLength[cur] + n = nFileSize[cur] THEN pc' = "close"
                                                     ELSE pc' \in {"compact", "getfile"}
    PROVE  /\ RowsIn(cur)' = RowsIn(cur) /\ Filling(cur)' /\ nSavedLength'[cur] = nSavedLength[cur] + n
           /\ RowsRight(cur)' /\ Current(cur)'
<1> USE DEF Copying, Owned, Counted
<1> DEFINE r == Made(cur)
           f == script[cur][r]
           saved == nSavedLength[cur]
           cells == Piece(f, saved, saved + n)
<1>1. cur \in Conns /\ Stage(cur) = pc /\ Stage(cur)' = pc'
  BY CurIs DEF Stage
<1>2. /\ r \in Nat /\ r > 0 /\ r <= Len(script[cur]) /\ f \in Frame
      /\ saved \in Nat /\ nFileSize[cur] \in Nat /\ saved + n \in Nat
      /\ cells \in Seq(Cells)
  <2>1. r \in Nat /\ r > 0 /\ r <= Len(script[cur])
    BY <1>1, RowsInType, LenProperties DEF Made, RowsRight, UnderWay
  <2>2. f \in Frame
    BY <1>1, <2>1, FilesLeftAre, ElementOfSeq
  <2>3. saved \in Nat /\ nFileSize[cur] \in Nat
    BY <1>1 DEF TypeOK
  <2>4. saved + n \in Nat /\ saved <= saved + n
    BY <2>3
  <2>5. cells \in Seq(Cells)
    BY <2>2, <2>3, <2>4, PieceType
  <2> QED BY <2>1, <2>2, <2>3, <2>4, <2>5
<1>3. /\ RowsIn(cur)' = RowsIn(cur)
      /\ \A j \in 1..r :
            /\ Rows(cur)'[j].frame = Rows(cur)[j].frame
            /\ Rows(cur)'[j].nStatus = Rows(cur)[j].nStatus
            /\ j < r => CopiesOf(cur)'[j] = CopiesOf(cur)[j]
      /\ Rows(cur)'[r].nRecved = saved + n
      /\ CopiesOf(cur)'[r] = CopiesOf(cur)[r] \o cells
  <2>1. Write(cells, saved + n)
    OBVIOUS
  <2> HIDE DEF cells
  <2> QED BY <1>2, <2>1, WriteRows
<1>4. nSavedLength'[cur] = saved + n
  BY <1>1 DEF Write, TypeOK
<1>5. Made(cur)' = r /\ Filling(cur)'
  <2>1. Made(cur)' = r
    BY <1>3 DEF Made
  <2>2. nFileSize'[cur] # 0 \/ pc' = "close"
    BY <1>2
  <2> QED BY <1>1, <2>1, <2>2 DEF Filling, Busy
<1>6. CopiesOf(cur)'[r] = BodyOf(f, saved + n)
  <2>1. CopiesOf(cur)[r] = Piece(f, 0, saved)
    BY <1>2, PieceOfBody DEF UnderWay
  <2>2. Piece(f, 0, saved) \o Piece(f, saved, saved + n) = Piece(f, 0, saved + n)
    <3>1. 0 <= saved /\ saved <= saved + n /\ 0 \in Nat
      BY <1>2
    <3> QED BY ZenonT(60), <1>2, <3>1, PieceConcat
  <2>3. BodyOf(f, saved + n) = Piece(f, 0, saved + n)
    BY <1>2, PieceOfBody
  <2> QED BY <1>3, <2>1, <2>2, <2>3
<1>7. /\ \A j \in 1..r : Rows(cur)[j].frame = HeaderOf(script[cur][j])
      /\ \A j \in 1..r : j < r => Rows(cur)[j].nStatus /\ CopiesOf(cur)[j] = Content(script[cur][j])
      /\ ~Rows(cur)[r].nStatus /\ nFileSize[cur] = f.nFileSize /\ pFileItem[cur] = RowsIn(cur)[r]
  BY DEF RowsRight, UnderWay
<1> HIDE DEF r, f, saved, cells
<1>8. RowsRight(cur)'
  <2>1. /\ \A j \in 1..r : Rows(cur)'[j].frame = HeaderOf(script[cur][j])
        /\ \A j \in 1..r : j < r => Rows(cur)'[j].nStatus /\ CopiesOf(cur)'[j] = Content(script[cur][j])
    BY <1>3, <1>7
  <2> QED BY <1>2, <1>5, <2>1 DEF RowsRight
<1>9. UnderWay(cur)'
  <2>1. ~Rows(cur)'[r].nStatus
    <3>1. r \in 1..r
      BY <1>2
    <3> QED BY <1>3, <1>7, <3>1
  <2> QED BY <1>2, <1>3, <1>4, <1>5, <1>6, <1>7, <2>1 DEF UnderWay, f
<1>10. Current(cur)'
  <2>1. saved + n <= nFileSize[cur]
    BY DEF saved
  <2>2. pc' \notin {"open", "store"} /\ (pc' = "close" => saved + n = nFileSize[cur])
        /\ (pc' \notin Busy => saved + n < nFileSize[cur])
    BY <1>2, <2>1 DEF saved, Busy
  <2> QED BY <1>1, <1>4, <1>5, <1>9, <2>1, <2>2 DEF Current
<1> QED BY <1>3, <1>4, <1>5, <1>8, <1>10 DEF saved

LEMMA ContinueInOrder ==
    ASSUME Copying, Healthy(cur)', ParserContinue
    PROVE  Core(cur)' /\ Drained(cur)' /\ Kept(cur)
<1> USE DEF Copying, Owned, Counted
<1> DEFINE r == Made(cur)
           f == script[cur][r]
           saved == nSavedLength[cur]
           size == nFileSize[cur]
           k == Smaller(size - saved, Len(pBuffer[cur]))
           s == Piece(f, saved, saved + k)
           t == Piece(f, saved + k, size) \o FilesLeft(cur, r)
<1>1. /\ UNCHANGED <<script, toSend, wire, link, cur, pBuffer, faulted, nFileSize, pFileItem, FileSave>>
      /\ pc = "parser" /\ pc' = IF saved + Len(NextPart) = size THEN "close" ELSE "compact"
      /\ size # 0 /\ Write(NextPart, saved + Len(NextPart)) /\ nOffset' = Len(NextPart)
      /\ NextPart = SubSeq(pBuffer[cur], 1, k)
  BY DEF ParserContinue, Inside, netVars, history, NextPart, nDataLength
<1>2. /\ cur \in Conns /\ Stage(cur) = pc /\ Stage(cur)' = pc' /\ nOffset = 0
      /\ pBuffer[cur] \in Seq(Cells) /\ Len(pBuffer[cur]) \in Nat
      /\ Ahead(cur) = pBuffer[cur]
  <2>1. nOffset = 0
    BY <1>1 DEF Placed
  <2>2. /\ cur \in Conns /\ Stage(cur) = pc /\ Stage(cur)' = pc'
        /\ pBuffer[cur] \in Seq(Cells) /\ Len(pBuffer[cur]) \in Nat
    BY <1>1, CurIs DEF Stage
  <2> QED BY <2>1, <2>2, CurIs, SubSeqFull
<1>3. RowsIn(cur)' = RowsIn(cur)
  <2>1. /\ DOMAIN items' = DOMAIN items
        /\ \A i \in 1..Len(items) : items'[i].conn = items[i].conn
    BY <1>1, WriteOthers
  <2>2. \A i \in DOMAIN items : items'[i].conn = items[i].conn
    BY <2>1, RowIndexes
  <2> QED BY <1>1, <2>1, <2>2, SameRowsIn
<1>4. Healthy(cur)
  BY <1>1, <1>2, <1>3, HealthyBefore
<1>5. Core(cur)
  BY <1>2, <1>4 DEF InOrder
<1>6. Filling(cur) /\ link[cur] = "open"
  BY <1>1 DEF Filling, Serving
<1>7. UnderWay(cur) /\ RowsRight(cur) /\ FileSave[cur] = pFileItem[cur] /\ saved < size
  BY <1>1, <1>2, <1>5, <1>6 DEF Core, Current, Busy
<1>8. /\ r \in Nat /\ r > 0 /\ r <= Len(script[cur]) /\ f \in Frame /\ FilesLeft(cur, r) \in Seq(Cells)
      /\ saved \in Nat /\ size \in Nat
  <2>1. r \in Nat /\ r > 0 /\ r <= Len(script[cur])
    BY <1>2, <1>7, RowsInType, LenProperties DEF Made, RowsRight, UnderWay
  <2>2. f \in Frame /\ FilesLeft(cur, r) \in Seq(Cells)
    BY <1>2, <2>1, FilesLeftAre, ElementOfSeq
  <2> QED BY <1>2, <2>1, <2>2 DEF TypeOK
<1>9. k \in Nat /\ k <= Len(pBuffer[cur]) /\ saved + k <= size
      /\ (saved + k # size => k = Len(pBuffer[cur]))
  BY <1>2, <1>7, <1>8 DEF Smaller
<1>10. Len(NextPart) = k
  <2> HIDE DEF k
  <2> QED BY <1>1, <1>2, <1>9, CutSeq
<1> HIDE DEF k
<1>11. /\ s \in Seq(Cells) /\ Len(s) = k /\ t \in Seq(Cells)
       /\ Expected(cur) = s \o t
  <2> DEFINE q == Piece(f, saved + k, size)
             w == FilesLeft(cur, r)
  <2>1. saved + k \in Nat /\ saved <= saved + k /\ (saved + k) - saved = k
    BY <1>8, <1>9
  <2>2. s \in Seq(Cells) /\ Len(s) = k /\ q \in Seq(Cells) /\ s \o q = Piece(f, saved, size)
    BY ZenonT(60), <1>8, <1>9, <2>1, PieceType, PieceConcat
  <2>3. Expected(cur) = (s \o q) \o w /\ w \in Seq(Cells)
    BY <1>1, <1>2, <1>6, <1>8, <2>2 DEF Expected
  <2> HIDE DEF s, q, w
  <2>4. (s \o q) \o w = s \o (q \o w) /\ q \o w \in Seq(Cells)
    BY <2>2, <2>3, Regroup
  <2> QED BY <2>2, <2>3, <2>4 DEF q, w
<1> HIDE DEF s, t
<1>12. /\ SubSeq(Ahead(cur), 1, k) = s
       /\ Len(Ahead(cur)') = Len(Ahead(cur)) - k /\ Ahead(cur)' \in Seq(Cells)
       /\ Expected(cur)' = t => InStep(cur)' /\ Kept(cur)
  <2>1. nOffset' = nOffset + Len(s) /\ Len(s) <= Len(Ahead(cur))
    BY <1>1, <1>2, <1>9, <1>10, <1>11
  <2>2. InStep(cur)
    BY <1>5 DEF Core
  <2> QED BY <1>1, <1>11, <2>1, <2>2, UsedUp
<1>13. /\ RowsIn(cur)' = RowsIn(cur) /\ Filling(cur)' /\ nSavedLength'[cur] = saved + k
       /\ RowsRight(cur)' /\ Current(cur)'
  <2>1. Write(Piece(f, saved, saved + k), saved + k)
    BY <1>1, <1>2, <1>10, <1>12 DEF s
  <2>2. IF saved + k = size THEN pc' = "close" ELSE pc' \in {"compact", "getfile"}
    BY <1>1, <1>10
  <2> QED BY <1>1, <1>6, <1>7, <1>9, <2>1, <2>2, WriteInOrder
<1>14. Expected(cur)' = t
  <2>1. Stage(cur)' \notin {"open", "store"}
    BY <1>1, <1>2
  <2>2. Made(cur)' = r
    BY <1>3 DEF Made
  <2>3. Expected(cur)' = Piece(script[cur][Made(cur)], nSavedLength[cur], nFileSize[cur])'
                         \o FilesLeft(cur, Made(cur))'
    BY <1>13, <2>1 DEF Expected
  <2>4. Piece(script[cur][Made(cur)], nSavedLength[cur], nFileSize[cur])' = Piece(f, saved + k, size)
    BY <1>1, <1>13, <2>2 DEF Piece
  <2>5. FilesLeft(cur, Made(cur))' = FilesLeft(cur, r)
    BY <1>1, <2>2 DEF FilesLeft, Flow
  <2> QED BY <2>3, <2>4, <2>5 DEF t
<1>15. Drained(cur)'
  <2> SUFFICES ASSUME pc' = "compact" PROVE Ahead(cur)' = <<>>
    BY <1>1, <1>2 DEF Drained
  <2>1. saved + k # size
    BY <1>1, <1>10
  <2>2. Len(Ahead(cur)') = 0
    BY <1>2, <1>9, <1>12, <2>1
  <2> QED BY <1>12, <2>2, EmptySeq
<1> QED BY <1>12, <1>13, <1>14, <1>15 DEF Core

\* The frame GetFile is at, in its parts: the header, what of the content came
\* with it, and the rest.
LEMMA FrameParts ==
    ASSUME NEW f \in Frame, IsWhole(f), NEW n \in Nat, n <= f.nFileSize,
           NEW w \in Seq(Cells)
    PROVE  /\ HeadOf(f) \o Piece(f, 0, n) \in Seq(Cells)
           /\ Len(HeadOf(f) \o Piece(f, 0, n)) = HeaderSize + n
           /\ \A i \in 1..n : (HeadOf(f) \o Piece(f, 0, n))[HeaderSize + i] = Piece(f, 0, n)[i]
           /\ Piece(f, n, f.nFileSize) \o w \in Seq(Cells)
           /\ FrameCells(f) \o w
                 = (HeadOf(f) \o Piece(f, 0, n)) \o (Piece(f, n, f.nFileSize) \o w)
<1> DEFINE h == HeadOf(f)
           p == Piece(f, 0, n)
           q == Piece(f, n, f.nFileSize)
<1>1. h \in Seq(Cells) /\ Len(h) = HeaderSize /\ HeaderSize \in Nat
  BY HeadShape
<1>2. p \in Seq(Cells) /\ Len(p) = n /\ q \in Seq(Cells) /\ p \o q = Piece(f, 0, f.nFileSize)
  <2>1. f.nFileSize \in Nat /\ 0 <= n /\ n - 0 = n /\ 0 \in Nat
    BY DEF Frame
  <2> QED BY <2>1, PieceType, PieceConcat
<1>3. FrameCells(f) = h \o (p \o q)
  BY <1>2, FrameShape
<1> HIDE DEF h, p, q
<1>4. /\ h \o p \in Seq(Cells) /\ Len(h \o p) = HeaderSize + n
      /\ \A i \in 1..n : (h \o p)[HeaderSize + i] = p[i]
  <2>1. /\ h \o p \in Seq(Cells) /\ Len(h \o p) = Len(h) + Len(p)
        /\ \A i \in 1..(Len(h) + Len(p)) : (h \o p)[i] = IF i <= Len(h) THEN h[i] ELSE p[i - Len(h)]
    BY <1>1, <1>2, ConcatProperties
  <2>2. ASSUME NEW i \in 1..n PROVE (h \o p)[HeaderSize + i] = p[i]
    <3>1. /\ HeaderSize + i \in 1..(Len(h) + Len(p)) /\ ~(HeaderSize + i <= Len(h))
          /\ (HeaderSize + i) - Len(h) = i
      BY <1>1, <1>2
    <3> QED BY <2>1, <3>1
  <2> QED BY <1>1, <1>2, <2>1, <2>2
<1>5. q \o w \in Seq(Cells)
  BY <1>2, Regroup
<1>6. (h \o (p \o q)) \o w = (h \o p) \o (q \o w)
  BY ZenonT(60), <1>1, <1>2, RegroupFour
<1> QED BY <1>3, <1>4, <1>5, <1>6 DEF h, p, q

LEMMA StoreInOrder ==
    ASSUME Copying, Healthy(cur)', GetFileStore
    PROVE  Core(cur)' /\ Drained(cur)' /\ Kept(cur)
<1> USE DEF Copying, Owned, Counted
<1> DEFINE r == Made(cur)
           f == script[cur][r]
           size == nFileSize[cur]
           a == Ahead(cur)
           n == Smaller(nDataLength(cur) - nOffset - HeaderSize, size)
           s == HeadOf(f) \o Piece(f, 0, n)
           t == Piece(f, n, size) \o FilesLeft(cur, r)
<1>1. /\ UNCHANGED <<script, toSend, wire, link, cur, pBuffer, faulted, nFileSize, pFileItem, FileSave>>
      /\ pc = "store" /\ pc' = IF Len(FirstPart) = size THEN "close" ELSE "getfile"
      /\ IF size # 0 THEN Write(FirstPart, Len(FirstPart))
                     ELSE UNCHANGED <<nSavedLength, items, disk>>
      /\ nOffset' = nOffset + HeaderSize + Len(FirstPart)
      /\ nDataLength(cur) > nOffset + HeaderSize
  BY DEF GetFileStore, Inside, netVars, fileVars, history, Underway
<1>2. /\ cur \in Conns /\ Stage(cur) = pc /\ Stage(cur)' = pc'
      /\ nOffset \in Nat /\ pBuffer[cur] \in Seq(Cells) /\ Len(pBuffer[cur]) \in Nat
      /\ nOffset \in 0..Len(pBuffer[cur])
      /\ a = SubSeq(pBuffer[cur], nOffset + 1, Len(pBuffer[cur]))
      /\ a \in Seq(Cells) /\ Len(a) = Len(pBuffer[cur]) - nOffset
      /\ HeaderSize \in Nat
  BY <1>1, CurIs, FrameAssumption DEF Stage, HeaderSize
<1>3. RowsIn(cur)' = RowsIn(cur)
  <2>1. CASE size # 0
    <3>1. /\ DOMAIN items' = DOMAIN items
          /\ \A i \in 1..Len(items) : items'[i].conn = items[i].conn
      BY <1>1, <2>1, WriteOthers
    <3>2. \A i \in DOMAIN items : items'[i].conn = items[i].conn
      BY <3>1, RowIndexes
    <3> QED BY <1>1, <3>1, <3>2, SameRowsIn
  <2>2. CASE size = 0
    BY <1>1, <2>2, SameRowsIn
  <2> QED BY <2>1, <2>2
<1>4. Healthy(cur) /\ Sound(cur)'
  BY <1>1, <1>2, <1>3, HealthyBefore
<1>5. Core(cur)
  BY <1>2, <1>4 DEF InOrder
<1>6. Filling(cur) /\ link[cur] = "open"
  BY <1>1, <1>2 DEF Filling, Serving, Busy
<1>7. UnderWay(cur) /\ RowsRight(cur) /\ FileSave[cur] = pFileItem[cur] /\ nSavedLength[cur] = 0
  BY <1>1, <1>2, <1>5, <1>6 DEF Core, Current
<1>8. /\ r \in Nat /\ r > 0 /\ r <= Len(script[cur]) /\ f \in Frame /\ FilesLeft(cur, r) \in Seq(Cells)
      /\ size \in Nat /\ size = f.nFileSize /\ IsWhole(f)
      /\ FilesLeft(cur, r - 1) = FrameCells(f) \o FilesLeft(cur, r)
  <2>1. r \in Nat /\ r > 0 /\ r <= Len(script[cur]) /\ size = f.nFileSize
    BY <1>2, <1>7, RowsInType, LenProperties DEF Made, RowsRight, UnderWay
  <2>2. Len(script[cur]) \in Nat /\ f \in Frame /\ FilesLeft(cur, r) \in Seq(Cells)
    BY <1>2, <2>1, FilesLeftAre, ElementOfSeq
  <2>3. IsWhole(f)
    <3>1. Made(cur)' = r
      BY <1>3 DEF Made
    <3>2. \A j \in 1..r : IsWhole(script[cur][j])
      BY <1>1, <1>4, <3>1 DEF Sound
    <3> QED BY <2>1, <3>2
  <2>4. FilesLeft(cur, r - 1) = FrameCells(f) \o FilesLeft(cur, r)
    <3> HIDE DEF r
    <3>1. r - 1 \in 0..(Len(script[cur]) - 1) /\ (r - 1) + 1 = r
      BY <2>1, <2>2
    <3>2. FilesLeft(cur, r - 1) = FrameCells(script[cur][(r - 1) + 1]) \o FilesLeft(cur, (r - 1) + 1)
      BY <1>2, <3>1, FilesLeftAre
    <3> QED BY <3>1, <3>2
  <2> QED BY <1>2, <2>1, <2>2, <2>3, <2>4 DEF TypeOK
<1>9. Len(FirstPart) = n
  BY <1>1, FirstPartLength
<1>10. /\ n \in Nat /\ n <= size /\ HeaderSize + n <= Len(a)
       /\ nOffset + (HeaderSize + n) <= Len(pBuffer[cur])
       /\ n # size => HeaderSize + n = Len(a)
       /\ FirstPart = SubSeq(pBuffer[cur], nOffset + HeaderSize + 1, nOffset + HeaderSize + n)
  <2>1. nDataLength(cur) = Len(pBuffer[cur])
    BY DEF nDataLength
  <2>2. FirstPart = SubSeq(pBuffer[cur], nOffset + HeaderSize + 1, nOffset + HeaderSize + n)
    BY DEF FirstPart
  <2> DEFINE b == Len(pBuffer[cur])
             e == Len(a)
  <2>3. /\ n = Smaller(b - nOffset - HeaderSize, size) /\ b \in Nat /\ nOffset \in Nat
        /\ HeaderSize \in Nat /\ size \in Nat /\ b > nOffset + HeaderSize /\ e = b - nOffset
    BY <1>1, <1>2, <1>8, <2>1
  <2> HIDE DEF a, n, b, e, size
  <2>4. /\ n \in Nat /\ n <= size /\ HeaderSize + n <= e /\ nOffset + (HeaderSize + n) <= b
        /\ n # size => HeaderSize + n = e
    BY ONLY <2>3 DEF Smaller
  <2>5. /\ n \in Nat /\ n <= size /\ HeaderSize + n <= Len(a)
        /\ nOffset + (HeaderSize + n) <= Len(pBuffer[cur])
        /\ n # size => HeaderSize + n = Len(a)
    BY <2>4 DEF b, e
  <2> QED BY <2>2, <2>5
<1> HIDE DEF n, f, r
<1>11. /\ s \in Seq(Cells) /\ Len(s) = HeaderSize + n /\ t \in Seq(Cells)
       /\ \A i \in 1..n : s[HeaderSize + i] = Piece(f, 0, n)[i]
       /\ Expected(cur) = s \o t
  <2>1. Expected(cur) = FrameCells(f) \o FilesLeft(cur, r)
    BY <1>1, <1>2, <1>8 DEF Expected, r
  <2>2. /\ HeadOf(f) \o Piece(f, 0, n) \in Seq(Cells)
        /\ Len(HeadOf(f) \o Piece(f, 0, n)) = HeaderSize + n
        /\ \A i \in 1..n : (HeadOf(f) \o Piece(f, 0, n))[HeaderSize + i] = Piece(f, 0, n)[i]
        /\ Piece(f, n, f.nFileSize) \o FilesLeft(cur, r) \in Seq(Cells)
        /\ FrameCells(f) \o FilesLeft(cur, r)
              = (HeadOf(f) \o Piece(f, 0, n)) \o (Piece(f, n, f.nFileSize) \o FilesLeft(cur, r))
    BY <1>8, <1>10, FrameParts
  <2> QED BY <1>8, <2>1, <2>2
<1> HIDE DEF s, t
<1>12. /\ \A i \in 1..(HeaderSize + n) : a[i] = s[i]
       /\ Len(Ahead(cur)') = Len(a) - (HeaderSize + n) /\ Ahead(cur)' \in Seq(Cells)
       /\ Expected(cur)' = t => InStep(cur)' /\ Kept(cur)
  <2>1. nOffset' = nOffset + Len(s) /\ Len(s) <= Len(Ahead(cur))
    BY <1>1, <1>2, <1>9, <1>10, <1>11
  <2>2. InStep(cur)
    BY <1>5 DEF Core
  <2> QED BY <1>1, <1>11, <2>1, <2>2, UsedUp
<1> HIDE DEF a
<1>13. FirstPart = Piece(f, 0, n)
  <2>1. FirstPart = SubSeq(a, HeaderSize + 1, HeaderSize + n)
    <3>1. SubSeq(SubSeq(pBuffer[cur], nOffset + 1, Len(pBuffer[cur])), HeaderSize + 1, HeaderSize + n)
             = SubSeq(pBuffer[cur], nOffset + HeaderSize + 1, nOffset + (HeaderSize + n))
      <4>1. HeaderSize + n \in Nat /\ HeaderSize <= HeaderSize + n
        BY <1>2, <1>10
      <4> QED BY <1>2, <1>10, <4>1, PartOfRest
    <3>2. nOffset + (HeaderSize + n) = nOffset + HeaderSize + n
      BY <1>2, <1>10
    <3> QED BY <1>2, <1>10, <3>1, <3>2
  <2>2. \A i \in (HeaderSize + 1)..(HeaderSize + n) : a[i] \in Cells
    BY <1>2, <1>10, ElementOfSeq
  <2>3. /\ FirstPart \in Seq(Cells) /\ Len(FirstPart) = n
        /\ \A i \in 1..n : FirstPart[i] = a[HeaderSize + i]
    <3>1. /\ SubSeq(a, HeaderSize + 1, HeaderSize + n) \in Seq(Cells)
          /\ \A i \in 1..((HeaderSize + n) - (HeaderSize + 1) + 1) :
                SubSeq(a, HeaderSize + 1, HeaderSize + n)[i] = a[(HeaderSize + 1) + i - 1]
      <4>1. HeaderSize + 1 \in Int /\ HeaderSize + n \in Int
        BY <1>2, <1>10
      <4> QED BY <2>2, <4>1, SubSeqProperties
    <3> QED BY <1>2, <1>9, <1>10, <2>1, <3>1
  <2>4. Piece(f, 0, n) \in Seq(Cells) /\ Len(Piece(f, 0, n)) = n
    <3>1. 0 \in Nat /\ 0 <= n /\ n - 0 = n
      BY <1>10
    <3> QED BY <1>8, <1>10, <3>1, PieceType
  <2>5. ASSUME NEW i \in 1..n PROVE FirstPart[i] = Piece(f, 0, n)[i]
    <3>1. HeaderSize + i \in 1..(HeaderSize + n)
      BY <1>2, <1>10
    <3> QED BY <1>11, <1>12, <2>3, <3>1
  <2> QED BY <2>3, <2>4, <2>5, SeqEqual
<1>14. /\ RowsIn(cur)' = RowsIn(cur) /\ Filling(cur)' /\ nSavedLength'[cur] = n
       /\ RowsRight(cur)' /\ Current(cur)'
  <2>1. CASE size # 0
    <3>1. Write(Piece(script[cur][Made(cur)], nSavedLength[cur], nSavedLength[cur] + n),
                nSavedLength[cur] + n)
      <4>1. nSavedLength[cur] + n = n
        BY <1>7, <1>10
      <4>2. Write(Piece(f, 0, n), n)
        BY <1>1, <1>9, <1>13, <2>1
      <4> QED BY <1>7, <4>1, <4>2 DEF f, r
    <3>2. nSavedLength[cur] + n = n
      BY <1>7, <1>10
    <3>3. IF n = size THEN pc' = "close" ELSE pc' \in {"compact", "getfile"}
      BY <1>1, <1>9
    <3> QED BY <1>1, <1>6, <1>7, <1>10, <3>1, <3>2, <3>3, WriteInOrder
  <2>2. CASE size = 0
    <3>1. n = 0 /\ pc' = "close" /\ items' = items /\ disk' = disk /\ nSavedLength' = nSavedLength
      BY <1>1, <1>9, <1>10, <2>2
    <3>2. SameRows(cur)
      BY <1>1, <3>1, SameRowsIfUnchanged
    <3>3. Filling(cur)' /\ Made(cur)' = Made(cur)
      BY <1>2, <1>3, <3>1 DEF Filling, Busy, Made
    <3>4. RowsRight(cur)'
      BY <1>1, <1>6, <1>7, <3>2, <3>3 DEF RowsRight, SameRows
    <3>5. UnderWay(cur)'
      BY <1>1, <1>7, <3>1, <3>2, <3>3 DEF UnderWay, SameRows
    <3>6. Current(cur)'
      BY <1>1, <1>2, <1>7, <2>2, <3>1, <3>3, <3>5 DEF Current, Busy
    <3> QED BY <1>3, <1>7, <3>1, <3>3, <3>4, <3>6
  <2> QED BY <2>1, <2>2
<1>15. Expected(cur)' = t
  <2>1. Stage(cur)' \notin {"open", "store"}
    BY <1>1, <1>2
  <2>2. Made(cur)' = r
    BY <1>3 DEF Made, r
  <2>3. Expected(cur)' = Piece(script[cur][Made(cur)], nSavedLength[cur], nFileSize[cur])'
                         \o FilesLeft(cur, Made(cur))'
    BY <1>14, <2>1 DEF Expected
  <2>4. Piece(script[cur][Made(cur)], nSavedLength[cur], nFileSize[cur])' = Piece(f, n, size)
    BY <1>1, <1>14, <2>2 DEF Piece, f
  <2>5. FilesLeft(cur, Made(cur))' = FilesLeft(cur, r)
    BY <1>1, <2>2 DEF FilesLeft, Flow
  <2> QED BY <2>3, <2>4, <2>5 DEF t
<1>16. Drained(cur)'
  BY <1>1, <1>2 DEF Drained
<1> QED BY <1>12, <1>14, <1>15, <1>16 DEF Core

-----------------------------------------------------------------------------
(* The invariant. *)

LEMMA CopyingStart == Init => Copying
<1> SUFFICES ASSUME Init PROVE Copying
  OBVIOUS
<1>1. Owned /\ Listed /\ TypeOK
  BY OwnedStart, ListedStart DEF Owned, Counted
<1>2. Placed
  <2>1. Len(pBuffer[cur]) = 0
    BY EmptySeq DEF Init
  <2> QED BY <2>1 DEF Init, Placed, nDataLength
<1>3. ASSUME NEW c \in Conns PROVE Core(c) /\ Drained(c)
  <2>1. /\ pc = "idle" /\ nOffset = 0 /\ toSend[c] = script[c] /\ wire[c] = <<>>
        /\ pBuffer[c] = <<>> /\ nFileSize[c] = 0 /\ nSavedLength[c] = 0 /\ DOMAIN items = {}
    BY <1>3 DEF Init
  <2>2. Stage(c) = "idle" /\ Used(c) = 0 /\ ~Filling(c)
    BY <2>1 DEF Stage, Used, Filling, Busy
  <2>3. RowsIn(c) = <<>> /\ Made(c) = 0
    <3>1. Marks(c) = <<>>
      BY <2>1 DEF Marks
    <3>2. RowsIn(c) = <<>>
      BY <3>1, FlattenEmpty DEF RowsIn, Marks
    <3> QED BY <3>2, EmptySeq DEF Made
  <2>4. Ahead(c) = <<>>
    BY <1>1, <1>3, <2>1, <2>2, AheadType, SubSeqFull DEF Ahead
  <2>5. InStep(c)
    <3>1. script[c] \in Seq(Frame) /\ Len(script[c]) \in Nat
      BY <1>1, <1>3, FilesLeftAre
    <3>2. Expected(c) = Flow(script[c])
      <4>1. Expected(c) = FilesLeft(c, 0)
        BY <2>2, <2>3 DEF Expected
      <4>2. SubSeq(script[c], 1, Len(script[c])) = script[c]
        BY <3>1, SubSeqFull
      <4>3. FilesLeft(c, 0) = Flow(SubSeq(script[c], 0 + 1, Len(script[c])))
        BY DEF FilesLeft
      <4>4. 0 + 1 = 1
        OBVIOUS
      <4> QED BY ONLY <4>1, <4>2, <4>3, <4>4
    <3>3. Flow(script[c]) \in Seq(Cells)
      BY <3>1, FlowType
    <3>4. ToCome(c) = Flow(script[c])
      BY <2>1, <2>4, <3>3, ConcatEmptySeq DEF ToCome
    <3>5. Expected(c) = ToCome(c) \o <<>>
      BY <3>2, <3>3, <3>4, ConcatEmptySeq
    <3> QED BY <3>5, EmptySeq DEF InStep
  <2>6. RowsRight(c)
    <3>1. Len(script[c]) \in Nat
      BY <1>1, <1>3, FilesLeftAre
    <3> QED BY <2>3, <3>1 DEF RowsRight
  <2>7. Current(c)
    BY <2>1, <2>2 DEF Current, Busy
  <2>8. Drained(c)
    <3>1. ~Ready(Ahead(c))
      <4>1. Len(<<>>) = 0
        BY EmptySeq
      <4> QED BY <2>4, <4>1, FrameAssumption DEF Ready
    <3> QED BY <2>1, <3>1 DEF Drained
  <2> QED BY <2>5, <2>6, <2>7, <2>8 DEF Core
<1> QED BY <1>1, <1>2, <1>3 DEF Copying, InOrder

\* The session a handler serves stays in order, or is not healthy afterwards.
LEMMA ServedInOrder ==
    ASSUME Copying, Handler, Healthy(cur)'
    PROVE  Core(cur)' /\ Drained(cur)' /\ Kept(cur)
<1>1. CASE ParserThrows \/ GetFileThrows \/ CloseThrows \/ Catch
  <2>1. cur' = cur /\ cur \in faulted'
    BY <1>1 DEF ParserThrows, GetFileThrows, CloseThrows, Catch, WriteThrows, DiskFails, Inside,
       history, Copying, Placed
  <2> QED BY <2>1 DEF Healthy
<1>2. CASE ParserFresh \/ OpenFile \/ GetFileDone \/ Compact \/ ReadAgain \/ SessionGone
  BY <1>2, QuietInOrder
<1>3. CASE CloseFile
  BY <1>3, ClosedInOrder
<1>4. CASE GetFileHeader
  BY <1>4, HeaderInOrder
<1>5. CASE ParserContinue
  BY <1>5, ContinueInOrder
<1>6. CASE GetFileStore
  BY <1>6, StoreInOrder
<1> QED BY <1>1, <1>2, <1>3, <1>4, <1>5, <1>6 DEF Handler

LEMMA InOrderStep == ASSUME Copying, [Next]_vars PROVE InOrder'
<1> SUFFICES ASSUME NEW c \in Conns, Healthy(c)' PROVE Core(c)' /\ Drained(c)'
  BY DEF InOrder
<1>1. CASE Handler
  <2>1. CASE c # cur
    BY <1>1, <2>1, OthersInOrder
  <2>2. CASE c = cur
    <3>1. cur' = cur
      BY <1>1, HandlerKeepsClients DEF SessionGone
    <3> QED BY <1>1, <2>2, <3>1, ServedInOrder
  <2> QED BY <2>1, <2>2
<1>2. CASE AcceptError \/ OnTimer \/ UNCHANGED vars \/ (\E d \in Conns : Accept(d))
  BY <1>2, OutsideInOrder
<1>3. CASE \E d \in Conns : PeerSend(d)
  BY <1>3, PeerSendInOrder
<1>4. CASE \E d \in Conns : PeerReset(d)
  BY <1>4, PeerResetInOrder
<1>5. CASE \E d \in Conns : Read(d) \/ ReadEnd(d)
  BY <1>5, ReadInOrder
<1> QED BY <1>1, <1>2, <1>3, <1>4, <1>5 DEF Next, Completion, Environment

LEMMA CopyingStep == ASSUME Copying, [Next]_vars PROVE Copying'
<1>1. Owned'
  BY TypeStep, ServingStep, ClientStep, OneFileKept, OneFileChanged, UnderwayStep
     DEF Copying, Owned, Counted, Next, Handler
<1>2. Listed' /\ Placed' /\ InOrder'
  BY ListedStep, PlacedStep, InOrderStep DEF Copying
<1> QED BY <1>1, <1>2 DEF Copying

\* Whatever the receiver and its reads do to a healthy session, what of its stream
\* is still missing stays the same.
LEMMA KeptStep ==
    ASSUME Copying, Completion \/ Handler \/ OnTimer, NEW c \in Conns, Healthy(c)'
    PROVE  Kept(c)
<1>1. CASE Handler /\ c # cur
  BY <1>1, OthersInOrder
<1>2. CASE Handler /\ c = cur
  <2>1. cur' = cur
    BY <1>2, HandlerKeepsClients DEF SessionGone
  <2> QED BY <1>2, <2>1, ServedInOrder
<1>3. CASE OnTimer \/ (\E d \in Conns : Accept(d))
  BY <1>3, OutsideInOrder
<1>4. CASE \E d \in Conns : Read(d) \/ ReadEnd(d)
  BY <1>4, ReadInOrder
<1> QED BY <1>1, <1>2, <1>3, <1>4 DEF Completion

LEMMA CopyingAlways == Spec => []Copying
BY CopyingStart, CopyingStep, PTL DEF Spec

-----------------------------------------------------------------------------
LEMMA CopyingConsumes ==
    ASSUME Copying, NEW c \in Conns, pc = "idle", link[c] = "open", Healthy(c)
    PROVE  AllConsumed(c)
<1> USE DEF Copying, Owned, Counted
<1> SUFFICES \/ /\ nFileSize[c] > 0
                /\ nSavedLength[c] < nFileSize[c] /\ pBuffer[c] = <<>>
                /\ pFileItem[c] # 0 /\ FileSave[c] = pFileItem[c]
                /\ ~items[pFileItem[c]].nStatus
                /\ items[pFileItem[c]].nRecved = nSavedLength[c]
                /\ Len(disk[pFileItem[c]]) = nSavedLength[c]
             \/ /\ nFileSize[c] = 0 /\ nSavedLength[c] = 0 /\ FileSave[c] = 0
                /\ LET next == Len(Rows(c)) + 1
                   IN  IF next > Len(script[c])
                       THEN pBuffer[c] = <<>>
                       ELSE script[c][next].sent >= HeaderSize =>
                                IsPrefix(pBuffer[c], HeadOf(script[c][next]))
  BY DEF AllConsumed
<1> DEFINE r == Made(c)
           a == pBuffer[c]
           f == script[c][r + 1]
<1>1. Core(c) /\ Drained(c)
  BY DEF InOrder
<1>2. /\ Stage(c) = "idle" /\ Used(c) = 0 /\ Ahead(c) = a /\ a \in Seq(Cells) /\ Len(a) \in Nat
      /\ nFileSize[c] \in Nat /\ nSavedLength[c] \in Nat
  <2>1. Stage(c) = "idle" /\ Used(c) = 0
    BY DEF Stage, Used, Placed
  <2> QED BY <2>1, AheadType, SubSeqFull DEF Ahead, TypeOK
<1>3. /\ r \in Nat /\ Len(Rows(c)) = r /\ r = Len(RowsIn(c)) /\ r <= Len(script[c])
      /\ Len(script[c]) \in Nat
  BY <1>1, RowsAre, FilesLeftAre DEF Made, Core, RowsRight
<1>4. CASE nFileSize[c] # 0
  <2>1. UnderWay(c) /\ FileSave[c] = pFileItem[c] /\ nSavedLength[c] < nFileSize[c] /\ a = <<>>
    BY <1>1, <1>2, <1>4 DEF Core, Current, Drained, Filling, Busy
  <2>2. r \in 1..r /\ r > 0
    BY <1>3, <2>1 DEF UnderWay
  <2>3. pFileItem[c] = RowsIn(c)[r] /\ pFileItem[c] # 0
    BY <1>3, <2>1, <2>2 DEF UnderWay, Listed
  <2>4. Rows(c)[r] = items[pFileItem[c]] /\ CopiesOf(c)[r] = disk[pFileItem[c]]
    BY <1>3, <2>2, <2>3, RowsAre
  <2>5. Len(disk[pFileItem[c]]) = nSavedLength[c]
    <3>1. script[c][r] \in Frame
      BY <1>3, <2>2, FilesLeftAre, ElementOfSeq
    <3>2. disk[pFileItem[c]] = Piece(script[c][r], 0, nSavedLength[c])
      BY <1>2, <2>1, <2>4, <3>1, PieceOfBody DEF UnderWay
    <3>3. 0 \in Nat /\ 0 <= nSavedLength[c] /\ nSavedLength[c] - 0 = nSavedLength[c]
      BY <1>2
    <3>4. Len(Piece(script[c][r], 0, nSavedLength[c])) = nSavedLength[c] - 0
      <4> HIDE DEF r
      <4> QED BY ONLY <1>2, <3>1, <3>3, PieceType
    <3> QED BY <3>2, <3>3, <3>4
  <2> QED BY <1>2, <1>4, <2>1, <2>3, <2>4, <2>5 DEF UnderWay
<1>5. CASE nFileSize[c] = 0
  <2>1. ~Filling(c) /\ nSavedLength[c] = 0 /\ ~Ready(a)
    BY <1>1, <1>2, <1>5 DEF Core, Current, Drained, Filling, Busy
  <2>2. FileSave[c] = 0
    BY <1>5 DEF OneFile
  <2>3. PICK v \in Seq(Cells) : FilesLeft(c, r) = a \o v
    <3>1. PICK rest \in Seq(Cells) : Expected(c) = ToCome(c) \o rest
      BY <1>1 DEF Core, InStep
    <3> DEFINE w == wire[c] \o Flow(toSend[c])
    <3>2. w \in Seq(Cells) /\ a \in Seq(Cells) /\ rest \in Seq(Cells)
      BY <1>2, AheadType
    <3>3. ToCome(c) = a \o w /\ Expected(c) = FilesLeft(c, r)
      BY <1>2, <2>1 DEF ToCome, Expected
    <3> HIDE DEF w
    <3>4. (a \o w) \o rest = a \o (w \o rest) /\ w \o rest \in Seq(Cells)
      BY ONLY <3>2, Regroup
    <3> QED BY <3>1, <3>3, <3>4
  <2>4. CASE r = Len(script[c])
    <3>1. a \o v = <<>>
      BY <2>3, <2>4, FilesLeftAre
    <3>2. a = <<>>
      BY <1>2, <3>1, ConcatSimplifications
    <3> QED BY <1>3, <1>5, <2>1, <2>2, <2>4, <3>2
  <2>5. CASE r # Len(script[c]) /\ f.sent >= HeaderSize
    <3> DEFINE h == HeadOf(f)
    <3>1. r < Len(script[c]) /\ r \in 0..(Len(script[c]) - 1) /\ r + 1 \in 0..Len(script[c])
      BY <1>3, <2>5
    <3>2. /\ f \in Frame /\ FilesLeft(c, r) = FrameCells(f) \o FilesLeft(c, r + 1)
          /\ FilesLeft(c, r + 1) \in Seq(Cells)
      <4> HIDE DEF r
      <4> QED BY <3>1, FilesLeftAre
    <3> HIDE DEF f, r
    <3>3. /\ h \in Seq(Cells) /\ Len(h) = HeaderSize /\ HeaderSize \in Nat
          /\ HeadCells \in Nat /\ HeadCells <= HeaderSize /\ HeadCells > 0
          /\ \A k \in 1..HeadCells : h[k] = Cell("head", f, k)
      BY <3>2, HeadShape
    <3>4. \E t \in Seq(Cells) : FilesLeft(c, r) = h \o t
      <4> DEFINE p == Cut(f, HeaderSize, f.sent)
                 w == FilesLeft(c, r + 1)
      <4>1. p \in Seq(Cells)
        BY <2>5, <3>2, FrameStart
      <4>2. FilesLeft(c, r) = (h \o p) \o w
        BY <2>5, <3>2, FrameStart
      <4>3. h \in Seq(Cells) /\ p \in Seq(Cells) /\ w \in Seq(Cells)
        BY <3>2, <3>3, <4>1
      <4> HIDE DEF h, p, w
      <4>4. (h \o p) \o w = h \o (p \o w) /\ p \o w \in Seq(Cells)
        BY ONLY <4>3, Regroup
      <4> QED BY <4>2, <4>4
    <3>5. PICK t \in Seq(Cells) : FilesLeft(c, r) = h \o t
      BY <3>4
    <3> HIDE DEF h, a
    <3>6. Len(a) <= HeaderSize
      <4> SUFFICES ASSUME Len(a) > HeaderSize PROVE FALSE
        BY <1>2, <3>3
      <4>1. h \o t = a \o v /\ Len(h) <= Len(a)
        BY <1>2, <2>3, <3>3, <3>5
      <4>2. \A i \in 1..Len(h) : a[i] = h[i]
        BY ZenonT(60), <1>2, <3>3, <4>1, SameSeqCutTwice
      <4>3. \A k \in 1..HeadCells : a[0 + k] = Cell("head", f, k)
        BY <3>3, <4>2
      <4>4. a[0 + 1].frame = HeaderOf(f)
        <5>1. 1 \in 1..HeadCells
          BY <3>3
        <5>2. a[0 + 1] = Cell("head", f, 1)
          BY <4>3, <5>1
        <5>3. Cell("head", f, 1).frame = HeaderOf(f)
          BY DEF Cell
        <5> QED BY <5>2, <5>3
      <4>5. ValidHeader(a, 0)
        <5>1. \A k : Cell("head", f, k) = Cell("head", HeaderOf(f), k)
          BY DEF Cell, HeaderOf
        <5> QED BY <4>3, <4>4, <5>1 DEF ValidHeader
      <4>6. Len(a) >= HeadCells
        BY <1>2, <3>3
      <4> QED BY <2>1, <4>5, <4>6 DEF Ready
    <3>7. \E u \in Seq(Cells) : h = a \o u
      <4>1. a \o v = h \o t /\ Len(a) <= Len(h)
        BY <1>2, <2>3, <3>3, <3>5, <3>6
      <4>2. SubSeq(h, 1, Len(a)) = a
        BY SMTT(30), <1>2, <3>3, <4>1, SameSeqCutTwice
      <4>3. Len(a) \in 0..Len(h)
        BY <1>2, <4>1
      <4>4. SubSeq(h, Len(a) + 1, Len(h)) \in Seq(Cells)
            /\ h = SubSeq(h, 1, Len(a)) \o SubSeq(h, Len(a) + 1, Len(h))
        BY <3>3, <4>3, CutSeq
      <4> QED BY <4>2, <4>4
    <3>8. IsPrefix(a, h)
      BY <1>2, <3>3, <3>7, PrefixIs
    <3> QED BY <1>3, <1>5, <2>1, <2>2, <3>1, <3>8 DEF a, h, f, r
  <2>6. CASE r # Len(script[c]) /\ ~(f.sent >= HeaderSize)
    BY <1>3, <1>5, <2>1, <2>2, <2>6
  <2> QED BY <2>4, <2>5, <2>6
<1> QED BY <1>4, <1>5

-----------------------------------------------------------------------------
(* The receiver implements FileCopy. *)

\* What FileCopy's variables stand for.
Sent == [c \in Conns |-> [j \in DOMAIN script[c] |-> Content(script[c][j])]]
Received == [c \in Conns |-> CopiesOf(c)]
SavedRows(c) == {j \in DOMAIN Rows(c) : Rows(c)[j].nStatus}
Saved == [c \in Conns |-> Cardinality(SavedRows(c))]
Damaged == {c \in Conns : ~Healthy(c)}

\* What the invariant says of them for a healthy connection: its copies are
\* whole, but for the one of a file under way.
CopiesAre(c) ==
    /\ Made(c) \in 0..Len(script[c])
    /\ DOMAIN CopiesOf(c) = 1..Made(c) /\ Len(CopiesOf(c)) = Made(c)
    /\ Saved[c] = IF Filling(c) THEN Made(c) - 1 ELSE Made(c)
    /\ \A j \in 1..Made(c) :
          j < Made(c) \/ ~Filling(c) => CopiesOf(c)[j] = Content(script[c][j])
    /\ Filling(c) =>
          /\ Made(c) > 0 /\ script[c][Made(c)] \in Frame
          /\ nSavedLength[c] \in 0..script[c][Made(c)].nFileSize
          /\ CopiesOf(c)[Made(c)] = BodyOf(script[c][Made(c)], nSavedLength[c])

CopiesFit == \A c \in Conns : Healthy(c) => CopiesAre(c)

LEMMA CopyingFits == Copying => CopiesFit
<1> SUFFICES ASSUME Copying, NEW c \in Conns, Healthy(c) PROVE CopiesAre(c)
  BY DEF CopiesFit
<1> USE DEF Copying, Owned, Counted
<1> DEFINE r == Made(c)
           top == IF Filling(c) THEN r - 1 ELSE r
<1>1. RowsRight(c) /\ Current(c)
  BY DEF InOrder, Core
<1>2. /\ r \in Nat /\ r <= Len(script[c]) /\ Len(script[c]) \in Nat
      /\ DOMAIN CopiesOf(c) = 1..r /\ Len(CopiesOf(c)) = r /\ DOMAIN Rows(c) = 1..r
      /\ \A j \in 1..r : Rows(c)[j] \in FileItem
  BY <1>1, RowsAre, FilesLeftAre DEF Made, RowsRight
<1>3. Filling(c) => r > 0 /\ UnderWay(c) /\ nSavedLength[c] <= nFileSize[c]
  BY <1>1 DEF Current, UnderWay
<1>4. Saved[c] = top
  <2>1. SavedRows(c) = 1..top
    <3>1. \A j \in 1..r : Rows(c)[j].nStatus <=> j \in 1..top
      <4>1. \A j \in 1..r : j < r \/ ~Filling(c) => Rows(c)[j].nStatus
        BY <1>1 DEF RowsRight
      <4>2. Filling(c) => ~Rows(c)[r].nStatus
        BY <1>3 DEF UnderWay
      <4> QED BY <1>2, <4>1, <4>2
    <3>2. \A j \in 1..top : j \in 1..r
      BY <1>2
    <3> QED BY <1>2, <3>1, <3>2 DEF SavedRows
  <2>2. top \in Nat
    BY <1>2, <1>3
  <2> HIDE DEF top
  <2>3. Cardinality(1..top) = top
    <3>1. 1 \in Int /\ top \in Int /\ (1 > top => top = 0) /\ (top - 1) + 1 = top
      BY <2>2
    <3> QED BY <3>1, FS_Interval
  <2> QED BY <2>1, <2>3 DEF Saved
<1>5. \A j \in 1..r : j < r \/ ~Filling(c) => CopiesOf(c)[j] = Content(script[c][j])
  BY <1>1 DEF RowsRight
<1>6. ASSUME Filling(c)
      PROVE  /\ r > 0 /\ script[c][r] \in Frame
             /\ nSavedLength[c] \in 0..script[c][r].nFileSize
             /\ CopiesOf(c)[r] = BodyOf(script[c][r], nSavedLength[c])
  <2>1. script[c][r] \in Frame
    BY <1>2, <1>3, <1>6, FilesLeftAre, ElementOfSeq
  <2>2. nSavedLength[c] \in Nat /\ nFileSize[c] \in Nat
    BY DEF TypeOK
  <2> QED BY <1>3, <1>6, <2>1, <2>2 DEF UnderWay
<1>7. r \in 0..Len(script[c])
  BY <1>2
<1> QED BY <1>2, <1>4, <1>5, <1>6, <1>7 DEF CopiesAre

-----------------------------------------------------------------------------
(* When a step of the receiver is a step of FileCopy. *)

LEMMA IsBroken ==
    ASSUME NEW c \in Conns, Sent' = Sent, Damaged' = Damaged \cup {c},
           \A d \in Conns \ {c} : Received'[d] = Received[d] /\ Saved'[d] = Saved[d]
    PROVE  Copies!Next
BY DEF Copies!Next, Copies!Broken, Copies!Others, Sent, Received, SavedRows, Saved, Damaged

LEMMA IsBegin ==
    ASSUME NEW c \in Conns, Sent' = Sent, Damaged' = Damaged, c \notin Damaged,
           Saved' = Saved, Saved[c] = Len(Received[c]), Len(Received[c]) < Len(Sent[c]),
           Received' = [Received EXCEPT ![c] = Append(@, <<>>)]
    PROVE  Copies!Next
BY DEF Copies!Next, Copies!Begin, Sent, Received, SavedRows, Saved, Damaged

LEMMA IsFinish ==
    ASSUME NEW c \in Conns, Sent' = Sent, Damaged' = Damaged, c \notin Damaged,
           Received' = Received, Saved[c] < Len(Received[c]),
           Received[c][Len(Received[c])] = Sent[c][Len(Received[c])],
           Saved' = [Saved EXCEPT ![c] = @ + 1]
    PROVE  Copies!Next
BY DEF Copies!Next, Copies!Finish, Sent, Received, SavedRows, Saved, Damaged

LEMMA IsExtend ==
    ASSUME NEW c \in Conns, Sent' = Sent, Damaged' = Damaged, c \notin Damaged,
           Saved' = Saved, Saved[c] < Len(Received[c]),
           IsStrictPrefix(Received[c][Len(Received[c])], Received'[c][Len(Received[c])]),
           IsPrefix(Received'[c][Len(Received[c])], Sent[c][Len(Received[c])]),
           Received' = [Received EXCEPT ![c][Len(Received[c])] = Received'[c][Len(Received[c])]]
    PROVE  Copies!Next
BY DEF Copies!Next, Copies!Extend, Sent, Received, SavedRows, Saved, Damaged, Copies!IsPrefix, Copies!IsStrictPrefix, IsPrefix, IsStrictPrefix

LEMMA IsStutter ==
    ASSUME Sent' = Sent, Received' = Received, Saved' = Saved, Damaged' = Damaged
    PROVE  UNCHANGED Copies!fcVars
BY DEF Copies!fcVars, Sent, Received, SavedRows, Saved, Damaged

\* Everything FileCopy knows is in these.
LEMMA NothingCopied ==
    ASSUME UNCHANGED <<script, items, disk, faulted>>
    PROVE  UNCHANGED Copies!fcVars
<1>1. Sent' = Sent
  BY DEF Sent
<1>2. \A c : RowsIn(c)' = RowsIn(c) /\ Rows(c)' = Rows(c) /\ CopiesOf(c)' = CopiesOf(c)
  BY SameRowsIfUnchanged DEF SameRows
<1>3. Received' = Received /\ Saved' = Saved
  BY <1>2 DEF Received, Saved, SavedRows
<1>4. Damaged' = Damaged
  BY <1>2 DEF Damaged, Healthy, WholeFrames
<1> QED BY <1>1, <1>3, <1>4, IsStutter

\* A handler's step is a step of FileCopy for the session served, if for any.
OthersCopied(c) ==
    /\ Sent' = Sent
    /\ \A d \in Conns \ {c} : /\ Received'[d] = Received[d] /\ Saved'[d] = Saved[d]
                              /\ Healthy(d)' <=> Healthy(d)

LEMMA HandlerCopiesOnlyCur ==
    ASSUME Copying, Handler, NEW c \in Conns, c = cur
    PROVE  OthersCopied(c) /\ cur' = cur /\ script' = script /\ faulted \subseteq faulted'
<1> USE DEF Copying, Owned, Counted
<1>1. cur' = cur /\ script' = script /\ faulted \subseteq faulted' /\ faulted' \subseteq faulted \cup {cur}
  <2>1. CASE ParserContinue \/ GetFileStore \/ CloseFile \/ GetFileHeader
    BY <2>1 DEF ParserContinue, GetFileStore, CloseFile, GetFileHeader, Inside, netVars, history
  <2>2. CASE ParserThrows \/ GetFileThrows \/ CloseThrows \/ OpenFile
    BY <2>2 DEF ParserThrows, GetFileThrows, CloseThrows, OpenFile, WriteThrows, DiskFails, Inside,
       netVars, history
  <2>3. CASE ParserFresh \/ GetFileDone \/ Compact \/ Catch \/ ReadAgain \/ SessionGone
    BY <2>3 DEF ParserFresh, GetFileDone, Compact, Catch, ReadAgain, SessionGone, Inside, netVars,
       history
  <2> QED BY <2>1, <2>2, <2>3 DEF Handler
<1>2. ASSUME NEW d \in Conns \ {c}
      PROVE  /\ Received'[d] = Received[d] /\ Saved'[d] = Saved[d]
             /\ Healthy(d)' <=> Healthy(d)
  <2>1. SameRows(d)
    BY HandlerOthers
  <2>2. Received'[d] = Received[d] /\ Saved'[d] = Saved[d]
    BY <2>1 DEF SameRows, Received, Saved, SavedRows
  <2>3. d \in faulted' <=> d \in faulted
    BY <1>1
  <2>4. WholeFrames(d)' = WholeFrames(d)
    BY <1>1 DEF WholeFrames
  <2> QED BY <2>1, <2>2, <2>3, <2>4 DEF SameRows, Healthy
<1>3. Sent' = Sent
  BY <1>1 DEF Sent
<1> QED BY <1>1, <1>2, <1>3 DEF OthersCopied

LEMMA BodyPrefix ==
    ASSUME NEW f \in Frame, NEW a \in Nat, NEW b \in Nat, a <= b
    PROVE  /\ IsPrefix(BodyOf(f, a), BodyOf(f, b))
           /\ BodyOf(f, a) = BodyOf(f, b) => a = b
<1>1. /\ BodyOf(f, a) = Piece(f, 0, a) /\ BodyOf(f, b) = Piece(f, 0, b)
      /\ 0 \in Nat /\ 0 <= a /\ 0 <= b /\ a - 0 = a /\ b - 0 = b
  BY PieceOfBody
<1>2. /\ Piece(f, 0, a) \in Seq(Cells) /\ Len(Piece(f, 0, a)) = a
      /\ Piece(f, 0, b) \in Seq(Cells) /\ Len(Piece(f, 0, b)) = b
      /\ Piece(f, a, b) \in Seq(Cells)
      /\ Piece(f, 0, a) \o Piece(f, a, b) = Piece(f, 0, b)
  BY <1>1, PieceType, PieceConcat
<1>3. \E u \in Seq(Cells) : Piece(f, 0, b) = Piece(f, 0, a) \o u
  BY <1>2
<1>4. IsPrefix(Piece(f, 0, a), Piece(f, 0, b))
  BY <1>2, <1>3, PrefixIs
<1> QED BY <1>1, <1>2, <1>4

\* The file under way of the session served grows, or gets nothing.
LEMMA GrowsOrNot ==
    ASSUME Copying, CopiesFit, CopiesFit', NEW c \in Conns, OthersCopied(c), script' = script,
           Healthy(c), Healthy(c)', RowsIn(c)' = RowsIn(c), Filling(c), Filling(c)',
           nSavedLength[c] <= nSavedLength'[c]
    PROVE  [Copies!Next]_(Copies!fcVars)
<1> DEFINE r == Made(c)
           f == script[c][r]
           a == nSavedLength[c]
           b == nSavedLength'[c]
           u == CopiesOf(c)
           v == CopiesOf(c)'
<1>1. CopiesAre(c) /\ CopiesAre(c)' /\ Made(c)' = r
  BY DEF CopiesFit, Made
<1>2. /\ DOMAIN u = 1..r /\ DOMAIN v = 1..r /\ Len(u) = r /\ r \in Nat /\ r > 0 /\ f \in Frame
      /\ \A j \in 1..r : j < r => u[j] = v[j]
      /\ u[r] = BodyOf(f, a) /\ v[r] = BodyOf(f, b)
      /\ a \in Nat /\ b \in Nat /\ a <= b /\ b <= f.nFileSize
      /\ Saved[c] = r - 1 /\ Saved'[c] = r - 1 /\ r <= Len(script[c])
  <2>1. Len(script[c]) \in Nat
    BY FilesLeftAre DEF Copying, Owned, Counted
  <2>2. /\ r \in Nat /\ r > 0 /\ r <= Len(script[c])
        /\ DOMAIN u = 1..r /\ DOMAIN v = 1..r /\ Len(u) = r
        /\ Saved[c] = r - 1 /\ Saved'[c] = r - 1
    BY <1>1, <2>1 DEF CopiesAre
  <2>3. \A j \in 1..r : j < r => u[j] = Content(script[c][j])
    BY <1>1 DEF CopiesAre
  <2>4. \A j \in 1..r : j < r => v[j] = Content(script[c][j])
    BY <1>1 DEF CopiesAre
  <2>5. f \in Frame /\ a \in 0..f.nFileSize /\ u[r] = BodyOf(f, a)
    BY <1>1 DEF CopiesAre
  <2>6. b \in 0..f.nFileSize /\ v[r] = BodyOf(f, b)
    BY <1>1 DEF CopiesAre
  <2>7. f.nFileSize \in Nat
    BY <2>5 DEF Frame
  <2> QED BY <2>2, <2>3, <2>4, <2>5, <2>6, <2>7
<1>3. u = [j \in 1..r |-> u[j]] /\ v = [j \in 1..r |-> v[j]]
  BY <1>2 DEF CopiesOf
<1>4. Saved' = Saved /\ Damaged' = Damaged /\ c \notin Damaged /\ Sent' = Sent
  <2>1. \A d \in Conns : Saved'[d] = Saved[d] /\ (Healthy(d)' <=> Healthy(d))
    BY <1>2 DEF OthersCopied
  <2> QED BY <2>1 DEF Saved, Damaged, OthersCopied
<1>5. /\ Received[c] = u /\ Received'[c] = v
      /\ Received = [d \in Conns |-> Received[d]] /\ Received' = [d \in Conns |-> Received'[d]]
      /\ \A d \in Conns \ {c} : Received'[d] = Received[d]
  BY DEF Received, OthersCopied
<1>6. Sent[c][r] = Content(f)
  <2>1. r \in DOMAIN script[c]
    BY <1>2, FilesLeftAre, LenProperties DEF Copying, Owned, Counted
  <2> QED BY <2>1 DEF Sent
<1> HIDE DEF r, f, a, b, u, v
<1>7. CASE a = b
  <2>1. \A j \in 1..r : u[j] = v[j]
    BY <1>2, <1>7
  <2>2. u = v
    BY <1>3, <2>1
  <2>3. Received' = Received
    BY <1>5, <2>2
  <2> QED BY <1>4, <2>3, IsStutter
<1>8. CASE a # b
  <2>1. IsPrefix(u[r], v[r]) /\ u[r] # v[r]
    BY <1>2, <1>8, BodyPrefix
  <2>2. IsPrefix(v[r], Sent[c][r])
    <3>1. f.nFileSize \in Nat
      BY <1>2 DEF Frame
    <3> QED BY <1>2, <1>6, <3>1, BodyPrefix DEF Content
  <2>3. v = [u EXCEPT ![r] = v[r]]
    <3>1. \A j \in 1..r : v[j] = [u EXCEPT ![r] = v[r]][j]
      BY <1>2
    <3> QED BY <1>2, <1>3, <3>1
  <2>4. Received' = [Received EXCEPT ![c][r] = v[r]]
    BY <1>5, <2>3
  <2>5. Len(Received[c]) = r /\ Saved[c] < r
    BY <1>2, <1>5
  <2> QED BY <1>4, <1>5, <2>1, <2>2, <2>4, <2>5, IsExtend DEF IsStrictPrefix
<1> QED BY <1>7, <1>8

LEMMA WritesCopy ==
    ASSUME Copying, CopiesFit, CopiesFit', ParserContinue \/ GetFileStore,
           NEW c \in Conns, c = cur, Healthy(c)'
    PROVE  [Copies!Next]_(Copies!fcVars)
<1> USE DEF Copying, Owned, Counted
<1>1. OthersCopied(c) /\ cur' = cur /\ script' = script /\ faulted \subseteq faulted'
  BY HandlerCopiesOnlyCur DEF Handler
<1>2. CASE UNCHANGED <<items, disk>>
  <2>1. faulted' = faulted
    BY DEF ParserContinue, GetFileStore, history
  <2> QED BY <1>1, <1>2, <2>1, NothingCopied
<1>3. ASSUME NEW cells, NEW saved, Write(cells, saved) PROVE RowsIn(c)' = RowsIn(c)
  <2>1. /\ DOMAIN items' = DOMAIN items
        /\ \A i \in DOMAIN items : items'[i].conn = items[i].conn
    BY <1>3, WriteOthers, RowIndexes
  <2> QED BY <2>1, SameRowsIn
<1>4. Len(NextPart) \in Nat /\ Len(FirstPart) \in Nat
  BY PartTypes, LenProperties
<1>5. nSavedLength[c] \in Nat /\ nFileSize[c] \in Nat
  BY DEF TypeOK
<1>6. CASE ParserContinue
  <2>1. /\ Write(NextPart, nSavedLength[c] + Len(NextPart)) /\ pc = "parser" /\ nFileSize[c] # 0
        /\ nFileSize' = nFileSize
    BY <1>6 DEF ParserContinue, Inside
  <2>2. RowsIn(c)' = RowsIn(c)
    BY <1>3, <2>1
  <2>3. Healthy(c)
    BY <1>1, <2>2, HealthyBefore
  <2>4. Filling(c) /\ Filling(c)'
    BY <2>1 DEF Filling
  <2>5. nSavedLength'[c] = nSavedLength[c] + Len(NextPart)
    BY <2>1 DEF Write, TypeOK
  <2> QED BY <1>1, <1>4, <1>5, <2>2, <2>3, <2>4, <2>5, GrowsOrNot
<1>7. CASE GetFileStore /\ ~UNCHANGED <<items, disk>>
  <2>1. /\ Write(FirstPart, Len(FirstPart)) /\ pc = "store" /\ nFileSize[c] # 0
        /\ nFileSize' = nFileSize
    BY <1>7 DEF GetFileStore, Inside, fileVars
  <2>2. RowsIn(c)' = RowsIn(c)
    BY <1>3, <2>1
  <2>3. Healthy(c)
    BY <1>1, <2>2, HealthyBefore
  <2>4. Filling(c) /\ Filling(c)'
    BY <2>1 DEF Filling
  <2>5. nSavedLength'[c] = Len(FirstPart) /\ nSavedLength[c] = 0
    <3>1. Current(c) /\ Stage(c) = pc
      BY <2>3 DEF InOrder, Core, Stage
    <3> QED BY <2>1, <3>1 DEF Write, TypeOK, Current
  <2> QED BY <1>1, <1>4, <2>2, <2>3, <2>4, <2>5, GrowsOrNot
<1> QED BY <1>2, <1>6, <1>7

LEMMA CloseCopies ==
    ASSUME Copying, CopiesFit, CopiesFit', CloseFile, NEW c \in Conns, c = cur, Healthy(c)'
    PROVE  Copies!Next
<1> USE DEF Copying, Owned, Counted
<1> DEFINE r == Made(c)
<1>1. OthersCopied(c) /\ cur' = cur /\ script' = script /\ faulted \subseteq faulted'
  BY HandlerCopiesOnlyCur DEF Handler
<1>2. /\ pc = "close" /\ pc' = "getfile" /\ nFileSize'[c] = 0 /\ disk' = disk
      /\ items' = [items EXCEPT ![pFileItem[cur]].nStatus = TRUE]
  BY DEF CloseFile, Inside, ForgetFile, TypeOK
<1>3. \A d : RowsIn(d)' = RowsIn(d)
  <2>1. pFileItem[cur] \in 1..Len(items)
    BY <1>2, RowIndexes DEF Underway
  <2>2. /\ DOMAIN items' = DOMAIN items
        /\ \A i \in DOMAIN items : items'[i].conn = items[i].conn
    BY <1>2, <2>1, RowIndexes DEF FileItem
  <2> QED BY <2>2, SameRowsIn
<1>4. Received' = Received
  BY <1>2, <1>3 DEF Received, CopiesOf
<1>5. Healthy(c)
  BY <1>1, <1>3, HealthyBefore
<1>6. CopiesAre(c) /\ CopiesAre(c)'
  BY <1>5 DEF CopiesFit
<1>7. Filling(c) /\ ~Filling(c)' /\ Made(c)' = r
  BY <1>1, <1>2, <1>3 DEF Filling, Stage, Busy, Made
<1>8. /\ r \in Nat /\ r > 0 /\ r <= Len(script[c]) /\ Len(CopiesOf(c)) = r
      /\ Saved[c] = r - 1 /\ Saved'[c] = r
      /\ CopiesOf(c)[r] = BodyOf(script[c][r], nSavedLength[c])
  <2>1. Len(script[c]) \in Nat
    BY FilesLeftAre
  <2> QED BY <1>6, <1>7, <2>1 DEF CopiesAre
<1>9. nSavedLength[c] = script[c][r].nFileSize
  <2>1. Current(c) /\ Stage(c) = pc
    BY <1>5 DEF InOrder, Core, Stage
  <2> QED BY <1>2, <1>7, <2>1 DEF Current, UnderWay
<1>10. Sent[c][r] = Content(script[c][r])
  <2>1. r \in DOMAIN script[c]
    BY <1>8, FilesLeftAre, LenProperties
  <2> QED BY <2>1 DEF Sent
<1>11. Damaged' = Damaged /\ c \notin Damaged /\ Sent' = Sent
  BY <1>1, <1>5 DEF Damaged, OthersCopied
<1>12. Saved' = [Saved EXCEPT ![c] = @ + 1]
  <2>1. /\ Saved = [d \in Conns |-> Saved[d]] /\ Saved' = [d \in Conns |-> Saved'[d]]
        /\ \A d \in Conns \ {c} : Saved'[d] = Saved[d]
    BY <1>1 DEF Saved, OthersCopied
  <2>2. Saved'[c] = Saved[c] + 1
    BY <1>8
  <2> QED BY <2>1, <2>2
<1>13. Received[c] = CopiesOf(c)
  BY DEF Received
<1> HIDE DEF r
<1>14. Len(Received[c]) = r /\ Saved[c] < r /\ Received[c][r] = Sent[c][r]
  BY <1>8, <1>9, <1>10, <1>13 DEF Content
<1> QED BY <1>4, <1>11, <1>12, <1>14, IsFinish

LEMMA HeaderCopies ==
    ASSUME Copying, CopiesFit, CopiesFit', GetFileHeader, NEW c \in Conns, c = cur, Healthy(c)'
    PROVE  Copies!Next
<1> USE DEF Copying, Owned, Counted
<1> DEFINE r == Made(c)
           n == Len(items)
           row == [conn |-> cur, frame |-> pBuffer[cur][nOffset + 1].frame,
                   nRecved |-> 0, nStatus |-> FALSE]
<1>1. OthersCopied(c) /\ cur' = cur /\ script' = script /\ faulted \subseteq faulted'
  BY HandlerCopiesOnlyCur DEF Handler
<1>2. /\ pc = "getfile" /\ pc' = "open" /\ HeaderReady
      /\ items' = Append(items, row) /\ disk' = Append(disk, <<>>)
  BY DEF GetFileHeader, Inside
<1>3. RowsIn(c)' = Append(RowsIn(c), n + 1) /\ n \in Nat
  <2>1. row \in FileItem /\ row.conn = c
    BY <1>2, HeaderType DEF FileItem
  <2> HIDE DEF row
  <2> QED BY <1>2, <2>1, RowAdded, RowIndexes
<1>4. Healthy(c)
  <2>1. n + 1 \in Nat
    BY <1>3
  <2> QED BY <1>1, <1>3, <2>1, HealthyBefore
<1>5. ~Filling(c) /\ r < Len(script[c]) /\ r \in Nat
  BY <1>2, <1>4, NextFrame
<1>6. /\ RowsIn(c) \in Seq(Nat) /\ r = Len(RowsIn(c)) /\ DOMAIN RowsIn(c) = 1..r
      /\ \A j \in 1..r : RowsIn(c)[j] \in 1..n
      /\ Len(RowsIn(c)') = r + 1 /\ DOMAIN RowsIn(c)' = 1..(r + 1)
      /\ RowsIn(c)'[r + 1] = n + 1 /\ \A j \in 1..r : RowsIn(c)'[j] = RowsIn(c)[j]
  <2>1. RowsIn(c) \in Seq(Nat) /\ r = Len(RowsIn(c)) /\ n + 1 \in Nat
    BY <1>3, RowsInType DEF Made
  <2>2. DOMAIN RowsIn(c) = 1..r /\ \A j \in 1..r : RowsIn(c)[j] \in 1..n
    BY <2>1, LenProperties DEF Listed
  <2> HIDE DEF n, r
  <2>3. /\ RowsIn(c)' \in Seq(Nat) /\ Len(RowsIn(c)') = r + 1
        /\ RowsIn(c)'[r + 1] = n + 1
        /\ \A j \in 1..r : RowsIn(c)'[j] = RowsIn(c)[j]
    BY <1>3, <2>1, AppendProperties
  <2>4. DOMAIN RowsIn(c)' = 1..(r + 1)
    BY <2>3, LenProperties
  <2> QED BY <2>1, <2>2, <2>3, <2>4
<1>7. disk'[n + 1] = <<>> /\ \A i \in 1..n : disk'[i] = disk[i]
  <2>1. disk \in Seq(Seq(Cells)) /\ Len(disk) = n /\ <<>> \in Seq(Cells)
    BY EmptySeq DEF TypeOK
  <2> QED BY <1>2, <2>1, AppendProperties
<1>8. CopiesOf(c)' = Append(CopiesOf(c), <<>>)
  <2>1. /\ CopiesOf(c) \in Seq(Seq(Cells)) /\ Len(CopiesOf(c)) = r /\ <<>> \in Seq(Cells)
        /\ \A j \in 1..r : CopiesOf(c)[j] = disk[RowsIn(c)[j]]
    BY <1>6, RowsAre, EmptySeq
  <2>2. /\ Append(CopiesOf(c), <<>>) \in Seq(Seq(Cells))
        /\ Len(Append(CopiesOf(c), <<>>)) = r + 1
        /\ \A j \in 1..r : Append(CopiesOf(c), <<>>)[j] = CopiesOf(c)[j]
        /\ Append(CopiesOf(c), <<>>)[r + 1] = <<>>
    BY <2>1, AppendProperties
  <2>3. CopiesOf(c)' = [j \in 1..(r + 1) |-> disk'[RowsIn(c)'[j]]]
    BY <1>6 DEF CopiesOf
  <2>4. Append(CopiesOf(c), <<>>) \in [1..(r + 1) -> Seq(Cells)]
    <3> DEFINE t == Append(CopiesOf(c), <<>>)
    <3>1. t \in Seq(Seq(Cells)) /\ Len(t) = r + 1
      BY <2>2
    <3> HIDE DEF t
    <3>2. t \in [1..(r + 1) -> Seq(Cells)]
      BY <3>1, LenProperties
    <3> QED BY <3>2 DEF t
  <2>5. Append(CopiesOf(c), <<>>) = [j \in 1..(r + 1) |-> Append(CopiesOf(c), <<>>)[j]]
    BY <2>4
  <2> HIDE DEF r, n
  <2>6. ASSUME NEW j \in 1..(r + 1)
        PROVE  disk'[RowsIn(c)'[j]] = Append(CopiesOf(c), <<>>)[j]
    <3>1. CASE j = r + 1
      BY <1>6, <1>7, <2>2, <3>1
    <3>2. CASE j # r + 1
      <4>1. j \in 1..r
        BY <1>5, <3>2 DEF r
      <4>2. RowsIn(c)'[j] \in 1..n /\ RowsIn(c)'[j] = RowsIn(c)[j]
        BY <1>6, <4>1
      <4>3. disk'[RowsIn(c)'[j]] = disk[RowsIn(c)[j]]
        BY <1>7, <4>2
      <4>4. Append(CopiesOf(c), <<>>)[j] = disk[RowsIn(c)[j]]
        BY <2>1, <2>2, <4>1
      <4> QED BY <4>3, <4>4
    <3> QED BY <3>1, <3>2
  <2> QED BY <2>3, <2>5, <2>6
<1>9. CopiesAre(c) /\ CopiesAre(c)'
  BY <1>4 DEF CopiesFit
<1>10. Filling(c)' /\ Made(c)' = r + 1
  BY <1>1, <1>2, <1>6 DEF Filling, Stage, Busy, Made
<1>11. Saved[c] = r /\ Saved'[c] = r /\ Len(CopiesOf(c)) = r
  BY <1>5, <1>9, <1>10 DEF CopiesAre
<1>12. Saved' = Saved /\ Damaged' = Damaged /\ c \notin Damaged /\ Sent' = Sent
  <2>1. \A d \in Conns : Saved'[d] = Saved[d] /\ (Healthy(d)' <=> Healthy(d))
    BY <1>1, <1>4, <1>11 DEF OthersCopied
  <2> QED BY <1>1, <2>1 DEF Saved, Damaged, OthersCopied
<1>13. Received' = [Received EXCEPT ![c] = Append(@, <<>>)] /\ Received[c] = CopiesOf(c)
  <2>1. /\ Received[c] = CopiesOf(c) /\ Received'[c] = CopiesOf(c)'
        /\ Received = [d \in Conns |-> Received[d]] /\ Received' = [d \in Conns |-> Received'[d]]
        /\ \A d \in Conns \ {c} : Received'[d] = Received[d]
    BY <1>1 DEF Received, OthersCopied
  <2> QED BY <1>8, <2>1
<1>14. Len(Sent[c]) = Len(script[c])
  <2>1. DOMAIN script[c] = 1..Len(script[c]) /\ Len(script[c]) \in Nat
    BY FilesLeftAre, LenProperties
  <2>2. Sent[c] = [j \in 1..Len(script[c]) |-> Content(script[c][j])]
    BY <2>1 DEF Sent
  <2> QED BY <2>1, <2>2
<1> QED BY <1>5, <1>11, <1>12, <1>13, <1>14, IsBegin

LEMMA HandlerCopies ==
    ASSUME Copying, CopiesFit, CopiesFit', Handler
    PROVE  [Copies!Next]_(Copies!fcVars)
<1> USE DEF Copying, Owned, Counted
<1>1. PICK c \in Conns : c = cur
  BY DEF TypeOK
<1>2. OthersCopied(c) /\ cur' = cur /\ script' = script
  BY <1>1, HandlerCopiesOnlyCur
<1>3. CASE ~Healthy(c)'
  <2>1. Damaged' = Damaged \cup {c}
    BY <1>2, <1>3 DEF Damaged, OthersCopied
  <2> QED BY <1>2, <2>1, IsBroken DEF OthersCopied
<1>4. CASE Healthy(c)'
  <2>1. CASE ParserContinue \/ GetFileStore
    BY <1>1, <1>4, <2>1, WritesCopy
  <2>2. CASE CloseFile
    BY <1>1, <1>4, <2>2, CloseCopies
  <2>3. CASE GetFileHeader
    BY <1>1, <1>4, <2>3, HeaderCopies
  <2>4. CASE ParserThrows \/ GetFileThrows \/ CloseThrows
    <3>1. c \in faulted'
      BY <1>1, <2>4 DEF ParserThrows, GetFileThrows, CloseThrows, WriteThrows, DiskFails
    <3> QED BY <1>4, <3>1 DEF Healthy
  <2>5. CASE OpenFile
    <3>1. c \notin faulted'
      BY <1>4 DEF Healthy
    <3>2. UNCHANGED <<items, disk, faulted>>
      BY <1>1, <2>5, <3>1 DEF OpenFile, DiskFails, fileVars, history
    <3> QED BY <1>2, <3>2, NothingCopied
  <2>6. CASE ParserFresh \/ GetFileDone \/ Compact \/ Catch \/ ReadAgain \/ SessionGone
    <3>1. UNCHANGED <<items, disk, faulted>>
      BY <2>6 DEF ParserFresh, GetFileDone, Compact, Catch, ReadAgain, SessionGone, fileVars, history
    <3> QED BY <1>2, <3>1, NothingCopied
  <2> QED BY <2>1, <2>2, <2>3, <2>4, <2>5, <2>6 DEF Handler
<1> QED BY <1>3, <1>4

LEMMA StepCopies ==
    ASSUME Copying, CopiesFit, CopiesFit', [Next]_vars
    PROVE  [Copies!Next]_(Copies!fcVars)
<1>1. CASE Handler
  BY <1>1, HandlerCopies
<1>2. CASE ~Handler
  <2>1. UNCHANGED <<script, items, disk, faulted>>
    BY <1>2 DEF Next, Completion, Environment, Accept, Read, ReadEnd, AcceptError, PeerSend,
       PeerReset, OnTimer, vars, netVars, fileVars, history
  <2> QED BY <2>1, NothingCopied
<1> QED BY <1>1, <1>2

LEMMA StartCopies == Init => Copies!Init
<1> SUFFICES ASSUME Init PROVE Copies!Init
  OBVIOUS
<1>1. script \in Scripts /\ faulted = {} /\ items = <<>>
  BY DEF Init
<1>2. \A c \in Conns : RowsIn(c) = <<>> /\ Rows(c) = <<>> /\ CopiesOf(c) = <<>>
  <2> TAKE c \in Conns
  <2>1. DOMAIN items = {}
    BY <1>1
  <2>2. RowsIn(c) = <<>>
    BY <2>1, FlattenEmpty DEF RowsIn
  <2> QED BY <2>2 DEF Rows, CopiesOf
<1>3. \A c \in Conns : Healthy(c)
  BY <1>1, <1>2, EmptySeq DEF Healthy
<1>4. \A c \in Conns : Cardinality({j \in DOMAIN Rows(c) : Rows(c)[j].nStatus}) = 0
  <2>1. \A c \in Conns : {j \in DOMAIN Rows(c) : Rows(c)[j].nStatus} = {}
    BY <1>2
  <2> QED BY <2>1, FS_EmptySet
<1> QED BY <1>1, <1>2, <1>3, <1>4 DEF Copies!Init

(***************************************************************************)
(* ImplementsFileCopyAlways.  For any connections, files, read sizes and   *)
(* interleavings, and whatever the disk does: the sessions (Parser,        *)
(* GetFile, CloseFile) copy the files of a connection one after the other, *)
(* report one saved only with its whole content on disk, and what breaks   *)
(* one connection changes no file of another.  GetFile's header is Begin,  *)
(* a write Extend, CloseFile Finish; what breaks a session is Broken.      *)
(***************************************************************************)
THEOREM ImplementsFileCopyAlways == Spec => ImplementsFileCopy
<1>1. Copying => CopiesFit
  BY CopyingFits
<1>2. Copying /\ CopiesFit /\ CopiesFit' /\ [Next]_vars => [Copies!Next]_(Copies!fcVars)
  BY StepCopies
<1>3. Init => Copies!Init
  BY StartCopies
<1> QED BY <1>1, <1>2, <1>3, CopyingAlways, PTL DEF Spec, ImplementsFileCopy, Copies!Spec

-----------------------------------------------------------------------------
(* A session that has lost its place. *)

\* The handler is only at a row it makes when a header is there, and only closes
\* a file that has a size or whose header it has gone past.
Grounded ==
    /\ pc \in {"open", "store"} => ValidHeader(pBuffer[cur], nOffset)
    /\ pc = "close" => nFileSize[cur] # 0 \/ nOffset > 0

LEMMA GroundedStep == ASSUME Owned, Grounded, [Next]_vars PROVE Grounded'
<1> USE DEF Owned, Counted
<1>1. CASE \/ AcceptError \/ OnTimer \/ UNCHANGED vars
           \/ \E c \in Conns : Accept(c) \/ PeerSend(c) \/ PeerReset(c)
  BY <1>1 DEF AcceptError, OnTimer, Accept, PeerSend, PeerReset, vars, ioVars, sessVars, Grounded
<1>2. CASE \/ \E c \in Conns : Read(c) \/ ReadEnd(c)
           \/ ParserThrows \/ ParserFresh \/ CloseFile \/ CloseThrows \/ GetFileThrows
           \/ GetFileDone \/ Compact \/ Catch \/ ReadAgain \/ SessionGone
  <2>1. pc' \notin {"open", "store", "close"}
    BY <1>2 DEF Read, ReadEnd, ParserThrows, ParserFresh, CloseFile, CloseThrows, GetFileThrows,
       GetFileDone, Compact, Catch, ReadAgain, SessionGone, Inside
  <2> QED BY <2>1 DEF Grounded
<1>3. CASE ParserContinue
  <2>1. pc' \in {"close", "compact"} /\ cur' = cur /\ nFileSize[cur] # 0 /\ nFileSize' = nFileSize
    BY <1>3 DEF ParserContinue, Inside
  <2> QED BY <2>1 DEF Grounded
<1>4. CASE GetFileHeader
  <2>1. /\ pc' = "open" /\ cur' = cur /\ pBuffer' = pBuffer /\ nOffset' = nOffset
        /\ ValidHeader(pBuffer[cur], nOffset)
    BY <1>4 DEF GetFileHeader, Inside, HeaderReady
  <2> QED BY <2>1 DEF Grounded, ValidHeader
<1>5. CASE OpenFile
  <2>1. /\ pc = "open" /\ pc' = "store" /\ cur' = cur /\ pBuffer' = pBuffer /\ nOffset' = nOffset
    BY <1>5 DEF OpenFile, Inside
  <2> QED BY <2>1 DEF Grounded, ValidHeader
<1>6. CASE GetFileStore
  <2>1. pc' \in {"close", "getfile"} /\ nOffset' = nOffset + HeaderSize + Len(FirstPart)
    BY <1>6 DEF GetFileStore, Inside
  <2>2. nOffset \in Nat /\ HeaderSize \in Nat \ {0} /\ Len(FirstPart) \in Nat
    BY PartTypes, LenProperties, FrameAssumption DEF HeaderSize, TypeOK
  <2>3. nOffset' > 0
    BY <2>1, <2>2
  <2> QED BY <2>1, <2>3 DEF Grounded
<1> QED BY <1>1, <1>2, <1>3, <1>4, <1>5, <1>6 DEF Next, Completion, Handler, Environment

LEMMA GroundedAlways == Spec => []Grounded
<1>1. Init => Grounded
  BY DEF Init, Grounded
<1> QED BY <1>1, GroundedStep, OwnedAlways, PTL DEF Spec

\* What LostForGood says of one connection's step.
StaysLost(c) == OutOfStep(c)' /\ Rows(c)' = Rows(c) /\ IsPrefix(pBuffer[c], pBuffer'[c])

LEMMA SameIsPrefix == ASSUME TypeOK, NEW c \in Conns PROVE IsPrefix(pBuffer[c], pBuffer[c])
BY DEF IsPrefix, TypeOK

\* A step that leaves the session's buffer and rows alone.
LEMMA NothingLost ==
    ASSUME TypeOK, NEW c \in Conns, OutOfStep(c), SameRows(c), pBuffer'[c] = pBuffer[c],
           nFileSize'[c] = nFileSize[c], cur' = c => nOffset' = 0
    PROVE  StaysLost(c)
BY SameIsPrefix DEF StaysLost, OutOfStep, SameRows, nDataLength, ValidHeader

LEMMA ReadStaysLost ==
    ASSUME TypeOK, NEW c \in Conns, OutOfStep(c), Read(c)
    PROVE  StaysLost(c)
<1> DEFINE b == pBuffer[c]
<1>1. PICK n \in 1..Smaller(MaxRead, Len(wire[c])) : pBuffer' = [pBuffer EXCEPT ![c] = @ \o SubSeq(wire[c], 1, n)]
  BY DEF Read
<1> DEFINE new == SubSeq(wire[c], 1, n)
<1>2. b \in Seq(Cells) /\ new \in Seq(Cells) /\ pBuffer'[c] = b \o new
  <2>1. b \in Seq(Cells) /\ wire[c] \in Seq(Cells) /\ Len(wire[c]) \in Nat
    BY AheadType, LenProperties
  <2>2. n \in 0..Len(wire[c])
    BY <2>1, SessionAssumption DEF Smaller
  <2> QED BY <1>1, <2>1, <2>2, CutSeq DEF TypeOK
<1>3. SameRows(c) /\ nFileSize' = nFileSize /\ nOffset' = 0
  BY SameRowsIfUnchanged DEF Read, fileVars
<1>4. HeadCells \in Nat \ {0} /\ Len(b) \in Nat /\ Len(b) >= HeadCells
  BY <1>2, LenProperties, FrameAssumption DEF OutOfStep, nDataLength
<1> HIDE DEF b, new
<1>5. /\ Len(b \o new) \in Nat /\ Len(b \o new) >= Len(b) /\ b \o new \in Seq(Cells)
      /\ \A i \in 1..Len(b) : (b \o new)[i] = b[i]
  <2>1. /\ Len(b \o new) = Len(b) + Len(new) /\ b \o new \in Seq(Cells) /\ Len(new) \in Nat
        /\ \A i \in 1..(Len(b) + Len(new)) : (b \o new)[i] = IF i <= Len(b) THEN b[i] ELSE new[i - Len(b)]
    BY <1>2, ConcatProperties, LenProperties
  <2> QED BY <1>4, <2>1
<1>6. \A k \in 1..HeadCells : (b \o new)[0 + k] = b[0 + k]
  BY <1>4, <1>5
<1>7. ~ValidHeader(b \o new, 0)
  <2>1. ~ValidHeader(b, 0)
    BY DEF OutOfStep, b
  <2>2. (b \o new)[0 + 1] = b[0 + 1]
    BY <1>4, <1>6
  <2> QED BY <1>6, <2>1, <2>2 DEF ValidHeader
<1>8. IsPrefix(b, b \o new)
  BY <1>2, <1>5, PrefixIs
<1>9. Len(b \o new) >= HeadCells
  BY <1>4, <1>5
<1>10. OutOfStep(c)'
  BY <1>2, <1>3, <1>7, <1>9 DEF OutOfStep, nDataLength, ValidHeader, b
<1> QED BY <1>2, <1>3, <1>8, <1>10 DEF StaysLost, SameRows, b

LEMMA ServedStaysLost ==
    ASSUME Owned, Listed, Placed, Grounded, Handler, OutOfStep(cur)
    PROVE  StaysLost(cur)
<1> USE DEF Owned, Counted
<1>1. /\ cur \in Conns /\ nOffset = 0 /\ nFileSize[cur] = 0 /\ ~ValidHeader(pBuffer[cur], nOffset)
      /\ pBuffer[cur] \in Seq(Cells)
  BY CurIs DEF OutOfStep
<1>2. pc \notin {"open", "store", "close"}
  BY <1>1 DEF Grounded
<1>3. ~GetFileHeader
  BY <1>1 DEF GetFileHeader, HeaderReady
<1>4. CASE ParserFresh \/ GetFileDone \/ Catch \/ ReadAgain \/ SessionGone
  <2>1. /\ UNCHANGED <<items, disk, pBuffer, nFileSize>> /\ cur' = cur /\ nOffset' = 0
    BY <1>1, <1>4 DEF ParserFresh, GetFileDone, Catch, ReadAgain, SessionGone, Inside, sessVars, fileVars
  <2> QED BY <1>1, <2>1, NothingLost, SameRowsIfUnchanged
<1>5. CASE Compact
  <2>1. Rest = pBuffer[cur]
    <3>1. SubSeq(pBuffer[cur], 1, Len(pBuffer[cur])) = pBuffer[cur]
      BY <1>1, SubSeqFull
    <3> QED BY <1>1, <3>1 DEF Rest, nDataLength
  <2>2. /\ UNCHANGED <<items, disk, nFileSize>> /\ cur' = cur /\ nOffset' = 0
        /\ pBuffer'[cur] = pBuffer[cur]
    BY <1>1, <1>5, <2>1 DEF Compact, Inside, fileVars, TypeOK
  <2> QED BY <1>1, <2>2, NothingLost, SameRowsIfUnchanged
<1>6. ~(ParserContinue \/ ParserThrows)
  BY <1>1 DEF ParserContinue, ParserThrows
<1>7. ~(CloseFile \/ CloseThrows \/ OpenFile \/ GetFileStore \/ GetFileThrows)
  BY <1>2 DEF CloseFile, CloseThrows, OpenFile, GetFileStore, GetFileThrows, Inside
<1> QED BY <1>3, <1>4, <1>5, <1>6, <1>7 DEF Handler

LEMMA StepStaysLost ==
    ASSUME Owned, Listed, Placed, Grounded, [Next]_vars, NEW c \in Conns, OutOfStep(c)
    PROVE  StaysLost(c)
<1> USE DEF Owned, Counted
<1>1. CASE Handler
  <2>1. CASE c = cur
    BY <1>1, <2>1, ServedStaysLost
  <2>2. CASE c # cur
    BY <1>1, <2>2, HandlerOthers, HandlerOnlyCur, NothingLost
  <2> QED BY <2>1, <2>2
<1>2. CASE AcceptError \/ OnTimer \/ UNCHANGED vars \/ \E d \in Conns : Accept(d) \/ PeerSend(d) \/ PeerReset(d)
  <2>1. UNCHANGED <<items, disk, pBuffer, nFileSize, cur, nOffset>>
    BY <1>2 DEF AcceptError, OnTimer, Accept, PeerSend, PeerReset, vars, ioVars, sessVars, fileVars
  <2> QED BY <2>1, NothingLost, SameRowsIfUnchanged DEF OutOfStep
<1>3. ASSUME NEW d \in Conns, ReadEnd(d) PROVE StaysLost(c)
  <2>1. UNCHANGED <<items, disk, pBuffer, nFileSize>> /\ nOffset' = 0
    BY <1>3 DEF ReadEnd, sessVars, fileVars
  <2> QED BY <2>1, NothingLost, SameRowsIfUnchanged
<1>4. ASSUME NEW d \in Conns, Read(d) PROVE StaysLost(c)
  <2>1. CASE d = c
    BY <1>4, <2>1, ReadStaysLost
  <2>2. CASE d # c
    <3>1. UNCHANGED <<items, disk, nFileSize, pBuffer[c]>> /\ nOffset' = 0
      BY <1>4, <2>2 DEF Read, fileVars, TypeOK
    <3> QED BY <3>1, NothingLost, SameRowsIfUnchanged
  <2> QED BY <2>1, <2>2
<1> QED BY <1>1, <1>2, <1>3, <1>4 DEF Next, Completion, Environment

(***************************************************************************)
(* LostForGoodAlways.  Whatever is sent and read: a session whose unused   *)
(* bytes begin with no header is at its end.  GetFile breaks off there     *)
(* each time, so that it makes no row any more and pBuffer only grows.     *)
(***************************************************************************)
THEOREM LostForGoodAlways == Spec => LostForGood
<1>1. /\ Copying => Owned /\ Listed /\ Placed
      /\ Owned /\ Listed /\ Placed /\ Grounded /\ [Next]_vars =>
             [\A c \in Conns : OutOfStep(c) =>
                 OutOfStep(c)' /\ Rows(c)' = Rows(c) /\ IsPrefix(pBuffer[c], pBuffer'[c])]_vars
  BY StepStaysLost DEF Copying, StaysLost
<1> QED BY <1>1, CopyingAlways, GroundedAlways, PTL DEF Spec, LostForGood

-----------------------------------------------------------------------------
(* What a step does to the rows of one connection. *)

\* Those that are there keep their headers, and their files once they are true;
\* one may be added.
RowsGrow(c) ==
    /\ \A j \in 1..Made(c) :
          /\ Rows(c)'[j].frame = Rows(c)[j].frame
          /\ Rows(c)[j].nStatus => Rows(c)'[j].nStatus /\ CopiesOf(c)'[j] = CopiesOf(c)[j]
    /\ \/ Made(c)' = Made(c)
       \/ /\ GetFileHeader /\ c = cur /\ Made(c)' = Made(c) + 1
          /\ Rows(c)'[Made(c) + 1].frame = pBuffer[cur][nOffset + 1].frame

LEMMA RowsGrowIf ==
    ASSUME Owned, Listed, [Next]_vars, NEW c \in Conns,
           \A j \in 1..Made(c) : j \in DOMAIN RowsIn(c)' /\ RowsIn(c)'[j] = RowsIn(c)[j],
           \A i \in 1..Len(items) : items'[i].frame = items[i].frame
    PROVE  \A j \in 1..Made(c) :
              /\ Rows(c)'[j].frame = Rows(c)[j].frame
              /\ Rows(c)[j].nStatus => Rows(c)'[j].nStatus /\ CopiesOf(c)'[j] = CopiesOf(c)[j]
<1> USE DEF Owned, Counted
<1> SUFFICES ASSUME NEW j \in 1..Made(c)
             PROVE  /\ Rows(c)'[j].frame = Rows(c)[j].frame
                    /\ Rows(c)[j].nStatus =>
                          Rows(c)'[j].nStatus /\ CopiesOf(c)'[j] = CopiesOf(c)[j]
  OBVIOUS
<1>1. RowsIn(c)[j] \in 1..Len(items) /\ DOMAIN items = 1..Len(items)
  BY RowIndexes DEF Listed, Made
<1>2. Rows(c)[j] = items[RowsIn(c)[j]] /\ CopiesOf(c)[j] = disk[RowsIn(c)[j]]
  BY RowsAre DEF Made
<1>3. Rows(c)'[j] = items'[RowsIn(c)[j]] /\ CopiesOf(c)'[j] = disk'[RowsIn(c)[j]]
  BY DEF Rows, CopiesOf
<1>4. SavedKept
  BY SavedStep
<1> QED BY <1>1, <1>2, <1>3, <1>4 DEF SavedKept

LEMMA RowsGrowStep == ASSUME Owned, Listed, [Next]_vars, NEW c \in Conns PROVE RowsGrow(c)
<1> USE DEF Owned, Counted
<1>1. /\ RowsIn(c) \in Seq(Nat) /\ Made(c) = Len(RowsIn(c)) /\ Made(c) \in Nat
      /\ DOMAIN RowsIn(c) = 1..Made(c) /\ DOMAIN items = 1..Len(items) /\ Len(items) \in Nat
  BY RowsInType, RowIndexes, LenProperties DEF Made
<1>2. CASE ~GetFileHeader
  <2>1. /\ DOMAIN items' = DOMAIN items
        /\ \A i \in DOMAIN items : items'[i].frame = items[i].frame /\ items'[i].conn = items[i].conn
    BY <1>2, SameFrames
  <2>2. RowsIn(c)' = RowsIn(c)
    BY <2>1, SameRowsIn
  <2>3. Made(c)' = Made(c)
    BY <2>2 DEF Made
  <2> QED BY <1>1, <2>1, <2>2, <2>3, RowsGrowIf DEF RowsGrow
<1>3. CASE GetFileHeader
  <2> DEFINE n == Len(items)
             row == [conn |-> cur, frame |-> pBuffer[cur][nOffset + 1].frame,
                     nRecved |-> 0, nStatus |-> FALSE]
  <2>1. row \in FileItem /\ row.conn = cur /\ row.frame = pBuffer[cur][nOffset + 1].frame
    BY <1>3, HeaderType DEF GetFileHeader, FileItem, TypeOK
  <2>2. items' = Append(items, row)
    BY <1>3 DEF GetFileHeader
  <2> HIDE DEF row
  <2>3. items'[n + 1] = row /\ \A i \in 1..n : items'[i] = items[i]
    BY <2>1, <2>2, RowIndexes, AppendProperties DEF TypeOK
  <2>4. RowsIn(c)' = IF row.conn = c THEN Append(RowsIn(c), n + 1) ELSE RowsIn(c)
    BY <2>1, <2>2, RowAdded
  <2>5. CASE c # cur
    <3>1. RowsIn(c)' = RowsIn(c)
      BY <2>1, <2>4, <2>5
    <3>2. Made(c)' = Made(c)
      BY <3>1 DEF Made
    <3> QED BY <1>1, <2>3, <3>1, <3>2, RowsGrowIf DEF RowsGrow
  <2>6. CASE c = cur
    <3>1. RowsIn(c)' = Append(RowsIn(c), n + 1) /\ n + 1 \in Nat
      BY <1>1, <2>1, <2>4, <2>6
    <3> HIDE DEF n
    <3>2. /\ RowsIn(c)' \in Seq(Nat) /\ Len(RowsIn(c)') = Made(c) + 1
          /\ \A j \in 1..Made(c) : RowsIn(c)'[j] = RowsIn(c)[j]
          /\ RowsIn(c)'[Made(c) + 1] = n + 1
      BY <1>1, <3>1, AppendProperties
    <3>3. DOMAIN RowsIn(c)' = 1..(Made(c) + 1) /\ Made(c)' = Made(c) + 1
      BY <3>2, LenProperties DEF Made
    <3>4. Made(c) + 1 \in 1..(Made(c) + 1) /\ \A j \in 1..Made(c) : j \in 1..(Made(c) + 1)
      BY <1>1
    <3>5. Rows(c)'[Made(c) + 1] = items'[n + 1]
      BY <3>2, <3>3, <3>4 DEF Rows
    <3>6. \A i \in 1..Len(items) : items'[i].frame = items[i].frame
      BY <2>3 DEF n
    <3>7. \A j \in 1..Made(c) :
              /\ Rows(c)'[j].frame = Rows(c)[j].frame
              /\ Rows(c)[j].nStatus => Rows(c)'[j].nStatus /\ CopiesOf(c)'[j] = CopiesOf(c)[j]
      BY <3>2, <3>3, <3>4, <3>6, RowsGrowIf
    <3> QED BY <1>3, <2>1, <2>3, <2>6, <3>3, <3>5, <3>7 DEF RowsGrow
  <2> QED BY <2>5, <2>6
<1> QED BY <1>2, <1>3

-----------------------------------------------------------------------------
(* A receiver whose disk never fails. *)

\* A session that has a file under way has it open.
FileThere ==
    /\ faulted = {}
    /\ \A c \in Conns :
          nFileSize[c] # 0 /\ link[c] # "closed" /\ ~(c = cur /\ pc = "open") => FileSave[c] # 0

LEMMA FileThereStep == ASSUME Owned, FileThere, MaxFaults = 0, [Next]_vars PROVE FileThere'
<1> USE DEF Owned, Counted
<1>1. cur \in Conns /\ ~DiskMayFail /\ faulted = {}
  <2>1. Cardinality(faulted) = 0
    BY FS_EmptySet DEF FileThere
  <2> QED BY <2>1 DEF DiskMayFail, FileThere, TypeOK
<1>2. CASE Completion \/ Environment \/ OnTimer \/ UNCHANGED vars
  <2>1. /\ UNCHANGED <<nFileSize, FileSave, faulted>>
        /\ \A c \in Conns : link'[c] # "closed" => link[c] # "closed"
        /\ pc = "idle" \/ UNCHANGED <<pc, cur>>
    BY <1>2 DEF Completion, Environment, OnTimer, vars, Accept, AcceptError, Read, ReadEnd, PeerSend,
       PeerReset, sessVars, ioVars, netVars, history, TypeOK
  <2> QED BY <2>1 DEF FileThere
<1>3. CASE \/ ParserContinue \/ ParserFresh \/ GetFileStore \/ GetFileDone \/ Compact \/ Catch
           \/ ReadAgain
  <2>1. UNCHANGED <<nFileSize, FileSave, faulted, link, cur>> /\ pc # "open"
    BY <1>3 DEF ParserContinue, ParserFresh, GetFileStore, GetFileDone, Compact, Catch, ReadAgain,
       Inside, sessVars, netVars, history
  <2> QED BY <2>1 DEF FileThere
<1>4. ASSUME ParserThrows \/ GetFileThrows \/ CloseThrows PROVE FALSE
  <2>1. CASE CloseThrows
    BY <1>1, <2>1 DEF CloseThrows
  <2>2. CASE ParserThrows \/ GetFileThrows
    <3>1. pc \in {"parser", "store"} /\ nFileSize[cur] # 0 /\ FileSave[cur] = 0
      BY <1>1, <2>2 DEF ParserThrows, GetFileThrows, WriteThrows, Inside
    <3> QED BY <1>1, <3>1 DEF FileThere, Serving
  <2> QED BY <1>4, <2>1, <2>2
<1>5. CASE CloseFile
  <2>1. /\ UNCHANGED <<faulted, link, cur>> /\ pc = "close"
        /\ nFileSize' = [nFileSize EXCEPT ![cur] = 0] /\ FileSave' = [FileSave EXCEPT ![cur] = 0]
    BY <1>5 DEF CloseFile, ForgetFile, Inside, netVars, history
  <2> QED BY <1>1, <2>1 DEF FileThere, TypeOK
<1>6. CASE GetFileHeader
  <2>1. /\ UNCHANGED <<faulted, link, cur, FileSave>> /\ pc' = "open" /\ pc = "getfile"
        /\ \A c \in Conns \ {cur} : nFileSize'[c] = nFileSize[c]
    BY <1>6 DEF GetFileHeader, Inside, netVars, history, TypeOK
  <2> QED BY <1>1, <2>1 DEF FileThere
<1>7. CASE OpenFile
  <2>1. /\ UNCHANGED <<faulted, link, cur, nFileSize>> /\ pc' = "store" /\ pc = "open"
        /\ FileSave' = [FileSave EXCEPT ![cur] = pFileItem[cur]] /\ pFileItem[cur] # 0
    BY <1>1, <1>7 DEF OpenFile, Inside, netVars, history, Underway
  <2> QED BY <1>1, <2>1 DEF FileThere, TypeOK
<1>8. CASE SessionGone
  <2>1. /\ UNCHANGED <<faulted, cur, nFileSize>> /\ pc = "after" /\ pc' = "idle"
        /\ link' = [link EXCEPT ![cur] = "closed"] /\ FileSave' = [FileSave EXCEPT ![cur] = 0]
    BY <1>8 DEF SessionGone, history
  <2> QED BY <1>1, <2>1 DEF FileThere, TypeOK
<1> QED BY <1>2, <1>3, <1>4, <1>5, <1>6, <1>7, <1>8 DEF Next, Handler

-----------------------------------------------------------------------------
(* A script that is still being written.  The frame at its end may turn    *)
(* out shorter or longer than meant, and further ones may follow.          *)

\* The cells of the frames of s after the k-th.
Left(s, k) == Flow(SubSeq(s, k + 1, Len(s)))

LEMMA LeftType == ASSUME NEW s \in Seq(Frame), NEW k \in 0..Len(s) PROVE Left(s, k) \in Seq(Cells)
<1>1. SubSeq(s, k + 1, Len(s)) \in Seq(Frame)
  BY CutSeq
<1> QED BY <1>1, FlowType DEF Left

LEMMA NothingLeft == ASSUME NEW s \in Seq(Frame) PROVE Left(s, Len(s)) = <<>>
<1>1. SubSeq(s, Len(s) + 1, Len(s)) = <<>>
  BY SubSeqEmpty, LenProperties
<1> QED BY <1>1, FlowEmpty DEF Left

LEMMA FlowLast ==
    ASSUME NEW s \in Seq(Frame), NEW f \in Frame
    PROVE  Flow(Append(s, f)) = Flow(s) \o FrameCells(f)
<1> DEFINE all == [j \in DOMAIN s |-> FrameCells(s[j])]
           more == [j \in DOMAIN Append(s, f) |-> FrameCells(Append(s, f)[j])]
<1>1. /\ Append(s, f) \in Seq(Frame) /\ Len(Append(s, f)) = Len(s) + 1 /\ Len(s) \in Nat
      /\ \A i \in 1..Len(s) : Append(s, f)[i] = s[i]
      /\ Append(s, f)[Len(s) + 1] = f
  BY AppendProperties, LenProperties
<1>2. /\ all \in Seq(Seq(Cells)) /\ Len(all) = Len(s)
      /\ more \in Seq(Seq(Cells)) /\ Len(more) = Len(s) + 1
      /\ FrameCells(f) \in Seq(Cells)
  BY <1>1, CellsOfFrames, FrameCellsType
<1>3. \A i \in 1..Len(s) : all[i] = FrameCells(s[i])
  BY LenProperties
<1>4. /\ \A i \in 1..Len(s) : more[i] = FrameCells(s[i])
      /\ more[Len(s) + 1] = FrameCells(f)
  <2>1. /\ DOMAIN Append(s, f) = 1..(Len(s) + 1) /\ Len(s) + 1 \in 1..(Len(s) + 1)
        /\ \A i \in 1..Len(s) : i \in 1..(Len(s) + 1)
    BY <1>1, LenProperties
  <2> QED BY <1>1, <2>1
<1> HIDE DEF all, more
<1>5. /\ Append(all, FrameCells(f)) \in Seq(Seq(Cells))
      /\ Len(Append(all, FrameCells(f))) = Len(s) + 1
      /\ \A i \in 1..Len(s) : Append(all, FrameCells(f))[i] = FrameCells(s[i])
      /\ Append(all, FrameCells(f))[Len(s) + 1] = FrameCells(f)
  BY <1>2, <1>3, AppendProperties
<1>6. \A i \in 1..(Len(s) + 1) : more[i] = Append(all, FrameCells(f))[i]
  BY <1>1, <1>4, <1>5
<1>7. more = Append(all, FrameCells(f))
  BY <1>2, <1>5, <1>6, SeqEqual
<1>8. FlattenSeq(more) = FlattenSeq(all) \o FrameCells(f)
  BY <1>2, <1>7, FlattenLast
<1> QED BY <1>8 DEF all, more, Flow

LEMMA LeftLast ==
    ASSUME NEW s \in Seq(Frame), NEW f \in Frame, NEW k \in 0..Len(s)
    PROVE  Left(Append(s, f), k) = Left(s, k) \o FrameCells(f)
<1> DEFINE n == Len(s)
           t == SubSeq(s, k + 1, n)
           u == SubSeq(Append(s, f), k + 1, n + 1)
<1>1. /\ Append(s, f) \in Seq(Frame) /\ Len(Append(s, f)) = n + 1 /\ n \in Nat /\ k \in Nat
      /\ \A i \in 1..n : Append(s, f)[i] = s[i]
      /\ Append(s, f)[n + 1] = f
  BY AppendProperties, LenProperties
<1>2. /\ t \in Seq(Frame) /\ Len(t) = n - k
      /\ \A i \in 1..(n - k) : t[i] = s[k + i]
  BY CutSeq
<1>3. /\ u \in Seq(Frame) /\ Len(u) = (n + 1) - k
      /\ \A i \in 1..((n + 1) - k) : u[i] = Append(s, f)[k + i]
  <2>1. k \in 0..Len(Append(s, f))
    BY <1>1
  <2> QED BY <1>1, <2>1, CutSeq
<1> HIDE DEF n, t, u
<1>4. /\ Append(t, f) \in Seq(Frame) /\ Len(Append(t, f)) = (n - k) + 1
      /\ \A i \in 1..(n - k) : Append(t, f)[i] = t[i]
      /\ Append(t, f)[(n - k) + 1] = f
  BY ONLY <1>2, AppendProperties, f \in Frame
<1>5. ASSUME NEW i \in 1..((n + 1) - k) PROVE u[i] = Append(t, f)[i]
  <2>1. CASE i \in 1..(n - k)
    <3>1. k + i \in 1..n
      BY <1>1, <2>1 DEF n
    <3> QED BY <1>1, <1>2, <1>3, <1>4, <2>1, <3>1
  <2>2. CASE i \notin 1..(n - k)
    <3>1. i = (n - k) + 1 /\ k + i = n + 1
      BY <1>1, <2>2 DEF n
    <3> QED BY <1>1, <1>3, <1>4, <3>1
  <2> QED BY <2>1, <2>2
<1>6. u = Append(t, f)
  <2>1. (n + 1) - k = (n - k) + 1
    BY <1>1
  <2> QED BY <1>3, <1>4, <1>5, <2>1, SeqEqual
<1>7. Flow(u) = Flow(t) \o FrameCells(f)
  BY <1>2, <1>6, FlowLast
<1> QED BY <1>1, <1>7 DEF Left, n, t, u

LEMMA SameByHeader ==
    ASSUME NEW f, NEW g, HeaderOf(f) = HeaderOf(g)
    PROVE  /\ f.file = g.file /\ f.nFileSize = g.nFileSize
           /\ \A k : CellOf(f, k) = CellOf(g, k)
           /\ \A a, b : Cut(f, a, b) = Cut(g, a, b) /\ Piece(f, a, b) = Piece(g, a, b)
           /\ \A n : BodyOf(f, n) = BodyOf(g, n)
           /\ Content(f) = Content(g)
<1>1. f.file = g.file /\ f.nFileSize = g.nFileSize
  BY DEF HeaderOf
<1>2. \A part, k : Cell(part, f, k) = Cell(part, g, k)
  BY DEF Cell
<1>3. HeadOf(f) = HeadOf(g)
  BY <1>2 DEF HeadOf
<1>4. \A k : CellOf(f, k) = CellOf(g, k)
  BY <1>2, <1>3 DEF CellOf
<1>5. \A n : BodyOf(f, n) = BodyOf(g, n)
  BY <1>2 DEF BodyOf
<1>6. \A a, b : Cut(f, a, b) = Cut(g, a, b)
  BY <1>4 DEF Cut
<1> QED BY <1>1, <1>4, <1>5, <1>6 DEF Piece, Content

\* The two parts of Expected: what the file under way lacks, and the frames
\* behind it.
Begun(c) ==
    IF Filling(c) /\ Stage(c) \notin {"open", "store"}
    THEN Piece(script[c][Made(c)], nSavedLength[c], nFileSize[c]) ELSE <<>>

Turn(c) == IF Stage(c) \in {"open", "store"} THEN Made(c) - 1 ELSE Made(c)

LEMMA ExpectedIs ==
    ASSUME TypeOK, NEW c \in Conns, Core(c)
    PROVE  /\ Made(c) \in Nat /\ Turn(c) \in 0..Made(c) /\ Made(c) <= Len(script[c])
           /\ Begun(c) \in Seq(Cells)
           /\ Expected(c) = Begun(c) \o Left(script[c], Turn(c))
<1>1. Made(c) \in Nat /\ Made(c) <= Len(script[c])
  BY RowsInType, LenProperties DEF Made, Core, RowsRight
<1>2. Stage(c) \in {"open", "store"} => Filling(c)
  BY DEF Filling, Busy
<1>3. Turn(c) \in 0..Made(c)
  BY <1>1, <1>2 DEF Turn, Core, Current, UnderWay
<1>4. script[c] \in Seq(Frame) /\ Len(script[c]) \in Nat
  BY FilesLeftAre
<1>5. Begun(c) \in Seq(Cells)
  <2>1. CASE Filling(c) /\ Stage(c) \notin {"open", "store"}
    <3>1. Made(c) \in 1..Len(script[c]) /\ nSavedLength[c] <= nFileSize[c]
      BY <1>1, <1>4, <2>1 DEF Core, Current, UnderWay
    <3>2. script[c][Made(c)] \in Frame
      BY <1>4, <3>1, ElementOfSeq
    <3> QED BY <2>1, <3>1, <3>2, PieceType DEF Begun, TypeOK
  <2>2. CASE ~(Filling(c) /\ Stage(c) \notin {"open", "store"})
    BY <2>2, EmptySeq DEF Begun
  <2> QED BY <2>1, <2>2
<1>6. Left(script[c], Turn(c)) \in Seq(Cells)
  <2>1. Turn(c) \in 0..Len(script[c])
    BY <1>1, <1>3, <1>4
  <2> QED BY <1>4, <2>1, LeftType
<1>7. Expected(c) = Begun(c) \o Left(script[c], Turn(c))
  <2>1. <<>> \o Left(script[c], Turn(c)) = Left(script[c], Turn(c))
    BY <1>6, ConcatEmptySeq
  <2> QED BY <1>2, <2>1 DEF Expected, Begun, Turn, FilesLeft, Left
<1> QED BY <1>1, <1>3, <1>5, <1>7

\* The frames that were there keep their headers.
Rewritten(c) ==
    /\ script'[c] \in Seq(Frame) /\ Len(script[c]) <= Len(script'[c])
    /\ \A j \in 1..Len(script[c]) : HeaderOf(script'[c][j]) = HeaderOf(script[c][j])

\* A step that is the sender's alone.
SenderOnly == UNCHANGED <<link, toSend, sessVars, ioVars, fileVars, listVars, dlgVars, history>>

LEMMA RewrittenKeeps ==
    ASSUME TypeOK, NEW c \in Conns, Core(c), Drained(c), Rewritten(c), SenderOnly
    PROVE  /\ Made(c)' = Made(c) /\ Ahead(c)' = Ahead(c)
           /\ RowsRight(c)' /\ Current(c)' /\ Drained(c)'
           /\ Expected(c)' = Begun(c) \o Left(script'[c], Turn(c))
<1>1. /\ UNCHANGED <<pBuffer, nFileSize, nSavedLength, pFileItem, FileSave, pc, cur, nOffset,
                     items, disk, link>>
  BY DEF SenderOnly, sessVars, ioVars, fileVars
<1>2. /\ SameRows(c) /\ Made(c)' = Made(c) /\ Stage(c)' = Stage(c) /\ Filling(c)' = Filling(c)
      /\ Ahead(c)' = Ahead(c) /\ nFileSize'[c] = nFileSize[c]
      /\ nSavedLength'[c] = nSavedLength[c]
  BY <1>1, SameRowsIfUnchanged DEF SameRows, Made, Stage, Filling, Ahead, Used
<1>3. Made(c) \in Nat /\ Turn(c) \in 0..Made(c) /\ Made(c) <= Len(script[c]) /\ Len(script[c]) \in Nat
  BY ExpectedIs, FilesLeftAre
<1>4. ASSUME NEW j \in 1..Made(c)
      PROVE  /\ HeaderOf(script'[c][j]) = HeaderOf(script[c][j])
             /\ Content(script'[c][j]) = Content(script[c][j])
             /\ script'[c][j].nFileSize = script[c][j].nFileSize
             /\ \A n : BodyOf(script'[c][j], n) = BodyOf(script[c][j], n)
             /\ \A a, b : Piece(script'[c][j], a, b) = Piece(script[c][j], a, b)
  <2>1. HeaderOf(script'[c][j]) = HeaderOf(script[c][j])
    BY <1>3 DEF Rewritten
  <2> QED BY <2>1, SameByHeader
<1>5. RowsRight(c)'
  <2>1. Len(script'[c]) \in Nat /\ Made(c) <= Len(script'[c])
    BY <1>3, LenProperties DEF Rewritten
  <2> QED BY <1>2, <1>4, <2>1 DEF Core, RowsRight, SameRows
<1>6. UnderWay(c) => UnderWay(c)'
  <2>1. Made(c) > 0 => Made(c) \in 1..Made(c)
    BY <1>3
  <2> QED BY <1>1, <1>2, <1>4, <2>1 DEF UnderWay, SameRows
<1>7. Current(c)'
  BY <1>1, <1>2, <1>6 DEF Core, Current
<1>8. Drained(c)'
  BY <1>1, <1>2 DEF Drained
<1>9. Expected(c)' = Begun(c) \o Left(script'[c], Turn(c))
  <2> DEFINE more == script'[c]
  <2>1. Turn(c)' = Turn(c)
    BY <1>2 DEF Turn
  <2>2. FilesLeft(c, Made(c))' = Left(more, Made(c)) /\ FilesLeft(c, Made(c) - 1)' = Left(more, Made(c) - 1)
    BY <1>2 DEF FilesLeft, Left
  <2>3. Left(more, Turn(c)) \in Seq(Cells)
    <3>1. more \in Seq(Frame) /\ Turn(c) \in 0..Len(more)
      BY <1>3, LenProperties DEF Rewritten
    <3> HIDE DEF more
    <3> QED BY <3>1, LeftType
  <2>4. <<>> \o Left(more, Turn(c)) = Left(more, Turn(c))
    BY <2>3, ConcatEmptySeq
  <2>5. CASE Stage(c) \in {"open", "store"}
    <3>1. Expected(c)' = FilesLeft(c, Made(c) - 1)'
      BY <1>2, <2>5 DEF Expected
    <3> QED BY <2>2, <2>4, <2>5, <3>1 DEF Begun, Turn
  <2>6. CASE Stage(c) \notin {"open", "store"} /\ Filling(c)
    <3>1. Expected(c)' = Piece(more[Made(c)], nSavedLength[c], nFileSize[c]) \o FilesLeft(c, Made(c))'
      BY <1>2, <2>6 DEF Expected
    <3>2. Made(c) \in 1..Made(c)
      BY <1>3, <2>6 DEF Core, Current, UnderWay
    <3> QED BY <1>4, <2>2, <2>6, <3>1, <3>2 DEF Begun, Turn
  <2>7. CASE Stage(c) \notin {"open", "store"} /\ ~Filling(c)
    <3>1. Expected(c)' = FilesLeft(c, Made(c))'
      BY <1>2, <2>7 DEF Expected
    <3> QED BY <2>2, <2>4, <2>7, <3>1 DEF Begun, Turn
  <2> QED BY <2>5, <2>6, <2>7
<1> QED BY <1>2, <1>5, <1>7, <1>8, <1>9
LEMMA CancelRight ==
    ASSUME NEW S, NEW s \in Seq(S), NEW t \in Seq(S), NEW v \in Seq(S), s \o v = t \o v
    PROVE  s = t
BY ConcatSimplifications

\* What is expected, old, becomes new, and what is missing, m, becomes n, when z
\* is put behind what was to come.
Continues(S, old, new, m, z, n) ==
    \/ \E p \in Seq(S) : old = p \o m /\ new = p \o (z \o n)
    \/ new = old /\ m = z \o n

\* The arithmetic of StillTuned, on its own.
Tunes(b, a, w, m, z, n, old, new) ==
    b \o old = (a \o w) \o m => b \o new = (a \o (w \o z)) \o n

LEMMA TuneParts ==
    ASSUME NEW S, NEW b \in Seq(S), NEW a \in Seq(S), NEW w \in Seq(S), NEW m \in Seq(S),
           NEW z \in Seq(S), NEW n \in Seq(S), NEW old \in Seq(S), NEW new \in Seq(S),
           Continues(S, old, new, m, z, n)
    PROVE  Tunes(b, a, w, m, z, n, old, new)
<1> SUFFICES ASSUME b \o old = (a \o w) \o m
             PROVE  b \o new = (a \o (w \o z)) \o n
  BY DEF Tunes
<1> DEFINE aw == a \o w
           zn == z \o n
<1>1. /\ aw \in Seq(S) /\ zn \in Seq(S) /\ w \o z \in Seq(S) /\ a \o (w \o z) \in Seq(S)
  BY JoinType
<1>2. (a \o (w \o z)) \o n = aw \o zn
  <2>1. Regroups(a, w, z) /\ Regroups(aw, z, n)
    BY <1>1, RegroupsAlways
  <2> QED BY <2>1 DEF Regroups
<1> HIDE DEF aw, zn
<1>3. CASE \E p \in Seq(S) : old = p \o m /\ new = p \o zn
  <2>1. PICK p \in Seq(S) : old = p \o m /\ new = p \o zn
    BY <1>3
  <2>2. b \o p \in Seq(S) /\ Regroups(b, p, m) /\ Regroups(b, p, zn)
    BY <1>1, JoinType, RegroupsAlways
  <2>3. (b \o p) \o m = aw \o m
    BY <2>1, <2>2 DEF Regroups, aw
  <2>4. b \o p = aw
    BY <1>1, <2>2, <2>3, CancelRight
  <2> QED BY <1>2, <2>1, <2>2, <2>4 DEF Regroups
<1>4. CASE new = old /\ m = zn
  BY <1>2, <1>4 DEF aw
<1> QED BY <1>3, <1>4 DEF zn, Continues

\* What the sender puts on a connection of which m was missing leaves n missing.
LEMMA StillTuned ==
    ASSUME TypeOK, NEW c \in Conns, Core(c), Drained(c), Rewritten(c), SenderOnly,
           toSend[c] = <<>>, NEW m \in Seq(Cells), NEW z \in Seq(Cells), NEW n \in Seq(Cells),
           wire'[c] = wire[c] \o z, Expected(c) = ToCome(c) \o m,
           Continues(Cells, Left(script[c], Turn(c)), Left(script'[c], Turn(c)), m, z, n)
    PROVE  Core(c)' /\ Drained(c)' /\ Expected(c)' = ToCome(c)' \o n
<1> DEFINE b == Begun(c)
           a == Ahead(c)
           w == wire[c]
           old == Left(script[c], Turn(c))
           new == Left(script'[c], Turn(c))
<1>1. /\ Expected(c) = b \o old /\ b \in Seq(Cells) /\ Turn(c) \in 0..Len(script[c])
      /\ Made(c) <= Len(script[c])
  <2>1. Len(script[c]) \in Nat
    BY FilesLeftAre
  <2>2. /\ Made(c) \in Nat /\ Turn(c) \in 0..Made(c) /\ Made(c) <= Len(script[c])
        /\ Begun(c) \in Seq(Cells) /\ Expected(c) = Begun(c) \o Left(script[c], Turn(c))
    BY ExpectedIs
  <2>3. Turn(c) \in 0..Len(script[c])
    BY ONLY <2>1, <2>2
  <2> QED BY <2>2, <2>3
<1>2. old \in Seq(Cells) /\ new \in Seq(Cells)
  <2>1. script[c] \in Seq(Frame) /\ script'[c] \in Seq(Frame) /\ Turn(c) \in 0..Len(script'[c])
    BY <1>1, FilesLeftAre, LenProperties DEF Rewritten
  <2>2. \A s \in Seq(Frame) : \A k \in 0..Len(s) : Left(s, k) \in Seq(Cells)
    BY LeftType
  <2> QED BY <1>1, <2>1, <2>2
<1>3. Expected(c)' = b \o new /\ Ahead(c)' = a /\ RowsRight(c)' /\ Current(c)' /\ Drained(c)'
  BY RewrittenKeeps
<1>4. a \in Seq(Cells) /\ w \in Seq(Cells) /\ w \o z \in Seq(Cells)
  BY AheadType, JoinType
<1>5. ToCome(c) = a \o w /\ ToCome(c)' = a \o (w \o z)
  <2>1. toSend'[c] = <<>>
    BY DEF SenderOnly
  <2>2. w \o <<>> = w /\ (w \o z) \o <<>> = w \o z
    BY <1>4, ConcatEmptySeq
  <2> QED BY <1>3, <2>1, <2>2, FlowEmpty DEF ToCome
<1>6. b \o old = (a \o w) \o m
  BY <1>1, <1>5
<1> HIDE DEF a, b, w, old, new
<1>7. b \o new = (a \o (w \o z)) \o n
  <2>1. Continues(Cells, old, new, m, z, n)
    BY DEF old, new
  <2>2. Tunes(b, a, w, m, z, n, old, new)
    BY <1>1, <1>2, <1>4, <2>1, TuneParts
  <2> QED BY <1>6, <2>2 DEF Tunes
<1>8. Expected(c)' = ToCome(c)' \o n
  BY <1>3, <1>5, <1>7
<1>9. InStep(c)'
  BY <1>8 DEF InStep
<1> QED BY <1>3, <1>8, <1>9 DEF Core

\* The sender leaves the invariant alone, but for what InOrder says.
LEMMA SenderOwned ==
    ASSUME Owned, Listed, Placed, SenderOnly, script' \in Scripts,
           wire' \in [Conns -> Seq(Cells)]
    PROVE  Owned' /\ Listed' /\ Placed'
<1>1. UNCHANGED <<link, toSend, sessVars, ioVars, fileVars, listVars, dlgVars, history>>
  BY DEF SenderOnly
<1>2. TypeOK'
  BY <1>1 DEF Owned, Counted, TypeOK, sessVars, ioVars, fileVars, listVars, dlgVars, history
<1>3. ClientCount' /\ Serving'
  BY <1>1 DEF Owned, Counted, ClientCount, Serving, ioVars, dlgVars, history
<1>4. OneFile' /\ Underway'
  BY <1>1 DEF Owned, OneFile, Underway, nDataLength, sessVars, ioVars, fileVars
<1>5. Listed'
  <2>1. \A c \in Conns : RowsIn(c)' = RowsIn(c)
    BY <1>1, SameRowsIfUnchanged DEF SameRows, fileVars
  <2> QED BY <1>1, <2>1 DEF Listed, fileVars
<1>6. Placed'
  BY <1>1 DEF Placed, nDataLength, sessVars, ioVars, history
<1> QED BY <1>2, <1>3, <1>4, <1>5, <1>6 DEF Owned, Counted

-----------------------------------------------------------------------------
(* A connection that is served to its end: what Transfer needs to know of  *)
(* the numbers the dialog then shows.                                      *)

\* Every row is one of its connection's.
LEMMA EveryRowListed ==
    ASSUME TypeOK, NEW i \in DOMAIN items
    PROVE  \E j \in 1..Made(items[i].conn) : RowsIn(items[i].conn)[j] = i
<1> DEFINE c == items[i].conn
           m == Marks(c)
<1>1. DOMAIN items = 1..Len(items) /\ i \in Nat
  BY RowIndexes
<1>2. m \in Seq(Seq(Nat)) /\ Len(m) = Len(items) /\ m[i] = <<i>>
  BY MarksType DEF Marks
<1>3. i \in 1..Len(m) /\ 1 \in 1..Len(m[i]) /\ m[i][1] = i
  BY <1>1, <1>2
<1>4. RowsIn(c) = FlattenSeq(m)
  BY DEF RowsIn, Marks
<1> HIDE DEF m, c
<1>5. Keeps(m)
  BY <1>2, FlattenKeeps
<1>6. \E j \in 1..Len(FlattenSeq(m)) : FlattenSeq(m)[j] = m[i][1]
  BY <1>3, <1>5 DEF Keeps
<1> QED BY <1>3, <1>4, <1>6 DEF Made, c

LEMMA FrameLength ==
    ASSUME NEW f \in Frame, NEW w \in Seq(Cells)
    PROVE  /\ FrameCells(f) \in Seq(Cells) /\ Len(FrameCells(f)) = f.sent /\ f.sent \in Nat \ {0}
           /\ Len(FrameCells(f) \o w) = f.sent + Len(w) /\ Len(w) \in Nat
<1> DEFINE h == FrameCells(f)
<1>1. h \in Seq(Cells) /\ f.sent \in Nat \ {0}
  BY FrameCellsType, FrameIsCut
<1>2. Len(h) = f.sent
  <2>1. DOMAIN h = 1..f.sent
    BY DEF FrameCells
  <2> QED BY <1>1, <2>1, LenProperties
<1> HIDE DEF h
<1>3. Len(h \o w) = Len(h) + Len(w) /\ Len(w) \in Nat
  BY <1>1, ConcatProperties, LenProperties
<1> QED BY <1>1, <1>2, <1>3 DEF h

\* A frame's cells are taken as soon as the header is there and one cell more.
LEMMA HeaderTaken ==
    ASSUME NEW f \in Frame, NEW w \in Seq(Cells), f.sent >= HeaderSize,
           Len(FrameCells(f) \o w) > HeaderSize
    PROVE  Ready(FrameCells(f) \o w)
<1> DEFINE h == FrameCells(f)
           a == h \o w
<1>1. /\ HeaderSize \in Nat /\ HeadCells \in Nat \ {0} /\ HeadCells <= HeaderSize
      /\ h \in Seq(Cells) /\ f.sent \in Nat
  BY HeaderSizeIs, FrameCellsType, FrameIsCut
<1>2. Len(h) = f.sent
  BY FrameLength
<1>3. \A k \in 1..HeadCells : h[k] = Cell("head", f, k)
  BY <1>1, HeadShape DEF FrameCells, CellOf
<1> HIDE DEF h
<1>4. \A k \in 1..Len(h) : a[k] = h[k]
  BY <1>1, ConcatProperties, LenProperties
<1>5. \A k \in 1..HeadCells : k \in 1..Len(h) /\ 0 + k = k
  BY <1>1, <1>2
<1>6. 1 \in 1..HeadCells
  BY <1>1
<1>7. \A k \in 1..HeadCells : a[0 + k] = Cell("head", f, k)
  BY <1>3, <1>4, <1>5
<1>8. a[0 + 1].frame = HeaderOf(f)
  <2>1. a[0 + 1] = Cell("head", f, 1)
    BY <1>6, <1>7
  <2>2. Cell("head", f, 1).frame = HeaderOf(f)
    BY DEF Cell
  <2> QED BY <2>1, <2>2
<1>9. \A k : Cell("head", f, k) = Cell("head", HeaderOf(f), k)
  BY DEF Cell, HeaderOf
<1>10. ValidHeader(a, 0)
  BY <1>7, <1>8, <1>9 DEF ValidHeader
<1>11. Len(a) > HeaderSize /\ Len(a) \in Nat
  BY <1>1, ConcatProperties, LenProperties DEF h
<1>12. Len(a) >= HeadCells
  BY <1>1, <1>11
<1> QED BY <1>10, <1>11, <1>12 DEF Ready, h

\* When nothing more comes on a connection that was in order, all its frames have
\* been made rows of and saved, but for an empty file that came last.
LEMMA ServedToTheEnd ==
    ASSUME TypeOK, NEW c \in Conns, Core(c), Drained(c), Stage(c) = "idle",
           Expected(c) = Ahead(c), \A j \in 1..Len(script[c]) : IsWhole(script[c][j])
    PROVE  /\ ~Filling(c)
           /\ Made(c) # Len(script[c]) =>
                 Made(c) + 1 = Len(script[c]) /\ script[c][Made(c) + 1].nFileSize = 0
<1> DEFINE r == Made(c)
           n == Len(script[c])
           a == Ahead(c)
<1>1. /\ r \in Nat /\ r <= n /\ n \in Nat /\ a \in Seq(Cells)
      /\ nFileSize[c] \in Nat /\ nSavedLength[c] \in Nat
      /\ \A k \in 1..n : script[c][k] \in Frame
  <2>1. r \in Nat
    BY RowsInType, LenProperties DEF Made
  <2>2. script[c] \in Seq(Frame) /\ n \in Nat
    BY FilesLeftAre
  <2> QED BY <2>1, <2>2, AheadType, ElementOfSeq DEF TypeOK, Core, RowsRight
<1>2. nFileSize[c] = 0
  <2> SUFFICES ASSUME nFileSize[c] # 0 PROVE FALSE
    OBVIOUS
  <2>1. Filling(c) /\ a = <<>> /\ UnderWay(c) /\ nSavedLength[c] < nFileSize[c]
    BY DEF Filling, Drained, Core, Current, Busy
  <2>2. r \in 1..n
    BY <1>1, <2>1 DEF UnderWay
  <2>3. Expected(c) = Piece(script[c][r], nSavedLength[c], nFileSize[c]) \o FilesLeft(c, r)
    BY <2>1 DEF Expected
  <2>4. /\ Piece(script[c][r], nSavedLength[c], nFileSize[c]) \in Seq(Cells)
        /\ Len(Piece(script[c][r], nSavedLength[c], nFileSize[c])) = nFileSize[c] - nSavedLength[c]
    <3>1. script[c][r] \in Frame /\ nSavedLength[c] <= nFileSize[c]
      BY <1>1, <2>1, <2>2
    <3> HIDE DEF r
    <3> QED BY ONLY <1>1, <3>1, PieceType
  <2>5. FilesLeft(c, r) \in Seq(Cells)
    <3> HIDE DEF r
    <3> QED BY <1>1, <2>2, FilesLeftAre
  <2>6. Piece(script[c][r], nSavedLength[c], nFileSize[c]) = <<>>
    <3>1. PICK p \in Seq(Cells) : p = Piece(script[c][r], nSavedLength[c], nFileSize[c])
      BY <2>4
    <3>2. p \o FilesLeft(c, r) = <<>>
      BY <2>1, <2>3, <3>1
    <3> HIDE DEF r
    <3>3. p = <<>>
      BY <2>5, <3>2, ConcatSimplifications
    <3> QED BY <3>1, <3>3
  <2> QED BY <1>1, <2>1, <2>4, <2>6, EmptySeq
<1>3. ~Filling(c) /\ ~Ready(a)
  BY <1>2 DEF Filling, Busy, Drained
<1>4. a = FilesLeft(c, r)
  BY <1>3 DEF Expected
<1>5. ASSUME r # n PROVE r + 1 = n /\ script[c][r + 1].nFileSize = 0
  <2> DEFINE f == script[c][r + 1]
  <2> HIDE DEF r
  <2>1. r \in 0..(n - 1) /\ r + 1 \in 1..n /\ r + 1 \in 0..n
    BY <1>1, <1>5
  <2>2. /\ f \in Frame /\ FilesLeft(c, r) = FrameCells(f) \o FilesLeft(c, r + 1)
        /\ FilesLeft(c, r + 1) \in Seq(Cells)
    BY <2>1, FilesLeftAre
  <2>3. f.sent = HeaderSize + f.nFileSize /\ f.nFileSize \in Nat /\ HeaderSize \in Nat
    BY <2>1, <2>2, FrameIsCut, HeaderSizeIs DEF IsWhole
  <2> HIDE DEF f
  <2>5. Len(a) = f.sent + Len(FilesLeft(c, r + 1)) /\ Len(FilesLeft(c, r + 1)) \in Nat
    BY <1>4, <2>2, FrameLength
  <2>6. ~(Len(a) > HeaderSize)
    <3>1. f.sent >= HeaderSize
      BY <2>3
    <3> QED BY <1>3, <1>4, <2>2, <3>1, HeaderTaken
  <2>7. f.nFileSize = 0 /\ Len(FilesLeft(c, r + 1)) = 0
    BY <2>3, <2>5, <2>6
  <2>8. r + 1 = n
    <3> SUFFICES ASSUME r + 1 # n PROVE FALSE
      OBVIOUS
    <3> DEFINE g == script[c][(r + 1) + 1]
    <3>1. r + 1 \in 0..(n - 1) /\ (r + 1) + 1 \in 0..n
      BY <1>1, <2>1
    <3>2. /\ g \in Frame /\ FilesLeft(c, r + 1) = FrameCells(g) \o FilesLeft(c, (r + 1) + 1)
          /\ FilesLeft(c, (r + 1) + 1) \in Seq(Cells)
      BY <3>1, FilesLeftAre
    <3> HIDE DEF g
    <3>3. /\ Len(FilesLeft(c, r + 1)) = g.sent + Len(FilesLeft(c, (r + 1) + 1))
          /\ Len(FilesLeft(c, (r + 1) + 1)) \in Nat /\ g.sent \in Nat \ {0}
      BY <3>2, FrameLength
    <3> QED BY <2>7, <3>3
  <2> QED BY <2>7, <2>8 DEF f
<1> QED BY <1>3, <1>5

\* The more frames have gone, the less is left.
LEMMA LeftShrinks ==
    ASSUME TypeOK, NEW c \in Conns
    PROVE  \A l \in 0..Len(script[c]) : \A k \in 0..l : Len(FilesLeft(c, l)) <= Len(FilesLeft(c, k))
<1> DEFINE n == Len(script[c])
           L(j) == Len(FilesLeft(c, j))
           T == {d \in Nat : \A k \in 0..n : k + d <= n => L(k + d) <= L(k)}
<1>1. n \in Nat /\ \A j \in 0..n : L(j) \in Nat
  BY FilesLeftAre, LenProperties
<1>2. \A j \in 0..(n - 1) : j \in 0..n /\ j + 1 \in 0..n /\ L(j + 1) <= L(j)
  <2> SUFFICES ASSUME NEW j \in 0..(n - 1) PROVE j \in 0..n /\ j + 1 \in 0..n /\ L(j + 1) <= L(j)
    OBVIOUS
  <2>1. j \in 0..n /\ j + 1 \in 0..n
    BY <1>1
  <2>2. FilesLeft(c, j + 1) \in Seq(Cells) /\ script[c][j + 1] \in Frame
        /\ FilesLeft(c, j) = FrameCells(script[c][j + 1]) \o FilesLeft(c, j + 1)
    BY <2>1, FilesLeftAre
  <2>3. L(j) = script[c][j + 1].sent + L(j + 1) /\ script[c][j + 1].sent \in Nat /\ L(j + 1) \in Nat
    BY <2>2, FrameLength
  <2> HIDE DEF L
  <2> QED BY <2>1, <2>3
<1> HIDE DEF L
<1>3. 0 \in T
  <2>1. \A k \in 0..n : L(k + 0) <= L(k)
    BY <1>1
  <2> QED BY <2>1
<1>4. \A d \in Nat : d \in T => d + 1 \in T
  <2> SUFFICES ASSUME NEW d \in Nat, d \in T PROVE d + 1 \in T
    OBVIOUS
  <2> SUFFICES ASSUME NEW k \in 0..n, k + (d + 1) <= n PROVE L(k + (d + 1)) <= L(k)
    OBVIOUS
  <2>1. k + d \in 0..(n - 1) /\ k + d <= n /\ (k + d) + 1 = k + (d + 1)
    BY <1>1
  <2>2. L(k + d) <= L(k)
    BY <2>1
  <2>3. L((k + d) + 1) <= L(k + d) /\ k + d \in 0..n /\ (k + d) + 1 \in 0..n
    BY <1>2, <2>1
  <2>4. L(k) \in Nat /\ L(k + d) \in Nat /\ L((k + d) + 1) \in Nat
    BY <1>1, <2>3
  <2> QED BY <2>1, <2>2, <2>3, <2>4
<1>5. Nat \subseteq T
  <2> HIDE DEF T
  <2> QED BY <1>3, <1>4, InductionOverNat
<1>6. ASSUME NEW l \in 0..n, NEW k \in 0..l PROVE L(l) <= L(k)
  <2>1. l - k \in Nat /\ k \in 0..n /\ k + (l - k) = l /\ l <= n
    BY <1>1
  <2>2. l - k \in T
    BY <1>5, <2>1
  <2>3. k + (l - k) <= n => L(k + (l - k)) <= L(k)
    BY <2>1, <2>2
  <2> QED BY <2>1, <2>3
<1> QED BY <1>6 DEF L

\* Frame s is the last that has begun to come, and m is what has not come yet: then
\* a frame has been made a row of and saved, if all is whole up to it and it is not
\* an empty file that came last.
LEMMA ServedSoFar ==
    ASSUME TypeOK, NEW c \in Conns, Core(c), Drained(c), Stage(c) = "idle",
           NEW m \in Seq(Cells), Expected(c) = Ahead(c) \o m,
           NEW s \in 1..Len(script[c]), Len(m) < Len(FilesLeft(c, s - 1)),
           NEW i \in 1..s, \A j \in 1..i : IsWhole(script[c][j]),
           i = s => Len(m) <= Len(FilesLeft(c, s)) /\ script[c][i].nFileSize > 0
    PROVE  i <= Made(c) /\ (i = Made(c) => ~Filling(c))
<1> DEFINE r == Made(c)
           n == Len(script[c])
           a == Ahead(c)
<1>1. /\ r \in Nat /\ r <= n /\ n \in Nat /\ s \in 1..n /\ s \in Nat /\ i \in 1..s /\ i \in Nat
      /\ a \in Seq(Cells) /\ Len(a) \in Nat /\ Len(m) \in Nat
      /\ nFileSize[c] \in Nat /\ nSavedLength[c] \in Nat
      /\ \A k \in 1..n : script[c][k] \in Frame
  <2>1. r \in Nat
    BY RowsInType, LenProperties DEF Made
  <2>2. script[c] \in Seq(Frame) /\ n \in Nat
    BY FilesLeftAre
  <2>3. a \in Seq(Cells) /\ Len(a) \in Nat /\ Len(m) \in Nat
    BY AheadType, LenProperties
  <2>4. r <= n /\ nFileSize[c] \in Nat /\ nSavedLength[c] \in Nat
    BY DEF TypeOK, Core, RowsRight
  <2>5. \A k \in 1..n : script[c][k] \in Frame
    BY <2>2, ElementOfSeq
  <2> QED BY <2>1, <2>2, <2>3, <2>4, <2>5
<1>2. s - 1 \in 0..n /\ s \in 0..n
  BY <1>1
<1>3. \A k \in 0..n : FilesLeft(c, k) \in Seq(Cells) /\ Len(FilesLeft(c, k)) \in Nat
  BY FilesLeftAre, LenProperties
<1>4. \A k \in 0..(s - 1) : Len(m) < Len(FilesLeft(c, k))
  <2> SUFFICES ASSUME NEW k \in 0..(s - 1) PROVE Len(m) < Len(FilesLeft(c, k))
    OBVIOUS
  <2>1. \A l \in 0..n : \A j \in 0..l : Len(FilesLeft(c, l)) <= Len(FilesLeft(c, j))
    BY LeftShrinks
  <2>2. Len(FilesLeft(c, s - 1)) <= Len(FilesLeft(c, k))
    BY <1>2, <2>1
  <2>3. Len(FilesLeft(c, s - 1)) \in Nat /\ Len(FilesLeft(c, k)) \in Nat
    <3>1. k \in 0..n
      <4> HIDE DEF n
      <4> QED BY <1>1
    <3> QED BY <1>2, <1>3, <3>1
  <2> QED BY <1>1, <2>2, <2>3
<1>5. ASSUME nFileSize[c] # 0 PROVE i < r
  <2> SUFFICES ASSUME r <= i PROVE FALSE
    BY <1>1
  <2>1. Filling(c) /\ a = <<>> /\ UnderWay(c) /\ nSavedLength[c] < nFileSize[c]
    BY <1>5 DEF Filling, Drained, Core, Current, Busy
  <2>2. r \in 1..n
    BY <1>1, <2>1 DEF UnderWay
  <2> DEFINE p == Piece(script[c][r], nSavedLength[c], nFileSize[c])
  <2>3. Expected(c) = p \o FilesLeft(c, r)
    BY <2>1 DEF Expected
  <2>4. p \in Seq(Cells) /\ Len(p) = nFileSize[c] - nSavedLength[c]
    <3>1. script[c][r] \in Frame /\ nSavedLength[c] <= nFileSize[c]
      BY <1>1, <2>1, <2>2
    <3> HIDE DEF r
    <3> QED BY ONLY <1>1, <3>1, PieceType
  <2>5. Len(p) > 0 /\ Len(p) \in Nat
    BY <1>1, <2>1, <2>4
  <2> HIDE DEF p, r
  <2>6. FilesLeft(c, r) \in Seq(Cells) /\ Len(FilesLeft(c, r)) \in Nat
    BY <1>1, <1>3, <2>2
  <2>7. m = p \o FilesLeft(c, r)
    BY <2>1, <2>3, ConcatEmptySeq
  <2>8. Len(m) = Len(p) + Len(FilesLeft(c, r))
    BY <2>4, <2>6, <2>7, ConcatProperties
  <2>9. Len(m) > Len(FilesLeft(c, r))
    BY <2>5, <2>6, <2>8
  <2>10. CASE r = s
    BY <1>1, <2>6, <2>9, <2>10
  <2>11. CASE r # s
    <3>1. r \in 0..(s - 1)
      BY <1>1, <2>2, <2>11
    <3>2. Len(m) < Len(FilesLeft(c, r))
      BY <1>4, <3>1
    <3> QED BY <1>1, <2>6, <2>9, <3>2
  <2> QED BY <2>10, <2>11
<1>6. ASSUME nFileSize[c] = 0 PROVE ~Filling(c) /\ i <= r
  <2>1. ~Filling(c) /\ ~Ready(a)
    BY <1>6 DEF Filling, Busy, Drained
  <2> SUFFICES ASSUME r < i PROVE FALSE
    BY <1>1, <2>1
  <2>2. a \o m = FilesLeft(c, r)
    BY <2>1 DEF Expected
  <2> DEFINE f == script[c][r + 1]
             u == FilesLeft(c, r + 1)
  <2> HIDE DEF r, a
  <2>3. r \in 0..(n - 1) /\ r + 1 \in 1..n /\ r + 1 \in 0..n /\ r + 1 \in 1..i
    BY <1>1
  <2>4. f \in Frame /\ FilesLeft(c, r) = FrameCells(f) \o u /\ u \in Seq(Cells)
    BY <2>3, FilesLeftAre
  <2>5. f.sent = HeaderSize + f.nFileSize /\ f.nFileSize \in Nat /\ HeaderSize \in Nat
    BY <2>3, <2>4, FrameIsCut, HeaderSizeIs DEF IsWhole
  <2> HIDE DEF f
  <2>6. Len(a) + Len(m) = f.sent + Len(u) /\ Len(u) \in Nat
    <3>1. Len(a \o m) = Len(a) + Len(m)
      BY <1>1, ConcatProperties
    <3>2. Len(FrameCells(f) \o u) = f.sent + Len(u) /\ Len(u) \in Nat
      BY <2>4, FrameLength
    <3> QED BY <2>2, <2>4, <3>1, <3>2
  <2>7. Len(a) >= f.sent /\ Len(a) > HeaderSize
    <3>1. CASE r + 1 = s
      <4>1. i = s /\ f.nFileSize > 0 /\ Len(m) <= Len(u)
        BY <1>1, <2>3, <3>1 DEF f
      <4> HIDE DEF u, f
      <4>2. f.sent > HeaderSize /\ f.sent \in Nat
        BY <2>5, <4>1
      <4>3. Len(a) >= f.sent
        BY <1>1, <2>6, <4>1, <4>2
      <4> QED BY <1>1, <2>5, <4>2, <4>3
    <3>2. CASE r + 1 # s
      <4>1. r + 1 \in 0..(s - 1)
        BY <1>1, <2>3, <3>2
      <4>2. Len(m) < Len(u)
        BY <1>4, <4>1
      <4> HIDE DEF u, f
      <4>3. f.sent \in Nat /\ f.sent >= HeaderSize /\ HeaderSize \in Nat
        BY <2>5
      <4>4. Len(a) > f.sent /\ Len(a) \in Nat
        BY <1>1, <2>6, <4>2, <4>3
      <4> QED BY <4>3, <4>4
    <3> QED BY <3>1, <3>2
  <2>8. /\ FrameCells(f) \in Seq(Cells) /\ Len(FrameCells(f)) = f.sent
        /\ FrameCells(f) \o u = a \o m
    BY <2>2, <2>4, FrameLength
  <2> DEFINE h == FrameCells(f)
  <2> HIDE DEF u, h, n
  <2>9. PICK v \in Seq(Cells) : a = h \o v
    <3>1. Len(h) <= Len(a) /\ h \in Seq(Cells) /\ h \o u = a \o m
      BY <2>7, <2>8 DEF h
    <3>2. SubSeq(a, 1, Len(h)) = h
      BY <1>1, <2>4, <3>1, SameSeqCutTwice
    <3>3. Len(h) \in 0..Len(a)
      BY <1>1, <3>1, LenProperties
    <3>4. FirstCut(Cells, a, Len(h)) /\ SecondCut(Cells, a, Len(h))
      BY <1>1, <3>3, CutAlways
    <3> QED BY <3>2, <3>4 DEF FirstCut, SecondCut
  <2>10. f.sent >= HeaderSize
    BY <2>5
  <2>11. Ready(a)
    BY <2>4, <2>7, <2>9, <2>10, HeaderTaken DEF h
  <2> QED BY <2>1, <2>11 DEF a
<1>7. CASE nFileSize[c] # 0
  BY <1>1, <1>5, <1>7
<1>8. CASE nFileSize[c] = 0
  BY <1>6, <1>8
<1> QED BY <1>7, <1>8

\* More than the header of a frame has gone out when GetFile takes it.
LEMMA NextFrameIsLonger ==
    ASSUME Copying, Healthy(cur), pc = "getfile", HeaderReady, Made(cur) + 1 = Len(script[cur])
    PROVE  script[cur][Made(cur) + 1].sent > HeaderSize
<1> USE DEF Copying, Owned, Counted
<1> DEFINE r == Made(cur)
           f == script[cur][r + 1]
           a == Ahead(cur)
           w == wire[cur] \o Flow(toSend[cur])
<1>1. cur \in Conns /\ Stage(cur) = pc /\ a \in Seq(Cells) /\ Len(a) \in Nat /\ Len(a) > HeaderSize
  BY CurIs, LenProperties, HeaderReadyIs
<1>2. ~Filling(cur) /\ r \in Nat /\ f \in Frame /\ r + 1 = Len(script[cur])
  BY NextFrame
<1>3. PICK rest \in Seq(Cells) : FilesLeft(cur, r) = (a \o w) \o rest
  <2>1. Expected(cur) = FilesLeft(cur, r)
    BY <1>1, <1>2 DEF Expected
  <2> QED BY <1>1, <2>1 DEF InOrder, Core, InStep, ToCome
<1>4. w \in Seq(Cells) /\ a \o w \in Seq(Cells)
  BY <1>1, AheadType, ConcatProperties
<1> HIDE DEF f, r, w, a
<1>5. FilesLeft(cur, r) = FrameCells(f)
  <2>1. r \in 0..(Len(script[cur]) - 1)
    BY <1>2
  <2>2. FilesLeft(cur, r) = FrameCells(f) \o FilesLeft(cur, Len(script[cur]))
    BY <1>1, <1>2, <2>1, FilesLeftAre DEF f
  <2>3. FilesLeft(cur, Len(script[cur])) = <<>>
    BY <1>1, FilesLeftAre
  <2> QED BY <1>2, <2>2, <2>3, FrameCellsType, ConcatEmptySeq
<1>6. Len(FrameCells(f)) = f.sent /\ f.sent \in Nat
  BY <1>1, <1>2, FrameLength
<1>7. Len((a \o w) \o rest) = Len(a) + Len(w) + Len(rest) /\ Len(w) \in Nat /\ Len(rest) \in Nat
  BY <1>1, <1>4, ConcatProperties, LenProperties
<1>8. f.sent = Len(a) + Len(w) + Len(rest)
  BY <1>3, <1>5, <1>6, <1>7
<1>9. f.sent > HeaderSize
  BY <1>1, <1>6, <1>7, <1>8, HeaderSizeIs
<1> QED BY <1>9 DEF f, r

-----------------------------------------------------------------------------
(* Residue: on a connection nobody reset all that was sent comes. *)

\* What was not sent yet is the end of the script.
Unsent ==
    \A c \in Conns : c \notin lost =>
        \E k \in 0..Len(script[c]) : toSend[c] = SubSeq(script[c], k + 1, Len(script[c]))

AllComes ==
    \A c \in Conns : Healthy(c) /\ c \notin lost => Expected(c) = ToCome(c) \o <<>>

LEMMA OnlyPeersSend ==
    ASSUME TypeOK, [Next]_vars, NEW c \in Conns, c \notin lost'
    PROVE  /\ script' = script /\ c \notin lost /\ faulted \subseteq faulted'
           /\ toSend'[c] = toSend[c] \/ PeerSend(c)
<1>1. CASE Handler
  <2>1. CASE ParserContinue \/ GetFileStore
    BY <2>1 DEF ParserContinue, GetFileStore, Write, Inside, netVars, history
  <2>2. CASE ParserThrows \/ GetFileThrows
    BY <2>2 DEF ParserThrows, GetFileThrows, WriteThrows, DiskFails, Inside, netVars
  <2>3. CASE CloseFile \/ CloseThrows
    BY <2>3 DEF CloseFile, CloseThrows, DiskFails, Inside, netVars, history
  <2>4. CASE GetFileHeader \/ OpenFile
    BY <2>4 DEF GetFileHeader, OpenFile, DiskFails, Inside, netVars, history
  <2>5. CASE ParserFresh \/ GetFileDone \/ Compact \/ Catch \/ ReadAgain \/ SessionGone
    BY <2>5 DEF ParserFresh, GetFileDone, Compact, Catch, ReadAgain, SessionGone, Inside, netVars,
       history
  <2> QED BY <1>1, <2>1, <2>2, <2>3, <2>4, <2>5 DEF Handler
<1>2. CASE AcceptError \/ OnTimer \/ UNCHANGED vars \/ Completion
  BY <1>2 DEF AcceptError, OnTimer, vars, Completion, Accept, Read, ReadEnd, netVars, history
<1>3. CASE \E d \in Conns : PeerSend(d) \/ PeerReset(d)
  BY <1>3 DEF PeerSend, PeerReset, TypeOK, history
<1> QED BY <1>1, <1>2, <1>3 DEF Next, Environment

LEMMA UnsentStep == ASSUME TypeOK, Unsent, [Next]_vars PROVE Unsent'
<1> SUFFICES ASSUME NEW c \in Conns, c \notin lost'
             PROVE  \E k \in 0..Len(script'[c]) : toSend'[c] = SubSeq(script'[c], k + 1, Len(script'[c]))
  BY DEF Unsent
<1>1. script' = script /\ c \notin lost /\ (toSend'[c] = toSend[c] \/ PeerSend(c))
  BY OnlyPeersSend
<1>2. script[c] \in Seq(Frame) /\ Len(script[c]) \in Nat
  BY FilesLeftAre
<1> DEFINE n == Len(script[c])
<1>3. PICK k \in 0..n : toSend[c] = SubSeq(script[c], k + 1, n)
  BY <1>1 DEF Unsent
<1>4. CASE toSend'[c] = toSend[c]
  BY <1>1, <1>3, <1>4
<1>5. CASE PeerSend(c)
  <2>1. toSend[c] # <<>> /\ toSend'[c] = Tail(toSend[c])
    BY <1>5 DEF PeerSend, TypeOK
  <2>2. k \in 0..(n - 1)
    <3>1. k # n
      BY <1>2, <1>3, <2>1, SubSeqEmpty
    <3> QED BY <1>2, <3>1
  <2>3. toSend'[c] = SubSeq(script[c], (k + 1) + 1, n) /\ k + 1 \in 0..n
    BY <1>2, <1>3, <2>1, <2>2, TailOfRest
  <2> QED BY <1>1, <2>3
<1> QED BY <1>1, <1>4, <1>5

\* A conversation is healthy in the next state as Sound has it there.
LEMMA SoundAlways == TypeOK => \A c \in Conns : Healthy(c) <=> Sound(c)
BY HealthyIs

LEMMA SoundNext == TypeOK' => \A c \in Conns : Healthy(c)' <=> Sound(c)'
<1>1. (TypeOK => \A c \in Conns : Healthy(c) <=> Sound(c))'
  BY SoundAlways, PTL
<1> QED BY <1>1

LEMMA HealthyWas ==
    ASSUME Copying, Copying', [Next]_vars, NEW c \in Conns, c \notin lost', Healthy(c)'
    PROVE  Healthy(c)
<1> USE DEF Copying, Owned, Counted
<1>1. script' = script /\ faulted \subseteq faulted' /\ Made(c) \in Nat
  <2>1. RowsIn(c) \in Seq(Nat)
    BY RowsInType
  <2> QED BY <2>1, OnlyPeersSend, LenProperties DEF Made
<1>2. Made(c)' = Made(c) \/ Made(c)' = Made(c) + 1
  <2>1. RowsGrow(c)
    BY RowsGrowStep
  <2> QED BY <2>1 DEF RowsGrow
<1>3. Sound(c)'
  BY SoundNext
<1>4. Sound(c)
  BY <1>1, <1>2, <1>3 DEF Sound
<1> QED BY <1>4, HealthyIs

LEMMA AllComesStep == ASSUME Copying, Copying', AllComes, [Next]_vars PROVE AllComes'
<1> SUFFICES ASSUME NEW c \in Conns, Healthy(c)', c \notin lost'
             PROVE  Expected(c)' = ToCome(c)' \o <<>>
  BY DEF AllComes
<1>1. Expected(c) = ToCome(c) \o <<>>
  BY HealthyWas, OnlyPeersSend DEF AllComes, Copying, Owned, Counted
<1>2. <<>> \in Seq(Cells)
  BY EmptySeq
<1>3. ASSUME Kept(c) PROVE Expected(c)' = ToCome(c)' \o <<>>
  BY <1>1, <1>2, <1>3 DEF Kept
<1>4. CASE Completion \/ Handler \/ OnTimer
  BY <1>3, <1>4, KeptStep
<1>5. CASE AcceptError \/ UNCHANGED vars
  BY <1>3, <1>5, OutsideInOrder
<1>6. CASE \E d \in Conns : PeerSend(d)
  BY <1>3, <1>6, PeerSendInOrder
<1>7. CASE \E d \in Conns : PeerReset(d)
  <2>1. PICK d \in Conns : PeerReset(d)
    BY <1>7
  <2>2. /\ UNCHANGED <<script, sessVars, ioVars, fileVars, wire[c], toSend[c]>>
    BY <2>1 DEF PeerReset, Copying, Owned, Counted, TypeOK
  <2>3. SameRows(c)
    BY <2>2, SameRowsIfUnchanged DEF fileVars
  <2>4. Stage(c)' = Stage(c) /\ Ahead(c)' = Ahead(c)
    BY <2>2 DEF Stage, Used, ioVars, Ahead, sessVars
  <2>5. Expected(c)' = Expected(c)
    BY <2>2, <2>3, <2>4, SameExpected DEF sessVars
  <2>6. ToCome(c)' = Ahead(c)' \o (wire'[c] \o Flow(toSend'[c]))
    BY DEF ToCome, Flow
  <2>7. ToCome(c)' = ToCome(c)
    BY <2>2, <2>4, <2>6 DEF ToCome
  <2> QED BY <1>1, <2>5, <2>7
<1> QED BY <1>4, <1>5, <1>6, <1>7 DEF Next, Environment

LEMMA StreamsStart == Init => Unsent /\ AllComes
<1> SUFFICES ASSUME Init PROVE Unsent /\ AllComes
  OBVIOUS
<1>1. TypeOK
  BY InitType
<1>2. ASSUME NEW c \in Conns
      PROVE  /\ toSend[c] = SubSeq(script[c], 0 + 1, Len(script[c])) /\ 0 \in 0..Len(script[c])
             /\ Expected(c) = ToCome(c) \o <<>>
  <2>1. /\ pc = "idle" /\ nOffset = 0 /\ toSend[c] = script[c] /\ wire[c] = <<>>
        /\ pBuffer[c] = <<>> /\ nFileSize[c] = 0 /\ DOMAIN items = {}
    BY DEF Init
  <2>2. script[c] \in Seq(Frame) /\ Len(script[c]) \in Nat /\ 0 + 1 = 1
    BY <1>1, FilesLeftAre
  <2>3. SubSeq(script[c], 1, Len(script[c])) = script[c]
    BY <2>2, SubSeqFull
  <2>4. Stage(c) = "idle" /\ Used(c) = 0 /\ ~Filling(c)
    BY <2>1 DEF Stage, Used, Filling, Busy
  <2>5. Made(c) = 0
    <3>1. Marks(c) = <<>>
      BY <2>1 DEF Marks
    <3>2. RowsIn(c) = <<>>
      BY <3>1, FlattenEmpty DEF RowsIn, Marks
    <3> QED BY <3>2, EmptySeq DEF Made
  <2>6. FilesLeft(c, 0) = Flow(SubSeq(script[c], 0 + 1, Len(script[c])))
    BY DEF FilesLeft
  <2>7. Expected(c) = Flow(script[c])
    BY <2>2, <2>3, <2>4, <2>5, <2>6 DEF Expected
  <2>8. Ahead(c) = <<>> /\ Flow(script[c]) \in Seq(Cells)
    BY <1>1, <2>1, <2>2, <2>4, AheadType, SubSeqFull, FlowType DEF Ahead
  <2>9. ToCome(c) = Flow(script[c])
    BY <2>1, <2>8, ConcatEmptySeq DEF ToCome
  <2> QED BY <2>1, <2>2, <2>3, <2>7, <2>8, <2>9, ConcatEmptySeq
<1> QED BY <1>2 DEF Unsent, AllComes

\* When all that was sent has been read, what is due is saved.
LEMMA DueIsSaved ==
    ASSUME Copying, Unsent, AllComes, pc = "idle", NEW c \in Conns, Healthy(c), wire[c] = <<>>,
           c \notin lost, NEW j \in WholeFrames(c), Due(c, j)
    PROVE  Len(Rows(c)) >= j /\ Rows(c)[j].nStatus
<1> USE DEF Copying, Owned, Counted
<1> DEFINE n == Len(script[c])
<1>1. /\ script[c] \in Seq(Frame) /\ n \in Nat
      /\ \A l \in 0..n : FilesLeft(c, l) \in Seq(Cells)
      /\ \A l \in 0..(n - 1) : script[c][l + 1] \in Frame
             /\ FilesLeft(c, l) = FrameCells(script[c][l + 1]) \o FilesLeft(c, l + 1)
  BY FilesLeftAre
<1>2. j \in 1..n /\ \A l \in 1..j : IsWhole(script[c][l])
  <2>1. j \in 1..n
    BY <1>1, LenProperties DEF WholeFrames
  <2> QED BY <1>1, <2>1, WholeIs
<1>3. PICK k \in 0..n : toSend[c] = SubSeq(script[c], k + 1, n)
  BY DEF Unsent
<1> DEFINE m == FilesLeft(c, k)
<1>4. Flow(toSend[c]) = m
  BY <1>3 DEF FilesLeft
<1>5. k \in 1..n /\ j \in 1..k /\ (j = k => script[c][j].nFileSize > 0)
  <2>1. Len(toSend[c]) = n - k
    BY <1>1, <1>3, CutSeq
  <2>2. n - Len(toSend[c]) = k
    BY <1>1, <2>1
  <2>3. j < k \/ (j = k /\ script[c][j].nFileSize > 0)
    BY <2>2 DEF Due
  <2> QED BY <1>1, <1>2, <2>3
<1>6. Expected(c) = Ahead(c) \o m
  <2>1. m \in Seq(Cells) /\ <<>> \o m = m /\ Ahead(c) \in Seq(Cells)
    BY <1>1, AheadType, ConcatEmptySeq
  <2>2. Ahead(c) \o m \in Seq(Cells)
    BY <2>1, ConcatProperties
  <2>3. Expected(c) = (Ahead(c) \o m) \o <<>>
    BY <1>4, <2>1 DEF AllComes, ToCome
  <2> HIDE DEF m
  <2> QED BY <2>2, <2>3, ConcatEmptySeq
<1>7. Len(m) < Len(FilesLeft(c, k - 1)) /\ Len(m) \in Nat
  <2>1. k - 1 \in 0..(n - 1) /\ (k - 1) + 1 = k
    BY <1>1, <1>5
  <2>2. script[c][k] \in Frame /\ FilesLeft(c, k - 1) = FrameCells(script[c][k]) \o m /\ m \in Seq(Cells)
    BY <1>1, <2>1
  <2> HIDE DEF m
  <2>3. /\ Len(FrameCells(script[c][k]) \o m) = script[c][k].sent + Len(m)
        /\ script[c][k].sent \in Nat \ {0} /\ Len(m) \in Nat
    BY <2>2, FrameLength
  <2>4. Len(FilesLeft(c, k - 1)) = script[c][k].sent + Len(m)
    BY <2>2, <2>3
  <2> QED BY <2>3, <2>4
<1>8. Core(c) /\ Drained(c) /\ Stage(c) = "idle" /\ m \in Seq(Cells)
  BY <1>1 DEF InOrder, Stage
<1>9. j <= Made(c) /\ (j = Made(c) => ~Filling(c))
  <2>1. \A l \in 1..j : IsWhole(script[c][l])
    BY <1>2
  <2>2. j = k => Len(m) <= Len(FilesLeft(c, k)) /\ script[c][j].nFileSize > 0
    BY <1>5, <1>7
  <2> HIDE DEF m
  <2> QED BY <1>5, <1>6, <1>7, <1>8, <2>1, <2>2, ServedSoFar
<1>10. Made(c) \in Nat /\ Len(Rows(c)) = Made(c)
  BY RowsAre DEF Made
<1>11. j \in 1..Made(c) /\ (j < Made(c) \/ ~Filling(c))
  BY <1>2, <1>9, <1>10
<1> QED BY <1>8, <1>9, <1>10, <1>11 DEF Core, RowsRight

(***************************************************************************)
(* ResidueAlways.  For any files, read sizes and interleavings: between    *)
(* two handlers a healthy session has consumed all it can, what it keeps   *)
(* is a file under way or the beginning of one header, and what was sent   *)
(* and read is saved (Parser, GetFile, CloseFile).                         *)
(***************************************************************************)
THEOREM ResidueAlways == Spec => []Residue
<1>1. Copying /\ Unsent /\ AllComes => Residue
  BY CopyingConsumes, DueIsSaved DEF Residue
<1>2. Copying /\ Unsent /\ AllComes /\ [Next]_vars => Copying' /\ Unsent' /\ AllComes'
  BY CopyingStep, UnsentStep, AllComesStep DEF Copying, Owned, Counted
<1> QED BY <1>1, <1>2, CopyingStart, StreamsStart, PTL DEF Spec
=============================================================================
