------------------------------ MODULE Transfer ------------------------------
(***************************************************************************)
(* The whole copy, from m_FileListtoSend to the dialog's list: the send    *)
(* threads of SendPool, the sessions of Session, and between each thread   *)
(* and its session a connection that carries what the thread's Send calls  *)
(* put on it, in order: what the sender's variable out says went out is    *)
(* what the receiver reads.  The sender may fail wherever SendPool lets    *)
(* it; the receiver's own failures (MaxFaults, MaxResets and MaxBadAccepts *)
(* of Session) are bounded to none here.                                   *)
(***************************************************************************)
EXTENDS SendPool, SequencesExt

CONSTANTS HeadCells, NameCells, MaxRead,   \* of Frames and Session
          PartCells                        \* of a header whose Send failed half-way

ASSUME TransferAssumption ==
    /\ HeadCells \in Nat \ {0} /\ NameCells \in Nat /\ MaxRead \in Nat \ {0}
    /\ PartCells \in 1..(HeadCells + NameCells)

VARIABLES wire, link, pBuffer, nFileSize, nSavedLength, pFileItem, FileSave, pc, cur, ec,
          nOffset, items, disk, m_vecFileTemp, m_vecFileList, m_nSavedFiles, m_nCounts,
          m_nClients, m_nExceptions, faulted, lost, badAccepts

\* The frame of an entry of out; the search has ended when the threads start.
FrameOf(h) == [file |-> h.file, nFileSize |-> h.nFileSize,
               sent |-> IF h.head = "part" THEN PartCells ELSE HeadCells + NameCells + h.sent,
               counts |-> [k \in {"Found", "Filter", "Decrypt"} |->
                              CASE k = "Found" -> NFiles [] k = "Filter" -> 0
                                [] k = "Decrypt" -> h.count]]

Script == [t \in Threads |-> [i \in DOMAIN out[t] |-> FrameOf(out[t][i])]]

\* The connection is closed by CSockClient's destructor, when its thread ends.
Still(t) == IF tpc[t] = "ended" THEN <<>> ELSE <<"more">>

Receiver == INSTANCE Session WITH
    Conns <- Threads, Scripts <- {}, MaxFaults <- 0, MaxResets <- 0, MaxBadAccepts <- 0,
    script <- Script, toSend <- [t \in Threads |-> Still(t)]

receiverVars == <<link, pBuffer, nFileSize, nSavedLength, pFileItem, FileSave, pc, cur, ec,
                  nOffset, items, disk, m_vecFileTemp, m_vecFileList, m_nSavedFiles, m_nCounts,
                  m_nClients, m_nExceptions, faulted, lost, badAccepts>>

\* The cells of the entries of out.
Stream(headers) ==
    FlattenSeq([i \in DOMAIN headers |-> Receiver!FrameCells(FrameOf(headers[i]))])

\* What a step of thread t put on its connection.
Added(t) == SubSeq(Stream(out'[t]), Len(Stream(out[t])) + 1, Len(Stream(out'[t])))

TransferInit ==
    /\ Init
    /\ wire = [t \in Threads |-> <<>>] /\ link = [t \in Threads |-> "pending"]
    /\ pBuffer = [t \in Threads |-> <<>>]
    /\ nFileSize = [t \in Threads |-> 0] /\ nSavedLength = [t \in Threads |-> 0]
    /\ pFileItem = [t \in Threads |-> 0] /\ FileSave = [t \in Threads |-> 0]
    /\ pc = "idle" /\ cur = (CHOOSE t \in Threads : TRUE) /\ ec = FALSE /\ nOffset = 0
    /\ items = <<>> /\ disk = <<>> /\ m_vecFileTemp = <<>> /\ m_vecFileList = <<>>
    /\ m_nSavedFiles = 0 /\ m_nCounts = [k \in Receiver!Counter |-> 0]
    /\ m_nClients = 0 /\ m_nExceptions = 0
    /\ faulted = {} /\ lost = {} /\ badAccepts = 0

Send ==
    /\ Next
    /\ wire' = [t \in Threads |-> IF out'[t] = out[t] THEN wire[t] ELSE wire[t] \o Added(t)]
    /\ UNCHANGED receiverVars

\* A connection can be accepted when the thread's Connect has made it.
Completion ==
    \E t \in Threads : \/ sock[t] = "up" /\ Receiver!Accept(t)
                       \/ Receiver!Read(t) \/ Receiver!ReadEnd(t)

Receive == UNCHANGED vars /\ (Completion \/ Receiver!Handler)

Shows == UNCHANGED vars /\ Receiver!OnTimer

TransferNext == Send \/ Receive \/ Shows

allVars == <<vars, wire, receiverVars>>

TransferSpec == TransferInit /\ [][TransferNext]_allVars

\* Each of the two programs goes on while it can.  SendPool's fairness, thread
\* by thread, implies the sender's part; no thread of it can loop for ever.
TransferFairness == WF_allVars(Send) /\ WF_allVars(Receive)

TransferFairSpec == TransferSpec /\ TransferFairness

-----------------------------------------------------------------------------
\* The first i entries of t's connection went out as announced.
Intact(t, i) ==
    \A j \in 1..i : out[t][j].head = "whole" /\ out[t][j].sent = out[t][j].nFileSize

RowsOf(t) == Receiver!RowsIn(t)

Saved(t, i) ==
    /\ i <= Len(RowsOf(t)) /\ items[RowsOf(t)[i]].nStatus
    /\ disk[RowsOf(t)[i]] = Receiver!Content(FrameOf(out[t][i]))

\* A connection on which no Send and no Read failed and no file was written to.
Undamaged(t) ==
    \A i \in DOMAIN out[t] : fate[out[t][i].file] # "failed" /\ out[t][i].file \notin MayChange

LastEmpty == {t \in Threads : out[t] # <<>> /\ Last(out[t]).nFileSize = 0}

\* SendFile answered true for entry i, and the receiver can tell that it is there.
Sent(t, i) ==
    /\ i <= Len(out[t]) /\ fate[out[t][i].file] = "sent" /\ Intact(t, i)
    /\ out[t][i].nFileSize > 0 \/ i < Len(out[t])

\* Up to its first failure a connection's rows are the files its thread sent, and a
\* true row has the content.
RowsAreSent ==
    \A t \in Threads : \A i \in DOMAIN RowsOf(t) :
        LET row == items[RowsOf(t)[i]]
        IN  /\ i <= Len(out[t]) /\ Intact(t, i - 1) =>
                  /\ row.frame = Receiver!HeaderOf(FrameOf(out[t][i]))
                  /\ row.nStatus /\ Intact(t, i) => Saved(t, i)
            /\ Undamaged(t) /\ row.nStatus => Intact(t, i) /\ Saved(t, i)

\* What SendFile answered true for is saved when all has been read.
SentIsSaved ==
    \A t \in Threads : wire[t] = <<>> /\ pc = "idle" =>
        \A i \in DOMAIN out[t] : Sent(t, i) => Saved(t, i)

(***************************************************************************)
(* SavedAsSent.  Up to its first failure a connection's rows are the files *)
(* its thread sent, in that order, and a row that is true has the whole    *)
(* content of its file: a failure changes no row of another connection and *)
(* none before it.  On a connection without a failed Send or Read, whose   *)
(* files nobody else writes, no row is true before the whole file has gone *)
(* out.  (Behind a failure a file can be filled up with the header of the  *)
(* next.)  And between two handlers, when all that was sent on a           *)
(* connection has been read, each file SendFile answered true for is saved *)
(* whole, if nothing before it failed and it is not an empty file that     *)
(* nothing follows.                                                        *)
(***************************************************************************)
SavedAsSent == RowsAreSent /\ SentIsSaved

(***************************************************************************)
(* NumbersAgree.  When Finished is set, all connections are served and     *)
(* nothing failed, the dialog has saved all files but the empty ones that  *)
(* came last on their connections; without such it shows as many files as  *)
(* were opened.                                                            *)
(***************************************************************************)
NumbersAgree ==
    finished /\ (\A t \in Threads : link[t] = "closed" /\ Intact(t, Len(out[t])))
             /\ (\A f \in Files : fate[f] = "sent") =>
        /\ m_nSavedFiles = NFiles - Cardinality(LastEmpty)
        /\ LastEmpty = {} => m_nCounts["Decrypt"] = m_nSendFiles

(***************************************************************************)
(* EndToEnd.  In the end each file SendFile answered true for is saved     *)
(* whole, without any further event, if nothing before it failed on its    *)
(* connection and it is not an empty file that nothing follows.            *)
(***************************************************************************)
EndToEnd == <>[](\A t \in Threads : \A i \in DOMAIN out[t] : Sent(t, i) => Saved(t, i))
=============================================================================
