------------------------------- MODULE Rerun -------------------------------
(***************************************************************************)
(* What one dialog shows over several copies.  OnBnClickedButtonInject     *)
(* resets the list and the numbers while sessions of the copy before may   *)
(* still be served: Finished says that the sender has put everything on    *)
(* its connections, not that the io thread has read it.  Three threads:    *)
(* the io thread (sessions), the UI thread (Inject, OnTimer, OnDestroy)    *)
(* and the worker Inject starts (ThreadSaveFile).                          *)
(*                                                                         *)
(* Here a session is what it does to the dialog; how it takes frames from  *)
(* its stream is the subject of Session.  The numbers are changed by the   *)
(* io thread in two accesses, a load and a store; the UI thread's resets   *)
(* take no lock and fall between them.  Definitions marked "Mistake" are   *)
(* ways the definition after them could have been written wrong.           *)
(***************************************************************************)
EXTENDS Integers, FiniteSets, SequencesExt

CONSTANTS Conns,      \* the connections senders make, in all copies
          FoundIn,    \* nFoundFiles in the headers of the n-th copy
          MaxFiles,   \* bound: files on one connection
          MaxBadAccepts,  \* bound: accepts that fail between two resets of m_nClients
          UINT_MAX    \* m_nClients is a UINT

MaxCopies == Len(FoundIn)  \* bound: clicks on Inject

ASSUME RerunAssumption ==
    /\ IsFiniteSet(Conns) /\ FoundIn \in Seq(Nat) /\ MaxFiles \in Nat
    /\ MaxBadAccepts \in Nat
    /\ UINT_MAX \in Nat /\ Cardinality(Conns) + MaxBadAccepts <= UINT_MAX

VARIABLES
    \* the senders and their connections
    copy,          \* the copies started so far
    copying,       \* the sender of the last one is at work
    m_hEventFinished,
    link,          \* "none" | "pending" | "open" | "closed"
    of,            \* the copy a connection belongs to
    files,         \* files on it the io thread has not come to
    filing,        \* pFileItem of a file under way, an index of items, or 0
    \* the io thread
    ioPc, cur,
    seen,          \* what it loaded and is about to store back
    \* the dialog
    items,         \* every FileItem ever made: its copy and nStatus
    m_vecFileTemp, m_vecFileList,
    m_vecFileSize, nItemCount,    \* OnTimer's size and the list control's
    m_nSavedFiles, m_nFoundFiles, m_nClients,
    enabled,       \* the buttons
    uiPc,          \* where the UI thread is in a handler
    vecTemp,       \* OnTimer's local
    \* the worker and the end
    m_bThreadSalveFile,
    worker,        \* "none" | "test" | "work" | "ended"
    joinable,      \* m_pThreadSaveFile is a thread nobody joined
    terminated,    \* std::terminate was called
    \* history
    cleared,       \* items Inject took from the list
    failed,        \* accepts that failed, counted since m_nClients was reset
    clean          \* nothing of an earlier copy was left when Inject began, and
                   \* no accept failed just while it reset m_nClients

sender  == <<copy, copying, m_hEventFinished, link, of, files>>
io      == <<filing, ioPc, cur, seen, items>>
lists   == <<m_vecFileTemp, m_vecFileList, m_vecFileSize, nItemCount, vecTemp, cleared>>
numbers == <<m_nSavedFiles, m_nFoundFiles, m_nClients, failed>>
threads == <<m_bThreadSalveFile, worker, joinable, terminated>>
vars == <<sender, io, lists, numbers, enabled, uiPc, threads, clean>>

Init ==
    /\ copy = 0 /\ copying = FALSE /\ m_hEventFinished = FALSE
    /\ link = [c \in Conns |-> "none"] /\ of = [c \in Conns |-> 0]
    /\ files = [c \in Conns |-> 0] /\ filing = [c \in Conns |-> 0]
    /\ ioPc = "idle" /\ cur \in Conns /\ seen = 0
    /\ items = <<>> /\ m_vecFileTemp = <<>> /\ m_vecFileList = <<>>
    /\ m_vecFileSize = 0 /\ nItemCount = 0 /\ vecTemp = <<>>
    /\ m_nSavedFiles = 0 /\ m_nFoundFiles = 0 /\ m_nClients = 0
    /\ enabled = TRUE /\ uiPc = "idle"
    /\ m_bThreadSalveFile = FALSE /\ worker = "none"
    /\ joinable = FALSE /\ terminated = FALSE
    /\ cleared = 0 /\ failed = 0 /\ clean = TRUE

-----------------------------------------------------------------------------
(* The sender of the current copy (SendThread and FindFiles; SendPool).    *)

Connect(c) ==
    /\ copying /\ link[c] = "none"
    /\ link' = [link EXCEPT ![c] = "pending"]
    /\ of' = [of EXCEPT ![c] = copy]
    /\ \E n \in 0..MaxFiles : files' = [files EXCEPT ![c] = n]
    /\ UNCHANGED <<copy, copying, m_hEventFinished, io, lists, numbers, enabled, uiPc,
                   threads, clean>>

\* FindFiles' SetEvent: every connection is made and all files are on the way.
SetFinished ==
    /\ copying /\ copying' = FALSE /\ m_hEventFinished' = TRUE
    /\ UNCHANGED <<copy, link, of, files, io, lists, numbers, enabled, uiPc, threads, clean>>

-----------------------------------------------------------------------------
(* The io thread, until OnDestroy's Stop has ended io_context::run.        *)

\* It begins a handler for c with a load of one of the dialog's numbers.
Load(c, number, next) ==
    /\ ioPc = "idle" /\ uiPc \notin {"stopping", "aborted", "ended"}
    /\ ioPc' = next /\ cur' = c /\ seen' = number
    /\ UNCHANGED <<sender, filing, items, lists, numbers, enabled, uiPc, threads, clean>>

\* do_accept's handler, do_read's on an error, GetFile on a header, CloseFile.
Accept(c)   == link[c] = "pending" /\ Load(c, m_nClients, "accept")
Gone(c)     == link[c] = "open" /\ Load(c, m_nClients, "gone")
Header(c)   == /\ link[c] = "open" /\ filing[c] = 0 /\ files[c] > 0
               /\ Load(c, m_nFoundFiles, "found")
FileDone(c) == link[c] = "open" /\ filing[c] # 0 /\ Load(c, m_nSavedFiles, "saved")

\* do_accept's handler with ec set: it counts before it looks at ec.
AcceptError == failed < MaxBadAccepts /\ Load(cur, m_nClients, "error")

IoLoad == AcceptError \/ \E c \in Conns : Accept(c) \/ Gone(c) \/ Header(c) \/ FileDone(c)

\* The store that follows leaves the UI thread's variables alone.
Stored == UNCHANGED <<cur, seen, copy, copying, m_hEventFinished, of, m_vecFileList, m_vecFileSize,
                      nItemCount, vecTemp, cleared, enabled, uiPc, threads, clean>>

UINT(n) == n % (UINT_MAX + 1)

\* m_nClients++ and --, under m_csClients, which only this thread takes.
OneMoreOrLess == UINT(IF ioPc = "gone" THEN seen - 1 ELSE seen + 1)

\* Without ec a session starts after the count, with it there is none.
StoreClients ==
    /\ ioPc \in {"accept", "error", "gone"} /\ ioPc' = "idle"
    /\ m_nClients' = OneMoreOrLess
    /\ link' = [link EXCEPT ![cur] = CASE ioPc = "accept" -> "open"
                                       [] ioPc = "error"  -> @
                                       [] ioPc = "gone"   -> "closed"]
    /\ failed' = IF ioPc = "error" THEN failed + 1 ELSE failed
    /\ UNCHANGED <<files, filing, items, m_vecFileTemp, m_nSavedFiles, m_nFoundFiles>>
    /\ Stored

\* Mistake: the count of the header parsed last.
LatestFound == FoundIn[of[cur]]

LargerFound == IF seen < FoundIn[of[cur]] THEN FoundIn[of[cur]] ELSE m_nFoundFiles

\* GetFile up to the comparison's store; the push_back is the next step.
StoreFound ==
    /\ ioPc = "found" /\ ioPc' = "row"
    /\ m_nFoundFiles' = LargerFound
    /\ UNCHANGED <<link, files, filing, items, m_vecFileTemp, m_nSavedFiles, m_nClients, failed>>
    /\ Stored

PushRow ==
    /\ ioPc = "row" /\ ioPc' = "idle"
    /\ items' = Append(items, [copy |-> of[cur], nStatus |-> FALSE])
    /\ m_vecFileTemp' = Append(m_vecFileTemp, Len(items) + 1)
    /\ filing' = [filing EXCEPT ![cur] = Len(items) + 1]
    /\ files' = [files EXCEPT ![cur] = @ - 1]
    /\ UNCHANGED <<link, numbers>>
    /\ Stored

\* CloseFile, the end of its section of m_csList.
StoreSaved ==
    /\ ioPc = "saved" /\ ioPc' = "idle"
    /\ m_nSavedFiles' = seen + 1
    /\ items' = [items EXCEPT ![filing[cur]].nStatus = TRUE]
    /\ filing' = [filing EXCEPT ![cur] = 0]
    /\ UNCHANGED <<link, files, m_vecFileTemp, m_nFoundFiles, m_nClients, failed>>
    /\ Stored

IoStep == StoreClients \/ StoreFound \/ PushRow \/ StoreSaved

-----------------------------------------------------------------------------
(* OnBnClickedButtonInject, each access that another thread can see.       *)

Goto(from, to) == uiPc = from /\ uiPc' = to

Left(c) == link[c] \in {"pending", "open"}

\* Mistake: the control keeps its count.
KeepItemCount == m_vecFileSize' = 0 /\ UNCHANGED nItemCount

NothingShown == m_vecFileSize' = 0 /\ nItemCount' = 0

ClearList ==
    /\ enabled /\ copy < MaxCopies /\ Goto("idle", "counts")
    /\ enabled' = FALSE
    /\ m_vecFileList' = <<>> /\ cleared' = cleared + Len(m_vecFileList)
    /\ m_nSavedFiles' = 0
    /\ NothingShown
    /\ clean' = (m_vecFileTemp = <<>> /\ \A c \in Conns : ~Left(c))
    /\ UNCHANGED <<sender, io, m_vecFileTemp, vecTemp, m_nFoundFiles, m_nClients, failed, threads>>

\* Mistake: the count of the copy before stays.
KeepFound == m_nFoundFiles

NoneFound == 0

ResetFound ==
    /\ Goto("counts", "clients") /\ m_nFoundFiles' = NoneFound
    /\ UNCHANGED <<sender, io, lists, m_nSavedFiles, m_nClients, failed, enabled, threads, clean>>

\* A failing accept that has loaded the count stores it back and undoes this.
ResetClients ==
    /\ Goto("clients", IF joinable THEN "join" ELSE "start")
    /\ m_nClients' = 0 /\ failed' = 0
    /\ m_bThreadSalveFile' = FALSE
    /\ clean' = (clean /\ ioPc # "error")
    /\ UNCHANGED <<sender, io, lists, m_nSavedFiles, m_nFoundFiles, enabled, worker, joinable,
                   terminated>>

\* Mistake: the worker is told to stop and not waited for.
NotJoined == UNCHANGED joinable

Joined == worker = "ended" /\ joinable' = FALSE

JoinWorker ==
    /\ Goto("join", "start") /\ Joined
    /\ UNCHANGED <<sender, io, lists, numbers, enabled, m_bThreadSalveFile, worker, terminated,
                   clean>>

\* make_shared<std::thread>: dropping a thread that was not joined ends the
\* program.  What follows starts the next sender (Handshake).
StartCopy ==
    /\ Goto("start", IF joinable THEN "aborted" ELSE "idle")
    /\ terminated' = joinable
    /\ m_bThreadSalveFile' = TRUE /\ worker' = "test" /\ joinable' = TRUE
    /\ copy' = copy + 1 /\ copying' = TRUE
    /\ UNCHANGED <<m_hEventFinished, link, of, files, io, lists, numbers, enabled, clean>>

(* OnTimer. *)

\* Its section of m_csList.
Swap ==
    /\ ioPc # "saved" /\ Goto("idle", "show")
    /\ vecTemp' = m_vecFileTemp /\ m_vecFileTemp' = <<>>
    /\ UNCHANGED <<sender, io, m_vecFileList, m_vecFileSize, nItemCount, cleared, numbers, enabled,
                   threads, clean>>

\* Mistake: the rows just taken come first.
InFront == vecTemp \o m_vecFileList

AtTheEnd == m_vecFileList \o vecTemp

Show ==
    /\ Goto("show", "idle")
    /\ m_vecFileList' = AtTheEnd /\ vecTemp' = <<>>
    /\ IF m_vecFileSize < Len(m_vecFileList')
       THEN m_vecFileSize' = Len(m_vecFileList') /\ nItemCount' = Len(m_vecFileList')
       ELSE UNCHANGED <<m_vecFileSize, nItemCount>>
    /\ enabled' = (enabled \/ m_hEventFinished)
    /\ m_hEventFinished' = FALSE
    /\ UNCHANGED <<copy, copying, link, of, files, io, m_vecFileTemp, cleared, numbers, threads,
                   clean>>

(* OnDestroy's Stop, which waits for the io thread, and ~CJokeDSEDlg. *)

Close ==
    /\ Goto("idle", "stopping")
    /\ UNCHANGED <<sender, io, lists, numbers, enabled, threads, clean>>

Destroy ==
    /\ ioPc = "idle" /\ Goto("stopping", "ended")
    /\ terminated' = joinable
    /\ UNCHANGED <<sender, io, lists, numbers, enabled, m_bThreadSalveFile, worker, joinable,
                   clean>>

InHandler == ResetFound \/ ResetClients \/ JoinWorker \/ StartCopy \/ Show \/ Destroy

-----------------------------------------------------------------------------
(* ThreadSaveFile.  Nobody else takes m_csListSession and m_listSession    *)
(* stays empty, so a round of its loop only passes time.                   *)

\* Mistake: the flag is not looked at again.
AlwaysWork == "work"

Verdict == IF m_bThreadSalveFile THEN "work" ELSE "ended"

Worker ==
    /\ uiPc \notin {"aborted", "ended"}
    /\ \/ worker = "test" /\ worker' = Verdict
       \/ worker = "work" /\ worker' = "test"
    /\ UNCHANGED <<sender, io, lists, numbers, enabled, uiPc, m_bThreadSalveFile, joinable,
                   terminated, clean>>

Next ==
    \/ \E c \in Conns : Connect(c)
    \/ SetFinished \/ IoLoad \/ IoStep \/ ClearList \/ Swap \/ Close \/ InHandler \/ Worker

Spec == Init /\ [][Next]_vars

\* Every thread goes on with what it has begun.
Fairness == WF_vars(IoStep) /\ WF_vars(InHandler) /\ WF_vars(Worker)

FairSpec == Spec /\ Fairness

-----------------------------------------------------------------------------
FlagsOK ==
    /\ copying \in BOOLEAN /\ m_hEventFinished \in BOOLEAN /\ enabled \in BOOLEAN
    /\ m_bThreadSalveFile \in BOOLEAN /\ joinable \in BOOLEAN /\ terminated \in BOOLEAN
    /\ clean \in BOOLEAN

ThreadsOK ==
    /\ ioPc \in {"idle", "accept", "error", "gone", "found", "row", "saved"}
    /\ uiPc \in {"idle", "counts", "clients", "join", "start", "show", "stopping", "aborted",
                 "ended"}
    /\ worker \in {"none", "test", "work", "ended"}

NumbersOK ==
    /\ copy \in 0..MaxCopies /\ cur \in Conns /\ seen \in Nat
    /\ link \in [Conns -> {"none", "pending", "open", "closed"}]
    /\ of \in [Conns -> 0..MaxCopies] /\ files \in [Conns -> 0..MaxFiles]
    /\ filing \in [Conns -> 0..Len(items)]
    /\ m_vecFileSize \in Nat /\ nItemCount \in Nat /\ cleared \in Nat
    /\ m_nSavedFiles \in Nat /\ m_nFoundFiles \in Nat /\ m_nClients \in 0..UINT_MAX
    /\ failed \in 0..MaxBadAccepts

RowsOK ==
    /\ items \in Seq([copy : 1..MaxCopies, nStatus : BOOLEAN])
    /\ m_vecFileTemp \in Seq(Nat) /\ m_vecFileList \in Seq(Nat) /\ vecTemp \in Seq(Nat)

TypeOK == FlagsOK /\ ThreadsOK /\ NumbersOK /\ RowsOK

(***************************************************************************)
(* ControlAgrees.  Between two handlers of the UI thread the list control  *)
(* has as many rows as m_vecFileList: OnLvnGetdispinfoListFile, which      *)
(* checks only for an empty list, is never asked for a row that is not     *)
(* there, and no row of the list is out of its reach.                      *)
(***************************************************************************)
ControlAgrees == uiPc = "idle" => nItemCount = Len(m_vecFileList)

(***************************************************************************)
(* RowsOnceSinceCleared.  The rows shown, taken and waiting are all items  *)
(* but those Inject cleared, each once and in the order they were made.    *)
(* Inject clears what OnTimer has moved and no more: the rest of the copy  *)
(* before appears in the list of the next.                                 *)
(***************************************************************************)
RowsOnceSinceCleared ==
    m_vecFileList \o vecTemp \o m_vecFileTemp = [i \in 1..(Len(items) - cleared) |-> cleared + i]

OfThisCopy == {i \in DOMAIN items : items[i].copy = copy}
SavedOfThisCopy == {i \in OfThisCopy : items[i].nStatus}

(***************************************************************************)
(* NeverTooFew.  Whatever still runs of the copies before, the numbers     *)
(* shown for the last copy are not below what its headers and its saved    *)
(* files amount to: an unlocked reset can be lost to a store of the io     *)
(* thread, but a store for this copy is never lost to a reset.             *)
(***************************************************************************)
NeverTooFew ==
    uiPc \in {"idle", "show"} =>
        /\ m_nSavedFiles >= Cardinality(SavedOfThisCopy)
        /\ OfThisCopy # {} => m_nFoundFiles >= FoundIn[copy]

Opened == {c \in Conns : link[c] = "open"}

(***************************************************************************)
(* CleanRerun.  If nothing was left of the earlier copies when Inject      *)
(* began, no session to serve and no row waiting, and no accept was        *)
(* failing while it reset the count of clients, then the dialog shows the  *)
(* new copy and nothing else: its rows, its saved files, its count, and as *)
(* clients its connections and the accepts that failed since the reset,    *)
(* which do_accept counts like them.                                       *)
(***************************************************************************)
CleanRerun ==
    clean /\ uiPc \in {"idle", "show"} /\ copy > 0 =>
        /\ m_nClients = Cardinality(Opened) + failed
        /\ m_nSavedFiles = Cardinality(SavedOfThisCopy)
        /\ m_nFoundFiles = IF OfThisCopy = {} /\ ioPc # "row" THEN 0 ELSE FoundIn[copy]
        /\ OfThisCopy = (cleared + 1)..Len(items)

(***************************************************************************)
(* EndOfDialog.  std::terminate is called nowhere but in ~CJokeDSEDlg, and *)
(* there whenever Inject was clicked before: nobody joins its last worker. *)
(***************************************************************************)
EndOfDialog ==
    /\ terminated => uiPc = "ended"
    /\ uiPc = "ended" => (terminated <=> copy > 0)

(***************************************************************************)
(* HandlersReturn.  Inject's wait for its worker and OnDestroy's for the   *)
(* io thread come to an end.                                               *)
(***************************************************************************)
HandlersReturn == uiPc # "idle" ~> uiPc \in {"idle", "ended"}
=============================================================================
