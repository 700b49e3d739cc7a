------------------------------ MODULE SendPool ------------------------------
(***************************************************************************)
(* The sending side of the copy: FindFiles, SendThread and SendFile of     *)
(* CJokeAssistApp.  FindFiles has filled m_FileListtoSend; it starts the   *)
(* send threads, waits for them and sets the Finished event.  Each thread  *)
(* has a connection of its own, takes files off the common list under      *)
(* m_csFileListtoSend and sends them one after the other.                  *)
(*                                                                         *)
(* A thread's program counter tpc moves from one access of shared state to *)
(* the next.  A TryLock that fails is a step that changes nothing (Sleep,  *)
(* continue), so it is not an action.                                      *)
(*                                                                         *)
(* Definitions marked "Mistake" are not part of Next.  Each is a way the   *)
(* definition after it could have been written wrong, and stands in for it *)
(* to confirm that a property tells the two apart.                         *)
(***************************************************************************)
EXTENDS Integers, Sequences, FiniteSets

CONSTANTS NFiles,         \* length of m_FileListtoSend when FindFiles starts the threads
          Size,           \* GetLength of each file, in packets of nPackSize
          MayChange,      \* the files another program may write while they are sent
          Threads,        \* the send threads (SendThreads = 8 in the code)
          BlockPackets,   \* nBufferSize / nPackSize
          MaxSendFails,   \* bound: Send calls that fail on a connected socket
          MaxReadFails,   \* bound: files that cannot be opened or read
          MaxBadConnects, \* bound: Connect calls that do not connect
          MaxBadSpawns    \* bound: _beginthreadex calls that return 0

Files == 1..NFiles

ASSUME SendPoolAssumption ==
    /\ NFiles \in Nat
    /\ Size \in [Files -> Nat]
    /\ MayChange \subseteq Files
    /\ IsFiniteSet(Threads) /\ Threads # {}
    /\ BlockPackets \in Nat \ {0}
    /\ {MaxSendFails, MaxReadFails, MaxBadConnects, MaxBadSpawns} \subseteq Nat

VARIABLES
    m_FileListtoSend, \* files nobody has taken, in the order they were found
    m_nSendFiles,     \* files opened so far, over all threads
    fpc,              \* FindFiles: "list" | "spawn" | "wait" | "set" | "done"
    finished,         \* hEventFinished is signalled
    tpc,              \* where each thread stands
    lock,             \* the threads inside m_csFileListtoSend
    pFile,            \* the file a thread works on, 0 for nullptr
    sock,             \* "none" | "up" | "bad": Connect's result
    toRead,           \* packets SendFile will still read
    inBuffer,         \* packets of the block in pBuffer not yet sent
    nCount,           \* m_nSendFiles as FilebufHeader copied it
    \* what went out, and what became of the files
    out,              \* per connection, the headers and how much followed each
    fate,             \* "queued" | "taken" | "sent" | "failed"
    fails             \* failures so far, for the bounds

threadVars == <<pFile, sock, toRead, inBuffer, nCount>>
vars == <<m_FileListtoSend, m_nSendFiles, fpc, finished, tpc, lock, threadVars,
          out, fate, fails>>

Failure == {"send", "read", "connect", "spawn"}

FailLimit(kind) == CASE kind = "send" -> MaxSendFails
                     [] kind = "read" -> MaxReadFails
                     [] kind = "connect" -> MaxBadConnects
                     [] kind = "spawn" -> MaxBadSpawns

Init ==
    /\ m_FileListtoSend = [i \in 1..NFiles |-> i]
    /\ m_nSendFiles = 0
    /\ fpc = "list" /\ finished = FALSE
    /\ tpc = [t \in Threads |-> "unborn"]
    /\ lock = {}
    /\ pFile = [t \in Threads |-> 0]
    /\ sock = [t \in Threads |-> "none"]
    /\ toRead = [t \in Threads |-> 0]
    /\ inBuffer = [t \in Threads |-> 0]
    /\ nCount = [t \in Threads |-> 0]
    /\ out = [t \in Threads |-> <<>>]
    /\ fate = [f \in Files |-> "queued"]
    /\ fails = [k \in Failure |-> 0]

Goto(t, from, to) == tpc[t] = from /\ tpc' = [tpc EXCEPT ![t] = to]

Fail(kind) ==
    /\ fails[kind] < FailLimit(kind)
    /\ fails' = [fails EXCEPT ![kind] = @ + 1]

-----------------------------------------------------------------------------
(* FindFiles. *)

\* An empty list needs no threads.
LookAtList ==
    /\ fpc = "list"
    /\ fpc' = IF m_FileListtoSend # <<>> THEN "spawn" ELSE "set"
    /\ UNCHANGED <<m_FileListtoSend, m_nSendFiles, finished, tpc, lock, threadVars,
                   out, fate, fails>>

\* One _beginthreadex; threads made before it are already running.
Spawn(t) ==
    /\ fpc = "spawn"
    /\ \/ Goto(t, "unborn", "connect") /\ UNCHANGED fails
       \/ Goto(t, "unborn", "nothread") /\ Fail("spawn")
    /\ UNCHANGED <<m_FileListtoSend, m_nSendFiles, fpc, finished, lock, threadVars,
                   out, fate>>

AllSpawned ==
    /\ fpc = "spawn" /\ \A t \in Threads : tpc[t] # "unborn"
    /\ fpc' = "wait"
    /\ UNCHANGED <<m_FileListtoSend, m_nSendFiles, finished, tpc, lock, threadVars,
                   out, fate, fails>>

\* Mistake: bWaitAll is FALSE, the first thread to end ends the wait.
FirstEnded == \E t \in Threads : tpc[t] \in {"ended", "nothread"}

\* WaitForMultipleObjects over all the handles: it returns when every thread
\* has ended, or at once with WAIT_FAILED if one of the handles is null.
WaitIsOver ==
    \/ \A t \in Threads : tpc[t] = "ended"
    \/ \E t \in Threads : tpc[t] = "nothread"

WaitReturns ==
    /\ fpc = "wait" /\ WaitIsOver
    /\ fpc' = "set"
    /\ UNCHANGED <<m_FileListtoSend, m_nSendFiles, finished, tpc, lock, threadVars,
                   out, fate, fails>>

SetFinished ==
    /\ fpc = "set" /\ fpc' = "done"
    /\ finished' = TRUE
    /\ UNCHANGED <<m_FileListtoSend, m_nSendFiles, tpc, lock, threadVars, out, fate, fails>>

-----------------------------------------------------------------------------
(* SendThread. *)

\* Connect gives up and the thread ends; or it connects; or it returns a
\* socket that is not connected, with no error code to tell.
Connect(t) ==
    /\ \/ /\ Goto(t, "connect", "loop")
          /\ sock' = [sock EXCEPT ![t] = "up"] /\ UNCHANGED fails
       \/ /\ Goto(t, "connect", "loop") /\ Fail("connect")
          /\ sock' = [sock EXCEPT ![t] = "bad"]
       \/ /\ Goto(t, "connect", "ended") /\ Fail("connect")
          /\ UNCHANGED sock
    /\ UNCHANGED <<m_FileListtoSend, m_nSendFiles, fpc, finished, lock, pFile, toRead,
                   inBuffer, nCount, out, fate>>

\* Mistake: TryLock's answer is not looked at.
LockIgnored == TRUE

LockIsFree == lock = {}

\* m_csFileListtoSend.TryLock() that succeeds.
TryLock(t) ==
    /\ Goto(t, "loop", "take")
    /\ LockIsFree /\ lock' = lock \cup {t}
    /\ UNCHANGED <<m_FileListtoSend, m_nSendFiles, fpc, finished, threadVars, out,
                   fate, fails>>

\* Under the lock: size() and front(), which leaves the file on the list,
TakeFront(t) ==
    /\ Goto(t, "take", IF m_FileListtoSend # <<>> THEN "pop" ELSE "unlock")
    /\ pFile' = [pFile EXCEPT ![t] = IF m_FileListtoSend # <<>>
                                     THEN Head(m_FileListtoSend) ELSE 0]
    /\ UNCHANGED <<m_FileListtoSend, m_nSendFiles, fpc, finished, lock, sock, toRead,
                   inBuffer, nCount, out, fate, fails>>

\* and then pop_front().
PopFront(t) ==
    /\ m_FileListtoSend # <<>>
    /\ Goto(t, "pop", "unlock")
    /\ m_FileListtoSend' = Tail(m_FileListtoSend)
    /\ fate' = [fate EXCEPT ![Head(m_FileListtoSend)] = "taken"]
    /\ UNCHANGED <<m_nSendFiles, fpc, finished, lock, threadVars, out, fails>>

\* Mistake: a thread that finds no file leaves the loop inside the lock.
LockForgotten(t) == IF pFile[t] = 0 THEN lock ELSE lock \ {t}

LockReleased(t) == lock \ {t}

Unlock(t) ==
    /\ Goto(t, "unlock", IF pFile[t] = 0 THEN "ended" ELSE "open")
    /\ lock' = LockReleased(t)
    /\ UNCHANGED <<m_FileListtoSend, m_nSendFiles, fpc, finished, threadVars, out,
                   fate, fails>>

\* SendFile returns; whatever it returns, the thread goes on with the next file.
Returns(t, result) ==
    /\ fate' = [fate EXCEPT ![pFile[t]] = result]
    /\ pFile' = [pFile EXCEPT ![t] = 0]
    /\ toRead' = [toRead EXCEPT ![t] = 0]
    /\ inBuffer' = [inBuffer EXCEPT ![t] = 0]

-----------------------------------------------------------------------------
(* SendFile. *)

\* PathFileExists says no, or opening the file throws.
OpenFails(t) ==
    /\ Goto(t, "open", "loop") /\ Fail("read")
    /\ Returns(t, "failed")
    /\ UNCHANGED <<m_FileListtoSend, m_nSendFiles, fpc, finished, lock, sock, nCount, out>>

\* The file is open and nFileSize known.  How much can be read later is up to
\* whoever may write the file in the meantime.
OpenFile(t) ==
    /\ Goto(t, "open", "count")
    /\ \E n \in (IF pFile[t] \in MayChange THEN 0..(Size[pFile[t]] + 1) ELSE {Size[pFile[t]]}) :
          toRead' = [toRead EXCEPT ![t] = n]
    /\ UNCHANGED <<m_FileListtoSend, m_nSendFiles, fpc, finished, lock, pFile, sock,
                   inBuffer, nCount, out, fate, fails>>

\* Mistake: the file is not counted.
NotCounted == m_nSendFiles

OneMoreFile == m_nSendFiles + 1

\* m_nSendFiles++ in its own critical section.
CountFile(t) ==
    /\ Goto(t, "count", "header")
    /\ m_nSendFiles' = OneMoreFile
    /\ UNCHANGED <<m_FileListtoSend, fpc, finished, lock, threadVars, out, fate, fails>>

\* Mistake: the count of the files before this one.
EarlierCount == m_nSendFiles - 1

HeaderCount == m_nSendFiles

\* The header copies m_nSendFiles in a second one.
BuildHeader(t) ==
    /\ Goto(t, "header", "sendheader")
    /\ nCount' = [nCount EXCEPT ![t] = HeaderCount]
    /\ UNCHANGED <<m_FileListtoSend, m_nSendFiles, fpc, finished, lock, pFile, sock,
                   toRead, inBuffer, out, fate, fails>>

\* Send fails: always on a socket that is not connected, and within the bound
\* on one that is (a time-out after SO_SNDTIMEO leaves it usable).
SendFails(t) ==
    \/ sock[t] = "bad" /\ UNCHANGED fails
    \/ sock[t] = "up" /\ Fail("send")

SendHeader(t) ==
    /\ Goto(t, "sendheader", "read") /\ sock[t] = "up"
    /\ out' = [out EXCEPT ![t] = Append(@, [file |-> pFile[t], head |-> "whole",
                    nFileSize |-> Size[pFile[t]], count |-> nCount[t], sent |-> 0])]
    /\ UNCHANGED <<m_FileListtoSend, m_nSendFiles, fpc, finished, lock, threadVars,
                   fate, fails>>

\* A header of which only a part went out, or nothing.
SendHeaderFails(t) ==
    /\ Goto(t, "sendheader", "loop") /\ SendFails(t)
    /\ \/ UNCHANGED out
       \/ /\ sock[t] = "up"
          /\ out' = [out EXCEPT ![t] = Append(@, [file |-> pFile[t], head |-> "part",
                    nFileSize |-> Size[pFile[t]], count |-> nCount[t], sent |-> 0])]
    /\ Returns(t, "failed")
    /\ UNCHANGED <<m_FileListtoSend, m_nSendFiles, fpc, finished, lock, sock, nCount>>

\* Mistake: one Read, without the loop around it.
NothingLeft(t, n) == 0

LeftToRead(t, n) == toRead[t] - n

\* fileRead.Read fills pBuffer; it returns 0 only at the end of the file.
ReadBlock(t) ==
    /\ toRead[t] # 0
    /\ Goto(t, "read", "send")
    /\ LET n == IF toRead[t] < BlockPackets THEN toRead[t] ELSE BlockPackets
       IN  /\ inBuffer' = [inBuffer EXCEPT ![t] = n]
           /\ toRead' = [toRead EXCEPT ![t] = LeftToRead(t, n)]
    /\ UNCHANGED <<m_FileListtoSend, m_nSendFiles, fpc, finished, lock, pFile, sock,
                   nCount, out, fate, fails>>

\* fileRead.Read throws: the connection is left in the middle of the file.
ReadThrows(t) ==
    /\ Goto(t, "read", "loop") /\ Fail("read")
    /\ Returns(t, "failed")
    /\ UNCHANGED <<m_FileListtoSend, m_nSendFiles, fpc, finished, lock, sock, nCount, out>>

EndOfFile(t) ==
    /\ toRead[t] = 0
    /\ Goto(t, "read", "loop")
    /\ Returns(t, "sent")
    /\ UNCHANGED <<m_FileListtoSend, m_nSendFiles, fpc, finished, lock, sock, nCount,
                   out, fails>>

\* Mistake: nOffset <= nReadBytes, one packet more than the block has.
BeyondLast(t) == inBuffer[t] = 0

LastPacket(t) == inBuffer[t] = 1

\* pClient->Send of up to nPackSize bytes of the block.
SendPacket(t) ==
    /\ Goto(t, "send", IF LastPacket(t) THEN "read" ELSE "send") /\ sock[t] = "up"
    /\ inBuffer' = [inBuffer EXCEPT ![t] = @ - 1]
    /\ out' = [out EXCEPT ![t][Len(out[t])].sent = @ + 1]
    /\ UNCHANGED <<m_FileListtoSend, m_nSendFiles, fpc, finished, lock, pFile, sock,
                   toRead, nCount, fate, fails>>

SendPacketFails(t) ==
    /\ Goto(t, "send", "loop") /\ SendFails(t)
    /\ Returns(t, "failed")
    /\ UNCHANGED <<m_FileListtoSend, m_nSendFiles, fpc, finished, lock, sock, nCount, out>>

-----------------------------------------------------------------------------
FindFiles == LookAtList \/ AllSpawned \/ WaitReturns \/ SetFinished
             \/ \E t \in Threads : Spawn(t)

SendThread(t) ==
    \/ Connect(t) \/ TryLock(t) \/ TakeFront(t) \/ PopFront(t) \/ Unlock(t)
    \/ OpenFails(t) \/ OpenFile(t) \/ CountFile(t) \/ BuildHeader(t)
    \/ SendHeader(t) \/ SendHeaderFails(t) \/ ReadBlock(t) \/ ReadThrows(t)
    \/ EndOfFile(t) \/ SendPacket(t) \/ SendPacketFails(t)

Next == FindFiles \/ \E t \in Threads : SendThread(t)

Spec == Init /\ [][Next]_vars

\* The scheduler runs every thread that can move; Send and Read return, at the
\* latest with the time-out the socket was given.
Fairness == WF_vars(FindFiles) /\ \A t \in Threads : WF_vars(SendThread(t))

FairSpec == Spec /\ Fairness

-----------------------------------------------------------------------------
(* Properties. *)

ThreadPC == {"unborn", "nothread", "connect", "loop", "take", "pop", "unlock", "open",
             "count", "header", "sendheader", "read", "send", "ended"}

Header == [file : Files, head : {"whole", "part"}, nFileSize : Nat, count : Nat, sent : Nat]

TypeOK ==
    /\ m_FileListtoSend \in Seq(Files)
    /\ m_nSendFiles \in Nat
    /\ fpc \in {"list", "spawn", "wait", "set", "done"}
    /\ finished \in BOOLEAN
    /\ tpc \in [Threads -> ThreadPC]
    /\ lock \subseteq Threads
    /\ pFile \in [Threads -> Files \cup {0}]
    /\ sock \in [Threads -> {"none", "up", "bad"}]
    /\ toRead \in [Threads -> Nat]
    /\ inBuffer \in [Threads -> Nat]
    /\ nCount \in [Threads -> Nat]
    /\ out \in [Threads -> Seq(Header)]
    /\ fate \in [Files -> {"queued", "taken", "sent", "failed"}]
    /\ fails \in [Failure -> Nat]

(***************************************************************************)
(* OneOwner.  A file is in one place only: still on the list, once; or in  *)
(* the hands of one thread; or done with.  No two threads send the same    *)
(* file, and none is dropped between pop_front and SendFile.  Only between *)
(* front() and pop_front() is a thread's file on the list as well.         *)
(***************************************************************************)
OneOwner ==
    /\ \A i, j \in DOMAIN m_FileListtoSend :
          m_FileListtoSend[i] = m_FileListtoSend[j] => i = j
    /\ \A t, u \in Threads : pFile[t] = pFile[u] /\ t # u => pFile[t] = 0
    /\ \A f \in Files :
          /\ fate[f] = "queued" <=> \E i \in DOMAIN m_FileListtoSend : m_FileListtoSend[i] = f
          /\ fate[f] = "taken"  <=> \E t \in Threads : pFile[t] = f /\ tpc[t] # "pop"

(***************************************************************************)
(* FinishedIsQuiet.  When the Finished event is set no thread is left, no  *)
(* file is in anybody's hands, and none is on the list unless no thread    *)
(* ever got a socket; provided every _beginthreadex succeeded.             *)
(***************************************************************************)
FinishedIsQuiet ==
    finished /\ (\A t \in Threads : tpc[t] # "nothread") =>
        /\ \A t \in Threads : tpc[t] \in {"unborn", "ended"} /\ pFile[t] = 0
        /\ \A f \in Files : fate[f] # "taken"
        /\ m_FileListtoSend # <<>> => \A t \in Threads : sock[t] = "none"

(***************************************************************************)
(* WaitsForAll.  "All send threads must be waited for until they end"      *)
(* (the comment above WaitForMultipleObjects in FindFiles).                *)
(***************************************************************************)
WaitsForAll == finished => \A t \in Threads : tpc[t] \in {"unborn", "nothread", "ended"}

(***************************************************************************)
(* CountsIncrease.  m_nSendFiles is read again after it was raised, so two *)
(* connections can carry the same count and none is carried by nobody; but *)
(* on one connection the counts strictly increase, and no header runs      *)
(* ahead of the files opened.                                              *)
(***************************************************************************)
CountsIncrease ==
    \A t \in Threads : \A i \in DOMAIN out[t] :
        /\ out[t][i].count <= m_nSendFiles
        /\ \A j \in 1..(i - 1) : out[t][j].count < out[t][i].count

(***************************************************************************)
(* LastCountArrives.  When all threads have ended and no header was lost,  *)
(* the largest count any header carries is the number of files opened: the *)
(* maximum the dialog keeps ends up right.                                 *)
(***************************************************************************)
LastCountArrives ==
    finished /\ fails["send"] = 0 /\ m_nSendFiles > 0
             /\ (\A t \in Threads : tpc[t] # "nothread" /\ sock[t] # "bad") =>
        \E t \in Threads : \E i \in DOMAIN out[t] : out[t][i].count = m_nSendFiles

(***************************************************************************)
(* SentIsWhole.  A file SendFile answered true for, and nobody else wrote, *)
(* has gone out once, on one connection, its header whole and followed by  *)
(* as much as it announced; a file still being sent is the last one of its *)
(* thread's connection.                                                    *)
(***************************************************************************)
SentIsWhole ==
    /\ \A t, u \in Threads : \A i \in DOMAIN out[t], j \in DOMAIN out[u] :
          out[t][i].file = out[u][j].file => t = u /\ i = j
    /\ \A t \in Threads : \A i \in DOMAIN out[t] :
          fate[out[t][i].file] = "taken" => pFile[t] = out[t][i].file /\ i = Len(out[t])
    /\ \A f \in Files : fate[f] = "sent" =>
          \E t \in Threads : \E i \in DOMAIN out[t] :
              /\ out[t][i].file = f /\ out[t][i].head = "whole"
              /\ f \notin MayChange => out[t][i].sent = out[t][i].nFileSize

(***************************************************************************)
(* FinishedComes.  FindFiles sets Finished in the end: every thread runs   *)
(* out of files or of luck, TryLock or not.                                *)
(***************************************************************************)
FinishedComes == <>finished
=============================================================================
