--------------------------- MODULE SendPoolProofs ---------------------------
(***************************************************************************)
(* Proofs about SendPool for any number of files and send threads.         *)
(***************************************************************************)
EXTENDS SendPool, TLAPS

-----------------------------------------------------------------------------
(* The type invariant.  It is not inductive as it stands: a header is made *)
(* for the file in a thread's hands and a packet is taken from its buffer, *)
(* so there must be such a file and such a packet.                         *)

Idle == {"unborn", "nothread", "connect", "loop", "take", "ended"}
Busy == {"pop", "open", "count", "header", "sendheader", "read", "send"}

AtWork ==
    \A t \in Threads :
        /\ tpc[t] \in Idle => pFile[t] = 0
        /\ tpc[t] \in Busy => pFile[t] \in Files
        /\ tpc[t] = "send" => inBuffer[t] > 0
        /\ tpc[t] \in {"read", "send"} => out[t] # <<>>

\* The record SendHeader and SendHeaderFails put on the connection.
NewHeader(t, head) ==
    [file |-> pFile[t], head |-> head, nFileSize |-> Size[pFile[t]],
     count |-> nCount[t], sent |-> 0]

\* It is well typed when a header is about to be sent.
LEMMA NewHeaderType ==
    ASSUME TypeOK, AtWork, NEW t \in Threads, tpc[t] = "sendheader",
           NEW head \in {"whole", "part"}
    PROVE  NewHeader(t, head) \in Header
<1>1. pFile[t] \in Files
  BY DEF AtWork, Busy
<1>2. Size[pFile[t]] \in Nat
  BY <1>1, SendPoolAssumption
<1> QED BY <1>1, <1>2 DEF NewHeader, Header, TypeOK

\* A thread that moves to a known place leaves tpc well typed.
LEMMA GotoType ==
    ASSUME TypeOK, NEW t \in Threads, NEW from, NEW to \in ThreadPC, Goto(t, from, to)
    PROVE  tpc' \in [Threads -> ThreadPC]
BY DEF TypeOK, Goto

\* Counting a failure leaves fails well typed.
LEMMA FailType ==
    ASSUME TypeOK, NEW kind \in Failure, Fail(kind)
    PROVE  fails' \in [Failure -> Nat]
BY DEF TypeOK, Fail

\* SendFile's return leaves what it clears well typed.
LEMMA ReturnsType ==
    ASSUME TypeOK, NEW t \in Threads, NEW result \in {"sent", "failed"}, Returns(t, result)
    PROVE  /\ fate' \in [Files -> {"queued", "taken", "sent", "failed"}]
           /\ pFile' \in [Threads -> Files \cup {0}]
           /\ toRead' \in [Threads -> Nat]
           /\ inBuffer' \in [Threads -> Nat]
BY DEF TypeOK, Returns

\* Initially every variable is in its set.
LEMMA InitType == Init => TypeOK
<1> SUFFICES ASSUME Init PROVE TypeOK
  OBVIOUS
<1>1. NFiles \in Nat
  BY SendPoolAssumption
<1>2. m_FileListtoSend \in Seq(Files)
  BY <1>1 DEF Init, Files
<1>3. out \in [Threads -> Seq(Header)]
  BY DEF Init
<1> QED
  BY <1>2, <1>3 DEF Init, TypeOK, ThreadPC

\* The steps that lead to SendFile.
LEMMA TakeType ==
    ASSUME TypeOK, NEW t \in Threads,
           Connect(t) \/ TryLock(t) \/ TakeFront(t) \/ PopFront(t) \/ Unlock(t)
    PROVE  TypeOK'
<1>1. CASE Connect(t)
  <2>1. tpc' \in [Threads -> ThreadPC]
    BY <1>1, GotoType DEF Connect, ThreadPC
  <2>2. fails' \in [Failure -> Nat]
    BY <1>1, FailType DEF Connect, Failure, TypeOK
  <2>3. sock' \in [Threads -> {"none", "up", "bad"}]
    BY <1>1 DEF Connect, TypeOK
  <2> QED BY <1>1, <2>1, <2>2, <2>3 DEF Connect, TypeOK
<1>2. CASE TryLock(t)
  <2>1. tpc' \in [Threads -> ThreadPC]
    BY <1>2, GotoType DEF TryLock, ThreadPC
  <2> QED BY <1>2, <2>1 DEF TryLock, LockIsFree, TypeOK, threadVars
<1>3. CASE TakeFront(t)
  <2>1. tpc' \in [Threads -> ThreadPC]
    BY <1>3, GotoType DEF TakeFront, ThreadPC
  <2>2. m_FileListtoSend # <<>> => Head(m_FileListtoSend) \in Files
    BY DEF TypeOK
  <2>3. pFile' \in [Threads -> Files \cup {0}]
    BY <1>3, <2>2 DEF TakeFront, TypeOK
  <2> QED BY <1>3, <2>1, <2>3 DEF TakeFront, TypeOK
<1>4. CASE PopFront(t)
  <2>1. tpc' \in [Threads -> ThreadPC]
    BY <1>4, GotoType DEF PopFront, ThreadPC
  <2>2. m_FileListtoSend' \in Seq(Files) /\ Head(m_FileListtoSend) \in Files
    BY <1>4 DEF PopFront, TypeOK
  <2>3. fate' \in [Files -> {"queued", "taken", "sent", "failed"}]
    BY <1>4, <2>2 DEF PopFront, TypeOK
  <2> QED BY <1>4, <2>1, <2>2, <2>3 DEF PopFront, TypeOK, threadVars
<1>5. CASE Unlock(t)
  <2>1. tpc' \in [Threads -> ThreadPC]
    BY <1>5, GotoType DEF Unlock, ThreadPC
  <2> QED BY <1>5, <2>1 DEF Unlock, LockReleased, TypeOK, threadVars
<1> QED BY <1>1, <1>2, <1>3, <1>4, <1>5

\* The steps by which SendFile gives up or ends.
LEMMA ReturnType ==
    ASSUME TypeOK, AtWork, NEW t \in Threads,
           \/ OpenFails(t) \/ SendHeaderFails(t) \/ ReadThrows(t)
           \/ EndOfFile(t) \/ SendPacketFails(t)
    PROVE  TypeOK'
<1>1. tpc' \in [Threads -> ThreadPC]
  BY GotoType DEF OpenFails, SendHeaderFails, ReadThrows, EndOfFile, SendPacketFails, ThreadPC
<1>2. \E result \in {"sent", "failed"} : Returns(t, result)
  BY DEF OpenFails, SendHeaderFails, ReadThrows, EndOfFile, SendPacketFails
<1>3. fails' \in [Failure -> Nat]
  BY FailType DEF OpenFails, SendHeaderFails, ReadThrows, EndOfFile, SendPacketFails,
                  SendFails, Failure, TypeOK
<1>4. out' \in [Threads -> Seq(Header)]
  <2>1. CASE SendHeaderFails(t) /\ out' # out
    <3>1. tpc[t] = "sendheader"
      BY <2>1 DEF SendHeaderFails, Goto
    <3>2. NewHeader(t, "part") \in Header
      BY <3>1, NewHeaderType
    <3>3. out' = [out EXCEPT ![t] = Append(@, NewHeader(t, "part"))]
      BY <2>1 DEF SendHeaderFails, NewHeader
    <3> QED BY <3>2, <3>3 DEF TypeOK
  <2>2. CASE out' = out
    BY <2>2 DEF TypeOK
  <2> QED BY <2>1, <2>2 DEF OpenFails, SendHeaderFails, ReadThrows, EndOfFile, SendPacketFails
<1> QED
  BY <1>1, <1>2, <1>3, <1>4, ReturnsType
  DEF OpenFails, SendHeaderFails, ReadThrows, EndOfFile, SendPacketFails, TypeOK

\* The steps of SendFile that do not end it.
LEMMA SendType ==
    ASSUME TypeOK, AtWork, NEW t \in Threads,
           \/ OpenFile(t) \/ CountFile(t) \/ BuildHeader(t) \/ SendHeader(t)
           \/ ReadBlock(t) \/ SendPacket(t)
    PROVE  TypeOK'
<1>1. tpc' \in [Threads -> ThreadPC]
  BY GotoType DEF OpenFile, CountFile, BuildHeader, SendHeader, ReadBlock, SendPacket, ThreadPC
<1>2. CASE OpenFile(t)
  <2>1. pFile[t] \in Files /\ Size[pFile[t]] \in Nat
    BY <1>2, SendPoolAssumption DEF OpenFile, Goto, AtWork, Busy
  <2>2. toRead' \in [Threads -> Nat]
    BY <1>2, <2>1 DEF OpenFile, TypeOK
  <2> QED BY <1>1, <1>2, <2>2 DEF OpenFile, TypeOK
<1>3. CASE CountFile(t)
  BY <1>1, <1>3 DEF CountFile, OneMoreFile, TypeOK, threadVars
<1>4. CASE BuildHeader(t)
  BY <1>1, <1>4 DEF BuildHeader, HeaderCount, TypeOK
<1>5. CASE SendHeader(t)
  <2>1. NewHeader(t, "whole") \in Header
    BY <1>5, NewHeaderType DEF SendHeader, Goto
  <2>2. out' = [out EXCEPT ![t] = Append(@, NewHeader(t, "whole"))]
    BY <1>5 DEF SendHeader, NewHeader
  <2>3. out' \in [Threads -> Seq(Header)]
    BY <2>1, <2>2 DEF TypeOK
  <2> QED BY <1>1, <1>5, <2>3 DEF SendHeader, TypeOK, threadVars
<1>6. CASE ReadBlock(t)
  <2>1. toRead' \in [Threads -> Nat] /\ inBuffer' \in [Threads -> Nat]
    BY <1>6, SendPoolAssumption DEF ReadBlock, LeftToRead, TypeOK
  <2> QED BY <1>1, <1>6, <2>1 DEF ReadBlock, TypeOK
<1>7. CASE SendPacket(t)
  <2>1. inBuffer' \in [Threads -> Nat]
    BY <1>7 DEF SendPacket, LastPacket, Goto, AtWork, TypeOK
  <2>2. out' \in [Threads -> Seq(Header)]
    <3>1. out[t] \in Seq(Header) /\ out[t] # <<>>
      BY <1>7 DEF SendPacket, LastPacket, Goto, AtWork, TypeOK
    <3>2. Len(out[t]) \in 1..Len(out[t]) /\ out[t][Len(out[t])] \in Header
      BY <3>1
    <3> DEFINE h == [out[t][Len(out[t])] EXCEPT !.sent = @ + 1]
    <3>3. h \in Header
      BY <3>2 DEF Header
    <3>4. out' = [out EXCEPT ![t] = [@ EXCEPT ![Len(out[t])] = h]]
      BY <1>7, <3>1 DEF SendPacket, TypeOK
    <3> HIDE DEF h
    <3>5. [out[t] EXCEPT ![Len(out[t])] = h] \in Seq(Header)
      BY <3>1, <3>3
    <3> QED BY <3>4, <3>5 DEF TypeOK
  <2> QED BY <1>1, <1>7, <2>1, <2>2 DEF SendPacket, TypeOK
<1> QED BY <1>2, <1>3, <1>4, <1>5, <1>6, <1>7

\* FindFiles' steps.
LEMMA FindFilesType == ASSUME TypeOK, FindFiles PROVE TypeOK'
<1>1. CASE \E t \in Threads : Spawn(t)
  <2>1. PICK t \in Threads : Spawn(t)
    BY <1>1
  <2>2. tpc' \in [Threads -> ThreadPC]
    BY <2>1, GotoType DEF Spawn, ThreadPC
  <2>3. fails' \in [Failure -> Nat]
    BY <2>1, FailType DEF Spawn, Failure, TypeOK
  <2> QED BY <2>1, <2>2, <2>3 DEF Spawn, TypeOK, threadVars
<1>2. CASE LookAtList
  BY <1>2 DEF LookAtList, TypeOK, threadVars
<1>3. CASE AllSpawned
  BY <1>3 DEF AllSpawned, TypeOK, threadVars
<1>4. CASE WaitReturns
  BY <1>4 DEF WaitReturns, TypeOK, threadVars
<1>5. CASE SetFinished
  BY <1>5 DEF SetFinished, TypeOK, threadVars
<1> QED BY <1>1, <1>2, <1>3, <1>4, <1>5 DEF FindFiles

\* No step leaves a thread at work without its file, packet or header.
LEMMA AtWorkStep == ASSUME TypeOK, AtWork, [Next]_vars PROVE AtWork'
<1>1. ASSUME FindFiles PROVE AtWork'
  <2>1. CASE \E t \in Threads : Spawn(t)
    BY <2>1 DEF Spawn, Goto, AtWork, TypeOK, Idle, Busy, threadVars
  <2>2. CASE UNCHANGED <<tpc, pFile, inBuffer, out>>
    BY <2>2 DEF AtWork
  <2> QED BY <1>1, <2>1, <2>2
          DEF FindFiles, LookAtList, AllSpawned, WaitReturns, SetFinished, threadVars
<1>2. ASSUME NEW t \in Threads, SendThread(t) PROVE AtWork'
  <2> SUFFICES ASSUME NEW u \in Threads
               PROVE  /\ tpc'[u] \in Idle => pFile'[u] = 0
                      /\ tpc'[u] \in Busy => pFile'[u] \in Files
                      /\ tpc'[u] = "send" => inBuffer'[u] > 0
                      /\ tpc'[u] \in {"read", "send"} => out'[u] # <<>>
    BY DEF AtWork
  <2>0. /\ tpc[u] \in Idle => pFile[u] = 0
        /\ tpc[u] \in Busy => pFile[u] \in Files
        /\ tpc[u] = "send" => inBuffer[u] > 0
        /\ tpc[u] \in {"read", "send"} => out[u] # <<>>
    BY DEF AtWork
  <2>1. CASE Connect(t)
    BY <2>0, <2>1 DEF Connect, Goto, TypeOK, Idle, Busy
  <2>2. CASE TryLock(t)
    BY <2>0, <2>2 DEF TryLock, Goto, TypeOK, Idle, Busy, threadVars
  <2>3. CASE TakeFront(t)
    <3>1. m_FileListtoSend # <<>> => Head(m_FileListtoSend) \in Files
      BY DEF TypeOK
    <3> QED BY <2>0, <2>3, <3>1 DEF TakeFront, Goto, TypeOK, Idle, Busy
  <2>4. CASE PopFront(t)
    BY <2>0, <2>4 DEF PopFront, Goto, TypeOK, Idle, Busy, threadVars
  <2>5. CASE Unlock(t)
    BY <2>0, <2>5 DEF Unlock, Goto, TypeOK, Idle, Busy, threadVars
  <2>6. CASE \/ OpenFails(t) \/ SendHeaderFails(t) \/ ReadThrows(t)
             \/ EndOfFile(t) \/ SendPacketFails(t)
    <3>1. /\ tpc' = [tpc EXCEPT ![t] = "loop"]
          /\ pFile' = [pFile EXCEPT ![t] = 0]
          /\ inBuffer' = [inBuffer EXCEPT ![t] = 0]
      BY <2>6 DEF OpenFails, SendHeaderFails, ReadThrows, EndOfFile, SendPacketFails,
                  Goto, Returns
    <3>2. u # t => out'[u] = out[u]
      BY <2>6 DEF OpenFails, SendHeaderFails, ReadThrows, EndOfFile, SendPacketFails, TypeOK
    <3> QED BY <2>0, <3>1, <3>2 DEF TypeOK, Idle, Busy
  <2>7. CASE OpenFile(t)
    BY <2>0, <2>7 DEF OpenFile, Goto, TypeOK, Idle, Busy
  <2>8. CASE CountFile(t)
    BY <2>0, <2>8 DEF CountFile, Goto, TypeOK, Idle, Busy, threadVars
  <2>9. CASE BuildHeader(t)
    BY <2>0, <2>9 DEF BuildHeader, Goto, TypeOK, Idle, Busy
  <2>10. CASE SendHeader(t)
    <3>1. /\ tpc' = [tpc EXCEPT ![t] = "read"]
          /\ out' = [out EXCEPT ![t] = Append(@, NewHeader(t, "whole"))]
          /\ tpc[t] = "sendheader"
      BY <2>10 DEF SendHeader, Goto, NewHeader
    <3>2. out[t] \in Seq(Header) /\ NewHeader(t, "whole") \in Header
      BY <3>1, NewHeaderType DEF TypeOK
    <3>3. Append(out[t], NewHeader(t, "whole")) # <<>>
      BY <3>2
    <3> QED BY <2>0, <2>10, <3>1, <3>3 DEF SendHeader, TypeOK, Idle, Busy, threadVars
  <2>11. CASE ReadBlock(t)
    <3>1. inBuffer'[t] > 0 /\ out' = out /\ pFile' = pFile
      BY <2>11, SendPoolAssumption DEF ReadBlock, TypeOK
    <3>2. u # t => inBuffer'[u] = inBuffer[u]
      BY <2>11 DEF ReadBlock, TypeOK
    <3>3. tpc[t] = "read" /\ tpc' = [tpc EXCEPT ![t] = "send"]
      BY <2>11 DEF ReadBlock, Goto
    <3> QED BY <2>0, <3>1, <3>2, <3>3 DEF TypeOK, Idle, Busy
  <2>12. CASE SendPacket(t)
    <3>1. /\ tpc' = [tpc EXCEPT ![t] = IF inBuffer[t] = 1 THEN "read" ELSE "send"]
          /\ tpc[t] = "send" /\ pFile' = pFile
          /\ inBuffer' = [inBuffer EXCEPT ![t] = @ - 1]
      BY <2>12 DEF SendPacket, LastPacket, Goto
    <3>2. out'[u] # <<>> <=> out[u] # <<>>
      <4>1. out[u] \in Seq(Header) /\ out'[u] \in Seq(Header)
        BY <2>12, SendType DEF TypeOK
      <4>2. DOMAIN out'[u] = DOMAIN out[u]
        BY <2>12 DEF SendPacket, TypeOK
      <4>3. Len(out'[u]) = Len(out[u])
        BY <4>1, <4>2
      <4> QED BY <4>1, <4>3
    <3> QED BY <2>0, <3>1, <3>2 DEF TypeOK, Idle, Busy, AtWork
  <2> QED
    BY <1>2, <2>1, <2>2, <2>3, <2>4, <2>5, <2>6, <2>7, <2>8, <2>9, <2>10, <2>11, <2>12
    DEF SendThread
<1>3. CASE UNCHANGED vars
  BY <1>3 DEF vars, threadVars, AtWork
<1> QED BY <1>1, <1>2, <1>3 DEF Next

\* TypeOK, with what it needs, is inductive.
LEMMA TypedStep == ASSUME TypeOK, AtWork, [Next]_vars PROVE TypeOK' /\ AtWork'
<1>1. CASE FindFiles
  BY <1>1, FindFilesType, AtWorkStep
<1>2. ASSUME NEW t \in Threads, SendThread(t) PROVE TypeOK'
  BY <1>2, TakeType, ReturnType, SendType DEF SendThread
<1>3. CASE UNCHANGED vars
  BY <1>3, AtWorkStep DEF vars, threadVars, TypeOK
<1> QED BY <1>1, <1>2, <1>3, AtWorkStep DEF Next

\* Initially no thread is at work.
LEMMA InitTyped == Init => TypeOK /\ AtWork
BY InitType DEF Init, AtWork, Idle, Busy

(***************************************************************************)
(* The invariant that carries the type invariant.                          *)
(***************************************************************************)
LEMMA Typed == Spec => [](TypeOK /\ AtWork)
BY InitTyped, TypedStep, PTL DEF Spec

(***************************************************************************)
(* Every variable stays in its set, for any number of files and threads.   *)
(***************************************************************************)
THEOREM TypeCorrect == Spec => []TypeOK
BY Typed, PTL

-----------------------------------------------------------------------------
(* OneOwner.  What makes it inductive is the lock: between front() and     *)
(* pop_front() the file is on the list and in a thread's hands, and no     *)
(* other thread may look at the list meanwhile.                            *)

Locked == {"take", "pop", "unlock"}

LockHeld ==
    /\ \A t \in Threads : tpc[t] \in Locked <=> t \in lock
    /\ \A t, u \in lock : t = u

FrontHeld ==
    \A t \in Threads : tpc[t] = "pop" =>
        m_FileListtoSend # <<>> /\ pFile[t] = Head(m_FileListtoSend)

Owned == TypeOK /\ AtWork /\ LockHeld /\ FrontHeld /\ OneOwner

\* Only TryLock and Unlock move a thread into or out of the lock.
LEMMA LockStep == ASSUME TypeOK, LockHeld, [Next]_vars PROVE LockHeld'
<1>0. ASSUME NEW t \in Threads, NEW from, NEW to, Goto(t, from, to), lock' = lock,
             from \in Locked <=> to \in Locked
      PROVE  LockHeld'
  BY <1>0 DEF Goto, LockHeld, TypeOK
<1>1. ASSUME NEW t \in Threads, SendThread(t) PROVE LockHeld'
  <2>1. CASE TryLock(t)
    BY <2>1 DEF TryLock, LockIsFree, Goto, LockHeld, Locked, TypeOK
  <2>2. CASE Unlock(t)
    <3>1. tpc[t] = "unlock" /\ lock = {t}
      BY <2>2 DEF Unlock, LockReleased, Goto, LockHeld, Locked, TypeOK
    <3>2. tpc' = [tpc EXCEPT ![t] = IF pFile[t] = 0 THEN "ended" ELSE "open"] /\ lock' = {}
      BY <2>2, <3>1 DEF Unlock, LockReleased, Goto
    <3> QED BY <3>1, <3>2 DEF LockHeld, Locked, TypeOK
  <2>3. CASE Connect(t)
    BY <2>3, <1>0 DEF Connect, Locked
  <2>4. CASE TakeFront(t)
    BY <2>4, <1>0 DEF TakeFront, Locked
  <2>5. CASE PopFront(t)
    BY <2>5, <1>0 DEF PopFront, Locked
  <2>6. CASE \/ OpenFails(t) \/ SendHeaderFails(t) \/ ReadThrows(t)
             \/ EndOfFile(t) \/ SendPacketFails(t)
    BY <2>6, <1>0 DEF OpenFails, SendHeaderFails, ReadThrows, EndOfFile, SendPacketFails, Locked
  <2>7. CASE OpenFile(t) \/ CountFile(t) \/ BuildHeader(t)
    BY <2>7, <1>0 DEF OpenFile, CountFile, BuildHeader, Locked
  <2>8. CASE SendHeader(t) \/ ReadBlock(t) \/ SendPacket(t)
    BY <2>8, <1>0 DEF SendHeader, ReadBlock, SendPacket, Locked
  <2> QED
    BY <1>1, <2>1, <2>2, <2>3, <2>4, <2>5, <2>6, <2>7, <2>8 DEF SendThread
<1>2. ASSUME NEW t \in Threads, Spawn(t) PROVE LockHeld'
  BY <1>0, <1>2 DEF Spawn, Locked
<1>3. CASE UNCHANGED <<tpc, lock>>
  BY <1>3 DEF LockHeld
<1> QED
  BY <1>1, <1>2, <1>3
  DEF Next, FindFiles, LookAtList, AllSpawned, WaitReturns, SetFinished, vars

\* front(): the file a thread sees first is in nobody else's hands.
LEMMA TakeFrontOwner ==
    ASSUME Owned, NEW t \in Threads, TakeFront(t)
    PROVE  OneOwner' /\ FrontHeld'
<1>0. /\ tpc[t] = "take" /\ tpc' = [tpc EXCEPT ![t] = IF m_FileListtoSend # <<>>
                                                      THEN "pop" ELSE "unlock"]
      /\ pFile' = [pFile EXCEPT ![t] = IF m_FileListtoSend # <<>>
                                       THEN Head(m_FileListtoSend) ELSE 0]
      /\ m_FileListtoSend' = m_FileListtoSend /\ fate' = fate
  BY DEF TakeFront, Goto
<1>1. pFile[t] = 0
  BY <1>0 DEF Owned, AtWork, Idle
<1>2. \A u \in Threads : u # t => tpc[u] # "pop"
  BY <1>0 DEF Owned, LockHeld, Locked
<1>3. m_FileListtoSend # <<>> =>
        /\ Head(m_FileListtoSend) \in Files
        /\ fate[Head(m_FileListtoSend)] = "queued"
        /\ \A u \in Threads : u # t => pFile[u] # Head(m_FileListtoSend)
  <2> SUFFICES ASSUME m_FileListtoSend # <<>>
               PROVE  /\ Head(m_FileListtoSend) \in Files
                      /\ fate[Head(m_FileListtoSend)] = "queued"
                      /\ \A u \in Threads : u # t => pFile[u] # Head(m_FileListtoSend)
    OBVIOUS
  <2>1. /\ 1 \in DOMAIN m_FileListtoSend /\ Head(m_FileListtoSend) = m_FileListtoSend[1]
        /\ Head(m_FileListtoSend) \in Files
    BY DEF Owned, TypeOK
  <2>2. fate[Head(m_FileListtoSend)] = "queued"
    BY <2>1 DEF Owned, OneOwner
  <2> QED BY <1>2, <2>1, <2>2 DEF Owned, OneOwner
<1>4. FrontHeld'
  BY <1>0, <1>2 DEF Owned, FrontHeld, TypeOK
<1>5. \A u, v \in Threads : pFile'[u] = pFile'[v] /\ u # v => pFile'[u] = 0
  BY <1>0, <1>3 DEF Owned, OneOwner, TypeOK
<1>6. \A f \in Files : fate[f] = "taken" <=> \E u \in Threads : pFile'[u] = f /\ tpc'[u] # "pop"
  <2> TAKE f \in Files
  <2>1. f # 0
    BY SendPoolAssumption DEF Files
  <2>2. \A u \in Threads : (pFile'[u] = f /\ tpc'[u] # "pop") <=> (pFile[u] = f /\ tpc[u] # "pop")
    BY <1>0, <1>1, <2>1 DEF Owned, TypeOK
  <2> QED BY <2>2 DEF Owned, OneOwner
<1> QED BY <1>0, <1>4, <1>5, <1>6 DEF Owned, OneOwner

\* pop_front(): the file leaves the list and is this thread's.
LEMMA PopFrontOwner ==
    ASSUME Owned, NEW t \in Threads, PopFront(t)
    PROVE  OneOwner' /\ FrontHeld'
<1> DEFINE f1 == Head(m_FileListtoSend)
<1>0. /\ m_FileListtoSend # <<>> /\ m_FileListtoSend \in Seq(Files)
      /\ tpc[t] = "pop" /\ tpc' = [tpc EXCEPT ![t] = "unlock"]
      /\ m_FileListtoSend' = Tail(m_FileListtoSend)
      /\ fate' = [fate EXCEPT ![f1] = "taken"] /\ pFile' = pFile
      /\ pFile[t] = f1
  BY DEF PopFront, Goto, threadVars, Owned, FrontHeld, TypeOK
<1>1. /\ f1 = m_FileListtoSend[1] /\ f1 \in Files
      /\ DOMAIN m_FileListtoSend = 1..Len(m_FileListtoSend) /\ Len(m_FileListtoSend) \in Nat
      /\ Len(m_FileListtoSend) > 0
  BY <1>0
<1>2. /\ DOMAIN Tail(m_FileListtoSend) = 1..(Len(m_FileListtoSend) - 1)
      /\ \A i \in 1..(Len(m_FileListtoSend) - 1) :
            Tail(m_FileListtoSend)[i] = m_FileListtoSend[i + 1]
  BY <1>0
<1>3. \A i, j \in 1..Len(m_FileListtoSend) :
         m_FileListtoSend[i] = m_FileListtoSend[j] => i = j
  BY <1>1 DEF Owned, OneOwner
<1>4. \A u \in Threads : u # t => tpc[u] # "pop"
  BY <1>0 DEF Owned, LockHeld, Locked
<1>5. FrontHeld'
  BY <1>0, <1>4 DEF Owned, FrontHeld, TypeOK
<1>6. \A i, j \in DOMAIN m_FileListtoSend' : m_FileListtoSend'[i] = m_FileListtoSend'[j] => i = j
  <2> HIDE DEF f1
  <2> TAKE i, j \in DOMAIN m_FileListtoSend'
  <2>1. i \in 1..(Len(m_FileListtoSend) - 1) /\ j \in 1..(Len(m_FileListtoSend) - 1)
    BY <1>0, <1>2
  <2>2. i + 1 \in 1..Len(m_FileListtoSend) /\ j + 1 \in 1..Len(m_FileListtoSend)
    BY <2>1, <1>1
  <2> QED BY <1>0, <1>2, <1>3, <2>1, <2>2
<1>7. \A f \in Files : (\E i \in DOMAIN m_FileListtoSend' : m_FileListtoSend'[i] = f)
                       <=> f # f1 /\ \E i \in DOMAIN m_FileListtoSend : m_FileListtoSend[i] = f
  <2> HIDE DEF f1
  <2> TAKE f \in Files
  <2>1. ASSUME NEW i \in DOMAIN m_FileListtoSend', m_FileListtoSend'[i] = f
        PROVE  f # f1 /\ \E k \in DOMAIN m_FileListtoSend : m_FileListtoSend[k] = f
    <3>1. i + 1 \in 1..Len(m_FileListtoSend) /\ i + 1 # 1 /\ 1 \in 1..Len(m_FileListtoSend)
      BY <1>0, <1>1, <1>2, <2>1
    <3>2. m_FileListtoSend[i + 1] = f
      BY <1>0, <1>2, <2>1
    <3> QED BY <1>1, <1>3, <3>1, <3>2
  <2>2. ASSUME f # f1, NEW k \in DOMAIN m_FileListtoSend, m_FileListtoSend[k] = f
        PROVE  \E i \in DOMAIN m_FileListtoSend' : m_FileListtoSend'[i] = f
    <3>1. k \in 1..Len(m_FileListtoSend) /\ k # 1
      BY <1>1, <2>2
    <3>2. k - 1 \in 1..(Len(m_FileListtoSend) - 1) /\ (k - 1) + 1 = k
      BY <1>1, <3>1
    <3>3. m_FileListtoSend'[k - 1] = f /\ k - 1 \in DOMAIN m_FileListtoSend'
      BY <1>0, <1>2, <2>2, <3>2
    <3> QED BY <3>3
  <2> QED BY <2>1, <2>2
<1>8. \A f \in Files : fate'[f] = "queued" <=> \E i \in DOMAIN m_FileListtoSend' : m_FileListtoSend'[i] = f
  <2>1. \A f \in Files : fate'[f] = IF f = f1 THEN "taken" ELSE fate[f]
    BY <1>0, <1>1 DEF Owned, TypeOK
  <2> QED BY <1>7, <2>1 DEF Owned, OneOwner
<1>9. \A f \in Files : fate'[f] = "taken" <=> \E u \in Threads : pFile'[u] = f /\ tpc'[u] # "pop"
  <2> TAKE f \in Files
  <2>1. fate'[f] = IF f = f1 THEN "taken" ELSE fate[f]
    BY <1>0, <1>1 DEF Owned, TypeOK
  <2>2. CASE f = f1
    BY <1>0, <2>1, <2>2 DEF Owned, TypeOK
  <2>3. CASE f # f1
    <3>1. \A u \in Threads : (pFile'[u] = f /\ tpc'[u] # "pop") <=> (pFile[u] = f /\ tpc[u] # "pop")
      BY <1>0, <2>3 DEF Owned, TypeOK
    <3> QED BY <2>1, <2>3, <3>1 DEF Owned, OneOwner
  <2> QED BY <2>2, <2>3
<1> QED BY <1>0, <1>5, <1>6, <1>8, <1>9 DEF Owned, OneOwner

\* SendFile returns: the file is done with and in nobody's hands.
LEMMA ReturnOwner ==
    ASSUME Owned, NEW t \in Threads,
           \/ OpenFails(t) \/ SendHeaderFails(t) \/ ReadThrows(t)
           \/ EndOfFile(t) \/ SendPacketFails(t)
    PROVE  OneOwner' /\ FrontHeld'
<1>0. PICK result \in {"sent", "failed"} : Returns(t, result)
  BY DEF OpenFails, SendHeaderFails, ReadThrows, EndOfFile, SendPacketFails
<1>1. /\ tpc[t] \in {"open", "sendheader", "read", "send"}
      /\ tpc' = [tpc EXCEPT ![t] = "loop"]
      /\ m_FileListtoSend' = m_FileListtoSend
      /\ fate' = [fate EXCEPT ![pFile[t]] = result]
      /\ pFile' = [pFile EXCEPT ![t] = 0]
  BY <1>0 DEF OpenFails, SendHeaderFails, ReadThrows, EndOfFile, SendPacketFails,
              Goto, Returns
<1>2. pFile[t] \in Files /\ pFile[t] # 0 /\ fate[pFile[t]] = "taken"
  BY <1>1, SendPoolAssumption DEF Owned, AtWork, Busy, OneOwner, Files
<1>3. \A u \in Threads : u # t => pFile[u] # pFile[t]
  BY <1>2 DEF Owned, OneOwner
<1>4. FrontHeld'
  BY <1>1 DEF Owned, FrontHeld, TypeOK
<1>5. \A f \in Files : fate'[f] = IF f = pFile[t] THEN result ELSE fate[f]
  BY <1>1, <1>2 DEF Owned, TypeOK
<1>6. \A f \in Files : fate'[f] = "queued" <=> \E i \in DOMAIN m_FileListtoSend : m_FileListtoSend[i] = f
  BY <1>2, <1>5 DEF Owned, OneOwner
<1>7. \A f \in Files : fate'[f] = "taken" <=> \E u \in Threads : pFile'[u] = f /\ tpc'[u] # "pop"
  <2> TAKE f \in Files
  <2>1. f # 0
    BY SendPoolAssumption DEF Files
  <2>2. CASE f = pFile[t]
    BY <1>1, <1>3, <1>5, <2>1, <2>2 DEF Owned, TypeOK
  <2>3. CASE f # pFile[t]
    <3>1. \A u \in Threads : (pFile'[u] = f /\ tpc'[u] # "pop") <=> (pFile[u] = f /\ tpc[u] # "pop")
      BY <1>1, <2>1, <2>3 DEF Owned, TypeOK
    <3> QED BY <1>5, <2>3, <3>1 DEF Owned, OneOwner
  <2> QED BY <2>2, <2>3
<1>8. \A u, v \in Threads : pFile'[u] = pFile'[v] /\ u # v => pFile'[u] = 0
  BY <1>1 DEF Owned, OneOwner, TypeOK
<1> QED BY <1>1, <1>4, <1>6, <1>7, <1>8 DEF Owned, OneOwner

\* A thread that moves on without touching the list or its file keeps all.
LEMMA MoveOwner ==
    ASSUME Owned, NEW t \in Threads, NEW from, NEW to, Goto(t, from, to),
           from # "pop", to # "pop",
           UNCHANGED <<m_FileListtoSend, pFile, fate>>
    PROVE  OneOwner' /\ FrontHeld'
<1>1. \A u \in Threads : tpc'[u] = "pop" <=> tpc[u] = "pop"
  BY DEF Owned, Goto, TypeOK
<1> QED BY <1>1 DEF Owned, OneOwner, FrontHeld

\* All of them keep OneOwner and what it needs.
LEMMA OwnedStep == ASSUME Owned, [Next]_vars PROVE Owned'
<1>1. TypeOK' /\ AtWork' /\ LockHeld'
  BY TypedStep, LockStep DEF Owned
<1>2. ASSUME NEW t \in Threads, SendThread(t) PROVE OneOwner' /\ FrontHeld'
  <2>1. CASE TakeFront(t)
    BY <2>1, TakeFrontOwner
  <2>2. CASE PopFront(t)
    BY <2>2, PopFrontOwner
  <2>3. CASE \/ OpenFails(t) \/ SendHeaderFails(t) \/ ReadThrows(t)
             \/ EndOfFile(t) \/ SendPacketFails(t)
    BY <2>3, ReturnOwner
  <2>4. CASE Connect(t)
    BY <2>4, MoveOwner DEF Connect
  <2>5. CASE TryLock(t) \/ Unlock(t)
    BY <2>5, MoveOwner DEF TryLock, Unlock, threadVars
  <2>6. CASE OpenFile(t) \/ CountFile(t) \/ BuildHeader(t)
    BY <2>6, MoveOwner DEF OpenFile, CountFile, BuildHeader, threadVars
  <2>7. CASE SendHeader(t) \/ ReadBlock(t) \/ SendPacket(t)
    BY <2>7, MoveOwner DEF SendHeader, ReadBlock, SendPacket, threadVars
  <2> QED BY <1>2, <2>1, <2>2, <2>3, <2>4, <2>5, <2>6, <2>7 DEF SendThread
<1>3. ASSUME NEW t \in Threads, Spawn(t) PROVE OneOwner' /\ FrontHeld'
  <2>1. Goto(t, "unborn", "connect") \/ Goto(t, "unborn", "nothread")
    BY <1>3 DEF Spawn
  <2>2. UNCHANGED <<m_FileListtoSend, pFile, fate>>
    BY <1>3 DEF Spawn, threadVars
  <2> QED BY <2>1, <2>2, MoveOwner
<1>4. ASSUME UNCHANGED <<tpc, m_FileListtoSend, pFile, fate>> PROVE OneOwner' /\ FrontHeld'
  <2>1. OneOwner'
    BY <1>4 DEF Owned, OneOwner
  <2>2. FrontHeld'
    BY <1>4 DEF Owned, FrontHeld
  <2> QED BY <2>1, <2>2
<1>5. OneOwner' /\ FrontHeld'
  BY <1>2, <1>3, <1>4
  DEF Next, FindFiles, LookAtList, AllSpawned, WaitReturns, SetFinished, vars, threadVars
<1> QED BY <1>1, <1>5 DEF Owned

\* Initially all files are on the list, each once.
LEMMA InitOwned == Init => Owned
<1> SUFFICES ASSUME Init PROVE Owned
  OBVIOUS
<1>1. NFiles \in Nat
  BY SendPoolAssumption
<1>2. OneOwner
  <2>1. DOMAIN m_FileListtoSend = Files /\ \A i \in Files : m_FileListtoSend[i] = i
    BY DEF Init, Files
  <2>2. \A f \in Files : f # 0 /\ fate[f] = "queued"
    BY <1>1 DEF Init, Files
  <2>3. \A t \in Threads : pFile[t] = 0
    BY DEF Init
  <2> QED BY <2>1, <2>2, <2>3 DEF OneOwner
<1>3. LockHeld /\ FrontHeld
  BY DEF Init, LockHeld, FrontHeld, Locked
<1> QED BY <1>2, <1>3, InitTyped DEF Owned

(***************************************************************************)
(* No two threads ever send the same file and none is lost between the     *)
(* list and SendFile: for any number of files and threads.                 *)
(***************************************************************************)
THEOREM OneOwnerAlways == Spec => []OneOwner
<1>1. Owned => OneOwner
  BY DEF Owned
<1> QED BY <1>1, InitOwned, OwnedStep, PTL DEF Spec

-----------------------------------------------------------------------------
(* FinishedIsQuiet.  A thread that has connected ends only where it found  *)
(* the list empty, and the list never grows; a handle that is null stays.  *)

NoThreadMissing == \A t \in Threads : tpc[t] # "nothread"

AllAreOver == \A t \in Threads : tpc[t] \in {"unborn", "ended"}

PoolEnds ==
    /\ fpc = "list" => \A t \in Threads : tpc[t] = "unborn"
    /\ fpc \in {"set", "done"} /\ NoThreadMissing => AllAreOver
    /\ finished => fpc = "done"

ThreadsEnd ==
    \A t \in Threads :
        /\ tpc[t] \in {"unborn", "nothread", "connect"} => sock[t] = "none"
        /\ tpc[t] = "unlock" /\ pFile[t] = 0 => m_FileListtoSend = <<>>
        /\ tpc[t] = "ended" /\ sock[t] # "none" => m_FileListtoSend = <<>>

LEMMA PoolEndsStep == ASSUME TypeOK, PoolEnds, [Next]_vars PROVE PoolEnds'
<1>1. CASE LookAtList
  BY <1>1 DEF LookAtList, PoolEnds, NoThreadMissing, AllAreOver
<1>2. CASE AllSpawned
  BY <1>2 DEF AllSpawned, PoolEnds
<1>3. CASE WaitReturns
  BY <1>3 DEF WaitReturns, WaitIsOver, PoolEnds, NoThreadMissing, AllAreOver
<1>4. CASE SetFinished
  BY <1>4 DEF SetFinished, PoolEnds, NoThreadMissing, AllAreOver
<1>5. ASSUME NEW t \in Threads, Spawn(t) PROVE PoolEnds'
  BY <1>5 DEF Spawn, PoolEnds
<1>6. ASSUME NEW t \in Threads, SendThread(t) PROVE PoolEnds'
  <2>1. fpc' = fpc /\ finished' = finished
    BY <1>6 DEF SendThread, Connect, TryLock, TakeFront, PopFront, Unlock, OpenFails, OpenFile,
       CountFile, BuildHeader, SendHeader, SendHeaderFails, ReadBlock, ReadThrows, EndOfFile,
       SendPacket, SendPacketFails
  <2>2. PICK from, to : Goto(t, from, to) /\ from \notin {"unborn", "nothread", "ended"}
    BY <1>6 DEF SendThread, Connect, TryLock, TakeFront, PopFront, Unlock, OpenFails, OpenFile,
       CountFile, BuildHeader, SendHeader, SendHeaderFails, ReadBlock, ReadThrows, EndOfFile,
       SendPacket, SendPacketFails
  <2>3. tpc[t] \notin {"unborn", "nothread", "ended"} /\ ~AllAreOver
    BY <2>2 DEF Goto, AllAreOver
  <2>4. NoThreadMissing' => NoThreadMissing
    BY <2>2, <2>3 DEF Goto, TypeOK, NoThreadMissing
  <2> QED BY <2>1, <2>3, <2>4 DEF PoolEnds
<1>7. CASE UNCHANGED vars
  BY <1>7 DEF vars, PoolEnds, NoThreadMissing, AllAreOver
<1> QED BY <1>1, <1>2, <1>3, <1>4, <1>5, <1>6, <1>7 DEF Next, FindFiles

\* What a step of a thread leaves as it was for another.
LEMMA OtherThread ==
    ASSUME TypeOK, NEW t \in Threads, NEW u \in Threads, u # t, SendThread(t) \/ Spawn(t)
    PROVE  /\ tpc'[u] = tpc[u] /\ sock'[u] = sock[u] /\ pFile'[u] = pFile[u]
           /\ out'[u] = out[u] /\ nCount'[u] = nCount[u]
<1> USE DEF TypeOK, Goto, Returns, threadVars
<1>1. CASE Spawn(t)
  BY <1>1 DEF Spawn
<1>2. CASE Connect(t) \/ TryLock(t) \/ TakeFront(t)
  BY <1>2 DEF Connect, TryLock, TakeFront
<1>3. CASE PopFront(t) \/ Unlock(t) \/ OpenFails(t) \/ OpenFile(t)
  BY <1>3 DEF PopFront, Unlock, OpenFails, OpenFile
<1>4. CASE CountFile(t) \/ BuildHeader(t) \/ SendHeader(t)
  BY <1>4 DEF CountFile, BuildHeader, SendHeader
<1>5. CASE SendHeaderFails(t) \/ ReadBlock(t) \/ ReadThrows(t)
  BY <1>5 DEF SendHeaderFails, ReadBlock, ReadThrows
<1>6. CASE EndOfFile(t) \/ SendPacket(t) \/ SendPacketFails(t)
  BY <1>6 DEF EndOfFile, SendPacket, SendPacketFails
<1> QED BY <1>1, <1>2, <1>3, <1>4, <1>5, <1>6 DEF SendThread

LEMMA ListShrinks ==
    ASSUME TypeOK, [Next]_vars
    PROVE  m_FileListtoSend = <<>> => m_FileListtoSend' = <<>>
BY DEF Next, FindFiles, LookAtList, AllSpawned, WaitReturns, SetFinished, Spawn,
   SendThread, Connect, TryLock, TakeFront, PopFront, Unlock, OpenFails, OpenFile,
   CountFile, BuildHeader, SendHeader, SendHeaderFails, ReadBlock, ReadThrows, EndOfFile,
   SendPacket, SendPacketFails, vars

LEMMA ThreadsEndStep == ASSUME TypeOK, AtWork, ThreadsEnd, [Next]_vars PROVE ThreadsEnd'
<1>0. m_FileListtoSend = <<>> => m_FileListtoSend' = <<>>
  BY ListShrinks
<1>1. ASSUME NEW t \in Threads, SendThread(t) \/ Spawn(t) PROVE ThreadsEnd'
  <2>1. ASSUME NEW u \in Threads, u # t
        PROVE  /\ tpc'[u] \in {"unborn", "nothread", "connect"} => sock'[u] = "none"
               /\ tpc'[u] = "unlock" /\ pFile'[u] = 0 => m_FileListtoSend' = <<>>
               /\ tpc'[u] = "ended" /\ sock'[u] # "none" => m_FileListtoSend' = <<>>
    BY <1>0, <1>1, <2>1, OtherThread DEF ThreadsEnd
  <2>2. /\ tpc'[t] \in {"unborn", "nothread", "connect"} => sock'[t] = "none"
        /\ tpc'[t] = "unlock" /\ pFile'[t] = 0 => m_FileListtoSend' = <<>>
        /\ tpc'[t] = "ended" /\ sock'[t] # "none" => m_FileListtoSend' = <<>>
    <3> USE DEF Goto, TypeOK, threadVars
    <3>1. CASE Spawn(t)
      BY <3>1 DEF Spawn, ThreadsEnd
    <3>2. CASE Connect(t)
      BY <3>2 DEF Connect, ThreadsEnd
    <3>3. CASE TakeFront(t)
      BY <3>3 DEF TakeFront, ThreadsEnd
    <3>4. CASE PopFront(t)
      <4>1. pFile[t] # 0
        BY <3>4, SendPoolAssumption DEF PopFront, AtWork, Busy, Files
      <4> QED BY <3>4, <4>1 DEF PopFront
    <3>5. CASE Unlock(t)
      BY <3>5 DEF Unlock, ThreadsEnd
    <3>6. CASE \/ TryLock(t) \/ OpenFails(t) \/ OpenFile(t) \/ CountFile(t) \/ BuildHeader(t)
               \/ SendHeader(t) \/ SendHeaderFails(t) \/ ReadBlock(t) \/ ReadThrows(t)
               \/ EndOfFile(t) \/ SendPacket(t) \/ SendPacketFails(t)
      <4>1. tpc'[t] \in {"take", "loop", "count", "header", "sendheader", "read", "send"}
        BY <3>6 DEF TryLock, OpenFails, OpenFile, CountFile, BuildHeader, SendHeader,
           SendHeaderFails, ReadBlock, ReadThrows, EndOfFile, SendPacket, SendPacketFails
      <4> QED BY <4>1
    <3> QED BY <1>1, <3>1, <3>2, <3>3, <3>4, <3>5, <3>6 DEF SendThread
  <2> QED BY <2>1, <2>2 DEF ThreadsEnd
<1>2. CASE UNCHANGED <<tpc, sock, pFile, m_FileListtoSend>>
  BY <1>2 DEF ThreadsEnd
<1> QED
  BY <1>1, <1>2 DEF Next, FindFiles, LookAtList, AllSpawned, WaitReturns, SetFinished,
     vars, threadVars

LEMMA QuietEnds == Owned /\ PoolEnds /\ ThreadsEnd => FinishedIsQuiet
<1> SUFFICES ASSUME Owned, PoolEnds, ThreadsEnd, finished, NoThreadMissing
             PROVE  /\ \A t \in Threads : tpc[t] \in {"unborn", "ended"} /\ pFile[t] = 0
                    /\ \A f \in Files : fate[f] # "taken"
                    /\ m_FileListtoSend # <<>> => \A t \in Threads : sock[t] = "none"
  BY DEF FinishedIsQuiet, NoThreadMissing
<1>1. \A t \in Threads : tpc[t] \in {"unborn", "ended"}
  BY DEF PoolEnds, AllAreOver
<1>2. \A t \in Threads : pFile[t] = 0
  BY <1>1 DEF Owned, AtWork, Idle
<1>3. \A f \in Files : fate[f] # "taken"
  BY <1>2, SendPoolAssumption DEF Owned, OneOwner, Files
<1> QED BY <1>1, <1>2, <1>3 DEF ThreadsEnd

(***************************************************************************)
(* FinishedIsQuietAlways.  Whatever fails, for any number of files and     *)
(* threads: the dialog learns of the end when nothing is left to do.       *)
(***************************************************************************)
THEOREM FinishedIsQuietAlways == Spec => []FinishedIsQuiet
<1>1. Init => Owned /\ PoolEnds /\ ThreadsEnd
  BY InitOwned DEF Init, PoolEnds, ThreadsEnd, NoThreadMissing, AllAreOver
<1>2. Owned /\ PoolEnds /\ ThreadsEnd /\ [Next]_vars => (Owned /\ PoolEnds /\ ThreadsEnd)'
  BY OwnedStep, PoolEndsStep, ThreadsEndStep DEF Owned
<1> QED BY <1>1, <1>2, QuietEnds, PTL DEF Spec

-----------------------------------------------------------------------------
(* CountsIncrease.  Between CountFile and the header a thread's own count  *)
(* is ahead of every header on its connection, whoever counts meanwhile.   *)

CountAhead ==
    \A t \in Threads :
        /\ tpc[t] = "header" => \A i \in DOMAIN out[t] : out[t][i].count < m_nSendFiles
        /\ tpc[t] = "sendheader" =>
              /\ nCount[t] <= m_nSendFiles
              /\ \A i \in DOMAIN out[t] : out[t][i].count < nCount[t]

LEMMA CountNeverFalls == ASSUME TypeOK, [Next]_vars PROVE m_nSendFiles' >= m_nSendFiles
<1>1. m_nSendFiles' = m_nSendFiles \/ m_nSendFiles' = m_nSendFiles + 1
  BY DEF Next, FindFiles, LookAtList, AllSpawned, WaitReturns, SetFinished, Spawn,
     SendThread, Connect, TryLock, TakeFront, PopFront, Unlock, OpenFails, OpenFile,
     CountFile, OneMoreFile, BuildHeader, SendHeader, SendHeaderFails, ReadBlock, ReadThrows,
     EndOfFile, SendPacket, SendPacketFails, vars
<1> QED BY <1>1 DEF TypeOK

\* A connection on which nothing is new but how much followed a header.
LEMMA SameHeaders ==
    ASSUME TypeOK, TypeOK', CountsIncrease, NEW t \in Threads,
           m_nSendFiles' >= m_nSendFiles,
           DOMAIN out'[t] = DOMAIN out[t],
           \A i \in DOMAIN out[t] : out'[t][i].count = out[t][i].count
    PROVE  \A i \in DOMAIN out'[t] :
              /\ out'[t][i].count <= m_nSendFiles'
              /\ \A j \in 1..(i - 1) : out'[t][j].count < out'[t][i].count
<1> TAKE i \in DOMAIN out'[t]
<1>1. out[t] \in Seq(Header) /\ i \in 1..Len(out[t]) /\ out[t][i] \in Header
  BY DEF TypeOK
<1>2. \A j \in 1..(i - 1) : j \in DOMAIN out[t]
  BY <1>1
<1>3. out[t][i].count \in Nat /\ out[t][i].count <= m_nSendFiles
  BY <1>1 DEF Header, CountsIncrease
<1>4. out'[t][i].count <= m_nSendFiles'
  BY <1>1, <1>3 DEF TypeOK
<1> QED BY <1>1, <1>2, <1>4 DEF CountsIncrease

\* A header is put on the connection with the count the thread carries.
LEMMA NewHeaderCounts ==
    ASSUME TypeOK, AtWork, CountsIncrease, CountAhead, NEW t \in Threads, tpc[t] = "sendheader",
           NEW head \in {"whole", "part"},
           out' = [out EXCEPT ![t] = Append(@, NewHeader(t, head))], m_nSendFiles' = m_nSendFiles
    PROVE  \A i \in DOMAIN out'[t] :
              /\ out'[t][i].count <= m_nSendFiles'
              /\ \A j \in 1..(i - 1) : out'[t][j].count < out'[t][i].count
<1> DEFINE h == NewHeader(t, head)
<1>1. out[t] \in Seq(Header) /\ h \in Header /\ h.count = nCount[t]
  BY NewHeaderType DEF TypeOK, NewHeader
<1>2. out'[t] = Append(out[t], h)
  BY DEF TypeOK
<1> HIDE DEF h
<1>3. /\ Len(out[t]) \in Nat /\ DOMAIN out'[t] = 1..(Len(out[t]) + 1)
      /\ out'[t][Len(out[t]) + 1] = h
      /\ \A i \in 1..Len(out[t]) : out'[t][i] = out[t][i]
  BY <1>1, <1>2
<1> TAKE i \in DOMAIN out'[t]
<1>4. CASE i \in 1..Len(out[t])
  <2>1. \A j \in 1..(i - 1) : j \in 1..Len(out[t])
    BY <1>3, <1>4
  <2> QED BY <1>1, <1>3, <1>4, <2>1 DEF CountsIncrease
<1>5. CASE i = Len(out[t]) + 1
  <2>1. \A j \in 1..(i - 1) : j \in DOMAIN out[t]
    BY <1>1, <1>3, <1>5
  <2>2. nCount[t] <= m_nSendFiles /\ \A j \in DOMAIN out[t] : out[t][j].count < nCount[t]
    BY DEF CountAhead
  <2> QED BY <1>1, <1>3, <1>5, <2>1, <2>2
<1> QED BY <1>3, <1>4, <1>5

\* The headers of t's connection, when a thread or FindFiles steps.
LEMMA HeadersStep ==
    ASSUME TypeOK, AtWork, CountsIncrease, CountAhead, [Next]_vars, NEW t \in Threads
    PROVE  \/ /\ DOMAIN out'[t] = DOMAIN out[t]
              /\ \A i \in DOMAIN out[t] : out'[t][i].count = out[t][i].count
           \/ /\ tpc[t] = "sendheader" /\ m_nSendFiles' = m_nSendFiles /\ tpc'[t] # "sendheader"
              /\ tpc'[t] # "header"
              /\ \E head \in {"whole", "part"} :
                    out' = [out EXCEPT ![t] = Append(@, NewHeader(t, head))]
<1>1. CASE out'[t] = out[t]
  BY <1>1
<1>2. CASE SendHeader(t) \/ SendHeaderFails(t)
  <2>1. out'[t] = out[t] \/ \E head \in {"whole", "part"} :
           out' = [out EXCEPT ![t] = Append(@, NewHeader(t, head))]
    BY <1>2 DEF SendHeader, SendHeaderFails, NewHeader
  <2>2. tpc[t] = "sendheader" /\ m_nSendFiles' = m_nSendFiles /\ tpc'[t] \in {"read", "loop"}
    BY <1>2 DEF SendHeader, SendHeaderFails, Goto, TypeOK
  <2> QED BY <1>1, <2>1, <2>2
<1>3. CASE SendPacket(t)
  <2>1. out[t] # <<>> /\ out[t] \in Seq(Header)
    BY <1>3 DEF SendPacket, Goto, AtWork, TypeOK
  <2>2. Len(out[t]) \in DOMAIN out[t] /\ out[t][Len(out[t])] \in Header
    BY <2>1
  <2> DEFINE h == [out[t][Len(out[t])] EXCEPT !.sent = @ + 1]
  <2>3. h.count = out[t][Len(out[t])].count
    BY <2>2 DEF Header
  <2>4. out'[t] = [out[t] EXCEPT ![Len(out[t])] = h]
    BY <1>3 DEF SendPacket, TypeOK
  <2> HIDE DEF h
  <2> QED BY <2>1, <2>2, <2>3, <2>4
<1>4. ASSUME NEW u \in Threads, SendThread(u) \/ Spawn(u), u # t PROVE out'[t] = out[t]
  BY <1>4, OtherThread
<1>5. ASSUME SendThread(t), ~SendHeader(t), ~SendHeaderFails(t), ~SendPacket(t)
      PROVE  out'[t] = out[t]
  BY <1>5 DEF SendThread, Connect, TryLock, TakeFront, PopFront, Unlock, OpenFails, OpenFile,
     CountFile, BuildHeader, ReadBlock, ReadThrows, EndOfFile, SendPacketFails
<1>6. ASSUME FindFiles \/ UNCHANGED vars PROVE out'[t] = out[t]
  BY <1>6 DEF FindFiles, LookAtList, AllSpawned, WaitReturns, SetFinished, Spawn, vars
<1> QED BY <1>1, <1>2, <1>3, <1>4, <1>5, <1>6 DEF Next

LEMMA CountsStep ==
    ASSUME TypeOK, AtWork, CountsIncrease, CountAhead, [Next]_vars
    PROVE  CountsIncrease'
<1> SUFFICES ASSUME NEW t \in Threads
             PROVE  \A i \in DOMAIN out'[t] :
                       /\ out'[t][i].count <= m_nSendFiles'
                       /\ \A j \in 1..(i - 1) : out'[t][j].count < out'[t][i].count
  BY DEF CountsIncrease
<1> QED BY HeadersStep, SameHeaders, NewHeaderCounts, CountNeverFalls, TypedStep

LEMMA CountAheadStep ==
    ASSUME TypeOK, AtWork, CountsIncrease, CountAhead, [Next]_vars
    PROVE  CountAhead'
<1> SUFFICES ASSUME NEW t \in Threads
             PROVE  /\ tpc'[t] = "header" =>
                          \A i \in DOMAIN out'[t] : out'[t][i].count < m_nSendFiles'
                    /\ tpc'[t] = "sendheader" =>
                          /\ nCount'[t] <= m_nSendFiles'
                          /\ \A i \in DOMAIN out'[t] : out'[t][i].count < nCount'[t]
  BY DEF CountAhead
<1>0. m_nSendFiles \in Nat /\ m_nSendFiles' \in Nat /\ m_nSendFiles' >= m_nSendFiles
  BY CountNeverFalls, TypedStep DEF TypeOK
<1>1. nCount[t] \in Nat /\ \A i \in DOMAIN out[t] : out[t][i].count \in Nat
  <2>1. out[t] \in Seq(Header) /\ nCount[t] \in Nat
    BY DEF TypeOK
  <2>2. \A i \in DOMAIN out[t] : out[t][i] \in Header
    BY <2>1
  <2> QED BY <2>1, <2>2 DEF Header
<1>2. \A i \in DOMAIN out[t] : out[t][i].count <= m_nSendFiles
  BY DEF CountsIncrease
<1>3. CASE CountFile(t)
  <2>1. m_nSendFiles' = m_nSendFiles + 1 /\ out' = out /\ tpc'[t] = "header"
    BY <1>3 DEF CountFile, OneMoreFile, Goto, TypeOK
  <2> QED BY <1>0, <1>1, <1>2, <2>1
<1>4. CASE BuildHeader(t)
  <2>1. /\ m_nSendFiles' = m_nSendFiles /\ out' = out /\ tpc[t] = "header"
        /\ tpc'[t] = "sendheader" /\ nCount'[t] = m_nSendFiles
    BY <1>4 DEF BuildHeader, HeaderCount, Goto, TypeOK
  <2> QED BY <1>0, <1>1, <2>1 DEF CountAhead
<1>5. CASE tpc'[t] = tpc[t] /\ nCount'[t] = nCount[t]
  <2>1. CASE tpc[t] \in {"header", "sendheader"}
    <3>1. /\ DOMAIN out'[t] = DOMAIN out[t]
          /\ \A i \in DOMAIN out[t] : out'[t][i].count = out[t][i].count
      BY <1>5, <2>1, HeadersStep
    <3> QED BY <1>0, <1>1, <1>5, <2>1, <3>1 DEF CountAhead
  <2>2. CASE tpc[t] \notin {"header", "sendheader"}
    BY <1>5, <2>2
  <2> QED BY <2>1, <2>2
<1>6. CASE SendThread(t) /\ ~CountFile(t) /\ ~BuildHeader(t)
  <2>1. tpc'[t] \notin {"header", "sendheader"}
    BY <1>6 DEF SendThread, Connect, TryLock, TakeFront, PopFront, Unlock, OpenFails, OpenFile,
       SendHeader, SendHeaderFails, ReadBlock, ReadThrows, EndOfFile, SendPacket,
       SendPacketFails, Goto, TypeOK
  <2> QED BY <2>1
<1>7. ASSUME Spawn(t) PROVE tpc'[t] \notin {"header", "sendheader"}
  BY <1>7 DEF Spawn, Goto, TypeOK
<1>8. ASSUME NEW u \in Threads, SendThread(u) \/ Spawn(u), u # t
      PROVE  tpc'[t] = tpc[t] /\ nCount'[t] = nCount[t]
  BY <1>8, OtherThread
<1>9. ASSUME UNCHANGED <<tpc, nCount>> PROVE tpc'[t] = tpc[t] /\ nCount'[t] = nCount[t]
  BY <1>9
<1> QED
  BY <1>3, <1>4, <1>5, <1>6, <1>7, <1>8, <1>9
  DEF Next, FindFiles, LookAtList, AllSpawned, WaitReturns, SetFinished, vars, threadVars

(***************************************************************************)
(* CountsIncreaseAlways.  For any number of files and threads: on each     *)
(* connection the counts increase, though m_nSendFiles is read in another  *)
(* critical section than the one that raised it.                           *)
(***************************************************************************)
THEOREM CountsIncreaseAlways == Spec => []CountsIncrease
<1> DEFINE Inv == TypeOK /\ AtWork /\ CountsIncrease /\ CountAhead
<1>1. Init => Inv
  <2> SUFFICES ASSUME Init PROVE CountsIncrease /\ CountAhead
    BY InitTyped
  <2>1. \A t \in Threads : DOMAIN out[t] = {} /\ tpc[t] = "unborn"
    BY DEF Init
  <2> QED BY <2>1 DEF CountsIncrease, CountAhead
<1>2. Inv /\ [Next]_vars => Inv'
  BY TypedStep, CountsStep, CountAheadStep
<1>3. Inv => CountsIncrease
  OBVIOUS
<1> HIDE DEF Inv
<1> QED BY <1>1, <1>2, <1>3, PTL DEF Spec

-----------------------------------------------------------------------------
(* SentIsWhole.  It needs to know what is not on any connection yet, and   *)
(* how much of a file under way is out, in the buffer and still to read.   *)

\* File f has a header, or a part of one, on thread t's connection.
OutOn(t, f) == \E i \in DOMAIN out[t] : out[t][i].file = f

Before == {"unlock", "open", "count", "header", "sendheader"}

NotOutBefore ==
    /\ \A t \in Threads : \A i \in DOMAIN out[t] : fate[out[t][i].file] # "queued"
    /\ \A t, u \in Threads : tpc[t] \in Before /\ pFile[t] # 0 => ~OutOn(u, pFile[t])

OneHeader ==
    \A t, u \in Threads : \A i \in DOMAIN out[t], j \in DOMAIN out[u] :
        out[t][i].file = out[u][j].file => t = u /\ i = j

TakenIsLast ==
    \A t \in Threads : \A i \in DOMAIN out[t] :
        fate[out[t][i].file] = "taken" => pFile[t] = out[t][i].file /\ i = Len(out[t])

\* Header h is whole and followed by all its file had.
Complete(h) == h.head = "whole" /\ (h.file \notin MayChange => h.sent = h.nFileSize)

SentIsOut ==
    \A f \in Files : fate[f] = "sent" =>
        \E t \in Threads : \E i \in DOMAIN out[t] : out[t][i].file = f /\ Complete(out[t][i])

\* The header h belongs to the file t reads, of which nothing is lost.
Follows(t, h) ==
    /\ h.file = pFile[t] /\ h.head = "whole"
    /\ pFile[t] \notin MayChange =>
          h.sent + toRead[t] + inBuffer[t] = Size[pFile[t]] /\ h.nFileSize = Size[pFile[t]]

AllAccountedFor ==
    \A t \in Threads :
        /\ tpc[t] # "send" => inBuffer[t] = 0
        /\ tpc[t] \in {"count", "header", "sendheader"} /\ pFile[t] \notin MayChange =>
              toRead[t] = Size[pFile[t]]
        /\ tpc[t] \in {"read", "send"} => Follows(t, out[t][Len(out[t])])

Delivered ==
    Owned /\ NotOutBefore /\ OneHeader /\ TakenIsLast /\ SentIsOut /\ AllAccountedFor

\* The invariant, but for Owned, which has its own proof.
Parts == NotOutBefore /\ OneHeader /\ TakenIsLast /\ SentIsOut /\ AllAccountedFor

\* What each header and each thread is, as the types say.
LEMMA HeaderFacts ==
    ASSUME TypeOK
    PROVE  /\ 0 \notin Files
           /\ \A t \in Threads : \A i \in DOMAIN out[t] :
                 out[t][i] \in Header /\ out[t][i].file \in Files
           /\ \A t \in Threads : out[t] # <<>> => Len(out[t]) \in DOMAIN out[t]
<1>1. \A t \in Threads : out[t] \in Seq(Header)
  BY DEF TypeOK
<1>2. \A t \in Threads : \A i \in DOMAIN out[t] : out[t][i] \in Header
  BY <1>1
<1>3. \A t \in Threads : out[t] # <<>> => Len(out[t]) \in DOMAIN out[t]
  BY <1>1
<1> QED BY <1>2, <1>3, SendPoolAssumption DEF Header, Files

\* Only the list and the thread's place change, or a count no part speaks of.
LEMMA QuietParts ==
    ASSUME Delivered,
           \/ FindFiles
           \/ \E t \in Threads : Connect(t) \/ TryLock(t) \/ Unlock(t) \/ CountFile(t) \/ BuildHeader(t)
           \/ UNCHANGED vars
    PROVE  Parts'
<1>1. out' = out /\ fate' = fate /\ pFile' = pFile /\ toRead' = toRead /\ inBuffer' = inBuffer
  BY DEF FindFiles, LookAtList, AllSpawned, WaitReturns, SetFinished, Spawn, Connect, TryLock,
     Unlock, CountFile, BuildHeader, vars, threadVars
<1>2. \A u \in Threads :
         /\ tpc'[u] \in Before /\ pFile[u] # 0 => tpc[u] \in Before
         /\ tpc'[u] \in {"count", "header", "sendheader"} =>
               tpc[u] \in {"count", "header", "sendheader"}
         /\ tpc'[u] \in {"read", "send"} => tpc'[u] = tpc[u]
         /\ tpc'[u] # "send" => tpc[u] # "send"
  <2> TAKE u \in Threads
  <2>1. CASE tpc' = tpc
    BY <2>1
  <2>2. ASSUME NEW t \in Threads,
               \/ Spawn(t) \/ Connect(t) \/ TryLock(t) \/ Unlock(t) \/ CountFile(t) \/ BuildHeader(t)
        PROVE  \E from \in {"unborn", "connect", "loop", "unlock", "count", "header"},
                  to \in {"connect", "nothread", "loop", "ended", "take", "open", "header",
                          "sendheader"} :
                  /\ Goto(t, from, to)
                  /\ to = "open" => from = "unlock"
                  /\ to \in {"header", "sendheader"} => from \in {"count", "header"}
    BY <2>2 DEF Spawn, Connect, TryLock, Unlock, CountFile, BuildHeader
  <2> QED
    BY <2>1, <2>2 DEF Goto, Before, Delivered, Owned, TypeOK,
       FindFiles, LookAtList, AllSpawned, WaitReturns, SetFinished, vars
<1>3. NotOutBefore'
  BY <1>1, <1>2 DEF Delivered, NotOutBefore, OutOn
<1>4. AllAccountedFor'
  BY <1>1, <1>2 DEF Delivered, AllAccountedFor, Follows
<1> QED
  BY <1>1, <1>3, <1>4 DEF Delivered, Parts, OneHeader, TakenIsLast, SentIsOut

\* front() gives a file to a thread that had none.
LEMMA TakeFrontParts == ASSUME Delivered, NEW t \in Threads, TakeFront(t) PROVE Parts'
<1>1. /\ out' = out /\ fate' = fate /\ toRead' = toRead /\ inBuffer' = inBuffer
      /\ tpc[t] = "take" /\ pFile[t] = 0
      /\ tpc'[t] = "pop" \/ (tpc'[t] = "unlock" /\ pFile'[t] = 0)
      /\ \A u \in Threads : u # t => tpc'[u] = tpc[u] /\ pFile'[u] = pFile[u]
  BY DEF TakeFront, Goto, Delivered, Owned, TypeOK, AtWork, Idle
<1>2. NotOutBefore'
  BY <1>1 DEF Delivered, NotOutBefore, OutOn, Before
<1>3. TakenIsLast'
  BY <1>1, HeaderFacts DEF Delivered, Owned, TakenIsLast
<1>4. AllAccountedFor'
  <2>1. ASSUME NEW u \in Threads, u # t
        PROVE  /\ tpc'[u] # "send" => inBuffer'[u] = 0
               /\ tpc'[u] \in {"count", "header", "sendheader"} /\ pFile'[u] \notin MayChange =>
                     toRead'[u] = Size[pFile'[u]]
               /\ tpc'[u] \in {"read", "send"} => Follows(u, out[u][Len(out[u])])'
    BY <1>1, <2>1 DEF Delivered, AllAccountedFor, Follows
  <2> QED BY <1>1, <2>1 DEF Delivered, AllAccountedFor
<1> QED BY <1>1, <1>2, <1>3, <1>4 DEF Delivered, Parts, OneHeader, SentIsOut

\* pop_front(): the file was on no connection while it was on the list.
LEMMA PopFrontParts == ASSUME Delivered, NEW t \in Threads, PopFront(t) PROVE Parts'
<1>0. TypeOK /\ OneOwner /\ FrontHeld
  BY DEF Delivered, Owned
<1>1. /\ out' = out /\ pFile' = pFile /\ toRead' = toRead /\ inBuffer' = inBuffer
      /\ tpc[t] = "pop" /\ tpc'[t] = "unlock"
      /\ fate' = [fate EXCEPT ![pFile[t]] = "taken"] /\ pFile[t] \in Files
      /\ \A u \in Threads : u # t => tpc'[u] = tpc[u]
  <2>1. /\ tpc[t] = "pop" /\ tpc' = [tpc EXCEPT ![t] = "unlock"]
        /\ fate' = [fate EXCEPT ![Head(m_FileListtoSend)] = "taken"]
        /\ UNCHANGED <<out, pFile, toRead, inBuffer>>
    BY DEF PopFront, Goto, threadVars
  <2>2. pFile[t] = Head(m_FileListtoSend) /\ pFile[t] \in Files
    BY <2>1 DEF Delivered, Owned, FrontHeld, AtWork, Busy
  <2>3. tpc' \in [Threads -> ThreadPC] /\ tpc \in [Threads -> ThreadPC]
    BY <2>1, <1>0 DEF TypeOK, ThreadPC
  <2> QED BY <2>1, <2>2, <2>3
<1>2. fate[pFile[t]] = "queued"
  <2>1. 1 \in DOMAIN m_FileListtoSend /\ pFile[t] = m_FileListtoSend[1]
    BY <1>0, <1>1 DEF FrontHeld, TypeOK
  <2> QED BY <1>0, <1>1, <2>1 DEF OneOwner
<1>3. \A u \in Threads : ~OutOn(u, pFile[t])
  BY <1>2 DEF Delivered, NotOutBefore, OutOn
<1>4. \A u \in Threads : \A i \in DOMAIN out[u] : fate'[out[u][i].file] = fate[out[u][i].file]
  BY <1>0, <1>1, <1>3, HeaderFacts DEF OutOn, TypeOK
<1>5. NotOutBefore'
  <2>1. \A u, v \in Threads : tpc'[u] \in Before /\ pFile[u] # 0 => ~OutOn(v, pFile[u])
    BY <1>1, <1>3 DEF Delivered, NotOutBefore
  <2> QED BY <1>1, <1>4, <2>1 DEF Delivered, NotOutBefore, OutOn
<1>6. TakenIsLast'
  BY <1>1, <1>4 DEF Delivered, TakenIsLast
<1>7. SentIsOut'
  BY <1>0, <1>1 DEF Delivered, SentIsOut, TypeOK
<1>8. AllAccountedFor'
  BY <1>1 DEF Delivered, AllAccountedFor, Follows
<1> QED BY <1>1, <1>5, <1>6, <1>7, <1>8 DEF Delivered, Parts, OneHeader

\* A step of t inside SendFile that sends nothing and ends nothing.
LEMMA WithinParts ==
    ASSUME Delivered, NEW t \in Threads, OpenFile(t) \/ ReadBlock(t)
    PROVE  Parts'
<1>0. TypeOK /\ AtWork
  BY DEF Delivered, Owned
<1>1. /\ out' = out /\ fate' = fate /\ pFile' = pFile /\ pFile[t] \in Files
      /\ tpc[t] \in {"open", "read"} /\ tpc'[t] \notin {"unlock", "open", "header", "sendheader"}
      /\ tpc[t] = "read" => tpc'[t] = "send"
      /\ \A u \in Threads : u # t =>
            tpc'[u] = tpc[u] /\ toRead'[u] = toRead[u] /\ inBuffer'[u] = inBuffer[u]
  BY <1>0 DEF OpenFile, ReadBlock, Goto, TypeOK, AtWork, Busy
<1>2. NotOutBefore'
  BY <1>1 DEF Delivered, NotOutBefore, OutOn, Before
<1>3. /\ tpc'[t] # "send" => inBuffer'[t] = 0
      /\ tpc'[t] = "count" /\ pFile[t] \notin MayChange => toRead'[t] = Size[pFile[t]]
      /\ tpc'[t] \in {"read", "send"} => Follows(t, out[t][Len(out[t])])'
  <2>1. CASE OpenFile(t)
    <3>1. tpc[t] = "open" /\ tpc'[t] = "count" /\ inBuffer' = inBuffer
      BY <2>1, <1>0 DEF OpenFile, Goto, TypeOK
    <3>2. pFile[t] \notin MayChange => toRead'[t] = Size[pFile[t]]
      BY <2>1, <1>0 DEF OpenFile, TypeOK
    <3> QED BY <3>1, <3>2 DEF Delivered, AllAccountedFor
  <2>2. CASE ReadBlock(t)
    <3>1. tpc[t] = "read" /\ tpc'[t] = "send" /\ inBuffer[t] = 0
      BY <2>2, <1>0 DEF ReadBlock, Goto, TypeOK, Delivered, AllAccountedFor
    <3>2. toRead'[t] + inBuffer'[t] = toRead[t] /\ toRead'[t] \in Nat /\ inBuffer'[t] \in Nat
      BY <2>2, <1>0, SendPoolAssumption DEF ReadBlock, LeftToRead, TypeOK
    <3>3. out[t][Len(out[t])].sent \in Nat /\ Follows(t, out[t][Len(out[t])])
      BY <3>1, <1>0, HeaderFacts DEF AtWork, Header, Delivered, AllAccountedFor
    <3>4. toRead[t] \in Nat
      BY <1>0 DEF TypeOK
    <3> QED BY <1>1, <3>1, <3>2, <3>3, <3>4 DEF Follows
  <2> QED BY <2>1, <2>2
<1>4. AllAccountedFor'
  BY <1>1, <1>3 DEF Delivered, AllAccountedFor, Follows
<1> QED BY <1>1, <1>2, <1>4 DEF Delivered, Parts, OneHeader, TakenIsLast, SentIsOut

\* SendFile returns: the file is no longer in the hands of t.  If it says
\* "sent", the header on the connection is complete.
LEMMA ReturnParts ==
    ASSUME Delivered, NEW t \in Threads, NEW result \in {"sent", "failed"},
           NEW from \in Busy \ {"pop"}, Goto(t, from, "loop"), Returns(t, result), out' = out,
           result = "sent" => \E i \in DOMAIN out[t] :
                                 out[t][i].file = pFile[t] /\ Complete(out[t][i])
    PROVE  Parts'
<1>0. TypeOK /\ OneOwner
  BY DEF Delivered, Owned
<1>1. /\ tpc[t] = from /\ tpc'[t] = "loop" /\ pFile[t] \in Files /\ pFile'[t] = 0
      /\ toRead'[t] = 0 /\ inBuffer'[t] = 0 /\ fate' = [fate EXCEPT ![pFile[t]] = result]
      /\ \A u \in Threads : u # t =>
            /\ tpc'[u] = tpc[u] /\ toRead'[u] = toRead[u] /\ inBuffer'[u] = inBuffer[u]
            /\ pFile'[u] = pFile[u]
  BY <1>0 DEF Returns, Goto, TypeOK, Delivered, Owned, AtWork
<1>2. \A f \in Files : fate'[f] = IF f = pFile[t] THEN result ELSE fate[f]
  BY <1>0, <1>1 DEF TypeOK
<1>3. \A u \in Threads : u # t => pFile[u] # pFile[t]
  BY <1>0, <1>1, HeaderFacts DEF OneOwner
<1>4. NotOutBefore'
  <2>1. \A u \in Threads : \A i \in DOMAIN out[u] : fate'[out[u][i].file] # "queued"
    BY <1>0, <1>2, HeaderFacts DEF Delivered, NotOutBefore
  <2>2. \A u, v \in Threads : tpc'[u] \in Before /\ pFile'[u] # 0 => ~OutOn(v, pFile'[u])
    BY <1>1 DEF Delivered, NotOutBefore
  <2> QED BY <2>1, <2>2 DEF NotOutBefore, OutOn
<1>5. TakenIsLast'
  <2> SUFFICES ASSUME NEW u \in Threads, NEW i \in DOMAIN out[u], fate'[out[u][i].file] = "taken"
               PROVE  pFile'[u] = out[u][i].file /\ i = Len(out[u])
    BY DEF TakenIsLast
  <2>1. out[u][i].file # pFile[t] /\ fate[out[u][i].file] = "taken"
    BY <1>0, <1>2, HeaderFacts
  <2>2. pFile[u] = out[u][i].file /\ i = Len(out[u])
    BY <2>1 DEF Delivered, TakenIsLast
  <2> QED BY <1>1, <2>1, <2>2
<1>6. SentIsOut'
  <2> SUFFICES ASSUME NEW f \in Files, fate'[f] = "sent"
               PROVE  \E u \in Threads : \E i \in DOMAIN out[u] :
                          out[u][i].file = f /\ Complete(out[u][i])
    BY DEF SentIsOut, Complete
  <2>1. CASE f = pFile[t]
    BY <1>2, <2>1
  <2>2. CASE f # pFile[t]
    BY <1>2, <2>2 DEF Delivered, SentIsOut
  <2> QED BY <2>1, <2>2
<1>7. AllAccountedFor'
  <2>1. ASSUME NEW u \in Threads, u # t
        PROVE  /\ tpc'[u] # "send" => inBuffer'[u] = 0
               /\ tpc'[u] \in {"count", "header", "sendheader"} /\ pFile'[u] \notin MayChange =>
                     toRead'[u] = Size[pFile'[u]]
               /\ tpc'[u] \in {"read", "send"} => Follows(u, out[u][Len(out[u])])'
    BY <1>1, <2>1 DEF Delivered, AllAccountedFor, Follows
  <2> QED BY <1>1, <2>1 DEF AllAccountedFor
<1> QED BY <1>4, <1>5, <1>6, <1>7 DEF Delivered, Parts, OneHeader

\* The steps that return without a new header.
LEMMA NoHeaderReturnParts ==
    ASSUME Delivered, NEW t \in Threads,
           \/ OpenFails(t) \/ ReadThrows(t) \/ EndOfFile(t) \/ SendPacketFails(t)
           \/ SendHeaderFails(t) /\ out' = out
    PROVE  Parts'
<1>1. CASE EndOfFile(t)
  <2>1. TypeOK /\ tpc[t] = "read" /\ toRead[t] = 0 /\ out' = out /\ Returns(t, "sent")
        /\ Goto(t, "read", "loop")
    BY <1>1 DEF EndOfFile, Goto, Delivered, Owned
  <2> DEFINE h == out[t][Len(out[t])]
  <2>2. Len(out[t]) \in DOMAIN out[t] /\ h.sent \in Nat
    BY <2>1, HeaderFacts DEF Delivered, Owned, AtWork, Header
  <2>3. Follows(t, h) /\ inBuffer[t] = 0
    BY <2>1 DEF Delivered, AllAccountedFor
  <2>4. h.file = pFile[t] /\ Complete(h)
    BY <2>1, <2>2, <2>3 DEF Follows, Complete
  <2> QED BY <2>1, <2>2, <2>4, ReturnParts DEF Busy
<1>2. CASE ~EndOfFile(t)
  <2>1. \E from \in Busy \ {"pop"} : Goto(t, from, "loop")
    BY <1>2 DEF OpenFails, ReadThrows, SendPacketFails, SendHeaderFails, Busy
  <2>2. Returns(t, "failed") /\ out' = out
    BY <1>2 DEF OpenFails, ReadThrows, SendPacketFails, SendHeaderFails
  <2> QED BY <2>1, <2>2, ReturnParts
<1> QED BY <1>1, <1>2

\* A header goes out for a file that had none; the others stay as they are.
LEMMA NewHeaderOut ==
    ASSUME Delivered, NEW t \in Threads, tpc[t] = "sendheader", NEW head \in {"whole", "part"},
           out' = [out EXCEPT ![t] = Append(@, NewHeader(t, head))]
    PROVE  /\ \A u \in Threads : u # t => out'[u] = out[u]
           /\ Len(out[t]) \in Nat /\ DOMAIN out[t] = 1..Len(out[t])
           /\ DOMAIN out'[t] = 1..(Len(out[t]) + 1) /\ Len(out'[t]) = Len(out[t]) + 1
           /\ \A i \in DOMAIN out[t] : out'[t][i] = out[t][i]
           /\ out'[t][Len(out[t]) + 1] = NewHeader(t, head)
           /\ \A u \in Threads : \A i \in DOMAIN out[u] : out[u][i].file # pFile[t]
           /\ OneHeader'
<1> DEFINE h == NewHeader(t, head)
<1>0. TypeOK /\ AtWork /\ h \in Header /\ h.file = pFile[t] /\ pFile[t] \in Files
  BY NewHeaderType DEF Delivered, Owned, AtWork, Busy, NewHeader
<1> HIDE DEF h
<1>1. out[t] \in Seq(Header) /\ out'[t] = Append(out[t], h)
  BY <1>0 DEF TypeOK, h
<1>2. \A u \in Threads : u # t => out'[u] = out[u]
  BY <1>0 DEF TypeOK
<1>3. /\ Len(out[t]) \in Nat /\ DOMAIN out[t] = 1..Len(out[t])
      /\ DOMAIN out'[t] = 1..(Len(out[t]) + 1) /\ Len(out'[t]) = Len(out[t]) + 1
      /\ \A i \in DOMAIN out[t] : out'[t][i] = out[t][i]
      /\ out'[t][Len(out[t]) + 1] = h
  BY <1>0, <1>1
<1>4. \A u \in Threads : \A i \in DOMAIN out[u] : out[u][i].file # pFile[t]
  BY <1>0, HeaderFacts DEF Delivered, NotOutBefore, OutOn, Before
<1>5. OneHeader'
  <2> SUFFICES ASSUME NEW u \in Threads, NEW v \in Threads,
                      NEW i \in DOMAIN out'[u], NEW j \in DOMAIN out'[v],
                      out'[u][i].file = out'[v][j].file
               PROVE  u = v /\ i = j
    BY DEF OneHeader
  <2>1. ASSUME NEW w \in Threads, NEW k \in DOMAIN out'[w]
        PROVE  \/ k \in DOMAIN out[w] /\ out'[w][k] = out[w][k] /\ out'[w][k].file # pFile[t]
               \/ w = t /\ k = Len(out[t]) + 1 /\ out'[w][k].file = pFile[t]
    <3>1. CASE w # t
      BY <1>2, <1>4, <2>1, <3>1
    <3>2. CASE w = t
      BY <1>0, <1>3, <1>4, <2>1, <3>2
    <3> QED BY <3>1, <3>2
  <2> QED BY <2>1 DEF Delivered, OneHeader
<1> QED BY <1>2, <1>3, <1>4, <1>5 DEF h

\* The header is whole, and the file follows.
LEMMA SendHeaderParts == ASSUME Delivered, NEW t \in Threads, SendHeader(t) PROVE Parts'
<1> DEFINE n == Len(out[t]) + 1
<1>0. TypeOK /\ AtWork /\ OneOwner
  BY DEF Delivered, Owned
<1>1. /\ tpc[t] = "sendheader" /\ tpc'[t] = "read"
      /\ out' = [out EXCEPT ![t] = Append(@, NewHeader(t, "whole"))]
      /\ UNCHANGED <<pFile, toRead, inBuffer, fate>>
      /\ \A u \in Threads : u # t => tpc'[u] = tpc[u]
  BY <1>0 DEF SendHeader, NewHeader, Goto, TypeOK, threadVars
<1>2. pFile[t] \in Files /\ fate[pFile[t]] = "taken"
  <2>1. pFile[t] \in Files /\ tpc[t] # "pop"
    BY <1>0, <1>1 DEF AtWork, Busy
  <2> QED BY <1>0, <2>1 DEF OneOwner
<1>3. /\ \A u \in Threads : u # t => out'[u] = out[u]
      /\ n \in Nat \ {0} /\ DOMAIN out[t] = 1..(n - 1) /\ DOMAIN out'[t] = 1..n /\ Len(out'[t]) = n
      /\ \A i \in DOMAIN out[t] : out'[t][i] = out[t][i]
      /\ out'[t][n] = NewHeader(t, "whole")
      /\ \A u \in Threads : \A i \in DOMAIN out[u] : out[u][i].file # pFile[t]
      /\ OneHeader'
  <2>1. /\ \A u \in Threads : u # t => out'[u] = out[u]
        /\ Len(out[t]) \in Nat /\ DOMAIN out[t] = 1..Len(out[t])
        /\ DOMAIN out'[t] = 1..n /\ Len(out'[t]) = n
        /\ \A i \in DOMAIN out[t] : out'[t][i] = out[t][i]
        /\ out'[t][n] = NewHeader(t, "whole")
        /\ \A u \in Threads : \A i \in DOMAIN out[u] : out[u][i].file # pFile[t]
        /\ OneHeader'
    BY <1>1, NewHeaderOut, Zenon
  <2>2. n \in Nat \ {0} /\ n - 1 = Len(out[t])
    BY <2>1
  <2> HIDE DEF n
  <2> QED BY <2>1, <2>2
<1> HIDE DEF n
<1>4. NewHeader(t, "whole").file = pFile[t]
  BY DEF NewHeader
<1>5. ASSUME NEW w \in Threads, NEW k \in DOMAIN out'[w]
      PROVE  \/ k \in DOMAIN out[w] /\ out'[w][k] = out[w][k]
             \/ w = t /\ k = n /\ out'[w][k].file = pFile[t]
  <2>1. CASE w # t
    BY <1>3, <1>5, <2>1
  <2>2. CASE w = t
    BY <1>3, <1>4, <1>5, <2>2
  <2> QED BY <2>1, <2>2
<1>6. ASSUME NEW w \in Threads, NEW k \in DOMAIN out[w]
      PROVE  k \in DOMAIN out'[w] /\ out'[w][k] = out[w][k]
  BY <1>3, <1>6
<1>7. NotOutBefore'
  <2>1. \A u \in Threads : \A i \in DOMAIN out'[u] : fate[out'[u][i].file] # "queued"
    BY <1>2, <1>5 DEF Delivered, NotOutBefore
  <2>2. ASSUME NEW u \in Threads, NEW v \in Threads, tpc'[u] \in Before, pFile[u] # 0
        PROVE  ~ \E i \in DOMAIN out'[v] : out'[v][i].file = pFile[u]
    <3>1. u # t /\ tpc[u] \in Before /\ pFile[u] # pFile[t]
      BY <1>0, <1>1, <2>2 DEF Before, OneOwner
    <3> QED BY <1>5, <2>2, <3>1 DEF Delivered, NotOutBefore, OutOn
  <2> QED BY <1>1, <2>1, <2>2 DEF NotOutBefore, OutOn
<1>8. TakenIsLast'
  <2> SUFFICES ASSUME NEW u \in Threads, NEW i \in DOMAIN out'[u], fate[out'[u][i].file] = "taken"
               PROVE  pFile[u] = out'[u][i].file /\ i = Len(out'[u])
    BY <1>1 DEF TakenIsLast
  <2>1. CASE u = t /\ i = n /\ out'[u][i].file = pFile[t]
    BY <1>3, <2>1
  <2>2. CASE i \in DOMAIN out[u] /\ out'[u][i] = out[u][i]
    <3>1. pFile[u] = out[u][i].file /\ i = Len(out[u])
      BY <2>2 DEF Delivered, TakenIsLast
    <3>2. u # t
      BY <1>3, <2>2, <3>1
    <3> QED BY <1>3, <2>2, <3>1, <3>2
  <2> QED BY <1>5, <2>1, <2>2
<1>9. SentIsOut'
  BY <1>1, <1>6 DEF Delivered, SentIsOut, Complete
<1>10. AllAccountedFor'
  <2>1. Follows(t, NewHeader(t, "whole"))'
    <3>1. inBuffer[t] = 0 /\ (pFile[t] \notin MayChange => toRead[t] = Size[pFile[t]])
      BY <1>1 DEF Delivered, AllAccountedFor
    <3>2. toRead[t] \in Nat
      BY <1>0 DEF TypeOK
    <3> QED BY <1>1, <3>1, <3>2 DEF Follows, NewHeader
  <2>2. Follows(t, out[t][Len(out[t])])'
    BY <1>1, <1>3, <2>1 DEF Follows, NewHeader
  <2>3. inBuffer'[t] = 0
    BY <1>1 DEF Delivered, AllAccountedFor
  <2>4. \A u \in Threads : u # t =>
          /\ tpc'[u] # "send" => inBuffer'[u] = 0
          /\ tpc'[u] \in {"count", "header", "sendheader"} /\ pFile'[u] \notin MayChange =>
                toRead'[u] = Size[pFile'[u]]
          /\ tpc'[u] \in {"read", "send"} => Follows(u, out[u][Len(out[u])])'
    BY <1>1, <1>3 DEF Delivered, AllAccountedFor, Follows
  <2> QED BY <1>1, <2>2, <2>3, <2>4 DEF AllAccountedFor
<1> QED BY <1>3, <1>7, <1>8, <1>9, <1>10 DEF Parts

\* Only a part of the header, or nothing, and SendFile returns false.
LEMMA SendHeaderFailsParts ==
    ASSUME Delivered, NEW t \in Threads, SendHeaderFails(t), out' # out
    PROVE  Parts'
<1> DEFINE n == Len(out[t]) + 1
<1>0. TypeOK /\ AtWork /\ OneOwner
  BY DEF Delivered, Owned
<1>1. /\ tpc[t] = "sendheader" /\ tpc'[t] = "loop"
      /\ out' = [out EXCEPT ![t] = Append(@, NewHeader(t, "part"))]
      /\ pFile'[t] = 0 /\ inBuffer'[t] = 0 /\ fate' = [fate EXCEPT ![pFile[t]] = "failed"]
      /\ \A u \in Threads : u # t =>
            /\ tpc'[u] = tpc[u] /\ toRead'[u] = toRead[u] /\ inBuffer'[u] = inBuffer[u]
            /\ pFile'[u] = pFile[u]
  BY <1>0 DEF SendHeaderFails, NewHeader, Goto, Returns, TypeOK
<1>2. pFile[t] \in Files /\ \A u \in Threads : u # t => pFile[u] # pFile[t]
  BY <1>0, <1>1, HeaderFacts DEF AtWork, Busy, OneOwner
<1>3. \A f \in Files : fate'[f] = IF f = pFile[t] THEN "failed" ELSE fate[f]
  BY <1>0, <1>1 DEF TypeOK
<1>4. /\ \A u \in Threads : u # t => out'[u] = out[u]
      /\ n \in Nat \ {0} /\ DOMAIN out[t] = 1..(n - 1) /\ DOMAIN out'[t] = 1..n
      /\ \A i \in DOMAIN out[t] : out'[t][i] = out[t][i]
      /\ out'[t][n] = NewHeader(t, "part")
      /\ OneHeader'
  <2>1. /\ \A u \in Threads : u # t => out'[u] = out[u]
        /\ Len(out[t]) \in Nat /\ DOMAIN out[t] = 1..Len(out[t])
        /\ DOMAIN out'[t] = 1..n /\ Len(out'[t]) = n
        /\ \A i \in DOMAIN out[t] : out'[t][i] = out[t][i]
        /\ out'[t][n] = NewHeader(t, "part")
        /\ \A u \in Threads : \A i \in DOMAIN out[u] : out[u][i].file # pFile[t]
        /\ OneHeader'
    BY <1>1, NewHeaderOut, Zenon
  <2>2. n \in Nat \ {0} /\ n - 1 = Len(out[t])
    BY <2>1
  <2> HIDE DEF n
  <2> QED BY <2>1, <2>2
<1> HIDE DEF n
<1>5. NewHeader(t, "part").file = pFile[t]
  BY DEF NewHeader
<1>6. ASSUME NEW w \in Threads, NEW k \in DOMAIN out'[w]
      PROVE  \/ k \in DOMAIN out[w] /\ out'[w][k] = out[w][k]
             \/ w = t /\ k = n /\ out'[w][k].file = pFile[t]
  <2>1. CASE w # t
    BY <1>4, <1>6, <2>1
  <2>2. CASE w = t
    BY <1>4, <1>5, <1>6, <2>2
  <2> QED BY <2>1, <2>2
<1>7. ASSUME NEW w \in Threads, NEW k \in DOMAIN out[w]
      PROVE  k \in DOMAIN out'[w] /\ out'[w][k] = out[w][k]
  BY <1>4, <1>7
<1>8. NotOutBefore'
  <2>1. ASSUME NEW u \in Threads, NEW i \in DOMAIN out'[u]
        PROVE  fate'[out'[u][i].file] # "queued"
    <3>1. out'[u][i].file \in Files /\ (out'[u][i].file # pFile[t] => fate[out'[u][i].file] # "queued")
      BY <1>0, <1>2, <1>6, <2>1, HeaderFacts DEF Delivered, NotOutBefore
    <3> QED BY <1>3, <3>1
  <2>2. ASSUME NEW u \in Threads, NEW v \in Threads, tpc'[u] \in Before, pFile'[u] # 0
        PROVE  ~ \E i \in DOMAIN out'[v] : out'[v][i].file = pFile'[u]
    <3>1. u # t /\ tpc[u] \in Before /\ pFile[u] # pFile[t] /\ pFile'[u] = pFile[u]
      BY <1>1, <1>2, <2>2 DEF Before
    <3> QED BY <1>6, <2>2, <3>1 DEF Delivered, NotOutBefore, OutOn
  <2> QED BY <2>1, <2>2 DEF NotOutBefore, OutOn
<1>9. TakenIsLast'
  <2> SUFFICES ASSUME NEW u \in Threads, NEW i \in DOMAIN out'[u], fate'[out'[u][i].file] = "taken"
               PROVE  pFile'[u] = out'[u][i].file /\ i = Len(out'[u])
    BY DEF TakenIsLast
  <2>1. i \in DOMAIN out[u] /\ out'[u][i] = out[u][i] /\ out[u][i].file # pFile[t]
    BY <1>2, <1>3, <1>6
  <2>2. fate[out[u][i].file] = "taken"
    BY <1>0, <1>3, <2>1, HeaderFacts
  <2>3. pFile[u] = out[u][i].file /\ i = Len(out[u])
    BY <2>1, <2>2 DEF Delivered, TakenIsLast
  <2>4. u # t
    BY <2>1, <2>3
  <2> QED BY <1>1, <1>4, <2>1, <2>3, <2>4
<1>10. SentIsOut'
  <2> SUFFICES ASSUME NEW f \in Files, fate'[f] = "sent"
               PROVE  \E u \in Threads : \E i \in DOMAIN out'[u] :
                          out'[u][i].file = f /\ Complete(out'[u][i])
    BY DEF SentIsOut, Complete
  <2> QED BY <1>3, <1>7 DEF Delivered, SentIsOut
<1>11. AllAccountedFor'
  <2>1. \A u \in Threads : u # t =>
          /\ tpc'[u] # "send" => inBuffer'[u] = 0
          /\ tpc'[u] \in {"count", "header", "sendheader"} /\ pFile'[u] \notin MayChange =>
                toRead'[u] = Size[pFile'[u]]
          /\ tpc'[u] \in {"read", "send"} => Follows(u, out[u][Len(out[u])])'
    BY <1>1, <1>4 DEF Delivered, AllAccountedFor, Follows
  <2> QED BY <1>1, <2>1 DEF AllAccountedFor
<1> QED BY <1>4, <1>8, <1>9, <1>10, <1>11 DEF Parts

\* A packet: one less in the buffer, one more behind the last header.
LEMMA SendPacketParts == ASSUME Delivered, NEW t \in Threads, SendPacket(t) PROVE Parts'
<1> DEFINE n == Len(out[t])
           h == [out[t][n] EXCEPT !.sent = @ + 1]
<1>0. TypeOK /\ AtWork /\ OneOwner
  BY DEF Delivered, Owned
<1>1. /\ tpc[t] = "send" /\ tpc'[t] = IF inBuffer[t] = 1 THEN "read" ELSE "send"
      /\ inBuffer'[t] = inBuffer[t] - 1 /\ inBuffer[t] \in Nat \ {0}
      /\ UNCHANGED <<pFile, toRead, fate>>
      /\ \A u \in Threads : u # t => tpc'[u] = tpc[u] /\ inBuffer'[u] = inBuffer[u]
  BY <1>0 DEF SendPacket, LastPacket, Goto, TypeOK, AtWork
<1>2. out[t] \in Seq(Header) /\ n \in DOMAIN out[t] /\ out[t][n] \in Header
  <2>1. out[t] \in Seq(Header) /\ out[t] # <<>>
    BY <1>0, <1>1 DEF AtWork, TypeOK
  <2> QED BY <2>1
<1>3. out' = [out EXCEPT ![t] = [@ EXCEPT ![n] = h]]
  BY <1>0, <1>2 DEF SendPacket, TypeOK
<1>4. /\ h.file = out[t][n].file /\ h.head = out[t][n].head /\ h.nFileSize = out[t][n].nFileSize
      /\ h.sent = out[t][n].sent + 1
  BY <1>2 DEF Header
<1> HIDE DEF h
<1>5. \A u \in Threads : u # t => out'[u] = out[u]
  BY <1>0, <1>3 DEF TypeOK
<1>6. /\ DOMAIN out'[t] = DOMAIN out[t] /\ Len(out'[t]) = n /\ out'[t][n] = h
      /\ \A i \in DOMAIN out[t] : i # n => out'[t][i] = out[t][i]
  <2>1. out'[t] = [out[t] EXCEPT ![n] = h]
    BY <1>0, <1>3 DEF TypeOK
  <2> QED BY <1>2, <2>1
<1>7. Follows(t, out[t][n])
  BY <1>1 DEF Delivered, AllAccountedFor
<1>8. pFile[t] \in Files /\ fate[pFile[t]] = "taken" /\ out[t][n].file = pFile[t]
  <2>1. pFile[t] \in Files /\ tpc[t] # "pop"
    BY <1>0, <1>1 DEF AtWork, Busy
  <2> QED BY <1>0, <1>7, <2>1 DEF OneOwner, Follows
<1> HIDE DEF n
<1>9. \A u \in Threads :
         /\ DOMAIN out'[u] = DOMAIN out[u] /\ Len(out'[u]) = Len(out[u])
         /\ \A i \in DOMAIN out[u] : out'[u][i].file = out[u][i].file
  <2> TAKE u \in Threads
  <2>1. CASE u # t
    BY <1>5, <2>1
  <2>2. CASE u = t
    BY <1>4, <1>6, <2>2 DEF n
  <2> QED BY <2>1, <2>2
<1>10. NotOutBefore'
  BY <1>1, <1>9 DEF Delivered, NotOutBefore, OutOn, Before
<1>11. OneHeader'
  BY <1>9 DEF Delivered, OneHeader
<1>12. TakenIsLast'
  BY <1>1, <1>9 DEF Delivered, TakenIsLast
<1>13. SentIsOut'
  <2> SUFFICES ASSUME NEW f \in Files, fate[f] = "sent"
               PROVE  \E u \in Threads : \E i \in DOMAIN out'[u] :
                          out'[u][i].file = f /\ Complete(out'[u][i])
    BY <1>1 DEF SentIsOut, Complete
  <2>1. PICK u \in Threads : \E i \in DOMAIN out[u] : out[u][i].file = f /\ Complete(out[u][i])
    BY DEF Delivered, SentIsOut
  <2>2. PICK i \in DOMAIN out[u] : out[u][i].file = f /\ Complete(out[u][i])
    BY <2>1
  <2>3. u = t => i # n
    BY <1>8, <2>2
  <2>4. i \in DOMAIN out'[u] /\ out'[u][i] = out[u][i]
    BY <1>5, <1>6, <2>2, <2>3
  <2> QED BY <2>2, <2>4
<1>14. AllAccountedFor'
  <2>1. /\ h.file = pFile[t] /\ h.head = "whole"
        /\ pFile[t] \notin MayChange =>
              h.sent + toRead[t] + inBuffer'[t] = Size[pFile[t]] /\ h.nFileSize = Size[pFile[t]]
    <3>1. out[t][n].sent \in Nat /\ toRead[t] \in Nat
      BY <1>0, <1>2 DEF TypeOK, Header
    <3>2. h.sent + toRead[t] + inBuffer'[t] = out[t][n].sent + toRead[t] + inBuffer[t]
      BY <1>1, <1>4, <3>1
    <3> QED BY <1>4, <1>7, <3>2 DEF Follows
  <2>2. Follows(t, out[t][Len(out[t])])' /\ (tpc'[t] # "send" => inBuffer'[t] = 0)
    BY <1>1, <1>6, <2>1 DEF Follows
  <2>3. \A u \in Threads : u # t =>
          /\ tpc'[u] # "send" => inBuffer'[u] = 0
          /\ tpc'[u] \in {"count", "header", "sendheader"} /\ pFile'[u] \notin MayChange =>
                toRead'[u] = Size[pFile'[u]]
          /\ tpc'[u] \in {"read", "send"} => Follows(u, out[u][Len(out[u])])'
    BY <1>1, <1>5 DEF Delivered, AllAccountedFor, Follows
  <2> QED BY <1>1, <2>2, <2>3 DEF AllAccountedFor
<1> QED BY <1>10, <1>11, <1>12, <1>13, <1>14 DEF Parts

LEMMA DeliveredStep == ASSUME Delivered, [Next]_vars PROVE Delivered'
<1>1. Owned'
  BY OwnedStep DEF Delivered
<1>2. ASSUME NEW t \in Threads, SendThread(t) PROVE Parts'
  <2>1. CASE Connect(t) \/ TryLock(t) \/ Unlock(t) \/ CountFile(t) \/ BuildHeader(t)
    BY <2>1, QuietParts
  <2>2. CASE TakeFront(t) \/ PopFront(t)
    BY <2>2, TakeFrontParts, PopFrontParts
  <2>3. CASE OpenFile(t) \/ ReadBlock(t)
    BY <2>3, WithinParts
  <2>4. CASE OpenFails(t) \/ ReadThrows(t) \/ EndOfFile(t) \/ SendPacketFails(t)
    BY <2>4, NoHeaderReturnParts
  <2>5. CASE SendHeader(t) \/ SendHeaderFails(t)
    BY <2>5, SendHeaderParts, SendHeaderFailsParts, NoHeaderReturnParts
  <2>6. CASE SendPacket(t)
    BY <2>6, SendPacketParts
  <2> QED BY <1>2, <2>1, <2>2, <2>3, <2>4, <2>5, <2>6 DEF SendThread
<1>3. ASSUME FindFiles \/ UNCHANGED vars PROVE Parts'
  BY <1>3, QuietParts
<1> QED BY <1>1, <1>2, <1>3 DEF Next, Parts, Delivered

LEMMA InitDelivered == Init => Delivered
<1> SUFFICES ASSUME Init PROVE Delivered
  OBVIOUS
<1>1. \A t \in Threads : DOMAIN out[t] = {} /\ tpc[t] = "unborn" /\ inBuffer[t] = 0
  BY DEF Init
<1>2. \A f \in Files : fate[f] = "queued"
  BY DEF Init
<1>3. Owned
  BY InitOwned
<1> QED
  BY <1>1, <1>2, <1>3 DEF Delivered, NotOutBefore, OutOn, Before, OneHeader, TakenIsLast,
     SentIsOut, AllAccountedFor

(***************************************************************************)
(* SentIsWholeAlways.  For any number of threads, files, sizes, blocks and *)
(* failures: a file SendFile answered true for has gone out once and       *)
(* whole, and what is still in a thread's hands is last on its connection. *)
(***************************************************************************)
THEOREM SentIsWholeAlways == Spec => []SentIsWhole
<1>1. Delivered => SentIsWhole
  <2> SUFFICES ASSUME Delivered PROVE SentIsWhole
    OBVIOUS
  <2>1. \A f \in Files : fate[f] = "sent" =>
           \E t \in Threads : \E i \in DOMAIN out[t] :
              /\ out[t][i].file = f /\ out[t][i].head = "whole"
              /\ f \notin MayChange => out[t][i].sent = out[t][i].nFileSize
    BY DEF Delivered, SentIsOut, Complete
  <2> QED BY <2>1 DEF Delivered, OneHeader, TakenIsLast, SentIsWhole
<1> QED BY <1>1, InitDelivered, DeliveredStep, PTL DEF Spec

-----------------------------------------------------------------------------
(* LastCountArrives.  The thread that raised m_nSendFiles last reads it    *)
(* back at least that high, and so does each that raises it meanwhile:     *)
(* the count is on a connection or with a thread on its way there.         *)

NothingLost == fails["send"] = 0 /\ \A t \in Threads : sock[t] # "bad"

CountArrived == \E t \in Threads : \E i \in DOMAIN out[t] : out[t][i].count = m_nSendFiles

CountComing ==
    \E t \in Threads : tpc[t] = "header" \/ (tpc[t] = "sendheader" /\ nCount[t] = m_nSendFiles)

CountOnItsWay == NothingLost /\ m_nSendFiles > 0 => CountArrived \/ CountComing

LEMMA NothingLostBefore ==
    ASSUME TypeOK, ThreadsEnd, [Next]_vars, NothingLost'
    PROVE  NothingLost /\ \A t \in Threads : ~SendHeaderFails(t)
<1>0. \A k \in Failure : fails[k] \in Nat /\ (fails'[k] = fails[k] \/ fails'[k] = fails[k] + 1)
  BY DEF TypeOK, Fail, Next, FindFiles, LookAtList, AllSpawned, WaitReturns, SetFinished, Spawn,
     SendThread, Connect, TryLock, TakeFront, PopFront, Unlock, OpenFails, OpenFile,
     CountFile, BuildHeader, SendHeader, SendHeaderFails, ReadBlock, ReadThrows, EndOfFile,
     SendPacket, SendPacketFails, SendFails, vars, Failure
<1>1. fails["send"] = 0
  BY <1>0 DEF NothingLost, Failure
<1>2. \A t \in Threads : sock[t] = "bad" => sock'[t] = "bad"
  <2>1. CASE sock' = sock
    BY <2>1
  <2>2. ASSUME NEW t \in Threads, Connect(t), NEW u \in Threads, sock[u] = "bad"
        PROVE  sock'[u] = "bad"
    BY <2>2 DEF Connect, Goto, TypeOK, ThreadsEnd
  <2> QED
    BY <2>1, <2>2 DEF Next, FindFiles, LookAtList, AllSpawned, WaitReturns, SetFinished, Spawn,
       SendThread, TryLock, TakeFront, PopFront, Unlock, OpenFails, OpenFile,
       CountFile, BuildHeader, SendHeader, SendHeaderFails, ReadBlock, ReadThrows, EndOfFile,
       SendPacket, SendPacketFails, vars, threadVars
<1>3. NothingLost
  BY <1>1, <1>2 DEF NothingLost
<1>4. \A t \in Threads : ~SendHeaderFails(t)
  BY <1>0, <1>1, <1>3 DEF SendHeaderFails, SendFails, Fail, NothingLost, TypeOK, Failure
<1> QED BY <1>3, <1>4

Counted == TypeOK /\ AtWork /\ CountsIncrease /\ CountAhead

\* It gets on its way with CountFile, and only a header that fails stops it.
LEMMA CountGoesOn ==
    ASSUME Counted, [Next]_vars, \A t \in Threads : ~SendHeaderFails(t),
           m_nSendFiles > 0 => CountArrived \/ CountComing, m_nSendFiles' > 0
    PROVE  CountArrived' \/ CountComing'
<1>0. TypeOK /\ AtWork
  BY DEF Counted
<1>1. CASE \E t \in Threads : CountFile(t)
  <2>1. PICK t \in Threads : CountFile(t)
    BY <1>1
  <2>2. tpc'[t] = "header"
    BY <1>0, <2>1 DEF CountFile, Goto, TypeOK
  <2> QED BY <2>2 DEF CountComing
<1>2. CASE ~ \E t \in Threads : CountFile(t)
  <2>1. m_nSendFiles' = m_nSendFiles
    BY <1>2 DEF Next, FindFiles, LookAtList, AllSpawned, WaitReturns, SetFinished, Spawn,
       SendThread, Connect, TryLock, TakeFront, PopFront, Unlock, OpenFails, OpenFile,
       BuildHeader, SendHeader, SendHeaderFails, ReadBlock, ReadThrows, EndOfFile,
       SendPacket, SendPacketFails, vars
  <2>2. CASE CountArrived
    <3>1. PICK t \in Threads : \E i \in DOMAIN out[t] : out[t][i].count = m_nSendFiles
      BY <2>2 DEF CountArrived
    <3>2. PICK i \in DOMAIN out[t] : out[t][i].count = m_nSendFiles
      BY <3>1
    <3>3. i \in DOMAIN out'[t] /\ out'[t][i].count = out[t][i].count
      <4>1. ASSUME NEW head \in {"whole", "part"},
                   out' = [out EXCEPT ![t] = Append(@, NewHeader(t, head))]
            PROVE  i \in DOMAIN out'[t] /\ out'[t][i] = out[t][i]
        <5> DEFINE h == NewHeader(t, head)
        <5>1. out'[t] = Append(out[t], h) /\ out[t] \in Seq(Header)
          BY <1>0, <4>1 DEF TypeOK
        <5> HIDE DEF h
        <5> QED BY <3>2, <5>1
      <4> QED BY <3>2, <4>1, HeadersStep DEF Counted
    <3> QED BY <2>1, <3>2, <3>3 DEF CountArrived
  <2>3. CASE CountComing
    <3>1. PICK t \in Threads : tpc[t] = "header" \/ (tpc[t] = "sendheader" /\ nCount[t] = m_nSendFiles)
      BY <2>3 DEF CountComing
    <3>2. CASE tpc'[t] = tpc[t] /\ nCount'[t] = nCount[t]
      BY <2>1, <3>1, <3>2 DEF CountComing
    <3>3. CASE BuildHeader(t)
      BY <1>0, <2>1, <3>3 DEF BuildHeader, HeaderCount, Goto, TypeOK, CountComing
    <3>4. CASE SendHeader(t)
      <4> DEFINE h == NewHeader(t, "whole")
      <4>1. tpc[t] = "sendheader" /\ h.count = nCount[t] /\ h \in Header
        BY <1>0, <3>4, NewHeaderType DEF SendHeader, Goto, NewHeader
      <4>2. out'[t] = Append(out[t], h) /\ out[t] \in Seq(Header)
        BY <1>0, <3>4 DEF SendHeader, NewHeader, TypeOK
      <4> HIDE DEF h
      <4>3. Len(out[t]) + 1 \in DOMAIN out'[t] /\ out'[t][Len(out[t]) + 1] = h
        BY <4>1, <4>2
      <4> QED BY <2>1, <3>1, <4>1, <4>3 DEF CountArrived
    <3>5. ASSUME SendThread(t) PROVE BuildHeader(t) \/ SendHeader(t)
      BY <1>0, <1>2, <3>1, <3>5 DEF SendThread, Connect, TryLock, TakeFront, PopFront, Unlock,
         OpenFails, OpenFile, ReadBlock, ReadThrows, EndOfFile, SendPacket, SendPacketFails, Goto
    <3>6. ASSUME NEW u \in Threads, SendThread(u) \/ Spawn(u), u # t
          PROVE  tpc'[t] = tpc[t] /\ nCount'[t] = nCount[t]
      BY <1>0, <3>6, OtherThread
    <3>7. ~Spawn(t)
      BY <3>1 DEF Spawn, Goto
    <3>8. ASSUME UNCHANGED <<tpc, nCount>> PROVE tpc'[t] = tpc[t] /\ nCount'[t] = nCount[t]
      BY <3>8
    <3> QED
      BY <3>2, <3>3, <3>4, <3>5, <3>6, <3>7, <3>8
      DEF Next, FindFiles, LookAtList, AllSpawned, WaitReturns, SetFinished, vars, threadVars
  <2> QED BY <2>1, <2>2, <2>3
<1> QED BY <1>1, <1>2

LEMMA CountOnItsWayStep ==
    ASSUME Counted, ThreadsEnd, CountOnItsWay, [Next]_vars
    PROVE  CountOnItsWay'
<1> SUFFICES ASSUME NothingLost', m_nSendFiles' > 0
             PROVE  CountArrived' \/ CountComing'
  BY DEF CountOnItsWay
<1>1. NothingLost /\ \A t \in Threads : ~SendHeaderFails(t)
  BY NothingLostBefore DEF Counted
<1> QED BY <1>1, CountGoesOn DEF CountOnItsWay

(***************************************************************************)
(* LastCountArrivesAlways.  For any number of files and threads, if every  *)
(* thread ran and every Send succeeded: the dialog's maximum is the number *)
(* of files opened.                                                        *)
(***************************************************************************)
THEOREM LastCountArrivesAlways == Spec => []LastCountArrives
<1> DEFINE Inv == Owned /\ PoolEnds /\ ThreadsEnd /\ Counted /\ CountOnItsWay
<1>1. Init => Inv
  <2> SUFFICES ASSUME Init PROVE Inv
    OBVIOUS
  <2>1. Owned /\ PoolEnds /\ ThreadsEnd
    BY InitOwned DEF Init, PoolEnds, ThreadsEnd, NoThreadMissing, AllAreOver
  <2>2. \A t \in Threads : DOMAIN out[t] = {} /\ tpc[t] = "unborn"
    BY DEF Init
  <2>3. Counted
    BY <2>1, <2>2 DEF Counted, Owned, CountsIncrease, CountAhead
  <2>4. CountOnItsWay
    BY DEF Init, CountOnItsWay
  <2> QED BY <2>1, <2>3, <2>4
<1>2. Inv /\ [Next]_vars => Inv'
  BY OwnedStep, PoolEndsStep, ThreadsEndStep, TypedStep, CountsStep, CountAheadStep,
     CountOnItsWayStep DEF Owned, Counted
<1>3. Inv => LastCountArrives
  <2> SUFFICES ASSUME Inv, finished, NothingLost, m_nSendFiles > 0, NoThreadMissing
               PROVE  CountArrived
    BY DEF LastCountArrives, NothingLost, NoThreadMissing, CountArrived
  <2>1. \A t \in Threads : tpc[t] \in {"unborn", "ended"}
    BY DEF PoolEnds, AllAreOver
  <2> QED BY <2>1 DEF CountOnItsWay, CountComing
<1> HIDE DEF Inv
<1> QED BY <1>1, <1>2, <1>3, PTL DEF Spec

-----------------------------------------------------------------------------
(* The same without a bound on the failures: as long as no file has failed *)
(* the count is on its way.                                                *)

NothingFailed == \A f \in Files : fate[f] # "failed"

CountReaches == NothingFailed /\ m_nSendFiles > 0 => CountArrived \/ CountComing

\* A file that has failed stays so,
LEMMA FailedStays ==
    ASSUME Owned, [Next]_vars, NEW f \in Files, fate[f] = "failed"
    PROVE  fate'[f] = "failed"
<1>1. TypeOK /\ f # 0
  BY HeaderFacts DEF Owned
<1>2. ASSUME NEW t \in Threads, PopFront(t) PROVE fate'[f] = "failed"
  <2>1. Head(m_FileListtoSend) = m_FileListtoSend[1] /\ 1 \in DOMAIN m_FileListtoSend
    BY <1>1, <1>2 DEF PopFront, TypeOK
  <2>2. f # Head(m_FileListtoSend)
    BY <2>1 DEF Owned, OneOwner
  <2> QED BY <1>1, <1>2, <2>2 DEF PopFront, TypeOK
<1>3. ASSUME NEW t \in Threads,
             \/ OpenFails(t) \/ SendHeaderFails(t) \/ ReadThrows(t)
             \/ EndOfFile(t) \/ SendPacketFails(t)
      PROVE  fate'[f] = "failed"
  <2>1. PICK result \in {"sent", "failed"} : fate' = [fate EXCEPT ![pFile[t]] = result]
    BY <1>3 DEF OpenFails, SendHeaderFails, ReadThrows, EndOfFile, SendPacketFails, Returns
  <2>2. tpc[t] # "pop"
    BY <1>3 DEF OpenFails, SendHeaderFails, ReadThrows, EndOfFile, SendPacketFails, Goto
  <2>3. f # pFile[t]
    BY <2>2 DEF Owned, OneOwner
  <2> QED BY <1>1, <2>1, <2>3 DEF TypeOK
<1>4. ASSUME UNCHANGED fate PROVE fate'[f] = "failed"
  BY <1>4
<1> QED
  BY <1>2, <1>3, <1>4 DEF Next, FindFiles, LookAtList, AllSpawned, WaitReturns, SetFinished, Spawn,
     SendThread, Connect, TryLock, TakeFront, Unlock, OpenFile, CountFile, BuildHeader,
     SendHeader, ReadBlock, SendPacket, vars

\* and a header that fails makes one.
LEMMA CountReachesStep ==
    ASSUME Owned, Counted, CountReaches, [Next]_vars
    PROVE  CountReaches'
<1> SUFFICES ASSUME NothingFailed', m_nSendFiles' > 0 PROVE CountArrived' \/ CountComing'
  BY DEF CountReaches
<1>1. NothingFailed
  BY FailedStays DEF NothingFailed
<1>2. ASSUME NEW t \in Threads, SendHeaderFails(t) PROVE FALSE
  <2>1. pFile[t] \in Files /\ TypeOK
    BY <1>2 DEF SendHeaderFails, Goto, Owned, AtWork, Busy
  <2>2. fate'[pFile[t]] = "failed"
    BY <1>2, <2>1 DEF SendHeaderFails, Returns, TypeOK
  <2> QED BY <2>1, <2>2 DEF NothingFailed
<1> QED BY <1>1, <1>2, CountGoesOn DEF CountReaches

\* When all files are sent it has arrived.
LEMMA AllSentCount ==
    ASSUME Owned, Counted, CountReaches, \A f \in Files : fate[f] = "sent", m_nSendFiles > 0
    PROVE  CountArrived
<1>1. CountArrived \/ CountComing
  BY DEF CountReaches, NothingFailed
<1>2. ASSUME NEW t \in Threads, tpc[t] \in {"header", "sendheader"} PROVE FALSE
  <2>1. pFile[t] \in Files /\ tpc[t] # "pop"
    BY <1>2 DEF Owned, AtWork, Busy
  <2>2. fate[pFile[t]] = "taken"
    BY <2>1 DEF Owned, OneOwner
  <2> QED BY <2>1, <2>2
<1> QED BY <1>1, <1>2 DEF CountComing
=============================================================================
