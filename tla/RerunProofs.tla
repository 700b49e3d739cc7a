----------------------------- MODULE RerunProofs -----------------------------
(***************************************************************************)
(* Proofs about Rerun for any number of copies, connections and files.     *)
(***************************************************************************)
EXTENDS Rerun, SequenceTheorems, FiniteSetTheorems, TLAPS

-----------------------------------------------------------------------------
(* The type invariant.  A row's copy and a file's index are well typed     *)
(* only because a handler runs for a connection that some copy has made    *)
(* and that has what the handler is about.                                 *)

Handled ==
    /\ \A c \in Conns : link[c] # "none" => of[c] # 0
    /\ copying => copy # 0
    /\ ioPc \notin {"idle", "error"} => link[cur] # "none"
    /\ ioPc \in {"found", "row"} => files[cur] # 0
    /\ ioPc = "saved" => filing[cur] # 0
    /\ ioPc = "error" => failed < MaxBadAccepts

\* Inject is at work for a copy that may still be started.
Begun == uiPc \in {"counts", "clients", "join", "start"} => copy < MaxCopies

Typed == TypeOK /\ Handled /\ Begun

Row == [copy : 1..MaxCopies, nStatus : BOOLEAN]

LEMMA Found == ASSUME NEW n \in 1..MaxCopies PROVE FoundIn[n] \in Nat
BY RerunAssumption, ElementOfSeq DEF MaxCopies

LEMMA CopiesAreNat == MaxCopies \in Nat /\ MaxFiles \in Nat /\ UINT_MAX \in Nat /\ MaxBadAccepts \in Nat
BY RerunAssumption, LenProperties DEF MaxCopies

LEMMA InitTyped == Init => Typed
<1> SUFFICES ASSUME Init PROVE Typed
  OBVIOUS
<1>1. RowsOK /\ Len(items) = 0
  BY EmptySeq DEF Init, RowsOK
<1>2. NumbersOK
  BY <1>1, CopiesAreNat DEF Init, NumbersOK
<1>3. FlagsOK /\ ThreadsOK
  BY DEF Init, FlagsOK, ThreadsOK
<1>4. Handled
  BY DEF Init, Handled
<1>5. Begun
  BY DEF Init, Begun
<1> QED BY <1>1, <1>2, <1>3, <1>4, <1>5 DEF Typed, TypeOK

\* The flags and the places of the threads, in any step.
LEMMA FlagsStep == ASSUME Typed, [Next]_vars PROVE FlagsOK'
<1> USE DEF Typed, TypeOK, FlagsOK
<1>1. CASE IoLoad \/ \E c \in Conns : Connect(c)
  BY <1>1 DEF Connect, IoLoad, Accept, AcceptError, Gone, Header, FileDone, Load, sender, threads
<1>2. CASE IoStep
  BY <1>2 DEF IoStep, StoreClients, StoreFound, PushRow, StoreSaved, Stored, threads
<1>3. CASE SetFinished
  BY <1>3 DEF SetFinished, threads
<1>4. CASE ClearList \/ Swap \/ Close
  BY <1>4 DEF ClearList, Swap, Close, sender, threads
<1>5. CASE ResetFound \/ ResetClients \/ JoinWorker
  BY <1>5 DEF ResetFound, ResetClients, JoinWorker, Joined, sender, threads
<1>6. CASE StartCopy \/ Show \/ Destroy
  BY <1>6 DEF StartCopy, Show, Destroy, sender, threads
<1>7. CASE Worker \/ UNCHANGED vars
  BY <1>7 DEF Worker, vars, sender, threads
<1> QED BY <1>1, <1>2, <1>3, <1>4, <1>5, <1>6, <1>7 DEF Next, InHandler

LEMMA ThreadsStep == ASSUME Typed, [Next]_vars PROVE ThreadsOK'
<1> USE DEF Typed, TypeOK, ThreadsOK
<1>1. CASE SetFinished \/ IoLoad \/ \E c \in Conns : Connect(c)
  BY <1>1 DEF SetFinished, Connect, IoLoad, Accept, AcceptError, Gone, Header, FileDone, Load,
     io, threads
<1>2. CASE IoStep
  BY <1>2 DEF IoStep, StoreClients, StoreFound, PushRow, StoreSaved, Stored, threads
<1>4. CASE ClearList \/ Swap \/ Close
  BY <1>4 DEF ClearList, Swap, Close, Goto, io, threads
<1>5. CASE ResetFound \/ ResetClients \/ JoinWorker
  BY <1>5 DEF ResetFound, ResetClients, JoinWorker, Goto, io, threads
<1>6. CASE StartCopy \/ Show \/ Destroy
  BY <1>6 DEF StartCopy, Show, Destroy, Goto, io, threads
<1>7. CASE Worker \/ UNCHANGED vars
  BY <1>7 DEF Worker, Verdict, vars, io, threads
<1> QED BY <1>1, <1>2, <1>4, <1>5, <1>6, <1>7 DEF Next, InHandler

\* The row that PushRow makes, and the one StoreSaved marks.
LEMMA ItemsStep ==
    ASSUME Typed, PushRow \/ StoreSaved
    PROVE  /\ items' \in Seq(Row) /\ Len(items) \in Nat
           /\ Len(items') = IF PushRow THEN Len(items) + 1 ELSE Len(items)
<1>1. items \in Seq(Row) /\ Len(items) \in Nat
  BY LenProperties DEF Typed, TypeOK, RowsOK, Row
<1>2. CASE PushRow
  <2> DEFINE row == [copy |-> of[cur], nStatus |-> FALSE]
  <2>1. row \in Row
    BY <1>2 DEF PushRow, Typed, TypeOK, NumbersOK, Handled, Row
  <2>2. items' = Append(items, row)
    BY <1>2 DEF PushRow
  <2> HIDE DEF row
  <2> QED BY <1>1, <1>2, <2>1, <2>2, AppendProperties
<1>3. CASE StoreSaved /\ ~PushRow
  <2> DEFINE row == [items[filing[cur]] EXCEPT !.nStatus = TRUE]
  <2>1. filing[cur] \in 1..Len(items)
    <3>1. filing[cur] \in 0..Len(items) /\ filing[cur] # 0
      BY <1>3 DEF StoreSaved, Typed, TypeOK, NumbersOK, Handled
    <3> QED BY <1>1, <3>1
  <2>2. items[filing[cur]] \in Row
    BY <1>1, <2>1, ElementOfSeq
  <2>3. row \in Row
    BY <2>2 DEF Row
  <2>4. items' = [items EXCEPT ![filing[cur]] = row]
    BY <1>3 DEF StoreSaved
  <2> HIDE DEF row
  <2> QED BY <1>1, <1>3, <2>1, <2>3, <2>4, ExceptSeq
<1> QED BY <1>2, <1>3

LEMMA RowsStep == ASSUME Typed, [Next]_vars PROVE RowsOK'
<1> USE DEF Typed, TypeOK, RowsOK
<1>1. CASE UNCHANGED <<items, lists>>
  BY <1>1 DEF lists
<1>2. CASE PushRow
  <2>1. items' \in Seq(Row) /\ Len(items) + 1 \in Nat
    BY <1>2, ItemsStep
  <2>2. m_vecFileTemp' \in Seq(Nat)
    BY <1>2, <2>1, AppendProperties DEF PushRow
  <2>3. UNCHANGED <<m_vecFileList, vecTemp>>
    BY <1>2 DEF PushRow, Stored
  <2> QED BY <2>1, <2>2, <2>3 DEF Row
<1>3. CASE StoreSaved
  <2>1. items' \in Seq(Row)
    BY <1>3, ItemsStep
  <2>2. UNCHANGED <<m_vecFileTemp, m_vecFileList, vecTemp>>
    BY <1>3 DEF StoreSaved, Stored
  <2> QED BY <2>1, <2>2 DEF Row
<1>4. CASE ClearList \/ Swap
  BY <1>4, EmptySeq DEF ClearList, Swap, io
<1>5. CASE Show
  BY <1>5, EmptySeq, ConcatProperties DEF Show, AtTheEnd, io
<1>6. CASE UNCHANGED vars \/ SetFinished \/ Close \/ ResetFound \/ ResetClients
           \/ JoinWorker \/ StartCopy \/ Destroy \/ Worker \/ \E c \in Conns : Connect(c)
  BY <1>1, <1>6 DEF vars, SetFinished, Close, ResetFound, ResetClients, JoinWorker, StartCopy, Destroy,
     Worker, Connect, io
<1>7. CASE StoreClients \/ StoreFound
           \/ IoLoad
  BY <1>1, <1>7 DEF StoreClients, StoreFound, Stored, IoLoad, Accept, AcceptError, Gone, Header,
     FileDone, Load, lists
<1> QED BY <1>2, <1>3, <1>4, <1>5, <1>6, <1>7 DEF Next, InHandler, IoStep

\* The numbers, step by step.
LEMMA LoadStep ==
    ASSUME Typed, IoLoad
    PROVE  NumbersOK' /\ Handled'
<1>1. PICK number \in Nat, next \in {"accept", "error", "gone", "found", "saved"}, d \in Conns :
          /\ Load(d, number, next)
          /\ next # "error" => link[d] # "none"
          /\ next = "found" => files[d] # 0
          /\ next = "saved" => filing[d] # 0
          /\ next = "error" => failed < MaxBadAccepts
  <2>1. m_nClients \in Nat /\ m_nFoundFiles \in Nat /\ m_nSavedFiles \in Nat
    BY CopiesAreNat DEF Typed, TypeOK, NumbersOK
  <2>2. \A c \in Conns : files[c] \in Nat
    BY CopiesAreNat DEF Typed, TypeOK, NumbersOK
  <2>3. cur \in Conns
    BY DEF Typed, TypeOK, NumbersOK
  <2>4. CASE AcceptError
    BY <2>1, <2>3, <2>4 DEF AcceptError
  <2>5. CASE ~AcceptError
    BY <2>1, <2>2, <2>5 DEF IoLoad, Accept, Gone, Header, FileDone
  <2> QED BY <2>4, <2>5
<1>2. NumbersOK'
  BY <1>1 DEF Load, Typed, TypeOK, NumbersOK, sender, lists, numbers
<1>3. Handled'
  BY <1>1 DEF Load, Typed, Handled, sender, numbers
<1> QED BY <1>2, <1>3

LEMMA StoreStep == ASSUME Typed, IoStep PROVE NumbersOK' /\ Handled'
<1> USE DEF Stored, Typed, TypeOK, NumbersOK
<1>1. CASE StoreClients
  <2>1. m_nClients' \in 0..UINT_MAX
    <3>1. m_nClients' = (IF ioPc = "gone" THEN seen - 1 ELSE seen + 1) % (UINT_MAX + 1)
      BY <1>1 DEF StoreClients, OneMoreOrLess, UINT
    <3>2. seen \in Nat
      OBVIOUS
    <3> QED BY <3>1, <3>2, CopiesAreNat
  <2>2. failed' \in 0..MaxBadAccepts
    <3>1. failed \in 0..MaxBadAccepts /\ (ioPc = "error" => failed < MaxBadAccepts)
      BY DEF Handled
    <3>2. failed' = IF ioPc = "error" THEN failed + 1 ELSE failed
      BY <1>1 DEF StoreClients
    <3> QED BY ONLY <3>1, <3>2, CopiesAreNat
  <2>3. link' \in [Conns -> {"none", "pending", "open", "closed"}]
    BY <1>1 DEF StoreClients
  <2>4. NumbersOK'
    BY <1>1, <2>1, <2>2, <2>3 DEF StoreClients
  <2>5. Handled'
    BY <1>1 DEF StoreClients, Handled
  <2> QED BY <2>4, <2>5
<1>2. CASE StoreFound
  <2>1. m_nFoundFiles' \in Nat
    BY <1>2, Found DEF StoreFound, LargerFound, Handled
  <2> QED BY <1>2, <2>1 DEF StoreFound, Handled
<1>3. CASE PushRow
  <2>1. Len(items) \in Nat /\ Len(items') = Len(items) + 1
    BY <1>3, ItemsStep
  <2>2. /\ filing' = [filing EXCEPT ![cur] = Len(items) + 1]
        /\ files' = [files EXCEPT ![cur] = @ - 1]
        /\ ioPc = "row" /\ ioPc' = "idle"
        /\ UNCHANGED <<link, numbers>> /\ Stored
    BY <1>3 DEF PushRow
  <2>3. filing' \in [Conns -> 0..Len(items')]
    BY <2>1, <2>2
  <2>4. files' \in [Conns -> 0..MaxFiles]
    BY <2>2, CopiesAreNat DEF Handled
  <2>5. NumbersOK'
    BY <2>2, <2>3, <2>4 DEF numbers
  <2>6. Handled'
    BY <2>2 DEF Handled
  <2> QED BY <2>5, <2>6
<1>4. CASE StoreSaved
  <2>1. Len(items) \in Nat /\ Len(items') = Len(items)
    <3>1. ~PushRow
      BY <1>4 DEF StoreSaved, PushRow
    <3> QED BY <1>4, <3>1, ItemsStep
  <2>2. /\ filing' = [filing EXCEPT ![cur] = 0]
        /\ m_nSavedFiles' = seen + 1 /\ ioPc' = "idle"
        /\ UNCHANGED <<link, files, m_vecFileTemp, m_nFoundFiles, m_nClients, failed>> /\ Stored
    BY <1>4 DEF StoreSaved
  <2>3. NumbersOK'
    BY <2>1, <2>2
  <2>4. Handled'
    BY <2>2 DEF Handled
  <2> QED BY <2>3, <2>4
<1> QED BY <1>1, <1>2, <1>3, <1>4 DEF IoStep

LEMMA OtherStep ==
    ASSUME Typed, [Next]_vars, ~IoLoad, ~IoStep
    PROVE  NumbersOK' /\ Handled'
<1> USE CopiesAreNat DEF Typed, TypeOK, NumbersOK
<1>1. ASSUME NEW c \in Conns, Connect(c) PROVE NumbersOK' /\ Handled'
  <2>1. NumbersOK'
    BY <1>1 DEF Connect, io, lists, numbers
  <2>2. Handled'
    BY <1>1 DEF Connect, Handled, io, numbers
  <2> QED BY <2>1, <2>2
<1>2. CASE SetFinished \/ Close \/ Worker \/ UNCHANGED vars
  <2>1. NumbersOK'
    BY <1>2 DEF SetFinished, Close, Worker, vars, sender, io, lists, numbers
  <2>2. Handled'
    BY <1>2 DEF SetFinished, Close, Worker, vars, sender, io, numbers, Handled
  <2> QED BY <2>1, <2>2
<1>3. CASE ClearList \/ ResetFound \/ ResetClients \/ JoinWorker \/ Destroy
  <2>1. Len(m_vecFileList) \in Nat
    BY LenProperties DEF RowsOK
  <2>2. NumbersOK'
    <3>1. CASE ClearList
      <4>1. /\ cleared' = cleared + Len(m_vecFileList)
            /\ m_nSavedFiles' = 0 /\ m_vecFileSize' = 0 /\ nItemCount' = 0
            /\ UNCHANGED <<sender, io, m_nFoundFiles, m_nClients, failed>>
        BY <3>1 DEF ClearList, NothingShown
      <4> QED BY <2>1, <4>1 DEF sender, io
    <3>2. CASE ResetFound \/ ResetClients
      <4>1. /\ m_nFoundFiles' \in {m_nFoundFiles, 0} /\ m_nClients' \in {m_nClients, 0}
            /\ failed' \in {failed, 0}
            /\ UNCHANGED <<sender, io, lists, m_nSavedFiles>>
        BY <3>2 DEF ResetFound, NoneFound, ResetClients
      <4> QED BY <4>1 DEF sender, io, lists
    <3>3. CASE JoinWorker \/ Destroy
      BY <3>3 DEF JoinWorker, Destroy, sender, io, lists, numbers
    <3> QED BY <1>3, <3>1, <3>2, <3>3
  <2>3. Handled'
    <3>1. UNCHANGED <<sender, io>> /\ failed' \in {failed, 0}
      BY <1>3 DEF ClearList, ResetFound, ResetClients, JoinWorker, Destroy, numbers
    <3>2. failed < MaxBadAccepts => failed' < MaxBadAccepts
      BY <3>1
    <3> QED BY <3>1, <3>2 DEF sender, io, Handled
  <2> QED BY <2>2, <2>3
<1>4. CASE Swap \/ Show
  <2>1. Len(m_vecFileList') \in Nat
    BY RowsStep, LenProperties DEF RowsOK
  <2>2. NumbersOK'
    BY <1>4, <2>1 DEF Swap, Show, sender, io, lists, numbers
  <2>3. Handled'
    BY <1>4 DEF Swap, Show, sender, io, numbers, Handled
  <2> QED BY <2>2, <2>3
<1>5. CASE StartCopy
  <2>1. copy \in Nat /\ copy < MaxCopies /\ copy' = copy + 1
    BY <1>5 DEF StartCopy, Goto, Begun
  <2>2. NumbersOK'
    BY <1>5, <2>1 DEF StartCopy, io, lists, numbers
  <2>3. Handled'
    BY <1>5, <2>1 DEF StartCopy, io, numbers, Handled
  <2> QED BY <2>2, <2>3
<1> QED BY <1>1, <1>2, <1>3, <1>4, <1>5 DEF Next, InHandler

LEMMA BegunStep == ASSUME Typed, [Next]_vars PROVE Begun'
<1> USE CopiesAreNat DEF Typed, Begun
<1>1. CASE \/ UNCHANGED vars \/ SetFinished \/ IoStep \/ Worker
           \/ IoLoad \/ \E c \in Conns : Connect(c)
  <2>1. UNCHANGED <<uiPc, copy>>
    BY <1>1 DEF vars, SetFinished, IoStep, StoreClients, StoreFound, PushRow, StoreSaved, Stored,
       Worker,
       Connect, IoLoad, Accept, AcceptError, Gone, Header, FileDone, Load, sender
  <2> QED BY <2>1
<1>2. CASE \/ ClearList \/ Swap \/ Close \/ ResetFound \/ ResetClients \/ JoinWorker \/ Show \/ Destroy
  BY <1>2 DEF ClearList, Swap, Close, ResetFound, ResetClients, JoinWorker, Show, Destroy, Goto, sender
<1>3. CASE StartCopy
  BY <1>3 DEF StartCopy, Goto
<1> QED BY <1>1, <1>2, <1>3 DEF Next, InHandler

LEMMA TypedStep == ASSUME Typed, [Next]_vars PROVE Typed'
<1>1. NumbersOK' /\ Handled'
  BY LoadStep, StoreStep, OtherStep
<1> QED BY <1>1, FlagsStep, ThreadsStep, RowsStep, BegunStep DEF Typed, TypeOK

LEMMA TypedAlways == Spec => []Typed
BY InitTyped, TypedStep, PTL DEF Spec

(***************************************************************************)
(* TypeCorrect.  The dialog's variables keep their types, the UINT its     *)
(* width included, for any number of copies and connections.               *)
(***************************************************************************)
THEOREM TypeCorrect == Spec => []TypeOK
<1>1. Typed => TypeOK
  BY DEF Typed
<1> QED BY <1>1, TypedAlways, PTL

-----------------------------------------------------------------------------
(* The list control.  Between any two steps OnTimer's size, the control's  *)
(* item count and the list agree.                                          *)

Agree == m_vecFileSize = nItemCount /\ nItemCount = Len(m_vecFileList)

LEMMA AgreeStep == ASSUME Typed, Agree, [Next]_vars PROVE Agree'
<1>1. CASE UNCHANGED lists
  BY <1>1 DEF lists, Agree
<1>2. CASE ClearList
  BY <1>2 DEF ClearList, NothingShown, Agree
<1>3. CASE Swap
  BY <1>3 DEF Swap, Agree
<1>4. CASE Show
  <2>1. m_vecFileList \in Seq(Nat) /\ vecTemp \in Seq(Nat)
    BY DEF Typed, TypeOK, RowsOK
  <2>2. /\ Len(m_vecFileList') = Len(m_vecFileList) + Len(vecTemp)
        /\ Len(m_vecFileList) \in Nat /\ Len(vecTemp) \in Nat
    BY <1>4, <2>1, ConcatProperties, LenProperties DEF Show, AtTheEnd
  <2> QED BY <1>4, <2>2 DEF Show, Agree
<1>5. CASE IoStep
  BY <1>5 DEF IoStep, StoreClients, StoreFound, PushRow, StoreSaved, Stored, Agree
<1>6. CASE UNCHANGED vars \/ SetFinished \/ Close \/ ResetFound \/ ResetClients
           \/ JoinWorker \/ StartCopy \/ Destroy \/ Worker
  BY <1>1, <1>6 DEF vars, SetFinished, Close, ResetFound, ResetClients, JoinWorker, StartCopy, Destroy,
     Worker
<1>7. CASE IoLoad \/ \E c \in Conns : Connect(c)
  BY <1>1, <1>7 DEF Connect, IoLoad, Accept, AcceptError, Gone, Header, FileDone, Load
<1> QED BY <1>2, <1>3, <1>4, <1>5, <1>6, <1>7 DEF Next, InHandler

(***************************************************************************)
(* ControlAgreesAlways.  Whatever the io thread and the resets of Inject   *)
(* do, between two handlers the list control has as many rows as           *)
(* m_vecFileList, so OnLvnGetdispinfoListFile indexes rows that are there. *)
(***************************************************************************)
THEOREM ControlAgreesAlways == Spec => []ControlAgrees
<1>1. Init => Agree
  BY DEF Init, Agree
<1>2. Agree => ControlAgrees
  BY DEF Agree, ControlAgrees
<1>3. Typed /\ Agree /\ [Next]_vars => Agree'
  BY AgreeStep
<1> QED BY TypedAlways, <1>1, <1>2, <1>3, PTL DEF Spec

-----------------------------------------------------------------------------
(* The end of the dialog.  m_pThreadSaveFile is joinable from the first    *)
(* StartCopy on, except between the join and the next.                     *)

Worked ==
    /\ joinable <=> copy # 0 /\ uiPc # "start"
    /\ uiPc = "join" => copy # 0
    /\ uiPc # "aborted"
    /\ terminated <=> uiPc = "ended" /\ copy # 0

LEMMA WorkedStep == ASSUME Typed, Worked, [Next]_vars PROVE Worked'
<1>1. CASE \/ UNCHANGED vars \/ SetFinished \/ IoStep \/ Worker
           \/ IoLoad \/ \E c \in Conns : Connect(c)
  <2>1. UNCHANGED <<uiPc, copy, joinable, terminated>>
    BY <1>1 DEF vars, SetFinished, IoStep, StoreClients, StoreFound, PushRow, StoreSaved, Stored,
       Worker,
       Connect, IoLoad, Accept, AcceptError, Gone, Header, FileDone, Load, sender, threads
  <2> QED BY <2>1 DEF Worked
<1>2. CASE ClearList \/ Swap \/ Close \/ ResetFound \/ Show
  <2>1. UNCHANGED <<copy, joinable, terminated>>
    BY <1>2 DEF ClearList, Swap, Close, ResetFound, Show, sender, threads
  <2>2. uiPc \notin {"start", "ended"} /\ uiPc' \notin {"start", "join", "aborted", "ended"}
    BY <1>2 DEF ClearList, Swap, Close, ResetFound, Show, Goto
  <2> QED BY <2>1, <2>2 DEF Worked
<1>3. CASE ResetClients
  BY <1>3 DEF ResetClients, Goto, sender, Worked
<1>4. CASE JoinWorker
  BY <1>4 DEF JoinWorker, Joined, Goto, sender, Worked
<1>5. CASE StartCopy
  <2>1. copy \in Nat /\ copy' = copy + 1
    BY <1>5, CopiesAreNat DEF StartCopy, Typed, TypeOK, NumbersOK
  <2>2. copy' # 0
    BY <2>1
  <2>3. ~joinable /\ uiPc = "start"
    BY <1>5 DEF StartCopy, Goto, Worked
  <2>4. joinable' = TRUE /\ ~terminated' /\ uiPc' = "idle"
    BY <1>5, <2>3 DEF StartCopy, Goto
  <2> QED BY <2>2, <2>4 DEF Worked
<1>6. CASE Destroy
  BY <1>6 DEF Destroy, Goto, sender, Worked
<1> QED BY <1>1, <1>2, <1>3, <1>4, <1>5, <1>6 DEF Next, InHandler

(***************************************************************************)
(* EndOfDialogAlways.  However often Inject was clicked, it joins its      *)
(* worker before it starts the next, so std::terminate is not called       *)
(* before the dialog's end; there it is whenever there was a copy.         *)
(***************************************************************************)
THEOREM EndOfDialogAlways == Spec => []EndOfDialog
<1>1. Init => Worked
  BY DEF Init, Worked
<1>2. Typed /\ Worked => EndOfDialog
  <2> SUFFICES ASSUME Typed, Worked PROVE EndOfDialog
    OBVIOUS
  <2>1. copy # 0 <=> copy > 0
    BY CopiesAreNat DEF Typed, TypeOK, NumbersOK
  <2>2. terminated <=> uiPc = "ended" /\ copy # 0
    BY DEF Worked
  <2> HIDE DEF Typed
  <2> QED BY <2>1, <2>2 DEF EndOfDialog
<1>3. Typed /\ Worked /\ [Next]_vars => Worked'
  BY WorkedStep
<1> QED BY TypedAlways, <1>1, <1>2, <1>3, PTL DEF Spec

-----------------------------------------------------------------------------
(* The rows since the list was cleared. *)

\* n + 1, n + 2, ..., n + m
Behind(n, m) == [i \in 1..m |-> n + i]

LEMMA BehindType ==
    ASSUME NEW n \in Nat, NEW m \in Nat
    PROVE  Behind(n, m) \in Seq(Nat) /\ Len(Behind(n, m)) = m
<1>1. Behind(n, m) \in [1..m -> Nat]
  BY DEF Behind
<1>2. Behind(n, m) \in Seq(Nat)
  BY <1>1, SeqDef
<1> QED BY <1>1, <1>2

LEMMA OneBehind ==
    ASSUME NEW n \in Nat, NEW m \in Nat
    PROVE  Append(Behind(n, m), n + (m + 1)) = Behind(n, m + 1)
<1> DEFINE s == Append(Behind(n, m), n + (m + 1))
           k == m + 1
<1>1. k \in Nat /\ n + k \in Nat
  OBVIOUS
<1>2. Behind(n, m) \in Seq(Nat) /\ Len(Behind(n, m)) = m
  BY BehindType
<1>3. Behind(n, k) \in Seq(Nat) /\ Len(Behind(n, k)) = k
  <2> HIDE DEF k
  <2> QED BY <1>1, BehindType
<1>4. /\ s \in Seq(Nat) /\ Len(s) = k
      /\ \A i \in 1..m : s[i] = Behind(n, m)[i]
      /\ s[m + 1] = n + (m + 1)
  BY <1>1, <1>2, AppendProperties
<1>5. ASSUME NEW i \in 1..k PROVE s[i] = Behind(n, k)[i]
  <2>1. Behind(n, k)[i] = n + i
    BY DEF Behind
  <2>2. CASE i = m + 1
    BY <1>4, <2>1, <2>2
  <2>3. CASE i # m + 1
    <3>1. i \in 1..m
      BY <2>3
    <3>2. Behind(n, m)[i] = n + i
      BY <3>1 DEF Behind
    <3> QED BY <1>4, <2>1, <3>1, <3>2
  <2> QED BY <2>2, <2>3
<1> HIDE DEF s, k
<1>6. s = Behind(n, k)
  BY <1>3, <1>4, <1>5, SeqEqual
<1> QED BY <1>6 DEF s, k

LEMMA BehindLength ==
    ASSUME NEW n \in Nat, NEW m \in Nat, NEW a \in Seq(Nat), NEW b \in Seq(Nat),
           a \o b = Behind(n, m)
    PROVE  Len(a) + Len(b) = m
<1>1. Len(a \o b) = m
  BY BehindType
<1> QED BY <1>1, ConcatProperties

\* Without its first part it is of the same kind.
LEMMA RestBehind ==
    ASSUME NEW n \in Nat, NEW m \in Nat, NEW a \in Seq(Nat), NEW b \in Seq(Nat),
           NEW p \in Nat, a \o b = Behind(n, m), p = n + Len(a)
    PROVE  b = Behind(p, Len(b))
<1>1. Len(a) \in Nat /\ Len(b) \in Nat /\ p \in Nat
  BY LenProperties
<1>2. Len(a) + Len(b) = m
  BY BehindLength
<1>3. ASSUME NEW i \in 1..Len(b) PROVE b[i] = Behind(p, Len(b))[i]
  <2>1. /\ Len(a) + i \in 1..(Len(a) + Len(b)) /\ Len(a) + i \in 1..m
        /\ ~(Len(a) + i <= Len(a)) /\ (Len(a) + i) - Len(a) = i
    BY <1>1, <1>2
  <2>2. (a \o b)[Len(a) + i] = b[i]
    BY <2>1, ConcatProperties
  <2>3. Behind(n, m)[Len(a) + i] = n + (Len(a) + i)
    BY <2>1 DEF Behind
  <2>4. Behind(p, Len(b))[i] = p + i
    BY DEF Behind
  <2> QED BY <1>1, <2>2, <2>3, <2>4
<1>4. Behind(p, Len(b)) \in Seq(Nat) /\ Len(Behind(p, Len(b))) = Len(b)
  BY <1>1, BehindType
<1> QED BY <1>3, <1>4, SeqEqual

AllRows == m_vecFileList \o vecTemp \o m_vecFileTemp

\* OnTimer's vecTemp is empty outside its handler.
Kept ==
    /\ uiPc # "show" => vecTemp = <<>>
    /\ Len(items) >= cleared
    /\ AllRows = Behind(cleared, Len(items) - cleared)

LEMMA InitKept == ASSUME Init PROVE Kept
<1>1. AllRows = <<>> /\ Len(items) = 0 /\ cleared = 0 /\ vecTemp = <<>>
  BY ConcatEmptySeq, EmptySeq DEF Init, AllRows
<1>2. Behind(0, 0) = <<>>
  BY BehindType, EmptySeq
<1> QED BY <1>1, <1>2 DEF Kept

LEMMA KeptStep == ASSUME Typed, Kept, [Next]_vars PROVE Kept'
<1>1. /\ m_vecFileTemp \in Seq(Nat) /\ m_vecFileList \in Seq(Nat) /\ vecTemp \in Seq(Nat)
      /\ Len(items) \in Nat /\ cleared \in Nat
  BY LenProperties DEF Typed, TypeOK, RowsOK, NumbersOK
<1>2. ASSUME UNCHANGED <<lists, uiPc>>, Len(items') = Len(items) PROVE Kept'
  BY <1>2 DEF lists, Kept, AllRows
<1>3. CASE PushRow
  <2> DEFINE n == Len(items)
             m == n - cleared
             before == m_vecFileList \o vecTemp
  <2>1. Len(items') = n + 1
    BY <1>3, ItemsStep
  <2>2. /\ m_vecFileTemp' = Append(m_vecFileTemp, n + 1)
        /\ UNCHANGED <<m_vecFileList, vecTemp, cleared, uiPc>>
    BY <1>3 DEF PushRow, Stored
  <2>3. m \in Nat /\ n + 1 \in Nat /\ n + 1 = cleared + (m + 1) /\ (n + 1) - cleared = m + 1
    BY <1>1 DEF Kept
  <2>4. before \in Seq(Nat) /\ before \o m_vecFileTemp \in Seq(Nat) /\ <<n + 1>> \in Seq(Nat)
    BY <1>1, <2>3, ConcatProperties
  <2>5. before \o Append(m_vecFileTemp, n + 1) = Append(before \o m_vecFileTemp, n + 1)
    <3> HIDE DEF n, before
    <3>1. Append(m_vecFileTemp, n + 1) = m_vecFileTemp \o <<n + 1>>
      BY <1>1, <2>3, AppendIsConcat
    <3>2. Append(before \o m_vecFileTemp, n + 1) = (before \o m_vecFileTemp) \o <<n + 1>>
      BY <2>3, <2>4, AppendIsConcat
    <3>3. (before \o m_vecFileTemp) \o <<n + 1>> = before \o (m_vecFileTemp \o <<n + 1>>)
      BY <1>1, <2>4, ConcatAssociative
    <3> QED BY <3>1, <3>2, <3>3
  <2>6. AllRows' = Append(AllRows, cleared + (m + 1))
    BY <2>2, <2>3, <2>5 DEF AllRows
  <2>7. AllRows' = Behind(cleared, m + 1)
    <3> HIDE DEF m
    <3>1. AllRows = Behind(cleared, m)
      BY DEF Kept, m
    <3> QED BY <1>1, <2>3, <2>6, <3>1, OneBehind
  <2> QED BY <1>1, <2>1, <2>2, <2>3, <2>7 DEF Kept
<1>4. CASE StoreSaved
  <2>1. ~PushRow
    BY <1>4 DEF StoreSaved, PushRow
  <2>2. Len(items') = Len(items)
    BY <1>4, <2>1, ItemsStep
  <2>3. UNCHANGED <<lists, uiPc>>
    BY <1>4 DEF StoreSaved, Stored, lists
  <2> QED BY <1>2, <2>2, <2>3
<1>5. CASE ClearList
  <2>1. /\ m_vecFileList' = <<>> /\ cleared' = cleared + Len(m_vecFileList)
        /\ uiPc = "idle" /\ uiPc' = "counts"
        /\ UNCHANGED <<items, m_vecFileTemp, vecTemp>>
    BY <1>5 DEF ClearList, Goto, io
  <2>2. vecTemp = <<>>
    BY <2>1 DEF Kept
  <2>3. AllRows = m_vecFileList \o m_vecFileTemp
    BY <1>1, <2>2, ConcatEmptySeq DEF AllRows
  <2>4. AllRows' = m_vecFileTemp
    <3>1. (<<>> \o <<>>) \o m_vecFileTemp = m_vecFileTemp
      BY <1>1, ConcatEmptySeq, EmptySeq
    <3> QED BY <2>1, <2>2, <3>1 DEF AllRows
  <2>5. Len(items) - cleared \in Nat
    BY <1>1 DEF Kept
  <2>6. /\ Len(m_vecFileList) + Len(m_vecFileTemp) = Len(items) - cleared
        /\ m_vecFileTemp = Behind(cleared', Len(m_vecFileTemp))
    <3>1. PICK m \in Nat : m = Len(items) - cleared
      BY <2>5
    <3>2. m_vecFileList \o m_vecFileTemp = Behind(cleared, m)
      BY <2>3, <3>1 DEF Kept
    <3>3. /\ cleared \in Nat /\ m_vecFileList \in Seq(Nat) /\ m_vecFileTemp \in Seq(Nat)
          /\ cleared' = cleared + Len(m_vecFileList) /\ cleared' \in Nat
      BY <1>1, <2>1, LenProperties
    <3>4. m_vecFileTemp = Behind(cleared', Len(m_vecFileTemp))
      <4>1. \A n \in Nat, a \in Seq(Nat), b \in Seq(Nat), p \in Nat :
               a \o b = Behind(n, m) /\ p = n + Len(a) => b = Behind(p, Len(b))
        BY RestBehind
      <4> QED BY <3>2, <3>3, <4>1
    <3>5. Len(m_vecFileList) + Len(m_vecFileTemp) = m
      BY ONLY m \in Nat, <3>2, <3>3, BehindLength
    <3> QED BY <3>1, <3>4, <3>5
  <2>7. Len(m_vecFileList) \in Nat /\ Len(m_vecFileTemp) \in Nat
    BY <1>1, LenProperties
  <2>8. Len(m_vecFileTemp) = Len(items) - cleared' /\ Len(items) >= cleared'
    BY <1>1, <2>1, <2>6, <2>7
  <2> QED BY <2>1, <2>2, <2>4, <2>6, <2>8 DEF Kept
<1>6. CASE Swap
  <2>1. /\ vecTemp' = m_vecFileTemp /\ m_vecFileTemp' = <<>>
        /\ uiPc = "idle" /\ uiPc' = "show"
        /\ UNCHANGED <<items, m_vecFileList, cleared>>
    BY <1>6 DEF Swap, Goto, io
  <2>2. vecTemp = <<>>
    BY <2>1 DEF Kept
  <2>3. AllRows = m_vecFileList \o m_vecFileTemp
    BY <1>1, <2>2, ConcatEmptySeq DEF AllRows
  <2>4. m_vecFileList \o m_vecFileTemp \in Seq(Nat)
    BY <1>1, ConcatProperties
  <2>5. AllRows' = AllRows
    BY <2>1, <2>3, <2>4, ConcatEmptySeq DEF AllRows
  <2> QED BY <2>1, <2>5 DEF Kept
<1>7. CASE Show
  <2>1. /\ m_vecFileList' = m_vecFileList \o vecTemp /\ vecTemp' = <<>>
        /\ UNCHANGED <<items, m_vecFileTemp, cleared>>
    BY <1>7 DEF Show, AtTheEnd, io
  <2>2. m_vecFileList \o vecTemp \in Seq(Nat)
    BY <1>1, ConcatProperties
  <2>3. AllRows' = AllRows
    BY <2>1, <2>2, ConcatEmptySeq DEF AllRows
  <2> QED BY <2>1, <2>3 DEF Kept
<1>8. CASE UNCHANGED vars \/ SetFinished \/ Worker \/ \E c \in Conns : Connect(c)
  BY <1>2, <1>8 DEF vars, SetFinished, Worker, Connect, io
<1>9. CASE StoreClients \/ StoreFound
           \/ IoLoad
  BY <1>2, <1>9 DEF StoreClients, StoreFound, Stored, IoLoad, Accept, AcceptError, Gone, Header,
     FileDone, Load, lists
<1>10. CASE Close \/ ResetFound \/ ResetClients \/ JoinWorker \/ StartCopy \/ Destroy
  <2>1. UNCHANGED <<lists, items>> /\ uiPc # "show"
    BY <1>10 DEF Close, ResetFound, ResetClients, JoinWorker, StartCopy, Destroy, Goto, io
  <2> QED BY <2>1 DEF lists, Kept, AllRows
<1> QED BY <1>3, <1>4, <1>5, <1>6, <1>7, <1>8, <1>9, <1>10 DEF Next, InHandler, IoStep

(***************************************************************************)
(* RowsOnceSinceClearedAlways.  For any number of copies: every FileItem   *)
(* made since the list was cleared is shown, taken or waiting exactly once *)
(* and in order, whatever falls between the clearing and the pushes.       *)
(***************************************************************************)
THEOREM RowsOnceSinceClearedAlways == Spec => []RowsOnceSinceCleared
<1>1. Init => Kept
  BY InitKept
<1>2. Kept => RowsOnceSinceCleared
  BY DEF Kept, AllRows, Behind, RowsOnceSinceCleared
<1>3. Typed /\ Kept /\ [Next]_vars => Kept'
  BY KeptStep
<1> QED BY TypedAlways, <1>1, <1>2, <1>3, PTL DEF Spec

-----------------------------------------------------------------------------
(* The numbers, from what is proved of the types and the rows. *)

\* Inject's handler is not between its first reset and the new copy.
Settled == uiPc \notin {"counts", "clients", "join", "start"}

\* No connection and no row is of a copy still to come.
NoneLater == (\A c \in Conns : of[c] <= copy) /\ \A i \in DOMAIN items : items[i].copy <= copy

LEMMA Ranges ==
    ASSUME Typed
    PROVE  /\ copy \in Nat /\ seen \in Nat /\ cur \in Conns
           /\ m_nSavedFiles \in Nat /\ m_nFoundFiles \in Nat /\ m_nClients \in Nat
           /\ \A c \in Conns : of[c] \in Nat
           /\ items \in Seq(Row) /\ Len(items) \in Nat /\ DOMAIN items = 1..Len(items)
           /\ \A i \in DOMAIN items : items[i] \in Row
           /\ copy # 0 => FoundIn[copy] \in Nat
           /\ \A c \in Conns : of[c] # 0 => FoundIn[of[c]] \in Nat
<1>1. items \in Seq(Row) /\ Len(items) \in Nat /\ DOMAIN items = 1..Len(items)
  BY LenProperties DEF Typed, TypeOK, RowsOK, Row
<1>2. \A i \in DOMAIN items : items[i] \in Row
  BY <1>1, ElementOfSeq
<1>3. copy # 0 => FoundIn[copy] \in Nat
  BY Found, CopiesAreNat DEF Typed, TypeOK, NumbersOK
<1>4. \A c \in Conns : of[c] # 0 => FoundIn[of[c]] \in Nat
  BY Found, CopiesAreNat DEF Typed, TypeOK, NumbersOK
<1> QED BY <1>1, <1>2, <1>3, <1>4, CopiesAreNat DEF Typed, TypeOK, NumbersOK

-----------------------------------------------------------------------------
(* How a step changes the rows of the last copy. *)

LEMMA RowsKept ==
    ASSUME UNCHANGED <<items, copy>>
    PROVE  OfThisCopy' = OfThisCopy /\ SavedOfThisCopy' = SavedOfThisCopy
BY DEF OfThisCopy, SavedOfThisCopy

LEMMA RowPushed ==
    ASSUME Typed, PushRow
    PROVE  /\ copy' = copy /\ DOMAIN items' = DOMAIN items \cup {Len(items) + 1}
           /\ \A i \in DOMAIN items : items'[i] = items[i]
           /\ items'[Len(items) + 1] = [copy |-> of[cur], nStatus |-> FALSE]
           /\ OfThisCopy' = OfThisCopy \cup (IF of[cur] = copy THEN {Len(items) + 1} ELSE {})
           /\ SavedOfThisCopy' = SavedOfThisCopy
<1> DEFINE n == Len(items)
           row == [copy |-> of[cur], nStatus |-> FALSE]
<1>1. items \in Seq(Row) /\ n \in Nat /\ DOMAIN items = 1..n
  BY Ranges
<1>2. row \in Row
  BY DEF PushRow, Typed, TypeOK, NumbersOK, Handled, Row
<1>3. items' = Append(items, row) /\ UNCHANGED <<copy, of, cur>>
  BY DEF PushRow, Stored
<1>4. /\ DOMAIN items' = DOMAIN items \cup {n + 1}
      /\ \A i \in DOMAIN items : items'[i] = items[i]
      /\ items'[n + 1] = row
  <2> HIDE DEF row
  <2>1. Len(items') = n + 1 /\ items' \in Seq(Row)
    BY <1>1, <1>2, <1>3, AppendProperties
  <2>2. DOMAIN items' = 1..(n + 1)
    BY <2>1, LenProperties
  <2>3. (\A i \in 1..n : items'[i] = items[i]) /\ items'[n + 1] = row
    BY <1>1, <1>2, <1>3, AppendProperties
  <2> QED BY <1>1, <2>2, <2>3
<1>5. n + 1 \notin DOMAIN items
  BY <1>1
<1>6. OfThisCopy' = OfThisCopy \cup (IF of[cur] = copy THEN {n + 1} ELSE {})
  BY <1>3, <1>4, <1>5 DEF OfThisCopy
<1>7. SavedOfThisCopy' = SavedOfThisCopy
  BY <1>3, <1>4, <1>5 DEF OfThisCopy, SavedOfThisCopy
<1> QED BY <1>3, <1>4, <1>6, <1>7

LEMMA RowSaved ==
    ASSUME Typed, StoreSaved
    PROVE  LET f == filing[cur]
           IN  /\ f \in DOMAIN items /\ copy' = copy
               /\ DOMAIN items' = DOMAIN items
               /\ \A i \in DOMAIN items : /\ items'[i].copy = items[i].copy
                                          /\ items'[i].nStatus = (i = f \/ items[i].nStatus)
               /\ OfThisCopy' = OfThisCopy
               /\ SavedOfThisCopy' = SavedOfThisCopy \cup (OfThisCopy \cap {f})
<1> DEFINE f == filing[cur]
<1>1. f \in DOMAIN items
  <2>1. f \in 0..Len(items) /\ f # 0
    BY DEF StoreSaved, Typed, TypeOK, NumbersOK, Handled
  <2> QED BY <2>1, Ranges
<1>2. items' = [items EXCEPT ![f].nStatus = TRUE] /\ UNCHANGED copy
  BY DEF StoreSaved, Stored
<1>3. \A i \in DOMAIN items : items[i] \in Row
  BY Ranges
<1>4. DOMAIN items' = DOMAIN items
  BY <1>2
<1>5. ASSUME NEW i \in DOMAIN items
      PROVE  items'[i].copy = items[i].copy /\ items'[i].nStatus = (i = f \/ items[i].nStatus)
  <2>1. CASE i = f
    BY <1>1, <1>2, <1>3, <2>1 DEF Row
  <2>2. CASE i # f
    BY <1>2, <1>3, <2>2 DEF Row
  <2> QED BY <2>1, <2>2
<1> HIDE DEF f
<1>6. OfThisCopy' = OfThisCopy
  BY <1>2, <1>4, <1>5 DEF OfThisCopy
<1>7. SavedOfThisCopy' = SavedOfThisCopy \cup (OfThisCopy \cap {f})
  BY <1>2, <1>4, <1>5, <1>6 DEF OfThisCopy, SavedOfThisCopy
<1> QED BY <1>1, <1>2, <1>4, <1>5, <1>6, <1>7 DEF f

LEMMA CopyStarted ==
    ASSUME Typed, NoneLater, StartCopy
    PROVE  OfThisCopy' = {} /\ SavedOfThisCopy' = {} /\ \A c \in Conns : of'[c] < copy'
<1>1. copy' = copy + 1 /\ UNCHANGED <<items, of>>
  BY DEF StartCopy, io
<1>2. \A i \in DOMAIN items : items[i].copy \in Nat /\ items[i].copy <= copy
  BY Ranges, CopiesAreNat DEF NoneLater, Row
<1>3. OfThisCopy' = {}
  BY <1>1, <1>2, Ranges DEF OfThisCopy
<1> QED BY <1>1, <1>3, Ranges DEF SavedOfThisCopy, NoneLater

\* The steps that change neither rows nor the copy.
Others == \/ UNCHANGED vars \/ SetFinished \/ ClearList \/ Swap \/ Close \/ ResetFound \/ ResetClients
          \/ JoinWorker \/ Show \/ Destroy \/ Worker \/ StoreClients \/ StoreFound
          \/ IoLoad \/ \E c \in Conns : Connect(c)

LEMMA Kinds ==
    ASSUME [Next]_vars
    PROVE  PushRow \/ StoreSaved \/ StartCopy \/ Others
BY DEF Next, IoStep, InHandler, Others

LEMMA OthersKeep == ASSUME Others PROVE UNCHANGED <<items, copy>>
<1>1. CASE \/ UNCHANGED vars \/ SetFinished \/ ClearList \/ Swap \/ Close \/ ResetFound \/ ResetClients
           \/ JoinWorker \/ Show \/ Destroy \/ Worker
  BY <1>1 DEF vars, SetFinished, ClearList, Swap, Close, ResetFound, ResetClients, JoinWorker, Show,
     Destroy, Worker, sender, io
<1>2. CASE \/ StoreClients \/ StoreFound
           \/ IoLoad \/ \E c \in Conns : Connect(c)
  BY <1>2 DEF StoreClients, StoreFound, Stored, Connect, IoLoad, Accept, AcceptError, Gone,
     Header, FileDone, Load,
     sender, io
<1> QED BY <1>1, <1>2 DEF Others

LEMMA OfKept ==
    ASSUME Typed, [Next]_vars, \A c \in Conns : ~Connect(c)
    PROVE  of' = of
<1>1. CASE IoStep
  BY <1>1 DEF IoStep, StoreClients, StoreFound, PushRow, StoreSaved, Stored
<1>2. CASE ~IoStep
  BY <1>2 DEF Next, InHandler, vars, SetFinished, ClearList, Swap, Close, ResetFound, ResetClients,
     JoinWorker, StartCopy, Show, Destroy, Worker, IoLoad, Accept, AcceptError, Gone, Header,
     FileDone, Load, sender
<1> QED BY <1>1, <1>2

LEMMA NoneLaterStep == ASSUME Typed, NoneLater, [Next]_vars PROVE NoneLater'
<1>1. CASE PushRow
  <2>1. of' = of
    BY <1>1 DEF PushRow, Stored
  <2> QED BY <1>1, <2>1, RowPushed, Ranges DEF NoneLater
<1>2. CASE StoreSaved
  <2>1. of' = of
    BY <1>2 DEF StoreSaved, Stored
  <2> QED BY <1>2, <2>1, RowSaved DEF NoneLater
<1>3. CASE StartCopy
  <2>1. copy' = copy + 1 /\ UNCHANGED <<items, of>>
    BY <1>3 DEF StartCopy, io
  <2>2. \A i \in DOMAIN items : items[i].copy \in Nat
    BY Ranges, CopiesAreNat DEF Row
  <2> QED BY <2>1, <2>2, Ranges DEF NoneLater
<1>4. CASE Others
  <2>1. UNCHANGED <<items, copy>>
    BY <1>4, OthersKeep
  <2>2. CASE of' = of
    BY <2>1, <2>2 DEF NoneLater
  <2>3. ASSUME NEW c \in Conns, Connect(c) PROVE NoneLater'
    BY <2>1, <2>3, Ranges DEF Connect, NoneLater
  <2> QED BY <2>2, <2>3, OfKept
<1> QED BY <1>1, <1>2, <1>3, <1>4, Kinds

-----------------------------------------------------------------------------
(* NeverTooFew.  What the io thread has loaded is no lower than what the   *)
(* copy amounts to, and a header of this copy is compared with the number  *)
(* itself: only an older copy's can be compared with one since reset.      *)

SavedEnough ==
    Settled => /\ m_nSavedFiles >= Cardinality(SavedOfThisCopy)
               /\ ioPc = "saved" => seen >= Cardinality(SavedOfThisCopy)

HasHeader == OfThisCopy # {} \/ (ioPc = "row" /\ of[cur] = copy)

FoundEnough ==
    Settled => /\ HasHeader => m_nFoundFiles >= FoundIn[copy]
               /\ ioPc = "found" /\ of[cur] = copy => seen = m_nFoundFiles
               /\ ioPc = "found" /\ OfThisCopy # {} => seen >= FoundIn[copy]

Enough == NoneLater /\ SavedEnough /\ FoundEnough

LEMMA SavedFinite ==
    ASSUME Typed
    PROVE  IsFiniteSet(SavedOfThisCopy) /\ Cardinality(SavedOfThisCopy) \in Nat
<1>1. IsFiniteSet(DOMAIN items)
  BY Ranges, FS_Interval
<1>2. SavedOfThisCopy \in SUBSET DOMAIN items
  BY DEF SavedOfThisCopy, OfThisCopy
<1> QED BY <1>1, <1>2, FS_Subset, FS_CardinalityType

\* Only StartCopy makes Inject's handler settle.
LEMMA SettledBefore ==
    ASSUME [Next]_vars, Settled', ~StartCopy
    PROVE  Settled
<1>1. CASE \/ UNCHANGED vars \/ SetFinished \/ IoStep \/ Worker
           \/ IoLoad \/ \E c \in Conns : Connect(c)
  BY <1>1 DEF vars, SetFinished, IoStep, StoreClients, StoreFound, PushRow, StoreSaved, Stored, Worker,
     Connect, IoLoad, Accept, AcceptError, Gone, Header, FileDone, Load, Settled
<1>2. CASE ClearList \/ Swap \/ Close \/ ResetFound \/ ResetClients \/ JoinWorker \/ Show \/ Destroy
  BY <1>2 DEF ClearList, Swap, Close, ResetFound, ResetClients, JoinWorker, Show, Destroy, Goto, Settled
<1> QED BY <1>1, <1>2 DEF Next, InHandler

\* What the steps do to the three variables the io thread counts with.
LEMMA OthersCount ==
    ASSUME Others, Settled, Settled'
    PROVE  /\ m_nSavedFiles' = m_nSavedFiles
           /\ m_nFoundFiles' = m_nFoundFiles \/ StoreFound
           /\ \/ UNCHANGED <<ioPc, cur, seen>>
              \/ ioPc' = "idle"
              \/ StoreFound
              \/ IoLoad
<1>1. ~ClearList /\ ~ResetFound /\ ~ResetClients /\ ~JoinWorker
  BY DEF ClearList, ResetFound, ResetClients, JoinWorker, Goto, Settled
<1>2. CASE UNCHANGED vars \/ SetFinished \/ Swap \/ Close \/ Show \/ Destroy \/ Worker
           \/ \E c \in Conns : Connect(c)
  BY <1>2 DEF vars, SetFinished, Swap, Close, Show, Destroy, Worker, Connect, io, numbers
<1>3. CASE StoreClients \/ StoreFound
  BY <1>3 DEF StoreClients, StoreFound
<1>4. CASE IoLoad
  BY <1>4 DEF IoLoad, Accept, AcceptError, Gone, Header, FileDone, Load, numbers
<1> QED BY <1>1, <1>2, <1>3, <1>4 DEF Others

\* The load of each handler.
LEMMA Loads ==
    ASSUME IoLoad
    PROVE  /\ ioPc = "idle" /\ UNCHANGED <<link, of, filing, items, numbers>>
           /\ ioPc' \in {"accept", "error", "gone", "found", "saved"}
           /\ ioPc' = "accept" => link[cur'] = "pending" /\ seen' = m_nClients
           /\ ioPc' = "error" => failed < MaxBadAccepts /\ seen' = m_nClients
           /\ ioPc' = "gone" => link[cur'] = "open" /\ seen' = m_nClients
           /\ ioPc' = "found" => link[cur'] = "open" /\ seen' = m_nFoundFiles
           /\ ioPc' = "saved" => link[cur'] = "open" /\ filing[cur'] # 0 /\ seen' = m_nSavedFiles
BY DEF IoLoad, Accept, AcceptError, Gone, Header, FileDone, Load, sender

LEMMA SavedEnoughStep == ASSUME Typed, Enough, [Next]_vars PROVE SavedEnough'
<1> SUFFICES ASSUME Settled'
    PROVE  /\ m_nSavedFiles' >= Cardinality(SavedOfThisCopy')
           /\ ioPc' = "saved" => seen' >= Cardinality(SavedOfThisCopy')
  BY DEF SavedEnough
<1> DEFINE n == Cardinality(SavedOfThisCopy)
<1>1. n \in Nat /\ IsFiniteSet(SavedOfThisCopy) /\ m_nSavedFiles \in Nat /\ seen \in Nat
  BY SavedFinite, Ranges
<1>2. Settled /\ ~StartCopy => m_nSavedFiles >= n /\ (ioPc = "saved" => seen >= n)
  BY DEF Enough, SavedEnough
<1>3. CASE StartCopy
  <2>1. SavedOfThisCopy' = {}
    BY <1>3, CopyStarted DEF Enough
  <2>2. UNCHANGED <<m_nSavedFiles, seen>>
    BY <1>3 DEF StartCopy, io, numbers
  <2> QED BY <1>1, <2>1, <2>2, FS_EmptySet
<1>4. CASE PushRow
  <2>1. SavedOfThisCopy' = SavedOfThisCopy
    BY <1>4, RowPushed
  <2>2. ioPc' = "idle" /\ m_nSavedFiles' = m_nSavedFiles /\ ~StartCopy
    BY <1>4 DEF PushRow, Stored, numbers, StartCopy, io
  <2> QED BY <1>2, <2>1, <2>2, SettledBefore
<1>5. CASE StoreSaved
  <2> DEFINE f == filing[cur]
  <2>1. SavedOfThisCopy' = SavedOfThisCopy \cup (OfThisCopy \cap {f})
    BY <1>5, RowSaved
  <2>2. SavedOfThisCopy' = SavedOfThisCopy \/ SavedOfThisCopy' = SavedOfThisCopy \cup {f}
    BY <2>1
  <2>3. Cardinality(SavedOfThisCopy') <= n + 1
    <3>1. Cardinality(SavedOfThisCopy \cup {f}) <= n + 1
      BY <1>1, FS_AddElement
    <3> QED BY <1>1, <2>2, <3>1
  <2>4. Cardinality(SavedOfThisCopy') \in Nat
    <3>1. IsFiniteSet(SavedOfThisCopy \cup {f})
      BY <1>1, FS_AddElement
    <3> QED BY <1>1, <2>2, <3>1, FS_CardinalityType
  <2>5. ioPc = "saved" /\ ioPc' = "idle" /\ m_nSavedFiles' = seen + 1 /\ ~StartCopy
    BY <1>5 DEF StoreSaved, StartCopy, io
  <2>6. seen >= n
    BY <1>2, <2>5, SettledBefore
  <2> HIDE DEF f, n
  <2> QED BY <1>1, <2>3, <2>4, <2>5, <2>6
<1>6. CASE Others
  <2>1. SavedOfThisCopy' = SavedOfThisCopy
    BY <1>6, OthersKeep, RowsKept
  <2>2. ~StartCopy
    BY <1>6, OthersKeep, Ranges DEF StartCopy
  <2>3. Settled
    BY <2>2, SettledBefore
  <2>4. m_nSavedFiles' = m_nSavedFiles
    BY <1>6, <2>3, OthersCount
  <2>5. ioPc' = "saved" => seen' = m_nSavedFiles \/ (ioPc = "saved" /\ seen' = seen)
    <3>1. CASE UNCHANGED <<ioPc, cur, seen>> \/ ioPc' = "idle" \/ StoreFound
      BY <3>1 DEF StoreFound
    <3>2. CASE IoLoad
      BY <3>2, Loads
    <3> QED BY <1>6, <2>3, <3>1, <3>2, OthersCount
  <2> QED BY <1>2, <2>1, <2>2, <2>3, <2>4, <2>5
<1> QED BY <1>3, <1>4, <1>5, <1>6, Kinds

LEMMA FoundEnoughStep == ASSUME Typed, Enough, [Next]_vars PROVE FoundEnough'
<1> SUFFICES ASSUME Settled'
    PROVE  /\ HasHeader' => m_nFoundFiles' >= FoundIn[copy']
           /\ ioPc' = "found" /\ of'[cur'] = copy' => seen' = m_nFoundFiles'
           /\ ioPc' = "found" /\ OfThisCopy' # {} => seen' >= FoundIn[copy']
  BY DEF FoundEnough
<1>1. CASE StartCopy
  <2>1. OfThisCopy' = {} /\ of'[cur] < copy' /\ of'[cur] \in Nat /\ copy' \in Nat
    BY <1>1, CopyStarted, Ranges DEF Enough, StartCopy, io
  <2>2. cur' = cur
    BY <1>1 DEF StartCopy, io
  <2> QED BY <2>1, <2>2 DEF HasHeader
<1>2. ASSUME ~StartCopy
      PROVE  /\ HasHeader => m_nFoundFiles >= FoundIn[copy]
             /\ ioPc = "found" /\ of[cur] = copy => seen = m_nFoundFiles
             /\ ioPc = "found" /\ OfThisCopy # {} => seen >= FoundIn[copy]
  BY <1>2, SettledBefore DEF Enough, FoundEnough
<1>3. CASE PushRow
  <2>1. ioPc = "row" /\ ioPc' = "idle" /\ m_nFoundFiles' = m_nFoundFiles /\ ~StartCopy
    BY <1>3 DEF PushRow, numbers, StartCopy, io
  <2>2. HasHeader' => HasHeader
    BY <1>3, <2>1, RowPushed DEF HasHeader
  <2> QED BY <1>2, <1>3, <2>1, <2>2, RowPushed
<1>4. CASE StoreSaved
  <2>1. ioPc' = "idle" /\ m_nFoundFiles' = m_nFoundFiles /\ ~StartCopy
    BY <1>4 DEF StoreSaved, StartCopy, io
  <2>2. HasHeader' => HasHeader
    BY <1>4, <2>1, RowSaved DEF HasHeader
  <2> QED BY <1>2, <1>4, <2>1, <2>2, RowSaved
<1>5. CASE StoreFound
  <2>1. /\ ioPc = "found" /\ ioPc' = "row" /\ m_nFoundFiles' = LargerFound
        /\ UNCHANGED <<items, copy, of, cur>> /\ ~StartCopy
    BY <1>5 DEF StoreFound, Stored, StartCopy, io
  <2>2. OfThisCopy' = OfThisCopy
    BY <2>1, RowsKept
  <2>3. /\ seen \in Nat /\ m_nFoundFiles \in Nat /\ FoundIn[of[cur]] \in Nat
        /\ OfThisCopy # {} \/ of[cur] = copy => FoundIn[copy] \in Nat
    <3>1. of[cur] # 0
      BY <2>1, Ranges DEF Typed, Handled
    <3>2. OfThisCopy # {} => copy # 0
      BY Ranges, CopiesAreNat DEF OfThisCopy, Row
    <3> QED BY <3>1, <3>2, Ranges
  <2>4. ASSUME OfThisCopy # {} \/ of[cur] = copy PROVE m_nFoundFiles' >= FoundIn[copy]
    <3>1. CASE of[cur] = copy
      BY <1>2, <2>1, <2>3, <3>1 DEF LargerFound
    <3>2. CASE OfThisCopy # {}
      BY <1>2, <2>1, <2>3, <3>2 DEF LargerFound, HasHeader
    <3> QED BY <2>4, <3>1, <3>2
  <2> QED BY <2>1, <2>2, <2>4 DEF HasHeader
<1>6. CASE Others /\ ~StoreFound
  <2>1. copy' = copy /\ OfThisCopy' = OfThisCopy /\ ~StartCopy
    BY <1>6, OthersKeep, RowsKept, Ranges DEF StartCopy
  <2>2. Settled
    BY <2>1, SettledBefore
  <2>3. m_nFoundFiles' = m_nFoundFiles
    BY <1>6, <2>2, OthersCount
  <2>4. CASE UNCHANGED <<ioPc, cur, seen>>
    <3>1. ioPc \in {"found", "row"} => of'[cur] = of[cur]
      <4>1. CASE of' = of
        BY <4>1
      <4>2. ASSUME NEW c \in Conns, Connect(c) PROVE ioPc \in {"found", "row"} => of'[cur] = of[cur]
        <5>1. link[c] = "none" /\ of' = [of EXCEPT ![c] = copy]
          BY <4>2 DEF Connect
        <5>2. ioPc \in {"found", "row"} => cur # c
          BY <5>1 DEF Typed, Handled
        <5> QED BY <5>1, <5>2, Ranges DEF Typed, TypeOK, NumbersOK
      <4> QED BY <4>1, <4>2, OfKept
    <3> QED BY <1>2, <2>1, <2>3, <2>4, <3>1 DEF HasHeader
  <2>5. CASE ioPc' = "idle"
    BY <1>2, <2>1, <2>3, <2>5 DEF HasHeader
  <2>6. CASE IoLoad
    BY <1>2, <2>1, <2>3, <2>6, Loads DEF HasHeader
  <2> QED BY <1>6, <2>2, <2>4, <2>5, <2>6, OthersCount
<1> QED BY <1>1, <1>3, <1>4, <1>5, <1>6, Kinds

(***************************************************************************)
(* NeverTooFewAlways.  For any number of copies and connections, and       *)
(* however the io thread's stores fall between Inject's resets, the        *)
(* numbers shown are not below those of the last copy: CloseFile and       *)
(* GetFile store what they loaded from the copy before only before the     *)
(* new one has files or headers, or as a larger number.                    *)
(***************************************************************************)
THEOREM NeverTooFewAlways == Spec => []NeverTooFew
<1>1. Init => Enough
  <2> SUFFICES ASSUME Init PROVE Enough
    OBVIOUS
  <2>1. OfThisCopy = {} /\ SavedOfThisCopy = {} /\ NoneLater
    BY DEF Init, OfThisCopy, SavedOfThisCopy, NoneLater
  <2> QED BY <2>1, FS_EmptySet DEF Init, Enough, SavedEnough, FoundEnough, HasHeader
<1>2. Enough => NeverTooFew
  BY DEF Enough, SavedEnough, FoundEnough, HasHeader, NeverTooFew, Settled
<1>3. Typed /\ Enough /\ [Next]_vars => Enough'
  BY NoneLaterStep, SavedEnoughStep, FoundEnoughStep DEF Enough
<1> QED BY TypedAlways, <1>1, <1>2, <1>3, PTL DEF Spec

-----------------------------------------------------------------------------
(* CleanRerun.  What a handler of the io thread is at, which buttons can   *)
(* be enabled, and whose a file under way is.                              *)

AtWorkOn ==
    /\ ioPc = "accept" => link[cur] = "pending"
    /\ ioPc \in {"gone", "found", "row", "saved"} => link[cur] = "open"

\* Inject cannot be clicked while a sender connects.
Buttons ==
    /\ enabled \/ ~Settled => ~copying /\ ~m_hEventFinished
    /\ enabled => Settled
    /\ m_hEventFinished => ~copying

\* A file under way has its row, which is not saved.
RowOf(c) == filing[c] \in DOMAIN items /\ ~items[filing[c]].nStatus /\ items[filing[c]].copy = of[c]

OwnRows ==
    \A c \in Conns : filing[c] # 0 =>
        /\ link[c] # "none" /\ RowOf(c)
        /\ \A d \in Conns : filing[d] = filing[c] => d = c

LEMMA AtWorkOnStep == ASSUME Typed, AtWorkOn, [Next]_vars PROVE AtWorkOn'
<1> USE DEF Typed, TypeOK, NumbersOK, AtWorkOn
<1>1. CASE IoStep
  BY <1>1 DEF IoStep, StoreClients, StoreFound, PushRow, StoreSaved, Stored
<1>2. ASSUME IoLoad PROVE AtWorkOn'
  BY <1>2, Loads
<1>3. ASSUME NEW c \in Conns, Connect(c) PROVE AtWorkOn'
  BY <1>3 DEF Connect, io
<1>4. CASE \/ UNCHANGED vars \/ SetFinished \/ ClearList \/ Swap \/ Close \/ ResetFound \/ ResetClients
           \/ JoinWorker \/ StartCopy \/ Show \/ Destroy \/ Worker
  <2>1. UNCHANGED <<io, link>>
    BY <1>4 DEF vars, SetFinished, ClearList, Swap, Close, ResetFound, ResetClients, JoinWorker,
       StartCopy,
       Show, Destroy, Worker, sender
  <2> QED BY <2>1 DEF io
<1> QED BY <1>1, <1>2, <1>3, <1>4 DEF Next, InHandler

LEMMA ButtonsStep == ASSUME Typed, Buttons, [Next]_vars PROVE Buttons'
<1> USE DEF Typed, TypeOK, FlagsOK, Buttons
<1>1. CASE \/ UNCHANGED vars \/ IoStep \/ Worker
           \/ IoLoad \/ \E c \in Conns : Connect(c)
  <2>1. UNCHANGED <<uiPc, enabled, copying, m_hEventFinished>>
    BY <1>1 DEF vars, IoStep, StoreClients, StoreFound, PushRow, StoreSaved, Stored, Worker,
       Connect, IoLoad, Accept, AcceptError, Gone, Header, FileDone, Load, sender
  <2> QED BY <2>1 DEF Settled
<1>2. CASE SetFinished
  BY <1>2 DEF SetFinished, Settled
<1>3. CASE ClearList \/ Swap \/ Close \/ ResetFound \/ ResetClients \/ JoinWorker \/ Destroy
  BY <1>3 DEF ClearList, Swap, Close, ResetFound, ResetClients, JoinWorker, Destroy, Goto,
     sender, Settled
<1>4. CASE StartCopy
  BY <1>4 DEF StartCopy, Goto, Settled
<1>5. CASE Show
  BY <1>5 DEF Show, Goto, Settled
<1> QED BY <1>1, <1>2, <1>3, <1>4, <1>5 DEF Next, InHandler

LEMMA OwnRowsStep == ASSUME Typed, AtWorkOn, OwnRows, [Next]_vars PROVE OwnRows'
<1>1. filing \in [Conns -> Nat] /\ of \in [Conns -> Nat] /\ cur \in Conns /\ DOMAIN link = Conns
  BY Ranges, CopiesAreNat DEF Typed, TypeOK, NumbersOK
<1>2. CASE PushRow
  <2> DEFINE n == Len(items) + 1
  <2>1. n \in Nat /\ n # 0 /\ n \notin DOMAIN items
    BY Ranges
  <2>2. filing' = [filing EXCEPT ![cur] = n] /\ UNCHANGED <<link, of>> /\ link[cur] = "open"
    BY <1>2 DEF PushRow, Stored, AtWorkOn
  <2>3. /\ DOMAIN items' = DOMAIN items \cup {n}
        /\ \A i \in DOMAIN items : items'[i] = items[i]
        /\ items'[n] = [copy |-> of[cur], nStatus |-> FALSE]
    BY <1>2, RowPushed
  <2> HIDE DEF n
  <2> SUFFICES ASSUME NEW c \in Conns, filing'[c] # 0
               PROVE  /\ link'[c] # "none" /\ RowOf(c)'
                      /\ \A d \in Conns : filing'[d] = filing'[c] => d = c
    BY DEF OwnRows
  <2>4. CASE c = cur
    <3>1. \A d \in Conns \ {cur} : filing'[d] = filing[d] /\ filing[d] # n
      BY <1>1, <2>1, <2>2 DEF OwnRows, RowOf
    <3> QED BY <1>1, <2>2, <2>3, <2>4, <3>1 DEF RowOf
  <2>5. CASE c # cur
    <3>1. filing'[c] = filing[c] /\ filing[c] # n /\ filing[c] \in DOMAIN items
      BY <1>1, <2>1, <2>2, <2>5 DEF OwnRows, RowOf
    <3>2. RowOf(c)' /\ link'[c] # "none"
      BY <2>2, <2>3, <2>5, <3>1 DEF OwnRows, RowOf
    <3> QED BY <1>1, <2>2, <2>5, <3>1, <3>2 DEF OwnRows
  <2> QED BY <2>4, <2>5
<1>3. CASE StoreSaved
  <2> DEFINE f == filing[cur]
  <2>1. filing' = [filing EXCEPT ![cur] = 0] /\ UNCHANGED <<link, of>> /\ f # 0
    BY <1>3 DEF StoreSaved, Stored, Typed, Handled
  <2>2. /\ DOMAIN items' = DOMAIN items
        /\ \A i \in DOMAIN items : /\ items'[i].copy = items[i].copy
                                   /\ items'[i].nStatus = (i = f \/ items[i].nStatus)
    BY <1>3, RowSaved
  <2> SUFFICES ASSUME NEW c \in Conns, filing'[c] # 0
               PROVE  /\ link'[c] # "none" /\ RowOf(c)'
                      /\ \A d \in Conns : filing'[d] = filing'[c] => d = c
    BY DEF OwnRows
  <2>3. c # cur /\ filing'[c] = filing[c]
    BY <1>1, <2>1
  <2>4. filing[c] # f
    BY <1>1, <2>3 DEF OwnRows
  <2> HIDE DEF f
  <2>5. RowOf(c)' /\ link'[c] # "none"
    BY <2>1, <2>2, <2>3, <2>4 DEF OwnRows, RowOf
  <2> QED BY <1>1, <2>1, <2>3, <2>5 DEF OwnRows
<1>4. ASSUME NEW c \in Conns, Connect(c) PROVE OwnRows'
  <2>1. /\ link[c] = "none" /\ link' = [link EXCEPT ![c] = "pending"]
        /\ of' = [of EXCEPT ![c] = copy] /\ UNCHANGED <<filing, items>>
    BY <1>4 DEF Connect, io
  <2>2. filing[c] = 0
    BY <2>1 DEF OwnRows
  <2> QED BY <1>1, <2>1, <2>2 DEF OwnRows, RowOf
<1>5. CASE Others /\ ~\E c \in Conns : Connect(c)
  <2>1. items' = items /\ of' = of
    BY <1>5, OthersKeep, OfKept
  <2>2. filing' = filing /\ (link' = link \/ StoreClients)
    <3>1. CASE \/ UNCHANGED vars \/ SetFinished \/ ClearList \/ Swap \/ Close \/ ResetFound \/ ResetClients
               \/ JoinWorker \/ Show \/ Destroy \/ Worker
      BY <3>1 DEF vars, SetFinished, ClearList, Swap, Close, ResetFound, ResetClients, JoinWorker, Show,
         Destroy, Worker, sender, io
    <3>2. CASE StoreClients \/ StoreFound
      BY <3>2 DEF StoreClients, StoreFound
    <3>3. CASE IoLoad
      BY <3>3, Loads
    <3> QED BY <1>5, <3>1, <3>2, <3>3 DEF Others
  <2>3. \A c \in Conns : link[c] # "none" => link'[c] # "none"
    BY <1>1, <2>2 DEF StoreClients
  <2> QED BY <2>1, <2>2, <2>3 DEF OwnRows, RowOf
<1>6. CASE StartCopy
  BY <1>6 DEF StartCopy, io, OwnRows, RowOf
<1> QED BY <1>2, <1>3, <1>4, <1>5, <1>6, Kinds

-----------------------------------------------------------------------------
(* With nothing left of the copies before, the resets meet no store and    *)
(* the new copy counts from zero.                                          *)

CleanStart ==
    clean /\ ~Settled =>
        /\ ioPc \in {"idle", "error"} /\ m_vecFileTemp = <<>> /\ cleared = Len(items)
        /\ \A c \in Conns : ~Left(c)
        /\ m_nSavedFiles = 0
        /\ uiPc # "counts" => m_nFoundFiles = 0
        /\ uiPc \in {"join", "start"} => m_nClients = failed /\ (ioPc = "error" => seen = failed)

ShownFound == IF OfThisCopy = {} /\ ioPc # "row" THEN 0 ELSE FoundIn[copy]

CleanCopy ==
    clean /\ Settled /\ copy > 0 =>
        /\ \A c \in Conns : Left(c) => of[c] = copy
        /\ OfThisCopy = (cleared + 1)..Len(items)
        /\ m_nClients = Cardinality(Opened) + failed
        /\ m_nSavedFiles = Cardinality(SavedOfThisCopy)
        /\ m_nFoundFiles = ShownFound
        /\ ioPc \in {"accept", "error", "gone"} => seen = m_nClients
        /\ ioPc = "saved" => seen = m_nSavedFiles
        /\ ioPc = "found" => seen = m_nFoundFiles

Sound == Typed /\ Kept /\ NoneLater /\ AtWorkOn /\ Buttons /\ OwnRows

LEMMA OpenedFinite ==
    IsFiniteSet(Opened) /\ Cardinality(Opened) \in Nat /\ Cardinality(Opened) <= UINT_MAX
<1>1. Opened \in SUBSET Conns /\ IsFiniteSet(Conns)
  BY RerunAssumption DEF Opened
<1>2. Cardinality(Opened) <= Cardinality(Conns) /\ IsFiniteSet(Opened)
  BY <1>1, FS_Subset
<1> QED BY <1>1, <1>2, RerunAssumption, FS_CardinalityType

\* All accepts that can fail and all connections fit into the UINT.
LEMMA FailedFits ==
    ASSUME Typed
    PROVE  /\ failed \in Nat /\ failed <= MaxBadAccepts /\ MaxBadAccepts \in Nat /\ UINT_MAX \in Nat
           /\ Cardinality(Opened) + failed <= UINT_MAX
           /\ ioPc = "accept" => Cardinality(Opened \cup {cur}) + failed <= UINT_MAX
           /\ ioPc = "error" => /\ (failed + 1) % (UINT_MAX + 1) = failed + 1
                               /\ Cardinality(Opened) + failed + 1 <= UINT_MAX
<1>1. /\ failed \in Nat /\ failed <= MaxBadAccepts /\ cur \in Conns
      /\ ioPc = "error" => failed + 1 <= MaxBadAccepts
  BY CopiesAreNat DEF Typed, TypeOK, NumbersOK, Handled
<1>2. ASSUME NEW S \in SUBSET Conns
      PROVE  Cardinality(S) \in Nat /\ Cardinality(S) <= Cardinality(Conns) /\ Cardinality(Conns) \in Nat
  BY RerunAssumption, FS_Subset, FS_CardinalityType
<1>3. Opened \in SUBSET Conns /\ Opened \cup {cur} \in SUBSET Conns
  BY <1>1 DEF Opened
<1>4. Cardinality(Conns) + MaxBadAccepts <= UINT_MAX /\ MaxBadAccepts \in Nat /\ UINT_MAX \in Nat
  BY RerunAssumption
<1>5. /\ Cardinality(Opened) \in Nat /\ Cardinality(Opened) <= Cardinality(Conns)
      /\ Cardinality(Opened \cup {cur}) \in Nat /\ Cardinality(Opened \cup {cur}) <= Cardinality(Conns)
      /\ Cardinality(Conns) \in Nat
  BY <1>2, <1>3
<1>6. ioPc = "error" => failed + 1 \in 0..UINT_MAX
  BY <1>1, <1>4, <1>5
<1>7. \A n \in 0..UINT_MAX : n % (UINT_MAX + 1) = n
  BY <1>4
<1> QED BY <1>1, <1>4, <1>5, <1>6, <1>7

\* The end of the list is the end of the rows when none of them waits.
LEMMA ListIsAll ==
    ASSUME Typed, Kept, uiPc # "show", m_vecFileTemp = <<>>
    PROVE  cleared + Len(m_vecFileList) = Len(items)
<1>1. m_vecFileList \in Seq(Nat) /\ cleared \in Nat /\ Len(items) \in Nat /\ Len(m_vecFileList) \in Nat
  BY LenProperties DEF Typed, TypeOK, RowsOK, NumbersOK
<1>2. AllRows = m_vecFileList
  BY <1>1, ConcatEmptySeq DEF Kept, AllRows
<1>3. PICK m \in Nat : m = Len(items) - cleared
  <2>1. Len(items) >= cleared
    BY DEF Kept
  <2>2. Len(items) - cleared \in Nat
    BY <1>1, <2>1
  <2> QED BY <2>2
<1>4. m_vecFileList = Behind(cleared, m)
  BY <1>2, <1>3 DEF Kept
<1>5. Len(Behind(cleared, m)) = m
  BY <1>1, BehindType
<1> QED BY <1>1, <1>3, <1>4, <1>5

\* Between Inject's resets the io thread can only fail in an accept.
LEMMA CleanStartStep == ASSUME Sound, CleanStart, [Next]_vars PROVE CleanStart'
<1> SUFFICES ASSUME clean', ~Settled'
    PROVE  /\ ioPc' \in {"idle", "error"} /\ m_vecFileTemp' = <<>> /\ cleared' = Len(items')
           /\ \A c \in Conns : ~Left(c)'
           /\ m_nSavedFiles' = 0
           /\ uiPc' # "counts" => m_nFoundFiles' = 0
           /\ uiPc' \in {"join", "start"} => m_nClients' = failed' /\ (ioPc' = "error" => seen' = failed')
  BY DEF CleanStart
<1> USE DEF Sound
<1>1. CASE ClearList
  <2>1. /\ m_vecFileTemp = <<>> /\ (\A c \in Conns : ~Left(c)) /\ cleared' = cleared + Len(m_vecFileList)
        /\ m_nSavedFiles' = 0 /\ uiPc = "idle" /\ uiPc' = "counts"
        /\ UNCHANGED <<m_vecFileTemp, link, ioPc, items>>
    BY <1>1 DEF ClearList, Goto, sender, io
  <2>2. ioPc \in {"idle", "error"}
    BY <2>1, Ranges DEF AtWorkOn, Left, Typed, TypeOK, ThreadsOK
  <2> QED BY <2>1, <2>2, ListIsAll DEF Left
<1>2. CASE Settled /\ ~ClearList
  <2>1. CASE \/ UNCHANGED vars \/ SetFinished \/ IoStep \/ Worker
             \/ IoLoad \/ \E c \in Conns : Connect(c)
    BY <1>2, <2>1 DEF vars, SetFinished, IoStep, StoreClients, StoreFound, PushRow, StoreSaved, Stored,
       Worker, Connect, IoLoad, Accept, AcceptError, Gone, Header, FileDone, Load, Settled
  <2>2. CASE Swap \/ Close \/ InHandler
    BY <1>2, <2>2 DEF InHandler, Swap, Close, ResetFound, ResetClients, JoinWorker, StartCopy, Show,
       Destroy, Goto, Settled
  <2> QED BY <1>2, <2>1, <2>2 DEF Next
<1>3. CASE ~Settled /\ ~ClearList
  <2>1. clean
    BY <1>3 DEF Next, vars, SetFinished, IoStep, StoreClients, StoreFound, PushRow, StoreSaved, Stored,
       Swap, Close, InHandler, ResetFound, ResetClients, JoinWorker, StartCopy, Show, Destroy, Worker,
       Connect, IoLoad, Accept, AcceptError, Gone, Header, FileDone, Load
  <2>2. /\ ioPc \in {"idle", "error"} /\ m_vecFileTemp = <<>> /\ cleared = Len(items) /\ m_nSavedFiles = 0
        /\ \A c \in Conns : ~Left(c)
        /\ uiPc # "counts" => m_nFoundFiles = 0
        /\ uiPc \in {"join", "start"} => m_nClients = failed /\ (ioPc = "error" => seen = failed)
    BY <1>3, <2>1 DEF CleanStart
  <2>3. ~copying /\ ~Swap /\ ~Close /\ ~Show /\ ~Destroy /\ ~StartCopy /\ ~SetFinished
    <3>1. ~copying
      BY <1>3 DEF Buttons
    <3>2. ~Swap /\ ~Close /\ ~Show /\ ~Destroy
      BY <1>3 DEF Swap, Close, Show, Destroy, Goto, Settled
    <3>3. ~StartCopy
      BY DEF StartCopy, Goto, Settled
    <3> QED BY <3>1, <3>2, <3>3 DEF SetFinished
  <2>4. ASSUME NEW c \in Conns PROVE ~Connect(c)
    BY <2>3 DEF Connect
  <2>5. CASE UNCHANGED vars \/ Worker \/ ResetFound \/ JoinWorker
    <3>1. /\ UNCHANGED <<link, ioPc, seen, items, m_vecFileTemp, cleared, m_nSavedFiles, m_nClients, failed>>
          /\ uiPc' \in {"join", "start"} => uiPc \in {"join", "start"}
          /\ uiPc' # "counts" => m_nFoundFiles' = 0
      BY <2>2, <2>5 DEF vars, Worker, ResetFound, JoinWorker, sender, lists, numbers, io, Goto,
         NoneFound
    <3> QED BY <2>2, <3>1 DEF Left
  <2>6. CASE ResetClients
    <3>1. /\ UNCHANGED <<link, ioPc, items, m_vecFileTemp, cleared, m_nSavedFiles, m_nFoundFiles>>
          /\ ioPc # "error" /\ uiPc = "clients" /\ m_nClients' = 0 /\ failed' = 0
      BY <2>6 DEF ResetClients, sender, lists, io, Goto
    <3> QED BY <2>2, <3>1 DEF Left
  <2>7. CASE IoLoad
    <3>1. ioPc' = "error" /\ seen' = m_nClients
      BY <2>2, <2>7 DEF IoLoad, Accept, AcceptError, Gone, Header, FileDone, Load, Left
    <3>2. UNCHANGED <<link, items, m_vecFileTemp, cleared, numbers, uiPc>>
      BY <2>7 DEF IoLoad, Accept, AcceptError, Gone, Header, FileDone, Load, sender, lists
    <3> QED BY <2>2, <3>1, <3>2 DEF Left, numbers
  <2>8. CASE IoStep
    <3>1. /\ ioPc = "error" /\ StoreClients
      BY <2>2, <2>8 DEF IoStep, StoreClients, StoreFound, PushRow, StoreSaved
    <3>2. /\ ioPc' = "idle" /\ m_nClients' = UINT(seen + 1) /\ failed' = failed + 1 /\ link' = link
          /\ UNCHANGED <<items, m_vecFileTemp, cleared, m_nSavedFiles, m_nFoundFiles, uiPc>>
      BY <3>1 DEF StoreClients, Stored, OneMoreOrLess, Typed, TypeOK, NumbersOK
    <3>3. UINT(failed + 1) = failed + 1
      BY <3>1, FailedFits DEF UINT
    <3> QED BY <2>2, <3>1, <3>2, <3>3 DEF Left
  <2> QED BY <1>3, <2>3, <2>4, <2>5, <2>6, <2>7, <2>8 DEF Next, InHandler
<1> QED BY <1>1, <1>2, <1>3

LEMMA StartsOne == ASSUME Typed, copy' = copy PROVE ~StartCopy
<1>1. copy \in Nat
  BY Ranges
<1> QED BY <1>1 DEF StartCopy

\* What keeps the numbers of a clean copy, and how the rest counts on.
LEMMA CleanCopyBefore ==
    ASSUME CleanCopy, [Next]_vars, ~StartCopy, clean', Settled', copy' > 0, copy' = copy
    PROVE  /\ Settled /\ copy > 0 /\ clean
           /\ \A c \in Conns : Left(c) => of[c] = copy
           /\ OfThisCopy = (cleared + 1)..Len(items)
           /\ m_nClients = Cardinality(Opened) + failed
           /\ m_nSavedFiles = Cardinality(SavedOfThisCopy)
           /\ m_nFoundFiles = ShownFound
           /\ ioPc \in {"accept", "error", "gone"} => seen = m_nClients
           /\ ioPc = "saved" => seen = m_nSavedFiles
           /\ ioPc = "found" => seen = m_nFoundFiles
<1>1. Settled
  BY SettledBefore
<1>2. clean
  <2>1. ~ClearList
    BY DEF ClearList, Goto, Settled
  <2>2. CASE IoStep
    BY <2>2 DEF IoStep, StoreClients, StoreFound, PushRow, StoreSaved, Stored
  <2>3. CASE ~IoStep
    BY <2>1, <2>3 DEF Next, vars, SetFinished, Swap, Close, InHandler, ResetFound, ResetClients,
       JoinWorker,
       Show, Destroy, Worker, Connect, IoLoad, Accept, AcceptError, Gone, Header, FileDone, Load
  <2> QED BY <2>2, <2>3
<1> QED BY <1>1, <1>2 DEF CleanCopy

\* The numbers and rows in the steps that count nothing.
LEMMA NothingCounted ==
    ASSUME Sound, CleanCopy, [Next]_vars, Settled', clean', copy' > 0,
           UNCHANGED <<copy, items, cleared, numbers, ioPc, seen>>,
           \A c \in Conns : /\ link'[c] = "open" <=> link[c] = "open"
                            /\ Left(c)' => of'[c] = copy \/ (Left(c) /\ of'[c] = of[c]),
           ~StartCopy
    PROVE  CleanCopy'
<1>1. OfThisCopy' = OfThisCopy /\ SavedOfThisCopy' = SavedOfThisCopy
  BY RowsKept
<1>2. Opened' = Opened
  BY DEF Opened
<1> QED BY <1>1, <1>2, CleanCopyBefore DEF CleanCopy, ShownFound, numbers

LEMMA CleanCopyStep == ASSUME Sound, CleanStart, CleanCopy, [Next]_vars PROVE CleanCopy'
<1> SUFFICES ASSUME clean', Settled', copy' > 0 PROVE CleanCopy'
  BY DEF CleanCopy
<1> USE DEF Sound
<1> DEFINE n == Cardinality(Opened)
           m == Cardinality(SavedOfThisCopy)
<1>1. /\ n \in Nat /\ n + failed <= UINT_MAX /\ IsFiniteSet(Opened) /\ UINT_MAX \in Nat
      /\ m \in Nat /\ IsFiniteSet(SavedOfThisCopy) /\ failed \in Nat
  BY OpenedFinite, FailedFits, SavedFinite, CopiesAreNat
<1>2. /\ cleared \in Nat /\ Len(items) \in Nat /\ cleared <= Len(items)
      /\ link \in [Conns -> {"none", "pending", "open", "closed"}]
  <2>1. Len(items) >= cleared
    BY DEF Kept
  <2>2. cleared \in Nat /\ link \in [Conns -> {"none", "pending", "open", "closed"}]
    BY DEF Typed, TypeOK, NumbersOK
  <2> QED BY <2>1, <2>2, Ranges
<1>3. CASE StartCopy
  <2>1. /\ ~Settled /\ clean /\ UNCHANGED <<items, cleared, ioPc, seen, link, numbers>>
        /\ uiPc = "start"
    BY <1>3 DEF StartCopy, Goto, Settled, io, lists
  <2>2. /\ ioPc \in {"idle", "error"} /\ cleared = Len(items) /\ (\A c \in Conns : ~Left(c))
        /\ m_nSavedFiles = 0 /\ m_nFoundFiles = 0 /\ m_nClients = failed
        /\ ioPc = "error" => seen = failed
    BY <2>1 DEF CleanStart
  <2>3. OfThisCopy' = {} /\ SavedOfThisCopy' = {}
    BY <1>3, CopyStarted
  <2>4. Opened' = {} /\ \A c \in Conns : ~Left(c)'
    BY <2>1, <2>2 DEF Opened, Left
  <2>5. (cleared' + 1)..Len(items') = {}
    BY <1>2, <2>1, <2>2
  <2>6. Cardinality(Opened') = 0 /\ Cardinality(SavedOfThisCopy') = 0
    BY <2>3, <2>4, FS_EmptySet
  <2>7. ShownFound' = 0
    BY <2>1, <2>2, <2>3 DEF ShownFound
  <2>8. m_nClients' = failed' /\ m_nSavedFiles' = 0 /\ m_nFoundFiles' = 0 /\ failed' \in Nat
    BY <1>1, <2>1, <2>2 DEF numbers
  <2>9. ioPc' \in {"idle", "error"} /\ (ioPc' = "error" => seen' = failed')
    BY <2>1, <2>2 DEF numbers
  <2> QED BY <2>3, <2>4, <2>5, <2>6, <2>7, <2>8, <2>9 DEF CleanCopy
<1>4. CASE StoreClients
  <2>1. /\ ioPc \in {"accept", "error", "gone"} /\ ioPc' = "idle" /\ m_nClients' = OneMoreOrLess
        /\ ioPc = "accept" => link' = [link EXCEPT ![cur] = "open"] /\ failed' = failed
        /\ ioPc = "error" => link' = link /\ failed' = failed + 1
        /\ ioPc = "gone" => link' = [link EXCEPT ![cur] = "closed"] /\ failed' = failed
        /\ UNCHANGED <<copy, of, items, cleared, m_nSavedFiles, m_nFoundFiles>> /\ ~StartCopy
    BY <1>2, <1>4 DEF StoreClients, Stored, StartCopy, io
  <2>2. /\ seen = n + failed /\ (\A c \in Conns : Left(c) => of[c] = copy) /\ cur \in Conns
        /\ ioPc = "accept" => link[cur] = "pending"
        /\ ioPc = "gone" => link[cur] = "open"
    BY <2>1, CleanCopyBefore, Ranges DEF AtWorkOn
  <2>3. m_nClients' = Cardinality(Opened') + failed'
    <3>1. CASE ioPc = "accept"
      <4>1. Opened' = Opened \cup {cur} /\ cur \notin Opened
        BY <1>2, <2>1, <2>2, <3>1 DEF Opened
      <4>2. Cardinality(Opened') = n + 1 /\ n + failed + 1 <= UINT_MAX
        <5>1. Cardinality(Opened \cup {cur}) = n + 1
          BY <1>1, <4>1, FS_AddElement
        <5>2. Cardinality(Opened \cup {cur}) + failed <= UINT_MAX
          BY <3>1, FailedFits
        <5> QED BY <1>1, <4>1, <5>1, <5>2
      <4>3. (n + failed + 1) % (UINT_MAX + 1) = n + failed + 1
        BY <1>1, <4>2
      <4> QED BY <1>1, <2>1, <2>2, <3>1, <4>2, <4>3 DEF OneMoreOrLess, UINT
    <3>2. CASE ioPc = "error"
      <4>1. Opened' = Opened
        BY <2>1, <3>2 DEF Opened
      <4>2. n + failed + 1 <= UINT_MAX
        BY <3>2, FailedFits
      <4>3. (n + failed + 1) % (UINT_MAX + 1) = n + failed + 1
        BY <1>1, <4>2
      <4> QED BY <1>1, <2>1, <2>2, <3>2, <4>1, <4>3 DEF OneMoreOrLess, UINT
    <3>3. CASE ioPc = "gone"
      <4>1. Opened' = Opened \ {cur} /\ cur \in Opened
        BY <1>2, <2>1, <2>2, <3>3 DEF Opened
      <4>2. Cardinality(Opened') = n - 1 /\ n # 0
        BY <1>1, <4>1, FS_RemoveElement, FS_EmptySet
      <4>3. (n + failed - 1) % (UINT_MAX + 1) = n + failed - 1
        BY <1>1, <4>2
      <4> QED BY <1>1, <2>1, <2>2, <3>3, <4>2, <4>3 DEF OneMoreOrLess, UINT
    <3> QED BY <2>1, <3>1, <3>2, <3>3
  <2>4. OfThisCopy' = OfThisCopy /\ SavedOfThisCopy' = SavedOfThisCopy
    BY <2>1, RowsKept
  <2>5. \A c \in Conns : Left(c)' => of'[c] = copy'
    BY <1>2, <2>1, <2>2 DEF Left
  <2> QED BY <2>1, <2>3, <2>4, <2>5, CleanCopyBefore DEF CleanCopy, ShownFound
<1>5. CASE StoreFound
  <2>1. /\ ioPc = "found" /\ ioPc' = "row" /\ m_nFoundFiles' = LargerFound
        /\ UNCHANGED <<copy, of, cur, link, items, cleared, m_nSavedFiles, m_nClients, failed>> /\ ~StartCopy
    BY <1>5 DEF StoreFound, Stored, StartCopy, io
  <2>2. of[cur] = copy /\ seen = m_nFoundFiles /\ m_nFoundFiles = ShownFound
    BY <2>1, CleanCopyBefore, Ranges DEF AtWorkOn, Left
  <2>3. FoundIn[copy] \in Nat /\ m_nFoundFiles \in Nat
    BY <2>1, Ranges
  <2>4. m_nFoundFiles' = FoundIn[copy]
    BY <2>1, <2>2, <2>3 DEF LargerFound, ShownFound
  <2>5. OfThisCopy' = OfThisCopy /\ SavedOfThisCopy' = SavedOfThisCopy /\ Opened' = Opened
    BY <2>1, RowsKept DEF Opened
  <2> QED BY <2>1, <2>4, <2>5, CleanCopyBefore DEF CleanCopy, ShownFound, Left
<1>6. CASE PushRow
  <2>1. /\ ioPc = "row" /\ ioPc' = "idle"
        /\ UNCHANGED <<copy, of, cur, link, cleared, numbers>> /\ ~StartCopy
    BY <1>6 DEF PushRow, Stored, StartCopy, io
  <2>2. of[cur] = copy
    BY <2>1, CleanCopyBefore, Ranges DEF AtWorkOn, Left
  <2>3. OfThisCopy' = OfThisCopy \cup {Len(items) + 1} /\ SavedOfThisCopy' = SavedOfThisCopy
    BY <1>6, <2>2, RowPushed
  <2>4. Len(items') = Len(items) + 1
    BY <1>6, ItemsStep
  <2>5. OfThisCopy = (cleared + 1)..Len(items)
    BY <2>1, CleanCopyBefore
  <2>6. OfThisCopy' = (cleared' + 1)..Len(items')
    BY <1>2, <2>1, <2>3, <2>4, <2>5
  <2>7. m_nFoundFiles = FoundIn[copy]
    BY <2>1, CleanCopyBefore DEF ShownFound
  <2>8. Opened' = Opened /\ OfThisCopy' # {}
    BY <2>1, <2>3 DEF Opened
  <2> QED BY <2>1, <2>3, <2>6, <2>7, <2>8, CleanCopyBefore DEF CleanCopy, ShownFound, Left, numbers
<1>7. CASE StoreSaved
  <2> DEFINE f == filing[cur]
  <2>1. /\ ioPc = "saved" /\ ioPc' = "idle" /\ m_nSavedFiles' = seen + 1
        /\ UNCHANGED <<copy, of, cur, link, cleared, m_nFoundFiles, m_nClients, failed>> /\ ~StartCopy
    BY <1>7 DEF StoreSaved, Stored, StartCopy, io
  <2>2. of[cur] = copy /\ seen = m
    BY <2>1, CleanCopyBefore, Ranges DEF AtWorkOn, Left
  <2>3. f # 0 /\ RowOf(cur)
    BY <2>1, Ranges DEF OwnRows, Typed, Handled
  <2>4. f \in OfThisCopy /\ f \notin SavedOfThisCopy
    BY <2>2, <2>3 DEF RowOf, OfThisCopy, SavedOfThisCopy
  <2>5. OfThisCopy' = OfThisCopy /\ SavedOfThisCopy' = SavedOfThisCopy \cup {f}
    BY <1>7, <2>4, RowSaved
  <2>6. Cardinality(SavedOfThisCopy') = m + 1
    <3> HIDE DEF f
    <3> QED BY <1>1, <2>4, <2>5, FS_AddElement
  <2>7. Len(items') = Len(items)
    <3>1. ~PushRow
      BY <2>1 DEF PushRow
    <3> QED BY <1>7, <3>1, ItemsStep
  <2>8. Opened' = Opened
    BY <2>1 DEF Opened
  <2> HIDE DEF f
  <2> QED BY <2>1, <2>2, <2>5, <2>6, <2>7, <2>8, CleanCopyBefore DEF CleanCopy, ShownFound, Left
<1>8. ASSUME NEW c \in Conns, Connect(c) PROVE CleanCopy'
  <2>1. /\ link[c] = "none" /\ link' = [link EXCEPT ![c] = "pending"]
        /\ of' = [of EXCEPT ![c] = copy]
        /\ UNCHANGED <<copy, items, cleared, numbers, ioPc, seen>>
    BY <1>8 DEF Connect, io, lists
  <2>2. ~StartCopy
    BY <2>1, StartsOne
  <2>3. of \in [Conns -> Nat]
    BY CopiesAreNat DEF Typed, TypeOK, NumbersOK
  <2>4. \A d \in Conns : /\ link'[d] = "open" <=> link[d] = "open"
                         /\ Left(d)' => of'[d] = copy \/ (Left(d) /\ of'[d] = of[d])
    BY <1>2, <2>1, <2>3 DEF Left
  <2> QED BY <2>1, <2>2, <2>4, NothingCounted
<1>9. ASSUME IoLoad PROVE CleanCopy'
  <2>1. /\ ioPc = "idle" /\ ioPc' \in {"accept", "error", "gone", "found", "saved"}
        /\ UNCHANGED <<copy, of, link, items, cleared, numbers>>
        /\ ioPc' \in {"accept", "error", "gone"} => seen' = m_nClients
        /\ ioPc' = "found" => seen' = m_nFoundFiles
        /\ ioPc' = "saved" => seen' = m_nSavedFiles
    BY <1>9, Loads DEF IoLoad, Accept, AcceptError, Gone, Header, FileDone, Load, sender, lists
  <2>2. ~StartCopy
    BY <2>1, StartsOne
  <2>3. OfThisCopy' = OfThisCopy /\ SavedOfThisCopy' = SavedOfThisCopy /\ Opened' = Opened
    BY <2>1, RowsKept DEF Opened
  <2> QED BY <2>1, <2>2, <2>3, CleanCopyBefore DEF CleanCopy, ShownFound, Left, numbers
<1>10. CASE UNCHANGED vars \/ SetFinished \/ Swap \/ Close \/ Show \/ Destroy \/ Worker
  <2>1. UNCHANGED <<copy, items, cleared, numbers, ioPc, seen, link, of>>
    BY <1>10 DEF vars, SetFinished, Swap, Close, Show, Destroy, Worker, sender, io, lists
  <2>2. ~StartCopy
    BY <2>1, StartsOne
  <2> QED BY <2>1, <2>2, NothingCounted DEF Left
<1>11. CASE ClearList \/ ResetFound \/ ResetClients \/ JoinWorker
  BY <1>11 DEF ClearList, ResetFound, ResetClients, JoinWorker, Goto, Settled
<1> QED BY <1>3, <1>4, <1>5, <1>6, <1>7, <1>8, <1>9, <1>10, <1>11 DEF Next, IoStep, InHandler

(***************************************************************************)
(* CleanRerunAlways.  A copy that begins when everything of the copies     *)
(* before has been served and shown is shown by itself, number by number,  *)
(* for any number of copies, connections, files and failed accepts, as     *)
(* long as they fit into m_nClients.                                       *)
(***************************************************************************)
THEOREM CleanRerunAlways == Spec => []CleanRerun
<1> DEFINE Inv == Sound /\ CleanStart /\ CleanCopy
<1>1. Init => Inv
  <2> SUFFICES ASSUME Init PROVE Inv
    OBVIOUS
  <2>1. Kept
    BY InitKept
  <2>2. NoneLater /\ AtWorkOn /\ Buttons /\ OwnRows
    BY DEF Init, NoneLater, AtWorkOn, Buttons, OwnRows, Settled
  <2>3. CleanStart /\ CleanCopy
    BY DEF Init, CleanStart, CleanCopy, Settled
  <2> QED BY <2>1, <2>2, <2>3, InitTyped DEF Sound
<1>2. Inv => CleanRerun
  BY DEF CleanCopy, ShownFound, CleanRerun, Settled
<1>3. Inv /\ [Next]_vars => Inv'
  BY TypedStep, KeptStep, NoneLaterStep, AtWorkOnStep, ButtonsStep, OwnRowsStep, CleanStartStep,
     CleanCopyStep DEF Sound
<1> QED BY <1>1, <1>2, <1>3, PTL DEF Spec
=============================================================================
