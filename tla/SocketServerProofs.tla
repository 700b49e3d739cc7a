------------------------- MODULE SocketServerProofs -------------------------
(***************************************************************************)
(* Proofs about SocketServer for any number of clients, threads and slots. *)
(***************************************************************************)
EXTENDS SocketServer, SequenceTheorems, FiniteSetTheorems, TLAPS

-----------------------------------------------------------------------------
(* Sequences.            *)

LEMMA CompactedIs ==
    ASSUME NEW S, NEW s \in Seq(S), NEW k \in 1..Len(s)
    PROVE  /\ Compacted(s, k) \in Seq(S) /\ Len(Compacted(s, k)) = Len(s) - 1
           /\ \A j \in 1..(Len(s) - 1) : Compacted(s, k)[j] = s[IF j < k THEN j ELSE j + 1]
<1> DEFINE before == SubSeq(s, 1, k - 1)
           behind == SubSeq(s, k + 1, Len(s))
<1>0. Len(s) \in Nat /\ k \in Nat /\ \A q \in 1..Len(s) : s[q] \in S
  BY ElementOfSeq
<1>1. before \in Seq(S) /\ Len(before) = k - 1 /\ \A q \in 1..(k - 1) : before[q] = s[q]
  <2>1. \A q \in 1..(k - 1) : s[q] \in S
    BY <1>0
  <2>2. /\ before \in Seq(S) /\ Len(before) = IF 1 <= k - 1 THEN (k - 1) - 1 + 1 ELSE 0
        /\ \A q \in 1..((k - 1) - 1 + 1) : before[q] = s[1 + q - 1]
    BY <1>0, <2>1, SubSeqProperties, 1 \in Int, k - 1 \in Int
  <2> QED BY <1>0, <2>2
<1>2. /\ behind \in Seq(S) /\ Len(behind) = Len(s) - k
      /\ \A q \in 1..(Len(s) - k) : behind[q] = s[k + q]
  <2>1. \A q \in (k + 1)..Len(s) : s[q] \in S
    BY <1>0
  <2>2. /\ behind \in Seq(S)
        /\ Len(behind) = IF k + 1 <= Len(s) THEN Len(s) - (k + 1) + 1 ELSE 0
        /\ \A q \in 1..(Len(s) - (k + 1) + 1) : behind[q] = s[(k + 1) + q - 1]
    BY <1>0, <2>1, SubSeqProperties, k + 1 \in Int, Len(s) \in Int
  <2> QED BY <1>0, <2>2
<1>3. Compacted(s, k) = before \o behind
  BY DEF Compacted, RemoveAt
<1> HIDE DEF before, behind
<1>4. /\ before \o behind \in Seq(S) /\ Len(before \o behind) = Len(before) + Len(behind)
      /\ \A q \in 1..(Len(before) + Len(behind)) :
            (before \o behind)[q] = IF q <= Len(before) THEN before[q] ELSE behind[q - Len(before)]
  BY <1>1, <1>2, ConcatProperties
<1>5. \A j \in 1..(Len(s) - 1) : Compacted(s, k)[j] = s[IF j < k THEN j ELSE j + 1]
  <2> TAKE j \in 1..(Len(s) - 1)
  <2>1. CASE j < k
    <3>1. j \in 1..(k - 1) /\ j <= Len(before) /\ j \in 1..(Len(before) + Len(behind))
      BY <1>0, <1>1, <1>2, <2>1
    <3> QED BY <1>1, <1>3, <1>4, <2>1, <3>1
  <2>2. CASE ~(j < k)
    <3>1. /\ ~(j <= Len(before)) /\ j \in 1..(Len(before) + Len(behind))
          /\ j - Len(before) \in 1..(Len(s) - k) /\ k + (j - Len(before)) = j + 1
      BY <1>0, <1>1, <1>2, <2>2
    <3>2. Compacted(s, k)[j] = behind[j - Len(before)]
      BY <1>3, <1>4, <3>1
    <3> QED BY <1>2, <2>2, <3>1, <3>2
  <2> QED BY <2>1, <2>2
<1> QED BY <1>0, <1>1, <1>2, <1>3, <1>4, <1>5

-----------------------------------------------------------------------------
(* What is true of the threads and of their arrays. *)

Slots == DOMAIN pClientArray

AtIndex == {"enum", "reset", "recv", "close", "remove"}

Deleting == {"deletenext", "delete"}

\* dwIndex is one of a slot before it is raised.
IndexHolds == \A t \in Threads : pc[t] \in {"next", "deletenext"} => dwIndex[t] <= MaxClients

NewWaits == pNewClient # None => place[pNewClient] = "new"

\* A removed client is in the hands of the thread that removed it, and of no other.
Removers ==
    /\ \A t \in Threads : pc[t] \in Deleting =>
          pClient[t] \in Clients /\ place[pClient[t]] = "removed"
    /\ \A t, u \in Threads : pc[t] \in Deleting /\ pc[u] \in Deleting /\ t # u
          => pClient[t] # pClient[u]

Inv == TypeOK /\ SlotOnce /\ IndexHolds /\ NewWaits /\ Removers

Present == {c \in Clients : place[c] \notin {"away", "gone"}}

\* The client a thread that has an index is at.
LEMMA ClientAt ==
    ASSUME TypeOK, SlotOnce, NEW t \in Threads, pc[t] \in AtIndex
    PROVE  /\ pClientArray[t] \in Seq(Clients) /\ Len(pClientArray[t]) \in Nat
           /\ dwIndex[t] \in 1..Len(pClientArray[t])
           /\ pClientArray[t][dwIndex[t]] = pClient[t] /\ pClient[t] \in Clients
           /\ place[pClient[t]] = "slot"
<1>1. pClientArray[t] \in Seq(Clients) /\ Len(pClientArray[t]) \in Nat
  BY DEF TypeOK
<1>2. dwIndex[t] \in 1..Len(pClientArray[t]) /\ pClientArray[t][dwIndex[t]] = pClient[t]
  BY <1>1 DEF TypeOK, SlotOnce, AtIndex
<1>3. pClient[t] \in Clients
  BY <1>1, <1>2, ElementOfSeq
<1> QED BY <1>1, <1>2, <1>3 DEF SlotOnce


-----------------------------------------------------------------------------
(* The type invariant. *)

Bits == {"READ", "WRITE", "CLOSE"}

SocketsOK ==
    /\ data \in [Clients -> Nat] /\ toCome \in [Clients -> Nat]
    /\ closed \subseteq Clients /\ hSocketEvent \subseteq Clients /\ armed \subseteq Clients
    /\ record \in [Clients -> SUBSET Bits] /\ missed \subseteq Clients

ListenOK ==
    /\ place \in [Clients -> {"away", "new", "slot", "removed", "gone", "refused"}]
    /\ pNewClient \in Clients \cup {None} /\ i \in 1..(MaxThread + 1)
    /\ suspended \subseteq Threads

ArraysOK ==
    /\ \A t \in Threads : Len(pClientArray[t]) <= MaxClients /\ Len(hEventArray[t]) <= MaxClients
    /\ pClientArray \in [Threads -> Seq(Clients)] /\ hEventArray \in [Threads -> Seq(Clients)]

MonitorOK ==
    /\ pc \in [Threads -> {"wait", "scan", "enum", "reset", "recv", "next", "close", "remove",
                           "deletenext", "delete"}]
    /\ NetworkEvents \in [Threads -> SUBSET Bits]
    /\ pClient \in [Threads -> Clients \cup {None}]

IndexOK == dwIndex \in [Threads -> 1..(MaxClients + 1)]

LEMMA TypeParts ==
    TypeOK <=> SocketsOK /\ ListenOK /\ ArraysOK /\ MonitorOK /\ IndexOK /\ m_nClients \in Nat
BY DEF TypeOK, SocketsOK, ListenOK, ArraysOK, MonitorOK, IndexOK, Bits

LEMMA RecordType ==
    ASSUME SocketsOK, NEW c \in Clients, NEW events \in SUBSET Bits, Record(c, events)
    PROVE  record' \in [Clients -> SUBSET Bits] /\ hSocketEvent' \subseteq Clients
BY DEF SocketsOK, Record

LEMMA SocketsStep == ASSUME TypeOK, SlotOnce, Removers, [Next]_vars PROVE SocketsOK'
<1>0. SocketsOK /\ ListenOK
  BY TypeParts
<1>1. ASSUME NEW c \in Clients, PeerSends(c) PROVE SocketsOK'
  <2>1. record' \in [Clients -> SUBSET Bits] /\ hSocketEvent' \subseteq Clients
    BY <1>0, <1>1, RecordType DEF PeerSends, Bits
  <2>2. data' \in [Clients -> Nat] /\ toCome' \in [Clients -> Nat]
    BY <1>0, <1>1 DEF PeerSends, SocketsOK
  <2> QED BY <1>0, <1>1, <2>1, <2>2 DEF PeerSends, SocketsOK
<1>2. ASSUME NEW c \in Clients, PeerCloses(c) PROVE SocketsOK'
  <2>1. record' \in [Clients -> SUBSET Bits] /\ hSocketEvent' \subseteq Clients
    BY <1>0, <1>2, RecordType DEF PeerCloses, Bits
  <2> QED BY <1>0, <1>2, <2>1 DEF PeerCloses, SocketsOK
<1>3. ASSUME NEW c \in Clients, Accept(c) PROVE SocketsOK'
  <2>1. record' \in [Clients -> SUBSET Bits] /\ hSocketEvent' \subseteq Clients
    BY <1>0, <1>3, RecordType DEF Accept, Bits
  <2> QED BY <1>0, <1>3, <2>1 DEF Accept, SocketsOK
<1>4. ASSUME NEW t \in Threads, Recv(t) PROVE SocketsOK'
  <2> DEFINE c == pClientArray[t][dwIndex[t]]
  <2>1. c \in Clients
    BY <1>4, ClientAt DEF Recv, Goto, AtIndex
  <2>2. PICK k \in (IF data[c] = 0 THEN {0} ELSE 1..data[c]) :
           /\ data' = [data EXCEPT ![c] = @ - k]
           /\ Record(c, IF data[c] > k THEN {"READ"} ELSE {})
           /\ armed' = IF data[c] > k THEN armed \ {c} ELSE armed \cup {c}
    BY <1>4 DEF Recv
  <2>3. toCome' = toCome /\ closed' = closed /\ missed' = missed
    BY <1>4 DEF Recv
  <2> HIDE DEF c
  <2>4. data' \in [Clients -> Nat]
    BY <1>0, <2>1, <2>2 DEF SocketsOK
  <2>5. record' \in [Clients -> SUBSET Bits] /\ hSocketEvent' \subseteq Clients
    BY <1>0, <2>1, <2>2, RecordType DEF Bits
  <2> QED BY <1>0, <2>1, <2>2, <2>3, <2>4, <2>5 DEF SocketsOK
<1>5. ASSUME NEW t \in Threads, Enum(t) \/ Reset(t) PROVE SocketsOK'
  <2>1. pClientArray[t][dwIndex[t]] \in Clients
    BY <1>5, ClientAt DEF Enum, Reset, Goto, AtIndex
  <2> QED BY <1>0, <1>5, <2>1 DEF Enum, Reset, SocketsOK
<1>6. ASSUME NEW t \in Threads, Delete(t) PROVE SocketsOK'
  BY <1>0, <1>6 DEF Delete, SocketsOK
<1>7. ASSUME NEW t \in Threads,
             Wait(t) \/ ScanOn(t) \/ ScanEnds(t) \/ NextIndex(t) \/ RemoveConnect(t)
      PROVE  SocketsOK'
  BY <1>0, <1>7 DEF Wait, ScanOn, Wakes, ScanEnds, NextIndex, RemoveConnect, SocketsOK, sockets
<1>8. CASE Place \/ NoPlace \/ UNCHANGED vars
  BY <1>0, <1>8 DEF Place, NoPlace, SocketsOK, sockets, vars
<1> QED
  BY <1>1, <1>2, <1>3, <1>4, <1>5, <1>6, <1>7, <1>8 DEF Next, ListenThread, Placing, MonitorThread

LEMMA ListenStep == ASSUME TypeOK, [Next]_vars PROVE ListenOK'
<1>0. ListenOK /\ MaxThread \in Nat
  BY TypeParts, SocketServerAssumption
<1>1. ASSUME NEW c \in Clients, PeerSends(c) \/ PeerCloses(c) PROVE ListenOK'
  BY <1>0, <1>1 DEF PeerSends, PeerCloses, ListenOK, listen, slots
<1>2. ASSUME NEW c \in Clients, Accept(c) PROVE ListenOK'
  BY <1>0, <1>2 DEF Accept, ListenOK, slots
<1>3. CASE Place
  <2>1. place' \in [Clients -> {"away", "new", "slot", "removed", "gone", "refused"}]
    BY <1>0, <1>3 DEF Place, ListenOK
  <2>2. i' \in 1..(MaxThread + 1)
    BY <1>0, <1>3 DEF Place, ListenOK, Threads
  <2> QED BY <1>0, <1>3, <2>1, <2>2 DEF Place, ListenOK, slots
<1>4. CASE NoPlace
  BY <1>0, <1>4 DEF NoPlace, ListenOK, slots
<1>5. ASSUME NEW t \in Threads, MonitorThread(t) PROVE ListenOK'
  BY <1>0, <1>5 DEF MonitorThread, Wait, ScanOn, Wakes, ScanEnds, Enum, Reset, Recv, NextIndex,
     RemoveConnect, Delete, ListenOK, listen, slots
<1>6. CASE UNCHANGED vars
  BY <1>0, <1>6 DEF ListenOK, vars, listen, slots
<1> QED BY <1>1, <1>2, <1>3, <1>4, <1>5, <1>6 DEF Next, ListenThread, Placing

\* The steps that leave the arrays alone.
LEMMA OtherSteps ==
    ASSUME [Next]_vars, ~Place, \A t \in Threads : ~RemoveConnect(t)
    PROVE  UNCHANGED <<pClientArray, hEventArray>>
BY DEF Next, ListenThread, Placing, MonitorThread, PeerSends, PeerCloses, Accept, NoPlace,
   Wait, ScanOn, Wakes, ScanEnds, Enum, Reset, Recv, NextIndex, Delete, vars, slots

LEMMA ArraysStep == ASSUME TypeOK, SlotOnce, [Next]_vars PROVE ArraysOK'
<1>0. ArraysOK /\ MaxClients \in Nat
  BY TypeParts, SocketServerAssumption
<1>1. CASE Place
  <2>1. CASE HasRoom(i)
    <3>1. i \in Threads /\ pNewClient \in Clients
      BY <1>1 DEF Place, TypeOK
    <3>2. /\ pClientArray' = [pClientArray EXCEPT ![i] = Append(pClientArray[i], pNewClient)]
          /\ hEventArray' = [hEventArray EXCEPT ![i] = Append(hEventArray[i], pNewClient)]
      BY <1>1, <2>1 DEF Place, AtTheEnd
    <3>3. hEventArray[i] = pClientArray[i] /\ Len(pClientArray[i]) + 1 <= MaxClients
      BY <1>0, <2>1, <3>1 DEF SlotOnce, HasRoom, ArraysOK
    <3>4. /\ Append(pClientArray[i], pNewClient) \in Seq(Clients)
          /\ Len(Append(pClientArray[i], pNewClient)) <= MaxClients
      BY <1>0, <3>1, <3>3, AppendProperties DEF ArraysOK
    <3> QED BY <1>0, <3>1, <3>2, <3>3, <3>4 DEF ArraysOK
  <2>2. CASE ~HasRoom(i)
    BY <1>0, <1>1, <2>2 DEF Place, ArraysOK, slots
  <2> QED BY <2>1, <2>2
<1>2. ASSUME NEW t \in Threads, RemoveConnect(t) PROVE ArraysOK'
  <2> DEFINE rest == Compacted(pClientArray[t], dwIndex[t])
  <2>1. pc[t] \in AtIndex
    BY <1>2 DEF RemoveConnect, Goto, AtIndex
  <2>2. /\ dwIndex[t] \in 1..Len(pClientArray[t]) /\ pClientArray[t] \in Seq(Clients)
        /\ Len(pClientArray[t]) \in Nat
    BY <2>1, ClientAt
  <2>3. rest \in Seq(Clients) /\ Len(rest) = Len(pClientArray[t]) - 1
    BY <2>2, CompactedIs
  <2>4. hEventArray = pClientArray
    BY DEF SlotOnce
  <2>5. /\ pClientArray' = [pClientArray EXCEPT ![t] = rest]
        /\ hEventArray' = [hEventArray EXCEPT ![t] = rest]
    BY <1>2, <2>4 DEF RemoveConnect
  <2> HIDE DEF rest
  <2>6. Len(rest) <= MaxClients
    BY <1>0, <2>2, <2>3 DEF ArraysOK
  <2> QED BY <1>0, <2>3, <2>5, <2>6 DEF ArraysOK
<1>3. CASE UNCHANGED <<pClientArray, hEventArray>>
  BY <1>0, <1>3 DEF ArraysOK
<1> QED BY <1>1, <1>2, <1>3, OtherSteps

\* Steps that are not a monitor thread's.
LEMMA MonitorKept ==
    ASSUME [Next]_vars, \A t \in Threads : ~MonitorThread(t)
    PROVE  UNCHANGED <<pc, dwIndex, NetworkEvents, pClient>>
BY DEF Next, ListenThread, Placing, PeerSends, PeerCloses, Accept, Place, NoPlace, vars, monitor

LEMMA HandlerType ==
    ASSUME NEW events \in SUBSET Bits
    PROVE  Handler(events) \in {"recv", "next", "close"}
<1>1. \/ "READ" \in events \/ ("READ" \notin events /\ "WRITE" \in events)
      \/ events = {"CLOSE"} \/ events = {}
  BY DEF Bits
<1> QED BY <1>1 DEF Handler

LEMMA MonitorStep == ASSUME TypeOK, SlotOnce, [Next]_vars PROVE MonitorOK'
<1>0. MonitorOK /\ SocketsOK /\ ArraysOK
  BY TypeParts
<1>1. ASSUME NEW t \in Threads, Wait(t) \/ ScanOn(t) PROVE MonitorOK'
  <2>1. PICK from : (from = 1 \/ from = dwIndex[t]) /\ Wakes(t, from)
    BY <1>1 DEF Wait, ScanOn
  <2>2. PICK k \in Set(t, from) : pClient' = [pClient EXCEPT ![t] = hEventArray[t][k]]
    BY <2>1 DEF Wakes
  <2>3. k \in 1..Len(hEventArray[t])
    BY <2>1, <2>2 DEF Set, TypeOK
  <2>4. hEventArray[t][k] \in Clients
    BY <2>3, ElementOfSeq DEF TypeOK
  <2>5. NetworkEvents' = NetworkEvents
    BY <2>1 DEF Wakes
  <2>6. pc' = [pc EXCEPT ![t] = "enum"]
    BY <1>1 DEF Wait, ScanOn, Goto
  <2> QED BY <1>0, <2>2, <2>4, <2>5, <2>6 DEF MonitorOK
<1>2. ASSUME NEW t \in Threads, Enum(t) PROVE MonitorOK'
  <2>1. pClientArray[t][dwIndex[t]] \in Clients
    BY <1>2, ClientAt DEF Enum, Goto, AtIndex
  <2>2. record[pClientArray[t][dwIndex[t]]] \in SUBSET Bits
    BY <1>0, <2>1 DEF SocketsOK
  <2> QED BY <1>0, <1>2, <2>2 DEF Enum, Goto, MonitorOK
<1>3. ASSUME NEW t \in Threads, Reset(t) PROVE MonitorOK'
  <2>1. Handler(NetworkEvents[t]) \in {"recv", "next", "close"}
    BY <1>0, HandlerType DEF MonitorOK
  <2>2. /\ pc' = [pc EXCEPT ![t] = Handler(NetworkEvents[t])]
        /\ NetworkEvents' = NetworkEvents /\ pClient' = pClient
    BY <1>3 DEF Reset, Goto
  <2> QED BY <1>0, <2>1, <2>2 DEF MonitorOK
<1>4. ASSUME NEW t \in Threads, ScanEnds(t) \/ Recv(t) \/ NextIndex(t) \/ RemoveConnect(t)
      PROVE  MonitorOK'
  <2>1. \E to \in {"wait", "remove", "next", "scan", "deletenext", "delete"} :
           pc' = [pc EXCEPT ![t] = to]
    BY <1>4 DEF ScanEnds, Recv, NextIndex, RemoveConnect, Goto
  <2>2. NetworkEvents' = NetworkEvents /\ pClient' = pClient
    BY <1>4 DEF ScanEnds, Recv, NextIndex, RemoveConnect
  <2> QED BY <1>0, <2>1, <2>2 DEF MonitorOK
<1>5. ASSUME NEW t \in Threads, Delete(t) PROVE MonitorOK'
  BY <1>0, <1>5 DEF Delete, Goto, MonitorOK
<1>6. CASE \A t \in Threads : ~MonitorThread(t)
  BY <1>0, <1>6, MonitorKept DEF MonitorOK
<1> QED BY <1>1, <1>2, <1>3, <1>4, <1>5, <1>6 DEF MonitorThread

LEMMA IndexStep ==
    ASSUME TypeOK, SlotOnce, IndexHolds, [Next]_vars
    PROVE  IndexOK' /\ IndexHolds'
<1>0. IndexOK /\ ArraysOK /\ MonitorOK /\ MaxClients \in Nat
  BY TypeParts, SocketServerAssumption
<1>1. ASSUME NEW t \in Threads, Wait(t) \/ ScanOn(t) PROVE IndexOK' /\ IndexHolds'
  <2>1. PICK from : (from = 1 \/ from = dwIndex[t]) /\ Wakes(t, from)
    BY <1>1 DEF Wait, ScanOn
  <2>2. PICK k \in Set(t, from) : dwIndex' = [dwIndex EXCEPT ![t] = k]
    BY <2>1 DEF Wakes
  <2>3. k \in 1..Len(hEventArray[t])
    BY <2>1, <2>2 DEF Set, TypeOK
  <2>4. k \in 1..(MaxClients + 1)
    BY <1>0, <2>3 DEF ArraysOK
  <2>5. pc' = [pc EXCEPT ![t] = "enum"]
    BY <1>1 DEF Wait, ScanOn, Goto
  <2> QED BY <1>0, <2>2, <2>4, <2>5 DEF IndexOK, IndexHolds, MonitorOK
<1>2. ASSUME NEW t \in Threads, Enum(t) \/ ScanEnds(t) \/ Delete(t)
      PROVE  IndexOK' /\ IndexHolds'
  <2>1. /\ dwIndex' = dwIndex
        /\ \E from, to : /\ Goto(t, from, to)
                         /\ to \in {"reset", "wait", "next", "scan"}
                         /\ to = "next" => from = "deletenext"
    BY <1>2 DEF Enum, ScanEnds, Delete
  <2> QED BY <1>0, <2>1 DEF Goto, IndexOK, IndexHolds, MonitorOK
<1>3. ASSUME NEW t \in Threads, Reset(t) \/ Recv(t) \/ RemoveConnect(t)
      PROVE  IndexOK' /\ IndexHolds'
  <2>1. dwIndex' = dwIndex
    BY <1>3 DEF Reset, Recv, RemoveConnect
  <2>2. pc[t] \in AtIndex
    BY <1>3 DEF Reset, Recv, RemoveConnect, Goto, AtIndex
  <2>3. dwIndex[t] <= MaxClients
    BY <1>0, <2>2, ClientAt DEF ArraysOK, IndexOK
  <2>4. \E to : pc' = [pc EXCEPT ![t] = to]
    BY <1>3 DEF Reset, Recv, RemoveConnect, Goto
  <2> QED BY <1>0, <2>1, <2>3, <2>4 DEF IndexOK, IndexHolds, MonitorOK
<1>4. ASSUME NEW t \in Threads, NextIndex(t) PROVE IndexOK' /\ IndexHolds'
  <2>1. pc[t] = "next" /\ pc' = [pc EXCEPT ![t] = "scan"]
        /\ dwIndex' = [dwIndex EXCEPT ![t] = @ + 1]
    BY <1>4 DEF NextIndex, Goto
  <2>2. dwIndex[t] \in 1..MaxClients
    BY <1>0, <2>1 DEF IndexOK, IndexHolds
  <2>3. dwIndex[t] + 1 \in 1..(MaxClients + 1)
    BY <1>0, <2>2
  <2> QED BY <1>0, <2>1, <2>3 DEF IndexOK, IndexHolds, MonitorOK
<1>5. CASE \A t \in Threads : ~MonitorThread(t)
  BY <1>0, <1>5, MonitorKept DEF IndexOK, IndexHolds
<1> QED BY <1>1, <1>2, <1>3, <1>4, <1>5 DEF MonitorThread

-----------------------------------------------------------------------------
(* SlotOnce, part by part. *)

Alike == hEventArray = pClientArray

NoTwoSlots ==
    \A t, u \in Threads : \A k \in DOMAIN pClientArray[t], l \in DOMAIN pClientArray[u] :
        pClientArray[t][k] = pClientArray[u][l] => t = u /\ k = l

PlacedInSlot ==
    \A c \in Clients :
        place[c] = "slot" <=> \E t \in Threads : \E k \in DOMAIN pClientArray[t] : pClientArray[t][k] = c

IndexIsClient ==
    \A t \in Threads : pc[t] \in AtIndex =>
        dwIndex[t] <= Len(pClientArray[t]) /\ pClientArray[t][dwIndex[t]] = pClient[t]

Counted == m_nClients = Cardinality(Present)

LEMMA SlotParts ==
    SlotOnce <=> Alike /\ NoTwoSlots /\ PlacedInSlot /\ IndexIsClient /\ Counted
BY DEF SlotOnce, Alike, NoTwoSlots, PlacedInSlot, IndexIsClient, Counted, Present, AtIndex

\* Place puts the new client behind the others of thread i.
LEMMA PlaceIs ==
    ASSUME Inv, Place, HasRoom(i)
    PROVE  /\ i \in Threads /\ pNewClient \in Clients /\ place[pNewClient] = "new"
           /\ Len(pClientArray[i]) \in Nat
           /\ hEventArray' = pClientArray'
           /\ \A t \in Threads \ {i} : pClientArray'[t] = pClientArray[t]
           /\ DOMAIN pClientArray'[i] = 1..(Len(pClientArray[i]) + 1)
           /\ Len(pClientArray'[i]) = Len(pClientArray[i]) + 1
           /\ pClientArray'[i][Len(pClientArray[i]) + 1] = pNewClient
           /\ \A k \in 1..Len(pClientArray[i]) : pClientArray'[i][k] = pClientArray[i][k]
           /\ place' = [place EXCEPT ![pNewClient] = "slot"]
<1>1. i \in Threads /\ pNewClient \in Clients /\ place[pNewClient] = "new"
  BY DEF Inv, NewWaits, Place, TypeOK
<1>2. pClientArray[i] \in Seq(Clients) /\ hEventArray = pClientArray
  BY <1>1 DEF Inv, TypeOK, SlotOnce
<1>3. /\ pClientArray' = [pClientArray EXCEPT ![i] = Append(pClientArray[i], pNewClient)]
      /\ hEventArray' = [hEventArray EXCEPT ![i] = Append(hEventArray[i], pNewClient)]
      /\ place' = [place EXCEPT ![pNewClient] = "slot"]
  BY DEF Place, AtTheEnd
<1>4. pClientArray'[i] = Append(pClientArray[i], pNewClient)
  BY <1>1, <1>3 DEF Inv, TypeOK
<1>5. \A t \in Threads \ {i} : pClientArray'[t] = pClientArray[t]
  BY <1>3 DEF Inv, TypeOK
<1>6. hEventArray' = pClientArray'
  BY <1>2, <1>3
<1>7. Len(pClientArray[i]) \in Nat /\ DOMAIN pClientArray'[i] = 1..(Len(pClientArray[i]) + 1)
  BY <1>1, <1>2, <1>4, LenProperties, AppendProperties
<1> QED BY <1>1, <1>2, <1>3, <1>4, <1>5, <1>6, <1>7, AppendProperties

\* RemoveConnect closes the gap that its client leaves.
LEMMA RemoveIs ==
    ASSUME Inv, NEW t \in Threads, RemoveConnect(t)
    PROVE  /\ Len(pClientArray[t]) \in Nat /\ dwIndex[t] \in 1..Len(pClientArray[t])
           /\ pClientArray[t][dwIndex[t]] = pClient[t] /\ pClient[t] \in Clients
           /\ place[pClient[t]] = "slot"
           /\ hEventArray' = pClientArray'
           /\ \A u \in Threads \ {t} : pClientArray'[u] = pClientArray[u]
           /\ DOMAIN pClientArray'[t] = 1..(Len(pClientArray[t]) - 1)
           /\ \A k \in 1..(Len(pClientArray[t]) - 1) :
                 pClientArray'[t][k] = pClientArray[t][IF k < dwIndex[t] THEN k ELSE k + 1]
           /\ place' = [place EXCEPT ![pClient[t]] = "removed"]
           /\ dwIndex' = dwIndex /\ pClient' = pClient
           /\ pc[t] \in AtIndex /\ pc'[t] \in Deleting /\ \A u \in Threads \ {t} : pc'[u] = pc[u]
<1>1. TypeOK /\ SlotOnce
  BY DEF Inv
<1>2. /\ pc[t] \in AtIndex /\ pc'[t] \in Deleting /\ \A u \in Threads \ {t} : pc'[u] = pc[u]
      /\ dwIndex' = dwIndex /\ pClient' = pClient
      /\ place' = [place EXCEPT ![pClient[t]] = "removed"]
  BY <1>1 DEF RemoveConnect, Goto, AtIndex, Deleting, TypeOK
<1>3. /\ pClientArray[t] \in Seq(Clients) /\ Len(pClientArray[t]) \in Nat
      /\ dwIndex[t] \in 1..Len(pClientArray[t])
      /\ pClientArray[t][dwIndex[t]] = pClient[t] /\ pClient[t] \in Clients
      /\ place[pClient[t]] = "slot"
  BY <1>1, <1>2, ClientAt
<1> DEFINE rest == Compacted(pClientArray[t], dwIndex[t])
<1>4. /\ rest \in Seq(Clients) /\ Len(rest) = Len(pClientArray[t]) - 1
      /\ \A k \in 1..(Len(pClientArray[t]) - 1) :
            rest[k] = pClientArray[t][IF k < dwIndex[t] THEN k ELSE k + 1]
  BY <1>3, CompactedIs
<1>5. hEventArray = pClientArray
  BY <1>1 DEF SlotOnce
<1>6. /\ pClientArray' = [pClientArray EXCEPT ![t] = rest]
      /\ hEventArray' = [hEventArray EXCEPT ![t] = rest]
  BY <1>5 DEF RemoveConnect
<1> HIDE DEF rest
<1>7. pClientArray'[t] = rest /\ \A u \in Threads \ {t} : pClientArray'[u] = pClientArray[u]
  BY <1>1, <1>6 DEF TypeOK
<1>8. hEventArray' = pClientArray'
  BY <1>5, <1>6
<1>9. DOMAIN rest = 1..(Len(pClientArray[t]) - 1)
  BY <1>4, LenProperties
<1> QED BY <1>2, <1>3, <1>4, <1>7, <1>8, <1>9

LEMMA PlaceSlots == ASSUME Inv, Place, HasRoom(i) PROVE NoTwoSlots' /\ PlacedInSlot'
<1> DEFINE n == Len(pClientArray[i])
<1>0. NoTwoSlots /\ PlacedInSlot /\ TypeOK
  BY SlotParts DEF Inv
<1>1. \A t \in Threads : \A k \in DOMAIN pClientArray'[t] :
         \/ k \in DOMAIN pClientArray[t] /\ pClientArray'[t][k] = pClientArray[t][k]
         \/ t = i /\ k = n + 1 /\ pClientArray'[t][k] = pNewClient
  <2>1. DOMAIN pClientArray[i] = 1..n /\ n \in Nat
    BY <1>0, PlaceIs, LenProperties DEF TypeOK
  <2> HIDE DEF n
  <2> TAKE t \in Threads
  <2> TAKE k \in DOMAIN pClientArray'[t]
  <2>2. CASE t # i
    BY <2>2, PlaceIs
  <2>3. CASE t = i
    <3>1. k \in 1..n \/ k = n + 1
      BY <2>1, <2>3, PlaceIs DEF n
    <3> QED BY <2>1, <2>3, <3>1, PlaceIs DEF n
  <2> QED BY <2>2, <2>3
<1>2. \A t \in Threads : \A k \in DOMAIN pClientArray[t] :
         k \in DOMAIN pClientArray'[t] /\ pClientArray'[t][k] = pClientArray[t][k]
  <2>1. DOMAIN pClientArray[i] = 1..n /\ n \in Nat
    BY <1>0, PlaceIs, LenProperties DEF TypeOK
  <2> TAKE t \in Threads
  <2> TAKE k \in DOMAIN pClientArray[t]
  <2>2. CASE t # i
    BY <2>2, PlaceIs
  <2>3. CASE t = i
    <3>1. k \in 1..n /\ k \in 1..(n + 1)
      BY <2>1, <2>3
    <3> QED BY <2>3, <3>1, PlaceIs
  <2> QED BY <2>2, <2>3
<1>3. i \in Threads /\ n + 1 \in DOMAIN pClientArray'[i] /\ pClientArray'[i][n + 1] = pNewClient
  BY PlaceIs
<1> HIDE DEF n
<1>4. pNewClient \in Clients /\ place[pNewClient] = "new" /\ place' = [place EXCEPT ![pNewClient] = "slot"]
  BY PlaceIs
<1>5. \A t \in Threads : \A k \in DOMAIN pClientArray[t] : pClientArray[t][k] # pNewClient
  BY <1>0, <1>4 DEF PlacedInSlot
<1>6. NoTwoSlots'
  BY <1>0, <1>1, <1>5 DEF NoTwoSlots
<1>7. \A c \in Clients : place'[c] = IF c = pNewClient THEN "slot" ELSE place[c]
  BY <1>0, <1>4 DEF TypeOK
<1>8. PlacedInSlot'
  <2> SUFFICES ASSUME NEW c \in Clients
               PROVE  place'[c] = "slot" <=>
                        \E t \in Threads : \E k \in DOMAIN pClientArray'[t] : pClientArray'[t][k] = c
    BY DEF PlacedInSlot
  <2>1. CASE c = pNewClient
    BY <1>3, <1>7, <2>1
  <2>2. CASE c # pNewClient
    BY <1>0, <1>1, <1>2, <1>7, <2>2 DEF PlacedInSlot
  <2> QED BY <2>1, <2>2
<1> QED BY <1>6, <1>8

LEMMA RemoveSlots ==
    ASSUME Inv, NEW t \in Threads, RemoveConnect(t)
    PROVE  NoTwoSlots' /\ PlacedInSlot'
<1> DEFINE n == Len(pClientArray[t])
           d == dwIndex[t]
           Old(k) == IF k < d THEN k ELSE k + 1
<1>0. NoTwoSlots /\ PlacedInSlot /\ TypeOK
  BY SlotParts DEF Inv
<1>1. /\ n \in Nat /\ d \in 1..n /\ DOMAIN pClientArray[t] = 1..n
      /\ DOMAIN pClientArray'[t] = 1..(n - 1)
      /\ \A k \in 1..(n - 1) : pClientArray'[t][k] = pClientArray[t][Old(k)]
      /\ \A u \in Threads \ {t} : pClientArray'[u] = pClientArray[u]
  BY <1>0, RemoveIs, LenProperties DEF TypeOK
<1>2. \A k \in 1..(n - 1) : Old(k) \in 1..n /\ Old(k) # d
  BY <1>1
<1>3. \A k, l \in 1..(n - 1) : Old(k) = Old(l) => k = l
  BY <1>1
<1>4. \A m \in 1..n : m # d => \E k \in 1..(n - 1) : Old(k) = m
  <2> SUFFICES ASSUME NEW m \in 1..n, m # d PROVE \E k \in 1..(n - 1) : Old(k) = m
    OBVIOUS
  <2>0. n \in Nat /\ d \in Nat
    BY <1>1
  <2> DEFINE k == IF m < d THEN m ELSE m - 1
  <2> HIDE DEF n, d
  <2>1. k \in 1..(n - 1) /\ Old(k) = m
    <3>1. d \in 1..n
      BY <1>1 DEF n, d
    <3> QED BY <2>0, <3>1
  <2> HIDE DEF k, Old
  <2> QED BY <2>1
<1>5. /\ pClientArray[t][d] = pClient[t] /\ pClient[t] \in Clients
      /\ place' = [place EXCEPT ![pClient[t]] = "removed"]
  BY RemoveIs
<1> HIDE DEF n, d, Old
<1>6. NoTwoSlots'
  <2> SUFFICES ASSUME NEW u \in Threads, NEW v \in Threads,
                      NEW k \in DOMAIN pClientArray'[u], NEW l \in DOMAIN pClientArray'[v],
                      pClientArray'[u][k] = pClientArray'[v][l]
               PROVE  u = v /\ k = l
    BY DEF NoTwoSlots
  <2>1. CASE u # t /\ v # t
    BY <1>0, <1>1, <2>1 DEF NoTwoSlots
  <2>2. CASE u = t /\ v # t
    BY <1>0, <1>1, <1>2, <2>2 DEF NoTwoSlots
  <2>3. CASE u # t /\ v = t
    <3>1. l \in 1..(n - 1) /\ Old(l) \in DOMAIN pClientArray[t] /\ k \in DOMAIN pClientArray[u]
      BY <1>1, <1>2, <2>3
    <3>2. pClientArray[u][k] = pClientArray[t][Old(l)]
      BY <1>1, <2>3, <3>1
    <3> QED BY <1>0, <2>3, <3>1, <3>2 DEF NoTwoSlots
  <2>4. CASE u = t /\ v = t
    <3>1. Old(k) = Old(l)
      <4>1. /\ k \in 1..(n - 1) /\ l \in 1..(n - 1)
            /\ Old(k) \in DOMAIN pClientArray[t] /\ Old(l) \in DOMAIN pClientArray[t]
        BY <1>1, <1>2, <2>4
      <4>2. pClientArray[t][Old(k)] = pClientArray[t][Old(l)]
        BY <1>1, <2>4, <4>1
      <4> QED BY <1>0, <4>1, <4>2 DEF NoTwoSlots
    <3> QED BY <1>1, <1>3, <2>4, <3>1
  <2> QED BY <2>1, <2>2, <2>3, <2>4
<1>7. PlacedInSlot'
  <2> SUFFICES ASSUME NEW c \in Clients
               PROVE  place'[c] = "slot" <=>
                        \E u \in Threads : \E k \in DOMAIN pClientArray'[u] : pClientArray'[u][k] = c
    BY DEF PlacedInSlot
  <2>1. place'[c] = IF c = pClient[t] THEN "removed" ELSE place[c]
    BY <1>0, <1>5 DEF TypeOK
  <2>2. CASE c = pClient[t]
    <3>1. \A u \in Threads : \A k \in DOMAIN pClientArray'[u] : pClientArray'[u][k] # c
      <4> TAKE u \in Threads
      <4> TAKE k \in DOMAIN pClientArray'[u]
      <4>1. CASE u = t
        BY <1>0, <1>1, <1>2, <1>5, <2>2, <4>1 DEF NoTwoSlots
      <4>2. CASE u # t
        BY <1>0, <1>1, <1>5, <2>2, <4>2 DEF NoTwoSlots
      <4> QED BY <4>1, <4>2
    <3> QED BY <2>1, <2>2, <3>1
  <2>3. CASE c # pClient[t]
    <3>1. ASSUME NEW u \in Threads, NEW k \in DOMAIN pClientArray[u], pClientArray[u][k] = c
          PROVE  \E l \in DOMAIN pClientArray'[u] : pClientArray'[u][l] = c
      <4>1. CASE u = t
        <5>1. k \in 1..n /\ k # d
          BY <1>1, <1>5, <2>3, <3>1, <4>1
        <5>2. PICK l \in 1..(n - 1) : Old(l) = k
          BY <1>4, <5>1
        <5> QED BY <1>1, <3>1, <4>1, <5>2
      <4>2. CASE u # t
        BY <1>1, <3>1, <4>2
      <4> QED BY <4>1, <4>2
    <3>2. ASSUME NEW u \in Threads, NEW k \in DOMAIN pClientArray'[u], pClientArray'[u][k] = c
          PROVE  \E l \in DOMAIN pClientArray[u] : pClientArray[u][l] = c
      <4>1. CASE u = t
        BY <1>1, <1>2, <3>2, <4>1
      <4>2. CASE u # t
        BY <1>1, <3>2, <4>2
      <4> QED BY <4>1, <4>2
    <3> QED BY <1>0, <2>1, <2>3, <3>1, <3>2 DEF PlacedInSlot
  <2> QED BY <2>2, <2>3
<1> QED BY <1>6, <1>7

\* What the other steps do to place.
LEMMA PlaceStep ==
    ASSUME Inv, [Next]_vars
    PROVE  \/ place' = place
           \/ Place /\ HasRoom(i)
           \/ \E t \in Threads : RemoveConnect(t)
           \/ \E c \in Clients : Accept(c) /\ place[c] = "away" /\ place' = [place EXCEPT ![c] = "new"]
           \/ /\ NoPlace /\ pNewClient \in Clients /\ place[pNewClient] = "new"
              /\ place' = [place EXCEPT ![pNewClient] = "refused"]
           \/ \E t \in Threads :
                 /\ Delete(t) /\ pClient[t] \in Clients /\ place[pClient[t]] = "removed"
                 /\ place' = [place EXCEPT ![pClient[t]] = "gone"]
<1>1. ASSUME NEW c \in Clients, Accept(c)
      PROVE  place[c] = "away" /\ place' = [place EXCEPT ![c] = "new"]
  BY <1>1 DEF Accept
<1>2. ASSUME NoPlace
      PROVE  /\ pNewClient \in Clients /\ place[pNewClient] = "new"
             /\ place' = [place EXCEPT ![pNewClient] = "refused"]
  BY <1>2 DEF NoPlace, Inv, NewWaits, TypeOK
<1>3. ASSUME NEW t \in Threads, Delete(t)
      PROVE  /\ pClient[t] \in Clients /\ place[pClient[t]] = "removed"
             /\ place' = [place EXCEPT ![pClient[t]] = "gone"]
  BY <1>3 DEF Delete, Goto, Inv, Removers, Deleting
<1>4. ASSUME Place, ~HasRoom(i) PROVE place' = place
  BY <1>4 DEF Place
<1>5. ASSUME NEW t \in Threads, MonitorThread(t), ~RemoveConnect(t), ~Delete(t)
      PROVE  place' = place
  BY <1>5 DEF MonitorThread, Wait, ScanOn, Wakes, ScanEnds, Enum, Reset, Recv, NextIndex
<1>6. ASSUME NEW c \in Clients, PeerSends(c) \/ PeerCloses(c) PROVE place' = place
  BY <1>6 DEF PeerSends, PeerCloses
<1>7. ASSUME UNCHANGED vars PROVE place' = place
  BY <1>7 DEF vars
<1> QED BY <1>1, <1>2, <1>3, <1>4, <1>5, <1>6, <1>7 DEF Next, ListenThread, Placing

\* The arrays change with the two steps above only.
LEMMA SlotsStep == ASSUME Inv, [Next]_vars PROVE Alike' /\ NoTwoSlots' /\ PlacedInSlot'
<1>0. Alike /\ NoTwoSlots /\ PlacedInSlot /\ TypeOK
  BY SlotParts DEF Inv
<1>1. CASE Place /\ HasRoom(i)
  BY <1>1, PlaceIs, PlaceSlots DEF Alike
<1>2. ASSUME NEW t \in Threads, RemoveConnect(t)
      PROVE  Alike' /\ NoTwoSlots' /\ PlacedInSlot'
  BY <1>2, RemoveIs, RemoveSlots DEF Alike
<1>3. CASE ~(Place /\ HasRoom(i)) /\ \A t \in Threads : ~RemoveConnect(t)
  <2>1. UNCHANGED <<pClientArray, hEventArray>>
    BY <1>3, OtherSteps DEF Place, slots
  <2>2. \A c \in Clients : place'[c] = "slot" <=> place[c] = "slot"
    BY <1>0, <1>3, PlaceStep DEF TypeOK
  <2> QED BY <1>0, <2>1, <2>2 DEF Alike, NoTwoSlots, PlacedInSlot
<1> QED BY <1>1, <1>2, <1>3

\* A monitor thread's index stands for its client from the wait to the removal.
LEMMA IndexIsClientStep == ASSUME Inv, [Next]_vars PROVE IndexIsClient'
<1>0. IndexIsClient /\ Alike /\ TypeOK
  BY SlotParts DEF Inv
<1>1. CASE Place /\ HasRoom(i)
  <2>1. UNCHANGED <<pc, dwIndex, pClient>>
    BY <1>1 DEF Place, monitor
  <2> SUFFICES ASSUME NEW t \in Threads, pc[t] \in AtIndex
               PROVE  /\ dwIndex[t] <= Len(pClientArray'[t])
                      /\ pClientArray'[t][dwIndex[t]] = pClient[t]
    BY <2>1 DEF IndexIsClient
  <2>2. /\ dwIndex[t] \in 1..Len(pClientArray[t]) /\ pClientArray[t][dwIndex[t]] = pClient[t]
        /\ Len(pClientArray[t]) \in Nat
    BY <1>0, ClientAt DEF Inv
  <2>3. CASE t # i
    BY <1>1, <2>2, <2>3, PlaceIs
  <2>4. CASE t = i
    <3>1. /\ Len(pClientArray'[t]) = Len(pClientArray[t]) + 1
          /\ pClientArray'[t][dwIndex[t]] = pClientArray[t][dwIndex[t]]
      BY <1>1, <2>2, <2>4, PlaceIs
    <3> QED BY <2>2, <3>1
  <2> QED BY <2>3, <2>4
<1>2. ASSUME NEW t \in Threads, RemoveConnect(t) PROVE IndexIsClient'
  <2>1. pc'[t] \notin AtIndex
    BY <1>2, RemoveIs DEF Deleting, AtIndex
  <2>2. /\ dwIndex' = dwIndex /\ pClient' = pClient
        /\ \A u \in Threads \ {t} : pClientArray'[u] = pClientArray[u] /\ pc'[u] = pc[u]
    BY <1>2, RemoveIs
  <2> QED BY <1>0, <2>1, <2>2 DEF IndexIsClient
<1>3. ASSUME NEW t \in Threads, Wait(t) \/ ScanOn(t) PROVE IndexIsClient'
  <2>1. PICK from : (from = 1 \/ from = dwIndex[t]) /\ Wakes(t, from)
    BY <1>3 DEF Wait, ScanOn
  <2>2. PICK k \in Set(t, from) : /\ dwIndex' = [dwIndex EXCEPT ![t] = k]
                                  /\ pClient' = [pClient EXCEPT ![t] = hEventArray[t][k]]
    BY <2>1 DEF Wakes
  <2>3. k \in 1..Len(pClientArray[t])
    BY <1>0, <2>1, <2>2 DEF Set, TypeOK, Alike
  <2>4. pClientArray' = pClientArray
    BY <2>1 DEF Wakes, slots
  <2>5. pc' = [pc EXCEPT ![t] = "enum"]
    BY <1>3 DEF Wait, ScanOn, Goto
  <2>6. k <= Len(pClientArray[t])
    BY <2>3
  <2>7. dwIndex'[t] = k /\ pClient'[t] = pClientArray[t][k]
    BY <1>0, <2>2 DEF Alike, TypeOK
  <2>8. \A u \in Threads \ {t} : dwIndex'[u] = dwIndex[u] /\ pClient'[u] = pClient[u] /\ pc'[u] = pc[u]
    BY <1>0, <2>2, <2>5 DEF TypeOK
  <2> QED BY <1>0, <2>4, <2>6, <2>7, <2>8 DEF IndexIsClient
<1>4. ASSUME NEW t \in Threads,
             Enum(t) \/ Reset(t) \/ Recv(t) \/ ScanEnds(t) \/ NextIndex(t) \/ Delete(t)
      PROVE  IndexIsClient'
  <2>1. pc[t] \in AtIndex \/ pc'[t] \notin AtIndex
    BY <1>0, <1>4 DEF Enum, Reset, Recv, ScanEnds, NextIndex, Delete, Goto, AtIndex, TypeOK
  <2>2. /\ pc[t] \in AtIndex /\ pc'[t] \in AtIndex => dwIndex' = dwIndex /\ pClient' = pClient
        /\ pClientArray' = pClientArray
    BY <1>0, <1>4 DEF Enum, Reset, Recv, ScanEnds, NextIndex, Delete, Goto, AtIndex, TypeOK, slots
  <2>3. \A u \in Threads \ {t} : dwIndex'[u] = dwIndex[u] /\ pClient'[u] = pClient[u] /\ pc'[u] = pc[u]
    BY <1>0, <1>4 DEF Enum, Reset, Recv, ScanEnds, NextIndex, Delete, Goto, TypeOK
  <2> QED BY <1>0, <2>1, <2>2, <2>3 DEF IndexIsClient
<1>5. CASE ~(Place /\ HasRoom(i)) /\ \A t \in Threads : ~MonitorThread(t)
  <2>1. UNCHANGED <<pc, dwIndex, pClient>>
    BY <1>5, MonitorKept
  <2>2. UNCHANGED pClientArray
    BY <1>5, OtherSteps DEF Place, slots, MonitorThread
  <2> QED BY <1>0, <2>1, <2>2 DEF IndexIsClient
<1> QED BY <1>1, <1>2, <1>3, <1>4, <1>5 DEF MonitorThread, Next, ListenThread, Placing

\* m_nClients goes with the clients accepted and not deleted.
LEMMA CountedStep == ASSUME Inv, [Next]_vars PROVE Counted' /\ m_nClients' \in Nat
<1>0. Counted /\ TypeOK /\ IsFiniteSet(Present) /\ m_nClients \in Nat
  <2>1. Present \subseteq Clients /\ IsFiniteSet(Clients)
    BY SocketServerAssumption DEF Present
  <2> QED BY <2>1, FS_Subset, SlotParts DEF Inv, TypeOK
<1>1. ASSUME NEW c \in Clients, Accept(c) PROVE Counted' /\ m_nClients' \in Nat
  <2>1. place[c] = "away" /\ place' = [place EXCEPT ![c] = "new"]
    BY <1>1 DEF Accept
  <2>2. Present' = Present \cup {c} /\ c \notin Present
    BY <1>0, <2>1 DEF Present, TypeOK
  <2>3. Cardinality(Present') = Cardinality(Present) + 1
    BY <1>0, <2>2, FS_AddElement
  <2> QED BY <1>0, <1>1, <2>3 DEF Counted, Accept
<1>2. ASSUME NEW t \in Threads, Delete(t) PROVE Counted' /\ m_nClients' \in Nat
  <2>1. /\ pClient[t] \in Clients /\ place[pClient[t]] = "removed"
        /\ place' = [place EXCEPT ![pClient[t]] = "gone"]
    BY <1>2 DEF Delete, Goto, Inv, Removers, Deleting
  <2>2. Present' = Present \ {pClient[t]} /\ pClient[t] \in Present
    BY <1>0, <2>1 DEF Present, TypeOK
  <2>3. Cardinality(Present') = Cardinality(Present) - 1 /\ Cardinality(Present') \in Nat
    BY <1>0, <2>2, FS_RemoveElement, FS_CardinalityType
  <2> QED BY <1>0, <1>2, <2>3 DEF Counted, Delete
<1>3. CASE (\A c \in Clients : ~Accept(c)) /\ (\A t \in Threads : ~Delete(t))
  <2>1. m_nClients' = m_nClients
    BY <1>3 DEF Next, ListenThread, Placing, MonitorThread, PeerSends, PeerCloses, Place, NoPlace,
       Wait, ScanOn, Wakes, ScanEnds, Enum, Reset, Recv, NextIndex, RemoveConnect, vars
  <2>2. \A c \in Clients : place'[c] \in {"away", "gone"} <=> place[c] \in {"away", "gone"}
    <3>1. CASE Place /\ HasRoom(i)
      BY <1>0, <3>1, PlaceIs DEF TypeOK
    <3>2. ASSUME NEW t \in Threads, RemoveConnect(t)
          PROVE  \A c \in Clients : place'[c] \in {"away", "gone"} <=> place[c] \in {"away", "gone"}
      BY <1>0, <3>2, RemoveIs DEF TypeOK
    <3>3. CASE \/ place' = place
               \/ /\ pNewClient \in Clients /\ place[pNewClient] = "new"
                  /\ place' = [place EXCEPT ![pNewClient] = "refused"]
      BY <1>0, <3>3 DEF TypeOK
    <3> QED BY <1>3, <3>1, <3>2, <3>3, PlaceStep
  <2>3. Present' = Present
    BY <2>2 DEF Present
  <2> QED BY <1>0, <2>1, <2>3 DEF Counted
<1> QED BY <1>1, <1>2, <1>3

LEMMA NewWaitsStep == ASSUME Inv, [Next]_vars PROVE NewWaits'
<1>0. TypeOK /\ NewWaits /\ None \notin Clients
  BY SocketServerAssumption DEF Inv
<1>1. ASSUME NEW c \in Clients, Accept(c) PROVE NewWaits'
  BY <1>0, <1>1 DEF Accept, NewWaits, TypeOK
<1>2. CASE NoPlace \/ (Place /\ HasRoom(i))
  BY <1>2 DEF NoPlace, Place, NewWaits
<1>3. CASE ~NoPlace /\ ~(Place /\ HasRoom(i)) /\ \A c \in Clients : ~Accept(c)
  <2>1. pNewClient' = pNewClient
    BY <1>3 DEF Next, ListenThread, Placing, MonitorThread, PeerSends, PeerCloses, Place,
       Wait, ScanOn, Wakes, ScanEnds, Enum, Reset, Recv, NextIndex, RemoveConnect, Delete,
       vars, listen
  <2>2. ASSUME pNewClient # None PROVE place'[pNewClient] = place[pNewClient]
    <3>1. pNewClient \in Clients /\ place[pNewClient] = "new"
      BY <1>0, <2>2 DEF NewWaits, TypeOK
    <3>2. ASSUME NEW t \in Threads, RemoveConnect(t) PROVE place'[pNewClient] = place[pNewClient]
      BY <1>0, <3>1, <3>2, RemoveIs DEF TypeOK
    <3> QED BY <1>0, <1>3, <3>1, <3>2, PlaceStep DEF TypeOK
  <2> QED BY <1>0, <2>1, <2>2 DEF NewWaits
<1> QED BY <1>1, <1>2, <1>3

\* A removed client stays so until its own thread deletes it.
LEMMA RemovedStays ==
    ASSUME Inv, [Next]_vars, NEW c \in Clients, place[c] = "removed",
           \A t \in Threads : Delete(t) => pClient[t] # c
    PROVE  place'[c] = "removed"
<1>0. TypeOK
  BY DEF Inv
<1>1. ASSUME Place, HasRoom(i) PROVE place'[c] = "removed"
  BY <1>0, <1>1, PlaceIs DEF TypeOK
<1>2. ASSUME NEW t \in Threads, RemoveConnect(t) PROVE place'[c] = "removed"
  BY <1>0, <1>2, RemoveIs DEF TypeOK
<1> QED BY <1>0, <1>1, <1>2, PlaceStep DEF TypeOK

LEMMA RemoversStep == ASSUME Inv, [Next]_vars PROVE Removers'
<1>0. TypeOK /\ Removers
  BY DEF Inv
<1>1. ASSUME NEW t \in Threads, RemoveConnect(t) PROVE Removers'
  <2>1. /\ pClient[t] \in Clients /\ place[pClient[t]] = "slot" /\ pClient' = pClient
        /\ place' = [place EXCEPT ![pClient[t]] = "removed"]
        /\ \A u \in Threads \ {t} : pc'[u] = pc[u]
    BY <1>1, RemoveIs
  <2>2. place'[pClient[t]] = "removed"
    BY <1>0, <2>1 DEF TypeOK
  <2>3. \A u \in Threads \ {t} : pc[u] \in Deleting =>
           /\ pClient[u] \in Clients /\ pClient[u] # pClient[t]
           /\ place'[pClient[u]] = "removed"
    BY <1>0, <2>1 DEF Removers, TypeOK
  <2> QED BY <1>0, <2>1, <2>2, <2>3 DEF Removers
<1>2. ASSUME NEW t \in Threads, Delete(t) PROVE Removers'
  <2>1. pc[t] \in Deleting /\ pc'[t] \notin Deleting
    BY <1>0, <1>2 DEF Delete, Goto, Deleting, TypeOK
  <2>2. \A u \in Threads \ {t} : pc'[u] = pc[u] /\ pClient'[u] = pClient[u]
    BY <1>0, <1>2 DEF Delete, Goto, TypeOK
  <2>3. \A u \in Threads \ {t} : pc[u] \in Deleting =>
           pClient[u] \in Clients /\ pClient[u] # pClient[t] /\ place[pClient[u]] = "removed"
    BY <1>0, <2>1 DEF Removers
  <2>4. place' = [place EXCEPT ![pClient[t]] = "gone"]
    BY <1>2 DEF Delete
  <2>5. \A u \in Threads \ {t} : pc[u] \in Deleting => place'[pClient[u]] = "removed"
    BY <1>0, <2>3, <2>4 DEF TypeOK
  <2> QED BY <1>0, <2>1, <2>2, <2>3, <2>5 DEF Removers
<1>3. ASSUME \A t \in Threads : ~RemoveConnect(t) /\ ~Delete(t) PROVE Removers'
  <2>1. \A t \in Threads : pc'[t] \in Deleting => pc[t] \in Deleting /\ pClient'[t] = pClient[t]
    <3>1. ASSUME NEW u \in Threads, MonitorThread(u)
          PROVE  \A t \in Threads : pc'[t] \in Deleting => pc[t] \in Deleting /\ pClient'[t] = pClient[t]
      <4>1. /\ pc'[u] \notin Deleting
            /\ \A t \in Threads \ {u} : pc'[t] = pc[t] /\ pClient'[t] = pClient[t]
        <5>1. ASSUME Wait(u) \/ ScanOn(u)
              PROVE  /\ pc'[u] \notin Deleting
                     /\ \A t \in Threads \ {u} : pc'[t] = pc[t] /\ pClient'[t] = pClient[t]
          BY <1>0, <5>1 DEF Wait, ScanOn, Wakes, Goto, Deleting, TypeOK
        <5>2. ASSUME Reset(u)
              PROVE  /\ pc'[u] \notin Deleting
                     /\ \A t \in Threads \ {u} : pc'[t] = pc[t] /\ pClient'[t] = pClient[t]
          <6>1. Handler(NetworkEvents[u]) \in {"recv", "next", "close"}
            BY <1>0, HandlerType DEF TypeOK, Bits
          <6>2. pc' = [pc EXCEPT ![u] = Handler(NetworkEvents[u])] /\ pClient' = pClient
            BY <5>2 DEF Reset, Goto
          <6> QED BY <1>0, <6>1, <6>2 DEF Deleting, TypeOK
        <5>3. ASSUME Enum(u) \/ Recv(u) \/ ScanEnds(u) \/ NextIndex(u)
              PROVE  /\ pc'[u] \notin Deleting
                     /\ \A t \in Threads \ {u} : pc'[t] = pc[t] /\ pClient'[t] = pClient[t]
          BY <1>0, <5>3 DEF Enum, Recv, ScanEnds, NextIndex, Goto, Deleting, TypeOK
        <5> QED BY <1>3, <3>1, <5>1, <5>2, <5>3 DEF MonitorThread
      <4> QED BY <4>1
    <3>2. CASE \A u \in Threads : ~MonitorThread(u)
      BY <3>2, MonitorKept
    <3> QED BY <3>1, <3>2
  <2>2. \A c \in Clients : place[c] = "removed" => place'[c] = "removed"
    BY <1>3, RemovedStays
  <2> QED BY <1>0, <2>1, <2>2 DEF Removers
<1> QED BY <1>1, <1>2, <1>3

LEMMA InvStep == ASSUME Inv, [Next]_vars PROVE Inv'
<1>1. TypeOK'
  <2>1. /\ SocketsOK' /\ ListenOK' /\ ArraysOK' /\ MonitorOK' /\ IndexOK'
        /\ m_nClients' \in Nat
    BY SocketsStep, ListenStep, ArraysStep, MonitorStep, IndexStep, CountedStep DEF Inv
  <2> QED BY <2>1 DEF TypeOK, SocketsOK, ListenOK, ArraysOK, MonitorOK, IndexOK, Bits
<1>2. SlotOnce'
  <2>1. Alike' /\ NoTwoSlots' /\ PlacedInSlot' /\ IndexIsClient' /\ Counted'
    BY SlotsStep, IndexIsClientStep, CountedStep
  <2> QED
    BY <2>1 DEF SlotOnce, Alike, NoTwoSlots, PlacedInSlot, IndexIsClient, Counted, Present, AtIndex
<1> QED BY <1>1, <1>2, IndexStep, NewWaitsStep, RemoversStep DEF Inv

LEMMA InitInv == Init => Inv
<1> SUFFICES ASSUME Init PROVE Inv
  OBVIOUS
<1>1. TypeOK
  <2>1. SocketsOK
    BY SocketServerAssumption DEF Init, SocketsOK
  <2>2. ListenOK
    BY SocketServerAssumption DEF Init, ListenOK
  <2>3. ArraysOK
    <3>1. \A t \in Threads : pClientArray[t] = <<>> /\ hEventArray[t] = <<>>
      BY DEF Init
    <3> QED BY <3>1, SocketServerAssumption, EmptySeq DEF Init, ArraysOK
  <2>4. MonitorOK
    BY DEF Init, MonitorOK
  <2>5. IndexOK /\ m_nClients \in Nat
    BY SocketServerAssumption DEF Init, IndexOK
  <2> QED BY <2>1, <2>2, <2>3, <2>4, <2>5, TypeParts
<1>2. \A t \in Threads : DOMAIN pClientArray[t] = {}
  BY DEF Init
<1>3. Alike /\ NoTwoSlots /\ PlacedInSlot
  <2>1. \A c \in Clients : place[c] = "away"
    BY DEF Init
  <2>2. Alike /\ NoTwoSlots
    BY <1>2 DEF Init, Alike, NoTwoSlots
  <2> QED BY <1>2, <2>1, <2>2 DEF PlacedInSlot
<1>4. IndexIsClient /\ IndexHolds /\ NewWaits /\ Removers
  <2>1. \A t \in Threads : pc[t] = "wait"
    BY DEF Init
  <2>2. NewWaits
    BY DEF Init, NewWaits
  <2> QED BY <2>1, <2>2 DEF IndexIsClient, AtIndex, IndexHolds, Removers, Deleting
<1>5. Counted
  <2>1. Present = {}
    BY DEF Init, Present
  <2> QED BY <2>1, FS_EmptySet DEF Init, Counted
<1> QED BY <1>1, <1>3, <1>4, <1>5, SlotParts DEF Inv

(***************************************************************************)
(* TypeCorrect.  In particular no array has more than MaxClients entries   *)
(* and no index points behind the entry after the last.                    *)
(***************************************************************************)
THEOREM TypeCorrect == Spec => []TypeOK
<1>1. Inv => TypeOK
  BY DEF Inv
<1> QED BY <1>1, InitInv, InvStep, PTL DEF Spec

(***************************************************************************)
(* SlotOnceAlways.  For any number of clients, threads and slots, whatever *)
(* ListenThread appends while a monitor thread removes.                    *)
(***************************************************************************)
THEOREM SlotOnceAlways == Spec => []SlotOnce
<1>1. Inv => SlotOnce
  BY DEF Inv
<1> QED BY <1>1, InitInv, InvStep, PTL DEF Spec
=============================================================================
