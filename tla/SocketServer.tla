---------------------------- MODULE SocketServer ----------------------------
(***************************************************************************)
(* CSocketServer at work: ListenThread puts each new client into a slot of *)
(* one of the monitor threads; a MonitorThread waits for the events of its *)
(* clients, reads, and removes clients.  CJokeDSEDlg derives from it and   *)
(* supplies OnAccept, OnRecv and OnDisConnect, but starts its asio         *)
(* acceptor instead, so no thread of this module runs in the program.      *)
(*                                                                         *)
(* Of Winsock is modelled what WSAEventSelect promises: the record of      *)
(* network events of a socket, its manual-reset event, and that FD_READ is *)
(* recorded again only after a recv.  Definitions marked "Mistake" are     *)
(* ways the definition after them could have been written wrong.           *)
(***************************************************************************)
EXTENDS Integers, FiniteSets, SequencesExt

CONSTANTS Clients,    \* the connections made
          MaxThread,  \* monitor threads
          MaxClients, \* slots of each, at most the 64 a wait can take
          MaxData,    \* bound: what each client sends, in reads
          None        \* no client

ASSUME SocketServerAssumption ==
    /\ IsFiniteSet(Clients) /\ None \notin Clients
    /\ {MaxThread, MaxClients} \subseteq Nat /\ MaxData \in [Clients -> Nat]

Threads == 1..MaxThread

VARIABLES
    \* Winsock
    data,          \* what has arrived and was not read
    toCome,        \* what the peer may still send
    closed,        \* the peer has closed
    record,        \* the network events recorded for the socket
    hSocketEvent,  \* the event is set
    armed,         \* data will be recorded
    \* ListenThread
    place,         \* where a client is: "away" | "new" | "slot" | "removed" | "gone" | "refused"
    pNewClient, i,
    \* ThreadInfo
    pClientArray, hEventArray,   \* dwEventCount entries each
    suspended,
    \* MonitorThread
    pc, dwIndex, NetworkEvents, pClient,
    m_nClients,
    \* history
    missed         \* clients of whom an event was lost on the way

sockets == <<data, toCome, closed, record, hSocketEvent, armed>>
listen  == <<pNewClient, i>>
slots   == <<pClientArray, hEventArray, suspended>>
monitor == <<pc, dwIndex, NetworkEvents, pClient>>
vars == <<sockets, place, listen, slots, monitor, m_nClients, missed>>

\* As Start leaves the server when its threads run, before the first client.
\* (That ListenThread can place one before Start's loop has set the count of its
\* thread to 0 is left out with Start.)
Init ==
    /\ data = [c \in Clients |-> 0] /\ toCome = MaxData
    /\ closed = {} /\ hSocketEvent = {} /\ armed = {}
    /\ record = [c \in Clients |-> {}]
    /\ place = [c \in Clients |-> "away"]
    /\ pNewClient = None /\ i = 1
    /\ pClientArray = [t \in Threads |-> <<>>] /\ hEventArray = [t \in Threads |-> <<>>]
    /\ suspended = Threads
    /\ pc = [t \in Threads |-> "wait"] /\ dwIndex = [t \in Threads |-> 1]
    /\ NetworkEvents = [t \in Threads |-> {}]
    /\ pClient = [t \in Threads |-> None]
    /\ m_nClients = 0 /\ missed = {}

-----------------------------------------------------------------------------
(* The peer and Winsock. *)

Selected(c) == place[c] \in {"new", "slot", "refused"}

\* Events of c are recorded and its event set, once WSAEventSelect was called.
Record(c, events) ==
    /\ record' = [record EXCEPT ![c] = @ \cup events]
    /\ hSocketEvent' = IF events = {} THEN hSocketEvent ELSE hSocketEvent \cup {c}

PeerSends(c) ==
    /\ c \notin closed /\ toCome[c] > 0
    /\ data' = [data EXCEPT ![c] = @ + 1] /\ toCome' = [toCome EXCEPT ![c] = @ - 1]
    /\ Record(c, IF c \in armed THEN {"READ"} ELSE {}) /\ armed' = armed \ {c}
    /\ UNCHANGED <<closed, place, listen, slots, monitor, m_nClients, missed>>

PeerCloses(c) ==
    /\ c \notin closed /\ closed' = closed \cup {c}
    /\ Record(c, IF Selected(c) THEN {"CLOSE"} ELSE {})
    /\ UNCHANGED <<data, toCome, armed, place, listen, slots, monitor, m_nClients, missed>>

-----------------------------------------------------------------------------
(* ListenThread. *)

\* accept, CreateClient with its WSAEventSelect, and OnAccept.
Accept(c) ==
    /\ pNewClient = None /\ place[c] = "away"
    /\ pNewClient' = c /\ i' = 1
    /\ place' = [place EXCEPT ![c] = "new"]
    /\ Record(c, {"WRITE"} \cup (IF data[c] > 0 THEN {"READ"} ELSE {})
                           \cup (IF c \in closed THEN {"CLOSE"} ELSE {}))
    /\ armed' = IF data[c] > 0 THEN armed ELSE armed \cup {c}
    /\ m_nClients' = m_nClients + 1
    /\ UNCHANGED <<data, toCome, closed, slots, monitor, missed>>

HasRoom(t) == Len(pClientArray[t]) < MaxClients

\* Mistake: the thread is woken for its second client.
SecondClient(t) == Len(pClientArray[t]) = 1

\* Before this client there was none.  bResumed is never set, so the thread is
\* resumed again whenever it has had no client; it does not matter.
FirstClient(t) == Len(pClientArray[t]) = 0

AtTheEnd(s, c) == Append(s, c)

\* One round of the loop over the pool, under csThread, and ResumeThread.
Place ==
    /\ pNewClient # None /\ i \in Threads
    /\ IF HasRoom(i)
       THEN /\ pClientArray' = [pClientArray EXCEPT ![i] = AtTheEnd(@, pNewClient)]
            /\ hEventArray' = [hEventArray EXCEPT ![i] = AtTheEnd(@, pNewClient)]
            /\ suspended' = IF FirstClient(i) THEN suspended \ {i} ELSE suspended
            /\ place' = [place EXCEPT ![pNewClient] = "slot"]
            /\ pNewClient' = None /\ UNCHANGED i
       ELSE i' = i + 1 /\ UNCHANGED <<slots, place, pNewClient>>
    /\ UNCHANGED <<sockets, monitor, m_nClients, missed>>

\* The loop ends without a slot: nobody keeps the client, and it stays open.
NoPlace ==
    /\ pNewClient # None /\ i > MaxThread
    /\ place' = [place EXCEPT ![pNewClient] = "refused"]
    /\ pNewClient' = None
    /\ UNCHANGED <<sockets, i, slots, monitor, m_nClients, missed>>

-----------------------------------------------------------------------------
(* MonitorThread, ProcessEvent and RemoveConnect.  Only thread t takes     *)
(* entries out of its arrays, so what it reads outside csThread stays true *)
(* until it acts on it; ListenThread only appends.                         *)

Goto(t, from, to) == t \notin suspended /\ pc[t] = from /\ pc' = [pc EXCEPT ![t] = to]

Set(t, from) == {k \in from..Len(hEventArray[t]) : hEventArray[t][k] \in hSocketEvent}

\* A wait from there on returns the first event that is set.
Wakes(t, from) ==
    /\ \E k \in Set(t, from) :
          /\ \A j \in Set(t, from) : k <= j
          /\ dwIndex' = [dwIndex EXCEPT ![t] = k]
          /\ pClient' = [pClient EXCEPT ![t] = hEventArray[t][k]]
    /\ UNCHANGED <<sockets, place, listen, slots, NetworkEvents, m_nClients, missed>>

\* The wait at the head of the loop; a time-out or an empty array changes nothing.
Wait(t) == Goto(t, "wait", "enum") /\ Wakes(t, 1)

\* The waits for the clients behind, which do not wait.
ScanOn(t) == Goto(t, "scan", "enum") /\ Wakes(t, dwIndex[t])

ScanEnds(t) ==
    /\ Goto(t, "scan", "wait") /\ Set(t, dwIndex[t]) = {}
    /\ UNCHANGED <<sockets, place, listen, slots, dwIndex, NetworkEvents, pClient, m_nClients,
                   missed>>

\* WSAEnumNetworkEvents: the record is taken, and the event reset with it.
Enum(t) ==
    LET c == pClientArray[t][dwIndex[t]]
    IN  /\ Goto(t, "enum", "reset")
        /\ NetworkEvents' = [NetworkEvents EXCEPT ![t] = record[c]]
        /\ record' = [record EXCEPT ![c] = {}]
        /\ hSocketEvent' = hSocketEvent \ {c}
        /\ UNCHANGED <<data, toCome, closed, armed, place, listen, slots, dwIndex, pClient,
                       m_nClients, missed>>

\* ProcessEvent's four ifs: each returns.
Handler(events) ==
    CASE "READ" \in events -> "recv"
      [] "READ" \notin events /\ "WRITE" \in events -> "next"
      [] events = {"CLOSE"} -> "close"
      [] events = {} -> "next"

\* WSAResetEvent, which resets what was set since; and the dispatch, which
\* forgets a close that came with something else.
Reset(t) ==
    LET c == pClientArray[t][dwIndex[t]]
    IN  /\ Goto(t, "reset", Handler(NetworkEvents[t]))
        /\ hSocketEvent' = hSocketEvent \ {c}
        /\ missed' = IF \/ c \in hSocketEvent
                        \/ "CLOSE" \in NetworkEvents[t] /\ NetworkEvents[t] # {"CLOSE"}
                     THEN missed \cup {c} ELSE missed
        /\ UNCHANGED <<data, toCome, closed, record, armed, place, listen, slots, dwIndex,
                       NetworkEvents, pClient, m_nClients>>

\* OnRecv: recv takes some of the data and arms FD_READ again; no data means
\* that the peer has closed (SOCKET_ERROR) or that there is nothing yet (0).
Recv(t) ==
    LET c == pClientArray[t][dwIndex[t]]
    IN  /\ Goto(t, "recv", IF data[c] = 0 /\ c \in closed THEN "remove" ELSE "next")
        /\ \E k \in (IF data[c] = 0 THEN {0} ELSE 1..data[c]) :
              /\ data' = [data EXCEPT ![c] = @ - k]
              /\ Record(c, IF data[c] > k THEN {"READ"} ELSE {})
              /\ armed' = IF data[c] > k THEN armed \ {c} ELSE armed \cup {c}
        /\ UNCHANGED <<toCome, closed, place, listen, slots, dwIndex, NetworkEvents, pClient,
                       m_nClients, missed>>

\* dwIndex ++.
NextIndex(t) ==
    /\ Goto(t, "next", "scan")
    /\ dwIndex' = [dwIndex EXCEPT ![t] = @ + 1]
    /\ UNCHANGED <<sockets, place, listen, slots, NetworkEvents, pClient, m_nClients, missed>>

\* Mistake: memmove from one entry further on.
OneTooMany(s, k) == SubSeq(s, 1, k - 1) \o SubSeq(s, k + 2, Len(s))

Compacted(s, k) == RemoveAt(s, k)

\* RemoveConnect's section of csThread.  A close seen by ProcessEvent returns
\* 0 and goes on behind the gap; a failed recv goes on at it.
RemoveConnect(t) ==
    /\ \/ Goto(t, "close", "deletenext") \/ Goto(t, "remove", "delete")
    /\ pClientArray' = [pClientArray EXCEPT ![t] = Compacted(@, dwIndex[t])]
    /\ hEventArray' = [hEventArray EXCEPT ![t] = Compacted(@, dwIndex[t])]
    /\ place' = [place EXCEPT ![pClient[t]] = "removed"]
    /\ UNCHANGED <<sockets, listen, suspended, dwIndex, NetworkEvents, pClient, m_nClients,
                   missed>>

\* The rest of it: DisConnect, OnDisConnect, DeleteClient.
Delete(t) ==
    LET c == pClient[t]
    IN  /\ \/ Goto(t, "deletenext", "next") \/ Goto(t, "delete", "scan")
        /\ place' = [place EXCEPT ![c] = "gone"]
        /\ m_nClients' = m_nClients - 1
        /\ record' = [record EXCEPT ![c] = {}]
        /\ hSocketEvent' = hSocketEvent \ {c} /\ armed' = armed \ {c}
        /\ pClient' = [pClient EXCEPT ![t] = None]
        /\ UNCHANGED <<data, toCome, closed, listen, slots, dwIndex, NetworkEvents, missed>>

MonitorThread(t) ==
    \/ Wait(t) \/ ScanOn(t) \/ ScanEnds(t) \/ Enum(t) \/ Reset(t) \/ Recv(t) \/ NextIndex(t)
    \/ RemoveConnect(t) \/ Delete(t)

\* What ListenThread does between two calls of accept.
Placing == Place \/ NoPlace

ListenThread == Placing \/ \E c \in Clients : Accept(c)

Next ==
    \/ ListenThread \/ \E t \in Threads : MonitorThread(t)
    \/ \E c \in Clients : PeerSends(c) \/ PeerCloses(c)

Spec == Init /\ [][Next]_vars

\* Every thread that can move does; nobody has to connect.
FairSpec == Spec /\ WF_vars(Placing) /\ \A t \in Threads : WF_vars(MonitorThread(t))

-----------------------------------------------------------------------------
TypeOK ==
    /\ data \in [Clients -> Nat] /\ toCome \in [Clients -> Nat]
    /\ closed \subseteq Clients /\ hSocketEvent \subseteq Clients /\ armed \subseteq Clients
    /\ record \in [Clients -> SUBSET {"READ", "WRITE", "CLOSE"}]
    /\ place \in [Clients -> {"away", "new", "slot", "removed", "gone", "refused"}]
    /\ pNewClient \in Clients \cup {None} /\ i \in 1..(MaxThread + 1)
    /\ \A t \in Threads : Len(pClientArray[t]) <= MaxClients /\ Len(hEventArray[t]) <= MaxClients
    /\ pClientArray \in [Threads -> Seq(Clients)] /\ hEventArray \in [Threads -> Seq(Clients)]
    /\ suspended \subseteq Threads
    /\ pc \in [Threads -> {"wait", "scan", "enum", "reset", "recv", "next", "close", "remove",
                           "deletenext", "delete"}]
    /\ dwIndex \in [Threads -> 1..(MaxClients + 1)]
    /\ NetworkEvents \in [Threads -> SUBSET {"READ", "WRITE", "CLOSE"}]
    /\ pClient \in [Threads -> Clients \cup {None}]
    /\ m_nClients \in Nat /\ missed \subseteq Clients

(***************************************************************************)
(* SlotOnce.  However ListenThread's appends and the compaction fall       *)
(* between each other, the two arrays stay in step, a client is in at most *)
(* one slot, and in one exactly if it was placed and not removed: no       *)
(* client is lost between the threads and none removed twice.  For dwIndex *)
(* read outside csThread still stands for the client whose event ended the *)
(* wait, until that client is removed.  m_nClients counts the clients      *)
(* accepted and not deleted, those too that found no slot, whom nobody     *)
(* serves or closes.                                                       *)
(***************************************************************************)
SlotOnce ==
    /\ hEventArray = pClientArray
    /\ \A t, u \in Threads : \A k \in DOMAIN pClientArray[t], l \in DOMAIN pClientArray[u] :
          pClientArray[t][k] = pClientArray[u][l] => t = u /\ k = l
    /\ \A c \in Clients :
          place[c] = "slot"
              <=> \E t \in Threads : \E k \in DOMAIN pClientArray[t] : pClientArray[t][k] = c
    /\ \A t \in Threads : pc[t] \in {"enum", "reset", "recv", "close", "remove"} =>
          dwIndex[t] <= Len(pClientArray[t]) /\ pClientArray[t][dwIndex[t]] = pClient[t]
    /\ m_nClients = Cardinality({c \in Clients : place[c] \notin {"away", "gone"}})

(***************************************************************************)
(* EventsServed.  A placed client's data is read, also when it closes, and *)
(* its close removes it, with two exceptions: an event set between         *)
(* WSAEnumNetworkEvents and WSAResetEvent, and a close recorded together   *)
(* with another event.                                                     *)
(***************************************************************************)
EventsServed ==
    \A c \in Clients :
        /\ place[c] = "slot" /\ data[c] > 0 ~> data[c] = 0 \/ c \in missed
        /\ place[c] = "slot" /\ c \in closed ~> place[c] = "gone" \/ c \in missed
=============================================================================
