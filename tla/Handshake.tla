------------------------------ MODULE Handshake ------------------------------
(***************************************************************************)
(* How the dialog (JokeDSE.exe) starts a copy in the other process, learns *)
(* of its end and takes the DLL out again: three named auto-reset events,  *)
(* the section of the DLL that both processes map, remote threads that     *)
(* call LoadLibrary and FreeLibrary, and the DLL's InitInstance, one-shot  *)
(* timer, search thread and ExitInstance.                                  *)
(*                                                                         *)
(* A copy is one click on Inject.  An event remembers the copy it was set  *)
(* for: the code does not, the properties do.  Definitions marked          *)
(* "Mistake" are ways the definition after them could have been written    *)
(* wrong.                                                                  *)
(***************************************************************************)
EXTENDS Naturals, FiniteSets

CONSTANTS MaxCopies,   \* bound: clicks on Inject
          MaxDialogs   \* bound: starts of JokeDSE.exe

ASSUME HandshakeAssumption == MaxCopies \in Nat \ {0} /\ MaxDialogs \in Nat \ {0}

Copies == 1..MaxCopies

VARIABLES
    \* the dialog
    pc,        \* where the UI thread stands; "off" without a dialog
    call,      \* the handler it is in: "none" | "inject" | "timer" | "destroy"
    copy,      \* clicks on Inject so far
    buttons,   \* the Inject button is enabled
    timerOn,   \* timer 1024 runs
    hDlg,      \* of Stop and Finished, the events it holds a handle of
    jokes,     \* its handles of Joke; EnableJoke opens one more each time
    process,   \* m_hInjectProcess: "null" | "junk" | "host"
    \* the kernel and the shared section
    signal,    \* the copy an event is signalled for, 0 if it is not or there is none
    g_hJokeLib,      \* is not null
    szSourcePath,    \* the copy whose directory it names
    \* the other process
    host,      \* "up" | "closed" | "crashed"
    loads,     \* the copies whose remote thread has yet to call LoadLibrary
    frees,     \* remote threads that have yet to call FreeLibrary
    refs,      \* reference count of the DLL, one for each thread it runs included
    dll,       \* "out" | "in" | "exit", which is ExitInstance under the loader lock
    hDll,      \* of Stop and Finished, the events it holds a handle of
    run,       \* "none" | "timer", or where the thread m_hJokeRun stands
    runCopy,   \* the copy it runs for
    \* history, for the properties and the bounds
    dialogs,   \* dialogs started
    overlap,   \* copies at whose Inject the old DLL was around
    cut,       \* <<c, s>>: the search of copy c took a Stop set for copy s
    ended      \* <<c, r>>: OnTimer of copy c took the Finished of the run for r

kernel  == <<signal, g_hJokeLib, szSourcePath>>
dialog  == <<pc, call, copy, buttons, timerOn, hDlg, jokes, process>>
sender  == <<host, loads, frees, refs, dll, hDll, run, runCopy>>
history == <<dialogs, overlap, cut, ended>>
vars == <<dialog, kernel, sender, history>>

Init ==
    /\ pc = "off" /\ call = "none" /\ copy = 0 /\ buttons = FALSE /\ timerOn = FALSE
    /\ hDlg = {} /\ jokes = 0 /\ process = "null"
    /\ signal = [e \in {"Joke", "Stop", "Finished"} |-> 0]
    /\ g_hJokeLib = FALSE /\ szSourcePath = 0
    /\ host = "up" /\ loads = {} /\ frees = 0 /\ refs = 0
    /\ dll = "out" /\ hDll = {} /\ run = "none" /\ runCopy = 0
    /\ dialogs = 0 /\ overlap = {}
    /\ cut = {} /\ ended = {}

-----------------------------------------------------------------------------
(* Events. *)

\* OpenEvent finds an event as long as anybody has a handle of it.
Exists(e) == e \in hDlg \cup hDll

\* The signals once the handles are those: an event goes with its last handle.
Kept(dlg, lib) ==
    [e \in DOMAIN signal |-> IF e = "Joke" \/ e \in dlg \cup lib THEN signal[e] ELSE 0]

\* Mistake: the events are manual-reset ones.
StaysSet(e) == signal

\* A wait that is satisfied takes the signal: CreateEvent makes all three
\* auto-reset ones.
Taken(e) == [signal EXCEPT ![e] = 0]

-----------------------------------------------------------------------------
(* The dialog's handlers, on its UI thread. *)

\* m_hInjectProcess has no initialiser, and the dialog is a local variable.
StartDialog ==
    /\ pc = "off" /\ dialogs < MaxDialogs
    /\ pc' = "idle" /\ buttons' = TRUE /\ process' \in {"null", "junk"}
    /\ dialogs' = dialogs + 1
    /\ UNCHANGED <<call, copy, timerOn, hDlg, jokes, kernel, sender,
                   overlap, cut, ended>>

\* The other process has the DLL mapped, or a thread that will map or free it.
OldLibAround == dll # "out" \/ loads # {} \/ frees > 0

\* OnBnClickedButtonInject up to UnInjection(false): SetEvent, if there is a
\* handle, and EnableJoke.
Inject ==
    /\ pc = "idle" /\ buttons /\ copy < MaxCopies
    /\ pc' = "stop" /\ call' = "inject"
    /\ copy' = copy + 1 /\ buttons' = FALSE /\ jokes' = jokes + 1
    /\ signal' = [signal EXCEPT !["Joke"] = copy + 1,
                                !["Finished"] = IF "Finished" \in hDlg THEN copy + 1 ELSE @]
    /\ overlap' = overlap \cup (IF OldLibAround THEN {copy + 1} ELSE {})
    /\ UNCHANGED <<timerOn, hDlg, process, g_hJokeLib, szSourcePath, sender,
                   dialogs, cut, ended>>

\* OnTimer: WaitForSingleObject(m_hEventFinished, 0) and all that follows.
OnTimer ==
    /\ pc = "idle" /\ timerOn /\ hDlg = {"Stop", "Finished"} /\ signal["Finished"] # 0
    /\ pc' = "stop" /\ call' = "timer" /\ buttons' = TRUE
    /\ signal' = Taken("Finished")
    /\ ended' = ended \cup {<<copy, signal["Finished"]>>}
    /\ UNCHANGED <<copy, timerOn, hDlg, jokes, process, g_hJokeLib, szSourcePath, sender,
                   dialogs, overlap, cut>>

\* OnDestroy closes one handle of Joke, and those that were overwritten stay.
OnDestroy ==
    /\ pc = "idle"
    /\ pc' = "stop" /\ call' = "destroy" /\ buttons' = FALSE
    /\ jokes' = IF jokes = 0 THEN 0 ELSE jokes - 1
    /\ signal' = [signal EXCEPT !["Joke"] = IF jokes' = 0 THEN 0 ELSE @]
    /\ UNCHANGED <<copy, timerOn, hDlg, process, g_hJokeLib, szSourcePath, sender, history>>

-----------------------------------------------------------------------------
(* UnInjection, called by all three; only Inject passes false. *)

\* A teardown stops the current copy, Inject whatever copy came before it.
MeantFor == IF call = "inject" THEN copy - 1 ELSE copy

AskStop ==
    /\ pc = "stop" /\ pc' = "finished"
    /\ hDlg' = hDlg \cup (IF Exists("Stop") THEN {"Stop"} ELSE {})
    /\ signal' = [signal EXCEPT !["Stop"] = IF Exists("Stop") THEN MeantFor ELSE 0]
    /\ UNCHANGED <<call, copy, buttons, timerOn, jokes, process, g_hJokeLib, szSourcePath,
                   sender, history>>

AskFinished ==
    /\ pc = "finished"
    /\ pc' = IF Exists("Finished") THEN "wait" ELSE "close"
    /\ hDlg' = hDlg \cup (IF Exists("Finished") THEN {"Finished"} ELSE {})
    /\ UNCHANGED <<call, copy, buttons, timerOn, jokes, process, kernel, sender, history>>

WaitFinished ==
    /\ pc = "wait" /\ signal["Finished"] # 0
    /\ pc' = "reset" /\ signal' = Taken("Finished")
    /\ UNCHANGED <<call, copy, buttons, timerOn, hDlg, jokes, process,
                   g_hJokeLib, szSourcePath, sender, history>>

\* What the other process does within 5 s: all but the search, the sends, an
\* ExitInstance that waits for its thread, and what waits for the loader lock.
SettledIn5s ==
    /\ run \notin {"timer", "set"}
    /\ IF dll = "exit" THEN run # "none" ELSE run # "end" /\ loads = {} /\ frees = 0

WaitTimesOut ==
    /\ pc = "wait" /\ signal["Finished"] = 0 /\ SettledIn5s
    /\ pc' = "reset"
    /\ UNCHANGED <<call, copy, buttons, timerOn, hDlg, jokes, process, kernel, sender, history>>

ResetFinished ==
    /\ pc = "reset" /\ pc' = "close"
    /\ signal' = Taken("Finished")
    /\ UNCHANGED <<call, copy, buttons, timerOn, hDlg, jokes, process,
                   g_hJokeLib, szSourcePath, sender, history>>

\* Mistake: OnTimer passes false as well.
NotAtTheEnd == {"inject", "timer"}

\* The handlers that pass false.
NotClearAll == {"inject"}

CloseEvents ==
    /\ pc = "close" /\ pc' = "free"
    /\ hDlg' = IF call \in NotClearAll THEN hDlg ELSE {}
    /\ signal' = Kept(hDlg', hDll)
    /\ UNCHANGED <<call, copy, buttons, timerOn, jokes, process, g_hJokeLib, szSourcePath,
                   sender, history>>

\* The end of UnInjection.  Without a remote thread it returns before the
\* handle of the process is closed, and the process of the dialog ends with
\* OnDestroy.
FreeOldLib ==
    LET returns == g_hJokeLib /\ ~(process = "host" /\ host = "up")
        over    == call = "destroy"
    IN
    /\ pc = "free"
    /\ frees' = frees + (IF g_hJokeLib /\ ~returns THEN 1 ELSE 0)
    /\ process' = IF over \/ ~(returns \/ call \in NotClearAll) THEN "null" ELSE process
    /\ pc' = IF over THEN "off" ELSE IF call = "inject" THEN "excute" ELSE "idle"
    /\ call' = IF call = "inject" THEN call ELSE "none"
    /\ jokes' = IF over THEN 0 ELSE jokes
    /\ signal' = [signal EXCEPT !["Joke"] = IF over THEN 0 ELSE @]
    /\ timerOn' = (timerOn /\ ~over)
    /\ g_hJokeLib' = (g_hJokeLib /\ ~(over /\ dll = "out"))
    /\ UNCHANGED <<copy, buttons, hDlg, szSourcePath, host, loads, refs, dll, hDll,
                   run, runCopy, history>>

-----------------------------------------------------------------------------
(* The rest of OnBnClickedButtonInject. *)

\* Mistake: the edit fields are read after the section is written.
EarlierPaths == copy - 1

NewPaths == copy

ExcuteJoke ==
    /\ pc = "excute" /\ pc' = "init"
    /\ szSourcePath' = NewPaths
    /\ UNCHANGED <<call, copy, buttons, timerOn, hDlg, jokes, process, signal, g_hJokeLib,
                   sender, history>>

\* Mistake: OpenEvent.
EventsFound == {e \in {"Stop", "Finished"} : Exists(e)}

\* CreateEvent opens the event if there is one.
EventsMade == {"Stop", "Finished"}

\* What happens in both cases.
BeginInjection ==
    /\ pc = "init" /\ pc' = "idle" /\ call' = "none"
    /\ hDlg' = EventsMade /\ timerOn' = TRUE
    /\ UNCHANGED <<copy, buttons, jokes, kernel>>

InitInjection ==
    /\ BeginInjection
    /\ process # "junk" /\ host = "up"
    /\ process' = "host" /\ loads' = loads \cup {copy}
    /\ UNCHANGED <<host, frees, refs, dll, hDll, run, runCopy, history>>

\* OpenProcess, VirtualAllocEx, WriteProcessMemory or CreateRemoteThread fails.
InitInjectionFails ==
    /\ BeginInjection
    /\ process' \in {process} \cup (IF process = "null" /\ host = "up" THEN {"host"} ELSE {})
    /\ UNCHANGED <<sender, history>>

\* The dialog's process ends: a crash, or the ExitProcess of UnInjection.
Crash ==
    /\ pc # "off" /\ pc' = "off" /\ call' = "none"
    /\ buttons' = FALSE /\ timerOn' = FALSE
    /\ hDlg' = {} /\ jokes' = 0 /\ process' = "null"
    /\ signal' = [Kept({}, hDll) EXCEPT !["Joke"] = 0]
    /\ g_hJokeLib' = (g_hJokeLib /\ dll # "out")
    /\ UNCHANGED <<copy, szSourcePath, sender, history>>

-----------------------------------------------------------------------------
(* The other process.  The loader lock keeps remote threads out of a DLL   *)
(* that is in ExitInstance.                                                *)

\* InitInstance: the events it opens if it finds Joke signalled.
Found == IF signal["Joke"] # 0 THEN hDlg ELSE {}

Attach(c) ==
    /\ dll = "out"
    /\ loads' = loads \ {c} /\ refs' = 1 /\ dll' = "in" /\ hDll' = Found
    /\ signal' = Taken("Joke")
    /\ g_hJokeLib' = (g_hJokeLib \/ signal["Joke"] # 0)
    /\ run' = IF "Finished" \in Found THEN "timer" ELSE "none"
    /\ runCopy' = signal["Joke"]
    /\ UNCHANGED <<dialog, szSourcePath, host, frees, dialogs, overlap, cut, ended>>

\* LoadLibrary of a DLL that is mapped counts, and calls nothing.
LoadAgain(c) ==
    /\ dll = "in"
    /\ loads' = loads \ {c} /\ refs' = refs + 1
    /\ UNCHANGED <<dialog, kernel, host, frees, dll, hDll, run, runCopy,
                   dialogs, overlap, cut, ended>>

\* FreeLibrary; the last reference calls ExitInstance.
Free ==
    /\ frees > 0 /\ dll # "exit"
    /\ frees' = frees - 1
    /\ refs' = IF dll = "in" THEN refs - 1 ELSE refs
    /\ dll' = IF dll = "in" /\ refs = 1 THEN "exit" ELSE dll
    /\ UNCHANGED <<dialog, kernel, host, loads, hDll, run, runCopy, history>>

\* Mistake: the timer's callback starts a thread that holds no reference.
NoReference == refs

\* _beginthreadex takes a reference of the DLL its function is in.
WithThread == refs + 1

TimerCallBack ==
    /\ run = "timer" /\ dll = "in"
    /\ run' = "search" /\ refs' = WithThread
    /\ UNCHANGED <<dialog, kernel, host, loads, frees, dll, hDll, runCopy, history>>

\* One call of AccessDirectory ends; see Search.
SearchStopped ==
    /\ run = "search" /\ "Stop" \in hDll /\ signal["Stop"] # 0
    /\ signal' = Taken("Stop")
    /\ cut' = cut \cup {<<runCopy, signal["Stop"]>>}
    /\ UNCHANGED <<dialog, g_hJokeLib, szSourcePath, sender,
                   dialogs, overlap, ended>>

\* With files on the list or without; see SendPool.
SearchEnds ==
    /\ run = "search" /\ run' \in {"send", "set"}
    /\ UNCHANGED <<dialog, kernel, host, loads, frees, refs, dll, hDll, runCopy, history>>

SendsEnd ==
    /\ run = "send" /\ run' = "set"
    /\ UNCHANGED <<dialog, kernel, host, loads, frees, refs, dll, hDll, runCopy, history>>

SetFinished ==
    /\ run = "set" /\ run' = "end"
    /\ signal' = [signal EXCEPT !["Finished"] = runCopy]
    /\ UNCHANGED <<dialog, g_hJokeLib, szSourcePath, host, loads, frees, refs, dll, hDll,
                   runCopy, history>>

\* The thread gives its reference back.  If that is the last one it calls
\* ExitInstance itself, and waits there for itself, 15 s.
ThreadEnds ==
    /\ run = "end" /\ dll = "in"
    /\ refs' = refs - 1 /\ dll' = IF refs = 1 THEN "exit" ELSE "in"
    /\ run' = IF refs = 1 THEN "end" ELSE "none"
    /\ UNCHANGED <<dialog, kernel, host, loads, frees, hDll, runCopy, history>>

\* The process has no such DLL any more, nor any thread in it.
Gone(h) ==
    /\ host' = h /\ dll' = "out" /\ hDll' = {} /\ run' = "none" /\ refs' = 0
    /\ signal' = Kept(hDlg, {})
    /\ g_hJokeLib' = (g_hJokeLib /\ pc # "off")
    /\ UNCHANGED <<dialog, szSourcePath, runCopy, history>>

\* ExitInstance is over and the DLL is unmapped.  A thread that ends is out of
\* it by then.
Detach ==
    /\ dll = "exit" /\ run \in {"none", "end"}
    /\ Gone(host) /\ UNCHANGED <<loads, frees>>

\* The process ends, with all its threads.
Ends(h) == Gone(h) /\ loads' = {} /\ frees' = 0

\* The DLL is unmapped under its timer, or under a thread that runs in it.
HostCrashes ==
    /\ dll = "exit" /\ run \notin {"none", "end"}
    /\ Ends("crashed")

\* The user closes the other program.
HostCloses == host = "up" /\ Ends("closed")

-----------------------------------------------------------------------------
Handler ==
    \/ AskStop \/ AskFinished \/ WaitFinished \/ WaitTimesOut \/ ResetFinished
    \/ CloseEvents \/ FreeOldLib \/ ExcuteJoke \/ InitInjection

Host ==
    \/ \E c \in loads : Attach(c) \/ LoadAgain(c)
    \/ Free \/ TimerCallBack \/ SearchEnds \/ SendsEnd
    \/ SetFinished \/ ThreadEnds \/ Detach \/ HostCrashes

User == StartDialog \/ Inject \/ OnDestroy \/ HostCloses

Next == OnTimer \/ Handler \/ InitInjectionFails \/ Crash \/ Host \/ SearchStopped \/ User

Spec == Init /\ [][Next]_vars

\* The window's messages are served, timer 1024 fires every 50 ms, and the
\* other process runs its threads; the send threads end (SendPool).
FairSpec == Spec /\ WF_vars(OnTimer) /\ WF_vars(Handler) /\ WF_vars(Host)

-----------------------------------------------------------------------------
(* Properties. *)

TypeOK ==
    /\ pc \in {"off", "idle", "stop", "finished", "wait", "reset", "close", "free",
               "excute", "init"}
    /\ call \in {"none", "inject", "timer", "destroy"} /\ copy \in 0..MaxCopies
    /\ buttons \in BOOLEAN /\ timerOn \in BOOLEAN
    /\ hDlg \subseteq {"Stop", "Finished"} /\ hDll \subseteq {"Stop", "Finished"}
    /\ jokes \in Nat /\ process \in {"null", "junk", "host"}
    /\ signal \in [{"Joke", "Stop", "Finished"} -> 0..MaxCopies]
    /\ g_hJokeLib \in BOOLEAN /\ szSourcePath \in 0..MaxCopies
    /\ host \in {"up", "closed", "crashed"}
    /\ loads \subseteq Copies /\ frees \in Nat /\ refs \in Nat
    /\ dll \in {"out", "in", "exit"}
    /\ run \in {"none", "timer", "search", "send", "set", "end"}
    /\ runCopy \in 0..MaxCopies /\ dialogs \in 0..MaxDialogs
    /\ overlap \subseteq 0..MaxCopies
    /\ cut \subseteq (0..MaxCopies) \X (0..MaxCopies)
    /\ ended \subseteq (0..MaxCopies) \X (0..MaxCopies)

(***************************************************************************)
(* NoStaleSignals.  A search is cut by a Stop, and a copy ended by a       *)
(* Finished, that was set for an older copy, only if something of an older *)
(* one was still around in the other process when Inject was clicked,      *)
(* since nothing else keeps the event.  But for such a copy, no Finished   *)
(* is set any more once OnTimer has taken it and calls UnInjection: its    *)
(* wait there is in vain.                                                  *)
(***************************************************************************)
NoStaleSignals ==
    /\ \A p \in cut \cup ended : p[2] < p[1] => p[1] \in overlap
    /\ pc = "wait" /\ call = "timer" /\ signal["Finished"] # 0 => copy \in overlap

(***************************************************************************)
(* HostSurvives.  The DLL is not unmapped while its timer is armed or its  *)
(* search thread runs, unless some copy ran into an older one.  Then it    *)
(* can be: UnInjection frees what InitInjection failed to load, or a       *)
(* LoadLibrary that waited for ExitInstance runs after OnTimer's wait for  *)
(* the older copy, and what it arms is freed at once.                      *)
(***************************************************************************)
HostSurvives == host = "crashed" => overlap # {}

(***************************************************************************)
(* CleanInject.  When Inject can be clicked the dialog has no event and no *)
(* process left from before, but for one that has ended: its               *)
(* SetEvent(m_hEventFinished) has no handle to act on, and                 *)
(* UnInjection(false) cannot free an old DLL.                              *)
(***************************************************************************)
CleanInject ==
    pc = "idle" /\ buttons => hDlg = {} /\ (process = "host" => host # "up")

(***************************************************************************)
(* SearchesItsOwn.  The search reads the paths of the copy whose Joke      *)
(* started it, though the section is the dialog's to overwrite and Joke is *)
(* set before it is written; only a thread of an older copy can start it   *)
(* too early.                                                              *)
(***************************************************************************)
SearchesItsOwn ==
    [][run = "timer" /\ run' = "search" => szSourcePath = runCopy \/ runCopy \in overlap]_vars

(***************************************************************************)
(* ButtonsReturn.  Once LoadLibrary is under way for a copy the DLL hears  *)
(* of it, searches, sends and sets Finished, and the buttons come back,    *)
(* unless the dialog or the other process ends.  A copy that ran into an   *)
(* older one is excepted: the DLL may be mapped already and never hear of  *)
(* it, or be done with it while Inject still waits for the older one; then *)
(* its Finished is reset, and its buttons never come back.                 *)
(***************************************************************************)
ButtonsReturn ==
    \A c \in Copies :
        (copy = c /\ c \in loads \ overlap) ~> (buttons \/ pc = "off" \/ host # "up")
=============================================================================
