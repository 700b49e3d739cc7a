--------------------------- MODULE HandshakeProofs ---------------------------
(***************************************************************************)
(* Proofs about Handshake for any number of copies and dialogs.            *)
(***************************************************************************)
EXTENDS Handshake, Integers, TLAPS

-----------------------------------------------------------------------------
(* The type invariant, in parts, and what makes it inductive: a mapped DLL *)
(* has a reference to give back, and a copy that Inject tears down came    *)
(* before one that has a number.                                           *)

Numbers == 0..MaxCopies

Events == {"Joke", "Stop", "Finished"}

DialogOK ==
    /\ pc \in {"off", "idle", "stop", "finished", "wait", "reset", "close", "free",
               "excute", "init"}
    /\ call \in {"none", "inject", "timer", "destroy"} /\ copy \in Numbers
    /\ buttons \in BOOLEAN /\ timerOn \in BOOLEAN
    /\ hDlg \subseteq {"Stop", "Finished"}
    /\ jokes \in Nat /\ process \in {"null", "junk", "host"}

KernelOK == signal \in [Events -> Numbers] /\ g_hJokeLib \in BOOLEAN /\ szSourcePath \in Numbers

SenderOK ==
    /\ host \in {"up", "closed", "crashed"}
    /\ loads \subseteq Copies /\ frees \in Nat /\ refs \in Nat
    /\ dll \in {"out", "in", "exit"} /\ hDll \subseteq {"Stop", "Finished"}
    /\ run \in {"none", "timer", "search", "send", "set", "end"}
    /\ runCopy \in Numbers

HistoryOK ==
    /\ dialogs \in 0..MaxDialogs
    /\ overlap \subseteq Numbers
    /\ cut \subseteq Numbers \X Numbers /\ ended \subseteq Numbers \X Numbers

Mapped == dll = "in" => refs > 0

\* Where the UI thread stands, and in which handler.
InHandler ==
    /\ call = "none" <=> pc \in {"off", "idle"}
    /\ pc \in {"excute", "init"} => call = "inject"
    /\ call = "inject" => copy > 0

Typed == DialogOK /\ KernelOK /\ SenderOK /\ HistoryOK /\ Mapped /\ InHandler

LEMMA TypedIsTypeOK == TypeOK <=> DialogOK /\ KernelOK /\ SenderOK /\ HistoryOK
BY DEF TypeOK, DialogOK, KernelOK, SenderOK, HistoryOK, Numbers, Events

LEMMA NumbersAre ==
    /\ Numbers \subseteq Nat /\ 0 \in Numbers /\ Copies \subseteq Numbers
    /\ \A c \in Numbers : c < MaxCopies => c + 1 \in Copies
    /\ \A c \in Numbers : c > 0 => c \in Copies /\ c - 1 \in Numbers
BY HandshakeAssumption DEF Numbers, Copies

LEMMA InitTyped == Init => Typed
<1> SUFFICES ASSUME Init PROVE Typed
  OBVIOUS
<1>1. DialogOK /\ InHandler
  BY NumbersAre DEF Init, DialogOK, InHandler
<1>2. KernelOK
  BY NumbersAre DEF Init, KernelOK, Events
<1>3. SenderOK /\ Mapped
  BY NumbersAre DEF Init, SenderOK, Mapped
<1>4. HistoryOK
  BY HandshakeAssumption DEF Init, HistoryOK
<1> QED BY <1>1, <1>2, <1>3, <1>4 DEF Typed

LEMMA KeptType == ASSUME KernelOK, NEW dlg, NEW lib PROVE Kept(dlg, lib) \in [Events -> Numbers]
BY NumbersAre DEF KernelOK, Kept, Events

LEMMA TakenType == ASSUME KernelOK, NEW e PROVE Taken(e) \in [Events -> Numbers]
BY NumbersAre DEF KernelOK, Taken, Events

\* The dialog's variables.
LEMMA DialogStep == ASSUME Typed, [Next]_vars PROVE DialogOK' /\ InHandler'
<1> USE DEF Typed, DialogOK, InHandler
<1>1. CASE UNCHANGED dialog
  BY <1>1 DEF dialog
<1>2. CASE StartDialog
  BY <1>2 DEF StartDialog
<1>3. CASE Inject
  <2>1. copy' \in Numbers /\ copy' > 0 /\ jokes' \in Nat
    BY <1>3, NumbersAre, HandshakeAssumption DEF Inject, Numbers
  <2> QED BY <1>3, <2>1 DEF Inject
<1>4. CASE OnDestroy
  <2>1. jokes' \in Nat
    BY <1>4 DEF OnDestroy
  <2> QED BY <1>4, <2>1 DEF OnDestroy
<1>5. CASE OnTimer
  BY <1>5 DEF OnTimer
<1>6. CASE Crash
  BY <1>6 DEF Crash
<1>7. CASE AskStop \/ AskFinished \/ WaitFinished \/ WaitTimesOut \/ ResetFinished \/ CloseEvents
  BY <1>7 DEF AskStop, AskFinished, WaitFinished, WaitTimesOut, ResetFinished, CloseEvents
<1>8. CASE FreeOldLib
  BY <1>8 DEF FreeOldLib
<1>9. CASE ExcuteJoke
  BY <1>9 DEF ExcuteJoke
<1>10. CASE InitInjection \/ InitInjectionFails
  BY <1>10 DEF InitInjection, InitInjectionFails, BeginInjection, EventsMade
<1>11. CASE Host \/ SearchStopped \/ HostCloses \/ UNCHANGED vars
  <2>1. UNCHANGED dialog
    BY <1>11 DEF Host, Attach, LoadAgain, Free, TimerCallBack, SearchEnds, SendsEnd, SetFinished,
       ThreadEnds, Detach, Gone, SearchStopped, HostCrashes, Ends, HostCloses, vars
  <2> QED BY <1>1, <2>1
<1> QED
  BY <1>2, <1>3, <1>4, <1>5, <1>6, <1>7, <1>8, <1>9, <1>10, <1>11 DEF Next, Handler, User

\* The events and the section.
LEMMA KernelStep == ASSUME Typed, [Next]_vars PROVE KernelOK'
<1> USE DEF Typed
<1>1. signal' \in [Events -> Numbers]
  <2>1. CASE UNCHANGED signal
    BY <2>1 DEF KernelOK
  <2>2. CASE Inject
    BY <2>2, NumbersAre DEF Inject, DialogOK, KernelOK, Events
  <2>3. CASE OnTimer \/ WaitFinished \/ ResetFinished \/ SearchStopped \/ \E c \in loads : Attach(c)
    BY <2>3, TakenType DEF OnTimer, WaitFinished, ResetFinished, SearchStopped, Attach
  <2>4. CASE OnDestroy \/ FreeOldLib
    BY <2>4, NumbersAre DEF OnDestroy, FreeOldLib, KernelOK, Events
  <2>5. CASE AskStop
    <3>1. MeantFor \in Numbers
      BY NumbersAre DEF MeantFor, InHandler, DialogOK
    <3> QED BY <2>5, <3>1, NumbersAre DEF AskStop, KernelOK, Events
  <2>6. CASE CloseEvents
    BY <2>6, KeptType DEF CloseEvents
  <2>7. CASE Crash
    BY <2>7, KeptType, NumbersAre DEF Crash, Events
  <2>8. CASE SetFinished
    BY <2>8 DEF SetFinished, KernelOK, SenderOK, Events
  <2>9. CASE Detach \/ HostCrashes \/ HostCloses
    BY <2>9, KeptType DEF Detach, HostCrashes, Ends, HostCloses, Gone
  <2>10. CASE \/ StartDialog \/ AskFinished \/ WaitTimesOut \/ ExcuteJoke \/ InitInjection
              \/ InitInjectionFails \/ (\E c \in loads : LoadAgain(c)) \/ Free \/ TimerCallBack
              \/ SearchEnds \/ SendsEnd \/ ThreadEnds \/ UNCHANGED vars
    BY <2>1, <2>10 DEF StartDialog, AskFinished, WaitTimesOut, ExcuteJoke, InitInjection,
       InitInjectionFails, BeginInjection, LoadAgain, Free, TimerCallBack, SearchEnds, SendsEnd,
       ThreadEnds, kernel, vars
  <2> QED
    BY <2>2, <2>3, <2>4, <2>5, <2>6, <2>7, <2>8, <2>9, <2>10 DEF Next, Handler, Host, User
<1>2. szSourcePath' \in Numbers
  <2>1. szSourcePath' = szSourcePath \/ ExcuteJoke
    BY DEF Next, Handler, Host, User, StartDialog, Inject, OnTimer, OnDestroy, AskStop, AskFinished,
       WaitFinished, WaitTimesOut, ResetFinished, CloseEvents, FreeOldLib, InitInjection,
       InitInjectionFails, BeginInjection, Crash, Attach, LoadAgain, Free, TimerCallBack,
       SearchStopped, SearchEnds, SendsEnd, SetFinished, ThreadEnds, Gone, Detach, HostCrashes,
       Ends, HostCloses, kernel, vars
  <2> QED BY <2>1 DEF ExcuteJoke, NewPaths, KernelOK, DialogOK
<1>3. g_hJokeLib' \in BOOLEAN
  <2>1. CASE FreeOldLib
    BY <2>1 DEF FreeOldLib
  <2>2. CASE Crash
    BY <2>2 DEF Crash
  <2>3. CASE \E c \in loads : Attach(c)
    BY <2>3 DEF Attach
  <2>4. CASE Detach \/ HostCrashes \/ HostCloses
    BY <2>4 DEF Detach, HostCrashes, Ends, HostCloses, Gone
  <2>5. CASE g_hJokeLib' = g_hJokeLib
    BY <2>5 DEF KernelOK
  <2> QED
    BY <2>1, <2>2, <2>3, <2>4, <2>5
    DEF Next, Handler, Host, User, StartDialog, Inject, OnTimer, OnDestroy, AskStop, AskFinished,
       WaitFinished, WaitTimesOut, ResetFinished, CloseEvents, InitInjection, ExcuteJoke,
       InitInjectionFails, BeginInjection, LoadAgain, Free, TimerCallBack,
       SearchStopped, SearchEnds, SendsEnd, SetFinished, ThreadEnds, kernel, vars
<1> QED BY <1>1, <1>2, <1>3 DEF KernelOK

\* The other process, and its DLL's references.
LEMMA SenderStep == ASSUME Typed, [Next]_vars PROVE SenderOK' /\ Mapped'
<1> USE DEF Typed, SenderOK, Mapped
<1>1. CASE UNCHANGED sender
  BY <1>1 DEF sender
<1>2. CASE FreeOldLib
  BY <1>2 DEF FreeOldLib
<1>3. CASE InitInjection
  BY <1>3, NumbersAre DEF InitInjection, BeginInjection, DialogOK, InHandler
<1>4. ASSUME NEW c \in loads, Attach(c) PROVE SenderOK' /\ Mapped'
  <2>1. Found \subseteq {"Stop", "Finished"} /\ signal["Joke"] \in Numbers
    BY DEF Found, DialogOK, KernelOK, Events
  <2> QED BY <1>4, <2>1 DEF Attach
<1>5. ASSUME NEW c \in loads, LoadAgain(c) PROVE SenderOK' /\ Mapped'
  BY <1>5 DEF LoadAgain
<1>6. CASE Free
  BY <1>6 DEF Free
<1>7. CASE TimerCallBack
  BY <1>7 DEF TimerCallBack, WithThread
<1>8. CASE SearchEnds \/ SendsEnd \/ SetFinished
  BY <1>8 DEF SearchEnds, SendsEnd, SetFinished
<1>9. CASE ThreadEnds
  BY <1>9 DEF ThreadEnds
<1>10. CASE Detach \/ HostCrashes \/ HostCloses
  BY <1>10 DEF Detach, HostCrashes, Ends, HostCloses, Gone
<1>11. CASE \/ StartDialog \/ Inject \/ OnTimer \/ OnDestroy \/ AskStop \/ AskFinished \/ WaitFinished
            \/ WaitTimesOut \/ ResetFinished \/ CloseEvents \/ ExcuteJoke \/ InitInjectionFails
            \/ Crash \/ SearchStopped \/ UNCHANGED vars
  BY <1>1, <1>11 DEF StartDialog, Inject, OnTimer, OnDestroy, AskStop, AskFinished, WaitFinished,
     WaitTimesOut, ResetFinished, CloseEvents, ExcuteJoke, InitInjectionFails, Crash,
     SearchStopped, vars
<1> QED
  BY <1>2, <1>3, <1>4, <1>5, <1>6, <1>7, <1>8, <1>9, <1>10, <1>11 DEF Next, Handler, Host, User

\* What is only remembered.
LEMMA HistoryStep == ASSUME Typed, [Next]_vars PROVE HistoryOK'
<1> USE DEF Typed, HistoryOK
<1>1. CASE UNCHANGED history
  BY <1>1 DEF history
<1>2. CASE StartDialog
  BY <1>2, HandshakeAssumption DEF StartDialog
<1>3. CASE Inject
  BY <1>3, NumbersAre DEF Inject, DialogOK
<1>4. CASE OnTimer
  <2>1. signal["Finished"] \in Numbers /\ copy \in Numbers
    BY DEF DialogOK, KernelOK, Events
  <2> QED BY <1>4, <2>1 DEF OnTimer
<1>5. CASE WaitTimesOut
  BY <1>1, <1>5 DEF WaitTimesOut
<1>6. CASE SearchStopped
  <2>1. signal["Stop"] \in Numbers /\ runCopy \in Numbers
    BY DEF SenderOK, KernelOK, Events
  <2> QED BY <1>6, <2>1 DEF SearchStopped
<1>7. CASE \E c \in loads : Attach(c) \/ LoadAgain(c)
  BY <1>7 DEF Attach, LoadAgain
<1>8. CASE \/ OnDestroy \/ AskStop \/ AskFinished \/ WaitFinished \/ ResetFinished \/ CloseEvents
           \/ FreeOldLib \/ ExcuteJoke \/ InitInjection \/ InitInjectionFails \/ Crash
           \/ Free \/ TimerCallBack \/ SearchEnds \/ SendsEnd \/ SetFinished \/ ThreadEnds
           \/ Detach \/ HostCrashes \/ HostCloses \/ UNCHANGED vars
  BY <1>1, <1>8 DEF OnDestroy, AskStop, AskFinished, WaitFinished, ResetFinished, CloseEvents,
     FreeOldLib, ExcuteJoke, InitInjection, InitInjectionFails, Crash, Free, TimerCallBack,
     SearchEnds, SendsEnd, SetFinished, ThreadEnds, Detach, Gone, HostCrashes, Ends, HostCloses, vars
<1> QED
  BY <1>2, <1>3, <1>4, <1>5, <1>6, <1>7, <1>8 DEF Next, Handler, Host, User

LEMMA TypedStep == ASSUME Typed, [Next]_vars PROVE Typed'
BY DialogStep, KernelStep, SenderStep, HistoryStep DEF Typed

(***************************************************************************)
(* TypeCorrect.  Every variable stays in its set; for refs this says that  *)
(* FreeLibrary never takes a reference that nobody gave, whichever remote  *)
(* threads, ends of threads and ExitInstances come in between.             *)
(***************************************************************************)
THEOREM TypeCorrect == Spec => []TypeOK
<1>1. Typed => TypeOK
  BY TypedIsTypeOK DEF Typed
<1> QED BY <1>1, InitTyped, TypedStep, PTL DEF Spec

-----------------------------------------------------------------------------
(* CleanInject.  A dialog comes to rest with its buttons enabled when it   *)
(* starts and after OnTimer, whose UnInjection has closed the events.      *)

ClosedBefore ==
    /\ call = "inject" => ~buttons
    /\ pc = "off" => hDlg = {}
    /\ pc = "free" /\ call # "inject" => hDlg = {}

Clean == Typed /\ ClosedBefore /\ CleanInject

LEMMA InitClean == Init => Clean
BY InitTyped DEF Init, Clean, ClosedBefore, CleanInject

LEMMA CleanStep == ASSUME Clean, [Next]_vars PROVE ClosedBefore' /\ CleanInject'
<1> USE DEF Clean, Typed, InHandler, ClosedBefore, CleanInject
<1>1. CASE StartDialog
  BY <1>1 DEF StartDialog, sender
<1>2. CASE Inject \/ OnDestroy \/ Crash
  BY <1>2 DEF Inject, OnDestroy, Crash
<1>3. CASE OnTimer
  BY <1>3 DEF OnTimer
<1>4. CASE AskStop \/ AskFinished \/ WaitFinished \/ WaitTimesOut \/ ResetFinished
  BY <1>4 DEF AskStop, AskFinished, WaitFinished, WaitTimesOut, ResetFinished
<1>5. CASE CloseEvents
  BY <1>5 DEF CloseEvents, NotClearAll
<1>6. CASE FreeOldLib
  BY <1>6 DEF FreeOldLib, NotClearAll, DialogOK
<1>7. CASE ExcuteJoke
  BY <1>7 DEF ExcuteJoke
<1>8. CASE InitInjection \/ InitInjectionFails
  BY <1>8 DEF InitInjection, InitInjectionFails, BeginInjection
<1>9. CASE Host \/ SearchStopped \/ HostCloses \/ UNCHANGED vars
  <2>1. UNCHANGED dialog
    BY <1>9 DEF Host, Attach, LoadAgain, Free, TimerCallBack, SearchEnds, SendsEnd, SetFinished,
       ThreadEnds, Detach, Gone, SearchStopped, HostCrashes, Ends, HostCloses, vars
  <2>2. host' = "up" => host = "up"
    BY <1>9 DEF Host, Attach, LoadAgain, Free, TimerCallBack, SearchEnds, SendsEnd, SetFinished,
       ThreadEnds, Detach, Gone, SearchStopped, HostCrashes, Ends, HostCloses, vars, sender
  <2> QED BY <2>1, <2>2 DEF dialog
<1> QED
  BY <1>1, <1>2, <1>3, <1>4, <1>5, <1>6, <1>7, <1>8, <1>9 DEF Next, Handler, User

(***************************************************************************)
(* CleanInjectAlways.  For any number of copies and dialogs: when Inject   *)
(* can be clicked, nothing is left of the copy before.                     *)
(***************************************************************************)
THEOREM CleanInjectAlways == Spec => []CleanInject
<1>1. Clean /\ [Next]_vars => Clean'
  BY TypedStep, CleanStep DEF Clean
<1>2. Clean => CleanInject
  BY DEF Clean
<1> QED BY <1>1, <1>2, InitClean, PTL DEF Spec

-----------------------------------------------------------------------------
(* HostSurvives.  As long as no copy ran into an older one, there is one   *)
(* load for one free, and a dialog that is past its wait for Finished      *)
(* knows that the timer has fired.                                         *)

\* An event nobody has a handle of is not signalled, and what runs can set it.
Opened ==
    /\ \A e \in {"Stop", "Finished"} : e \notin hDlg \cup hDll => signal[e] = 0
    /\ run # "none" => "Finished" \in hDll
    /\ dll = "out" => hDll = {} /\ run = "none"

\* Inject finds nothing of an older copy, and nothing comes up until it is done.
NothingOlder ==
    call = "inject" =>
        /\ dll = "out" /\ loads = {} /\ frees = 0 /\ hDlg = {}
        /\ process = "host" => host # "up"

\* A load is the only one, and its run has still to come.
OneLoad ==
    /\ loads # {} => dll = "out" /\ signal["Finished"] = 0 /\ \E c \in Copies : loads = {c}
    /\ signal["Finished"] # 0 => run \in {"end", "none"}

\* The references of LoadLibrary, without that of the search thread.
Loaded == IF dll = "in" THEN IF run \in {"none", "timer"} THEN refs ELSE refs - 1 ELSE 1

\* What has been freed or can still be.
Freed == IF process = "host" THEN frees + 1 ELSE frees

FreedIsLoaded == dll = "in" \/ loads # {} => Freed <= Loaded

\* The dialog is past its wait for Finished, or has freed the DLL.
PastWait == frees > 0 \/ (pc \in {"reset", "close", "free"} /\ call # "inject")

NoTimerAhead == PastWait => run # "timer" /\ (loads # {} => "Finished" \notin hDlg)

LeavesLast == dll = "exit" => run \in {"none", "end"}

Lone ==
    overlap = {} =>
        /\ NothingOlder /\ OneLoad /\ FreedIsLoaded /\ NoTimerAhead /\ LeavesLast
        /\ host # "crashed"

LEMMA OpenedStep == ASSUME Typed, Opened, [Next]_vars PROVE Opened'
<1> USE DEF Opened
<1>1. CASE UNCHANGED <<hDlg, hDll, run, dll, signal>>
  BY <1>1
<1>2. CASE Inject \/ OnTimer \/ OnDestroy
  BY <1>2 DEF Inject, OnTimer, OnDestroy, Taken, sender, Typed, KernelOK, Events
<1>3. CASE AskStop \/ AskFinished
  BY <1>3 DEF AskStop, AskFinished, Exists, sender, kernel, Typed, KernelOK, Events
<1>4. CASE WaitFinished \/ ResetFinished
  BY <1>4 DEF WaitFinished, ResetFinished, Taken, sender, Typed, KernelOK, Events
<1>5. CASE CloseEvents
  BY <1>5 DEF CloseEvents, Kept, sender, Typed, KernelOK, Events
<1>6. CASE FreeOldLib
  BY <1>6 DEF FreeOldLib, Typed, KernelOK, Events
<1>7. CASE InitInjection \/ InitInjectionFails
  BY <1>7 DEF InitInjection, InitInjectionFails, BeginInjection, EventsMade, sender, kernel
<1>8. CASE Crash
  BY <1>8 DEF Crash, Kept, sender, Typed, KernelOK, Events
<1>9. ASSUME NEW c \in loads, Attach(c) PROVE Opened'
  <2>1. hDlg' = hDlg /\ hDll' = Found /\ dll' = "in" /\ signal' = [signal EXCEPT !["Joke"] = 0]
    BY <1>9 DEF Attach, dialog, Taken
  <2>2. run' = "none" \/ "Finished" \in hDll'
    BY <1>9 DEF Attach
  <2>3. hDll = {}
    BY <1>9 DEF Attach
  <2>4. signal'["Stop"] = signal["Stop"] /\ signal'["Finished"] = signal["Finished"]
    BY <2>1 DEF Typed, KernelOK, Events
  <2> QED BY <2>1, <2>2, <2>3, <2>4
<1>10. CASE Free \/ TimerCallBack \/ SearchEnds \/ SendsEnd \/ ThreadEnds
  BY <1>10 DEF Free, TimerCallBack, SearchEnds, SendsEnd, ThreadEnds, dialog, kernel
<1>11. CASE SearchStopped
  BY <1>11 DEF SearchStopped, Taken, dialog, sender, Typed, KernelOK, Events
<1>12. CASE SetFinished
  BY <1>12 DEF SetFinished, dialog, Typed, KernelOK, Events
<1>13. CASE Detach \/ HostCrashes \/ HostCloses
  BY <1>13 DEF Detach, HostCrashes, Ends, HostCloses, Gone, Kept, dialog, Typed, KernelOK, Events
<1>14. CASE \/ StartDialog \/ WaitTimesOut \/ ExcuteJoke \/ (\E c \in loads : LoadAgain(c))
            \/ UNCHANGED vars
  BY <1>1, <1>14 DEF StartDialog, WaitTimesOut, ExcuteJoke, LoadAgain, dialog, kernel, sender, vars
<1> QED
  BY <1>2, <1>3, <1>4, <1>5, <1>6, <1>7, <1>8, <1>9, <1>10, <1>11, <1>12, <1>13, <1>14
  DEF Next, Handler, Host, User

Alone == overlap = {} /\ NothingOlder /\ OneLoad /\ FreedIsLoaded /\ NoTimerAhead /\ LeavesLast

LEMMA NothingOlderStep ==
    ASSUME Clean, Opened, Alone, [Next]_vars, overlap' = {}
    PROVE  NothingOlder'
<1> USE DEF Alone, NothingOlder
<1>1. CASE UNCHANGED <<call, dll, loads, frees, hDlg, process, host>>
  BY <1>1
<1>2. CASE Inject
  <2>1. ~OldLibAround
    BY <1>2 DEF Inject
  <2> QED BY <1>2, <2>1 DEF Inject, OldLibAround, sender, Clean, CleanInject, Typed, SenderOK
<1>3. CASE OnTimer \/ OnDestroy \/ Crash
  BY <1>3 DEF OnTimer, OnDestroy, Crash
<1>4. CASE AskStop \/ AskFinished
  BY <1>4 DEF AskStop, AskFinished, Exists, sender, kernel, Opened
<1>5. CASE WaitFinished \/ WaitTimesOut \/ ResetFinished \/ ExcuteJoke \/ StartDialog
  BY <1>5 DEF WaitFinished, WaitTimesOut, ResetFinished, ExcuteJoke, StartDialog, sender,
     Clean, Typed, InHandler
<1>6. CASE CloseEvents
  BY <1>6 DEF CloseEvents, NotClearAll, sender
<1>7. CASE FreeOldLib
  BY <1>7 DEF FreeOldLib
<1>8. CASE InitInjection \/ InitInjectionFails
  BY <1>8 DEF InitInjection, InitInjectionFails, BeginInjection
<1>9. ASSUME NEW c \in loads, Attach(c) \/ LoadAgain(c) PROVE NothingOlder'
  BY <1>9 DEF Attach, LoadAgain, dialog
<1>10. CASE Free \/ TimerCallBack \/ SearchEnds \/ SendsEnd \/ SetFinished \/ ThreadEnds
  BY <1>10 DEF Free, TimerCallBack, SearchEnds, SendsEnd, SetFinished, ThreadEnds, dialog
<1>11. CASE Detach \/ HostCrashes \/ HostCloses
  BY <1>11 DEF Detach, HostCrashes, Ends, HostCloses, Gone, dialog
<1>12. CASE SearchStopped \/ UNCHANGED vars
  BY <1>1, <1>12 DEF SearchStopped, vars, dialog, sender
<1> QED
  BY <1>2, <1>3, <1>4, <1>5, <1>6, <1>7, <1>8, <1>9, <1>10, <1>11, <1>12
  DEF Next, Handler, Host, User

LEMMA OneLoadStep ==
    ASSUME Clean, Opened, Alone, [Next]_vars, overlap' = {}
    PROVE  OneLoad'
<1> USE DEF Alone, OneLoad
<1>0. /\ signal \in [Events -> Numbers] /\ 0 \in Numbers
      /\ "Finished" \in Events /\ "Stop" \in Events /\ "Joke" \in Events
  BY NumbersAre DEF Clean, Typed, KernelOK, Events
<1>1. CASE UNCHANGED <<loads, dll, run>> /\ signal'["Finished"] \in {0, signal["Finished"]}
  BY <1>1
<1>2. CASE Inject
  <2>1. hDlg = {}
    BY <1>2 DEF Inject, Clean, CleanInject
  <2>2. signal'["Finished"] = signal["Finished"]
    BY <1>0, <1>2, <2>1 DEF Inject
  <2> QED BY <1>1, <1>2, <2>2 DEF Inject, sender
<1>3. CASE \/ OnTimer \/ OnDestroy \/ AskStop \/ WaitFinished \/ ResetFinished \/ CloseEvents
           \/ FreeOldLib \/ Crash \/ SearchStopped
  <2>1. signal'["Finished"] \in {0, signal["Finished"]}
    BY <1>0, <1>3 DEF OnTimer, OnDestroy, AskStop, WaitFinished, ResetFinished, CloseEvents,
       FreeOldLib, Crash, SearchStopped, Kept, Taken, Events
  <2>2. UNCHANGED <<loads, dll, run>>
    BY <1>3 DEF OnTimer, OnDestroy, AskStop, WaitFinished, ResetFinished, CloseEvents,
       FreeOldLib, Crash, SearchStopped, sender
  <2> QED BY <1>1, <2>1, <2>2
<1>4. CASE InitInjection
  <2>1. call = "inject" /\ loads' = loads \cup {copy} /\ signal' = signal /\ dll' = dll /\ run' = run
    BY <1>4 DEF InitInjection, BeginInjection, kernel, Clean, Typed, InHandler
  <2>2. loads = {} /\ dll = "out" /\ hDlg = {}
    BY <2>1 DEF NothingOlder
  <2>3. signal["Finished"] = 0
    BY <2>2 DEF Opened
  <2>4. copy \in Copies
    BY <2>1, NumbersAre DEF Clean, Typed, InHandler, DialogOK
  <2> QED BY <2>1, <2>2, <2>3, <2>4
<1>5. ASSUME NEW c \in loads, Attach(c) PROVE OneLoad'
  <2>1. loads' = {} /\ signal["Finished"] = 0
    BY <1>5 DEF Attach
  <2>2. signal'["Finished"] = 0
    BY <1>0, <1>5, <2>1 DEF Attach, Taken
  <2> QED BY <2>1, <2>2
<1>6. ASSUME NEW c \in loads, LoadAgain(c) PROVE OneLoad'
  BY <1>6 DEF LoadAgain
<1>7. CASE Free
  BY <1>7 DEF Free, kernel
<1>8. CASE TimerCallBack \/ SearchEnds \/ SendsEnd
  BY <1>8 DEF TimerCallBack, SearchEnds, SendsEnd, kernel
<1>9. CASE SetFinished
  BY <1>9 DEF SetFinished, Opened
<1>10. CASE ThreadEnds
  BY <1>10 DEF ThreadEnds, kernel
<1>11. CASE Detach \/ HostCrashes \/ HostCloses
  <2>1. signal'["Finished"] \in {0, signal["Finished"]} /\ dll' = "out" /\ run' = "none"
        /\ loads' \in {{}, loads}
    BY <1>0, <1>11 DEF Detach, HostCrashes, Ends, HostCloses, Gone, Kept
  <2> QED BY <2>1
<1>12. CASE \/ StartDialog \/ AskFinished \/ WaitTimesOut \/ ExcuteJoke \/ InitInjectionFails
            \/ UNCHANGED vars
  BY <1>1, <1>12 DEF StartDialog, AskFinished, WaitTimesOut, ExcuteJoke, InitInjectionFails,
     BeginInjection, kernel, sender, vars
<1> QED
  BY <1>2, <1>3, <1>4, <1>5, <1>6, <1>7, <1>8, <1>9, <1>10, <1>11, <1>12
  DEF Next, Handler, Host, User

LEMMA FreedStep ==
    ASSUME Clean, Opened, Alone, [Next]_vars, overlap' = {}
    PROVE  FreedIsLoaded'
<1> USE DEF Alone, FreedIsLoaded
<1>a. ASSUME Freed' <= Freed, Freed \in Nat, Freed' \in Nat, UNCHANGED <<dll, loads, refs, run>>
      PROVE  FreedIsLoaded'
  <2>1. Loaded' = Loaded /\ Loaded \in Int
    BY <1>a DEF Loaded, Clean, Typed, SenderOK
  <2> QED BY <1>a, <2>1
<1> USE DEF Freed, Loaded
<1>0. SenderOK /\ Mapped /\ refs \in Nat /\ frees \in Nat
  BY DEF Clean, Typed, SenderOK
<1>1. CASE UNCHANGED <<dll, loads, frees, refs, run>> /\ (process' = "host" => process = "host")
  <2>1. Freed \in Nat /\ Freed' \in Nat /\ Freed' <= Freed
    <3>1. CASE process = "host"
      BY <1>0, <1>1, <3>1
    <3>2. CASE process # "host"
      BY <1>0, <1>1, <3>2
    <3> QED BY <3>1, <3>2
  <2> QED BY <1>1, <1>a, <2>1
<1>2. CASE \/ StartDialog \/ Inject \/ OnTimer \/ OnDestroy \/ AskStop \/ AskFinished
           \/ WaitFinished \/ WaitTimesOut \/ ResetFinished \/ CloseEvents \/ ExcuteJoke \/ Crash
           \/ SearchStopped \/ UNCHANGED vars
  <2>1. UNCHANGED <<dll, loads, frees, refs, run>>
    BY <1>2 DEF StartDialog, Inject, OnTimer, OnDestroy, AskStop, AskFinished, WaitFinished,
       WaitTimesOut, ResetFinished, CloseEvents, ExcuteJoke, Crash, SearchStopped, sender, vars
  <2>2. process' = "host" => process = "host"
    BY <1>2 DEF StartDialog, Inject, OnTimer, OnDestroy, AskStop, AskFinished, WaitFinished,
       WaitTimesOut, ResetFinished, CloseEvents, ExcuteJoke, Crash, SearchStopped, dialog, vars
  <2> QED BY <1>1, <2>1, <2>2
<1>3. CASE FreeOldLib
  <2>1. UNCHANGED <<dll, loads, refs, run>>
    BY <1>3 DEF FreeOldLib
  <2>2. Freed' <= Freed
    <3>1. CASE process = "host" /\ host = "up" /\ g_hJokeLib
      <4>1. call # "inject"
        BY <3>1 DEF NothingOlder
      <4>2. frees' = frees + 1 /\ process' = "null"
        BY <1>3, <3>1, <4>1 DEF FreeOldLib, NotClearAll
      <4> QED BY <1>0, <3>1, <4>2
    <3>2. CASE ~(process = "host" /\ host = "up" /\ g_hJokeLib)
      <4>1. frees' = frees /\ (process' = "host" => process = "host")
        <5>1. frees' = IF g_hJokeLib /\ ~(g_hJokeLib /\ ~(process = "host" /\ host = "up"))
                       THEN frees + 1 ELSE frees + 0
          BY <1>3 DEF FreeOldLib
        <5>2. process' \in {"null", process}
          BY <1>3 DEF FreeOldLib
        <5> QED BY <1>0, <3>2, <5>1, <5>2
      <4> QED BY <1>0, <4>1
    <3> QED BY <3>1, <3>2
  <2>3. Freed \in Nat /\ Freed' \in Nat
    <3>1. frees' = IF g_hJokeLib /\ ~(g_hJokeLib /\ ~(process = "host" /\ host = "up"))
                   THEN frees + 1 ELSE frees + 0
      BY <1>3 DEF FreeOldLib
    <3>2. frees' \in Nat
      BY <1>0, <3>1
    <3>3. \A f \in Nat : f + 1 \in Nat
      OBVIOUS
    <3>4. Freed \in {frees, frees + 1} /\ Freed' \in {frees', frees' + 1}
      OBVIOUS
    <3> HIDE DEF Freed
    <3> QED BY <1>0, <3>2, <3>3, <3>4
  <2> QED BY <1>a, <2>1, <2>2, <2>3
<1>4. CASE InitInjection
  <2>1. call = "inject"
    BY <1>4 DEF InitInjection, BeginInjection, Clean, Typed, InHandler
  <2>2. dll' = "out" /\ frees' = 0
    BY <1>4, <2>1 DEF InitInjection, NothingOlder
  <2> QED BY <2>2
<1>5. CASE InitInjectionFails
  <2>1. call = "inject"
    BY <1>5 DEF InitInjectionFails, BeginInjection, Clean, Typed, InHandler
  <2>2. dll' = "out" /\ loads' = {}
    BY <1>5, <2>1 DEF InitInjectionFails, NothingOlder, sender
  <2> QED BY <2>2
<1>6. ASSUME NEW c \in loads, Attach(c) PROVE FreedIsLoaded'
  <2>1. /\ dll' = "in" /\ refs' = 1 /\ run' \in {"none", "timer"} /\ dll = "out" /\ loads # {}
        /\ frees' = frees /\ process' = process
    BY <1>6 DEF Attach, dialog
  <2> QED BY <1>0, <2>1
<1>7. ASSUME NEW c \in loads, LoadAgain(c) PROVE FreedIsLoaded'
  BY <1>7 DEF LoadAgain, OneLoad
<1>8. CASE Free
  <2>1. frees' = frees - 1 /\ frees > 0 /\ UNCHANGED <<loads, process, run>>
    BY <1>8 DEF Free, dialog
  <2>2. CASE dll = "in"
    <3>1. refs' = refs - 1 /\ dll' \in {"in", "exit"} /\ loads = {}
      BY <1>8, <2>2 DEF Free, OneLoad
    <3> QED BY <1>0, <2>1, <2>2, <3>1
  <2>3. CASE dll # "in"
    <3>1. refs' = refs /\ dll' = dll
      BY <1>8, <2>3 DEF Free
    <3> QED BY <1>0, <2>1, <2>3, <3>1
  <2> QED BY <2>2, <2>3
<1>9. CASE TimerCallBack
  <2>1. /\ run = "timer" /\ run' = "search" /\ refs' = refs + 1 /\ dll = "in"
        /\ UNCHANGED <<dll, loads, process, frees>>
    BY <1>9 DEF TimerCallBack, WithThread, dialog
  <2> QED BY <1>0, <2>1
<1>10. CASE SearchEnds \/ SendsEnd \/ SetFinished
  <2>1. /\ run \in {"search", "send", "set"} /\ run' \in {"send", "set", "end"}
        /\ UNCHANGED <<dll, loads, process, frees, refs>>
    BY <1>10 DEF SearchEnds, SendsEnd, SetFinished, dialog
  <2> QED BY <1>0, <2>1
<1>11. CASE ThreadEnds
  <2>1. /\ run = "end" /\ dll = "in" /\ refs' = refs - 1 /\ loads = {}
        /\ dll' = "exit" \/ run' = "none"
        /\ UNCHANGED <<loads, process, frees>>
    BY <1>11 DEF ThreadEnds, dialog, OneLoad
  <2> QED BY <1>0, <2>1
<1>12. CASE Detach \/ HostCrashes \/ HostCloses
  <2>1. dll' = "out" /\ loads' = {}
    BY <1>12 DEF Detach, HostCrashes, Ends, HostCloses, Gone, OneLoad
  <2> QED BY <2>1
<1> QED
  BY <1>2, <1>3, <1>4, <1>5, <1>6, <1>7, <1>8, <1>9, <1>10, <1>11, <1>12
  DEF Next, Handler, Host, User

LEMMA NoTimerStep ==
    ASSUME Clean, Opened, Alone, [Next]_vars, overlap' = {}
    PROVE  NoTimerAhead'
<1> USE DEF Alone, NoTimerAhead, PastWait
<1>1. CASE UNCHANGED <<pc, call, frees, run, loads, hDlg>>
  BY <1>1
<1>2. CASE StartDialog \/ Inject \/ OnTimer \/ OnDestroy
  BY <1>2 DEF StartDialog, Inject, OnTimer, OnDestroy, sender
<1>3. CASE AskStop
  BY <1>3 DEF AskStop, sender
<1>4. CASE AskFinished
  <2>1. UNCHANGED <<frees, run, loads, dll, call>>
    BY <1>4 DEF AskFinished, sender
  <2>2. CASE "Finished" \in hDlg
    BY <1>4, <2>1, <2>2 DEF AskFinished, Exists
  <2>3. CASE "Finished" \in hDll /\ "Finished" \notin hDlg
    <3>1. loads = {}
      BY <2>3 DEF OneLoad, Opened
    <3>2. pc' = "wait"
      BY <1>4, <2>3 DEF AskFinished, Exists
    <3> QED BY <2>1, <3>1, <3>2
  <2>4. CASE "Finished" \notin hDlg \cup hDll
    <3>1. hDlg' = hDlg /\ run = "none"
      BY <1>4, <2>4 DEF AskFinished, Exists, Opened
    <3> QED BY <2>1, <2>4, <3>1
  <2> QED BY <2>2, <2>3, <2>4
<1>5. CASE WaitFinished
  <2>1. loads = {} /\ run \in {"end", "none"}
    BY <1>5 DEF WaitFinished, OneLoad
  <2> QED BY <1>5, <2>1 DEF WaitFinished, sender
<1>6. CASE WaitTimesOut
  <2>1. run # "timer" /\ loads = {}
    BY <1>6 DEF WaitTimesOut, SettledIn5s, OneLoad
  <2> QED BY <1>6, <2>1 DEF WaitTimesOut, sender
<1>7. CASE ResetFinished
  BY <1>7 DEF ResetFinished, sender
<1>8. CASE CloseEvents
  BY <1>8 DEF CloseEvents, sender
<1>9. CASE FreeOldLib
  <2>1. UNCHANGED <<run, loads, hDlg>> /\ pc = "free" /\ pc' \notin {"reset", "close", "free"}
    BY <1>9 DEF FreeOldLib
  <2>2. CASE call = "inject"
    <3>1. loads = {} /\ run = "none"
      BY <2>2 DEF NothingOlder, Opened
    <3> QED BY <2>1, <3>1
  <2>3. CASE call # "inject"
    BY <2>1, <2>3
  <2> QED BY <2>2, <2>3
<1>10. CASE ExcuteJoke
  BY <1>10 DEF ExcuteJoke, sender
<1>11. CASE InitInjection \/ InitInjectionFails
  <2>1. call = "inject" /\ pc' = "idle" /\ frees' = frees
    BY <1>11 DEF InitInjection, InitInjectionFails, BeginInjection, sender, Clean, Typed, InHandler
  <2> QED BY <2>1, <1>11 DEF NothingOlder
<1>12. CASE Crash
  BY <1>12 DEF Crash, sender
<1>13. ASSUME NEW c \in loads, Attach(c) PROVE NoTimerAhead'
  <2>1. UNCHANGED <<pc, call, frees, hDlg>> /\ loads' \subseteq loads
    BY <1>13 DEF Attach, dialog
  <2>2. "Finished" \notin hDlg => run' = "none"
    BY <1>13 DEF Attach, Found
  <2> QED BY <2>1, <2>2
<1>14. ASSUME NEW c \in loads, LoadAgain(c) PROVE NoTimerAhead'
  BY <1>14 DEF LoadAgain, OneLoad
<1>15. CASE Free
  BY <1>15 DEF Free, dialog
<1>16. CASE TimerCallBack \/ SearchEnds \/ SendsEnd \/ SetFinished \/ ThreadEnds
  BY <1>16 DEF TimerCallBack, SearchEnds, SendsEnd, SetFinished, ThreadEnds, dialog
<1>17. CASE Detach \/ HostCrashes \/ HostCloses
  BY <1>17 DEF Detach, HostCrashes, Ends, HostCloses, Gone, dialog
<1>18. CASE SearchStopped \/ UNCHANGED vars
  BY <1>1, <1>18 DEF SearchStopped, dialog, sender, vars
<1> QED
  BY <1>2, <1>3, <1>4, <1>5, <1>6, <1>7, <1>8, <1>9, <1>10, <1>11, <1>12, <1>13, <1>14, <1>15,
     <1>16, <1>17, <1>18
  DEF Next, Handler, Host, User

LEMMA LeavesLastStep ==
    ASSUME Clean, Opened, Alone, [Next]_vars, overlap' = {}
    PROVE  LeavesLast'
<1> USE DEF Alone, LeavesLast
<1>1. CASE Free /\ dll = "in" /\ refs = 1
  <2>1. frees > 0 /\ run' = run /\ frees \in Nat
    BY <1>1 DEF Free, Clean, Typed, SenderOK
  <2>2. run # "timer"
    BY <2>1 DEF NoTimerAhead, PastWait
  <2>3. Freed >= 1
    BY <2>1 DEF Freed
  <2>4. Freed \in Nat /\ Freed <= Loaded
    BY <1>1, <2>1 DEF FreedIsLoaded, Freed
  <2>5. run = "none"
    <3>1. CASE run \notin {"none", "timer"}
      <4>1. Loaded = 0
        BY <1>1, <3>1 DEF Loaded
      <4> QED BY <2>3, <2>4, <4>1
    <3> QED BY <2>2, <3>1
  <2> QED BY <2>1, <2>5
<1>2. CASE Free /\ ~(dll = "in" /\ refs = 1)
  BY <1>2 DEF Free
<1>3. CASE ThreadEnds
  BY <1>3 DEF ThreadEnds
<1>4. CASE TimerCallBack \/ SearchEnds \/ SendsEnd \/ SetFinished
  BY <1>4 DEF TimerCallBack, SearchEnds, SendsEnd, SetFinished
<1>5. ASSUME NEW c \in loads, Attach(c) \/ LoadAgain(c) PROVE LeavesLast'
  BY <1>5 DEF Attach, LoadAgain
<1>6. CASE Detach \/ HostCrashes \/ HostCloses
  BY <1>6 DEF Detach, HostCrashes, Ends, HostCloses, Gone
<1>7. CASE UNCHANGED <<dll, run>>
  BY <1>7
<1> QED
  BY <1>1, <1>2, <1>3, <1>4, <1>5, <1>6, <1>7
  DEF Next, Handler, Host, User, StartDialog, Inject, OnTimer, OnDestroy, AskStop, AskFinished,
      WaitFinished, WaitTimesOut, ResetFinished, CloseEvents, FreeOldLib, ExcuteJoke, InitInjection,
      InitInjectionFails, BeginInjection, Crash, SearchStopped, sender, vars

LEMMA NotCrashedStep ==
    ASSUME Clean, Opened, Alone, host # "crashed", [Next]_vars, overlap' = {}
    PROVE  host' # "crashed"
<1>1. CASE Detach \/ HostCrashes
  BY <1>1 DEF Detach, HostCrashes, Gone, Alone, LeavesLast
<1>2. CASE HostCloses
  BY <1>2 DEF HostCloses, Ends, Gone
<1>3. CASE host' = host
  BY <1>3
<1> QED
  BY <1>1, <1>2, <1>3
  DEF Next, Handler, Host, User, StartDialog, Inject, OnTimer, OnDestroy, AskStop, AskFinished,
      WaitFinished, WaitTimesOut, ResetFinished, CloseEvents, FreeOldLib, ExcuteJoke, InitInjection,
      InitInjectionFails, BeginInjection, Crash, SearchStopped, Attach, LoadAgain, Free,
      TimerCallBack, SearchEnds, SendsEnd, SetFinished, ThreadEnds, sender, vars

LEMMA OverlapGrows == ASSUME [Next]_vars PROVE overlap \subseteq overlap'
BY DEF Next, Handler, Host, User, StartDialog, Inject, OnTimer, OnDestroy, AskStop, AskFinished,
   WaitFinished, WaitTimesOut, ResetFinished, CloseEvents, FreeOldLib, ExcuteJoke, InitInjection,
   InitInjectionFails, BeginInjection, Crash, SearchStopped, Attach, LoadAgain, Free,
   TimerCallBack, SearchEnds, SendsEnd, SetFinished, ThreadEnds, Detach, Gone, HostCrashes, Ends,
   HostCloses, history, vars

LEMMA LoneStep == ASSUME Clean, Opened, Lone, [Next]_vars PROVE Lone'
<1> SUFFICES ASSUME overlap' = {}
             PROVE  /\ NothingOlder' /\ OneLoad' /\ FreedIsLoaded' /\ NoTimerAhead' /\ LeavesLast'
                    /\ host' # "crashed"
  BY DEF Lone
<1>1. overlap = {}
  BY OverlapGrows
<1>2. Alone /\ host # "crashed"
  BY <1>1 DEF Lone, Alone
<1> QED
  BY <1>2, NothingOlderStep, OneLoadStep, FreedStep, NoTimerStep, LeavesLastStep, NotCrashedStep

(***************************************************************************)
(* HostSurvivesAlways.  For any number of copies and dialogs, crashes of   *)
(* the dialog and failures to start the remote thread included: as long as *)
(* no Inject is clicked while something of an older copy is around, the    *)
(* other process does not lose the DLL under a timer or a thread.          *)
(***************************************************************************)
THEOREM HostSurvivesAlways == Spec => []HostSurvives
<1> DEFINE HInv == Clean /\ Opened /\ Lone
<1>1. Init => HInv
  <2> SUFFICES ASSUME Init PROVE Opened /\ Lone
    BY InitClean
  <2>1. Opened
    BY DEF Init, Opened
  <2>2. NothingOlder /\ OneLoad /\ NoTimerAhead /\ LeavesLast /\ host # "crashed"
    BY DEF Init, NothingOlder, OneLoad, NoTimerAhead, PastWait, LeavesLast
  <2>3. FreedIsLoaded
    BY DEF Init, FreedIsLoaded
  <2> QED BY <2>1, <2>2, <2>3 DEF Lone
<1>2. HInv /\ [Next]_vars => HInv'
  BY TypedStep, CleanStep, OpenedStep, LoneStep DEF Clean
<1>3. HInv => HostSurvives
  BY DEF Lone, HostSurvives
<1> HIDE DEF HInv
<1> QED BY <1>1, <1>2, <1>3, PTL DEF Spec

-----------------------------------------------------------------------------
(* NoStaleSignals and SearchesItsOwn.  Here only the copies concerned have *)
(* met no older one; what others ran into does not matter to them.         *)

\* Joke is signalled for the last copy, and read after its paths are written.
JokeIsNew ==
    /\ signal["Joke"] \in {0, copy}
    /\ signal["Joke"] # 0 /\ ~(call = "inject" /\ pc # "init") => szSourcePath = copy

\* What a copy that met no other finds from its Inject on.
FirstThere ==
    /\ call = "inject" => dll = "out" /\ loads = {} /\ hDlg = {}
    /\ loads # {} =>
          dll = "out" /\ loads = {copy} /\ signal["Finished"] = 0 /\ signal["Stop"] \in {0, copy}
    /\ signal["Finished"] \in {0, copy}
    /\ signal["Finished"] # 0 => run \in {"none", "end"}
    /\ run # "none" => runCopy = copy
    /\ call = "timer" => signal["Finished"] = 0 /\ loads = {} /\ run \in {"none", "end"}

\* What is kept for a run whose copy met no other, also when the next copy comes.
OwnRun ==
    /\ signal["Stop"] = 0 \/ signal["Stop"] >= runCopy
    /\ run = "timer" =>
          /\ signal["Finished"] = 0 /\ szSourcePath = runCopy
          /\ call = "inject" => pc \in {"stop", "finished", "wait"}

Fresh ==
    /\ JokeIsNew /\ runCopy <= copy
    /\ copy \notin overlap => FirstThere
    /\ run # "none" /\ runCopy \notin overlap => OwnRun

LEMMA SignalType ==
    ASSUME Typed
    PROVE  /\ signal \in [Events -> Numbers] /\ 0 \in Numbers
           /\ "Finished" \in Events /\ "Stop" \in Events /\ "Joke" \in Events
           /\ copy \in Nat /\ runCopy \in Nat
           /\ \A e \in Events : signal[e] \in Nat
BY NumbersAre DEF Typed, KernelOK, DialogOK, SenderOK, Events

LEMMA JokeStep == ASSUME Clean, JokeIsNew, [Next]_vars PROVE JokeIsNew'
<1> USE DEF JokeIsNew
<1>0. Typed /\ InHandler
  BY DEF Clean, Typed
<1>1. CASE Inject
  BY <1>0, <1>1, SignalType DEF Inject, Events
<1>2. CASE ExcuteJoke
  BY <1>0, <1>2 DEF ExcuteJoke, NewPaths
<1>3. CASE InitInjection \/ InitInjectionFails
  <2>1. UNCHANGED <<copy, signal, szSourcePath>> /\ pc = "init"
    BY <1>3 DEF InitInjection, InitInjectionFails, BeginInjection, kernel
  <2> QED BY <2>1
<1>4. CASE Crash
  BY <1>0, <1>4, SignalType DEF Crash, Kept, Events
<1>5. CASE OnTimer \/ OnDestroy
  BY <1>0, <1>5, SignalType DEF OnTimer, OnDestroy, Taken, InHandler, Events
<1>6. CASE AskStop \/ WaitFinished \/ ResetFinished \/ CloseEvents
  BY <1>0, <1>6, SignalType DEF AskStop, WaitFinished, ResetFinished, CloseEvents, Kept, Taken, Events
<1>7. CASE FreeOldLib
  BY <1>0, <1>7, SignalType DEF FreeOldLib, Events
<1>8. CASE AskFinished \/ WaitTimesOut \/ StartDialog
  BY <1>8 DEF AskFinished, WaitTimesOut, StartDialog, kernel
<1>9. CASE \/ SearchStopped \/ SetFinished \/ Detach \/ HostCrashes \/ HostCloses
            \/ \E c \in loads : Attach(c)
  <2>1. UNCHANGED <<dialog, szSourcePath>> /\ signal'["Joke"] \in {0, signal["Joke"]}
    BY <1>0, <1>9, SignalType DEF SearchStopped, SetFinished, Detach, HostCrashes, HostCloses, Ends,
       Gone, Attach, Taken, Kept, Events
  <2> QED BY <2>1 DEF dialog
<1>10. CASE \/ Free \/ TimerCallBack \/ SearchEnds \/ SendsEnd \/ ThreadEnds \/ UNCHANGED vars
            \/ \E c \in loads : LoadAgain(c)
  BY <1>10 DEF Free, TimerCallBack, SearchEnds, SendsEnd, ThreadEnds, LoadAgain, dialog, kernel, vars
<1> QED
  BY <1>1, <1>2, <1>3, <1>4, <1>5, <1>6, <1>7, <1>8, <1>9, <1>10
  DEF Next, Handler, Host, User

LEMMA RunCopyStep == ASSUME Clean, JokeIsNew, runCopy <= copy, [Next]_vars PROVE runCopy' <= copy'
<1>0. Typed
  BY DEF Clean
<1>1. CASE \E c \in loads : Attach(c)
  BY <1>0, <1>1, SignalType DEF Attach, JokeIsNew, dialog
<1>2. CASE Inject
  BY <1>0, <1>2, SignalType DEF Inject, sender
<1>3. CASE runCopy' = runCopy /\ copy' = copy
  BY <1>3
<1> QED
  BY <1>1, <1>2, <1>3
  DEF Next, Handler, Host, User, StartDialog, OnTimer, OnDestroy, AskStop, AskFinished,
      WaitFinished, WaitTimesOut, ResetFinished, CloseEvents, FreeOldLib, ExcuteJoke, InitInjection,
      InitInjectionFails, BeginInjection, Crash, SearchStopped, LoadAgain, Free, TimerCallBack,
      SearchEnds, SendsEnd, SetFinished, ThreadEnds, Detach, HostCrashes, HostCloses, Ends, Gone,
      dialog, sender, vars

LEMMA FirstThereStep ==
    ASSUME Clean, Opened, JokeIsNew, copy \notin overlap => FirstThere, [Next]_vars,
           copy' \notin overlap'
    PROVE  FirstThere'
<1>0. Typed /\ InHandler
  BY DEF Clean, Typed
<1>1. CASE Inject
  <2>1. ~OldLibAround /\ hDlg = {} /\ copy' = copy + 1
    <3>1. overlap' = overlap \cup (IF OldLibAround THEN {copy + 1} ELSE {}) /\ copy' = copy + 1
      BY <1>1 DEF Inject
    <3>2. hDlg = {}
      BY <1>1 DEF Inject, Clean, CleanInject
    <3> QED BY <3>1, <3>2
  <2>2. dll = "out" /\ loads = {} /\ run = "none" /\ signal["Finished"] = 0
    BY <2>1 DEF OldLibAround, Opened
  <2>3. signal'["Finished"] = 0
    BY <1>0, <1>1, <2>1, <2>2, SignalType DEF Inject, Events
  <2> QED BY <1>1, <2>1, <2>2, <2>3 DEF Inject, sender, FirstThere
<1>2. CASE ~Inject
  <2>1. copy' = copy /\ copy \notin overlap
    BY <1>2, OverlapGrows
    DEF Next, Handler, Host, User, StartDialog, OnTimer, OnDestroy, AskStop, AskFinished,
      WaitFinished, WaitTimesOut, ResetFinished, CloseEvents, FreeOldLib, ExcuteJoke, InitInjection,
      InitInjectionFails, BeginInjection, Crash, SearchStopped, Attach, LoadAgain, Free,
      TimerCallBack, SearchEnds, SendsEnd, SetFinished, ThreadEnds, Detach, HostCrashes, HostCloses,
      Ends, Gone, dialog, vars
  <2> USE <2>1 DEF FirstThere
  <2>2. CASE OnTimer
    <3>1. signal["Finished"] # 0 /\ loads = {} /\ run \in {"none", "end"}
      BY <2>2 DEF OnTimer
    <3> QED BY <1>0, <2>2, <3>1, SignalType DEF OnTimer, Taken, sender, Events
  <2>3. CASE OnDestroy \/ Crash
    <3>1. call' # "inject" /\ call' # "timer" /\ UNCHANGED sender
      BY <2>3 DEF OnDestroy, Crash
    <3>2. \A e \in {"Stop", "Finished"} : signal'[e] \in {0, signal[e]}
      BY <1>0, <2>3, SignalType DEF OnDestroy, Crash, Kept, Events
    <3> QED BY <3>1, <3>2 DEF sender
  <2>4. CASE AskStop
    <3>1. UNCHANGED sender /\ call' = call /\ signal'["Finished"] = signal["Finished"]
      BY <1>0, <2>4, SignalType DEF AskStop, Events
    <3>2. CASE call = "inject"
      BY <2>4, <3>1, <3>2 DEF AskStop, Exists, Opened, sender
    <3>3. CASE call # "inject"
      <4>1. signal'["Stop"] \in {0, copy}
        BY <1>0, <2>4, <3>3, SignalType DEF AskStop, MeantFor, Events
      <4> QED BY <3>1, <3>3, <4>1 DEF sender
    <3> QED BY <3>2, <3>3
  <2>5. CASE AskFinished
    BY <2>5 DEF AskFinished, Exists, Opened, sender, kernel
  <2>6. CASE WaitFinished \/ WaitTimesOut \/ ResetFinished
    BY <1>0, <2>6, SignalType DEF WaitFinished, WaitTimesOut, ResetFinished, Taken, sender, kernel, Events
  <2>7. CASE CloseEvents
    <3>1. \A e \in {"Stop", "Finished"} : signal'[e] \in {0, signal[e]}
      BY <1>0, <2>7, SignalType DEF CloseEvents, Kept, Events
    <3> QED BY <2>7, <3>1 DEF CloseEvents, NotClearAll, sender
  <2>8. CASE FreeOldLib
    <3>1. \A e \in {"Stop", "Finished"} : signal'[e] = signal[e]
      BY <1>0, <2>8, SignalType DEF FreeOldLib, Events
    <3> QED BY <2>8, <3>1 DEF FreeOldLib
  <2>9. CASE ExcuteJoke \/ StartDialog
    BY <2>9 DEF ExcuteJoke, StartDialog, sender, kernel
  <2>10. CASE InitInjection
    <3>1. call = "inject" /\ call' = "none" /\ UNCHANGED <<signal, dll, run, runCopy>> /\ loads' = loads \cup {copy}
      BY <1>0, <2>10 DEF InitInjection, BeginInjection, kernel, InHandler
    <3>2. signal["Finished"] = 0 /\ signal["Stop"] = 0
      BY <3>1 DEF Opened
    <3> QED BY <3>1, <3>2
  <2>11. CASE InitInjectionFails
    BY <2>11 DEF InitInjectionFails, BeginInjection, kernel, sender
  <2>12. ASSUME NEW c \in loads, Attach(c) PROVE FirstThere'
    <3>1. /\ loads = {copy} /\ loads' = {} /\ call' = call /\ call \notin {"inject", "timer"}
          /\ signal'["Finished"] = 0
      BY <1>0, <2>12, SignalType DEF Attach, dialog, Taken, Events
    <3>2. run' # "none" => runCopy' = copy
      <4>1. run' # "none" => Found # {}
        BY <2>12 DEF Attach
      <4> QED BY <2>12, <4>1 DEF Attach, Found, JokeIsNew
    <3> QED BY <3>1, <3>2
  <2>13. ASSUME NEW c \in loads, LoadAgain(c) PROVE FirstThere'
    BY <2>13 DEF LoadAgain
  <2>14. CASE Free \/ ThreadEnds
    BY <2>14 DEF Free, ThreadEnds, dialog, kernel
  <2>15. CASE TimerCallBack \/ SearchEnds \/ SendsEnd
    BY <2>15 DEF TimerCallBack, SearchEnds, SendsEnd, dialog, kernel
  <2>16. CASE SetFinished
    <3>1. run = "set" /\ loads = {} /\ call # "inject" /\ call # "timer" /\ runCopy = copy
      BY <2>16 DEF SetFinished, Opened
    <3>2. signal'["Finished"] = copy
      BY <1>0, <2>16, <3>1, SignalType DEF SetFinished, Events
    <3> QED BY <2>16, <3>1, <3>2 DEF SetFinished, dialog
  <2>17. CASE Detach \/ HostCrashes \/ HostCloses
    <3>1. /\ UNCHANGED dialog /\ dll' = "out" /\ run' = "none" /\ loads' \in {{}, loads}
          /\ signal' = Kept(hDlg, {})
      BY <2>17 DEF Detach, HostCrashes, HostCloses, Ends, Gone
    <3>2. \A e \in {"Stop", "Finished"} : signal'[e] \in {0, signal[e]}
      BY <1>0, <3>1, SignalType DEF Kept, Events
    <3> QED BY <3>1, <3>2 DEF dialog
  <2>18. CASE SearchStopped
    <3>1. \A e \in {"Stop", "Finished"} : signal'[e] \in {0, signal[e]}
      BY <1>0, <2>18, SignalType DEF SearchStopped, Taken, Events
    <3> QED BY <2>18, <3>1 DEF SearchStopped, dialog, sender
  <2>19. CASE UNCHANGED vars
    BY <2>19 DEF vars, dialog, kernel, sender
  <2> QED
    BY <1>2, <2>2, <2>3, <2>4, <2>5, <2>6, <2>7, <2>8, <2>9, <2>10, <2>11, <2>12, <2>13, <2>14,
       <2>15, <2>16, <2>17, <2>18, <2>19
    DEF Next, Handler, Host, User
<1> QED BY <1>1, <1>2

LEMMA OwnRunStep ==
    ASSUME Clean, Opened, Fresh, [Next]_vars, run' # "none", runCopy' \notin overlap'
    PROVE  OwnRun'
<1>0. Typed /\ InHandler
  BY DEF Clean, Typed
<1>1. ASSUME NEW c \in loads, Attach(c) PROVE OwnRun'
  <2>1. signal["Joke"] # 0 /\ runCopy' = signal["Joke"] /\ overlap' = overlap /\ copy' = copy
    BY <1>1 DEF Attach, Found, dialog
  <2>2. runCopy' = copy /\ FirstThere
    BY <2>1 DEF Fresh, JokeIsNew
  <2>3. /\ loads # {} /\ call # "inject" /\ signal["Finished"] = 0 /\ signal["Stop"] \in {0, copy}
        /\ szSourcePath = copy
    BY <2>1, <2>2 DEF FirstThere, Fresh, JokeIsNew
  <2>4. signal'["Finished"] = 0 /\ signal'["Stop"] \in {0, copy}
    BY <1>0, <1>1, <2>3, SignalType DEF Attach, Taken, Events
  <2> QED BY <1>0, <1>1, <2>2, <2>3, <2>4, SignalType DEF Attach, OwnRun, dialog
<1>2. CASE ~\E c \in loads : Attach(c)
  <2>1. run # "none" /\ runCopy' = runCopy
    BY <1>2
    DEF Next, Handler, Host, User, StartDialog, Inject, OnTimer, OnDestroy, AskStop, AskFinished,
      WaitFinished, WaitTimesOut, ResetFinished, CloseEvents, FreeOldLib, ExcuteJoke, InitInjection,
      InitInjectionFails, BeginInjection, Crash, SearchStopped, LoadAgain, Free,
      TimerCallBack, SearchEnds, SendsEnd, SetFinished, ThreadEnds, Detach, HostCrashes, HostCloses,
      Ends, Gone, sender, vars
  <2>2. OwnRun /\ runCopy \notin overlap /\ "Finished" \in hDll
    BY <2>1, OverlapGrows DEF Fresh, Opened
  <2>3. call = "inject" => runCopy < copy
    <3>1. call = "inject" => copy \in overlap
      BY <2>1 DEF Fresh, FirstThere, Opened
    <3> QED BY <1>0, <2>2, <3>1, SignalType DEF Fresh
  <2> USE <2>1, <2>2 DEF OwnRun
  <2>4. CASE Inject
    <3>1. hDlg = {}
      BY <2>4 DEF Inject, Clean, CleanInject
    <3>2. signal'["Stop"] = signal["Stop"] /\ signal'["Finished"] = signal["Finished"]
      BY <1>0, <2>4, <3>1, SignalType DEF Inject, Events
    <3> QED BY <2>4, <3>2 DEF Inject, sender
  <2>5. CASE StartDialog
    BY <2>5 DEF StartDialog, kernel, sender
  <2>6. CASE OnTimer \/ OnDestroy \/ Crash
    <3>1. \A e \in {"Stop", "Finished"} : signal'[e] \in {0, signal[e]}
      BY <1>0, <2>6, SignalType DEF OnTimer, OnDestroy, Crash, Taken, Kept, Events
    <3>2. UNCHANGED <<szSourcePath, sender>> /\ call' # "inject"
      BY <2>6 DEF OnTimer, OnDestroy, Crash
    <3> QED BY <3>1, <3>2 DEF sender
  <2>7. CASE AskStop
    <3>1. signal'["Finished"] = signal["Finished"] /\ signal'["Stop"] \in {0, MeantFor}
      BY <1>0, <2>7, SignalType DEF AskStop, Events
    <3>2. MeantFor >= runCopy
      BY <1>0, <2>3, SignalType DEF MeantFor, Fresh
    <3> QED BY <2>7, <3>1, <3>2 DEF AskStop, sender
  <2>8. CASE AskFinished
    BY <2>8 DEF AskFinished, Exists, sender, kernel
  <2>9. CASE WaitFinished
    BY <1>0, <2>9, SignalType DEF WaitFinished, Taken, sender, Events
  <2>10. CASE WaitTimesOut
    BY <2>10 DEF WaitTimesOut, SettledIn5s, sender, kernel
  <2>11. CASE ResetFinished
    BY <1>0, <2>11, SignalType DEF ResetFinished, Taken, sender, Events
  <2>12. CASE CloseEvents
    <3>1. \A e \in {"Stop", "Finished"} : signal'[e] \in {0, signal[e]}
      BY <1>0, <2>12, SignalType DEF CloseEvents, Kept, Events
    <3> QED BY <2>12, <3>1 DEF CloseEvents, sender
  <2>13. CASE FreeOldLib
    <3>1. \A e \in {"Stop", "Finished"} : signal'[e] = signal[e]
      BY <1>0, <2>13, SignalType DEF FreeOldLib, Events
    <3> QED BY <2>13, <3>1 DEF FreeOldLib
  <2>14. CASE ExcuteJoke
    <3>1. run # "timer"
      BY <1>0, <2>14 DEF ExcuteJoke, InHandler
    <3> QED BY <2>14, <3>1 DEF ExcuteJoke, sender
  <2>15. CASE InitInjection \/ InitInjectionFails
    BY <2>15 DEF InitInjection, InitInjectionFails, BeginInjection, kernel, sender
  <2>16. ASSUME NEW c \in loads, LoadAgain(c) PROVE OwnRun'
    BY <2>16 DEF LoadAgain, dialog, kernel
  <2>17. CASE Free \/ TimerCallBack \/ SearchEnds \/ SendsEnd \/ ThreadEnds
    BY <2>17 DEF Free, TimerCallBack, SearchEnds, SendsEnd, ThreadEnds, dialog, kernel
  <2>18. CASE SetFinished
    BY <1>0, <2>18, SignalType DEF SetFinished, Events
  <2>19. CASE SearchStopped
    BY <1>0, <2>19, SignalType DEF SearchStopped, Taken, sender, dialog, Events
  <2>20. CASE Detach \/ HostCrashes \/ HostCloses
    BY <2>20 DEF Detach, HostCrashes, HostCloses, Ends, Gone
  <2>21. CASE UNCHANGED vars
    BY <2>21 DEF vars, dialog, kernel, sender
  <2> QED
    BY <1>2, <2>4, <2>5, <2>6, <2>7, <2>8, <2>9, <2>10, <2>11, <2>12, <2>13, <2>14, <2>15, <2>16,
       <2>17, <2>18, <2>19, <2>20, <2>21
    DEF Next, Handler, Host, User
<1> QED BY <1>1, <1>2

LEMMA FreshStep == ASSUME Clean, Opened, Fresh, [Next]_vars PROVE Fresh'
<1>1. JokeIsNew' /\ runCopy' <= copy'
  BY JokeStep, RunCopyStep DEF Fresh
<1>2. copy' \notin overlap' => FirstThere'
  BY FirstThereStep DEF Fresh
<1>3. run' # "none" /\ runCopy' \notin overlap' => OwnRun'
  BY OwnRunStep
<1> QED BY <1>1, <1>2, <1>3 DEF Fresh

\* The copies that took a signal of an older one.
TookStale == {p \in cut \cup ended : p[2] < p[1]}

LEMMA StaleStep ==
    ASSUME Clean, Opened, Fresh, [Next]_vars, \A p \in TookStale : p[1] \in overlap
    PROVE  \A p \in TookStale' : p[1] \in overlap'
<1>0. Typed /\ overlap \subseteq overlap'
  BY OverlapGrows DEF Clean
<1>1. CASE OnTimer
  <2>1. cut' = cut /\ ended' = ended \cup {<<copy, signal["Finished"]>>} /\ signal["Finished"] # 0
    BY <1>1 DEF OnTimer
  <2>2. signal["Finished"] < copy => copy \in overlap
    BY <1>0, <2>1, SignalType DEF Fresh, FirstThere
  <2> QED BY <1>0, <2>1, <2>2 DEF TookStale
<1>2. CASE SearchStopped
  <2>1. /\ ended' = ended /\ cut' = cut \cup {<<runCopy, signal["Stop"]>>} /\ signal["Stop"] # 0
        /\ run # "none"
    BY <1>2 DEF SearchStopped
  <2>2. signal["Stop"] < runCopy => runCopy \in overlap
    BY <1>0, <2>1, SignalType DEF Fresh, OwnRun
  <2> QED BY <1>0, <2>1, <2>2 DEF TookStale
<1>3. CASE UNCHANGED <<cut, ended>>
  BY <1>0, <1>3 DEF TookStale
<1> QED
  BY <1>1, <1>2, <1>3
  DEF Next, Handler, Host, User, StartDialog, Inject, OnDestroy, AskStop, AskFinished,
      WaitFinished, WaitTimesOut, ResetFinished, CloseEvents, FreeOldLib, ExcuteJoke, InitInjection,
      InitInjectionFails, BeginInjection, Crash, Attach, LoadAgain, Free, TimerCallBack, SearchEnds,
      SendsEnd, SetFinished, ThreadEnds, Detach, HostCrashes, HostCloses, Ends, Gone, history, vars

LEMMA InitFresh == Init => Opened /\ Fresh /\ TookStale = {}
BY DEF Init, Opened, Fresh, JokeIsNew, FirstThere, TookStale

(***************************************************************************)
(* NoStaleSignalsAlways.  For any number of copies and dialogs: no copy    *)
(* takes a Stop or a Finished of an older one that it has not run into,    *)
(* and the wait OnTimer's UnInjection makes is in vain.                    *)
(***************************************************************************)
THEOREM NoStaleSignalsAlways == Spec => []NoStaleSignals
<1> DEFINE SInv == Clean /\ Opened /\ Fresh /\ \A p \in TookStale : p[1] \in overlap
<1>1. Init => SInv
  BY InitClean, InitFresh
<1>2. SInv /\ [Next]_vars => SInv'
  <2> SUFFICES ASSUME SInv, [Next]_vars PROVE SInv'
    OBVIOUS
  <2>1. Clean'
    BY TypedStep, CleanStep DEF Clean
  <2>2. Opened' /\ Fresh'
    BY OpenedStep, FreshStep DEF Clean
  <2>3. \A p \in TookStale' : p[1] \in overlap'
    BY StaleStep
  <2> QED BY <2>1, <2>2, <2>3
<1>3. SInv => NoStaleSignals
  BY DEF NoStaleSignals, TookStale, Fresh, FirstThere
<1> HIDE DEF SInv
<1> QED BY <1>1, <1>2, <1>3, PTL DEF Spec

(***************************************************************************)
(* SearchesItsOwnAlways.  For any number of copies and dialogs: a search   *)
(* reads the paths of its own copy, unless that copy ran into an older     *)
(* one, whatever the next Inject is about to write.                        *)
(***************************************************************************)
THEOREM SearchesItsOwnAlways == Spec => SearchesItsOwn
<1> DEFINE SInv == Clean /\ Opened /\ Fresh
<1>1. Init => SInv
  BY InitClean, InitFresh
<1>2. SInv /\ [Next]_vars => SInv'
  BY TypedStep, CleanStep, OpenedStep, FreshStep DEF Clean
<1>3. SInv => (run = "timer" /\ run' = "search" => szSourcePath = runCopy \/ runCopy \in overlap)
  BY DEF Fresh, OwnRun
<1> HIDE DEF SInv
<1>4. Spec => []SInv
  BY <1>1, <1>2, PTL DEF Spec
<1> QED BY <1>3, <1>4, PTL DEF SearchesItsOwn
=============================================================================
