------------------------------- MODULE Search -------------------------------
(***************************************************************************)
(* CJokeAssistApp::AccessDirectory, called by FindFiles: a recursive walk  *)
(* over the source directory that leaves out what the filter matches and   *)
(* lists every other file for the send threads.  Before each entry it      *)
(* polls the Stop event, which the dialog sets at any time.  Stop is an    *)
(* auto-reset event: the level of the recursion that sees it consumes it.  *)
(*                                                                         *)
(* The tree does not change during the walk.  Definitions marked "Mistake" *)
(* are ways the definition after them could have been written wrong.       *)
(***************************************************************************)
EXTENDS Integers, FiniteSets, SequencesExt

CONSTANTS Dirs,        \* the directories of the tree
          Files,       \* its files
          Root,        \* szSourcePath
          Listing,     \* what FindNextFile returns in each directory, in order
          Dots,        \* an entry that is "." or ".."
          Filtered,    \* the entries CheckFilter answers true for
          Unreadable,  \* the directories FindFile fails for
          MaxStops     \* bound: SetEvent calls on Stop

\* A tree: no directory lists Root, every other entry is listed once, and
\* nothing lies below itself.
ASSUME SearchAssumption ==
    /\ IsFiniteSet(Dirs) /\ Root \in Dirs /\ Dirs \cap Files = {} /\ Dots \notin Dirs \cup Files
    /\ Listing \in [Dirs -> Seq(Dirs \cup Files \cup {Dots})]
    /\ \A d, e \in Dirs : \A j \in DOMAIN Listing[d], k \in DOMAIN Listing[e] :
          /\ Listing[d][j] # Root
          /\ Listing[d][j] = Listing[e][k] => <<d, j>> = <<e, k>> \/ Listing[d][j] = Dots
    /\ \E height \in [Dirs -> 0..Cardinality(Dirs)] :
          \A d, e \in Dirs : (\E j \in DOMAIN Listing[d] : Listing[d][j] = e) => height[e] < height[d]
    /\ MaxStops \in Nat

VARIABLES
    pc,                \* FindFiles: "begin" | "walk" | "done" with AccessDirectory
    stack,             \* AccessDirectory's calls: directory and next entry
    m_FileListtoSend,
    m_nFoundFiles,
    m_nFiltedFiles,
    hEventStop,        \* Stop is signalled
    \* history, for the properties and the bounds
    entered,           \* the directories AccessDirectory was called for
    cut,               \* cut[d]: the first entry of d a Stop kept from being seen
    stops              \* SetEvent calls so far

vars == <<pc, stack, m_FileListtoSend, m_nFoundFiles, m_nFiltedFiles, hEventStop,
          entered, cut, stops>>

Init ==
    /\ pc = "begin" /\ stack = <<>>
    /\ m_FileListtoSend = <<>> /\ m_nFoundFiles = 0 /\ m_nFiltedFiles = 0
    /\ hEventStop \in BOOLEAN /\ stops = 0
    /\ entered = {} /\ cut = [d \in Dirs |-> Len(Listing[d]) + 1]

\* AccessDirectory(d) up to its loop.  Without FindFile's TRUE there is no loop.
Call(d) == [dir |-> d, next |-> IF d \in Unreadable THEN Len(Listing[d]) + 1 ELSE 1]

FindFiles ==
    /\ pc = "begin" /\ pc' = "walk"
    /\ stack' = <<Call(Root)>> /\ entered' = {Root}
    /\ UNCHANGED <<m_FileListtoSend, m_nFoundFiles, m_nFiltedFiles, hEventStop, cut, stops>>

Top == Last(stack)

\* bWorking: FindNextFile has not yet said that this was the last entry.
bWorking == pc = "walk" /\ stack # <<>> /\ Top.next <= Len(Listing[Top.dir])

Current == Listing[Top.dir][Top.next]

Advance == [stack EXCEPT ![Len(stack)].next = @ + 1]

\* Mistake: Stop ends the whole walk.
AllCallsEnd == <<>>

OneCallEnds == Front(stack)

\* Mistake: Stop is a manual-reset event.
StaysSet == TRUE

Taken == FALSE

\* WaitForSingleObject takes Stop, and break ends this call, not its callers.
TakeStop ==
    /\ bWorking /\ hEventStop
    /\ hEventStop' = Taken
    /\ stack' = OneCallEnds
    /\ cut' = [cut EXCEPT ![Top.dir] = Top.next]
    /\ UNCHANGED <<pc, m_FileListtoSend, m_nFoundFiles, m_nFiltedFiles, entered, stops>>

SkipDots ==
    /\ bWorking /\ ~hEventStop /\ Current = Dots
    /\ stack' = Advance
    /\ UNCHANGED <<pc, m_FileListtoSend, m_nFoundFiles, m_nFiltedFiles, hEventStop,
                   entered, cut, stops>>

\* CheckFilter is asked before IsDirectory: a directory goes with all below it.
LeaveOut ==
    /\ bWorking /\ ~hEventStop /\ Current # Dots /\ Current \in Filtered
    /\ stack' = Advance
    /\ m_nFiltedFiles' = m_nFiltedFiles + 1
    /\ UNCHANGED <<pc, m_FileListtoSend, m_nFoundFiles, hEventStop, entered, cut, stops>>

\* Mistake: the filter is asked about files only.
AnyDirectory == Current \in Dirs

KeptDirectory == Current \in Dirs \ Filtered

EnterDirectory ==
    /\ bWorking /\ ~hEventStop /\ KeptDirectory
    /\ stack' = Append(Advance, Call(Current))
    /\ entered' = entered \cup {Current}
    /\ UNCHANGED <<pc, m_FileListtoSend, m_nFoundFiles, m_nFiltedFiles, hEventStop, cut, stops>>

ListFile ==
    /\ bWorking /\ ~hEventStop /\ Current \in Files \ Filtered
    /\ stack' = Advance
    /\ m_nFoundFiles' = m_nFoundFiles + 1
    /\ m_FileListtoSend' = Append(m_FileListtoSend, Current)
    /\ UNCHANGED <<pc, m_nFiltedFiles, hEventStop, entered, cut, stops>>

\* The loop is over.
Return ==
    /\ pc = "walk" /\ stack # <<>> /\ ~bWorking
    /\ stack' = Front(stack)
    /\ UNCHANGED <<pc, m_FileListtoSend, m_nFoundFiles, m_nFiltedFiles, hEventStop,
                   entered, cut, stops>>

WalkEnds ==
    /\ pc = "walk" /\ stack = <<>> /\ pc' = "done"
    /\ UNCHANGED <<stack, m_FileListtoSend, m_nFoundFiles, m_nFiltedFiles, hEventStop,
                   entered, cut, stops>>

\* The dialog sets Stop; set twice before it is taken it is set once.
SetStop ==
    /\ stops < MaxStops
    /\ stops' = stops + 1 /\ hEventStop' = TRUE
    /\ UNCHANGED <<pc, stack, m_FileListtoSend, m_nFoundFiles, m_nFiltedFiles, entered, cut>>

AccessDirectory ==
    \/ TakeStop \/ SkipDots \/ LeaveOut \/ EnterDirectory \/ ListFile \/ Return \/ WalkEnds

Next == FindFiles \/ AccessDirectory \/ SetStop

Spec == Init /\ [][Next]_vars

-----------------------------------------------------------------------------
(* Properties. *)

TypeOK ==
    /\ pc \in {"begin", "walk", "done"}
    /\ stack \in Seq([dir : Dirs, next : Nat \ {0}])
    /\ m_FileListtoSend \in Seq(Files)
    /\ m_nFoundFiles \in Nat /\ m_nFiltedFiles \in Nat
    /\ hEventStop \in BOOLEAN
    /\ entered \subseteq Dirs /\ cut \in [Dirs -> Nat \ {0}] /\ stops \in Nat

\* The files below d in the order a recursive walk meets them, with each
\* directory read up to its cut.
Below[d \in Dirs] ==
    LET seen == IF d \in Unreadable THEN <<>> ELSE SubSeq(Listing[d], 1, cut[d] - 1)
        OfEntry(e) == IF e \in Filtered THEN <<>>
                      ELSE IF e \in Files THEN <<e>>
                      ELSE IF e \in Dirs THEN Below[e] ELSE <<>>
    IN  FlattenSeq([k \in DOMAIN seen |-> OfEntry(seen[k])])

(***************************************************************************)
(* ListedInOrder.  In the end the list holds what a recursive walk finds:  *)
(* every file that neither it nor a directory above it is filtered, in     *)
(* order, save for the rest of the directories that were being read when a *)
(* Stop was taken.  The directories above such a one are read to the end.  *)
(***************************************************************************)
ListedInOrder == pc = "done" => m_FileListtoSend = Below[Root]

\* What the walk has seen: the entries before the next one of a running call,
\* all before the cut of a call that is over.
SeenIn(d) ==
    IF d \notin entered \ Unreadable THEN {}
    ELSE IF \E i \in DOMAIN stack : stack[i].dir = d
    THEN {k \in DOMAIN Listing[d] : \E i \in DOMAIN stack : stack[i].dir = d /\ k < stack[i].next}
    ELSE {k \in DOMAIN Listing[d] : k < cut[d]}

(***************************************************************************)
(* CountsAreSeen.  The two numbers every header carries are about the same *)
(* entries: each entry seen is a dot, found, filtered or entered, and none *)
(* is counted twice although the counters are shared by all levels.        *)
(***************************************************************************)
CountsAreSeen ==
    LET seen == UNION {{<<d, k>> : k \in SeenIn(d)} : d \in Dirs}
        Of(S) == Cardinality({s \in seen : Listing[s[1]][s[2]] \in S})
    IN  /\ m_nFiltedFiles = Of(Filtered \ {Dots})
        /\ m_nFoundFiles = Of(Files \ Filtered)
        /\ m_nFoundFiles = Len(m_FileListtoSend)
        /\ Cardinality(entered \ {Root}) = Of(Dirs \ Filtered)

(***************************************************************************)
(* OneLevelPerStop.  A Stop ends one call of AccessDirectory, so of all    *)
(* the levels open at that time only one per SetEvent is cut; the one that *)
(* was left over from before the copy counts like any other.               *)
(***************************************************************************)
OneLevelPerStop ==
    Cardinality({d \in Dirs : cut[d] <= Len(Listing[d])}) + (IF hEventStop THEN 1 ELSE 0)
        <= stops + 1
=============================================================================
