---------------------------- MODULE SearchProofs ----------------------------
(***************************************************************************)
(* Proofs about Search for any tree and any number of Stops, and about     *)
(* Texts for any filter and any path.                                      *)
(***************************************************************************)
EXTENDS Search, Texts, SequenceLemmas, FiniteSetTheorems

-----------------------------------------------------------------------------
(* The type invariant. *)

Frame == [dir : Dirs, next : Nat \ {0}]

LEMMA CallType == ASSUME NEW d \in Dirs PROVE Call(d) \in Frame
<1>1. Len(Listing[d]) \in Nat
  BY SearchAssumption, LenProperties
<1> QED BY <1>1 DEF Call, Frame

LEMMA FrontType ==
    ASSUME NEW s \in Seq(Frame), s # <<>>
    PROVE  Front(s) \in Seq(Frame)
<1>1. Len(s) \in Nat \ {0}
  BY EmptySeq
<1>2. \A i \in 1..(Len(s) - 1) : s[i] \in Frame
  BY <1>1, ElementOfSeq
<1> QED BY <1>1, <1>2, SubSeqProperties DEF Front

\* The innermost call, and what it is at.
LEMMA TopType ==
    ASSUME TypeOK, bWorking
    PROVE  /\ stack # <<>> /\ stack \in Seq(Frame) /\ Len(stack) \in Nat \ {0}
           /\ Top \in Frame
           /\ Current \in Dirs \cup Files \cup {Dots}
<1>1. stack # <<>> /\ stack \in Seq(Frame) /\ Len(stack) \in Nat \ {0}
  BY EmptySeq DEF TypeOK, bWorking, Frame
<1>2. Top \in Frame
  BY <1>1, ElementOfSeq DEF Top, Last
<1>3. Top.dir \in Dirs /\ Top.next \in 1..Len(Listing[Top.dir])
  BY <1>2, SearchAssumption, LenProperties DEF Frame, bWorking
<1>4. Current \in Dirs \cup Files \cup {Dots}
  BY <1>3, SearchAssumption, ElementOfSeq DEF Current
<1> QED BY <1>1, <1>2, <1>4

LEMMA AdvanceType ==
    ASSUME TypeOK, bWorking
    PROVE  Advance \in Seq(Frame)
<1> DEFINE moved == [stack[Len(stack)] EXCEPT !.next = @ + 1]
<1>1. /\ stack \in Seq(Frame) /\ Len(stack) \in 1..Len(stack) /\ stack[Len(stack)] \in Frame
  BY TopType DEF Top, Last
<1>2. moved \in Frame
  BY <1>1 DEF Frame
<1>3. Advance = [stack EXCEPT ![Len(stack)] = moved]
  BY DEF Advance
<1> HIDE DEF moved
<1> QED BY <1>1, <1>2, <1>3, ExceptSeq

LEMMA InitType == Init => TypeOK
<1> SUFFICES ASSUME Init PROVE TypeOK
  OBVIOUS
<1>1. stack \in Seq(Frame) /\ m_FileListtoSend \in Seq(Files)
  BY EmptySeq DEF Init
<1>2. cut \in [Dirs -> Nat \ {0}]
  BY SearchAssumption, LenProperties DEF Init
<1> QED BY <1>1, <1>2 DEF Init, TypeOK, Frame

LEMMA TypeStep == ASSUME TypeOK, [Next]_vars PROVE TypeOK'
<1>1. CASE FindFiles
  <2>1. Root \in Dirs
    BY SearchAssumption
  <2>2. stack' \in Seq(Frame)
    <3>1. Call(Root) \in Frame
      BY <2>1, CallType
    <3>2. \A f \in Frame : <<f>> \in Seq(Frame)
      OBVIOUS
    <3>3. stack' = <<Call(Root)>>
      BY <1>1 DEF FindFiles
    <3> QED BY <3>1, <3>2, <3>3
  <2> QED BY <1>1, <2>1, <2>2 DEF FindFiles, TypeOK, Frame
<1>2. CASE TakeStop
  <2>1. stack' \in Seq(Frame)
    BY <1>2, TopType, FrontType DEF TakeStop, OneCallEnds
  <2>2. cut' \in [Dirs -> Nat \ {0}]
    BY <1>2, TopType DEF TakeStop, TypeOK, Frame
  <2> QED BY <1>2, <2>1, <2>2 DEF TakeStop, Taken, TypeOK, Frame
<1>3. CASE SkipDots \/ LeaveOut \/ ListFile
  <2>1. bWorking /\ stack' = Advance
    BY <1>3 DEF SkipDots, LeaveOut, ListFile
  <2>2. stack' \in Seq(Frame)
    BY <2>1, AdvanceType
  <2>3. m_FileListtoSend' \in Seq(Files)
    <3>1. CASE ListFile
      <4>1. Current \in Files /\ m_FileListtoSend \in Seq(Files)
        BY <3>1 DEF ListFile, TypeOK
      <4> QED BY <3>1, <4>1, AppendProperties DEF ListFile
    <3>2. CASE SkipDots \/ LeaveOut
      BY <3>2 DEF SkipDots, LeaveOut, TypeOK
    <3> QED BY <1>3, <3>1, <3>2
  <2> QED BY <1>3, <2>2, <2>3 DEF SkipDots, LeaveOut, ListFile, TypeOK, Frame
<1>4. CASE EnterDirectory
  <2>1. Current \in Dirs
    BY <1>4 DEF EnterDirectory, KeptDirectory
  <2>2. stack' \in Seq(Frame)
    <3>1. Advance \in Seq(Frame) /\ Call(Current) \in Frame
      BY <1>4, <2>1, AdvanceType, CallType DEF EnterDirectory
    <3> QED BY <1>4, <3>1, AppendProperties DEF EnterDirectory
  <2> QED BY <1>4, <2>1, <2>2 DEF EnterDirectory, TypeOK, Frame
<1>5. CASE Return
  <2>1. stack' \in Seq(Frame)
    BY <1>5, FrontType DEF Return, TypeOK, Frame
  <2> QED BY <1>5, <2>1 DEF Return, TypeOK, Frame
<1>6. CASE WalkEnds
  BY <1>6 DEF WalkEnds, TypeOK
<1>7. CASE SetStop
  BY <1>7 DEF SetStop, TypeOK
<1>8. CASE UNCHANGED vars
  BY <1>8 DEF vars, TypeOK
<1> QED BY <1>1, <1>2, <1>3, <1>4, <1>5, <1>6, <1>7, <1>8 DEF Next, AccessDirectory

(***************************************************************************)
(* TypeCorrect.  The walk's variables keep their types in any tree: the    *)
(* stack holds directories, and the list for the send threads only files.  *)
(***************************************************************************)
THEOREM TypeCorrect == Spec => []TypeOK
BY InitType, TypeStep, PTL DEF Spec

-----------------------------------------------------------------------------
(* Stops and the directories they cut. *)

Cut == {d \in Dirs : cut[d] <= Len(Listing[d])}

LEMMA SomeDirsFinite ==
    ASSUME NEW S, S \subseteq Dirs
    PROVE  IsFiniteSet(S) /\ Cardinality(S) \in Nat
BY SearchAssumption, FS_Subset, FS_CardinalityType

LEMMA OneLevelStep == ASSUME TypeOK, OneLevelPerStop, [Next]_vars PROVE OneLevelPerStop'
<1>1. Cardinality(Cut) + (IF hEventStop THEN 1 ELSE 0) <= stops + 1 /\ stops \in Nat
  BY DEF OneLevelPerStop, Cut, TypeOK
<1>2. Cardinality(Cut) \in Nat /\ Cardinality(Cut') \in Nat
  <2>1. Cut \subseteq Dirs /\ Cut' \subseteq Dirs
    BY DEF Cut
  <2> QED BY <2>1, SomeDirsFinite
<1>3. SUFFICES Cardinality(Cut') + (IF hEventStop' THEN 1 ELSE 0) <= stops' + 1
  BY DEF OneLevelPerStop, Cut
<1>4. CASE TakeStop
  <2>1. Cut' \subseteq Cut \cup {Top.dir}
    BY <1>4 DEF TakeStop, Cut, TypeOK
  <2>2. IsFiniteSet(Cut \cup {Top.dir}) /\ Cardinality(Cut \cup {Top.dir}) <= Cardinality(Cut) + 1
    <3>1. IsFiniteSet(Cut)
      BY SomeDirsFinite DEF Cut
    <3> QED BY <1>2, <3>1, FS_AddElement
  <2>3. Cardinality(Cut') <= Cardinality(Cut) + 1
    BY <1>2, <2>1, <2>2, FS_Subset, FS_CardinalityType
  <2>4. hEventStop /\ ~hEventStop' /\ stops' = stops
    BY <1>4 DEF TakeStop, Taken
  <2> QED BY <1>1, <1>2, <2>3, <2>4
<1>5. CASE SetStop
  <2>1. Cut' = Cut /\ hEventStop' /\ stops' = stops + 1
    BY <1>5 DEF SetStop, Cut
  <2> QED BY <1>1, <1>2, <2>1
<1>6. CASE ~TakeStop /\ ~SetStop
  <2>1. UNCHANGED <<cut, hEventStop, stops>>
    BY <1>6 DEF Next, AccessDirectory, FindFiles, SkipDots, LeaveOut, EnterDirectory, ListFile, Return,
       WalkEnds, vars
  <2>2. Cut' = Cut
    BY <2>1 DEF Cut
  <2> QED BY <1>1, <2>1, <2>2
<1> QED BY <1>4, <1>5, <1>6

(***************************************************************************)
(* OneLevelPerStopAlways.  In any tree, however deep the recursion is when *)
(* a Stop comes: each SetEvent cuts at most one directory short, with one  *)
(* more for a Stop left over from before.                                  *)
(***************************************************************************)
THEOREM OneLevelPerStopAlways == Spec => []OneLevelPerStop
<1>1. Init => OneLevelPerStop
  <2> SUFFICES ASSUME Init PROVE OneLevelPerStop
    OBVIOUS
  <2>1. Cut = {}
    BY SearchAssumption, LenProperties DEF Init, Cut
  <2>2. Cardinality({d \in Dirs : cut[d] <= Len(Listing[d])}) = 0
    BY <2>1, FS_EmptySet DEF Cut
  <2>3. stops = 0
    BY DEF Init
  <2> QED BY <2>2, <2>3 DEF OneLevelPerStop
<1>2. TypeOK /\ OneLevelPerStop /\ [Next]_vars => OneLevelPerStop'
  BY OneLevelStep
<1> QED BY TypeCorrect, <1>1, <1>2, PTL DEF Spec

-----------------------------------------------------------------------------
(* The calls and what they have seen. *)

\* The entries seen, each with its directory.
Seen == {s \in Dirs \X Nat : s[2] \in SeenIn(s[1])}

EntryAt(s) == Listing[s[1]][s[2]]

\* No directory is being read twice, and its cut is set when its call ends.
Calls ==
    /\ pc = "begin" => entered = {} /\ stack = <<>>
    /\ \A i, j \in 1..Len(stack) : stack[i].dir = stack[j].dir => i = j
    /\ \A i \in 1..Len(stack) :
          LET d == stack[i].dir
          IN  /\ d \in entered /\ cut[d] = Len(Listing[d]) + 1
              /\ stack[i].next <= Len(Listing[d]) + 1
              /\ d \in Unreadable => stack[i].next = Len(Listing[d]) + 1
    /\ \A d \in Dirs \ entered : cut[d] = Len(Listing[d]) + 1

\* What was entered was seen before.
Found ==
    /\ \A e \in entered \ {Root} : \E s \in Seen : EntryAt(s) = e
    /\ IsFiniteSet(Seen)

\* What a running call, and one that is over, has seen.
SeenRight ==
    \A d \in Dirs :
        /\ SeenIn(d) \subseteq 1..Len(Listing[d])
        /\ d \in Unreadable \/ d \notin entered => SeenIn(d) = {}
        /\ d \notin Unreadable => \A i \in 1..Len(stack) :
              stack[i].dir = d => SeenIn(d) = 1..(stack[i].next - 1)
        /\ d \in entered \ Unreadable /\ (\A i \in 1..Len(stack) : stack[i].dir # d) =>
              SeenIn(d) = {k \in 1..Len(Listing[d]) : k < cut[d]}

LEMMA Lists ==
    ASSUME NEW d \in Dirs
    PROVE  /\ Listing[d] \in Seq(Dirs \cup Files \cup {Dots}) /\ Len(Listing[d]) \in Nat
           /\ DOMAIN Listing[d] = 1..Len(Listing[d])
           /\ \A k \in 1..Len(Listing[d]) : Listing[d][k] \in Dirs \cup Files \cup {Dots}
<1>1. Listing[d] \in Seq(Dirs \cup Files \cup {Dots})
  BY SearchAssumption
<1> QED BY <1>1, LenProperties, ElementOfSeq

LEMMA StackIs ==
    ASSUME TypeOK
    PROVE  /\ stack \in Seq(Frame) /\ Len(stack) \in Nat /\ DOMAIN stack = 1..Len(stack)
           /\ \A i \in 1..Len(stack) : /\ stack[i] \in Frame /\ stack[i].dir \in Dirs
                                       /\ stack[i].next \in Nat \ {0}
           /\ stack # <<>> => Len(stack) > 0 /\ Top = stack[Len(stack)]
           /\ stack = <<>> => Len(stack) = 0
<1>1. stack \in Seq(Frame)
  BY DEF TypeOK, Frame
<1>2. /\ Len(stack) \in Nat /\ DOMAIN stack = 1..Len(stack)
      /\ \A i \in 1..Len(stack) : stack[i] \in Frame
  BY <1>1, LenProperties, ElementOfSeq
<1> QED BY <1>1, <1>2, EmptySeq DEF Frame, Top, Last

LEMMA CallsSeen == ASSUME TypeOK, Calls PROVE SeenRight
<1> SUFFICES ASSUME NEW d \in Dirs
             PROVE  /\ SeenIn(d) \subseteq 1..Len(Listing[d])
                    /\ d \in Unreadable \/ d \notin entered => SeenIn(d) = {}
                    /\ d \notin Unreadable => \A i \in 1..Len(stack) :
                          stack[i].dir = d => SeenIn(d) = 1..(stack[i].next - 1)
                    /\ d \in entered \ Unreadable /\ (\A i \in 1..Len(stack) : stack[i].dir # d) =>
                          SeenIn(d) = {k \in 1..Len(Listing[d]) : k < cut[d]}
  BY DEF SeenRight
<1>1. /\ DOMAIN stack = 1..Len(stack) /\ DOMAIN Listing[d] = 1..Len(Listing[d])
      /\ Len(Listing[d]) \in Nat
      /\ \A i \in 1..Len(stack) : stack[i].next \in Nat \ {0}
  BY StackIs, Lists
<1>2. SeenIn(d) \subseteq 1..Len(Listing[d])
  BY <1>1 DEF SeenIn
<1>3. d \in Unreadable \/ d \notin entered => SeenIn(d) = {}
  BY DEF SeenIn
<1>4. ASSUME d \notin Unreadable, NEW i \in 1..Len(stack), stack[i].dir = d
      PROVE  SeenIn(d) = 1..(stack[i].next - 1)
  <2>1. d \in entered /\ stack[i].next <= Len(Listing[d]) + 1
    BY <1>4 DEF Calls
  <2>2. \A j \in 1..Len(stack) : stack[j].dir = d <=> j = i
    BY <1>4 DEF Calls
  <2>3. SeenIn(d) = {k \in 1..Len(Listing[d]) : k < stack[i].next}
    BY <1>1, <1>4, <2>1, <2>2 DEF SeenIn
  <2>4. {k \in 1..Len(Listing[d]) : k < stack[i].next} = 1..(stack[i].next - 1)
    BY <1>1, <2>1
  <2> QED BY <2>3, <2>4
<1>5. ASSUME d \in entered \ Unreadable, \A i \in 1..Len(stack) : stack[i].dir # d
      PROVE  SeenIn(d) = {k \in 1..Len(Listing[d]) : k < cut[d]}
  BY <1>1, <1>5 DEF SeenIn
<1> QED BY <1>2, <1>3, <1>4, <1>5

\* The entry the innermost call is at, which is none of those seen.
LEMMA AtEntry ==
    ASSUME TypeOK, Calls, Found, bWorking
    PROVE  /\ Len(stack) \in Nat \ {0} /\ Top = stack[Len(stack)] /\ Top.dir \in Dirs \ Unreadable
           /\ Top.next \in 1..Len(Listing[Top.dir])
           /\ <<Top.dir, Top.next>> \notin Seen /\ EntryAt(<<Top.dir, Top.next>>) = Current
           /\ Current \in Dirs => Current \notin entered
<1>1. /\ Len(stack) \in Nat \ {0} /\ Top = stack[Len(stack)] /\ Top.dir \in Dirs
      /\ Top.next \in 1..Len(Listing[Top.dir]) /\ Len(stack) \in 1..Len(stack)
      /\ Len(Listing[Top.dir]) \in Nat
  BY StackIs, Lists DEF bWorking
<1>2. Top.dir \notin Unreadable
  BY <1>1 DEF Calls
<1>3. Top.next \notin SeenIn(Top.dir)
  <2>1. SeenIn(Top.dir) = 1..(Top.next - 1)
    BY <1>1, <1>2, CallsSeen DEF SeenRight
  <2> QED BY <1>1, <2>1
<1>4. <<Top.dir, Top.next>> \notin Seen /\ EntryAt(<<Top.dir, Top.next>>) = Current
  BY <1>3 DEF Seen, EntryAt, Current
<1>5. ASSUME Current \in Dirs, Current \in entered PROVE FALSE
  <2>1. Current # Root /\ Current # Dots
    BY <1>1, <1>5, SearchAssumption, Lists DEF Current
  <2>2. PICK s \in Seen : EntryAt(s) = Current
    BY <1>5, <2>1 DEF Found
  <2>3. s[1] \in Dirs /\ s[2] \in DOMAIN Listing[s[1]] /\ s = <<s[1], s[2]>>
    <3>1. s \in Dirs \X Nat /\ s[2] \in SeenIn(s[1])
      BY <2>2 DEF Seen
    <3> QED BY <3>1 DEF SeenIn
  <2>4. Top.next \in DOMAIN Listing[Top.dir]
    BY <1>1, Lists
  <2>5. Listing[s[1]][s[2]] = Listing[Top.dir][Top.next]
    BY <2>2 DEF EntryAt, Current
  <2>6. <<s[1], s[2]>> = <<Top.dir, Top.next>>
    BY <1>1, <2>1, <2>3, <2>4, <2>5, SearchAssumption DEF Current
  <2> QED BY <1>4, <2>2, <2>3, <2>6
<1> QED BY <1>1, <1>2, <1>4, <1>5

\* The stack with its innermost call one entry further, and without it.
LEMMA AdvanceIs ==
    ASSUME TypeOK, bWorking
    PROVE  /\ Advance \in Seq(Frame) /\ Len(Advance) = Len(stack)
           /\ \A i \in 1..Len(stack) : i # Len(stack) => Advance[i] = stack[i]
           /\ Advance[Len(stack)].dir = Top.dir /\ Advance[Len(stack)].next = Top.next + 1
<1>1. /\ DOMAIN stack = 1..Len(stack) /\ Len(stack) \in 1..Len(stack) /\ Len(stack) \in Nat
      /\ Top = stack[Len(stack)] /\ Top \in Frame
  BY StackIs, TopType
<1>2. Advance \in Seq(Frame)
  BY AdvanceType
<1>3. DOMAIN Advance = 1..Len(stack)
  BY <1>1 DEF Advance
<1>4. Len(Advance) = Len(stack)
  <2>1. DOMAIN Advance = 1..Len(Advance) /\ Len(Advance) \in Nat
    BY <1>2, LenProperties
  <2> QED BY <1>1, <1>3, <2>1
<1> QED BY <1>1, <1>2, <1>4 DEF Advance, Frame

LEMMA FrontIs ==
    ASSUME TypeOK, stack # <<>>
    PROVE  /\ Front(stack) \in Seq(Frame) /\ Len(Front(stack)) = Len(stack) - 1
           /\ \A i \in 1..(Len(stack) - 1) : Front(stack)[i] = stack[i]
<1>1. stack \in Seq(Frame) /\ Len(stack) \in Nat \ {0}
  BY StackIs
<1>2. Len(stack) - 1 \in 0..Len(stack)
  BY <1>1
<1>3. PICK n \in 0..Len(stack) : n = Len(stack) - 1
  BY <1>2
<1>4. /\ SubSeq(stack, 1, n) \in Seq(Frame) /\ Len(SubSeq(stack, 1, n)) = n
      /\ \A i \in 1..n : SubSeq(stack, 1, n)[i] = stack[i]
  <2>1. FirstCut(Frame, stack, n)
    BY ONLY <1>1, n \in 0..Len(stack), CutAlways
  <2> QED BY ONLY <2>1 DEF FirstCut
<1> QED BY <1>3, <1>4 DEF Front

LEMMA CallIs ==
    ASSUME NEW d \in Dirs
    PROVE  /\ Call(d) \in Frame /\ Call(d).dir = d
           /\ Call(d).next = IF d \in Unreadable THEN Len(Listing[d]) + 1 ELSE 1
BY CallType DEF Call

\* A call ends.
LEMMA CallsWithout ==
    ASSUME TypeOK, Calls, pc' # "begin", stack # <<>>, stack' = Front(stack), entered' = entered,
           \A d \in Dirs : d # Top.dir => cut'[d] = cut[d]
    PROVE  Calls'
<1>1. /\ Len(stack') = Len(stack) - 1 /\ \A i \in 1..(Len(stack) - 1) : stack'[i] = stack[i]
      /\ Len(stack) \in Nat \ {0} /\ Top = stack[Len(stack)]
      /\ \A i \in 1..Len(stack) : stack[i].dir \in Dirs
  BY FrontIs, StackIs
<1>2. \A i \in 1..(Len(stack) - 1) : i \in 1..Len(stack) /\ stack[i].dir # Top.dir
  BY <1>1 DEF Calls
<1>3. Top.dir \in entered
  BY <1>1 DEF Calls
<1>4. \A i \in 1..(Len(stack) - 1) :
        /\ stack'[i].dir \in entered' /\ cut'[stack'[i].dir] = Len(Listing[stack'[i].dir]) + 1
        /\ stack'[i].next <= Len(Listing[stack'[i].dir]) + 1
        /\ stack'[i].dir \in Unreadable => stack'[i].next = Len(Listing[stack'[i].dir]) + 1
  <2> TAKE i \in 1..(Len(stack) - 1)
  <2>1. stack'[i] = stack[i] /\ i \in 1..Len(stack) /\ cut'[stack[i].dir] = cut[stack[i].dir]
    BY <1>1, <1>2
  <2> QED BY <2>1 DEF Calls
<1>5. \A i, j \in 1..(Len(stack) - 1) : stack'[i].dir = stack'[j].dir => i = j
  BY <1>1, <1>2 DEF Calls
<1>6. \A d \in Dirs \ entered' : cut'[d] = Len(Listing[d]) + 1
  BY <1>3 DEF Calls
<1> QED BY <1>1, <1>4, <1>5, <1>6 DEF Calls

LEMMA CallsStep == ASSUME TypeOK, Calls, Found, [Next]_vars PROVE Calls'
<1>1. CASE FindFiles
  <2>1. stack' = <<Call(Root)>> /\ entered' = {Root} /\ cut' = cut /\ pc' = "walk" /\ pc = "begin"
    BY <1>1 DEF FindFiles
  <2>2. Root \in Dirs
    BY SearchAssumption
  <2>3. \A d \in Dirs : cut[d] = Len(Listing[d]) + 1 /\ Len(Listing[d]) \in Nat
    BY <2>1, Lists DEF Calls
  <2>4. Len(stack') = 1 /\ stack'[1] = Call(Root)
    BY <2>1
  <2>5. /\ Call(Root).dir = Root /\ Call(Root).next <= Len(Listing[Root]) + 1
        /\ Root \in Unreadable => Call(Root).next = Len(Listing[Root]) + 1
    BY <2>2, <2>3, CallIs
  <2> QED BY <2>1, <2>2, <2>3, <2>4, <2>5 DEF Calls
<1>2. CASE TakeStop
  BY <1>2, CallsWithout DEF TakeStop, OneCallEnds, bWorking, TypeOK
<1>3. CASE Return
  BY <1>3, CallsWithout DEF Return
<1>4. CASE SkipDots \/ LeaveOut \/ ListFile \/ EnterDirectory
  <2>1. bWorking /\ pc' = pc /\ pc = "walk" /\ cut' = cut
    BY <1>4 DEF SkipDots, LeaveOut, ListFile, EnterDirectory, bWorking
  <2>2. /\ Len(stack) \in Nat \ {0} /\ Top = stack[Len(stack)] /\ Top.dir \in Dirs \ Unreadable
        /\ Top.next \in 1..Len(Listing[Top.dir]) /\ Len(Listing[Top.dir]) \in Nat
        /\ Current \in Dirs => Current \notin entered
    BY <2>1, AtEntry, Lists
  <2>3. /\ Len(Advance) = Len(stack) /\ Advance \in Seq(Frame)
        /\ \A i \in 1..Len(stack) : i # Len(stack) => Advance[i] = stack[i]
        /\ Advance[Len(stack)].dir = Top.dir /\ Advance[Len(stack)].next = Top.next + 1
    BY <2>1, AdvanceIs
  <2>4. \A i \in 1..Len(stack) :
            /\ Advance[i].dir = stack[i].dir
            /\ Advance[i].next <= Len(Listing[stack[i].dir]) + 1
            /\ stack[i].dir \in Unreadable => Advance[i].next = Len(Listing[stack[i].dir]) + 1
    BY <2>2, <2>3 DEF Calls
  <2>5. CASE SkipDots \/ LeaveOut \/ ListFile
    <3>1. stack' = Advance /\ entered' = entered
      BY <2>5 DEF SkipDots, LeaveOut, ListFile
    <3>2. \A i \in 1..Len(stack') : i \in 1..Len(stack) /\ stack'[i] = Advance[i]
      BY <2>3, <3>1
    <3>3. \A i \in 1..Len(stack') :
             /\ stack'[i].dir = stack[i].dir
             /\ stack'[i].next <= Len(Listing[stack[i].dir]) + 1
             /\ stack[i].dir \in Unreadable => stack'[i].next = Len(Listing[stack[i].dir]) + 1
      BY <2>4, <3>2
    <3>4. \A i, j \in 1..Len(stack') : stack'[i].dir = stack'[j].dir => i = j
      BY <3>2, <3>3 DEF Calls
    <3>5. \A i \in 1..Len(stack') :
             stack'[i].dir \in entered' /\ cut'[stack'[i].dir] = Len(Listing[stack'[i].dir]) + 1
      BY <2>1, <3>1, <3>2, <3>3 DEF Calls
    <3> QED BY <2>1, <3>1, <3>3, <3>4, <3>5 DEF Calls
  <2>6. CASE EnterDirectory
    <3> DEFINE n == Len(stack)
               e == Current
    <3>1. stack' = Append(Advance, Call(e)) /\ entered' = entered \cup {e} /\ e \in Dirs
      BY <2>6 DEF EnterDirectory, KeptDirectory
    <3>2. /\ Call(e) \in Frame /\ Call(e).dir = e /\ Len(Listing[e]) \in Nat
          /\ Call(e).next = IF e \in Unreadable THEN Len(Listing[e]) + 1 ELSE 1
      BY <3>1, CallIs, Lists
    <3>3. /\ Len(stack') = n + 1 /\ stack'[n + 1] = Call(e)
          /\ \A i \in 1..n : stack'[i] = Advance[i]
      BY <2>3, <3>1, <3>2, AppendProperties
    <3>4. e \notin entered /\ cut[e] = Len(Listing[e]) + 1 /\ \A i \in 1..n : stack[i].dir # e
      BY <2>2, <3>1 DEF Calls
    <3> HIDE DEF n, e
    <3>5. \A i \in 1..(n + 1) : i \in 1..n \/ i = n + 1
      BY <2>2 DEF n
    <3>6. \A i \in 1..(n + 1) :
            /\ stack'[i].dir \in entered' /\ cut'[stack'[i].dir] = Len(Listing[stack'[i].dir]) + 1
            /\ stack'[i].next <= Len(Listing[stack'[i].dir]) + 1
            /\ stack'[i].dir \in Unreadable => stack'[i].next = Len(Listing[stack'[i].dir]) + 1
      <4>1. ASSUME NEW i \in 1..n
            PROVE  /\ stack'[i].dir = stack[i].dir
                   /\ stack[i].dir \in entered /\ cut[stack[i].dir] = Len(Listing[stack[i].dir]) + 1
                   /\ stack'[i].next <= Len(Listing[stack[i].dir]) + 1
                   /\ stack[i].dir \in Unreadable => stack'[i].next = Len(Listing[stack[i].dir]) + 1
        BY <2>4, <3>3 DEF Calls, n
      <4>2. /\ stack'[n + 1].dir = e /\ stack'[n + 1].next <= Len(Listing[e]) + 1
            /\ e \in Unreadable => stack'[n + 1].next = Len(Listing[e]) + 1
        BY <3>2, <3>3
      <4> QED BY <2>1, <3>1, <3>4, <3>5, <4>1, <4>2
    <3>7. \A i, j \in 1..(n + 1) : stack'[i].dir = stack'[j].dir => i = j
      <4>1. \A i \in 1..n : stack'[i].dir = stack[i].dir
        BY <2>4, <3>3 DEF n
      <4>2. stack'[n + 1].dir = e
        BY <3>2, <3>3
      <4>3. \A i, j \in 1..n : stack[i].dir = stack[j].dir => i = j
        BY DEF Calls, n
      <4> QED BY <3>4, <3>5, <4>1, <4>2, <4>3
    <3>8. \A d \in Dirs \ entered' : cut'[d] = Len(Listing[d]) + 1
      BY <2>1, <3>1 DEF Calls
    <3> QED BY <2>1, <3>3, <3>6, <3>7, <3>8 DEF Calls
  <2> QED BY <1>4, <2>5, <2>6
<1>5. CASE WalkEnds \/ SetStop \/ UNCHANGED vars
  <2>1. UNCHANGED <<stack, entered, cut>> /\ (pc' = "begin" => pc = "begin")
    BY <1>5 DEF WalkEnds, SetStop, vars
  <2> QED BY <2>1 DEF Calls
<1> QED BY <1>1, <1>2, <1>3, <1>4, <1>5 DEF Next, AccessDirectory

\* Ending a call changes nothing of what was seen, nor does beginning one,
LEMMA NothingSeen ==
    ASSUME TypeOK, Calls, SeenRight, SeenRight', Calls',
           FindFiles \/ TakeStop \/ Return \/ WalkEnds \/ SetStop \/ UNCHANGED vars
    PROVE  Seen' = Seen
<1> SUFFICES ASSUME NEW d \in Dirs PROVE SeenIn(d)' = SeenIn(d)
  BY DEF Seen
<1>1. CASE WalkEnds \/ SetStop \/ UNCHANGED vars
  <2>1. UNCHANGED <<stack, entered, cut>>
    BY <1>1 DEF WalkEnds, SetStop, vars
  <2> QED BY <2>1 DEF SeenIn
<1>2. CASE FindFiles
  <2>1. entered = {} /\ entered' = {Root} /\ stack' = <<Call(Root)>>
    BY <1>2 DEF FindFiles, Calls
  <2>2. SeenIn(d) = {}
    BY <2>1 DEF SeenRight
  <2>3. SeenIn(d)' = {}
    <3>1. CASE d \in Unreadable \/ d # Root
      BY <2>1, <3>1 DEF SeenRight
    <3>2. CASE d \notin Unreadable /\ d = Root
      <4>1. Call(Root).dir = Root /\ Call(Root).next = 1
        BY <3>2, CallIs
      <4>2. 1 \in 1..Len(stack') /\ stack'[1].dir = d /\ stack'[1].next = 1
        BY <2>1, <3>2, <4>1
      <4>3. SeenIn(d)' = 1..(1 - 1)
        BY <3>2, <4>2 DEF SeenRight
      <4> QED BY <4>3
    <3> QED BY <3>1, <3>2
  <2> QED BY <2>2, <2>3
<1>3. CASE TakeStop \/ Return
  <2>1. /\ stack # <<>> /\ stack' = Front(stack) /\ entered' = entered
        /\ \A e \in Dirs : e # Top.dir => cut'[e] = cut[e]
        /\ Top.dir \notin Unreadable => cut'[Top.dir] = Top.next
    <3>1. CASE TakeStop
      <4>1. Top.dir \in Dirs
        BY <3>1, TopType DEF TakeStop, Frame
      <4> QED BY <3>1, <4>1 DEF TakeStop, OneCallEnds, bWorking, TypeOK
    <3>2. CASE Return
      <4>1. /\ stack # <<>> /\ ~(Top.next <= Len(Listing[Top.dir])) /\ cut' = cut
            /\ stack' = Front(stack) /\ entered' = entered
        BY <3>2 DEF Return, bWorking
      <4>2. /\ Len(stack) \in 1..Len(stack) /\ Top = stack[Len(stack)] /\ Top.dir \in Dirs
            /\ Top.next \in Nat /\ Len(Listing[Top.dir]) \in Nat
        BY <4>1, StackIs, Lists
      <4>3. Top.next <= Len(Listing[Top.dir]) + 1 /\ cut[Top.dir] = Len(Listing[Top.dir]) + 1
        BY <4>2 DEF Calls
      <4> QED BY <4>1, <4>2, <4>3
    <3> QED BY <1>3, <3>1, <3>2
  <2>2. /\ Len(stack') = Len(stack) - 1 /\ \A i \in 1..(Len(stack) - 1) : stack'[i] = stack[i]
        /\ Len(stack) \in Nat \ {0} /\ Top = stack[Len(stack)] /\ Top.next \in Nat \ {0}
        /\ Top.dir \in Dirs
    BY <2>1, FrontIs, StackIs
  <2>3. CASE d \in Unreadable \/ d \notin entered
    BY <2>1, <2>3 DEF SeenRight
  <2>4. CASE d = Top.dir /\ d \in entered \ Unreadable
    <3>1. SeenIn(d) = 1..(Top.next - 1)
      BY <2>2, <2>4 DEF SeenRight
    <3>2. \A i \in 1..Len(stack') : stack'[i].dir # d
      BY <2>2, <2>4 DEF Calls
    <3>3. SeenIn(d)' = {k \in 1..Len(Listing[d]) : k < Top.next}
      BY <2>1, <2>4, <3>2 DEF SeenRight
    <3>4. Top.next <= Len(Listing[d]) + 1 /\ Len(Listing[d]) \in Nat
      BY <2>2, <2>4, Lists DEF Calls
    <3>5. {k \in 1..Len(Listing[d]) : k < Top.next} = 1..(Top.next - 1)
      BY <2>2, <3>4
    <3> QED BY <3>1, <3>3, <3>5
  <2>5. CASE d # Top.dir /\ d \in entered \ Unreadable
    <3>1. \A i \in 1..Len(stack) : stack[i].dir = d => i \in 1..(Len(stack) - 1)
      BY <2>2, <2>5
    <3>2. CASE \E i \in 1..Len(stack) : stack[i].dir = d
      <4>1. PICK i \in 1..Len(stack) : stack[i].dir = d
        BY <3>2
      <4>2. i \in 1..Len(stack') /\ stack'[i] = stack[i]
        BY <2>2, <3>1, <4>1
      <4> QED BY <2>5, <4>1, <4>2 DEF SeenRight
    <3>3. CASE \A i \in 1..Len(stack) : stack[i].dir # d
      <4>1. \A i \in 1..Len(stack') : stack'[i].dir # d
        BY <2>2, <3>3
      <4>2. cut'[d] = cut[d] /\ entered' = entered
        BY <2>1, <2>5
      <4>3. SeenIn(d) = {k \in 1..Len(Listing[d]) : k < cut[d]}
        BY <2>5, <3>3 DEF SeenRight
      <4>4. SeenIn(d)' = {k \in 1..Len(Listing[d]) : k < cut'[d]}
        BY <2>5, <4>1, <4>2 DEF SeenRight
      <4> QED BY <4>2, <4>3, <4>4
    <3> QED BY <3>2, <3>3
  <2> QED BY <2>3, <2>4, <2>5
<1> QED BY <1>1, <1>2, <1>3

\* and every other step sees one entry more.
LEMMA OneMoreSeen ==
    ASSUME TypeOK, Calls, Found, SeenRight, SeenRight', Calls',
           SkipDots \/ LeaveOut \/ ListFile \/ EnterDirectory
    PROVE  /\ bWorking /\ Seen' = Seen \cup {<<Top.dir, Top.next>>}
<1> DEFINE n == Len(stack)
           top == Top.dir
<1>1. bWorking /\ cut' = cut
  BY DEF SkipDots, LeaveOut, ListFile, EnterDirectory
<1>2. /\ n \in Nat \ {0} /\ Top = stack[n] /\ top \in Dirs \ Unreadable
      /\ Top.next \in 1..Len(Listing[top]) /\ Len(Listing[top]) \in Nat
      /\ Current \in Dirs => Current \notin entered
  BY <1>1, AtEntry, Lists
<1>3. /\ Len(Advance) = n /\ Advance \in Seq(Frame)
      /\ \A i \in 1..n : i # n => Advance[i] = stack[i]
      /\ Advance[n].dir = top /\ Advance[n].next = Top.next + 1
  BY <1>1, AdvanceIs
<1>4. /\ \A i \in 1..n : stack'[i] = Advance[i]
      /\ \/ Len(stack') = n /\ entered' = entered
         \/ /\ Len(stack') = n + 1 /\ stack'[n + 1] = Call(Current)
            /\ entered' = entered \cup {Current} /\ Current \in Dirs
  <2>1. CASE SkipDots \/ LeaveOut \/ ListFile
    BY <1>3, <2>1 DEF SkipDots, LeaveOut, ListFile
  <2>2. CASE EnterDirectory
    <3>1. stack' = Append(Advance, Call(Current)) /\ entered' = entered \cup {Current} /\ Current \in Dirs
      BY <2>2 DEF EnterDirectory, KeptDirectory
    <3>2. Call(Current) \in Frame
      BY <3>1, CallIs
    <3> QED BY <1>3, <3>1, <3>2, AppendProperties
  <2> QED BY <2>1, <2>2
<1> HIDE DEF n, top
<1>t. PICK t \in Dirs, m \in Nat : t = top /\ m = Top.next
  BY <1>2
<1>5. SeenIn(t) = 1..(m - 1) /\ SeenIn(t)' = 1..m
  <2>1. SeenIn(t) = 1..(m - 1)
    BY <1>2, <1>t DEF SeenRight, n, top
  <2>2. n \in 1..Len(stack') /\ stack'[n].dir = t /\ stack'[n].next = m + 1
    BY <1>2, <1>3, <1>4, <1>t
  <2>3. SeenIn(t)' = 1..((m + 1) - 1)
    BY <1>2, <1>t, <2>2 DEF SeenRight
  <2> QED BY <2>1, <2>3
<1>6. ASSUME NEW d \in Dirs, d # top PROVE SeenIn(d)' = SeenIn(d)
  <2>1. CASE d \in Unreadable \/ d \notin entered'
    BY <1>4, <2>1 DEF SeenRight
  <2>2. CASE d \in entered \ Unreadable /\ \E i \in 1..n : stack[i].dir = d
    <3>1. PICK i \in 1..n : stack[i].dir = d
      BY <2>2
    <3>2. i # n /\ i \in 1..Len(stack')
      BY <1>2, <1>4, <1>6, <3>1 DEF top
    <3>3. stack'[i] = stack[i]
      BY <1>3, <1>4, <3>1, <3>2
    <3> QED BY <2>2, <3>1, <3>2, <3>3 DEF SeenRight, n
  <2>3. CASE d \in entered \ Unreadable /\ \A i \in 1..n : stack[i].dir # d
    <3>1. \A i \in 1..Len(stack') : stack'[i].dir # d
      <4>1. \A i \in 1..n : stack'[i].dir # d
        BY <1>2, <1>3, <1>4, <1>6, <2>3
      <4>2. Len(stack') = n + 1 => stack'[n + 1].dir # d
        BY <1>2, <1>4, <2>3, CallIs
      <4> QED BY <1>2, <1>4, <4>1, <4>2
    <3>2. d \in entered'
      BY <1>4, <2>3
    <3>3. SeenIn(d) = {k \in 1..Len(Listing[d]) : k < cut[d]}
      BY <2>3 DEF SeenRight, n
    <3>4. SeenIn(d)' = {k \in 1..Len(Listing[d]) : k < cut'[d]}
      BY <2>3, <3>1, <3>2 DEF SeenRight
    <3> QED BY <1>1, <3>3, <3>4
  <2>4. CASE d \in entered' \ entered /\ d \notin Unreadable
    <3>1. Len(stack') = n + 1 /\ stack'[n + 1] = Call(d)
      BY <1>4, <2>4
    <3>2. n + 1 \in 1..Len(stack') /\ stack'[n + 1].dir = d /\ stack'[n + 1].next = 1
      BY <1>2, <2>4, <3>1, CallIs
    <3>3. SeenIn(d)' = 1..(1 - 1)
      BY <2>4, <3>2 DEF SeenRight
    <3>4. SeenIn(d) = {}
      BY <2>4 DEF SeenRight
    <3> QED BY <3>3, <3>4
  <2> QED BY <2>1, <2>2, <2>3, <2>4
<1>7. Seen' = Seen \cup {<<t, m>>}
  <2>1. ASSUME NEW d \in Dirs, NEW k \in Nat
        PROVE  k \in SeenIn(d)' <=> k \in SeenIn(d) \/ (d = t /\ k = m)
    <3>1. CASE d = t
      <4>1. k \in 1..m <=> k \in 1..(m - 1) \/ k = m
        BY <1>2, <1>t
      <4>2. SeenIn(d) = SeenIn(t) /\ SeenIn(d)' = SeenIn(t)'
        BY <3>1
      <4> QED BY <1>5, <3>1, <4>1, <4>2
    <3>2. CASE d # t
      BY <1>6, <1>t, <3>2
    <3> QED BY <3>1, <3>2
  <2>2. Seen' = {s \in Dirs \X Nat : s[2] \in SeenIn(s[1])'}
    BY DEF Seen
  <2>3. \A s \in Dirs \X Nat : s[1] \in Dirs /\ s[2] \in Nat /\ s = <<s[1], s[2]>>
    OBVIOUS
  <2>4. <<t, m>> \in Dirs \X Nat
    OBVIOUS
  <2> QED BY <2>1, <2>2, <2>3, <2>4 DEF Seen
<1> QED BY <1>1, <1>7, <1>t DEF top

\* What a step does to what was seen and counted.
Quiet == FindFiles \/ TakeStop \/ Return \/ WalkEnds \/ SetStop \/ UNCHANGED vars

Sees == SkipDots \/ LeaveOut \/ ListFile \/ EnterDirectory

LEMMA FoundStep ==
    ASSUME TypeOK, Calls, Calls', SeenRight, SeenRight', Found, [Next]_vars
    PROVE  Found'
<1>1. CASE Quiet
  <2>1. Seen' = Seen
    BY <1>1, NothingSeen DEF Quiet
  <2>2. entered' \ {Root} \subseteq entered \ {Root}
    BY <1>1 DEF Quiet, FindFiles, TakeStop, Return, WalkEnds, SetStop, vars
  <2>3. \A e \in entered' \ {Root} : \E s \in Seen' : EntryAt(s) = e
    BY <2>1, <2>2 DEF Found
  <2> QED BY <2>1, <2>3 DEF Found, EntryAt
<1>2. CASE Sees
  <2>1. bWorking /\ Seen' = Seen \cup {<<Top.dir, Top.next>>}
    BY <1>2, OneMoreSeen DEF Sees
  <2>2. EntryAt(<<Top.dir, Top.next>>) = Current
    BY <2>1, AtEntry
  <2>3. entered' \subseteq entered \cup {Current}
    BY <1>2 DEF Sees, SkipDots, LeaveOut, ListFile, EnterDirectory
  <2>4. \A e \in entered' \ {Root} : \E s \in Seen' : EntryAt(s) = e
    BY <2>1, <2>2, <2>3 DEF Found
  <2>5. IsFiniteSet(Seen')
    BY <2>1, FS_AddElement DEF Found
  <2> QED BY <2>4, <2>5 DEF Found, EntryAt
<1> QED BY <1>1, <1>2 DEF Next, AccessDirectory, Quiet, Sees

\* How many of the entries seen are in S.
Tally(S) == Cardinality({s \in Seen : EntryAt(s) \in S})

LEMMA TallyIs ==
    ASSUME Found, NEW S, NEW p, p \notin Seen, Seen' = Seen \cup {p}
    PROVE  /\ Tally(S) \in Nat
           /\ Tally(S)' = IF EntryAt(p) \in S THEN Tally(S) + 1 ELSE Tally(S)
<1> DEFINE old == {s \in Seen : EntryAt(s) \in S}
           new == {s \in Seen \cup {p} : EntryAt(s) \in S}
<1>1. IsFiniteSet(old) /\ p \notin old
  BY FS_Subset DEF Found
<1>2. Tally(S) = Cardinality(old) /\ Tally(S)' = Cardinality(new)
  BY DEF Tally, EntryAt
<1>3. CASE EntryAt(p) \in S
  <2>1. new = old \cup {p}
    BY <1>3
  <2> QED BY <1>1, <1>2, <1>3, <2>1, FS_AddElement, FS_CardinalityType
<1>4. CASE EntryAt(p) \notin S
  <2>1. new = old
    BY <1>4
  <2> QED BY <1>1, <1>2, <1>4, <2>1, FS_CardinalityType
<1> QED BY <1>3, <1>4

\* CountsAreSeen, with the entries seen as one set.
CountsRight ==
    /\ m_nFiltedFiles = Tally(Filtered \ {Dots})
    /\ m_nFoundFiles = Tally(Files \ Filtered)
    /\ m_nFoundFiles = Len(m_FileListtoSend)
    /\ Cardinality(entered \ {Root}) = Tally(Dirs \ Filtered)

LEMMA CountsStep ==
    ASSUME TypeOK, Calls, Calls', SeenRight, SeenRight', Found, CountsRight, [Next]_vars
    PROVE  CountsRight'
<1>1. CASE Quiet
  <2>1. Seen' = Seen
    BY <1>1, NothingSeen DEF Quiet
  <2>2. UNCHANGED <<m_FileListtoSend, m_nFoundFiles, m_nFiltedFiles>>
    BY <1>1 DEF Quiet, FindFiles, TakeStop, Return, WalkEnds, SetStop, vars
  <2>3. entered' \ {Root} = entered \ {Root}
    <3>1. CASE FindFiles
      BY <3>1 DEF FindFiles, Calls
    <3>2. CASE ~FindFiles
      BY <1>1, <3>2 DEF Quiet, TakeStop, Return, WalkEnds, SetStop, vars
    <3> QED BY <3>1, <3>2
  <2>4. \A S : Tally(S)' = Tally(S)
    BY <2>1 DEF Tally, EntryAt
  <2> QED BY <2>2, <2>3, <2>4 DEF CountsRight
<1>2. CASE Sees
  <2>1. bWorking /\ Seen' = Seen \cup {<<Top.dir, Top.next>>}
    BY <1>2, OneMoreSeen DEF Sees
  <2>2. /\ EntryAt(<<Top.dir, Top.next>>) = Current /\ <<Top.dir, Top.next>> \notin Seen
        /\ Current \in Dirs => Current \notin entered
        /\ Current # Root
    <3>1. /\ Top.dir \in Dirs /\ Top.next \in DOMAIN Listing[Top.dir]
      BY <2>1, AtEntry, Lists
    <3> QED BY <2>1, <3>1, AtEntry, SearchAssumption DEF Current
  <2>3. PICK p, e : p = <<Top.dir, Top.next>> /\ e = Current
    OBVIOUS
  <2>4. /\ EntryAt(p) = e /\ p \notin Seen /\ Seen' = Seen \cup {p}
        /\ e \in Dirs => e \notin entered
        /\ e # Root
    BY <2>1, <2>2, <2>3
  <2>5. \A S : /\ Tally(S) \in Nat
               /\ Tally(S)' = IF e \in S THEN Tally(S) + 1 ELSE Tally(S)
    BY <2>4, TallyIs
  <2>6. /\ e \notin Filtered => m_nFiltedFiles' = m_nFiltedFiles
        /\ e = Dots => m_nFiltedFiles' = m_nFiltedFiles
        /\ e \in Filtered \ {Dots} => m_nFiltedFiles' = m_nFiltedFiles + 1
    BY <1>2, <2>3, SearchAssumption DEF Sees, SkipDots, LeaveOut, ListFile, EnterDirectory, KeptDirectory
  <2>7. IF e \in Files \ Filtered
        THEN m_nFoundFiles' = m_nFoundFiles + 1 /\ m_FileListtoSend' = Append(m_FileListtoSend, e)
        ELSE UNCHANGED <<m_nFoundFiles, m_FileListtoSend>>
    BY <1>2, <2>3, SearchAssumption DEF Sees, SkipDots, LeaveOut, ListFile, EnterDirectory, KeptDirectory
  <2>8. IF e \in Dirs \ Filtered THEN entered' = entered \cup {e} ELSE entered' = entered
    BY <1>2, <2>3, SearchAssumption DEF Sees, SkipDots, LeaveOut, ListFile, EnterDirectory, KeptDirectory
  <2>9. m_nFiltedFiles' = Tally(Filtered \ {Dots})'
    <3>1. m_nFiltedFiles = Tally(Filtered \ {Dots})
      BY DEF CountsRight
    <3>2. Tally(Filtered \ {Dots})' =
            IF e \in Filtered \ {Dots} THEN Tally(Filtered \ {Dots}) + 1 ELSE Tally(Filtered \ {Dots})
      BY <2>5
    <3> QED BY <2>6, <3>1, <3>2
  <2>10. m_nFoundFiles' = Tally(Files \ Filtered)' /\ m_nFoundFiles' = Len(m_FileListtoSend')
    <3>1. m_nFoundFiles = Tally(Files \ Filtered) /\ m_nFoundFiles = Len(m_FileListtoSend)
      BY DEF CountsRight
    <3>2. Tally(Files \ Filtered)' =
            IF e \in Files \ Filtered THEN Tally(Files \ Filtered) + 1 ELSE Tally(Files \ Filtered)
      BY <2>5
    <3>3. e \in Files => Len(Append(m_FileListtoSend, e)) = Len(m_FileListtoSend) + 1
      BY AppendProperties DEF TypeOK
    <3> QED BY <2>7, <3>1, <3>2, <3>3
  <2>11. Cardinality(entered' \ {Root}) = Tally(Dirs \ Filtered)'
    <3>1. Cardinality(entered \ {Root}) = Tally(Dirs \ Filtered)
      BY DEF CountsRight
    <3>2. Tally(Dirs \ Filtered)' =
            IF e \in Dirs \ Filtered THEN Tally(Dirs \ Filtered) + 1 ELSE Tally(Dirs \ Filtered)
      BY <2>5
    <3>3. CASE e \in Dirs \ Filtered
      <4>1. entered' \ {Root} = (entered \ {Root}) \cup {e} /\ e \notin entered \ {Root}
        BY <2>4, <2>8, <3>3
      <4>2. IsFiniteSet(entered \ {Root})
        BY SomeDirsFinite DEF TypeOK
      <4> QED BY <3>1, <3>2, <3>3, <4>1, <4>2, FS_AddElement
    <3>4. CASE e \notin Dirs \ Filtered
      BY <2>8, <3>1, <3>2, <3>4
    <3> QED BY <3>3, <3>4
  <2> QED BY <2>9, <2>10, <2>11 DEF CountsRight
<1> QED BY <1>1, <1>2 DEF Next, AccessDirectory, Quiet, Sees

LEMMA CountsAgree == ASSUME CountsRight PROVE CountsAreSeen
<1> DEFINE seen == UNION {{<<d, k>> : k \in SeenIn(d)} : d \in Dirs}
<1>1. seen = Seen
  <2>1. \A d \in Dirs : SeenIn(d) \subseteq Nat
    BY Lists DEF SeenIn
  <2>2. ASSUME NEW s \in Seen PROVE s \in seen
    <3>1. s \in Dirs \X Nat /\ s[2] \in SeenIn(s[1])
      BY DEF Seen
    <3>2. s[1] \in Dirs /\ s = <<s[1], s[2]>>
      BY <3>1
    <3>3. s \in {<<s[1], k>> : k \in SeenIn(s[1])}
      BY <3>1, <3>2
    <3> QED BY <3>2, <3>3
  <2>3. ASSUME NEW s \in seen PROVE s \in Seen
    <3>1. PICK d \in Dirs : s \in {<<d, k>> : k \in SeenIn(d)}
      OBVIOUS
    <3>2. PICK k \in SeenIn(d) : s = <<d, k>>
      BY <3>1
    <3>3. k \in Nat /\ s[1] = d /\ s[2] = k
      BY <2>1, <3>2
    <3> QED BY <3>2, <3>3 DEF Seen
  <2> QED BY <2>2, <2>3
<1> HIDE DEF seen
<1>2. \A S : Tally(S) = Cardinality({s \in seen : Listing[s[1]][s[2]] \in S})
  BY <1>1 DEF Tally, EntryAt
<1> QED BY <1>2 DEF CountsAreSeen, CountsRight, seen

LEMMA CountsInit == ASSUME Init PROVE Calls /\ Found /\ CountsRight
<1>1. /\ pc = "begin" /\ entered = {} /\ stack = <<>> /\ cut = [d \in Dirs |-> Len(Listing[d]) + 1]
      /\ m_FileListtoSend = <<>> /\ m_nFoundFiles = 0 /\ m_nFiltedFiles = 0
  BY DEF Init
<1>2. Seen = {}
  BY <1>1 DEF Seen, SeenIn
<1>3. \A S : Tally(S) = 0
  BY <1>2, FS_EmptySet DEF Tally
<1>4. Calls
  BY <1>1 DEF Calls
<1>5. Found
  BY <1>1, <1>2, FS_EmptySet DEF Found
<1>6. Cardinality(entered \ {Root}) = 0
  BY <1>1, FS_EmptySet
<1> QED BY <1>1, <1>3, <1>4, <1>5, <1>6 DEF CountsRight

(***************************************************************************)
(* CountsAreSeenAlways.  In any tree, with Stops at any time: the counters *)
(* all levels of AccessDirectory share agree at every moment with the set  *)
(* of entries the calls have passed, running ones and those cut short, and *)
(* the list has as many files as were counted.                             *)
(***************************************************************************)
THEOREM CountsAreSeenAlways == Spec => []CountsAreSeen
<1> DEFINE I == Calls /\ Found /\ CountsRight
<1>1. Init => I
  BY CountsInit
<1>2. TypeOK /\ Calls => SeenRight
  BY CallsSeen
<1>3. TypeOK /\ I /\ [Next]_vars => Calls'
  BY CallsStep
<1>4. TypeOK /\ I /\ Calls' /\ SeenRight /\ SeenRight' /\ [Next]_vars => Found' /\ CountsRight'
  BY FoundStep, CountsStep
<1>5. I => CountsAreSeen
  BY CountsAgree
<1> HIDE DEF I
<1>6. TypeOK /\ I => Calls
  BY DEF I
<1>7. Calls' /\ Found' /\ CountsRight' => I'
  BY DEF I
<1> QED BY TypeCorrect, <1>1, <1>2, <1>3, <1>4, <1>5, <1>6, <1>7, PTL DEF Spec

-----------------------------------------------------------------------------
(* Below is a function on the tree. *)

\* Below, with the function and the cuts as parameters: what an entry comes
\* to, what the first n entries of d come to, and the equation.
OfEntry(g, e) ==
    IF e \in Filtered THEN <<>>
    ELSE IF e \in Files THEN <<e>>
    ELSE IF e \in Dirs THEN g[e] ELSE <<>>

Row(g, d, n) == [k \in 1..n |-> OfEntry(g, Listing[d][k])]

Upto(g, d, n) == IF d \in Unreadable THEN <<>> ELSE FlattenSeq(Row(g, d, n))

Solves(g, c) == g = [d \in Dirs |-> Upto(g, d, c[d] - 1)]

CutsFit(c) == \A d \in Dirs : c[d] \in Nat \ {0} /\ c[d] <= Len(Listing[d]) + 1

Child(d, e) == \E j \in DOMAIN Listing[d] : Listing[d][j] = e

LEMMA UptoType ==
    ASSUME NEW d \in Dirs, NEW g, \A e \in Dirs : Child(d, e) => g[e] \in Seq(Files),
           NEW n \in 0..Len(Listing[d])
    PROVE  /\ Row(g, d, n) \in Seq(Seq(Files)) /\ Len(Row(g, d, n)) = n
           /\ Upto(g, d, n) \in Seq(Files)
<1>1. n \in Nat /\ \A k \in 1..n : k \in DOMAIN Listing[d]
  BY Lists
<1>2. \A k \in 1..n : OfEntry(g, Listing[d][k]) \in Seq(Files)
  <2> TAKE k \in 1..n
  <2> DEFINE e == Listing[d][k]
  <2>1. e \in Dirs => g[e] \in Seq(Files)
    BY <1>1 DEF Child
  <2>2. <<>> \in Seq(Files) /\ (e \in Files => <<e>> \in Seq(Files))
    BY EmptySeq
  <2> QED BY <2>1, <2>2 DEF OfEntry
<1>3. Row(g, d, n) \in [1..n -> Seq(Files)]
  BY <1>2 DEF Row
<1>4. Row(g, d, n) \in Seq(Seq(Files)) /\ Len(Row(g, d, n)) = n
  BY <1>1, <1>3, FunctionIsSeq
<1> QED BY <1>4, FlattenType, EmptySeq DEF Upto

LEMMA UptoSame ==
    ASSUME NEW d \in Dirs, NEW g, NEW h, NEW n,
           d \in Unreadable \/
             \A k \in 1..n : Listing[d][k] \in Dirs \ Filtered => g[Listing[d][k]] = h[Listing[d][k]]
    PROVE  Upto(g, d, n) = Upto(h, d, n)
<1>1. CASE d \in Unreadable
  BY <1>1 DEF Upto
<1>2. CASE d \notin Unreadable
  <2>1. Row(g, d, n) = Row(h, d, n)
    BY <1>2 DEF Row, OfEntry
  <2> QED BY <2>1 DEF Upto
<1> QED BY <1>1, <1>2

LEMMA UptoNext ==
    ASSUME NEW d \in Dirs \ Unreadable, NEW g \in [Dirs -> Seq(Files)], NEW n \in Nat,
           n + 1 \in 1..Len(Listing[d])
    PROVE  /\ Upto(g, d, n + 1) = Upto(g, d, n) \o OfEntry(g, Listing[d][n + 1])
           /\ OfEntry(g, Listing[d][n + 1]) \in Seq(Files)
<1> DEFINE x == OfEntry(g, Listing[d][n + 1])
<1>1. Len(Listing[d]) \in Nat /\ n \in 0..Len(Listing[d]) /\ n + 1 \in 0..Len(Listing[d])
  BY Lists
<1>2. /\ Row(g, d, n) \in Seq(Seq(Files)) /\ Len(Row(g, d, n)) = n
      /\ Row(g, d, n + 1) \in Seq(Seq(Files)) /\ Len(Row(g, d, n + 1)) = n + 1
  BY <1>1, UptoType
<1>3. x \in Seq(Files)
  <2>1. Row(g, d, n + 1)[n + 1] = x /\ n + 1 \in 1..(n + 1)
    BY DEF Row
  <2> QED BY <1>2, <2>1, ElementOfSeq
<1> HIDE DEF x
<1>4. Row(g, d, n + 1) = Append(Row(g, d, n), x)
  <2>1. /\ Append(Row(g, d, n), x) \in Seq(Seq(Files)) /\ Len(Append(Row(g, d, n), x)) = n + 1
        /\ Append(Row(g, d, n), x)[n + 1] = x
        /\ \A i \in 1..n : Append(Row(g, d, n), x)[i] = Row(g, d, n)[i]
    BY <1>2, <1>3, AppendProperties
  <2>2. \A i \in 1..(n + 1) : Row(g, d, n + 1)[i] = Append(Row(g, d, n), x)[i]
    <3>1. \A i \in 1..n : Row(g, d, n + 1)[i] = Row(g, d, n)[i]
      BY DEF Row
    <3>2. Row(g, d, n + 1)[n + 1] = x
      BY DEF Row, x
    <3>3. \A i \in 1..(n + 1) : i \in 1..n \/ i = n + 1
      OBVIOUS
    <3> QED BY <2>1, <3>1, <3>2, <3>3
  <2> QED BY <1>2, <2>1, <2>2, SeqEqual
<1>5. FlattenSeq(Row(g, d, n + 1)) = FlattenSeq(Row(g, d, n)) \o x
  BY <1>2, <1>3, <1>4, FlattenLast
<1> QED BY <1>3, <1>5 DEF Upto, x

\* Some solution exists, built from the leaves of the tree upwards.
LEMMA SolutionExists ==
    ASSUME NEW c, CutsFit(c)
    PROVE  \E g \in [Dirs -> Seq(Files)] : Solves(g, c)
<1>1. PICK height \in [Dirs -> 0..Cardinality(Dirs)] :
        \A d, e \in Dirs : Child(d, e) => height[e] < height[d]
  BY SearchAssumption DEF Child
<1>2. Cardinality(Dirs) \in Nat /\ \A d \in Dirs : height[d] \in Nat
  <2>1. Cardinality(Dirs) \in Nat
    BY SearchAssumption, FS_CardinalityType
  <2> QED BY <2>1
<1> DEFINE Low(n) == {d \in Dirs : height[d] < n}
           N == {n \in Nat : \E g \in [Dirs -> Seq(Files)] :
                                \A d \in Low(n) : g[d] = Upto(g, d, c[d] - 1)}
<1>3. 0 \in N
  <2>1. [d \in Dirs |-> <<>>] \in [Dirs -> Seq(Files)]
    BY EmptySeq
  <2>2. Low(0) = {}
    BY <1>2
  <2> QED BY <2>1, <2>2
<1>4. ASSUME NEW n \in Nat, n \in N PROVE n + 1 \in N
  <2>1. PICK g \in [Dirs -> Seq(Files)] : \A d \in Low(n) : g[d] = Upto(g, d, c[d] - 1)
    BY <1>4
  <2> DEFINE h == [d \in Dirs |-> Upto(g, d, c[d] - 1)]
  <2>2. h \in [Dirs -> Seq(Files)]
    <3>1. \A d \in Dirs : Upto(g, d, c[d] - 1) \in Seq(Files)
      <4> TAKE d \in Dirs
      <4>1. c[d] - 1 \in 0..Len(Listing[d])
        BY Lists DEF CutsFit
      <4> QED BY <4>1, UptoType
    <3> QED BY <3>1
  <2>3. \A d \in Low(n) : h[d] = g[d]
    BY <2>1
  <2>4. ASSUME NEW d \in Low(n + 1) PROVE h[d] = Upto(h, d, c[d] - 1)
    <3>1. \A e \in Dirs : Child(d, e) => e \in Low(n)
      BY <1>1, <1>2
    <3>2. \A k \in 1..(c[d] - 1) : Child(d, Listing[d][k])
      BY Lists DEF Child, CutsFit
    <3>3. \A k \in 1..(c[d] - 1) :
             Listing[d][k] \in Dirs \ Filtered => g[Listing[d][k]] = h[Listing[d][k]]
      BY <2>3, <3>1, <3>2
    <3> HIDE DEF h
    <3>4. Upto(g, d, c[d] - 1) = Upto(h, d, c[d] - 1)
      BY <3>3, UptoSame
    <3> QED BY <3>4 DEF h
  <2> HIDE DEF h
  <2> QED BY <2>2, <2>4
<1> HIDE DEF N
<1>5. Cardinality(Dirs) + 1 \in N
  <2>1. Nat \subseteq N
    BY <1>3, <1>4, InductionOverNat
  <2> QED BY <1>2, <2>1
<1>6. PICK g \in [Dirs -> Seq(Files)] :
        \A d \in Low(Cardinality(Dirs) + 1) : g[d] = Upto(g, d, c[d] - 1)
  BY <1>5 DEF N
<1>7. \A d \in Dirs : d \in Low(Cardinality(Dirs) + 1)
  BY <1>2
<1>8. Solves(g, c)
  <2>1. g = [d \in Dirs |-> g[d]]
    OBVIOUS
  <2>2. \A d \in Dirs : g[d] = Upto(g, d, c[d] - 1)
    BY <1>6, <1>7
  <2> QED BY <2>1, <2>2 DEF Solves
<1> QED BY <1>8

\* Two solutions agree where their cuts do, on directories and all below them.
LEMMA SolutionsAgree ==
    ASSUME NEW b, NEW c, NEW g, NEW h, CutsFit(b), Solves(g, b), Solves(h, c),
           NEW D \in SUBSET Dirs,
           \A d \in D : b[d] = c[d],
           \A d \in D \ Unreadable : \A k \in 1..(b[d] - 1) :
              Listing[d][k] \in Dirs \ Filtered => Listing[d][k] \in D
    PROVE  \A d \in D : g[d] = h[d]
<1>1. PICK height \in [Dirs -> 0..Cardinality(Dirs)] :
        \A d, e \in Dirs : Child(d, e) => height[e] < height[d]
  BY SearchAssumption DEF Child
<1>2. Cardinality(Dirs) \in Nat /\ \A d \in Dirs : height[d] \in Nat
  <2>1. Cardinality(Dirs) \in Nat
    BY SearchAssumption, FS_CardinalityType
  <2> QED BY <2>1
<1> DEFINE N == {n \in Nat : \A d \in D : height[d] < n => g[d] = h[d]}
<1>3. 0 \in N
  BY <1>2
<1>4. ASSUME NEW n \in Nat, n \in N PROVE n + 1 \in N
  <2> SUFFICES ASSUME NEW d \in D, height[d] < n + 1 PROVE g[d] = h[d]
    OBVIOUS
  <2>1. \A e \in D : Child(d, e) => g[e] = h[e]
    BY <1>1, <1>2, <1>4
  <2>2. \A k \in 1..(b[d] - 1) : Child(d, Listing[d][k])
    BY Lists DEF Child, CutsFit
  <2>3. d \in Unreadable \/
          \A k \in 1..(b[d] - 1) : Listing[d][k] \in Dirs \ Filtered => g[Listing[d][k]] = h[Listing[d][k]]
    BY <2>1, <2>2
  <2>4. Upto(g, d, b[d] - 1) = Upto(h, d, b[d] - 1)
    BY <2>3, UptoSame
  <2> QED BY <2>4 DEF Solves
<1> HIDE DEF N
<1>5. Cardinality(Dirs) + 1 \in N
  <2>1. Nat \subseteq N
    BY <1>3, <1>4, InductionOverNat
  <2> QED BY <1>2, <2>1
<1> QED BY <1>2, <1>5 DEF N

LEMMA BelowIs ==
    ASSUME CutsFit(cut)
    PROVE  Below \in [Dirs -> Seq(Files)] /\ Solves(Below, cut)
<1> DEFINE Seen1(d) == IF d \in Unreadable THEN <<>> ELSE SubSeq(Listing[d], 1, cut[d] - 1)
           Body(f, d) == FlattenSeq([k \in DOMAIN Seen1(d) |-> OfEntry(f, Seen1(d)[k])])
           Eq(f) == f = [d \in Dirs |-> Body(f, d)]
<1>1. Below = CHOOSE f : Eq(f)
  BY Zenon DEF Below, OfEntry
<1>2. ASSUME NEW f, NEW d \in Dirs PROVE Body(f, d) = Upto(f, d, cut[d] - 1)
  <2>1. CASE d \in Unreadable
    <3>1. DOMAIN Seen1(d) = {}
      BY <2>1, EmptySeq
    <3>2. [k \in DOMAIN Seen1(d) |-> OfEntry(f, Seen1(d)[k])] = <<>>
      BY <3>1, EmptySeq
    <3> QED BY <2>1, <3>2, FlattenEmpty DEF Upto
  <2>2. CASE d \notin Unreadable
    <3>1. cut[d] - 1 \in 0..Len(Listing[d]) /\ Listing[d] \in Seq(Dirs \cup Files \cup {Dots})
      BY Lists DEF CutsFit
    <3>2. /\ Len(Seen1(d)) = cut[d] - 1 /\ Seen1(d) \in Seq(Dirs \cup Files \cup {Dots})
          /\ \A k \in 1..(cut[d] - 1) : Seen1(d)[k] = Listing[d][k]
      BY <2>2, <3>1, CutSeq
    <3> HIDE DEF Seen1
    <3>3. DOMAIN Seen1(d) = 1..(cut[d] - 1)
      BY <3>2, LenProperties
    <3>4. [k \in DOMAIN Seen1(d) |-> OfEntry(f, Seen1(d)[k])] = Row(f, d, cut[d] - 1)
      BY <3>2, <3>3 DEF Row
    <3> QED BY <2>2, <3>4 DEF Upto
  <2> QED BY <2>1, <2>2
<1> HIDE DEF Body
<1>3. \A f : Eq(f) <=> Solves(f, cut)
  <2> TAKE f
  <2>1. [d \in Dirs |-> Body(f, d)] = [d \in Dirs |-> Upto(f, d, cut[d] - 1)]
    BY <1>2
  <2> QED BY <2>1 DEF Solves
<1>4. PICK g \in [Dirs -> Seq(Files)] : Solves(g, cut)
  BY SolutionExists
<1>5. Solves(Below, cut)
  <2>1. Eq(g)
    BY <1>3, <1>4
  <2> HIDE DEF Eq
  <2>2. Eq(CHOOSE f : Eq(f))
    BY <2>1
  <2>3. Eq(Below)
    BY <1>1, <2>2
  <2> QED BY <1>3, <2>3
<1>6. \A d \in Dirs : Below[d] = g[d]
  <2>1. \A d \in Dirs \ Unreadable : \A k \in 1..(cut[d] - 1) :
           Listing[d][k] \in Dirs \ Filtered => Listing[d][k] \in Dirs
    OBVIOUS
  <2> QED BY <1>4, <1>5, <2>1, SolutionsAgree
<1>7. Below = [d \in Dirs |-> Below[d]]
  BY <1>5 DEF Solves
<1> QED BY <1>5, <1>6, <1>7

-----------------------------------------------------------------------------
(* The calls form a path from Root. *)

\* Each call was made at the entry before its caller's next one.
Chain ==
    /\ stack # <<>> => stack[1].dir = Root
    /\ \A i \in 1..(Len(stack) - 1) :
          /\ stack[i].dir \notin Unreadable
          /\ stack[i].next - 1 \in 1..Len(Listing[stack[i].dir])
          /\ Listing[stack[i].dir][stack[i].next - 1] = stack[i + 1].dir
          /\ stack[i + 1].dir \in Dirs \ Filtered

\* A call was made for every directory seen and kept.
KeptEntered ==
    /\ \A s \in Seen : EntryAt(s) \in Dirs \ Filtered => EntryAt(s) \in entered
    /\ pc # "begin" => Root \in entered

Finished == {d \in entered : \A i \in 1..Len(stack) : stack[i].dir # d}

LEMMA CutsStep == ASSUME TypeOK, CutsFit(cut), [Next]_vars PROVE CutsFit(cut)'
<1>1. CASE TakeStop
  <2>1. /\ Top.dir \in Dirs /\ Top.next \in Nat \ {0} /\ Top.next <= Len(Listing[Top.dir])
        /\ cut' = [cut EXCEPT ![Top.dir] = Top.next] /\ Len(Listing[Top.dir]) \in Nat
    BY <1>1, TopType, Lists DEF TakeStop, bWorking, Frame
  <2>2. \A d \in Dirs : cut'[d] = IF d = Top.dir THEN Top.next ELSE cut[d]
    BY <2>1 DEF TypeOK
  <2> QED BY <2>1, <2>2 DEF CutsFit
<1>2. CASE ~TakeStop
  <2>1. cut' = cut
    BY <1>2 DEF Next, AccessDirectory, FindFiles, SkipDots, LeaveOut, EnterDirectory, ListFile, Return,
       WalkEnds, SetStop, vars
  <2> QED BY <2>1 DEF CutsFit
<1> QED BY <1>1, <1>2

LEMMA ChainStep == ASSUME TypeOK, Calls, Found, Chain, [Next]_vars PROVE Chain'
<1>1. CASE FindFiles
  <2>1. Len(stack') = 1 /\ stack'[1] = Call(Root) /\ Root \in Dirs
    BY <1>1, SearchAssumption DEF FindFiles
  <2> QED BY <2>1, CallIs DEF Chain
<1>2. CASE TakeStop \/ Return
  <2>1. stack # <<>> /\ stack' = Front(stack)
    BY <1>2 DEF TakeStop, OneCallEnds, bWorking, Return
  <2>2. /\ Len(stack') = Len(stack) - 1 /\ \A i \in 1..(Len(stack) - 1) : stack'[i] = stack[i]
        /\ Len(stack) \in Nat \ {0} /\ stack' \in Seq(Frame)
    BY <2>1, FrontIs, StackIs
  <2>3. stack' # <<>> => Len(stack') # 0
    BY <2>2, EmptySeq
  <2>4. \A i \in 1..(Len(stack') - 1) : stack'[i] = stack[i] /\ stack'[i + 1] = stack[i + 1]
    BY <2>2
  <2>5. stack' # <<>> => stack'[1] = stack[1]
    BY <2>2, <2>3
  <2> QED BY <2>1, <2>2, <2>4, <2>5 DEF Chain
<1>3. CASE Sees
  <2>1. bWorking
    BY <1>3 DEF Sees, SkipDots, LeaveOut, ListFile, EnterDirectory
  <2>2. /\ Len(stack) \in Nat \ {0} /\ Top = stack[Len(stack)] /\ Top.dir \in Dirs \ Unreadable
        /\ Top.next \in 1..Len(Listing[Top.dir]) /\ Len(Listing[Top.dir]) \in Nat
    BY <2>1, AtEntry, Lists
  <2>3. /\ Len(Advance) = Len(stack) /\ Advance \in Seq(Frame)
        /\ \A i \in 1..Len(stack) : i # Len(stack) => Advance[i] = stack[i]
        /\ Advance[Len(stack)].dir = Top.dir /\ Advance[Len(stack)].next = Top.next + 1
    BY <2>1, AdvanceIs
  <2> DEFINE n == Len(stack)
  <2>4. \A i \in 1..n : Advance[i].dir = stack[i].dir /\ (i # n => Advance[i].next = stack[i].next)
    BY <2>2, <2>3
  <2>5. n \in Nat \ {0} /\ stack[1].dir = Root
    BY <2>2, StackIs DEF Chain
  <2>6. CASE ~EnterDirectory
    <3>1. stack' = Advance
      BY <1>3, <2>6 DEF Sees, SkipDots, LeaveOut, ListFile
    <3>2. \A i \in 1..(n - 1) : /\ stack'[i].dir = stack[i].dir /\ stack'[i + 1].dir = stack[i + 1].dir
                                /\ stack'[i].next = stack[i].next
      BY <2>4, <2>5, <3>1
    <3>3. Len(stack') = n /\ stack'[1].dir = Root
      BY <2>3, <2>4, <2>5, <3>1
    <3> QED BY <3>2, <3>3 DEF Chain
  <2>7. CASE EnterDirectory
    <3>1. stack' = Append(Advance, Call(Current)) /\ Current \in Dirs \ Filtered
      BY <2>7 DEF EnterDirectory, KeptDirectory
    <3>2. Call(Current) \in Frame /\ Call(Current).dir = Current
      BY <3>1, CallIs
    <3>3. /\ Len(stack') = n + 1 /\ stack'[n + 1] = Call(Current)
          /\ \A i \in 1..n : stack'[i] = Advance[i]
      BY <2>3, <3>1, <3>2, AppendProperties
    <3>4. PICK t \in Dirs \ Unreadable, m \in Nat, e \in Dirs \ Filtered :
            /\ t = Top.dir /\ m = Top.next /\ e = Current
            /\ m \in 1..Len(Listing[t]) /\ Listing[t][m] = e
      BY <2>2, <3>1 DEF Current
    <3>5. /\ stack'[n].dir = t /\ stack'[n].next - 1 = m /\ stack'[n + 1].dir = e
      BY <2>2, <2>3, <3>2, <3>3, <3>4
    <3>6. \A i \in 1..(n - 1) : /\ stack'[i].dir = stack[i].dir /\ stack'[i + 1].dir = stack[i + 1].dir
                                /\ stack'[i].next = stack[i].next
      BY <2>4, <2>5, <3>3
    <3>7. \A i \in 1..n : i \in 1..(n - 1) \/ i = n
      BY <2>5
    <3>8. \A i \in 1..n :
              /\ stack'[i].dir \notin Unreadable
              /\ stack'[i].next - 1 \in 1..Len(Listing[stack'[i].dir])
              /\ Listing[stack'[i].dir][stack'[i].next - 1] = stack'[i + 1].dir
              /\ stack'[i + 1].dir \in Dirs \ Filtered
      <4>1. ASSUME NEW i \in 1..(n - 1)
            PROVE  /\ stack[i].dir \notin Unreadable
                   /\ stack[i].next - 1 \in 1..Len(Listing[stack[i].dir])
                   /\ Listing[stack[i].dir][stack[i].next - 1] = stack[i + 1].dir
                   /\ stack[i + 1].dir \in Dirs \ Filtered
        BY DEF Chain
      <4> HIDE DEF n
      <4> QED BY <3>4, <3>5, <3>6, <3>7, <4>1
    <3>9. stack'[1].dir = Root /\ Len(stack') - 1 = n
      BY <2>4, <2>5, <3>3
    <3> QED BY <3>8, <3>9 DEF Chain
  <2> QED BY <2>6, <2>7
<1>4. CASE WalkEnds \/ SetStop \/ UNCHANGED vars
  <2>1. stack' = stack
    BY <1>4 DEF WalkEnds, SetStop, vars
  <2> QED BY <2>1 DEF Chain
<1> QED BY <1>1, <1>2, <1>3, <1>4 DEF Next, AccessDirectory, Sees

LEMMA KeptStep ==
    ASSUME TypeOK, Calls, Calls', SeenRight, SeenRight', Found, KeptEntered, [Next]_vars
    PROVE  KeptEntered'
<1>1. CASE Quiet
  <2>1. Seen' = Seen
    BY <1>1, NothingSeen DEF Quiet
  <2>2. entered \subseteq entered' /\ (pc # "begin" \/ Root \in entered' \/ pc' = "begin")
    BY <1>1 DEF Quiet, FindFiles, TakeStop, Return, WalkEnds, SetStop, vars, Calls
  <2> QED BY <2>1, <2>2 DEF KeptEntered, EntryAt
<1>2. CASE Sees
  <2>1. bWorking /\ Seen' = Seen \cup {<<Top.dir, Top.next>>}
    BY <1>2, OneMoreSeen DEF Sees
  <2>2. EntryAt(<<Top.dir, Top.next>>) = Current
    BY <2>1, AtEntry
  <2>3. entered \subseteq entered' /\ pc # "begin"
    BY <1>2, <2>1 DEF Sees, SkipDots, LeaveOut, ListFile, EnterDirectory, bWorking
  <2>4. Current \in Dirs \ Filtered => Current \in entered'
    BY <1>2, SearchAssumption DEF Sees, SkipDots, LeaveOut, ListFile, EnterDirectory
  <2> QED BY <2>1, <2>2, <2>3, <2>4 DEF KeptEntered, EntryAt
<1> QED BY <1>1, <1>2 DEF Next, AccessDirectory, Quiet, Sees

\* A running call's directory is known by its place in its caller's listing.
LEMMA CallerIs ==
    ASSUME TypeOK, Chain, NEW d \in Dirs, NEW k \in 1..Len(Listing[d]), NEW j \in 1..Len(stack),
           Listing[d][k] = stack[j].dir
    PROVE  j - 1 \in 1..(Len(stack) - 1) /\ stack[j - 1].dir = d /\ stack[j - 1].next - 1 = k
<1>1. /\ Len(stack) \in Nat \ {0} /\ stack[j].dir \in Dirs /\ k \in DOMAIN Listing[d]
      /\ stack # <<>> /\ Dots \notin Dirs
  BY StackIs, Lists, SearchAssumption
<1>2. j # 1
  <2>1. Listing[d][k] # Root
    BY <1>1, SearchAssumption
  <2> QED BY <1>1, <2>1 DEF Chain
<1> DEFINE i == j - 1
           e == stack[i].dir
           m == stack[i].next - 1
<1>3. i \in 1..(Len(stack) - 1) /\ i \in 1..Len(stack) /\ i + 1 = j
  BY <1>1, <1>2
<1>4. e \in Dirs /\ m \in 1..Len(Listing[e]) /\ Listing[e][m] = stack[j].dir
  <2> HIDE DEF i
  <2> QED BY <1>3, StackIs DEF Chain
<1>5. m \in DOMAIN Listing[e]
  BY <1>4, Lists
<1> HIDE DEF i, e, m
<1>6. <<d, k>> = <<e, m>>
  BY <1>1, <1>4, <1>5, SearchAssumption
<1> QED BY <1>3, <1>6 DEF i, e, m

\* Below what is finished, and before the entry a running call is at, all is finished.
LEMMA FinishedClosed ==
    ASSUME TypeOK, Calls, Chain, SeenRight, KeptEntered, CutsFit(cut)
    PROVE  /\ \A d \in Finished \ Unreadable : \A k \in 1..(cut[d] - 1) :
                 Listing[d][k] \in Dirs \ Filtered => Listing[d][k] \in Finished
           /\ \A i \in 1..Len(stack) : stack[i].dir \notin Unreadable =>
                 \A k \in 1..(stack[i].next - (IF i = Len(stack) THEN 1 ELSE 2)) :
                    Listing[stack[i].dir][k] \in Dirs \ Filtered =>
                       Listing[stack[i].dir][k] \in Finished
<1>0. /\ Len(stack) \in Nat
      /\ \A i \in 1..Len(stack) : stack[i].dir \in Dirs /\ stack[i].next \in Nat \ {0}
      /\ \A d \in Dirs : Len(Listing[d]) \in Nat
  BY StackIs, Lists
<1>1. ASSUME NEW d \in Dirs, NEW k \in SeenIn(d), Listing[d][k] \in Dirs \ Filtered
      PROVE  Listing[d][k] \in entered /\ k \in 1..Len(Listing[d])
  <2>1. k \in Nat /\ k \in 1..Len(Listing[d])
    BY DEF SeenRight
  <2>2. <<d, k>> \in Seen /\ EntryAt(<<d, k>>) = Listing[d][k]
    BY <2>1 DEF Seen, EntryAt
  <2> QED BY <1>1, <2>1, <2>2 DEF KeptEntered
<1>2. ASSUME NEW d \in Finished \ Unreadable, NEW k \in 1..(cut[d] - 1), Listing[d][k] \in Dirs \ Filtered
      PROVE  Listing[d][k] \in Finished
  <2>1. d \in Dirs /\ d \in entered /\ \A i \in 1..Len(stack) : stack[i].dir # d
    BY DEF Finished, TypeOK
  <2>2. k \in SeenIn(d)
    <3>1. k \in 1..Len(Listing[d]) /\ k < cut[d]
      BY <1>0, <2>1 DEF CutsFit
    <3> QED BY <2>1, <3>1 DEF SeenRight
  <2>3. Listing[d][k] \in entered /\ k \in 1..Len(Listing[d])
    BY <1>1, <1>2, <2>1, <2>2
  <2>4. ASSUME NEW j \in 1..Len(stack), stack[j].dir = Listing[d][k] PROVE FALSE
    <3>1. j - 1 \in 1..(Len(stack) - 1) /\ stack[j - 1].dir = d
      BY <2>1, <2>3, <2>4, CallerIs
    <3>2. j - 1 \in 1..Len(stack)
      BY <1>0, <3>1
    <3> QED BY <2>1, <3>1, <3>2
  <2> QED BY <2>3, <2>4 DEF Finished
<1>3. ASSUME NEW i \in 1..Len(stack), stack[i].dir \notin Unreadable,
             NEW k \in 1..(stack[i].next - (IF i = Len(stack) THEN 1 ELSE 2)),
             Listing[stack[i].dir][k] \in Dirs \ Filtered
      PROVE  Listing[stack[i].dir][k] \in Finished
  <2>1. stack[i].dir \in Dirs /\ k \in 1..(stack[i].next - 1) /\ k \in SeenIn(stack[i].dir)
    BY <1>0, <1>3 DEF SeenRight
  <2>2. Listing[stack[i].dir][k] \in entered /\ k \in 1..Len(Listing[stack[i].dir])
    BY <1>1, <1>3, <2>1
  <2>3. ASSUME NEW j \in 1..Len(stack), stack[j].dir = Listing[stack[i].dir][k] PROVE FALSE
    <3>1. /\ j - 1 \in 1..(Len(stack) - 1) /\ stack[j - 1].dir = stack[i].dir
          /\ stack[j - 1].next - 1 = k
      BY <2>1, <2>2, <2>3, CallerIs
    <3>2. j - 1 = i
      <4>1. j - 1 \in 1..Len(stack)
        BY <1>0, <3>1
      <4> QED BY <3>1, <4>1 DEF Calls
    <3>3. i # Len(stack) /\ stack[i].next - 1 = k
      BY <1>0, <3>1, <3>2
    <3>4. k \in 1..(stack[i].next - 2)
      BY <3>3
    <3> QED BY <1>0, <3>3, <3>4
  <2> QED BY <2>2, <2>3 DEF Finished
<1> QED BY <1>2, <1>3

-----------------------------------------------------------------------------
(* The list. *)

\* What the first m calls have come to, without the calls they are waiting for.
Above(g, st, m) == [i \in 1..m |-> Upto(g, st[i].dir, st[i].next - 2)]

LEMMA AboveType ==
    ASSUME NEW g \in [Dirs -> Seq(Files)], NEW st, NEW m \in Nat,
           \A i \in 1..m : st[i].dir \in Dirs /\ st[i].next - 2 \in 0..Len(Listing[st[i].dir])
    PROVE  /\ Above(g, st, m) \in Seq(Seq(Files)) /\ Len(Above(g, st, m)) = m
           /\ FlattenSeq(Above(g, st, m)) \in Seq(Files)
<1>1. \A i \in 1..m : Upto(g, st[i].dir, st[i].next - 2) \in Seq(Files)
  <2> TAKE i \in 1..m
  <2>1. PICK d, n : d \in Dirs /\ n \in 0..Len(Listing[d]) /\ d = st[i].dir /\ n = st[i].next - 2
    OBVIOUS
  <2>2. Upto(g, d, n) \in Seq(Files)
    BY <2>1, UptoType
  <2> QED BY <2>1, <2>2
<1>2. Above(g, st, m) \in [1..m -> Seq(Files)]
  BY <1>1 DEF Above
<1> QED BY <1>2, FunctionIsSeq, FlattenType

LEMMA AboveNext ==
    ASSUME NEW g \in [Dirs -> Seq(Files)], NEW st, NEW m \in Nat,
           \A i \in 1..(m + 1) : st[i].dir \in Dirs /\ st[i].next - 2 \in 0..Len(Listing[st[i].dir])
    PROVE  /\ FlattenSeq(Above(g, st, m + 1)) =
                FlattenSeq(Above(g, st, m)) \o Upto(g, st[m + 1].dir, st[m + 1].next - 2)
           /\ Upto(g, st[m + 1].dir, st[m + 1].next - 2) \in Seq(Files)
<1> DEFINE x == Upto(g, st[m + 1].dir, st[m + 1].next - 2)
           a == Above(g, st, m)
           b == Above(g, st, m + 1)
<1>1. /\ a \in Seq(Seq(Files)) /\ Len(a) = m
      /\ b \in Seq(Seq(Files)) /\ Len(b) = m + 1
  <2>1. \A i \in 1..m : i \in 1..(m + 1)
    OBVIOUS
  <2>2. m + 1 \in Nat
    OBVIOUS
  <2> QED BY <2>1, <2>2, AboveType
<1>2. b[m + 1] = x /\ x \in Seq(Files) /\ \A i \in 1..m : b[i] = a[i]
  <2>1. b[m + 1] = x /\ \A i \in 1..m : b[i] = a[i]
    BY DEF Above
  <2>2. m + 1 \in 1..(m + 1)
    OBVIOUS
  <2> HIDE DEF a, b, x
  <2> QED BY <1>1, <2>1, <2>2, ElementOfSeq
<1> HIDE DEF a, b, x
<1>3. b = Append(a, x)
  <2>1. /\ Append(a, x) \in Seq(Seq(Files)) /\ Len(Append(a, x)) = m + 1
        /\ Append(a, x)[m + 1] = x
        /\ \A i \in 1..m : Append(a, x)[i] = a[i]
    BY <1>1, <1>2, AppendProperties
  <2>2. \A i \in 1..(m + 1) : i \in 1..m \/ i = m + 1
    OBVIOUS
  <2>3. \A i \in 1..(m + 1) : b[i] = Append(a, x)[i]
    BY <1>2, <2>1, <2>2
  <2> QED BY <1>1, <2>1, <2>3, SeqEqual
<1>4. FlattenSeq(b) = FlattenSeq(a) \o x
  BY <1>1, <1>2, <1>3, FlattenLast
<1> QED BY <1>2, <1>4 DEF a, b, x

LEMMA AboveSame ==
    ASSUME NEW g, NEW h, NEW st, NEW tt, NEW m \in Nat,
           \A i \in 1..m : /\ st[i].dir = tt[i].dir /\ st[i].next = tt[i].next
                           /\ Upto(g, st[i].dir, st[i].next - 2) = Upto(h, st[i].dir, st[i].next - 2)
    PROVE  Above(g, st, m) = Above(h, tt, m)
BY DEF Above

\* The list so far, with Below as a parameter.
Comes(g) ==
    /\ pc = "begin" => m_FileListtoSend = <<>>
    /\ pc # "begin" /\ stack = <<>> => m_FileListtoSend = g[Root]
    /\ stack # <<>> => m_FileListtoSend =
          FlattenSeq(Above(g, stack, Len(stack) - 1)) \o Upto(g, Top.dir, Top.next - 1)

LEMMA LevelsFit ==
    ASSUME TypeOK, Calls, Chain, stack # <<>>
    PROVE  /\ Len(stack) \in Nat \ {0} /\ Top = stack[Len(stack)] /\ Top.dir \in Dirs
           /\ Top.next \in Nat \ {0} /\ Top.next - 1 \in 0..Len(Listing[Top.dir])
           /\ \A i \in 1..(Len(stack) - 1) :
                 /\ stack[i].dir \in Dirs \ Unreadable
                 /\ stack[i].next - 1 \in 1..Len(Listing[stack[i].dir])
                 /\ stack[i].next - 2 \in 0..Len(Listing[stack[i].dir])
<1>1. /\ Len(stack) \in Nat \ {0} /\ Top = stack[Len(stack)]
      /\ \A i \in 1..Len(stack) : stack[i].dir \in Dirs /\ stack[i].next \in Nat \ {0}
      /\ \A d \in Dirs : Len(Listing[d]) \in Nat
  BY StackIs, Lists
<1>2. Top.next - 1 \in 0..Len(Listing[Top.dir])
  BY <1>1 DEF Calls
<1>3. ASSUME NEW i \in 1..(Len(stack) - 1)
      PROVE  /\ stack[i].dir \in Dirs \ Unreadable
             /\ stack[i].next - 1 \in 1..Len(Listing[stack[i].dir])
             /\ stack[i].next - 2 \in 0..Len(Listing[stack[i].dir])
  <2>1. i \in 1..Len(stack)
    BY <1>1
  <2>2. stack[i].dir \notin Unreadable /\ stack[i].next - 1 \in 1..Len(Listing[stack[i].dir])
    BY DEF Chain
  <2> QED BY <1>1, <2>1, <2>2
<1> QED BY <1>1, <1>2, <1>3

\* A call ends: what it came to is now part of what its caller came to.
LEMMA ComesAtEnd ==
    ASSUME TypeOK, Calls, Chain, SeenRight, KeptEntered, CutsFit(cut), CutsFit(cut'),
           NEW g, NEW h, g \in [Dirs -> Seq(Files)], h \in [Dirs -> Seq(Files)],
           Solves(g, cut), Solves(h, cut'), Comes(g), TakeStop \/ Return
    PROVE  Comes(h)'
<1>1. /\ stack # <<>> /\ stack' = Front(stack) /\ m_FileListtoSend' = m_FileListtoSend
      /\ pc' # "begin"
  BY DEF TakeStop, OneCallEnds, bWorking, Return
<1>2. /\ Len(stack) \in Nat \ {0} /\ Top = stack[Len(stack)] /\ Top.dir \in Dirs
      /\ Top.next \in Nat \ {0} /\ Top.next - 1 \in 0..Len(Listing[Top.dir])
      /\ \A i \in 1..(Len(stack) - 1) :
            /\ stack[i].dir \in Dirs \ Unreadable
            /\ stack[i].next - 1 \in 1..Len(Listing[stack[i].dir])
            /\ stack[i].next - 2 \in 0..Len(Listing[stack[i].dir])
  BY <1>1, LevelsFit
<1>3. /\ Len(stack') = Len(stack) - 1 /\ stack' \in Seq(Frame)
      /\ \A i \in 1..(Len(stack) - 1) : stack'[i] = stack[i]
  BY <1>1, FrontIs
<1>k. PICK n \in Nat \ {0} : n = Len(stack)
  BY <1>2
<1>n. n = Len(stack) /\ Len(stack) \in Nat \ {0} /\ n \in Nat \ {0}
  BY <1>k
<1>4. PICK d \in Dirs, m \in Nat \ {0} : d = Top.dir /\ m = Top.next
  BY <1>2
<1>5. cut'[d] = m /\ \A e \in Dirs : e # d => cut'[e] = cut[e]
  <2>1. CASE TakeStop
    BY <1>4, <2>1 DEF TakeStop, TypeOK
  <2>2. CASE Return
    <3>1. cut' = cut /\ ~(m <= Len(Listing[d])) /\ Len(Listing[d]) \in Nat
      BY <1>4, <2>2, Lists DEF Return, bWorking
    <3>2. cut[d] = Len(Listing[d]) + 1 /\ m <= Len(Listing[d]) + 1
      BY <1>2, <1>4 DEF Calls
    <3> QED BY <3>1, <3>2
  <2> QED BY <2>1, <2>2
<1>6. \A e \in Finished : g[e] = h[e]
  <2>1. Finished \in SUBSET Dirs /\ d \notin Finished
    BY <1>2, <1>4 DEF Finished, TypeOK
  <2>2. \A e \in Finished : cut[e] = cut'[e]
    BY <1>5, <2>1
  <2>3. \A e \in Finished \ Unreadable : \A k \in 1..(cut[e] - 1) :
           Listing[e][k] \in Dirs \ Filtered => Listing[e][k] \in Finished
    BY FinishedClosed
  <2> HIDE DEF Finished
  <2>4. PICK b, c, D : b = cut /\ c = cut' /\ D = Finished
    OBVIOUS
  <2>5. /\ CutsFit(b) /\ Solves(g, b) /\ Solves(h, c)
        /\ D \in SUBSET Dirs /\ \A e \in D : b[e] = c[e]
    BY <2>1, <2>2, <2>4
  <2>6. \A e \in D \ Unreadable : \A k \in 1..(b[e] - 1) :
           Listing[e][k] \in Dirs \ Filtered => Listing[e][k] \in D
    BY <2>3, <2>4
  <2>7. \A e \in D : g[e] = h[e]
    BY ONLY <2>5, <2>6, SolutionsAgree
  <2> QED BY <2>4, <2>7
<1>7. Upto(g, d, m - 1) = Upto(h, d, m - 1)
  <2>1. d \in Unreadable \/
          \A k \in 1..(m - 1) : Listing[d][k] \in Dirs \ Filtered => Listing[d][k] \in Finished
    BY <1>2, <1>4, FinishedClosed
  <2> QED BY <1>6, <2>1, UptoSame
<1>8. ASSUME NEW i \in 1..(n - 1)
      PROVE  Upto(g, stack[i].dir, stack[i].next - 2) = Upto(h, stack[i].dir, stack[i].next - 2)
  <2>1. i \in 1..Len(stack) /\ i # Len(stack)
    BY <1>n
  <2>2. stack[i].dir \in Dirs \ Unreadable
    BY <1>2, <1>n
  <2>3. \A k \in 1..(stack[i].next - 2) :
           Listing[stack[i].dir][k] \in Dirs \ Filtered => Listing[stack[i].dir][k] \in Finished
    BY <2>1, <2>2, FinishedClosed
  <2>4. \A k \in 1..(stack[i].next - 2) :
           Listing[stack[i].dir][k] \in Dirs \ Filtered => g[Listing[stack[i].dir][k]] = h[Listing[stack[i].dir][k]]
    BY <1>6, <2>3
  <2>5. PICK e \in Dirs, k \in Int : e = stack[i].dir /\ k = stack[i].next - 2
    <3>1. stack[i].next \in Nat
      BY <2>1, StackIs
    <3> QED BY ONLY <2>2, <3>1
  <2>6. \A j \in 1..k : Listing[e][j] \in Dirs \ Filtered => g[Listing[e][j]] = h[Listing[e][j]]
    BY <2>4, <2>5
  <2>7. Upto(g, e, k) = Upto(h, e, k)
    BY ONLY e \in Dirs, <2>6, UptoSame
  <2> QED BY <2>5, <2>7
<1>9. h[d] = Upto(g, d, m - 1) /\ h[d] \in Seq(Files)
  BY <1>5, <1>7 DEF Solves
<1>10. m_FileListtoSend = FlattenSeq(Above(g, stack, n - 1)) \o h[d]
  BY <1>1, <1>4, <1>9, <1>n DEF Comes
<1>11. CASE n = 1
  <2>1. d = Root
    BY <1>1, <1>2, <1>4, <1>11, <1>n DEF Chain
  <2>2. Above(g, stack, n - 1) = <<>>
    <3>1. n - 1 = 0
      BY <1>11
    <3>2. Above(g, stack, 0) \in Seq(Seq(Files)) /\ Len(Above(g, stack, 0)) = 0
      BY AboveType
    <3> QED BY <3>1, <3>2, EmptySeq
  <2>3. m_FileListtoSend = h[Root]
    BY <1>9, <1>10, <2>1, <2>2, FlattenEmpty, ConcatEmptySeq
  <2>4. stack' = <<>>
    <3>0. Len(stack') = Len(stack) - 1
      BY <1>3
    <3>1. Len(stack') = 0
      BY ONLY <1>11, <1>n, <3>0
    <3> QED BY <1>3, <3>1, EmptySeq
  <2> QED BY <1>1, <2>3, <2>4 DEF Comes
<1>12. CASE n # 1
  <2>1. PICK j \in Nat : j = n - 2
    BY <1>12
  <2>2. j + 1 = n - 1 /\ j + 1 \in 1..(n - 1) /\ \A i \in 1..(j + 1) : i \in 1..(n - 1)
    BY <2>1
  <2>3. PICK q \in Dirs \ Unreadable, r \in Nat :
          /\ q = stack[j + 1].dir /\ r = stack[j + 1].next - 2
          /\ r \in 0..Len(Listing[q]) /\ r + 1 \in 1..Len(Listing[q])
    <3>1. /\ stack[j + 1].dir \in Dirs \ Unreadable /\ stack[j + 1].next \in Nat
          /\ stack[j + 1].next - 1 \in 1..Len(Listing[stack[j + 1].dir])
          /\ stack[j + 1].next - 2 \in 0..Len(Listing[stack[j + 1].dir])
      <4>1. j + 1 \in 1..(Len(stack) - 1) /\ j + 1 \in 1..Len(stack)
        BY <1>n, <2>2
      <4>2. stack[j + 1].next \in Nat
        BY <4>1, StackIs
      <4>3. /\ stack[j + 1].dir \in Dirs \ Unreadable
            /\ stack[j + 1].next - 1 \in 1..Len(Listing[stack[j + 1].dir])
            /\ stack[j + 1].next - 2 \in 0..Len(Listing[stack[j + 1].dir])
        BY <1>2, <4>1
      <4> QED BY ONLY <4>2, <4>3
    <3> QED BY ONLY <3>1
  <2>4. Listing[q][r + 1] = d /\ d \in Dirs \ Filtered
    <3>1. /\ Listing[stack[j + 1].dir][stack[j + 1].next - 1] = stack[(j + 1) + 1].dir
          /\ stack[(j + 1) + 1].dir \in Dirs \ Filtered
      BY <1>n, <2>2 DEF Chain
    <3>2. (j + 1) + 1 = n /\ stack[j + 1].next - 1 = r + 1
      <4>1. stack[j + 1].next \in Nat
        BY <1>2, <1>n, <2>2, StackIs
      <4> QED BY <2>1, <2>3, <4>1
    <3> QED BY <1>2, <1>4, <1>n, <2>3, <3>1, <3>2
  <2>5. Upto(h, q, r + 1) = Upto(h, q, r) \o h[d] /\ Upto(h, q, r) \in Seq(Files)
    <3>1. OfEntry(h, d) = h[d]
      BY <2>4, SearchAssumption DEF OfEntry
    <3>2. Upto(h, q, r) \in Seq(Files)
      BY <2>3, UptoType
    <3>3. Upto(h, q, r + 1) = Upto(h, q, r) \o OfEntry(h, Listing[q][r + 1])
      BY <2>3, UptoNext
    <3> QED BY <2>4, <3>1, <3>2, <3>3
  <2>6. FlattenSeq(Above(g, stack, j + 1)) = FlattenSeq(Above(g, stack, j)) \o Upto(g, q, r)
    BY <1>2, <1>n, <2>2, <2>3, AboveNext
  <2>7. Upto(g, q, r) = Upto(h, q, r)
    BY <1>8, <2>2, <2>3
  <2>8. Above(g, stack, j) = Above(h, stack', j)
    <3>1. \A i \in 1..j : i \in 1..(n - 1)
      BY <2>2
    <3>2. \A i \in 1..j : /\ stack[i].dir = stack'[i].dir /\ stack[i].next = stack'[i].next
                          /\ Upto(g, stack[i].dir, stack[i].next - 2)
                               = Upto(h, stack[i].dir, stack[i].next - 2)
      BY <1>3, <1>8, <1>n, <3>1
    <3> QED BY <3>2, AboveSame
  <2>9. FlattenSeq(Above(g, stack, j)) \in Seq(Files)
    <3>1. \A i \in 1..j : i \in 1..(n - 1)
      BY <2>2
    <3> QED BY <1>2, <1>n, <3>1, AboveType
  <2>10. m_FileListtoSend = FlattenSeq(Above(h, stack', j)) \o Upto(h, q, r + 1)
    <3>1. m_FileListtoSend = (FlattenSeq(Above(h, stack', j)) \o Upto(h, q, r)) \o h[d]
      BY <1>10, <2>2, <2>6, <2>7, <2>8
    <3>2. FlattenSeq(Above(h, stack', j)) \in Seq(Files)
      BY <2>8, <2>9
    <3>3. PICK u, v, w : /\ u = FlattenSeq(Above(h, stack', j)) /\ v = Upto(h, q, r) /\ w = h[d]
      OBVIOUS
    <3>4. u \in Seq(Files) /\ v \in Seq(Files) /\ w \in Seq(Files)
      BY <1>9, <2>5, <3>2, <3>3
    <3>5. Regroups(u, v, w)
      BY ONLY <3>4, RegroupsAlways
    <3>6. (u \o v) \o w = u \o (v \o w)
      BY <3>5 DEF Regroups
    <3> QED BY <2>5, <3>1, <3>3, <3>6
  <2>11. /\ stack' # <<>> /\ Len(stack') - 1 = j
         /\ Top' = stack'[j + 1] /\ Top'.dir = q /\ Top'.next - 1 = r + 1
    <3>1. Len(stack') = j + 1 /\ stack'[j + 1] = stack[j + 1]
      BY <1>3, <1>n, <2>2
    <3>2. stack[j + 1].next \in Nat
      BY <1>2, <1>n, <2>2, StackIs
    <3>3. Top' = stack'[Len(stack')]
      BY DEF Top, Last
    <3> QED BY <2>3, <3>1, <3>2, <3>3, EmptySeq
  <2> QED BY <1>1, <2>10, <2>11 DEF Comes
<1> QED BY <1>11, <1>12

LEMMA CallComesToNothing ==
    ASSUME NEW g, NEW d \in Dirs
    PROVE  Upto(g, d, Call(d).next - 1) = <<>>
<1>1. CASE d \in Unreadable
  BY <1>1 DEF Upto
<1>2. CASE d \notin Unreadable
  <2>1. Call(d).next - 1 = 0
    BY <1>2, CallIs
  <2>2. Row(g, d, 0) = <<>>
    <3>1. Row(g, d, 0) \in [1..0 -> {}]
      BY DEF Row
    <3>2. Row(g, d, 0) \in Seq({}) /\ Len(Row(g, d, 0)) = 0
      BY ONLY <3>1, FunctionIsSeq
    <3> QED BY <3>2, EmptySeq
  <2> QED BY <1>2, <2>1, <2>2, FlattenEmpty DEF Upto
<1> QED BY <1>1, <1>2

LEMMA NothingAbove == ASSUME NEW g, NEW st PROVE FlattenSeq(Above(g, st, 0)) = <<>>
<1>1. Above(g, st, 0) \in [1..0 -> {}]
  BY DEF Above
<1>2. Above(g, st, 0) \in Seq({}) /\ Len(Above(g, st, 0)) = 0
  BY ONLY <1>1, FunctionIsSeq
<1> QED BY <1>2, EmptySeq, FlattenEmpty

\* An entry is passed: what it comes to is put behind the list, now or when its call ends.
LEMMA ComesAtEntry ==
    ASSUME TypeOK, Calls, Found, Chain, NEW g, g \in [Dirs -> Seq(Files)], Comes(g), Sees
    PROVE  Comes(g)'
<1>1. bWorking /\ pc' # "begin"
  BY DEF Sees, SkipDots, LeaveOut, ListFile, EnterDirectory, bWorking
<1>2. /\ stack # <<>> /\ Len(stack) \in Nat \ {0} /\ Top = stack[Len(stack)]
      /\ Top.dir \in Dirs \ Unreadable /\ Top.next \in 1..Len(Listing[Top.dir])
      /\ Len(Listing[Top.dir]) \in Nat
  BY <1>1, AtEntry, Lists DEF bWorking
<1>3. PICK n \in Nat \ {0}, d \in Dirs \ Unreadable, m \in Nat \ {0}, e \in {Current} :
         n = Len(stack) /\ d = Top.dir /\ m = Top.next /\ e = Current
  BY <1>2
<1>4. /\ n = Len(stack) /\ Len(stack) \in Nat \ {0} /\ n \in Nat \ {0}
      /\ m \in 1..Len(Listing[d]) /\ m - 1 \in Nat /\ (m - 1) + 1 = m /\ Len(Listing[d]) \in Nat
      /\ e = Listing[d][m] /\ e \in Dirs \cup Files \cup {Dots}
  BY <1>2, <1>3, Lists DEF Current
<1>5. PICK l \in Nat : n = l + 1
  <2>1. n - 1 \in Nat /\ n = (n - 1) + 1
    BY <1>4
  <2> QED BY <2>1
<1>6. /\ Len(Advance) = n /\ Advance \in Seq(Frame)
      /\ \A i \in 1..l : Advance[i] = stack[i]
      /\ Advance[n].dir = d /\ Advance[n].next = m + 1
  <2>1. /\ Len(Advance) = Len(stack) /\ Advance \in Seq(Frame)
        /\ \A i \in 1..Len(stack) : i # Len(stack) => Advance[i] = stack[i]
        /\ Advance[Len(stack)].dir = Top.dir /\ Advance[Len(stack)].next = Top.next + 1
    BY <1>1, AdvanceIs
  <2>2. \A i \in 1..l : i \in 1..n /\ i # n
    BY <1>5
  <2> QED BY <1>3, <2>1, <2>2
<1>7. \A i \in 1..l : stack[i].dir \in Dirs /\ stack[i].next - 2 \in 0..Len(Listing[stack[i].dir])
  <2>1. \A i \in 1..l : i \in 1..(Len(stack) - 1)
    BY <1>4, <1>5
  <2> QED BY <1>2, <2>1, LevelsFit
<1> DEFINE sofar == FlattenSeq(Above(g, stack, l))
           seen == Upto(g, d, m - 1)
<1>8. m_FileListtoSend = sofar \o seen
  <2>1. Len(stack) - 1 = l
    BY <1>4, <1>5
  <2> QED BY <1>2, <1>3, <2>1 DEF Comes
<1>9. sofar \in Seq(Files) /\ seen \in Seq(Files)
  <2>1. m - 1 \in 0..Len(Listing[d])
    BY <1>4
  <2> QED BY <1>7, <2>1, AboveType, UptoType
<1>10. Upto(g, d, m) = seen \o OfEntry(g, e) /\ OfEntry(g, e) \in Seq(Files)
  BY <1>4, UptoNext
<1> HIDE DEF sofar, seen
<1>11. CASE ~EnterDirectory
  <2>1. stack' = Advance /\ m_FileListtoSend' = m_FileListtoSend \o OfEntry(g, e)
    <3>1. CASE SkipDots \/ LeaveOut
      <4>1. OfEntry(g, e) = <<>>
        BY <1>3, <3>1, SearchAssumption DEF SkipDots, LeaveOut, OfEntry
      <4>2. m_FileListtoSend \o <<>> = m_FileListtoSend
        BY ConcatEmptySeq DEF TypeOK
      <4> QED BY <3>1, <4>1, <4>2 DEF SkipDots, LeaveOut
    <3>2. CASE ListFile
      <4>1. OfEntry(g, e) = <<e>> /\ e \in Files
        BY <1>3, <3>2 DEF ListFile, OfEntry
      <4>2. Append(m_FileListtoSend, e) = m_FileListtoSend \o <<e>>
        BY <4>1, AppendIsConcat DEF TypeOK
      <4> QED BY <1>3, <3>2, <4>1, <4>2 DEF ListFile
    <3> QED BY <1>11, <3>1, <3>2 DEF Sees
  <2>2. Above(g, stack', l) = Above(g, stack, l)
    <3>1. \A i \in 1..l : Advance[i].dir = stack[i].dir /\ Advance[i].next = stack[i].next
      BY <1>6
    <3>2. PICK st, tt : st = stack /\ tt = stack'
      OBVIOUS
    <3>3. \A i \in 1..l : st[i].dir = tt[i].dir /\ st[i].next = tt[i].next
      BY <2>1, <3>1, <3>2
    <3>4. Above(g, tt, l) = Above(g, st, l)
      BY ONLY <3>3, l \in Nat, AboveSame
    <3> QED BY <3>2, <3>4
  <2>3. stack' # <<>> /\ Len(stack') - 1 = l /\ Top'.dir = d /\ Top'.next - 1 = m
    <3>1. Len(stack') = n /\ n = l + 1 /\ stack' # <<>>
      BY <1>5, <1>6, <2>1, EmptySeq
    <3>2. Top' = stack'[Len(stack')]
      BY DEF Top, Last
    <3>3. stack'[n].dir = d /\ stack'[n].next = m + 1
      BY <1>6, <2>1
    <3>4. Top' = stack'[n]
      BY <3>1, <3>2
    <3>5. Len(stack') - 1 = l /\ (m + 1) - 1 = m
      BY <1>3, <3>1
    <3>6. Top'.dir = d /\ Top'.next = m + 1
      BY ONLY <3>3, <3>4
    <3> QED BY ONLY <3>1, <3>5, <3>6
  <2>4. (sofar \o seen) \o OfEntry(g, e) = sofar \o (seen \o OfEntry(g, e))
    <3>1. OfEntry(g, e) \in Seq(Files)
      BY <1>10
    <3>2. Regroups(sofar, seen, OfEntry(g, e))
      BY ONLY <1>9, <3>1, RegroupsAlways
    <3> QED BY <3>2 DEF Regroups
  <2>5. m_FileListtoSend' = FlattenSeq(Above(g, stack', l)) \o Upto(g, d, m)
    BY <1>8, <1>10, <2>1, <2>2, <2>4 DEF sofar
  <2> QED BY <1>1, <2>3, <2>5 DEF Comes
<1>12. CASE EnterDirectory
  <2>1. /\ stack' = Append(Advance, Call(e)) /\ e \in Dirs \ Filtered
        /\ m_FileListtoSend' = m_FileListtoSend
    BY <1>3, <1>12 DEF EnterDirectory, KeptDirectory
  <2>2. Call(e) \in Frame /\ Call(e).dir = e
    BY <2>1, CallIs
  <2>3. /\ Len(stack') = n + 1 /\ stack'[n + 1] = Call(e) /\ stack' \in Seq(Frame)
        /\ \A i \in 1..n : stack'[i] = Advance[i]
    BY <1>6, <2>1, <2>2, AppendProperties
  <2>4. /\ \A i \in 1..l : stack'[i] = stack[i]
        /\ stack'[l + 1].dir = d /\ stack'[l + 1].next - 2 = m - 1
    <3>1. (\A i \in 1..l : i \in 1..n) /\ l + 1 = n /\ n \in 1..n
      BY <1>5
    <3>2. (m + 1) - 2 = m - 1
      BY <1>4
    <3> QED BY <1>6, <2>3, <3>1, <3>2
  <2>5. \A i \in 1..(l + 1) : stack'[i].dir \in Dirs /\ stack'[i].next - 2 \in 0..Len(Listing[stack'[i].dir])
    <3>1. \A i \in 1..(l + 1) : i \in 1..l \/ i = l + 1
      OBVIOUS
    <3>2. m - 1 \in 0..Len(Listing[d])
      BY <1>4
    <3> QED BY <1>7, <2>4, <3>1, <3>2
  <2>6. FlattenSeq(Above(g, stack', l + 1)) = FlattenSeq(Above(g, stack', l)) \o seen
    <3>1. FlattenSeq(Above(g, stack', l + 1)) =
             FlattenSeq(Above(g, stack', l)) \o Upto(g, stack'[l + 1].dir, stack'[l + 1].next - 2)
      BY <2>5, AboveNext
    <3> QED BY <2>4, <3>1 DEF seen
  <2>7. Above(g, stack', l) = Above(g, stack, l)
    BY <2>4, AboveSame
  <2>8. m_FileListtoSend' = FlattenSeq(Above(g, stack', n))
    BY <1>5, <1>8, <2>1, <2>6, <2>7 DEF sofar
  <2>9. m_FileListtoSend' = FlattenSeq(Above(g, stack', n)) \o Upto(g, e, Call(e).next - 1)
    <3>1. Upto(g, e, Call(e).next - 1) = <<>>
      BY <2>1, CallComesToNothing
    <3>2. m_FileListtoSend \o <<>> = m_FileListtoSend
      BY ConcatEmptySeq DEF TypeOK
    <3> QED BY <2>1, <2>8, <3>1, <3>2
  <2>10. stack' # <<>> /\ Len(stack') - 1 = n /\ Top' = Call(e)
    <3>1. Len(stack') - 1 = n /\ Len(stack') # 0
      BY <1>4, <2>3
    <3>2. Top' = stack'[Len(stack')]
      BY DEF Top, Last
    <3> QED BY <2>3, <3>1, <3>2, EmptySeq
  <2> QED BY <1>1, <2>2, <2>9, <2>10 DEF Comes
<1> QED BY <1>11, <1>12

LEMMA ComesStep ==
    ASSUME TypeOK, Calls, Found, Chain, SeenRight, KeptEntered, CutsFit(cut), CutsFit(cut'),
           NEW g, NEW h, g \in [Dirs -> Seq(Files)], h \in [Dirs -> Seq(Files)],
           Solves(g, cut), Solves(h, cut'), cut' = cut => h = g, Comes(g), [Next]_vars
    PROVE  Comes(h)'
<1>1. CASE TakeStop \/ Return
  BY <1>1, ComesAtEnd
<1>2. CASE Sees
  <2>1. h = g
    BY <1>2 DEF Sees, SkipDots, LeaveOut, ListFile, EnterDirectory
  <2> QED BY <1>2, <2>1, ComesAtEntry
<1>3. CASE FindFiles
  <2>1. /\ stack' = <<Call(Root)>> /\ m_FileListtoSend' = m_FileListtoSend
        /\ pc = "begin" /\ pc' # "begin" /\ Root \in Dirs
    BY <1>3, SearchAssumption DEF FindFiles
  <2>2. m_FileListtoSend = <<>>
    BY <2>1 DEF Comes
  <2>3. stack' # <<>> /\ Len(stack') - 1 = 0 /\ Top' = Call(Root)
    <3>1. Len(stack') = 1 /\ stack'[1] = Call(Root)
      BY <2>1
    <3>2. Top' = stack'[Len(stack')]
      BY DEF Top, Last
    <3> QED BY <2>1, <3>1, <3>2, EmptySeq
  <2>4. Upto(h, Root, Call(Root).next - 1) = <<>> /\ Call(Root).dir = Root
    BY <2>1, CallIs, CallComesToNothing
  <2>5. FlattenSeq(Above(h, stack', 0)) = <<>>
    BY NothingAbove
  <2>6. <<>> \o <<>> = <<>>
    BY ConcatEmptySeq, EmptySeq
  <2> QED BY <2>1, <2>2, <2>3, <2>4, <2>5, <2>6 DEF Comes
<1>4. CASE WalkEnds \/ SetStop \/ UNCHANGED vars
  <2>1. UNCHANGED <<stack, m_FileListtoSend, cut>> /\ (pc' = "begin" <=> pc = "begin")
    BY <1>4 DEF WalkEnds, SetStop, vars
  <2>2. h = g /\ Top' = Top
    BY <2>1 DEF Top
  <2> QED BY <2>1, <2>2 DEF Comes
<1> QED BY <1>1, <1>2, <1>3, <1>4 DEF Next, AccessDirectory, Sees

\* FindFiles returns when the last call has.
Over == pc = "done" => stack = <<>>

BelowFits == Below \in [Dirs -> Seq(Files)] /\ Solves(Below, cut)

Cuts == CutsFit(cut)

\* The list so far.
SoFar == Comes(Below)

LEMMA SoFarStep ==
    ASSUME TypeOK, Calls, Found, Chain, SeenRight, KeptEntered, CutsFit(cut), CutsFit(cut)',
           BelowFits, BelowFits', SoFar, [Next]_vars
    PROVE  SoFar'
<1>1. cut' = cut => Below' = Below
  BY DEF Below
<1>2. PICK g, h : g = Below /\ h = Below'
  OBVIOUS
<1>3. /\ g \in [Dirs -> Seq(Files)] /\ h \in [Dirs -> Seq(Files)]
      /\ Solves(g, cut) /\ Solves(h, cut') /\ Comes(g)
  BY <1>2 DEF BelowFits, SoFar
<1>4. Comes(h)'
  BY <1>1, <1>2, <1>3, ComesStep
<1> QED BY <1>2, <1>4 DEF SoFar, Comes

LEMMA OrderInit ==
    ASSUME Init
    PROVE  CutsFit(cut) /\ Chain /\ KeptEntered /\ Over /\ SoFar
<1>1. /\ pc = "begin" /\ entered = {} /\ stack = <<>> /\ cut = [d \in Dirs |-> Len(Listing[d]) + 1]
      /\ m_FileListtoSend = <<>>
  BY DEF Init
<1>2. Seen = {}
  BY <1>1 DEF Seen, SeenIn
<1>3. CutsFit(cut)
  BY <1>1, Lists DEF CutsFit
<1>4. Chain
  <2>1. Len(stack) = 0
    BY <1>1, EmptySeq
  <2> QED BY <1>1, <2>1 DEF Chain
<1> QED BY <1>1, <1>2, <1>3, <1>4 DEF KeptEntered, Over, SoFar, Comes

(***************************************************************************)
(* ListedInOrderAlways.  In any tree that has no cycle, with Stops at any  *)
(* time: when FindFiles is done the list holds, in order, what a recursive *)
(* walk finds that reads each directory up to its cut and no further.      *)
(***************************************************************************)
THEOREM ListedInOrderAlways == Spec => []ListedInOrder
<1> DEFINE Walk == Calls /\ Found
           Order == Cuts /\ Chain /\ KeptEntered /\ Over /\ SoFar
<1>1. Init => Walk /\ Order
  BY CountsInit, OrderInit DEF Cuts
<1>2. TypeOK /\ Calls => SeenRight
  BY CallsSeen
<1>3. TypeOK /\ Walk /\ [Next]_vars => Calls'
  BY CallsStep
<1>4. TypeOK /\ Walk /\ Calls' /\ SeenRight /\ SeenRight' /\ [Next]_vars => Found'
  BY FoundStep
<1>5. Cuts => BelowFits
  BY BelowIs DEF BelowFits, Cuts
<1>6. TypeOK /\ Order /\ [Next]_vars => Cuts'
  BY CutsStep DEF Cuts
<1>7. TypeOK /\ Walk /\ Calls' /\ SeenRight /\ SeenRight' /\ Order /\ [Next]_vars =>
        Chain' /\ KeptEntered'
  BY ChainStep, KeptStep
<1>8. Over /\ [Next]_vars => Over'
  BY DEF Over, Next, AccessDirectory, FindFiles, TakeStop, SkipDots, LeaveOut, EnterDirectory, ListFile,
     Return, WalkEnds, SetStop, bWorking, vars
<1>9. TypeOK /\ Walk /\ SeenRight /\ Order /\ Cuts' /\ BelowFits /\ BelowFits' /\ [Next]_vars =>
        SoFar'
  BY SoFarStep DEF Cuts
<1>10. Order => ListedInOrder
  BY DEF Over, SoFar, Comes, ListedInOrder
<1>11. /\ Walk' <=> Calls' /\ Found'
       /\ Walk => Calls
       /\ Order' <=> Cuts' /\ Chain' /\ KeptEntered' /\ Over' /\ SoFar'
       /\ Order => Cuts /\ Over
  OBVIOUS
<1> HIDE DEF Walk, Order
<1> QED BY TypeCorrect, <1>1, <1>2, <1>3, <1>4, <1>5, <1>6, <1>7, <1>8, <1>9, <1>10, <1>11, PTL DEF Spec
-----------------------------------------------------------------------------
(* The CString operations. *)

LEMMA Largest ==
    ASSUME NEW T \in SUBSET Int, NEW n \in Int, T # {}, \A x \in T : x <= n
    PROVE  \E x \in T : \A y \in T : y <= x
<1> DEFINE U == {k \in Nat : n - k \in T}
<1>1. U \in SUBSET Nat /\ U # {}
  <2>1. PICK x \in T : x <= n
    OBVIOUS
  <2>2. n - x \in Nat /\ n - (n - x) = x
    BY <2>1
  <2> QED BY <2>1, <2>2
<1>2. PICK k \in U : \A j \in U : k <= j
  BY <1>1, Smallest
<1>3. n - k \in T
  OBVIOUS
<1>4. ASSUME NEW y \in T PROVE y <= n - k
  <2>1. n - y \in Nat /\ n - (n - y) = y
    OBVIOUS
  <2>2. k <= n - y
    BY <1>2, <2>1
  <2> QED BY <2>2
<1> QED BY <1>3, <1>4

\* The text t is at place p of s.
IsAt(s, t, p) == p + Len(t) <= Len(s) /\ \A i \in 1..Len(t) : s[p + i] = t[i]

LEMMA PlacesType == ASSUME NEW s, NEW t PROVE Places(s, t) \in SUBSET Nat
BY DEF Places

LEMMA PlacesIs ==
    ASSUME NEW S, NEW s \in Seq(S), NEW t \in Seq(S), NEW p \in Nat
    PROVE  p \in Places(s, t) <=> IsAt(s, t, p)
<1>1. Len(s) \in Nat /\ Len(t) \in Nat
  BY LenProperties
<1>3. ASSUME p + Len(t) <= Len(s)
      PROVE  SubSeq(s, p + 1, p + Len(t)) = t <=> \A i \in 1..Len(t) : s[p + i] = t[i]
  <2> DEFINE u == SubSeq(s, p + 1, p + Len(t))
  <2>1. \A i \in (p + 1)..(p + Len(t)) : s[i] \in S
    BY <1>1, <1>3, ElementOfSeq
  <2>2. /\ u \in Seq(S) /\ Len(u) = IF p + 1 <= p + Len(t) THEN p + Len(t) - (p + 1) + 1 ELSE 0
        /\ \A i \in 1..(p + Len(t) - (p + 1) + 1) : u[i] = s[p + 1 + i - 1]
    BY <1>1, <2>1, SubSeqProperties
  <2> HIDE DEF u
  <2>3. Len(u) = Len(t) /\ \A i \in 1..Len(t) : u[i] = s[p + i]
    BY <1>1, <2>2
  <2>4. u = t <=> \A i \in 1..Len(t) : u[i] = t[i]
    BY <2>2, <2>3, SeqEqual
  <2> QED BY <2>3, <2>4 DEF u
<1>4. p \in Places(s, t) <=> p + Len(t) <= Len(s) /\ SubSeq(s, p + 1, p + Len(t)) = t
  <2>1. p \in 0..(Len(s) - Len(t)) <=> p + Len(t) <= Len(s)
    BY <1>1
  <2> QED BY <2>1 DEF Places
<1> QED BY <1>3, <1>4 DEF IsAt

LEMMA FindIs ==
    ASSUME NEW S, NEW s \in Seq(S), NEW t \in Seq(S)
    PROVE  /\ Find(s, t) \in Places(s, t) \cup {-1}
           /\ \A p \in Places(s, t) : Find(s, t) \in Places(s, t) /\ Find(s, t) <= p
<1>1. CASE Places(s, t) = {}
  BY <1>1 DEF Find
<1>2. CASE Places(s, t) # {}
  <2>1. \E x \in Places(s, t) : \A y \in Places(s, t) : x <= y
    BY <1>2, PlacesType, Smallest
  <2>2. Find(s, t) = CHOOSE x \in Places(s, t) : \A y \in Places(s, t) : x <= y
    BY <1>2 DEF Find, Min
  <2> QED BY <2>1, <2>2
<1> QED BY <1>1, <1>2

LEMMA PlacesOfOne ==
    ASSUME NEW S, NEW s \in Seq(S), NEW ch \in S
    PROVE  /\ Places(s, <<ch>>) \in SUBSET Nat
           /\ \A p \in Nat : p \in Places(s, <<ch>>) <=> p + 1 <= Len(s) /\ s[p + 1] = ch
<1>1. ASSUME NEW u \in Seq(S), Len(u) = 1, u[1] = ch
      PROVE  /\ Places(s, u) \in SUBSET Nat
             /\ \A p \in Nat : p \in Places(s, u) <=> p + 1 <= Len(s) /\ s[p + 1] = ch
  <2>1. Places(s, u) \in SUBSET Nat
    BY PlacesType
  <2>2. ASSUME NEW p \in Nat PROVE p \in Places(s, u) <=> p + 1 <= Len(s) /\ s[p + 1] = ch
    <3>1. p \in Places(s, u) <=> IsAt(s, u, p)
      BY PlacesIs
    <3>2. IsAt(s, u, p) <=> p + 1 <= Len(s) /\ s[p + 1] = ch
      BY <1>1 DEF IsAt
    <3> QED BY <3>1, <3>2
  <2> QED BY <2>1, <2>2
<1>2. <<ch>> \in Seq(S) /\ Len(<<ch>>) = 1 /\ <<ch>>[1] = ch
  OBVIOUS
<1>3. PICK u : u = <<ch>>
  OBVIOUS
<1>4. u \in Seq(S) /\ Len(u) = 1 /\ u[1] = ch
  BY <1>2, <1>3
<1>5. /\ Places(s, u) \in SUBSET Nat
      /\ \A p \in Nat : p \in Places(s, u) <=> p + 1 <= Len(s) /\ s[p + 1] = ch
  BY ONLY <1>4, <1>1
<1> QED BY <1>3, <1>5

LEMMA ReverseFindIs ==
    ASSUME NEW S, NEW s \in Seq(S), NEW ch \in S
    PROVE  /\ ReverseFind(s, ch) \in -1..(Len(s) - 1)
           /\ ReverseFind(s, ch) >= 0 => s[ReverseFind(s, ch) + 1] = ch
           /\ \A i \in 1..Len(s) : s[i] = ch => i <= ReverseFind(s, ch) + 1
<1> DEFINE T == {-1} \cup Places(s, <<ch>>)
           r == ReverseFind(s, ch)
<1>1. Len(s) \in Nat
  BY LenProperties
<1>2. \A p \in Nat : p \in Places(s, <<ch>>) <=> p + 1 <= Len(s) /\ s[p + 1] = ch
  BY PlacesOfOne
<1>3. Places(s, <<ch>>) \in SUBSET Nat
  BY PlacesOfOne
<1>4. T \in SUBSET Int /\ T # {} /\ \A x \in T : x <= Len(s) - 1
  BY <1>1, <1>2, <1>3
<1>5. \E x \in T : \A y \in T : y <= x
  <2> HIDE DEF T
  <2>1. Len(s) - 1 \in Int
    BY <1>1
  <2> QED BY <1>4, <2>1, Largest
<1>6. r = CHOOSE x \in T : \A y \in T : x >= y
  BY DEF ReverseFind, Max
<1>7. r \in T /\ \A y \in T : y <= r
  <2>1. \E x \in T : \A y \in T : x >= y
    BY <1>4, <1>5
  <2> HIDE DEF T, r
  <2>2. r \in T /\ \A y \in T : r >= y
    BY <1>6, <2>1
  <2> QED BY <1>4, <2>2
<1> HIDE DEF r
<1>8. \A i \in 1..Len(s) : s[i] = ch => i - 1 \in T
  <2> TAKE i \in 1..Len(s)
  <2>1. i - 1 \in Nat /\ (i - 1) + 1 = i /\ i <= Len(s)
    BY <1>1
  <2> QED BY <1>2, <2>1
<1>9. \A i \in 1..Len(s) : s[i] = ch => i <= r + 1
  BY <1>1, <1>4, <1>7, <1>8
<1>10. r \in -1..(Len(s) - 1) /\ (r >= 0 => s[r + 1] = ch)
  BY <1>1, <1>2, <1>3, <1>4, <1>7
<1> QED BY <1>9, <1>10 DEF r

LEMMA RightIs ==
    ASSUME NEW S, NEW s \in Seq(S), NEW n \in 0..Len(s)
    PROVE  /\ Right(s, n) \in Seq(S) /\ Len(Right(s, n)) = n
           /\ \A i \in 1..n : Right(s, n)[i] = s[Len(s) - n + i]
<1>1. Len(s) \in Nat /\ Len(s) - n \in 0..Len(s)
  BY LenProperties
<1>2. PICK k \in 0..Len(s) : k = Len(s) - n
  BY <1>1
<1>3. Len(s) - k = n
  BY <1>1, <1>2
<1>4. /\ SubSeq(s, k + 1, Len(s)) \in Seq(S) /\ Len(SubSeq(s, k + 1, Len(s))) = Len(s) - k
      /\ \A i \in 1..(Len(s) - k) : SubSeq(s, k + 1, Len(s))[i] = s[k + i]
  BY CutSeq
<1> QED BY <1>2, <1>3, <1>4 DEF Right

-----------------------------------------------------------------------------
(* The entries of a filter. *)

Separators == {Blank, Semicolon}

\* A span is where no separator is, between two of them.
LEMMA SpanIs ==
    ASSUME NEW S, NEW f \in Seq(S), NEW a, NEW b
    PROVE  <<a, b>> \in EntrySpans(f) <=>
              /\ a \in 1..Len(f) /\ b \in 1..Len(f) /\ a <= b
              /\ \A k \in a..b : f[k] \notin Separators
              /\ a = 1 \/ f[a - 1] \in Separators
              /\ b = Len(f) \/ f[b + 1] \in Separators
BY DEF EntrySpans, Separators

LEMMA SpansApart ==
    ASSUME NEW S, NEW f \in Seq(S), NEW a, NEW b, NEW c, NEW d,
           <<a, b>> \in EntrySpans(f), <<c, d>> \in EntrySpans(f),
           NEW k \in Int, a <= k, k <= b, c <= k, k <= d
    PROVE  a = c /\ b = d
<1>1. /\ Len(f) \in Nat /\ a \in Nat /\ b \in Nat /\ c \in Nat /\ d \in Nat
      /\ 1 <= a /\ 1 <= c /\ b <= Len(f) /\ d <= Len(f)
  BY SpanIs, LenProperties
<1>2. ~(a < c)
  <2> SUFFICES ASSUME a < c PROVE FALSE
    OBVIOUS
  <2>1. c - 1 \in a..b /\ c # 1
    BY <1>1
  <2> QED BY <2>1, SpanIs
<1>3. ~(c < a)
  <2> SUFFICES ASSUME c < a PROVE FALSE
    OBVIOUS
  <2>1. a - 1 \in c..d /\ a # 1
    BY <1>1
  <2> QED BY <2>1, SpanIs
<1>4. ~(b < d)
  <2> SUFFICES ASSUME b < d PROVE FALSE
    OBVIOUS
  <2>1. b + 1 \in c..d /\ b # Len(f)
    BY <1>1
  <2> QED BY <2>1, SpanIs
<1>5. ~(d < b)
  <2> SUFFICES ASSUME d < b PROVE FALSE
    OBVIOUS
  <2>1. d + 1 \in a..b /\ d # Len(f)
    BY <1>1
  <2> QED BY <2>1, SpanIs
<1> QED BY <1>1, <1>2, <1>3, <1>4, <1>5

\* A part of the filter without a separator lies in one of them.
LEMMA SpanAround ==
    ASSUME NEW S, NEW f \in Seq(S), NEW i \in 1..Len(f), NEW j \in 1..Len(f), i <= j,
           \A k \in i..j : f[k] \notin Separators
    PROVE  \E a, b : <<a, b>> \in EntrySpans(f) /\ a <= i /\ j <= b
<1>1. Len(f) \in Nat
  BY LenProperties
<1> DEFINE T == {k \in 0..(i - 1) : k = 0 \/ f[k] \in Separators}
           U == {k \in (j + 1)..(Len(f) + 1) : k = Len(f) + 1 \/ f[k] \in Separators}
<1>2. PICK x \in T : \A y \in T : y <= x
  <2>1. T \in SUBSET Int /\ 0 \in T /\ (\A y \in T : y <= i - 1) /\ i - 1 \in Int
    BY <1>1
  <2> HIDE DEF T
  <2> QED BY <2>1, Largest
<1>3. PICK z \in U : \A y \in U : z <= y
  <2>1. U \in SUBSET Nat /\ Len(f) + 1 \in U
    BY <1>1
  <2> HIDE DEF U
  <2> QED BY <2>1, Smallest
<1> DEFINE a == x + 1
           b == z - 1
<1>4. a \in 1..Len(f) /\ b \in 1..Len(f) /\ a <= i /\ j <= b /\ a <= b
  BY <1>1
<1>5. \A k \in a..b : f[k] \notin Separators
  <2> TAKE k \in a..b
  <2>1. k \in Int /\ x < k /\ k < z
    BY <1>1
  <2>2. CASE k < i
    <3>1. k \in 0..(i - 1)
      BY <1>1, <2>1, <2>2
    <3> QED BY <1>2, <2>1, <3>1
  <2>3. CASE i <= k /\ k <= j
    <3>1. k \in i..j
      BY <2>1, <2>3
    <3> QED BY <3>1
  <2>4. CASE j < k
    <3>1. k \in (j + 1)..(Len(f) + 1)
      BY <1>1, <2>1, <2>4
    <3> QED BY <1>3, <2>1, <3>1
  <2> QED BY <2>1, <2>2, <2>3, <2>4
<1>6. (a = 1 \/ f[a - 1] \in Separators) /\ (b = Len(f) \/ f[b + 1] \in Separators)
  BY <1>1
<1> HIDE DEF a, b
<1>7. <<a, b>> \in EntrySpans(f)
  BY <1>4, <1>5, <1>6, SpanIs
<1> QED BY <1>4, <1>7

\* Where t is in an entry is where it is in the filter.
LEMMA PlacesInEntry ==
    ASSUME NEW S, NEW f \in Seq(S), NEW t \in Seq(S), NEW a, NEW b, <<a, b>> \in EntrySpans(f)
    PROVE  /\ Entry(f, <<a, b>>) \in Seq(S) /\ Len(Entry(f, <<a, b>>)) = b - a + 1
           /\ \A k \in 1..(b - a + 1) : Entry(f, <<a, b>>)[k] = f[a - 1 + k]
           /\ \A q \in Nat : q \in Places(Entry(f, <<a, b>>), t) <=>
                 (a - 1) + q \in Places(f, t) /\ q + Len(t) <= b - a + 1
<1>1. /\ Len(f) \in Nat /\ a \in Nat /\ b \in Nat /\ Len(t) \in Nat
      /\ 1 <= a /\ a <= b /\ b <= Len(f)
  BY SpanIs, LenProperties
<1> DEFINE e == Entry(f, <<a, b>>)
<1>2. /\ e \in Seq(S) /\ Len(e) = b - a + 1
      /\ \A k \in 1..(b - a + 1) : e[k] = f[a - 1 + k]
  <2>1. \A k \in a..b : f[k] \in S
    BY <1>1, ElementOfSeq
  <2>2. e = SubSeq(f, a, b)
    BY DEF Entry
  <2>3. /\ SubSeq(f, a, b) \in Seq(S) /\ Len(SubSeq(f, a, b)) = IF a <= b THEN b - a + 1 ELSE 0
        /\ \A k \in 1..(b - a + 1) : SubSeq(f, a, b)[k] = f[a + k - 1]
    BY <1>1, <2>1, SubSeqProperties
  <2> HIDE DEF e
  <2>4. e \in Seq(S) /\ Len(e) = b - a + 1
    BY <1>1, <2>2, <2>3
  <2>5. \A k \in 1..(b - a + 1) : a + k - 1 = a - 1 + k
    BY <1>1
  <2>6. \A k \in 1..(b - a + 1) : e[k] = f[a + k - 1]
    BY ONLY <2>2, <2>3
  <2> QED BY <2>4, <2>5, <2>6
<1> HIDE DEF e
<1>3. ASSUME NEW q \in Nat
      PROVE  q \in Places(e, t) <=> (a - 1) + q \in Places(f, t) /\ q + Len(t) <= b - a + 1
  <2>1. (a - 1) + q \in Nat
    BY <1>1
  <2>2. q \in Places(e, t) <=> q + Len(t) <= b - a + 1 /\ \A i \in 1..Len(t) : e[q + i] = t[i]
    <3>1. q \in Places(e, t) <=> IsAt(e, t, q)
      BY <1>2, PlacesIs
    <3> QED BY <1>2, <3>1 DEF IsAt
  <2>3. (a - 1) + q \in Places(f, t) <=>
           ((a - 1) + q) + Len(t) <= Len(f) /\ \A i \in 1..Len(t) : f[((a - 1) + q) + i] = t[i]
    <3>1. PICK x \in Nat : x = (a - 1) + q
      BY <2>1
    <3>2. x \in Places(f, t) <=> IsAt(f, t, x)
      BY PlacesIs
    <3> QED BY <3>1, <3>2 DEF IsAt
  <2>4. ASSUME q + Len(t) <= b - a + 1
        PROVE  /\ ((a - 1) + q) + Len(t) <= Len(f)
               /\ \A i \in 1..Len(t) : e[q + i] = f[((a - 1) + q) + i]
    <3>1. \A i \in 1..Len(t) : q + i \in 1..(b - a + 1) /\ a - 1 + (q + i) = ((a - 1) + q) + i
      BY <1>1, <2>4
    <3>2. ((a - 1) + q) + Len(t) <= Len(f)
      BY <1>1, <2>4
    <3> QED BY <1>2, <3>1, <3>2
  <2> QED BY <2>2, <2>3, <2>4
<1> QED BY <1>2, <1>3 DEF e

-----------------------------------------------------------------------------
(* By extension. *)

Holders(f, t) == {span \in EntrySpans(f) : Places(Entry(f, span), t) # {}}

LEMMA SpanPair ==
    ASSUME NEW f, NEW span \in EntrySpans(f)
    PROVE  span = <<span[1], span[2]>>
BY DEF EntrySpans

\* Wherever a text without a separator is in the filter, an entry holds it.
LEMMA HeldThere ==
    ASSUME NEW S, NEW f \in Seq(S), NEW t \in Seq(S), t # <<>>,
           \A i \in 1..Len(t) : t[i] \notin Separators,
           NEW p \in Places(f, t)
    PROVE  \E a, b : /\ <<a, b>> \in Holders(f, t)
                     /\ a <= p + 1 /\ p + Len(t) <= b
                     /\ p - (a - 1) \in Places(Entry(f, <<a, b>>), t)
<1>1. /\ Len(f) \in Nat /\ Len(t) \in Nat /\ Len(t) >= 1 /\ p \in Nat /\ p + Len(t) <= Len(f)
      /\ \A i \in 1..Len(t) : f[p + i] = t[i]
  <2>1. Places(f, t) \in SUBSET Nat
    BY PlacesType
  <2>2. p \in Nat
    BY <2>1
  <2>3. p + Len(t) <= Len(f) /\ \A i \in 1..Len(t) : f[p + i] = t[i]
    BY <2>2, PlacesIs DEF IsAt
  <2>4. Len(f) \in Nat /\ Len(t) \in Nat /\ Len(t) >= 1
    BY LenProperties, EmptySeq
  <2> QED BY <2>2, <2>3, <2>4
<1>2. PICK i, j : i = p + 1 /\ j = p + Len(t)
  OBVIOUS
<1>3. i \in 1..Len(f) /\ j \in 1..Len(f) /\ i <= j
  BY <1>1, <1>2
<1>4. \A k \in i..j : f[k] \notin Separators
  <2> TAKE k \in i..j
  <2>1. k - p \in 1..Len(t) /\ p + (k - p) = k
    BY <1>1, <1>2
  <2> QED BY <1>1, <2>1
<1>5. PICK a, b : <<a, b>> \in EntrySpans(f) /\ a <= i /\ j <= b
  BY <1>3, <1>4, SpanAround
<1>6. a \in Nat /\ b \in Nat /\ 1 <= a
  BY <1>1, <1>5, SpanIs
<1>7. PICK q : q = p - (a - 1)
  OBVIOUS
<1>8. q \in Nat /\ (a - 1) + q = p /\ q + Len(t) <= b - a + 1
  BY ONLY <1>1, <1>2, <1>5, <1>6, <1>7
<1>9. q \in Places(Entry(f, <<a, b>>), t)
  BY <1>5, <1>8, PlacesInEntry
<1>10. <<a, b>> \in Holders(f, t)
  BY <1>5, <1>9 DEF Holders
<1> QED BY <1>2, <1>5, <1>7, <1>9, <1>10

\* Where a holder has it, the filter has it.
LEMMA HeldHere ==
    ASSUME NEW S, NEW f \in Seq(S), NEW t \in Seq(S), NEW c, NEW d, <<c, d>> \in Holders(f, t)
    PROVE  /\ <<c, d>> \in EntrySpans(f) /\ c \in Nat /\ d \in Nat /\ 1 <= c /\ c <= d
           /\ \E q \in Nat : (c - 1) + q \in Places(f, t) /\ q + Len(t) <= d - c + 1
<1>1. <<c, d>> \in EntrySpans(f) /\ Places(Entry(f, <<c, d>>), t) # {}
  BY DEF Holders
<1>2. c \in Nat /\ d \in Nat /\ 1 <= c /\ c <= d
  BY <1>1, SpanIs, LenProperties
<1>3. PICK q : q \in Places(Entry(f, <<c, d>>), t)
  BY <1>1
<1>4. q \in Nat
  <2>1. Entry(f, <<c, d>>) \in Seq(S)
    BY <1>1, PlacesInEntry
  <2>2. Places(Entry(f, <<c, d>>), t) \in SUBSET Nat
    BY <2>1, PlacesType
  <2> QED BY <1>3, <2>2
<1>5. (c - 1) + q \in Places(f, t) /\ q + Len(t) <= d - c + 1
  BY <1>1, <1>3, <1>4, PlacesInEntry
<1> QED BY <1>1, <1>2, <1>4, <1>5

\* The holder of the first place is the first holder, and its own first place
\* is that one.
LEMMA FirstHolder ==
    ASSUME NEW S, NEW f \in Seq(S), NEW t \in Seq(S), t # <<>>,
           \A i \in 1..Len(t) : t[i] \notin Separators,
           Places(f, t) # {}
    PROVE  \E a, b : /\ <<a, b>> \in Holders(f, t)
                     /\ \A c, d : <<c, d>> \in Holders(f, t) => a <= c
                     /\ a \in Nat /\ b \in Nat /\ Find(f, t) \in Nat
                     /\ Find(f, t) + Len(t) <= b /\ a <= Find(f, t) + 1
                     /\ Find(Entry(f, <<a, b>>), t) = Find(f, t) - (a - 1)
<1>1. PICK p : p = Find(f, t)
  OBVIOUS
<1>2. p \in Places(f, t) /\ (\A x \in Places(f, t) : p <= x) /\ Places(f, t) \in SUBSET Nat
  <2>1. PICK x : x \in Places(f, t)
    OBVIOUS
  <2>2. Find(f, t) \in Places(f, t) /\ \A y \in Places(f, t) : Find(f, t) <= y
    BY <2>1, FindIs
  <2>3. Places(f, t) \in SUBSET Nat
    BY PlacesType
  <2> QED BY <1>1, <2>2, <2>3
<1>3. p \in Nat /\ Len(t) \in Nat /\ Len(t) >= 1
  BY <1>2, LenProperties, EmptySeq
<1>4. PICK a, b : /\ <<a, b>> \in Holders(f, t)
                  /\ a <= p + 1 /\ p + Len(t) <= b
                  /\ p - (a - 1) \in Places(Entry(f, <<a, b>>), t)
  BY <1>2, HeldThere
<1>5. <<a, b>> \in EntrySpans(f) /\ a \in Nat /\ b \in Nat /\ 1 <= a /\ a <= b
  BY <1>4, HeldHere
<1>6. ASSUME NEW c, NEW d, <<c, d>> \in Holders(f, t) PROVE a <= c
  <2>1. <<c, d>> \in EntrySpans(f) /\ c \in Nat /\ d \in Nat /\ 1 <= c /\ c <= d
    BY <1>6, HeldHere
  <2>2. PICK q \in Nat : (c - 1) + q \in Places(f, t) /\ q + Len(t) <= d - c + 1
    BY <1>6, HeldHere
  <2>3. p <= (c - 1) + q
    BY <1>2, <2>2
  <2>4. a \in Int /\ (~(a <= c) => c <= a /\ a <= d)
    BY ONLY <1>3, <1>4, <1>5, <2>1, <2>2, <2>3
  <2>5. a \in Int /\ a <= a /\ a <= b
    BY ONLY <1>5
  <2>6. ASSUME ~(a <= c) PROVE a = c
    BY <1>5, <2>1, <2>4, <2>5, <2>6, SpansApart
  <2> QED BY ONLY <1>5, <2>1, <2>6
<1>7. PICK e : e = Entry(f, <<a, b>>)
  OBVIOUS
<1>8. e \in Seq(S) /\ \A q \in Nat : q \in Places(e, t) => (a - 1) + q \in Places(f, t)
  BY <1>5, <1>7, PlacesInEntry
<1>9. Find(e, t) \in Places(e, t) /\ Find(e, t) <= p - (a - 1) /\ Places(e, t) \in SUBSET Nat
  <2>1. p - (a - 1) \in Places(e, t)
    BY <1>4, <1>7
  <2>2. Find(e, t) \in Places(e, t) /\ Find(e, t) <= p - (a - 1)
    BY ONLY t \in Seq(S), <1>8, <2>1, FindIs
  <2>3. Places(e, t) \in SUBSET Nat
    BY <1>8, PlacesType
  <2> QED BY <2>2, <2>3
<1>10. p <= (a - 1) + Find(e, t) /\ Find(e, t) \in Nat
  BY <1>2, <1>8, <1>9
<1>11. Find(e, t) = p - (a - 1)
  BY ONLY <1>3, <1>5, <1>9, <1>10
<1> QED BY <1>1, <1>3, <1>4, <1>5, <1>6, <1>7, <1>11

LEMMA ExtensionDecides ==
    ASSUME NEW S, NEW f \in Seq(S), NEW t \in Seq(S), t # <<>>,
           \A i \in 1..Len(t) : t[i] \notin Separators
    PROVE  EndsEntry(f, t) <=>
              \E span \in Holders(f, t) :
                  /\ \A other \in Holders(f, t) : span[1] <= other[1]
                  /\ Find(Entry(f, span), t) = Len(Entry(f, span)) - Len(t)
<1>0. Len(f) \in Nat /\ Len(t) \in Nat /\ Len(t) >= 1
  BY LenProperties, EmptySeq
<1>1. CASE Places(f, t) = {}
  <2>1. ~EndsEntry(f, t)
    <3>1. Find(f, t) = -1
      BY <1>1 DEF Find
    <3> QED BY <3>1 DEF EndsEntry
  <2>2. ASSUME NEW span \in Holders(f, t) PROVE FALSE
    <3>1. PICK c, d : <<c, d>> = span
      BY SpanPair DEF Holders
    <3> QED BY <1>1, <3>1, HeldHere
  <2> QED BY <2>1, <2>2
<1>2. CASE Places(f, t) # {}
  <2>1. PICK a, b : /\ <<a, b>> \in Holders(f, t)
                    /\ \A c, d : <<c, d>> \in Holders(f, t) => a <= c
                    /\ a \in Nat /\ b \in Nat /\ Find(f, t) \in Nat
                    /\ Find(f, t) + Len(t) <= b /\ a <= Find(f, t) + 1
                    /\ Find(Entry(f, <<a, b>>), t) = Find(f, t) - (a - 1)
    BY <1>2, FirstHolder
  <2>2. PICK p, z : p = Find(f, t) /\ z = p + Len(t)
    OBVIOUS
  <2>3. p \in Nat /\ z \in Nat /\ z <= b /\ a <= z /\ a >= 1
    <3>1. 1 <= a
      BY <2>1, HeldHere
    <3> QED BY <1>0, <2>1, <2>2, <3>1
  <2>4. EndsEntry(f, t) <=> z = Len(f) \/ f[z + 1] \in Separators
    BY <2>2, <2>3 DEF EndsEntry, Separators
  <2>5. /\ <<a, b>> \in EntrySpans(f) /\ a \in 1..Len(f) /\ b \in 1..Len(f) /\ a <= b
        /\ \A k \in a..b : f[k] \notin Separators
        /\ b = Len(f) \/ f[b + 1] \in Separators
    BY <2>1, HeldHere, SpanIs
  <2>6. EndsEntry(f, t) <=> z = b
    <3>1. ASSUME z # b PROVE z # Len(f) /\ f[z + 1] \notin Separators
      <4>1. z + 1 \in a..b /\ z < Len(f)
        BY <1>0, <2>3, <2>5, <3>1
      <4> QED BY <1>0, <2>3, <2>5, <4>1
    <3>2. z = b => z = Len(f) \/ f[z + 1] \in Separators
      BY <2>5
    <3> QED BY <2>4, <3>1, <3>2
  <2>7. Find(Entry(f, <<a, b>>), t) = Len(Entry(f, <<a, b>>)) - Len(t) <=> z = b
    <3>1. Len(Entry(f, <<a, b>>)) = b - a + 1
      <4>1. <<a, b>> \in EntrySpans(f)
        BY <2>5
      <4> QED BY ONLY f \in Seq(S), t \in Seq(S), <4>1, PlacesInEntry
    <3>2. PICK x, y : x = Find(Entry(f, <<a, b>>), t) /\ y = Len(Entry(f, <<a, b>>))
      OBVIOUS
    <3>3. x = p - (a - 1) /\ y = b - a + 1
      BY <2>1, <2>2, <3>1, <3>2
    <3>4. x = y - Len(t) <=> z = b
      BY ONLY SMTT(30), <1>0, <2>1, <2>2, <2>3, <3>3
    <3> QED BY <3>2, <3>4
  <2>8. \A other \in Holders(f, t) : a <= other[1]
    <3> TAKE other \in Holders(f, t)
    <3>1. other = <<other[1], other[2]>>
      BY SpanPair DEF Holders
    <3> QED BY <2>1, <3>1
  <2>9. ASSUME NEW span \in Holders(f, t), \A other \in Holders(f, t) : span[1] <= other[1]
        PROVE  span = <<a, b>>
    <3>1. PICK c, d : c = span[1] /\ d = span[2] /\ span = <<c, d>>
      BY SpanPair DEF Holders
    <3>2. c <= a
      BY <2>1, <2>9, <3>1
    <3>3. a <= c
      BY <2>1, <3>1
    <3>4. <<c, d>> \in EntrySpans(f) /\ c \in Nat /\ d \in Nat /\ c <= d
      BY <3>1, HeldHere
    <3>5. a \in Int /\ a <= a /\ a <= b /\ c <= a /\ a <= d
      BY ONLY <2>1, <2>5, <3>2, <3>3, <3>4
    <3>6. a = c /\ b = d
      BY <2>5, <3>4, <3>5, SpansApart
    <3> QED BY <3>1, <3>6
  <2>10. <<a, b>>[1] = a
    OBVIOUS
  <2> QED BY <2>1, <2>6, <2>7, <2>8, <2>9, <2>10
<1> QED BY <1>1, <1>2

-----------------------------------------------------------------------------
(* A text with a separator in it. *)

\* The last word of such a text is what follows its last separator.
LEMMA LastWordIs ==
    ASSUME NEW S, Separators \subseteq S, NEW t \in Seq(S), Separated(t)
    PROVE  \E m \in 1..Len(t) :
              /\ t[m] \in Separators
              /\ \A i \in (m + 1)..Len(t) : t[i] \notin Separators
              /\ LastWord(t) \in Seq(S) /\ Len(LastWord(t)) = Len(t) - m
              /\ \A i \in 1..(Len(t) - m) : LastWord(t)[i] = t[m + i]
<1>1. PICK x, y : x = ReverseFind(t, Blank) /\ y = ReverseFind(t, Semicolon)
  OBVIOUS
<1>2. Len(t) \in Nat /\ Blank \in S /\ Semicolon \in S
  BY LenProperties DEF Separators
<1>3. /\ x \in -1..(Len(t) - 1) /\ (x >= 0 => t[x + 1] = Blank)
      /\ \A i \in 1..Len(t) : t[i] = Blank => i <= x + 1
  BY <1>1, <1>2, ReverseFindIs
<1>4. /\ y \in -1..(Len(t) - 1) /\ (y >= 0 => t[y + 1] = Semicolon)
      /\ \A i \in 1..Len(t) : t[i] = Semicolon => i <= y + 1
  BY <1>1, <1>2, ReverseFindIs
<1>5. PICK r : r = Max({x, y})
  OBVIOUS
<1>6. r \in {x, y} /\ x <= r /\ y <= r
  <2>1. x \in Int /\ y \in Int
    BY <1>2, <1>3, <1>4
  <2>2. CASE x <= y
    <3>1. \A z \in {x, y} : z <= y
      BY <2>1, <2>2
    <3>2. Max({x, y}) = y
      BY ONLY <2>1, <3>1 DEF Max
    <3> QED BY <1>5, <2>1, <2>2, <3>2
  <2>3. CASE ~(x <= y)
    <3>1. \A z \in {x, y} : z <= x
      BY <2>1, <2>3
    <3>2. Max({x, y}) = x
      BY ONLY <2>1, <3>1 DEF Max
    <3> QED BY <1>5, <2>1, <2>3, <3>2
  <2> QED BY <2>2, <2>3
<1>7. PICK i \in 1..Len(t) : t[i] \in Separators
  BY <1>2, LenProperties DEF Separated, Separators
<1>8. r \in Nat /\ r + 1 \in 1..Len(t)
  BY <1>2, <1>3, <1>4, <1>6, <1>7 DEF Separators
<1>9. t[r + 1] \in Separators
  BY <1>3, <1>4, <1>6, <1>8 DEF Separators
<1>10. \A k \in ((r + 1) + 1)..Len(t) : t[k] \notin Separators
  <2> TAKE k \in ((r + 1) + 1)..Len(t)
  <2>1. k \in 1..Len(t) /\ ~(k <= x + 1) /\ ~(k <= y + 1)
    BY <1>2, <1>3, <1>4, <1>6, <1>8
  <2> QED BY <1>3, <1>4, <2>1 DEF Separators
<1>11. PICK m \in 1..Len(t) : m = r + 1
  BY <1>8
<1>12. PICK n \in 0..Len(t) : n = Len(t) - m /\ n = Len(t) - 1 - r /\ Len(t) - n = m
  <2>1. PICK n : n = Len(t) - m
    OBVIOUS
  <2>2. n \in 0..Len(t) /\ n = Len(t) - 1 - r /\ Len(t) - n = m
    BY ONLY <1>2, <1>8, <1>11, <2>1
  <2> QED BY <2>1, <2>2
<1>13. PICK w : w = Right(t, n)
  OBVIOUS
<1>14. w \in Seq(S) /\ Len(w) = n /\ \A k \in 1..n : w[k] = t[Len(t) - n + k]
  BY ONLY t \in Seq(S), <1>13, RightIs
<1>15. LastWord(t) = w
  BY <1>1, <1>5, <1>12, <1>13 DEF LastWord
<1> QED BY <1>9, <1>10, <1>11, <1>12, <1>14, <1>15

\* Where such a text is followed by a separator, its last word is an entry.
LEMMA LastWordDecides ==
    ASSUME NEW S, Separators \subseteq S, NEW f \in Seq(S), NEW t \in Seq(S),
           Separated(t), EndsEntry(f, t)
    PROVE  LastWord(t) = <<>> \/ \E span \in EntrySpans(f) : Entry(f, span) = LastWord(t)
<1>1. Len(f) \in Nat /\ Len(t) \in Nat
  BY LenProperties
<1>2. PICK p : p = Find(f, t)
  OBVIOUS
<1>3. p >= 0 /\ (p + Len(t) = Len(f) \/ f[p + Len(t) + 1] \in Separators)
  BY <1>2 DEF EndsEntry, Separators
<1>4. p \in Places(f, t) /\ p \in Nat
  <2>1. Find(f, t) \in Places(f, t) \cup {-1} /\ Places(f, t) \in SUBSET Nat
    BY FindIs, PlacesType
  <2> QED BY <1>2, <1>3, <2>1
<1>5. p + Len(t) <= Len(f) /\ \A i \in 1..Len(t) : f[p + i] = t[i]
  BY <1>4, PlacesIs DEF IsAt
<1>6. PICK m \in 1..Len(t) :
         /\ t[m] \in Separators
         /\ \A i \in (m + 1)..Len(t) : t[i] \notin Separators
         /\ LastWord(t) \in Seq(S) /\ Len(LastWord(t)) = Len(t) - m
         /\ \A i \in 1..(Len(t) - m) : LastWord(t)[i] = t[m + i]
  BY LastWordIs
<1>7. CASE m = Len(t)
  <2>1. Len(LastWord(t)) = 0
    BY <1>1, <1>6, <1>7
  <2>2. LastWord(t) = <<>>
    BY ONLY <1>6, <2>1, EmptySeq
  <2> QED BY <2>2
<1>8. CASE m # Len(t)
  <2>1. PICK a, b : a = p + m + 1 /\ b = p + Len(t)
    OBVIOUS
  <2>2. /\ a \in Nat /\ b \in Nat /\ a <= b /\ 1 <= a /\ b <= Len(f)
        /\ a - 1 = p + m /\ a # 1 /\ b - a + 1 = Len(t) - m
    <3>1. /\ m \in Nat /\ 1 <= m /\ m < Len(t) /\ Len(t) \in Nat /\ Len(f) \in Nat /\ p \in Nat
          /\ p + Len(t) <= Len(f)
      BY <1>1, <1>4, <1>5, <1>8
    <3> QED BY ONLY <2>1, <3>1
  <2>3. \A k \in a..b : f[k] \notin Separators
    <3> TAKE k \in a..b
    <3>1. PICK i : i = k - p
      OBVIOUS
    <3>2. i \in (m + 1)..Len(t) /\ i \in 1..Len(t) /\ p + i = k
      BY ONLY <1>1, <1>4, <2>1, <2>2, <3>1, m \in 1..Len(t), k \in a..b
    <3> QED BY <1>5, <1>6, <3>2
  <2>4. f[a - 1] \in Separators
    BY <1>5, <1>6, <2>2
  <2>5. b = Len(f) \/ f[b + 1] \in Separators
    BY <1>3, <2>1
  <2>6. a \in 1..Len(f) /\ b \in 1..Len(f)
    BY <1>1, <2>2
  <2>7. <<a, b>> \in EntrySpans(f)
    BY ONLY f \in Seq(S), <2>2, <2>3, <2>4, <2>5, <2>6, SpanIs
  <2>8. PICK e : e = Entry(f, <<a, b>>)
    OBVIOUS
  <2>9. e \in Seq(S) /\ Len(e) = b - a + 1 /\ \A k \in 1..(b - a + 1) : e[k] = f[a - 1 + k]
    BY ONLY f \in Seq(S), t \in Seq(S), <2>7, <2>8, PlacesInEntry
  <2>10. PICK w : w = LastWord(t)
    OBVIOUS
  <2>11. \A k \in 1..Len(e) : e[k] = w[k]
    <3> TAKE k \in 1..Len(e)
    <3>1. k \in 1..(b - a + 1) /\ k \in 1..(Len(t) - m)
      BY <2>2, <2>9
    <3>2. m + k \in 1..Len(t)
      BY ONLY <1>1, <3>1, m \in 1..Len(t)
    <3>3. a - 1 + k = p + (m + k)
      BY ONLY <1>1, <1>4, <2>2, <3>1, m \in 1..Len(t)
    <3> QED BY <1>5, <1>6, <2>9, <2>10, <3>1, <3>2, <3>3
  <2>12. w \in Seq(S) /\ Len(e) = Len(w)
    BY <1>6, <2>2, <2>9, <2>10
  <2>13. e = w
    BY ONLY <2>9, <2>11, <2>12, SeqEqual
  <2> QED BY <2>7, <2>8, <2>10, <2>13
<1> QED BY <1>7, <1>8

-----------------------------------------------------------------------------
(* By name. *)

LEMMA NameDecides ==
    ASSUME NEW S, Slash \in S, NEW f \in Seq(S), NEW g \in Seq(S), CheckFilter(f, g, FALSE)
    PROVE  /\ Len(NameOf(g)) # 1
           /\ ReverseFind(g, Slash) > Len(NameOf(g)) => \E i \in DOMAIN f : f[i] = Slash
<1>1. Len(f) \in Nat /\ Len(g) \in Nat /\ DOMAIN f = 1..Len(f)
  BY LenProperties
<1>2. PICK n : n = ReverseFind(g, Slash)
  OBVIOUS
<1>3. n \in -1..(Len(g) - 1) /\ (n >= 0 => g[n + 1] = Slash)
  BY <1>2, ReverseFindIs
<1>4. NameToCompare(g) # <<>> /\ EndsEntry(f, NameToCompare(g))
  BY DEF CheckFilter, StrCompare
<1>5. n >= 0 /\ n # Len(g) - 2 /\ NameToCompare(g) = Right(g, n)
  BY <1>2, <1>4 DEF NameToCompare, NameIsTaken
<1>6. PICK m \in 0..Len(g) : m = Len(g) - n - 1
  <2>1. Len(g) - n - 1 \in 0..Len(g)
    BY ONLY <1>1, <1>3, <1>5
  <2> QED BY <2>1
<1>7. NameOf(g) = Right(g, m) /\ Len(Right(g, m)) = m
  <2>1. Len(Right(g, m)) = m
    BY RightIs
  <2> QED BY <1>2, <1>6, <2>1 DEF NameOf
<1>8. m # 1
  BY ONLY <1>1, <1>3, <1>5, <1>6
<1>9. ASSUME n > m PROVE \E i \in DOMAIN f : f[i] = Slash
  <2>1. PICK t : t = Right(g, n)
    OBVIOUS
  <2>2. n \in 0..Len(g)
    BY ONLY <1>1, <1>3, <1>5
  <2>3. t \in Seq(S) /\ Len(t) = n /\ \A i \in 1..n : t[i] = g[Len(g) - n + i]
    BY ONLY g \in Seq(S), <2>1, <2>2, RightIs
  <2>4. PICK i : i = n - m
    OBVIOUS
  <2>5. i \in 1..n /\ Len(g) - n + i = n + 1
    BY ONLY <1>1, <1>6, <1>9, <2>2, <2>4
  <2>6. t[i] = Slash
    BY <1>3, <1>5, <2>3, <2>5
  <2>7. PICK p \in Nat : p + Len(t) <= Len(f) /\ \A k \in 1..Len(t) : f[p + k] = t[k]
    <3>1. Find(f, t) >= 0
      BY <1>4, <1>5, <2>1 DEF EndsEntry
    <3>2. Find(f, t) \in Places(f, t) \cup {-1} /\ Places(f, t) \in SUBSET Nat
      BY <2>3, FindIs, PlacesType
    <3>3. PICK p \in Nat : p \in Places(f, t)
      BY <3>1, <3>2
    <3>4. p \in Places(f, t) <=> IsAt(f, t, p)
      BY ONLY f \in Seq(S), <2>3, PlacesIs
    <3> QED BY <3>3, <3>4 DEF IsAt
  <2>8. p + i \in 1..Len(f) /\ i \in 1..Len(t)
    BY <1>1, <2>2, <2>3, <2>5, <2>7
  <2> QED BY <1>1, <2>6, <2>7, <2>8
<1> QED BY <1>2, <1>7, <1>8, <1>9

\* What CheckFilter compares is a part of the path.
LEMMA CompareType ==
    ASSUME NEW S, Slash \in S, Dot \in S, NEW g \in Seq(S), NEW bExt \in BOOLEAN
    PROVE  StrCompare(g, bExt) \in Seq(S)
<1>1. Len(g) \in Nat /\ <<>> \in Seq(S)
  BY LenProperties, EmptySeq
<1>2. PICK x, y : x = ReverseFind(g, Slash) /\ y = ReverseFind(g, Dot)
  OBVIOUS
<1>3. x \in -1..(Len(g) - 1) /\ y \in -1..(Len(g) - 1)
  BY <1>2, ReverseFindIs
<1>4. \A n \in 0..Len(g) : Right(g, n) \in Seq(S)
  BY RightIs
<1>5. NameToCompare(g) \in Seq(S)
  <2>1. CASE NameIsTaken(g)
    <3>1. x \in 0..Len(g)
      BY <1>1, <1>2, <1>3, <2>1 DEF NameIsTaken
    <3> QED BY <1>2, <1>4, <2>1, <3>1 DEF NameToCompare
  <2>2. CASE ~NameIsTaken(g)
    BY <1>1, <2>2 DEF NameToCompare
  <2> QED BY <2>1, <2>2
<1>6. PathFindExtension(g) \in Seq(S)
  <2>1. CASE y > x
    <3>1. PICK n : n = Len(g) - y
      OBVIOUS
    <3>2. n \in 0..Len(g)
      BY ONLY <1>1, <1>3, <2>1, <3>1
    <3>3. Right(g, n) \in Seq(S)
      BY <1>4, <3>2
    <3> QED BY <1>1, <1>2, <3>1, <3>3 DEF PathFindExtension
  <2>2. CASE ~(y > x)
    BY <1>1, <1>2, <2>2 DEF PathFindExtension
  <2> QED BY <2>1, <2>2
<1> QED BY <1>5, <1>6 DEF StrCompare

-----------------------------------------------------------------------------
(* The way of a path. *)

LEMMA RightOfEnd ==
    ASSUME NEW S, NEW u \in Seq(S), NEW v \in Seq(S), NEW n \in 0..Len(v)
    PROVE  Right(u \o v, n) = Right(v, n)
<1>1. PICK h : h = u \o v
  OBVIOUS
<1>2. Len(u) \in Nat /\ Len(v) \in Nat
  BY LenProperties
<1>3. /\ h \in Seq(S) /\ Len(h) = Len(u) + Len(v)
      /\ \A i \in 1..(Len(u) + Len(v)) : h[i] = IF i <= Len(u) THEN u[i] ELSE v[i - Len(u)]
  BY <1>1, ConcatProperties
<1>4. n \in 0..Len(h)
  BY <1>2, <1>3
<1>5. PICK a, b : a = Right(h, n) /\ b = Right(v, n)
  OBVIOUS
<1>6. a \in Seq(S) /\ Len(a) = n /\ \A i \in 1..n : a[i] = h[Len(h) - n + i]
  BY ONLY <1>3, <1>4, <1>5, RightIs
<1>7. b \in Seq(S) /\ Len(b) = n /\ \A i \in 1..n : b[i] = v[Len(v) - n + i]
  BY ONLY v \in Seq(S), n \in 0..Len(v), <1>5, RightIs
<1>8. \A i \in 1..n : a[i] = b[i]
  <2> TAKE i \in 1..n
  <2>1. PICK k : k = Len(h) - n + i
    OBVIOUS
  <2>2. k \in 1..(Len(u) + Len(v)) /\ ~(k <= Len(u)) /\ k - Len(u) = Len(v) - n + i
    BY ONLY <1>2, <1>3, <2>1, n \in 0..Len(v), i \in 1..n
  <2> QED BY <1>3, <1>6, <1>7, <2>1, <2>2
<1>9. a = b
  BY ONLY <1>6, <1>7, <1>8, SeqEqual
<1> QED BY <1>1, <1>5, <1>9

LEMMA PathIs ==
    ASSUME NEW S, Slash \in S, NEW dir \in Seq(S), NEW file \in Seq(S)
    PROVE  /\ <<Slash>> \o file \in Seq(S)
           /\ FilePath(dir, file) \in Seq(S)
           /\ FilePath(dir, file) = (dir \o <<Slash>>) \o file
           /\ Len(FilePath(dir, file)) = Len(dir) + 1 + Len(file)
<1>1. <<Slash>> \in Seq(S) /\ Len(<<Slash>>) = 1 /\ Len(dir) \in Nat /\ Len(file) \in Nat
  BY LenProperties
<1>2. PICK one \in Seq(S) : one = <<Slash>> /\ Len(one) = 1
  BY <1>1
<1>3. one \o file \in Seq(S) /\ Len(one \o file) = 1 + Len(file)
  BY <1>2, ConcatProperties
<1>4. dir \o (one \o file) \in Seq(S) /\ Len(dir \o (one \o file)) = Len(dir) + (1 + Len(file))
  <2>1. PICK end : end = one \o file
    OBVIOUS
  <2>2. dir \o end \in Seq(S) /\ Len(dir \o end) = Len(dir) + Len(end)
    BY ONLY dir \in Seq(S), <1>3, <2>1, ConcatProperties
  <2> QED BY <1>3, <2>1, <2>2
<1>5. (dir \o one) \o file = dir \o (one \o file)
  BY ConcatAssociative
<1> QED BY <1>1, <1>2, <1>3, <1>4, <1>5 DEF FilePath

\* A source that is not longer than its full path leaves the rest of that.
LEMMA ShorterSource ==
    ASSUME NEW S, Slash \in S, NEW dir \in Seq(S), NEW file \in Seq(S), NEW src \in Seq(S),
           Len(src) <= Len(dir)
    PROVE  RelativePath(src, FilePath(dir, file)) = FilePath(SubSeq(dir, Len(src) + 1, Len(dir)), file)
<1>1. Len(src) \in Nat /\ Len(dir) \in Nat
  BY LenProperties
<1>2. PICK k \in 0..Len(dir) : k = Len(src)
  BY <1>1
<1>3. PICK head, rest : head = SubSeq(dir, 1, k) /\ rest = SubSeq(dir, k + 1, Len(dir))
  OBVIOUS
<1>4. head \in Seq(S) /\ Len(head) = k /\ rest \in Seq(S) /\ dir = head \o rest
  BY ONLY dir \in Seq(S), <1>3, CutSeq
<1>5. PICK end : end = <<Slash>> \o file
  OBVIOUS
<1>6. end \in Seq(S)
  BY <1>5, PathIs
<1>7. FilePath(rest, file) = rest \o end /\ rest \o end \in Seq(S)
  BY <1>4, <1>5, <1>6, ConcatProperties DEF FilePath
<1>8. FilePath(dir, file) = head \o (rest \o end)
  <2>1. (head \o rest) \o end = head \o (rest \o end)
    BY ONLY <1>4, <1>6, ConcatAssociative, SMTT(30)
  <2>2. FilePath(dir, file) = dir \o end
    BY ONLY <1>5 DEF FilePath
  <2> QED BY ONLY <1>4, <2>1, <2>2, Zenon
<1>9. PICK v : v = rest \o end
  OBVIOUS
<1>10. v \in Seq(S) /\ Len(v) \in Nat
  BY <1>7, <1>9, LenProperties
<1>11. Len(head \o v) = k + Len(v)
  BY <1>4, <1>10, ConcatProperties
<1>12. Right(head \o v, Len(v)) = v
  <2>1. Len(v) \in 0..Len(v)
    BY <1>10
  <2>2. Right(head \o v, Len(v)) = Right(v, Len(v))
    BY ONLY <1>4, <1>10, <2>1, RightOfEnd
  <2>3. Len(v) - Len(v) + 1 = 1
    BY <1>10
  <2>4. Right(v, Len(v)) = SubSeq(v, 1, Len(v))
    BY <2>3 DEF Right
  <2>5. SubSeq(v, 1, Len(v)) = v
    BY <1>10, SubSeqFull
  <2> QED BY <2>2, <2>4, <2>5
<1>13. (k + Len(v)) - Len(src) = Len(v)
  BY <1>1, <1>2, <1>10
<1>14. RelativePath(src, head \o v) = v
  BY <1>11, <1>12, <1>13 DEF RelativePath
<1> QED BY <1>2, <1>3, <1>7, <1>8, <1>9, <1>14

\* A longer one costs the separator and then characters of the name.
LEMMA LongerSource ==
    ASSUME NEW S, Slash \in S, NEW dir \in Seq(S), NEW file \in Seq(S), NEW src \in Seq(S),
           Len(src) > Len(dir)
    PROVE  RelativePath(src, FilePath(dir, file)) = SubSeq(file, Len(src) - Len(dir), Len(file))
<1>1. Len(src) \in Nat /\ Len(dir) \in Nat /\ Len(file) \in Nat
  BY LenProperties
<1>2. PICK h : h = FilePath(dir, file)
  OBVIOUS
<1>3. h \in Seq(S) /\ h = (dir \o <<Slash>>) \o file /\ Len(h) = Len(dir) + 1 + Len(file)
  BY <1>2, PathIs
<1>4. PICK n : n = Len(h) - Len(src)
  OBVIOUS
<1>5. /\ n \in Int /\ n = Len(file) - (Len(src) - Len(dir)) + 1
      /\ Len(file) - n + 1 = Len(src) - Len(dir) /\ n <= Len(file)
      /\ Len(src) - Len(dir) \in Int
  BY ONLY <1>1, <1>3, <1>4, Len(src) > Len(dir)
<1>6. Right(file, n) = SubSeq(file, Len(src) - Len(dir), Len(file))
  BY <1>5 DEF Right
<1>7. Right(h, n) = Right(file, n)
  <2>1. CASE n >= 0
    <3>1. n \in 0..Len(file)
      BY <1>1, <1>5, <2>1
    <3>2. PICK u \in Seq(S) : u = dir \o <<Slash>>
      <4>1. <<Slash>> \in Seq(S)
        OBVIOUS
      <4> QED BY <4>1, JoinType
    <3>3. Right(u \o file, n) = Right(file, n)
      BY ONLY file \in Seq(S), <3>1, u \in Seq(S), RightOfEnd
    <3> QED BY <1>3, <3>2, <3>3
  <2>2. CASE ~(n >= 0)
    <3>1. /\ Len(h) - n + 1 \in Int /\ Len(h) \in Int /\ Len(h) < Len(h) - n + 1
          /\ Len(file) - n + 1 \in Int /\ Len(file) \in Int /\ Len(file) < Len(file) - n + 1
      BY <1>1, <1>3, <1>5, <2>2
    <3>2. SubSeq(h, Len(h) - n + 1, Len(h)) = <<>>
      BY <3>1, SubSeqEmpty
    <3>3. SubSeq(file, Len(file) - n + 1, Len(file)) = <<>>
      BY <3>1, SubSeqEmpty
    <3> QED BY <3>2, <3>3 DEF Right
  <2> QED BY <2>1, <2>2
<1> QED BY <1>2, <1>4, <1>6, <1>7 DEF RelativePath

LEMMA Cancels ==
    ASSUME NEW S, NEW u \in Seq(S), NEW v \in Seq(S), NEW w \in Seq(S), u \o v = u \o w
    PROVE  v = w
BY ConcatSimplifications

-----------------------------------------------------------------------------
(* What is typed. *)

TextsType == filter \in Seq(Characters) /\ source \in Seq(Characters) /\ name \in Names

LEMMA TextsTypeStep == ASSUME TextsType, [TypeText]_<<filter, source, name>> PROVE TextsType'
<1>1. CASE TypeFilter
  BY <1>1, AppendProperties DEF TypeFilter, TextsType
<1>2. CASE TypeSource
  BY <1>2, AppendProperties DEF TypeSource, TextsType
<1>3. CASE UNCHANGED <<filter, source, name>>
  BY <1>3 DEF TextsType
<1> QED BY <1>1, <1>2, <1>3 DEF TypeText

LEMMA TextsTyped == TextSpec => []TextsType
<1>1. NoText => TextsType
  BY EmptySeq DEF NoText, TextsType
<1> QED BY <1>1, TextsTypeStep, PTL DEF TextSpec

LEMMA CharactersAre ==
    Slash \in Characters /\ Dot \in Characters /\ Separators \subseteq Characters
BY DEF Characters, Separators

\* FilterReadsText, for every filter and source that can be typed, whatever full
\* path CFileFind makes of the source and whatever files it finds there: what the
\* search of CheckFilter decides, by extension and by name.
THEOREM FilterReadsTextAlways == TextSpec => []FilterReadsText
<1>1. TextsType => FilterReadsText
  <2> SUFFICES ASSUME TextsType, Searched PROVE FilterReadsText
    BY DEF FilterReadsText
  <2>1. PICK f, g : f = filter /\ g = path
    OBVIOUS
  <2>2. f \in Seq(Characters) /\ g \in Seq(Characters)
    <3>1. Directory[source] \in Seq(Characters) /\ name \in Seq(Characters)
      BY TextAssumption DEF TextsType, Searched
    <3>2. FilePath(Directory[source], name) \in Seq(Characters)
      BY <3>1, CharactersAre, PathIs
    <3> QED BY <2>1, <3>2 DEF TextsType, path
  <2>3. ASSUME NEW bExt \in BOOLEAN, NEW t, t = StrCompare(g, bExt), t # <<>>
        PROVE  IF Separated(t)
               THEN CheckFilter(f, g, bExt) =>
                       \/ LastWord(t) = <<>>
                       \/ \E span \in EntrySpans(f) : Entry(f, span) = LastWord(t)
               ELSE CheckFilter(f, g, bExt) <=>
                       \E span \in Holders(f, t) :
                          /\ \A other \in Holders(f, t) : span[1] <= other[1]
                          /\ Find(Entry(f, span), t) = Len(Entry(f, span)) - Len(t)
    <3>1. t \in Seq(Characters)
      BY <2>2, <2>3, CharactersAre, CompareType
    <3>2. CheckFilter(f, g, bExt) <=> EndsEntry(f, t)
      BY <2>3 DEF CheckFilter
    <3>3. CASE Separated(t)
      BY <2>2, <3>1, <3>2, <3>3, CharactersAre, LastWordDecides
    <3>4. CASE ~Separated(t)
      <4>1. \A i \in 1..Len(t) : t[i] \notin Separators
        BY <3>1, <3>4, LenProperties DEF Separated, Separators
      <4>2. EndsEntry(f, t) <=>
               \E span \in Holders(f, t) :
                  /\ \A other \in Holders(f, t) : span[1] <= other[1]
                  /\ Find(Entry(f, span), t) = Len(Entry(f, span)) - Len(t)
        BY ONLY <2>2, <3>1, <4>1, t # <<>>, ExtensionDecides
      <4> QED BY <3>2, <3>4, <4>2
    <3> QED BY <3>3, <3>4
  <2>4. CheckFilter(f, g, FALSE) =>
           /\ Len(NameOf(g)) # 1
           /\ ReverseFind(g, Slash) > Len(NameOf(g)) => \E i \in DOMAIN f : f[i] = Slash
    BY <2>2, CharactersAre, NameDecides
  <2> QED BY <2>1, <2>3, <2>4 DEF FilterReadsText, Holders
<1> QED BY <1>1, TextsTyped, PTL

\* DestinationOfSource, for every source that can be typed, whatever full path
\* CFileFind makes of it: where GetFile writes the files directly in it.
THEOREM DestinationOfSourceAlways == TextSpec => []DestinationOfSource
<1>1. TextsType => DestinationOfSource
  <2> SUFFICES ASSUME TextsType, Searched PROVE DestinationOfSource
    BY DEF DestinationOfSource
  <2> DEFINE Dest(file) == Destination(SavePath, RelativePath(source, FilePath(Directory[source], file)))
  <2>1. PICK dir : dir = Directory[source]
    OBVIOUS
  <2>2. /\ dir \in Seq(Characters) /\ source \in Seq(Characters) /\ SavePath \in Seq(Characters)
        /\ name \in Names /\ (IsFullPath(source) => dir = source)
    BY <2>1, TextAssumption DEF TextsType, Searched
  <2>3. Len(dir) \in Nat /\ Len(source) \in Nat
    BY <2>2, LenProperties
  <2>4. PICK rest : rest = SubSeq(dir, Len(source) + 1, Len(dir))
    OBVIOUS
  <2>5. ASSUME NEW file \in Names
        PROVE  /\ file \in Seq(Characters)
               /\ Len(source) <= Len(dir) => Dest(file) = SavePath \o FilePath(rest, file)
               /\ Len(source) > Len(dir) =>
                     Dest(file) = SavePath \o SubSeq(file, Len(source) - Len(dir), Len(file))
    <3>1. file \in Seq(Characters)
      BY TextAssumption
    <3>2. Len(source) <= Len(dir) => RelativePath(source, FilePath(dir, file)) = FilePath(rest, file)
      BY <2>2, <2>4, <3>1, CharactersAre, ShorterSource
    <3>3. Len(source) > Len(dir) =>
             RelativePath(source, FilePath(dir, file)) = SubSeq(file, Len(source) - Len(dir), Len(file))
      BY <2>2, <3>1, CharactersAre, LongerSource
    <3> QED BY <2>1, <3>1, <3>2, <3>3 DEF Destination
  <2> HIDE DEF Dest
  <2>6. /\ Len(source) - Len(dir) <= 0 <=> Len(source) <= Len(dir)
        /\ Len(source) - Len(dir) > 0 <=> Len(source) > Len(dir)
    BY <2>3
  <2>7. IsFullPath(source) => Dest(name) = FilePath(SavePath, name)
    <3> SUFFICES ASSUME IsFullPath(source) PROVE Dest(name) = FilePath(SavePath, name)
      OBVIOUS
    <3>1. dir = source /\ Len(source) <= Len(dir)
      BY <2>2, <2>3
    <3>2. rest = <<>>
      BY <2>3, <2>4, <3>1, SubSeqEmpty
    <3>3. FilePath(rest, name) = <<Slash>> \o name
      <4>1. <<Slash>> \o name \in Seq(Characters)
        BY <2>2, <2>5, CharactersAre, PathIs
      <4> QED BY <3>2, <4>1, ConcatEmptySeq DEF FilePath
    <3> QED BY <2>2, <2>5, <3>1, <3>3 DEF FilePath
  <2>8. ASSUME NEW other \in Names, Len(source) - Len(dir) <= 1, Dest(other) = Dest(name)
        PROVE  other = name
    <3>1. other \in Seq(Characters) /\ name \in Seq(Characters)
      BY <2>2, <2>5
    <3>2. CASE Len(source) <= Len(dir)
      <4>1. rest \in Seq(Characters)
        <5>1. PICK k \in 0..Len(dir) : k = Len(source)
          BY <2>3, <3>2
        <5>2. SubSeq(dir, k + 1, Len(dir)) \in Seq(Characters)
          BY ONLY <2>2, CutSeq
        <5> QED BY <2>4, <5>1, <5>2
      <4>2. PICK one : one = <<Slash>>
        OBVIOUS
      <4>3. one \in Seq(Characters)
        BY <4>2, CharactersAre
      <4>4. /\ one \o other \in Seq(Characters) /\ one \o name \in Seq(Characters)
            /\ FilePath(rest, other) = rest \o (one \o other)
            /\ FilePath(rest, name) = rest \o (one \o name)
            /\ FilePath(rest, other) \in Seq(Characters) /\ FilePath(rest, name) \in Seq(Characters)
        <5>1. one \o other \in Seq(Characters) /\ one \o name \in Seq(Characters)
          BY <3>1, <4>3, JoinType
        <5>2. rest \o (one \o other) \in Seq(Characters) /\ rest \o (one \o name) \in Seq(Characters)
          BY ONLY <4>1, <5>1, JoinType
        <5> QED BY <4>2, <5>1, <5>2 DEF FilePath
      <4>5. SavePath \o FilePath(rest, other) = SavePath \o FilePath(rest, name)
        BY <2>2, <2>5, <2>8, <3>2
      <4>6. FilePath(rest, other) = FilePath(rest, name)
        BY ONLY <2>2, <4>4, <4>5, Cancels
      <4>7. one \o other = one \o name
        BY ONLY <4>1, <4>4, <4>6, Cancels
      <4> QED BY ONLY <3>1, <4>3, <4>7, Cancels
    <3>3. CASE Len(source) > Len(dir)
      <4>1. Len(source) - Len(dir) = 1
        BY <2>3, <2>8, <3>3
      <4>2. SubSeq(other, 1, Len(other)) = other /\ SubSeq(name, 1, Len(name)) = name
        BY <3>1, SubSeqFull
      <4>3. Dest(other) = SavePath \o other /\ Dest(name) = SavePath \o name
        BY <2>2, <2>5, <3>3, <4>1, <4>2
      <4> QED BY <2>2, <2>8, <3>1, <4>3, Cancels
    <3> QED BY <2>3, <3>2, <3>3
  <2> QED BY <2>1, <2>2, <2>4, <2>5, <2>6, <2>7, <2>8 DEF DestinationOfSource, Dest
<1> QED BY <1>1, TextsTyped, PTL
=============================================================================
