------------------------------ MODULE MCSearch ------------------------------
(* The dialog's edit fields and a small tree.  The user types any short     *)
(* filter and source, one character at a time; the search runs for those of *)
(* the tree, which is filtered by what CheckFilter says of its paths.       *)
EXTENDS Search, Texts

\* With a dot, a blank and a separator of entries in some, one of one character.
SomeNames == {<<"A">>, <<"A", "A">>, <<Dot, "A">>, <<"A", Dot, "A">>, <<"A", Blank, "A">>,
              <<Dot, "A", Semicolon, "A">>, <<"A", Semicolon>>}

Target == <<"A", Colon, Slash, "A", "A">>

CurrentDirectory == <<"A", Colon, Slash, "A">>

(* The sources that name a directory of the only drive.  Left out are those *)
(* FindFile takes for a network path and those with a name whose last dot   *)
(* the system may or may not drop.                                          *)
OnNetwork(s) == s = <<Slash>> \/ (Len(s) > 1 /\ s[1] = Slash /\ s[2] = Slash)

ColonsOfDrive(s) == \A i \in DOMAIN s : s[i] = Colon => i = 2 /\ s[1] \in Letters

Starts(s, i) == i = 1 \/ s[i - 1] \in {Slash, Colon}

DotsAlone(s) ==
    \A i \in DOMAIN s :
        s[i] = Dot /\ (i = Len(s) \/ s[i + 1] = Slash) =>
            Starts(s, i) \/ (s[i - 1] = Dot /\ Starts(s, i - 1))

Sources == {s \in UNION {[1..n -> Characters] : n \in 1..MaxTyped} :
               ~OnNetwork(s) /\ ColonsOfDrive(s) /\ DotsAlone(s)}

FullPath == [s \in Sources |-> FullDirectory(CurrentDirectory, s)]

\* Three levels, files before and after a directory at each, a directory that
\* the filter names, one that is empty and one that cannot be opened.
Tree == [top   |-> <<"dots", "first", "inner", "objects", "middle", "locked", "last">>,
         inner |-> <<"dots", "dots", "obj", "deep", "after">>,
         deep  |-> <<"dots", "leaf", "empty">>,
         empty |-> <<"dots", "dots">>,
         objects |-> <<"dots", "hidden">>,
         locked |-> <<"unseen">>]

TreeDirs == DOMAIN Tree

TreeFiles == {"first", "middle", "last", "obj", "after", "leaf", "hidden", "unseen"}

TreeFilter == <<Dot, "A">>
TreeSource == <<Dot>>
TreeName   == <<"A", "A">>

Name(e) == CASE e = "objects" -> <<"A", "A", Dot, "A">>
             [] e = "obj"     -> <<"A", Dot, "A">>
             [] e = "middle"  -> <<"A", Dot, "A", "A">>
             [] OTHER         -> <<"A", "A">>

Parent(e) == CHOOSE d \in TreeDirs : \E k \in DOMAIN Tree[d] : Tree[d][k] = e

PathOf[e \in TreeDirs \cup TreeFiles] ==
    IF e = Root THEN FullDirectory(CurrentDirectory, TreeSource)
                ELSE FilePath(PathOf[Parent(e)], Name(e))

ASSUME FilterAssumption ==
    Filtered = {e \in TreeDirs \cup TreeFiles : LeftOut(TreeFilter, PathOf[e])}

-----------------------------------------------------------------------------
MCInit == Init /\ NoText

\* Texts are typed before the search.
Typing == pc = "begin" /\ stops = 0 /\ TypeText /\ UNCHANGED vars

SearchTree ==
    /\ filter = TreeFilter /\ source = TreeSource /\ name = TreeName
    /\ Next /\ UNCHANGED <<filter, source, name>>

MCNext == Typing \/ SearchTree

MCSpec == MCInit /\ [][MCNext]_<<vars, filter, source, name>>
=============================================================================
