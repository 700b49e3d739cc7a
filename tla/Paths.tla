------------------------------- MODULE Paths -------------------------------
(***************************************************************************)
(* The text the search decides by: CJokeAssistApp::CheckFilter, the path   *)
(* relative to the source directory that AccessDirectory stores, and the   *)
(* destination GetFile makes of it.  A text is a sequence of characters,   *)
(* already in upper case (MakeUpper).  Positions count from 0, as in       *)
(* CString.  What CFileFind makes of the source is modelled as it is used. *)
(*                                                                         *)
(* Definitions marked "Mistake" are ways the definition after them could   *)
(* have been written wrong; they are used by no other definition.          *)
(***************************************************************************)
EXTENDS Integers, SequencesExt

CONSTANTS Slash, Dot, Blank, Semicolon,  \* the characters the code looks for
          Colon                          \* that of a drive, CFileFind looks for

ASSUME PathsAssumption ==
    /\ Slash \notin {Dot, Blank, Semicolon, Colon} /\ Dot \notin {Blank, Semicolon, Colon}
    /\ Blank \notin {Semicolon, Colon} /\ Semicolon # Colon

-----------------------------------------------------------------------------
(* CString and PathFindExtension. *)

\* Where t occurs in s.
Places(s, t) == {p \in 0..(Len(s) - Len(t)) : SubSeq(s, p + 1, p + Len(t)) = t}

\* CString::Find of the whole text: the first place, or -1.
Find(s, t) == IF Places(s, t) = {} THEN -1 ELSE Min(Places(s, t))

\* CString::ReverseFind of one character: the last place, or -1.
ReverseFind(s, ch) == Max({-1} \cup Places(s, <<ch>>))

\* CString::Right: the last n characters, none if n is negative.  Nobody asks
\* for more than there are.
Right(s, n) == SubSeq(s, Len(s) - n + 1, Len(s))

\* PathFindExtension: from the last dot that no backslash or blank follows.
PathFindExtension(s) ==
    LET dot == ReverseFind(s, Dot)
    IN  IF dot > ReverseFind(s, Slash) /\ dot > ReverseFind(s, Blank)
        THEN Right(s, Len(s) - dot) ELSE <<>>

-----------------------------------------------------------------------------
(* CheckFilter. *)

\* The condition under which the name is compared at all.
NameIsTaken(path) ==
    LET nPos == ReverseFind(path, Slash) IN nPos >= 0 /\ nPos # Len(path) - 2

\* strCompare with bExt FALSE.  Right(nPos) takes as many characters from the
\* end of the path as the directory before the name has.
NameToCompare(path) ==
    IF NameIsTaken(path) THEN Right(path, ReverseFind(path, Slash)) ELSE <<>>

\* Mistake: any occurrence will do.
SomewhereEnded(filter, text) ==
    \E p \in Places(filter, text) :
        LET nPos == p + Len(text)
        IN  nPos = Len(filter) \/ filter[nPos + 1] \in {Blank, Semicolon}

\* The first occurrence in the filter is followed by a separator or the end.
EndsEntry(filter, text) ==
    LET nPos == Find(filter, text) + Len(text)
    IN  /\ Find(filter, text) >= 0
        /\ nPos = Len(filter) \/ filter[nPos + 1] \in {Blank, Semicolon}

StrCompare(path, bExt) == IF bExt THEN PathFindExtension(path) ELSE NameToCompare(path)

CheckFilter(filter, path, bExt) ==
    StrCompare(path, bExt) # <<>> /\ EndsEntry(filter, StrCompare(path, bExt))

\* The condition AccessDirectory leaves an entry out by.
LeftOut(filter, path) == CheckFilter(filter, path, TRUE) \/ CheckFilter(filter, path, FALSE)

-----------------------------------------------------------------------------
(* CFileFind.  FindFile keeps the full path of the directory it is to      *)
(* search, GetFilePath puts the names found behind it.                     *)

\* One more segment of a path, below the full path of a directory; no segment
\* leads above the drive.
Enter(dir, segment) ==
    CASE segment \in {<<>>, <<Dot>>} -> dir
      [] segment = <<Dot, Dot>> -> SubSeq(dir, 1, Max({2, ReverseFind(dir, Slash)}))
      [] OTHER -> dir \o <<Slash>> \o segment

\* The full path of what is before "*.*" in FindFile's argument: from the drive,
\* the current directory of the drive or the current directory.
FullDirectory(current, source) ==
    LET text == source \o <<Slash>>
        Read(sofar, ch) ==
            IF ch = Slash THEN [dir |-> Enter(sofar.dir, sofar.segment), segment |-> <<>>]
                          ELSE [sofar EXCEPT !.segment = Append(@, ch)]
        From(dir, rest) == FoldLeft(Read, [dir |-> dir, segment |-> <<>>], rest).dir
        OnDrive == Len(text) > 2 /\ text[2] = Colon
    IN  CASE OnDrive /\ text[3] = Slash -> From(SubSeq(text, 1, 2), SubSeq(text, 3, Len(text)))
          [] OnDrive /\ text[3] # Slash -> From(current, SubSeq(text, 3, Len(text)))
          [] text[1] = Slash           -> From(SubSeq(current, 1, 2), text)
          [] OTHER                     -> From(current, text)

\* A full path, which stays as it is: a drive and names behind it, none of them
\* empty or with a dot at its end.
IsFullPath(source) ==
    /\ Len(source) > 1 /\ source[2] = Colon
    /\ Len(source) > 2 => source[3] = Slash
    /\ \A i \in 3..Len(source) :
          source[i] \in {Slash, Dot} => i < Len(source) /\ source[i + 1] # Slash

FilePath(dir, name) == dir \o (<<Slash>> \o name)

-----------------------------------------------------------------------------
(* The way of a path from the source to the destination. *)

\* Mistake: the separator goes with the directory.
WithoutSlash(source, file) == Right(file, Len(file) - Len(source) - 1)

\* strReletivePath: what is longer than m_strDirectory.
RelativePath(source, file) == Right(file, Len(file) - Len(source))

\* strFileName in GetFile.
Destination(save, relative) == save \o relative

-----------------------------------------------------------------------------
(* Reference definitions. *)

\* The entries of a filter, as the spans between its separators.
EntrySpans(filter) ==
    {span \in (1..Len(filter)) \X (1..Len(filter)) :
        /\ span[1] <= span[2]
        /\ \A k \in span[1]..span[2] : filter[k] \notin {Blank, Semicolon}
        /\ span[1] = 1 \/ filter[span[1] - 1] \in {Blank, Semicolon}
        /\ span[2] = Len(filter) \/ filter[span[2] + 1] \in {Blank, Semicolon}}

Entry(filter, span) == SubSeq(filter, span[1], span[2])

\* A text in which a filter ends an entry.
Separated(text) == \E i \in DOMAIN text : text[i] \in {Blank, Semicolon}

\* What follows the last of these places.
LastWord(text) ==
    Right(text, Len(text) - 1 - Max({ReverseFind(text, Blank), ReverseFind(text, Semicolon)}))

\* The name of a path, which is what follows its last backslash.
NameOf(path) == Right(path, Len(path) - ReverseFind(path, Slash) - 1)
=============================================================================
