-------------------------------- MODULE Texts --------------------------------
(***************************************************************************)
(* The texts Paths works on, as they come about: the filter and the source *)
(* directory, typed into the dialog's edit fields one character at a time, *)
(* the paths CFileFind makes of the source, and what CheckFilter and       *)
(* GetFile make of those.  Inject takes both texts as they are typed.      *)
(***************************************************************************)
EXTENDS Paths

CONSTANTS Letters,    \* characters that mean nothing to the code
          Names,      \* names of files in a source directory
          SavePath,   \* the destination typed
          Directory,  \* of a source that names a directory, its full path
          MaxTyped    \* bound: characters typed

Characters == Letters \cup {Slash, Dot, Blank, Semicolon, Colon}

ASSUME TextAssumption ==
    /\ Letters \cap {Slash, Dot, Blank, Semicolon, Colon} = {}
    /\ Names \subseteq Seq(Characters) /\ SavePath \in Seq(Characters)
    /\ \A s \in DOMAIN Directory :
          /\ s \in Seq(Characters) /\ Directory[s] \in Seq(Characters)
          /\ IsFullPath(s) => Directory[s] = s
    /\ MaxTyped \in Nat

VARIABLES filter, source,  \* the edit fields
          name             \* a file in the source directory

NoText == filter = <<>> /\ source = <<>> /\ name \in Names

CanType == Len(filter) + Len(source) < MaxTyped

TypeFilter ==
    /\ CanType /\ \E ch \in Characters : filter' = Append(filter, ch)
    /\ UNCHANGED <<source, name>>

TypeSource ==
    /\ CanType /\ \E ch \in Characters : source' = Append(source, ch)
    /\ UNCHANGED <<filter, name>>

TypeText == TypeFilter \/ TypeSource

TextSpec == NoText /\ [][TypeText]_<<filter, source, name>>

\* AccessDirectory finds files when the source names a directory.
Searched == source \in DOMAIN Directory

path == FilePath(Directory[source], name)

-----------------------------------------------------------------------------
(***************************************************************************)
(* FilterReadsText.  What CheckFilter's search of the text decides, said   *)
(* of the filter's entries, for the extension and the end of the path it   *)
(* looks for.  The file is left out if the first entry that contains that  *)
(* text ends with it and does not contain it before: an entry ".c" is dead *)
(* after an entry ".cpp", and an entry can match texts that are only its   *)
(* end.  A text with one of the filter's separators in it matches only     *)
(* where its last word is an entry or nothing.  By name, as many           *)
(* characters are looked at as the directory has: a name of one character  *)
(* never matches, and below a directory longer than the name nothing does  *)
(* without a backslash in the filter.                                      *)
(***************************************************************************)
FilterReadsText ==
    Searched =>
        /\ \A bExt \in BOOLEAN :
              LET text == StrCompare(path, bExt)
                  holders == {span \in EntrySpans(filter) : Places(Entry(filter, span), text) # {}}
              IN  text # <<>> =>
                    IF Separated(text)
                    THEN CheckFilter(filter, path, bExt) =>
                            \/ LastWord(text) = <<>>
                            \/ \E span \in EntrySpans(filter) : Entry(filter, span) = LastWord(text)
                    ELSE CheckFilter(filter, path, bExt) <=>
                            \E span \in holders :
                               /\ \A other \in holders : span[1] <= other[1]
                               /\ Find(Entry(filter, span), text) = Len(Entry(filter, span)) - Len(text)
        /\ CheckFilter(filter, path, FALSE) =>
              /\ Len(NameOf(path)) # 1
              /\ ReverseFind(path, Slash) > Len(NameOf(path)) => \E i \in DOMAIN filter : filter[i] = Slash

(***************************************************************************)
(* DestinationOfSource.  AccessDirectory cuts as many characters off the   *)
(* full path as were typed.  A source typed as a full path, without a      *)
(* backslash at its end, is replaced by the destination.  One shorter than *)
(* its full path leaves the rest of that behind the destination; one       *)
(* longer costs the separator first, then characters of the name.  So two  *)
(* files can only meet at the destination if the source was typed with at  *)
(* least two characters more than its full path has.                       *)
(***************************************************************************)
DestinationOfSource ==
    LET dir == Directory[source]
        more == Len(source) - Len(dir)
        Dest(file) == Destination(SavePath, RelativePath(source, FilePath(dir, file)))
    IN  Searched =>
            /\ IsFullPath(source) => Dest(name) = FilePath(SavePath, name)
            /\ more <= 0 =>
                  Dest(name) = SavePath \o FilePath(SubSeq(dir, Len(source) + 1, Len(dir)), name)
            /\ more > 0 => Dest(name) = SavePath \o SubSeq(name, more, Len(name))
            /\ more <= 1 => \A other \in Names : Dest(other) = Dest(name) => other = name

(***************************************************************************)
(* SlashNotLast.  "Found '\' and it is not the last character", the        *)
(* comment above the condition in CheckFilter: then the name is compared.  *)
(***************************************************************************)
SlashNotLast ==
    Searched /\ ReverseFind(path, Slash) > 0 /\ Last(path) # Slash => NameIsTaken(path)
=============================================================================
