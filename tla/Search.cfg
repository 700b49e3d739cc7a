\* Every filter and source of up to 5 characters together, any of the six; a
\* tree of six directories with up to three Stops while it is searched.
CONSTANTS
    Dirs <- TreeDirs
    Files <- TreeFiles
    Root = "top"
    Listing <- Tree
    Dots = "dots"
    Filtered = {"objects", "obj"}
    Unreadable = {"locked"}
    MaxStops = 3
    Slash = "slash"
    Dot = "dot"
    Blank = "blank"
    Semicolon = "semicolon"
    Colon = "colon"
    Letters = {"A"}
    Names <- SomeNames
    SavePath <- Target
    Directory <- FullPath
    MaxTyped = 5
SPECIFICATION MCSpec
INVARIANTS ListedInOrder CountsAreSeen OneLevelPerStop FilterReadsText DestinationOfSource
CHECK_DEADLOCK FALSE
