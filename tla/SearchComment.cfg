\* The condition on the path does not depend on the filter.
CONSTANTS
    Dirs <- TreeDirs
    Files <- TreeFiles
    Root = "top"
    Listing <- Tree
    Dots = "dots"
    Filtered = {"objects", "obj"}
    Unreadable = {"locked"}
    MaxStops = 3
    Slash = "slash"
    Dot = "dot"
    Blank = "blank"
    Semicolon = "semicolon"
    Colon = "colon"
    Letters = {"A"}
    Names <- SomeNames
    SavePath <- Target
    Directory <- FullPath
    MaxTyped = 2
SPECIFICATION MCSpec
INVARIANTS SlashNotLast
CHECK_DEADLOCK FALSE
