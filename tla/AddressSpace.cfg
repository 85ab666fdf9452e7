\* Three processes, so that a page is shared by three; frames for two address spaces
\* and a half, so that every allocation fails somewhere.
CONSTANTS
    Procs = {p1, p2, p3}
    First = p1
    NFrames = 21
    NPTEENTRY = 2
    NPDEENTRY = 2
    NDirs = 2
    StackPages = 1
    Programs <- MCPrograms
    Values = {0, 1}
SPECIFICATION Spec
SYMMETRY LaterSymmetry
INVARIANT TypeOK
INVARIANT RefsExact
INVARIANT NoPageLost
PROPERTY ImplementsPrivateMemory
CHECK_DEADLOCK FALSE
