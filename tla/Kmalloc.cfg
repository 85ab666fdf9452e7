\* Nine pages, of which the buddy manager makes a block of eight. The list managers keep
\* the last page, so that no block is freed above all free ones. A page has five units:
\* blocks of two and three units, and large ones of one and two pages.
CONSTANTS
    NPages = 9
    BUDDY_MAX_ORDER = 4
    Managers = {"default", "best_fit", "buddy"}
    Callers = {p0, p1, p2, s0, s1, u0, u1, u2}
    MaxRequest = 4
    TailKept = TRUE
    PageUnits = 5
    Slots = {s0, s1}
    Users = {u0, u1, u2}
    Sizes = {1, 2, 5, 10}
SYMMETRY CallerSymmetry
SPECIFICATION HeapSpec
INVARIANT HeapTypeOK
INVARIANT BlocksExact
INVARIANT NoFalseFailure
INVARIANT HeapExact
PROPERTY ImplementsAllocator
PROPERTY ImplementsHeap
