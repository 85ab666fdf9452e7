\* Memory may be exhausted, so that a block is freed above all free blocks.
CONSTANTS
    NPages = 4
    BUDDY_MAX_ORDER = 2
    Managers = {"default"}
    Callers = {p0, p1, p2}
    MaxRequest = 2
    TailKept = FALSE
SPECIFICATION Spec
INVARIANT NeverTwice
CHECK_DEADLOCK FALSE
