\* Four processes with sleeps of one to four ticks: four timers can be armed
\* at four different deadlines, or share one.
CONSTANTS
    Proc = {p1, p2, p3, p4}
    Times = {1, 2, 3, 4}
SPECIFICATION Spec
INVARIANT HeadNotDue
PROPERTY ImplementsDeadlines
