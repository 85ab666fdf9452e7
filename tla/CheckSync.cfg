\* Four philosophers, so that two may eat at once, with two meals each.
CONSTANTS
    N = 4
    TIMES = 2
SPECIFICATION Spec
INVARIANT TypeOK
INVARIANT GrantsMatch
INVARIANT OneInMonitor
INVARIANT CountsExact
PROPERTY ImplementsDining
PROPERTY EveryoneQuits
