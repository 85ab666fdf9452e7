\* Two readers that may each take what woke the other, a buffer of three
\* characters that wraps around twice, and reads of one and two characters.
CONSTANTS
    Reader = {r1, r2}
    STDIN_BUFSIZE = 3
    Lengths = {1, 2}
    MaxTyped = 7
SPECIFICATION Spec
INVARIANT TypeOK
INVARIANT NoReaderForgotten
INVARIANT UnreadInOrder
INVARIANT ReadInOrder
