--------------------------- MODULE MCAddressSpace ---------------------------
(* Programs for AddressSpace, with tables of two pages.                    *)
EXTENDS AddressSpace, TLC

Text == [start |-> 0, end |-> 1, write |-> FALSE]
Data == [start |-> 2, end |-> 3, write |-> TRUE]

\* A program within one table.
Compact == <<Text>>

\* One with data in the next table of the same directory, and then a segment that
\* starts within the data.
Overlapping == <<Text, Data, [start |-> 2, end |-> 4, write |-> TRUE]>>

\* A segment that starts in front of another and reaches into it.
Reaching == <<Data, [start |-> 1, end |-> 3, write |-> TRUE]>>

MCPrograms == {Compact, Overlapping, Reaching}

LaterSymmetry == Permutations(Procs \ {First})

=============================================================================
