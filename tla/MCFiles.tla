------------------------------- MODULE MCFiles ------------------------------
\* Files for TLC: processes and files are alike.
EXTENDS Files

Alike == Permutations(Proc) \cup Permutations(File)

SomeSeeks == {<<0, "LSEEK_SET">>, <<3, "LSEEK_CUR">>, <<3, "LSEEK_END">>}

=============================================================================
