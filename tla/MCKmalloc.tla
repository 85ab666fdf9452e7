------------------------------ MODULE MCKmalloc -----------------------------
(* Kmalloc with interchangeable callers.                                   *)
EXTENDS Kmalloc

CallerSymmetry ==
    Permutations(Users) \cup Permutations(Slots) \cup Permutations(Callers \ (Users \cup Slots))

=============================================================================
