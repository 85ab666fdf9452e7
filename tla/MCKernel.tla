------------------------------ MODULE MCKernel ------------------------------
(* Kernel with proc_structs that are interchangeable.                      *)
EXTENDS Kernel, TLC

UserSymmetry == Permutations(User)

=============================================================================
