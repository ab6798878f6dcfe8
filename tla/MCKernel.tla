------------------------------ MODULE MCKernel ------------------------------
(* Kernel on small instances.                                              *)
EXTENDS Kernel, TLC

\* Bootstrap2 is created by kmain(); the other workers are interchangeable.
WorkerSymmetry == Permutations(Workers \ {Bootstrap2})
=============================================================================
