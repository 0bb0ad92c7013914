---------------------------- MODULE MCOpenFiles ----------------------------
(* OpenFiles with few inodes and processes.                                  *)
EXTENDS OpenFiles, TLC

\* The processes are used alike.
MCSymmetry == Permutations(Pid)

=============================================================================
