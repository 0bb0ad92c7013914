---------------------------- MODULE MCFreeBlocks ----------------------------
(* FreeBlocks on a small disk.  An old block holds ids that would be taken   *)
(* for list entries if it were read as a list by error.                      *)
EXTENDS FreeBlocks

MCOldContents == {[p \in 1..ListLength |-> 4]}

=============================================================================
