-------------------------- MODULE MCNamespaceTree --------------------------
(* NamespaceTree on a disk just large enough for a directory of two blocks,  *)
(* both full, and a second directory: a rename into the first then finds no  *)
(* room.                                                                     *)
EXTENDS NamespaceTree

CONSTANTS Sub, Name1, Name2, Name3, Long      \* names

\* Four names in the root and one too long, and one in the directory Sub.
MCPath ==
    {<<Sub>>, <<Name1>>, <<Name2>>, <<Name3>>, <<Long>>, <<Sub, Sub>>}

MCDirPath == {<<Sub>>, <<Sub, Sub>>}

MCFilePath == MCPath \ {<<Sub>>, <<Long>>}

\* A file, with or without a block, moves to another directory, in place of
\* nothing or of a file without a block.
MCMoveAndReplace ==
    [what : {"emptyFile", "ordinary"}, onto : {"nothing", "emptyFile"},
     within : {FALSE}]

\* The other names of the root are used alike.
MCSymmetry == Permutations({Name1, Name2, Name3})

\* No handler reads the reply of an earlier one, and fs determines the tree.
MCView == fs

=============================================================================
