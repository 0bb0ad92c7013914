---------------------------- MODULE MCNamespace ----------------------------
(* Namespace on a small disk, with the renames whose effect is not what the  *)
(* code's comments say: each run calls one kind of them.                     *)
EXTENDS Namespace

\* Two directory levels, with room for two names in each of two directories.
MCPath == {<<"a">>, <<"b">>, <<"a", "a">>, <<"a", "b">>, <<"b", "a">>, <<"long">>}

\* Renames of a thing of one of these kinds onto one of another.
Kinds(what, onto, within) ==
    [what : what, onto : {onto}, within : {within}]

\* A file replaces a file with a block, of another directory.
MCReplaceFile == Kinds({"emptyFile", "ordinary"}, "ordinary", FALSE)

\* A file gets another name in its directory.
MCRenameWithin == Kinds({"emptyFile", "ordinary"}, "nothing", TRUE)

\* A directory moves to another directory.
MCMoveDirectory == Kinds({"directory", "fullDirectory"}, "nothing", FALSE)

=============================================================================
