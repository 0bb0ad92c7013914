--------------------------- MODULE NamespaceTree ---------------------------
(* Namespace with the tree of names it stands for as a history variable, and *)
(* the refinement of DirTree by it.                                          *)
EXTENDS Namespace, TLC

VARIABLE tree           \* history: TreeOf(fs)

treeVars == <<fs, reply, tree>>

TreeInit == Init /\ tree = TreeOf(fs)

TreeNext ==
    /\ Next
    /\ \E next \in {fs'} : tree' = IF next = fs THEN tree ELSE TreeOf(next)

TreeSpec == TreeInit /\ [][TreeNext]_treeVars

Abstract == INSTANCE DirTree

\* The handlers implement the tree of names: a path leads where the calls that
\* succeeded say, a directory goes only when it is empty, and a call that fails
\* changes no path, but for a rename that has removed the file it replaces.
ImplementsDirTree == Abstract!TreeSpec

=============================================================================
