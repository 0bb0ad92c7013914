------------------------------ MODULE DirTree ------------------------------
(***************************************************************************)
(* What the name space promises: a tree of files and directories, changed  *)
(* by one call at a time, and not at all by a call that fails, with one    *)
(* exception: a rename that fails may have removed what it was to replace. *)
(* Namespace, the handlers of src/syscalls1.c over inodes and directory    *)
(* blocks, implements this specification.                                  *)
(***************************************************************************)
EXTENDS Sequences, SequencesExt, Functions, TLC

CONSTANT Path           \* the paths below the root, as sequences of names

VARIABLES
    tree,               \* the type of every path that exists
    reply               \* the last answer: "ok", "error" or "silent"

treeVars == <<tree, reply>>

Exists(p) == p \in DOMAIN tree

IsDirectory(p) == p = <<>> \/ (Exists(p) /\ tree[p] = "directory")

HasChild(p) == \E q \in DOMAIN tree : IsStrictPrefix(p, q)

TreeInit ==
    /\ tree = << >>
    /\ reply = "ok"

Create(p, type) ==
    /\ reply' = "ok"
    /\ ~ Exists(p)
    /\ IsDirectory(Front(p))
    /\ tree' = tree @@ (p :> type)

Delete(p) ==
    /\ reply' = "ok"
    /\ Exists(p)
    /\ ~ HasChild(p)
    /\ tree' = Restrict(tree, DOMAIN tree \ {p})

\* A file takes the name q, and no longer has the name p.
Move(p, q) ==
    /\ reply' = "ok"
    /\ Exists(p)
    /\ tree[p] = "ordinary"
    /\ IsDirectory(Front(q))
    /\ Exists(q) => tree[q] = "ordinary"
    /\ tree' = (q :> "ordinary") @@ Restrict(tree, DOMAIN tree \ {p})

\* A rename finds no room for the new entry after the file that had that name
\* is gone: it fails, and the file is not put back.
LoseTarget(q) ==
    /\ reply' = "silent"
    /\ Exists(q)
    /\ tree[q] = "ordinary"
    /\ tree' = Restrict(tree, DOMAIN tree \ {q})

\* A write to a file.
Write ==
    /\ reply' = "ok"
    /\ UNCHANGED tree

\* A call that fails.  "silent": it did not say why in errno.
Fail ==
    /\ reply' \in {"error", "silent"}
    /\ UNCHANGED tree

TreeNext ==
    \/ Fail
    \/ Write
    \/ \E p \in Path : \/ Create(p, "ordinary")
                       \/ Create(p, "directory")
                       \/ Delete(p)
                       \/ LoseTarget(p)
    \/ \E p, q \in Path : Move(p, q)

TreeSpec == TreeInit /\ [][TreeNext]_treeVars

=============================================================================
