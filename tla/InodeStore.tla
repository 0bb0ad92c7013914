----------------------------- MODULE InodeStore ----------------------------
(***************************************************************************)
(* What the inode table promises: every inode that names lead to holds     *)
(* what was put into it last, and a new inode is none of those.            *)
(*                                                                         *)
(* Writes that fail on the disk may leave an inode Unsure, until it is put *)
(* or created again.  An error at one inode leaves the others alone.       *)
(***************************************************************************)

CONSTANTS
    Inode,
    Root,
    Data,           \* what an inode may hold
    Blank,          \* what a new inode holds
    Unsure          \* not known, no member of Data

VARIABLE content    \* what every inode holds that names lead to

Without(i) == [k \in DOMAIN content \ {i} |-> content[k]]

Holding(i, x) == [k \in DOMAIN content \cup {i} |-> IF k = i THEN x ELSE content[k]]

StoreInit == content = [i \in {Root} |-> Blank]

Create(i) ==
    /\ i \in DOMAIN content => content[i] = Unsure
    /\ \E x \in Data \cup {Unsure} : content' = Holding(i, x)

Put(i) ==
    /\ i \in DOMAIN content
    /\ \E x \in Data : content' = Holding(i, x)

Spoil(i) ==
    /\ i \in DOMAIN content
    /\ content' = Holding(i, Unsure)

Remove(i) ==
    /\ i \in DOMAIN content \ {Root}
    /\ content' = Without(i)

StoreNext == \E i \in Inode : Create(i) \/ Put(i) \/ Spoil(i) \/ Remove(i)

StoreSpec == StoreInit /\ [][StoreNext]_content

=============================================================================
