------------------------------ MODULE DirSpec -------------------------------
(***************************************************************************)
(* What a directory promises its callers (creat, link, remove, rename,     *)
(* mkdir): a set of <<name, inode>> entries with at most one entry per     *)
(* name.  A link adds an entry for a name that has none; an unlink takes   *)
(* the entry of a name away.  A call that fails leaves the set as it was.  *)
(***************************************************************************)
CONSTANTS
    Names,   \* the names a link may give
    Inos,    \* the inodes an entry may name
    Self,    \* the directory's own inode, named by "."
    Parent   \* its parent's inode, named by ".."

VARIABLE entries

Named(n) == {e \in entries : e[1] = n}

Init == entries = {<<".", Self>>, <<"..", Parent>>}

Link(n, i) ==
    /\ Named(n) = {}
    /\ entries' = entries \cup {<<n, i>>}

Unlink(n) ==
    /\ Named(n) # {}
    /\ entries' = entries \ Named(n)

Next == \E n \in Names : \/ \E i \in Inos : Link(n, i)
                         \/ Unlink(n)

Spec == Init /\ [][Next]_entries
=============================================================================
