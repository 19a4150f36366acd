----------------------------- MODULE MCSfsVnode -----------------------------
(* Instantiates SfsVnode for TLC: two threads (model values), short names  *)
(* "a" and "b", the long name "longname", and a disk of NInos inode blocks. *)
EXTENDS SfsVnode, TLC

MCNames == {"a", "b"}
MCLongNames == {"longname"}
MCInputs == MCNames \cup MCLongNames
\* names a caller opens to fsync a directory: "." hands back the directory itself
MCDotInputs == {Dot} \cup MCNames

\* threads are interchangeable: sound for the invariants, which quantify
\* over all threads
ThreadSymmetry == Permutations(Threads)

\* states told apart without the on-disk inodes and the slot layout: no
\* guard reads dino, a slot's position or a directory's length (only the
\* updates of dino read them), so two states with the same entries that
\* differ only in these have the same futures, and runs whose properties do
\* not mention dino may merge them
VolatileView == <<used, itype, lc, [i \in Inos |-> Entries(i)], table, refcnt,
                  owner, pc, loc, held, panicked>>
=============================================================================
