------------------------------ MODULE MCSfsDir ------------------------------
(* Instantiates SfsDir for TLC: a subdirectory (inode 2, parent 1) that    *)
(* callers fill with the names "a", "b", "c" naming inodes 3 and 4, and    *)
(* the over-long name "longname".                                          *)
EXTENDS SfsDir

MCNames == {"a", "b", "c"}
MCLongNames == {"longname"}
MCInos == {3, 4}
=============================================================================
