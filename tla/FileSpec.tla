------------------------------ MODULE FileSpec ------------------------------
(***************************************************************************)
(* What a regular file of SFS promises its callers (sfs_write, sfs_read,  *)
(* sfs_truncate): a file is a sequence of words.  A write stores its      *)
(* value over a prefix of the range it was asked for (all of it unless an *)
(* error cut it short), zero-filling any gap past the old end; a truncate *)
(* cuts the file or zero-extends it.  A truncate that fails leaves the    *)
(* length alone, though it may already have zeroed some words.  Reading  *)
(* a word always yields what this sequence holds: no stale data appears. *)
(***************************************************************************)
EXTENDS Naturals, Sequences

CONSTANTS Files, Vals, MaxSize

VARIABLE content

\* the file c with words [off, off + k) set to v and any gap zero-filled
Written(c, off, k, v) ==
    LET n == IF off + k > Len(c) THEN off + k ELSE Len(c) IN
    [i \in 1..n |-> IF i - 1 >= off /\ i - 1 < off + k THEN v
                    ELSE IF i <= Len(c) THEN c[i] ELSE 0]

\* the file c cut to, or zero-extended to, len words
Resized(c, len) == [i \in 1..len |-> IF i <= Len(c) THEN c[i] ELSE 0]

Init == content = [f \in Files |-> <<>>]

\* a write at off that stored k words of v (a short write stores fewer
\* than were asked for, and one that stores none still moves the end to off)
Write(f) ==
    \E off \in 0..MaxSize, v \in Vals : \E k \in 0..MaxSize - off :
        /\ Len(content'[f]) = IF off + k > Len(content[f]) THEN off + k ELSE Len(content[f])
        /\ \A i \in off + 1..off + k : content'[f][i] = v
        /\ content' = [content EXCEPT ![f] = Written(@, off, k, v)]

Truncate(f) ==
    \E len \in 0..MaxSize :
        /\ Len(content'[f]) = len
        /\ content' = [content EXCEPT ![f] = Resized(@, len)]

\* a failed truncate: the length stays, and words may have become zero
TruncateFailed(f) ==
    /\ content'[f] \in [DOMAIN content[f] -> Nat]
    /\ \A i \in DOMAIN content[f] : content'[f][i] \in {content[f][i], 0}
    /\ content' = [content EXCEPT ![f] = content'[f]]

Next == \E f \in Files : Truncate(f) \/ TruncateFailed(f) \/ Write(f)

Spec == Init /\ [][Next]_content

=============================================================================
