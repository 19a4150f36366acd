------------------------------ MODULE SfsBmap ------------------------------
(***************************************************************************)
(* The block layer of SFS (src/a3/src/kern/fs/sfs/sfs_vnode.c): the       *)
(* free-block bitmap (sfs_balloc, sfs_bfree, sfs_bused), the block map    *)
(* of an inode with NDIRECT direct pointers and one indirect block        *)
(* (sfs_bmap), file writes split into partial and whole blocks (sfs_io,   *)
(* sfs_partialio, sfs_blockio) and truncation (sfs_dotruncate), with      *)
(* device reads and writes that may fail.                                 *)
(*                                                                         *)
(* Abstractions.  A block holds DBPERIDB words (SFS_DBPERIDB * 4 ==       *)
(* SFS_BLOCKSIZE), so file offsets and sizes are in words; a word of a    *)
(* data block and a pointer of an indirect block are the same thing, a    *)
(* number in Blocks.  Block 0 is the superblock, the blocks in Files are  *)
(* the files' inodes.  Each sfs_write and sfs_truncate runs entirely       *)
(* under the file's sv_lock and touches other files only through the      *)
(* bitmap, one atomic sfs_bitlock section per allocation or free, so one  *)
(* call is one step.  Within a call, the I/O calls are numbered, and the  *)
(* one numbered fail (if of a kind in IoFail) returns EIO.               *)
(***************************************************************************)
EXTENDS Naturals, Sequences, FiniteSets, SequencesExt

CONSTANTS
    NDIRECT,    \* SFS_NDIRECT
    DBPERIDB,   \* SFS_DBPERIDB, also the words per block
    NBLOCKS,    \* sp_nblocks
    Files,      \* inode blocks of the files written and truncated
    Vals,       \* nonzero words the callers write
    Offsets,    \* uio_offset of the writes
    Lens,       \* uio_resid of the writes
    ReadOffsets,  \* uio_offset of the reads
    ReadLens,     \* uio_resid of the reads
    TruncLens,  \* lengths passed to sfs_truncate
    IoFail,     \* kinds of device I/O that may fail: "read", "write"
    MaxIo       \* the highest numbered I/O call of a step that may fail

BS == DBPERIDB
Blocks == 0..NBLOCKS - 1
Slots == 0..DBPERIDB - 1
MaxSize == (NDIRECT + DBPERIDB) * BS
Zeros == [w \in Slots |-> 0]
Errors == {"none", "ENOSPC", "EINVAL", "EIO", "panic"}

ASSUME /\ Files \subseteq Blocks \ {0}
       /\ Vals \subseteq Blocks \ {0}
       /\ IoFail \subseteq {"read", "write"}

VARIABLES
    used,      \* sfs_freemap
    disk,      \* the words of every block
    ino,       \* sfi_direct, sfi_indirect and sfi_size of each file
    panicked,  \* a kernel panic has happened
    view,      \* auxiliary: each file's contents as a read returns them
    lastRead   \* the request and the result of the last sfs_read, if the
               \* last call was one

vars == <<used, disk, ino, panicked, view, lastRead>>

NoRead == [file |-> 0, off |-> 0, n |-> 0, got |-> <<>>, err |-> "none"]

-----------------------------------------------------------------------------
(* The state of one call, threaded through the helpers: the bitmap, the  *)
(* disk and the inode as they change, the uio position, the number of     *)
(* I/O calls made, the result, the block handed back and the buffer of    *)
(* the indirect block.                                                    *)

Start(f, off, n, fail) ==
    [used |-> used, disk |-> disk, ino |-> ino[f], off |-> off, resid |-> n,
     io |-> 0, fail |-> fail, err |-> "none", blk |-> 0, buf |-> Zeros,
     out |-> <<>>]

Failed(st) == st.err # "none"

\* the next I/O call succeeds unless it is the one numbered st.fail
IoOk(st, kind) == ~(kind \in IoFail /\ st.io + 1 = st.fail)
Tick(st) == [st EXCEPT !.io = @ + 1]
Eio(st) == [Tick(st) EXCEPT !.err = "EIO"]

\* sfs_clearblock on the block just marked: a failed write returns EIO
\* with the block still marked
Clear(s1) ==
    IF IoOk(s1, "write") THEN [Tick(s1) EXCEPT !.disk[s1.blk] = Zeros] ELSE Eio(s1)

\* bitmap_alloc's result b: marked, handed back, cleared
Claim(st, b) == Clear([st EXCEPT !.used = @ \cup {b}, !.blk = b])

\* mutant: the bitmap search ignores what is marked
BallocIgnoringBitmap(st) == Claim(st, Min(Blocks \ ({0} \cup Files)))

\* sfs_balloc: first-fit bitmap_alloc, ENOSPC on a full bitmap, then the clear
Balloc(st) ==
    IF Blocks \subseteq st.used THEN [st EXCEPT !.err = "ENOSPC"]
    ELSE Claim(st, Min(Blocks \ st.used))

\* sfs_bfree of the blocks bs, one sfs_bitlock section each
Bfree(st, bs) == [st EXCEPT !.used = @ \ bs]

\* sfs_bused: the block's bit in the bitmap (every pointer the model
\* holds is below sp_nblocks, so the range panic cannot fire)
Bused(st, b) == b \in st.used

\* sfs_bmap's hand-back: a nonzero block must be marked in the bitmap
Checked(st, b) ==
    IF b # 0 /\ ~Bused(st, b) THEN [st EXCEPT !.err = "panic"]
    ELSE [st EXCEPT !.blk = b]

\* a direct pointer just allocated (s1 is sfs_balloc's outcome) is recorded
SetDirect(s1, fb) ==
    IF Failed(s1) THEN s1
    ELSE Checked([s1 EXCEPT !.ino.direct[fb] = s1.blk], s1.blk)

\* sfs_bmap for a direct block
BmapDirect(st, fb, doalloc) ==
    IF st.ino.direct[fb] = 0 /\ doalloc THEN SetDirect(Balloc(st), fb)
    ELSE Checked(st, st.ino.direct[fb])

\* a fresh indirect block (a is sfs_balloc's outcome) goes into the inode,
\* and the buffer starts zeroed
NewIndirect(a) ==
    IF Failed(a) THEN a ELSE [a EXCEPT !.ino.indirect = a.blk, !.buf = Zeros]

\* sfs_rblock of the existing indirect block into the buffer
LoadIndirect(st) ==
    IF IoOk(st, "read") THEN [Tick(st) EXCEPT !.buf = st.disk[st.ino.indirect]]
    ELSE Eio(st)

\* the data block just allocated (s2) is stored in the buffer at idoff and
\* the indirect block written back
RecordEntry(s2, idoff) ==
    IF Failed(s2) THEN s2
    ELSE IF IoOk(s2, "write")
    THEN Checked([Tick(s2) EXCEPT !.buf[idoff] = s2.blk,
                                  !.disk[s2.ino.indirect] = [s2.buf EXCEPT ![idoff] = s2.blk]],
                 s2.blk)
    ELSE Eio(s2)

\* the idoff-th pointer of the buffered indirect block, allocated if absent
IndirectEntry(s1, idoff, doalloc) ==
    IF Failed(s1) THEN s1
    ELSE IF s1.buf[idoff] = 0 /\ doalloc THEN RecordEntry(Balloc(s1), idoff)
    ELSE Checked(s1, s1.buf[idoff])

\* sfs_bmap for the idoff-th pointer of the indirect block
BmapIndirect(st, idoff, doalloc) ==
    IF st.ino.indirect = 0 /\ ~doalloc THEN [st EXCEPT !.blk = 0]
    ELSE IndirectEntry(IF st.ino.indirect = 0 THEN NewIndirect(Balloc(st))
                       ELSE LoadIndirect(st), idoff, doalloc)

\* mutant: no check that fb is within the indirect block's range
BmapNoRangeCheck(st, fb, doalloc) ==
    IF fb < NDIRECT THEN BmapDirect(st, fb, doalloc)
    ELSE BmapIndirect(st, (fb - NDIRECT) % DBPERIDB, doalloc)

\* sfs_bmap: the disk block of file block fb, allocated if doalloc
Bmap(st, fb, doalloc) ==
    IF fb < NDIRECT THEN BmapDirect(st, fb, doalloc)
    ELSE IF (fb - NDIRECT) \div DBPERIDB > 0 THEN [st EXCEPT !.err = "EINVAL"]
    ELSE BmapIndirect(st, (fb - NDIRECT) % DBPERIDB, doalloc)

-----------------------------------------------------------------------------
(* Reads and writes: sfs_read / sfs_write -> sfs_io -> sfs_partialio /  *)
(* sfs_blockio.  The word a write stores is v; v = UIO_READ marks a read  *)
(* (callers never write the zero word), for which sfs_bmap allocates      *)
(* nothing and uiomove copies words out to the caller.                    *)

UIO_READ == 0

\* uiomove out of the buffer data: len words from skip on are appended to
\* what the caller got, and the uio moves on
Moved(s1, data, skip, len) ==
    [s1 EXCEPT !.out = @ \o [k \in 1..len |-> data[skip + k - 1]],
               !.off = @ + len, !.resid = @ - len]

\* the block blk with len words from skip on replaced by v (uiomove)
Spliced(blk, skip, len, v) ==
    [w \in Slots |-> IF w >= skip /\ w < skip + len THEN v ELSE blk[w]]

\* sfs_wblock of data to block b; s3's uio has already moved on
WriteBack(s3, b, data) ==
    IF IoOk(s3, "write") THEN [Tick(s3) EXCEPT !.disk[b] = data] ELSE Eio(s3)

\* mutant: the block is not read before a partial write
PartialioNoReadAt(s1, skip, len, v) ==
    IF Failed(s1) THEN s1
    ELSE WriteBack([s1 EXCEPT !.off = @ + len, !.resid = @ - len],
                   s1.blk, Spliced(Zeros, skip, len, v))

PartialioNoRead(st, skip, len, v) ==
    PartialioNoReadAt(Bmap(st, st.off \div BS, TRUE), skip, len, v)

\* after sfs_bmap (s1): read the block, uiomove len words in at skip,
\* write the block back
PartialioAt(s1, skip, len, v) ==
    IF Failed(s1) THEN s1
    ELSE IF v = UIO_READ /\ s1.blk = 0 THEN Moved(s1, Zeros, skip, len)  \* a hole
    ELSE IF ~IoOk(s1, "read") THEN Eio(s1)
    ELSE IF v = UIO_READ THEN Moved(Tick(s1), s1.disk[s1.blk], skip, len)
    ELSE WriteBack([Tick(s1) EXCEPT !.off = @ + len, !.resid = @ - len],
                   s1.blk, Spliced(s1.disk[s1.blk], skip, len, v))

Partialio(st, skip, len, v) ==
    PartialioAt(Bmap(st, st.off \div BS, v # UIO_READ), skip, len, v)

\* after sfs_bmap (s1): one whole block straight to or from the device; a
\* hole reads as zeros (uiomovezeros)
BlockioAt(s1, v) ==
    IF Failed(s1) THEN s1
    ELSE IF v = UIO_READ
    THEN IF s1.blk = 0 THEN Moved(s1, Zeros, 0, BS)
         ELSE IF IoOk(s1, "read") THEN Moved(Tick(s1), s1.disk[s1.blk], 0, BS)
         ELSE Eio(s1)
    ELSE IF IoOk(s1, "write")
    THEN [Tick(s1) EXCEPT !.disk[s1.blk] = [w \in Slots |-> v],
                          !.off = @ + BS, !.resid = @ - BS]
    ELSE Eio(s1)

Blockio(st, v) == BlockioAt(Bmap(st, st.off \div BS, v # UIO_READ), v)

RECURSIVE WholeBlocks(_, _, _)
WholeBlocks(st, n, v) ==
    IF n = 0 \/ Failed(st) THEN st ELSE WholeBlocks(Blockio(st, v), n - 1, v)

\* sfs_io's leading partial block, up to the end of the block or the uio
Leading(st, v) ==
    LET blkoff == st.off % BS IN
    IF blkoff = 0 THEN st
    ELSE Partialio(st, blkoff, IF BS - blkoff > st.resid THEN st.resid ELSE BS - blkoff, v)

\* the whole blocks, if the leading part left anything
Middle(s1, v) ==
    IF ~Failed(s1) /\ s1.resid # 0 THEN WholeBlocks(s1, s1.resid \div BS, v) ELSE s1

\* the trailing partial block
Trailing(s2, v) ==
    IF ~Failed(s2) /\ s2.resid > 0 THEN Partialio(s2, 0, s2.resid, v) ELSE s2

\* on every exit, the size grows to the uio offset reached
GrowSize(s3) == [s3 EXCEPT !.ino.size = IF s3.off > @ THEN s3.off ELSE @]

\* sfs_io for UIO_WRITE
IoWrite(st, v) == GrowSize(Trailing(Middle(Leading(st, v), v), v))

\* mutant: a read is not cut at the end of the file
IoReadNoEof(st) == Trailing(Middle(Leading(st, UIO_READ), UIO_READ), UIO_READ)

\* sfs_io for UIO_READ: nothing at or past EOF; a request that runs past
\* the size is cut to end there (the extraresid given back at "out:"
\* only makes the caller's count match what was moved)
IoRead(st) ==
    IF st.off >= st.ino.size THEN st
    ELSE LET cut == [st EXCEPT !.resid = IF st.off + @ > st.ino.size
                                         THEN st.ino.size - st.off ELSE @]
         IN Trailing(Middle(Leading(cut, UIO_READ), UIO_READ), UIO_READ)

-----------------------------------------------------------------------------
(* sfs_dotruncate (1311-1405)                                            *)

SetSize(st, len) == [st EXCEPT !.ino.size = len]

\* the direct pointers at or past blocklen
PastEnd(st, blocklen) == {i \in 0..NDIRECT - 1 : i >= blocklen /\ st.ino.direct[i] # 0}

\* mutant: freed direct blocks stay in the inode
FreeDirectNoClear(st, blocklen) ==
    Bfree(st, {st.ino.direct[i] : i \in PastEnd(st, blocklen)})

\* mutant: pointers past the end are cleared without sfs_bfree
FreeDirectNoFree(st, blocklen) ==
    [st EXCEPT !.ino.direct = [i \in DOMAIN @ |->
                                 IF i \in PastEnd(st, blocklen) THEN 0 ELSE @[i]]]

\* sfs_bfree and clear each direct pointer past the new end
FreeDirect(st, blocklen) ==
    [Bfree(st, {st.ino.direct[i] : i \in PastEnd(st, blocklen)})
       EXCEPT !.ino.direct = [i \in DOMAIN @ |->
                                IF i \in PastEnd(st, blocklen) THEN 0 ELSE @[i]]]

\* the indirect block after its entries were dropped (buf, dirty if any
\* was): freed if empty, else written back if dirty
WriteIndirect(s2, buf, dirty, len) ==
    IF \A j \in Slots : buf[j] = 0
    THEN SetSize([Bfree(s2, {s2.ino.indirect}) EXCEPT !.ino.indirect = 0], len)
    ELSE IF ~dirty THEN SetSize(s2, len)
    ELSE IF IoOk(s2, "write") THEN SetSize([Tick(s2) EXCEPT !.disk[s2.ino.indirect] = buf], len)
    ELSE Eio(s2)

\* sfs_bfree each entry j of the indirect block read (idbuf) that is past
\* the end by the code's test blocklen < baseblock + j
FreeEntries(s2, idbuf, blocklen, len) ==
    LET baseblock == NDIRECT
        freeI == {j \in Slots : blocklen < baseblock + j /\ idbuf[j] # 0}
    IN WriteIndirect(Bfree(s2, {idbuf[j] : j \in freeI}),
                     [j \in Slots |-> IF j \in freeI THEN 0 ELSE idbuf[j]],
                     freeI # {}, len)

\* the indirect block is read only if blocklen < highblock
TruncIndirect(s1, blocklen, len) ==
    LET idblock == s1.ino.indirect
        highblock == NDIRECT + DBPERIDB - 1
    IN IF ~(blocklen < highblock /\ idblock # 0) THEN SetSize(s1, len)
       ELSE IF ~IoOk(s1, "read") THEN Eio(s1)
       ELSE FreeEntries(Tick(s1), s1.disk[idblock], blocklen, len)

\* length in blocks, rounding up (DIVROUNDUP)
BlockLen(len) == (len + BS - 1) \div BS

DotruncateNoClear(st, len) ==
    TruncIndirect(FreeDirectNoClear(st, BlockLen(len)), BlockLen(len), len)

DotruncateNoFree(st, len) ==
    TruncIndirect(FreeDirectNoFree(st, BlockLen(len)), BlockLen(len), len)

\* sfs_dotruncate: the direct blocks past the new end, then the indirect
\* block's, then the size
Dotruncate(st, len) == TruncIndirect(FreeDirect(st, BlockLen(len)), BlockLen(len), len)

-----------------------------------------------------------------------------

\* the word at offset w of the file with inode i on disk d, as sfs_io
\* reads it: through sfs_bmap without allocation, a hole reading as zero
ReadWord(i, d, w) ==
    LET fb == w \div BS
        b == IF fb < NDIRECT THEN i.direct[fb]
             ELSE IF i.indirect = 0 THEN 0
             ELSE d[i.indirect][(fb - NDIRECT) % DBPERIDB]
    IN IF b = 0 THEN 0 ELSE d[b][w % BS]

\* what a read of the whole file returns
View(i, d) == [k \in 1..i.size |-> ReadWord(i, d, k - 1)]

\* the outcome st of a call on f becomes the state
Commit(f, st) ==
    /\ used' = st.used
    /\ disk' = st.disk
    /\ ino' = [ino EXCEPT ![f] = st.ino]
    /\ view' = [g \in Files |-> View(ino'[g], disk')]
    /\ panicked' = (st.err = "panic")
    /\ lastRead' = NoRead

Init ==
    /\ used = {0} \cup Files
    /\ disk = [b \in Blocks |-> Zeros]
    /\ ino = [f \in Files |-> [direct |-> [i \in 0..NDIRECT - 1 |-> 0],
                               indirect |-> 0, size |-> 0]]
    /\ panicked = FALSE
    /\ view = [f \in Files |-> <<>>]
    /\ lastRead = NoRead

\* sfs_write: sfs_io under the file's lock
Write(f) ==
    /\ ~panicked
    /\ \E off \in Offsets, n \in Lens, v \in Vals, fail \in 0..MaxIo :
         Commit(f, IoWrite(Start(f, off, n, fail), v))

\* sfs_truncate: sfs_dotruncate under the file's lock
Truncate(f) ==
    /\ ~panicked
    /\ \E len \in TruncLens, fail \in 0..MaxIo :
         Commit(f, Dotruncate(Start(f, 0, 0, fail), len))

\* sfs_read: sfs_io under the file's lock; the caller gets the words moved
\* and the result, and nothing on disk changes
Read(f) ==
    /\ ~panicked
    /\ \E off \in ReadOffsets, n \in ReadLens, fail \in 0..MaxIo :
       \E r \in {IoRead(Start(f, off, n, fail))} :
         /\ lastRead' = [file |-> f, off |-> off, n |-> n, got |-> r.out, err |-> r.err]
         /\ panicked' = (r.err = "panic")
    /\ UNCHANGED <<used, disk, ino, view>>

Next == \E f \in Files : Write(f) \/ Truncate(f) \/ Read(f)

Spec == Init /\ [][Next]_vars

-----------------------------------------------------------------------------
(* Properties *)

TypeOK ==
    /\ used \subseteq Blocks
    /\ disk \in [Blocks -> [Slots -> Blocks]]
    /\ ino \in [Files -> [direct : [0..NDIRECT - 1 -> Blocks],
                          indirect : Blocks, size : 0..MaxSize]]
    /\ panicked \in BOOLEAN
    /\ lastRead \in [file : Files \cup {0}, off : ReadOffsets \cup {0}, n : ReadLens \cup {0},
                     got : Seq(Blocks), err : Errors]

\* every pointer of every file: direct, indirect, and the indirect's entries
Ptrs == {<<f, "direct", i>> : f \in Files, i \in 0..NDIRECT - 1}
        \cup {<<f, "indirect", 0>> : f \in Files}
        \cup {<<f, "entry", j>> : f \in Files, j \in Slots}

PtrVal(p) ==
    LET i == ino[p[1]] IN
    CASE p[2] = "direct"   -> i.direct[p[3]]
      [] p[2] = "indirect" -> i.indirect
      [] OTHER             -> IF i.indirect = 0 THEN 0 ELSE disk[i.indirect][p[3]]

Mapped == {p \in Ptrs : PtrVal(p) # 0}

\* The inode invariant (the panics in sfs_bmap): every nonzero pointer a
\* file's block map reaches, through its indirect block too, is marked in
\* the bitmap, after any sequence of writes and truncates.
BlocksMapped == \A p \in Mapped : PtrVal(p) \in used

\* No block is reached twice, by the same file or by two (sfs_balloc hands
\* out each block once and sfs_dotruncate frees only what it unmaps), and
\* none is the superblock or an inode.
NoSharedBlocks ==
    \A p, q \in Mapped : /\ PtrVal(p) \notin Files
                         /\ p # q => PtrVal(p) # PtrVal(q)

\* No block leaks: every block marked in the bitmap is the superblock, an
\* inode, or reached from a file's block map.
NoLeakedBlocks == used \subseteq {0} \cup Files \cup {PtrVal(p) : p \in Mapped}

\* What sfs_read hands back is the file's contents from the offset on: on
\* success exactly the words up to the end of the request or the end of
\* the file, whichever is first (none at or past EOF); on EIO a prefix of
\* them.  This is sfs_io's EOF cut, its split into a leading partial
\* block, whole blocks and a trailing partial block, and sfs_bmap's
\* lookup without allocation, holes and the indirect block included.
ReadsReturnContents ==
    LET c == view[lastRead.file]
        want == SubSeq(c, lastRead.off + 1, Min({lastRead.off + lastRead.n, Len(c)}))
    IN lastRead # NoRead =>
         IF lastRead.err = "none" THEN lastRead.got = want
         ELSE IsPrefix(lastRead.got, want)

FS == INSTANCE FileSpec WITH content <- view

\* Files behave as FileSpec says (the round trip of spec.md: what is
\* written reads back, a gap past the end reads as zeros, truncation cuts
\* and zero-extends): the contents read through the block map refine it.
FileRefinement == FS!Spec

=============================================================================
