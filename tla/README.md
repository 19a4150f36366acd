# TLA+ models of the CSC369 SFS file system

These modules model the Simple File System (SFS) of the OS/161 kernel in
`src/a3/src/kern/fs/sfs/sfs_vnode.c`: its vnode layer and directory
operations (`SfsVnode`), and its block map, file writes and truncation
(`SfsBmap`), which is shown to implement an abstract file (`FileSpec`), and
the slot layer and enumeration of its directories (`SfsDir`), which is shown
to implement an abstract directory (`DirSpec`). TLC checks them. `CacheSim` models the buffer-cache simulator of assignment 1
in `src/a1/cache.c`.

## The system

`sfs_vnode.c` implements the vnode operations of an on-disk file system
for a kernel whose threads preempt one another. Its parts:

* **Free-block bitmap** (`sfs_balloc`, `sfs_bfree`, `sfs_bused`). This is one bitmap under
  `sfs_bitlock`. Inodes are blocks: an inode number is a block number.
* **Vnode cache** (`sfs_loadvnode`, `sfs_reclaim`, and `VOP_DECREF` from
  the VFS layer). The table `sfs_vnodes` sits under `sfs_vnlock`. Every resident inode has one
  vnode with a reference count. `VOP_DECREF` lowers the count, and on the last
  reference it calls `sfs_reclaim`. `sfs_reclaim` takes the vnode lock and the table lock,
  checks the count again (`EBUSY` if someone took a reference in between), and
  then does three things:
  * truncates and frees the inode if its link count is zero;
  * removes the vnode from the table;
  * frees the vnode.
* **Directories** (`sfs_dir_nentries`, `sfs_dir_findname`, `sfs_dir_link`,
  `sfs_dir_unlink`, `sfs_readdir`, `sfs_writedir`, `sfs_lookonce`,
  `sfs_getdirentry`). These are arrays of `<<name, inode>>` slots inside a
  directory file, written through `sfs_io`. A free slot holds `SFS_NOINO`
  and is reused lazily. They are read and written under the directory's
  `sv_lock`; `sfs_getdirentry` returns one slot's name per call and
  releases the lock between calls.
* **Directory operations** (`sfs_lookup`, `sfs_creat`, `sfs_link`,
  `sfs_remove`, `sfs_rename`, `sfs_mkdir`). Each one locks the directory, looks up or
  writes entries, and adjusts link counts under the locks of the vnodes
  involved. The comment at the top of the file gives the lock order:
  * a vnode lock before `sfs_vnlock`, and `sfs_vnlock` before `sfs_bitlock`;
  * a directory before a file in it;
  * a parent before a child.
* **Block map and I/O** (`sfs_bmap`, `sfs_io`, `sfs_partialio`,
  `sfs_blockio`, `sfs_dotruncate`). These map file blocks to disk blocks
  through `SFS_NDIRECT` direct pointers and one indirect block, and split a
  write into a partial leading block, whole blocks and a partial trailing
  block. They run under the file's `sv_lock`.

These parts interact through the vnode references. A lookup hands back a counted
reference. The operations take references (`sfs_lookonce`, `sfs_makeobj`) and
drop them (`VOP_DECREF`) while they hold directory locks. A drop can run
`sfs_reclaim`, which takes vnode and table locks and frees blocks.

## Module SfsVnode: vnode cache and directory operations

**State.**

| Variable | Code |
|---|---|
| `used` | the bitmap, restricted to inode blocks |
| `itype`, `lc` | `sfi_type` and `sfi_linkcount` of each inode |
| `dir` | each directory's slots, as a sequence of `<<name, ino>>` entries and free slots (`FreeSlot`); its length is the in-memory `sfi_size` |
| `table`, `refcnt` | `sfs_vnodes` and each vnode's `vn_refcount` |
| `owner` | the holder of each `sv_lock` |
| `pc`, `loc` | each thread's program counter and locals: directory `d`, names `n` and `n2`, target `f`, and the reference an operation carries in `v` |
| `held` | the references a thread keeps between calls, such as open files |
| `panicked` | a kernel panic |
| `dino` | each inode block on disk: its type, link count and size (in slots) as last written. `itype`, `lc` and `Len(dir)` are the vnodes' copies (`sv_i`), which only `sfs_sync_inode` writes back; a slot's contents are written through at once by `sfs_writedir` |

**Actions.**
* Every operation is split at its lock acquisitions. A `lock_acquire` is an
  action enabled only while the lock is free. The work done under a lock is
  one atomic action.
* `sfs_vnlock` and `sfs_bitlock` are never held while a vnode lock is
  requested, so each of their critical sections is part of the action that
  contains it.
* `VOP_DECREF` is a subroutine: `Decref`, then `ReclaimLock` and `Reclaim`. It
  returns to the continuation stored in `loc.ret`.
* Error paths and panics come from the code's branches:
  * `dupname` is the `assert(found==0)` in `sfs_dir_findname`;
  * `unallocated` is `sfs_loadvnode`'s panics;
  * `linkcount0` is `sfs_lookonce`;
  * `assert` is the link-count and type assertions;
  * `rename` is the cannot-recover panic.
* After a panic every thread is stopped (`pc = "halt"`).
* Failing device calls (`IoFail`): a directory entry's write, `sfs_balloc`'s
  clear of a new inode (`:115`) and `sfs_loadvnode`'s read of it (`:2067`).
  The last two make `sfs_makeobj` return `EIO` with the block still marked in
  the bitmap (`MakeOutcomes`, `MakeobjFails`). These, and names longer than `SFS_NAMELEN-1`
  (`LongNames`) drive the I/O and `ENAMETOOLONG` paths.
* `bitmap_alloc` is first-fit (`FreeIno`).
* `sfs_dir_link` writes into the last free slot `sfs_dir_findname` passed, or
  appends (`AddEntry`). `sfs_dir_unlink` overwrites the slot with a free one
  (`ClearEntry`).
* `sfs_balloc`'s `sfs_clearblock` zeroes a new inode's block on disk
  (`ClearedIno`). `sfs_sync_inode` (`SyncInode`) writes the vnode's copy back;
  it runs in `Reclaim` before the inode is freed, and in `sfs_fsync`
  (`StartFsync`, `Fsync`: take `sv_lock`, sync, release) on a vnode the thread
  holds.

**Abstracted.**
* A slot is found, written and cleared under the directory's lock, so each
  slot write is one step. A failed append leaves the directory unchanged here;
  SfsDir models the zero slot it really leaves.
* The dirty flag: a sync always writes the vnode's copy, which is the same
  disk content as skipping a clean one. A failed inode write (in `sfs_fsync`
  or `sfs_reclaim`) is not modelled.
* Data blocks: these are in SfsBmap.

**Properties.**
* `RefcountExact` (reference counting). Each resident vnode's count equals the
  references that exist: the VFS's on the root, those the threads keep, and
  the one an operation in progress carries. A vnode that has left the table is
  referenced, locked or waited on by nobody, so there is no use after `kfree`.
* `LinkCountsMatch`. When no operation is in progress, each allocated inode's
  link count equals the number of entries naming it, with `..` counting for
  the parent.
* `NoDanglingEntries`. No entry names a freed inode.
* `StorageReclaimed`. `NoDanglingEntries`, and when no operation is in progress every
  allocated inode is named or resident, so nothing leaks. It is checked only
  in `rename`, which has no device failures: with `IoFail` a failed
  `sfs_makeobj` leaks its block (hazard at `:897`), so `files` and `dirs`
  check `NoDanglingEntries`.
* `LockOrder`. No thread waits for the lock of an ancestor of a directory
  it has locked. No run checks it: in the passing runs no operation locks a
  second vnode that already exists, so it cannot fail there. Given `..`,
  `sfs_remove` (which does not reject `.` or `..`) fails it in 4 steps.
* `NoSelfWait`. No thread waits for a vnode lock it holds itself; the locks
  are not recursive, and `sfs_reclaim`, reached through `VOP_DECREF`, takes
  `sv_lock`.
* `KernelNeverPanics`, and `LookonceSeesLinked`, which is the `linkcount0` panic alone.
* `DiskConsistent` (crash consistency). At every step the disk alone is a
  file system a reboot can use. The entries a reboot finds are the slots below
  each directory's on-disk size (`DiskEntries`) in the directories reachable
  from the root on disk (`DiskReachable`). Every inode one of them names has a
  valid type on disk, and an on-disk link count at least the number of such
  entries.

**View.** `files` and `dirs` check properties that do not mention `dino`.
No guard reads `dino`, a slot's position or a directory's length; only the
updates of `dino` read them. Two states with the same entries that differ only
in these have the same futures, so these runs merge them with
`VIEW VolatileView`.

## Module SfsBmap: block map, reads, writes and truncation

**State.** `used` is the bitmap; `disk` the words of every block; `ino` each
file's `sfi_direct`, `sfi_indirect` and `sfi_size`; `panicked` a panic of
`sfs_bmap`. `view` is an auxiliary variable: each file's contents as a read
returns them (`ReadWord` follows `sfs_bmap` without allocation, a hole reads
as zero, and `sfs_io` clamps the read to the size). `lastRead` is the
request and the result of the last `sfs_read` (`NoRead` after any other call).

**Actions.** `Write(f)` is `sfs_write`, `Read(f)` is `sfs_read` and
`Truncate(f)` is `sfs_truncate`. Each
is one step: the whole call runs under the file's `sv_lock`, and it touches
other files only through the bitmap, in one `sfs_bitlock` section per
allocation or free. So no other thread can see its intermediate states
except through the bitmap, and a first-fit allocation is a function of the
bitmap at that moment. Within the step, the helpers thread a record `st` (bitmap, disk,
inode, uio offset and residue, result) through the code's calls in order:
* `Balloc` (`sfs_balloc` and `sfs_clearblock`), `Bfree` and `Bused`
  (`sfs_bfree`, `sfs_bused`);
* `Bmap` and `BmapIndirect` (`sfs_bmap`);
* `Partialio`, `Blockio` and `WholeBlocks` (the loop of `sfs_io`);
* `IoWrite` (`sfs_io`'s write path, which raises the size to the offset
  reached even on an error);
* `IoRead` (`sfs_io`'s read path: nothing at or past EOF, a request cut at
  the size, then the same split into blocks with `v = UIO_READ`, where
  `sfs_bmap` allocates nothing, a hole reads as zeros and `Moved` is the
  `uiomove` out to the caller);
* `Dotruncate`, which keeps the code's tests literally.

An operator named `...At` (for example `PartialioAt`) is the rest of a C
function after its first call. It takes that call's outcome as a parameter,
so each intermediate state is computed once.

Every device read and write of a call is numbered. The one numbered `fail`,
if its kind is in `IoFail`, returns `EIO`. This is how every error path is reached.

**Abstractions.** A block holds `DBPERIDB` words: `SFS_DBPERIDB` pointers
fill a block, so offsets and sizes are counted in words. A data word and a
pointer are both numbers in `Blocks`. Values written are one nonzero word.

## Module FileSpec: what a file promises

A file is a sequence of words. A write stores its value over
a prefix of the range asked for. All of the range is stored unless an error
cut it short. Any gap past the old end is zero-filled. A truncate cuts the
file or zero-extends it. A failed truncate keeps the length, though some
words may read as zero. `SfsBmap` refines it:
`FS == INSTANCE FileSpec WITH content <- view`, and `FileRefinement == FS!Spec`
is checked as a temporal property.

**Properties of SfsBmap.**
* `BlocksMapped`: every pointer a file reaches, directly or through its
  indirect block on disk, is marked used (the `sfs_bmap` "marked free"
  panic).
* `NoSharedBlocks`: no two pointers name the same block, and none names an inode.
* `NoLeakedBlocks`: every used block is the superblock, an inode, or
  reached.
* `ReadsReturnContents`: what `sfs_read` hands back is the file's words from
  the offset to the end of the request or of the file, or a prefix of them
  when a device read failed.
* `FileRefinement`: reads return what FileSpec says, with no stale data.

## Module SfsDir: directory slots and enumeration

`SfsDir` models one directory below the operations of `SfsVnode`. Its
state:
* `slots`: the entries as a sequence, with slot `k` at index `k+1`. The
  directory's size is `Len(slots)` entries. A free slot is the zeroed entry
  `sfs_dir_unlink` writes (`SFS_NOINO`, name `""`).
* `ret`: the last changing call and its result.
* The listing thread: `rpc`, `off` (its `uio_offset`, a slot number) and
  `listed` (the names it has been handed). The auxiliary `kept` holds the
  names present all through the current listing.

Every call runs under the directory's `sv_lock`, so each call is one step.
* `DirLink(n, i)` is `sfs_dir_link`. The `sfs_dir_findname` scan may fail on
  any slot's read (`EIO`). Then come `EEXIST` and `ENAMETOOLONG`. Otherwise
  the entry goes into the empty slot findname reported, or at `nentries`.
  `Emptyslot` is the *last* free slot, because the loop overwrites
  `*emptyslot` at each one. The spec says the first, but either keeps names
  unique.
* `DirUnlink(n)` is `remove`'s and `rename`'s findname followed by
  `sfs_dir_unlink`.
* `Writedir(k, e)` is `sfs_writedir` through `sfs_io`, abstracted to the
  outcomes for one entry. An entry never straddles a block.
  * A slot at a block boundary past the end needs a new block, which fails
    with `ENOSPC` once `DirBlocks` are used.
  * The read of the block may fail first, with no change.
  * Its write may fail after `uiomove`. `sfs_io` still raises the size then
    (`:594`), over a slot whose block holds zeros: a free slot.
* `OpenDir`, `GetDirEntry` and `CloseDir` are `sfs_opendir`,
  `sfs_getdirentry` and `sfs_close`. `GetDirEntry` reads the slot through
  `Readdir(k)` (`sfs_readdir`: the entry, or `EIO`). The caller takes a call that moves no
  bytes as the end of the directory. That is what `sfs_getdirentry` returns
  past the last slot.

Properties:
* `NamesUnique`. No name is in two occupied slots. This is the spec's
  directory invariant and `sfs_dir_findname`'s assertion.
* `DirRefinement`. `Entries(slots)` implements `DirSpec`: every call, failed
  or not, is a step of the abstract directory or changes no entry.
* `ListingEnds`. A listing ends even while the directory changes.
* `ListingComplete`. A finished listing has returned every name that was
  present all through it. This is violated: finding 7.

## Module DirSpec: what a directory promises

`DirSpec` has one variable, `entries`, a set of `<<name, inode>>` pairs. It
starts with `.` and `..`. `Link(n, i)` adds a pair for a name that has none,
and `Unlink(n)` takes a name's pair away.

## Module CacheSim: the buffer-cache simulator

`src/a1/cache.c` is a separate exercise, and `spec.md` leaves it out of the file system. Threads call
`read_block(pid, file_id, block_num)`. After range checks under
`ftable_locks[file_id]`, a miss takes a slot from `get_empty_slot` (under
`slot_count_lock`), or a random slot once they are used up, and locks
`cache_locks[slot]`.

**State.** The file sizes `fsize` (drawn once by `build_file_table`), the block
lists `heads`, an owner per mutex (`flock`, `slock`, `sclock`), `slot_count`,
and per thread `pc`, the call's arguments and result in `loc`, and a call
count `calls`.

**Actions.** Each action is one step between lock operations:
* `Call`, which includes the `file_id` check;
* `LockFile`;
* `Check`, covering the block range, `bNode_search` and the unlocks on the
  returns of 2 and 1;
* `SlotCountLock`;
* `GsRead`, which reads `slot_count`;
* `GsDec`, which decrements it, unlocks, and picks `Equilikely` on -1;
* `LockSlot`, which returns 0.

Exactly as in the code, `bNode_add` is never called: the lists stay empty,
and every valid request misses. `write_block` is an empty stub, and `io_lock`
is never used.

**Fairness.** Each thread's step is weakly fair. The pthread scheduler runs
every runnable thread. A thread blocked on a mutex is not runnable, so
fairness cannot let it through.

**Property.** `CallsReturn`: every call of `read_block` returns. Two
threads, one file and one slot are enough for the run `cache_hang` to find
the hang. Because every valid request ends in the hang, there is no passing
run of CacheSim.

## Runs

The SfsVnode runs use `MCSfsVnode`:
* two threads unless stated otherwise;
* the names `a`, `b` and the over-long name `longname`;
* symmetry over the threads, which is sound because threads are
  interchangeable model values.

| run | cfg | expect | what it shows |
|---|---|---|---|
| files | files.cfg | pass | creat/lookup/remove/close with write failures, 4 inodes, 2 references per thread: failing makeobj leaks the inode but no entry dangles; the other invariants hold (906k states) |
| dirs | dirs.cfg | pass | nested mkdir, creat, lookup and close with write failures and long names, 3 inodes: the invariants hold up to the hangs of mkdir's error paths (deadlock not checked; 289k states) |
| rename | rename.cfg | pass | one thread linking, renaming and fsyncing files it holds open: counts exact, no inode leaks (16k states); rename never drops the last reference here |
| link_race | link_race.cfg | violation | `LookonceSeesLinked`: a lookup in the middle of `sfs_link` panics |
| rename_decref | rename_decref.cfg | violation | `NoSelfWait`: rename's `VOP_DECREF` under `g1`'s lock waits on itself |
| crash | crash.cfg | violation | `DiskConsistent`: lookup `.`, `creat b`, fsync of the root: the root's size reaches the disk before `b`'s inode, whose block is zeros (one thread) |
| bmap | bmap.cfg | pass | reads, and writes across the direct and indirect range and past the largest file, whole-block truncations, failing reads, a full disk: the four block-map invariants, `ReadsReturnContents` and the refinement hold (26k states) |
| truncate_indirect | truncate_indirect.cfg | violation | `FileRefinement`: truncating to the start of the indirect range keeps a block whose old words come back |
| truncate_io | truncate_io.cfg | violation | `BlocksMapped`: a failed indirect write-back in truncation leaves pointers to freed blocks |
| dir | dir.cfg | pass | SfsDir: links and unlinks of three names with failing reads and writes and a full disk, beside a listing: `TypeOK`, `NamesUnique`, `DirRefinement` and `ListingEnds` hold (16k states) |
| dir_listing | dir_listing.cfg | violation | `ListingComplete`: after a remove, a listing stops at the freed slot |
| cache_hang | cache_hang.cfg | violation | `CallsReturn` (CacheSim): a `read_block` miss returns holding two locks, and the next call for the file never returns |

The SfsBmap runs use `MCSfsBmap`: one file (inode 1), `NDIRECT = DBPERIDB = 2`
(a file of 8 words: two direct blocks and two behind the indirect block), 6
blocks (so a full-size file does not fit and `ENOSPC` happens), write
offsets 0, 1, 3 and 7 (aligned, unaligned, and running past the largest
file into `EINVAL`), lengths 1 and 3 (a partial block only, or partial, whole
and partial), and I/O failures among the first 3 device calls of a step. Reads are of 3
words from offset 1 (a partial block, then a whole one or, at a size of 3, a
trailing partial one) and from offset 6 (the indirect range's last block,
cut at EOF or wholly past it).
`bmap` truncates to 0, 2 and 8 words. These are whole-block lengths that end
outside the indirect range, so they avoid findings 4 and 8.
The bound does not fail device writes in `bmap`: with failing writes
`NoLeakedBlocks` fails at the first failed clear (result 8). The other
properties were also checked with failing writes, offsets 0 and 7 and no
`NoLeakedBlocks`. They hold (67k states), but that configuration is not kept
as a run. `truncate_io` is the run with failing writes.

The SfsDir runs use `MCSfsDir`: a subdirectory (inode 2, parent 1), the
names `a`, `b`, `c` naming inodes 3 and 4, the over-long `longname`, two
entries per block and two blocks. With `.` and `..` the directory is full at
four slots, so a third name reaches `ENOSPC`, a removed name leaves a free
slot before a later one, and a failed append leaves a free slot at the end.
`dir_listing` has no device failures: a link, a link, a remove and a listing
are enough.

**Bounds.**
* 3–4 inodes are enough for the root, two objects and one spare. With them,
  a reclaim and a re-allocation of the same block both happen.
* Two references per thread let one thread hold a file while another
  removes, links or closes it. This is what makes `sfs_reclaim`'s `EBUSY`
  re-check reachable, and the `files` run reaches it.
* Two names allow two entries for one inode (links) and a rename to a fresh name.

**Exclusions from the passing runs.** Each one is a bug shown by a violation run:
* rename with two threads, or with files nobody has open (`rename_decref`);
* link together with remove (`link_race`);
* `NoSelfWait` and deadlock checking in `dirs`, whose mkdir failures hang
  (finding 2);
* link with two threads: beside remove or rename it is `link_race`'s panic,
  so link is checked in the one-thread `rename` run;
* remove of a directory (finding 10).

**Mutants.** Every property of every passing run has a mutant: a plausible bug
in a mapped definition that TLC finds. Examples:
* `Reclaim` without the re-check;
* `RenameLink` keeping the old entry;
* `LookupDo` returning `ENOENT` with the directory still locked;
* `Findname` stopping at the first free slot, which lets a name be linked twice;
* `RenameUnlock` keeping the file locked.

## Findings

Each of these has a violation run that shows it.

1. **sfs_link race** (`sfs_vnode.c:1561`, run `link_race`). The entry is
   visible before the link count is raised. A file removed while open
   (count 0) and linked again panics a concurrent lookup.
2. **Self-deadlock on the last reference** (`:1693`, `:1714`, run
   `rename_decref`). `VOP_DECREF(g1)` is called under `g1->sv_lock`. When it
   is the last reference, `sfs_reclaim` waits for that same lock. Any rename
   of a file nobody has open hangs with the root locked. Holding the file
   open is no protection either: another thread can rebind the name between
   the open and the rename. `sfs_mkdir`'s error paths (`:1764`, `:1772`,
   `:1780`) follow the same pattern with the new directory: `dirs` reaches
   them, and the unlock after them is never reached, so the model has no
   action for it.
3. **Not crash-consistent** (`:1530`, run `crash`). `sfs_creat` writes the
   new entry's slot to disk through `sfs_writedir` at once, but only marks the
   directory (its new size) and the new inode dirty. Each reaches the disk at
   its own `sfs_sync_inode` (fsync or reclaim). An appended slot is invisible
   after a crash until the directory's size is synced. But an fsync of the
   directory, the usual way to make a creation durable, syncs that size
   while the new inode's block is still the zeros `sfs_balloc` wrote. After a
   crash, a lookup of the name panics in `sfs_loadvnode` (`Invalid inode
   type`). An entry written into a reused free slot below the on-disk size
   is exposed the same way. spec.md promises crash-consistent mutation.
4. **Indirect truncation off by one** (`:1358`, `:1372`, run
   `truncate_indirect`). An indirect entry `j` is freed only if
   `blocklen < baseblock + j`, where `<=` is meant. Truncating to a length
   that ends at `NDIRECT` or inside the indirect range keeps one block too
   many, and its old words reappear when the file grows again.
5. **Failed write-back in truncation** (`:1389`, run `truncate_io`). The
   indirect entries are freed before the indirect block is written. If that
   write fails, the disk still points at free blocks.
6. **read_block never unlocks on a miss** (`src/a1/cache.c:214`, run
   `cache_hang`). The miss path returns with `ftable_locks[file_id]` and
   `cache_locks[slot]` held. The next call for the same file, from any thread,
   blocks forever.

7. **getdirentry ends a listing at a free slot** (`:1164`, run
   `dir_listing`). For a slot `sfs_dir_unlink` emptied, `sfs_getdirentry`
   copies the zeroed name and moves `strlen("") = 0` bytes. That is the
   same result as past the last slot. A listing after a remove stops
   there and misses every later name.

Five more results are recorded as hazards in `PROJECT.json`. Each is
reached by changing one bound of the runs above.

8. **Truncation keeps the tail of the last block** (`:1325`). Nothing zeroes
   the words past the new end in the block that stays. With a truncation
   length inside a block, `FileRefinement` fails in three steps (write,
   truncate, write past the end): the gap reads the old words, where the spec's
   round trip says it reads as zeros.
9. **Allocation leaks on I/O errors** (`:115`, `:314`). `sfs_balloc` returns
   the clear's error with the block still marked used. `sfs_bmap` returns the
   indirect block's write error after allocating the data block. With failing
   writes, `NoLeakedBlocks` fails at the first failed clear.
10. **remove of a directory** (`:1593`). There is no type check: with
   mkdir, lookup and remove, `LinkCountsMatch` fails in three operations,
   because the parent's link count keeps the removed directory's `..`.
11. **remove of `.` or `..`** (`:1604`). `sfs_remove` does not reject them.
   `remove(root, "..")` finds the root itself and waits on the root lock its
   own thread holds, so `NoSelfWait` and `LockOrder` fail in 4 steps. In a
   subdirectory, `remove(sub, "..")` locks the parent under the child.
12. **Inode leak on a failed `sfs_makeobj`** (`:897`). When `sfs_balloc`'s
   clear or `sfs_loadvnode`'s read of the new inode fails, creat and mkdir
   return `EIO` with the block marked in the bitmap and owned by nothing.
   With `files`' bounds, `StorageReclaimed` fails within 200 states.

## Fairness

`SfsDir`'s listing thread is weakly fair (`WF_vars(GetDirEntry)`). Each
changing call holds `sv_lock` only for that call, so in the model
`GetDirEntry` is enabled whenever a listing is open. A runnable thread is
eventually scheduled, and that is all the fairness claims. `CacheSim`'s
threads are weakly fair for the same reason.

SfsVnode and SfsBmap are checked for safety only. The code's threads are preempted by a
scheduler. OS/161 sleep locks wake waiters, but they do not promise to be fair,
so any liveness property would need fairness on `lock_acquire` that the code
does not justify.

## Not modelled

* `sfs_rmdir`, which returns `EUNIMP`.
* `sfs_namefile`, `sfs_stat`, `sfs_gettype`, `sfs_tryseek` and `sfs_ioctl`,
  which change no state.
* `uiomove` faults in `sfs_getdirentry` (a bad user buffer): they return
  an error and leave the offset alone.
* `sfs_lookparent`, which only takes a reference and copies the path.
* Failed inode writes in `sfs_sync_inode`, and the sync of the free map
  (`sfs_sync` in `sfs_fs.c`, which is not part of this source). The disk
  state of inodes and entries is modelled (`dino`, `DiskConsistent`); the
  free map on disk is not, so `DiskConsistent` says nothing about leaked or
  doubly used blocks after a crash.
* The kernel config `ASST3` and the text files.

## Plan

1. **Block layer across files and threads.** Two files in one run would show
   blocks freed by one file's truncation reused by another's write. With the
   `bmap` inputs and 7 blocks it runs for more than 10 minutes, so it needs
   fewer offsets. A
   composition with `SfsVnode` would let `sfs_reclaim`'s truncation of
   an unlinked file run as `Truncate` to length 0.
