------------------------------ MODULE SfsVnode ------------------------------
(***************************************************************************)
(* The vnode layer of SFS (src/a3/src/kern/fs/sfs/sfs_vnode.c): the       *)
(* directory operations creat, link, remove, rename, mkdir and lookup, the *)
(* vnode table with its reference counts (sfs_loadvnode, VOP_DECREF,       *)
(* sfs_reclaim) and the per-vnode sleep locks, run by concurrent kernel    *)
(* threads.                                                                *)
(*                                                                         *)
(* Abstractions.  An inode is a block number in 1..NInos; the root is      *)
(* SFS_ROOT_LOCATION.  A directory's contents are its array of slots, each *)
(* a <<name, ino>> entry or the free slot; its length is the in-memory     *)
(* sfi_size (every slot is found, written and cleared under the            *)
(* directory's lock, so a slot write is one step).  The table lock        *)
(* sfs_vnlock and the bitmap lock sfs_bitlock are never held while a       *)
(* vnode lock is acquired, so each of their critical sections is one       *)
(* atomic step.  Data blocks are modelled in SfsBmap; here sfs_dotruncate  *)
(* of a directory empties its entries.  A kernel panic halts the system:   *)
(* after it no thread moves.                                               *)
(***************************************************************************)
EXTENDS Integers, Sequences, FiniteSets, FiniteSetsExt, Functions, Relation

CONSTANTS
    Threads,    \* kernel threads calling into SFS
    NoThread,   \* owner of a free lock
    Names,      \* names short enough for sfd_name
    LongNames,  \* names longer than SFS_NAMELEN - 1 characters
    Inputs,     \* names the callers pass in (a subset of AllNames)
    NInos,      \* blocks usable as inodes: 1..NInos
    MaxHeld,    \* bound on the vnode references one thread keeps
    Ops,        \* the operations the callers issue
    IoFail,     \* whether the device may fail a directory entry's write,
                \* sfs_balloc's clear or sfs_loadvnode's read of a new inode
    LinkDirs,   \* whether link's target may be a directory
    RenameOpen  \* whether rename's callers rename only files they hold open

Dot == "."
DotDot == ".."
AllNames == Names \cup LongNames \cup {Dot, DotDot}
NOINO == 0
Root == 1                      \* SFS_ROOT_LOCATION
Inos == 1..NInos
Types == {"inval", "file", "dir"}

ASSUME /\ Root \in Inos
       /\ Inputs \subseteq AllNames
       /\ NoThread \notin Threads
       /\ MaxHeld \in Nat \ {0}
       /\ IoFail \in BOOLEAN /\ LinkDirs \in BOOLEAN /\ RenameOpen \in BOOLEAN

VARIABLES
    used,      \* inode blocks marked in the free-block bitmap
    itype,     \* sfi_type of each inode
    lc,        \* sfi_linkcount of each inode
    dir,       \* the slots of each directory, as a sequence
    table,     \* sfs_vnodes: the inodes resident as vnodes
    refcnt,    \* vn_refcount of each resident vnode
    owner,     \* holder of each vnode's sv_lock
    pc,        \* where each thread is
    loc,       \* each thread's local variables
    held,      \* vnode references each thread keeps between operations
    panicked,  \* the reason of a kernel panic, or "none"
    dino       \* each inode block on disk: its sfi_type, sfi_linkcount and
               \* sfi_size (in slots) as last written.  itype, lc and Len(dir)
               \* are the vnodes' copies, which only sfs_sync_inode writes
               \* back; a slot's contents are written through at once

vars == <<used, itype, lc, dir, table, refcnt, owner, pc, loc, held, panicked, dino>>

Loc0 == [d |-> NOINO, n |-> Dot, n2 |-> Dot, f |-> NOINO, v |-> NOINO,
         excl |-> FALSE, ret |-> "idle"]

-----------------------------------------------------------------------------
(* Helpers *)

\* a slot sfs_dir_unlink has cleared: sfd_ino is SFS_NOINO
FreeSlot == <<"", NOINO>>

\* the active entries of directory d
Entries(d) == {dir[d][k] : k \in DOMAIN dir[d]} \ {FreeSlot}

\* sfs_dir_link's slot: the last free slot sfs_dir_findname passed, else
\* a new slot at sfs_dir_nentries, which sfs_writedir's sfs_io appends
AddEntry(s, e) ==
    LET free == {k \in DOMAIN s : s[k] = FreeSlot} IN
    IF free = {} THEN Append(s, e) ELSE [s EXCEPT ![Max(free)] = e]

\* sfs_dir_unlink: the entry's slot is overwritten with a free one
ClearEntry(s, e) == [k \in DOMAIN s |-> IF s[k] = e THEN FreeSlot ELSE s[k]]

\* the inodes a name is bound to in directory d (sfs_dir_findname)
Bound(d, n) == {e[2] : e \in {x \in Entries(d) : x[1] = n}}

\* the total number of references thread t keeps
HeldTotal(t) == SumFunction(held[t])

\* the directory vnodes thread t can pass as the directory of an operation
DirsOf(t) == {Root} \cup {i \in Inos : held[t][i] > 0 /\ itype[i] = "dir"}

\* mutant: a block handed out without consulting the bitmap
FreeInoIgnoringBitmap == Min(Inos)

\* the lowest free block: bitmap_alloc is first-fit
FreeIno == Min(Inos \ used)

\* mutant: sfs_dir_link without the EEXIST check
LinkResultNoExist(d, n, ioerr) ==
    CASE n \in LongNames   -> "ENAMETOOLONG"
      [] ioerr             -> "EIO"
      [] OTHER             -> "ok"

\* result of sfs_dir_link(d, n, _) whose entry write fails iff ioerr
LinkResult(d, n, ioerr) ==
    CASE Bound(d, n) # {}  -> "EEXIST"
      [] n \in LongNames   -> "ENAMETOOLONG"
      [] ioerr             -> "EIO"
      [] OTHER             -> "ok"

IoOutcomes == IF IoFail THEN BOOLEAN ELSE {FALSE}

\* sfs_sync_inode(i): the vnode's copy of the inode, of size sz, is written
\* to its block
SyncInode(i, sz) == [dino EXCEPT ![i] = [type |-> itype[i], lc |-> lc[i], size |-> sz]]

\* sfs_balloc's sfs_clearblock of a new inode: its block on disk is zeros
ClearedIno(i) == [dino EXCEPT ![i] = [type |-> "inval", lc |-> 0, size |-> 0]]

\* how sfs_makeobj ends: "clear" if sfs_balloc's sfs_clearblock fails (115),
\* "read" if sfs_loadvnode's sfs_rblock of the new inode fails (2067)
MakeOutcomes == IF IoFail THEN {"ok", "clear", "read"} ELSE {"ok"}

\* the fault sfs_loadvnode panics with when loading inode i
LoadFault(i) ==
    CASE \E x \in table : x \notin used -> "unallocated"
      [] i \notin table /\ i \notin used -> "unallocated"
      [] OTHER -> "none"

\* the fault sfs_makeobj's sfs_loadvnode(new, type) panics with: the table
\* scan, or the forced type assertion on an inode already resident
MakeFault(new) ==
    IF (\E x \in table : x \notin used) \/ new \in table
    THEN "unallocated" ELSE "none"

\* the fault sfs_lookonce panics with when it finds name n in d
LookonceFault(d, n) ==
    LET i == CHOOSE x \in Bound(d, n) : TRUE IN
    CASE Cardinality(Bound(d, n)) > 1 -> "dupname"
      [] LoadFault(i) # "none"        -> LoadFault(i)
      [] lc[i] = 0                    -> "linkcount0"
      [] OTHER                        -> "none"

\* sfs_loadvnode(i, SFS_TYPE_INVAL) when no fault occurs
LoadVnode(i) ==
    IF i \in table
    THEN /\ refcnt' = [refcnt EXCEPT ![i] = @ + 1]
         /\ UNCHANGED table
    ELSE /\ table' = table \cup {i}
         /\ refcnt' = [refcnt EXCEPT ![i] = 1]

Goto(t, p) == pc' = [pc EXCEPT ![t] = p]
Finish(t) == /\ pc' = [pc EXCEPT ![t] = "idle"]
             /\ loc' = [loc EXCEPT ![t] = Loc0]
Release(t, S) == owner' = [i \in Inos |-> IF i \in S THEN NoThread ELSE owner[i]]
Acquire(t, i) == /\ owner[i] = NoThread
                 /\ owner' = [owner EXCEPT ![i] = t]
\* a kernel panic: every thread stops where it is
Panic(why) == /\ panicked' = why
              /\ pc' = [u \in Threads |-> "halt"]
              /\ UNCHANGED <<used, itype, lc, dir, table, refcnt, owner, loc, held, dino>>
\* call VOP_DECREF on the reference to v, continuing at ret
CallDecref(t, v, ret) == /\ pc' = [pc EXCEPT ![t] = "dec"]
                         /\ loc' = [loc EXCEPT ![t].v = v, ![t].ret = ret]

\* sfs_makeobj returns that EIO, and the caller unlocks d and returns it: the
\* block stays marked in the bitmap, owned by no entry and no vnode
MakeobjFails(t, d, new, how) ==
    /\ used' = used \cup {new}
    /\ dino' = IF how = "read" THEN ClearedIno(new) ELSE dino
    /\ Release(t, {d}) /\ Finish(t)
    /\ UNCHANGED <<itype, lc, dir, table, refcnt, held, panicked>>

-----------------------------------------------------------------------------
(* VOP_DECREF and sfs_reclaim (sfs_vnode.c 997-1076).  VOP_DECREF drops a *)
(* reference; on the last one it hands that reference to sfs_reclaim,     *)
(* which takes the vnode lock, then sfs_vnlock, and re-checks the count.  *)

\* the continuation after a VOP_DECREF: the reference in loc.v is gone
Return(t) ==
    /\ pc' = [pc EXCEPT ![t] = loc[t].ret]
    /\ loc' = [loc EXCEPT ![t] = IF loc[t].ret = "idle" THEN Loc0
                                 ELSE [@ EXCEPT !.v = NOINO]]

\* mutant: the count is lowered before the last-reference test
DecrefEarly(t) ==
    LET v == loc[t].v IN
    /\ pc[t] = "dec"
    /\ refcnt' = [refcnt EXCEPT ![v] = @ - 1]
    /\ IF refcnt[v] > 1 THEN Return(t)
       ELSE /\ Goto(t, "rcl_lock") /\ UNCHANGED loc
    /\ UNCHANGED <<used, itype, lc, dir, table, owner, held, panicked, dino>>

Decref(t) ==
    LET v == loc[t].v IN
    /\ pc[t] = "dec"
    /\ IF refcnt[v] > 1
       THEN /\ refcnt' = [refcnt EXCEPT ![v] = @ - 1]
            /\ Return(t)
       ELSE /\ Goto(t, "rcl_lock")
            /\ UNCHANGED <<refcnt, loc>>
    /\ UNCHANGED <<used, itype, lc, dir, table, owner, held, panicked, dino>>

ReclaimLock(t) ==
    /\ pc[t] = "rcl_lock"
    /\ Acquire(t, loc[t].v)
    /\ Goto(t, "rcl")
    /\ UNCHANGED <<used, itype, lc, dir, table, refcnt, loc, held, panicked, dino>>

\* mutant: sfs_reclaim without the re-check of vn_refcount
ReclaimNoRecheck(t) ==
    LET v == loc[t].v IN
    /\ pc[t] = "rcl"
    /\ table' = table \ {v}
    /\ refcnt' = [refcnt EXCEPT ![v] = 0]
    /\ dino' = SyncInode(v, IF lc[v] = 0 THEN 0 ELSE Len(dir[v]))
    /\ IF lc[v] = 0
       THEN /\ used' = used \ {v}
            /\ dir' = [dir EXCEPT ![v] = <<>>]
       ELSE UNCHANGED <<used, dir>>
    /\ Release(t, {v})
    /\ Return(t)
    /\ UNCHANGED <<itype, lc, held, panicked>>

\* mutant: sfs_reclaim frees the inode whatever its link count
ReclaimFreeAlways(t) ==
    LET v == loc[t].v IN
    /\ pc[t] = "rcl"
    /\ IF refcnt[v] # 1
       THEN /\ refcnt' = [refcnt EXCEPT ![v] = @ - 1]
            /\ UNCHANGED <<used, dir, table, dino>>
       ELSE /\ table' = table \ {v}
            /\ refcnt' = [refcnt EXCEPT ![v] = 0]
            /\ dino' = SyncInode(v, 0)
            /\ used' = used \ {v}
            /\ dir' = [dir EXCEPT ![v] = <<>>]
    /\ Release(t, {v})
    /\ Return(t)
    /\ UNCHANGED <<itype, lc, held, panicked>>

\* under sfs_vnlock: EBUSY if someone took a reference meanwhile; else
\* truncate and free an unlinked inode, and drop the vnode from the table
Reclaim(t) ==
    LET v == loc[t].v IN
    /\ pc[t] = "rcl"
    /\ IF refcnt[v] # 1
       THEN /\ refcnt' = [refcnt EXCEPT ![v] = @ - 1]
            /\ UNCHANGED <<used, dir, table, dino>>
       ELSE /\ table' = table \ {v}
            /\ refcnt' = [refcnt EXCEPT ![v] = 0]
            \* sfs_dotruncate(sv, 0) of an unlinked inode, then
            \* sfs_sync_inode, then sfs_bfree
            /\ dino' = SyncInode(v, IF lc[v] = 0 THEN 0 ELSE Len(dir[v]))
            /\ IF lc[v] = 0
               THEN /\ used' = used \ {v}
                    /\ dir' = [dir EXCEPT ![v] = <<>>]
               ELSE UNCHANGED <<used, dir>>
    /\ Release(t, {v})
    /\ Return(t)
    /\ UNCHANGED <<itype, lc, held, panicked>>

-----------------------------------------------------------------------------
(* sfs_lookup (1880-1900) with sfs_lookonce (846-872): a single-level     *)
(* lookup; the caller keeps the reference it hands back.                 *)

StartLookup(t) ==
    /\ pc[t] = "idle" /\ "lookup" \in Ops
    /\ HeldTotal(t) < MaxHeld
    /\ \E d \in DirsOf(t), n \in Inputs :
         /\ loc' = [loc EXCEPT ![t] = [Loc0 EXCEPT !.d = d, !.n = n]]
         /\ Goto(t, "lk_lock")
    /\ UNCHANGED <<used, itype, lc, dir, table, refcnt, owner, held, panicked, dino>>

LookupLock(t) ==
    /\ pc[t] = "lk_lock"
    /\ Acquire(t, loc[t].d)
    /\ Goto(t, "lk_do")
    /\ UNCHANGED <<used, itype, lc, dir, table, refcnt, loc, held, panicked, dino>>

\* mutant: the ENOENT return leaves the directory locked
LookupDoKeepsLockOnEnoent(t) ==
    LET d == loc[t].d
        n == loc[t].n
        i == CHOOSE x \in Bound(d, n) : TRUE
    IN
    /\ pc[t] = "lk_do"
    /\ IF Bound(d, n) = {}
       THEN /\ Finish(t)
            /\ UNCHANGED <<used, itype, lc, dir, table, refcnt, owner, held, panicked, dino>>
       ELSE IF LookonceFault(d, n) # "none"
       THEN Panic(LookonceFault(d, n))
       ELSE /\ LoadVnode(i)
            /\ held' = [held EXCEPT ![t][i] = @ + 1]
            /\ Release(t, {d}) /\ Finish(t)
            /\ UNCHANGED <<used, itype, lc, dir, panicked, dino>>

LookupDo(t) ==
    LET d == loc[t].d
        n == loc[t].n
        i == CHOOSE x \in Bound(d, n) : TRUE
    IN
    /\ pc[t] = "lk_do"
    /\ IF Bound(d, n) = {}
       THEN /\ Release(t, {d}) /\ Finish(t)             \* ENOENT
            /\ UNCHANGED <<used, itype, lc, dir, table, refcnt, held, panicked, dino>>
       ELSE IF LookonceFault(d, n) # "none"
       THEN Panic(LookonceFault(d, n))
       ELSE /\ LoadVnode(i)
            /\ held' = [held EXCEPT ![t][i] = @ + 1]
            /\ Release(t, {d}) /\ Finish(t)
            /\ UNCHANGED <<used, itype, lc, dir, panicked, dino>>

-----------------------------------------------------------------------------
(* sfs_creat (1476-1537) with sfs_makeobj (887-907)                      *)

StartCreat(t) ==
    /\ pc[t] = "idle" /\ "creat" \in Ops
    /\ HeldTotal(t) < MaxHeld
    /\ \E d \in DirsOf(t), n \in Inputs, excl \in BOOLEAN :
         /\ loc' = [loc EXCEPT ![t] = [Loc0 EXCEPT !.d = d, !.n = n, !.excl = excl]]
         /\ Goto(t, "cr_lock")
    /\ UNCHANGED <<used, itype, lc, dir, table, refcnt, owner, held, panicked, dino>>

CreatLock(t) ==
    /\ pc[t] = "cr_lock"
    /\ Acquire(t, loc[t].d)
    /\ Goto(t, "cr_do")
    /\ UNCHANGED <<used, itype, lc, dir, table, refcnt, loc, held, panicked, dino>>

\* the name exists: EEXIST if exclusive, else hand back its vnode
CreatExisting(t) ==
    LET d == loc[t].d
        i == CHOOSE x \in Bound(d, loc[t].n) : TRUE
    IN
    /\ pc[t] = "cr_do"
    /\ Bound(d, loc[t].n) # {}
    /\ IF Cardinality(Bound(d, loc[t].n)) > 1 THEN Panic("dupname")
       ELSE IF loc[t].excl
       THEN /\ Release(t, {d}) /\ Finish(t)
            /\ UNCHANGED <<used, itype, lc, dir, table, refcnt, held, panicked, dino>>
       ELSE IF LoadFault(i) # "none" THEN Panic(LoadFault(i))
       ELSE /\ LoadVnode(i)
            /\ held' = [held EXCEPT ![t][i] = @ + 1]
            /\ Release(t, {d}) /\ Finish(t)
            /\ UNCHANGED <<used, itype, lc, dir, panicked, dino>>

\* the name is free: allocate an inode, load it, and link it into d
CreatNew(t) ==
    LET d == loc[t].d
        n == loc[t].n
        new == FreeIno
    IN
    /\ pc[t] = "cr_do"
    /\ Bound(d, n) = {}
    /\ IF used = Inos
       THEN /\ Release(t, {d}) /\ Finish(t)              \* ENOSPC
            /\ UNCHANGED <<used, itype, lc, dir, table, refcnt, held, panicked, dino>>
       ELSE \E how \in MakeOutcomes :
       IF how = "clear" THEN MakeobjFails(t, d, new, how)
       ELSE IF MakeFault(new) # "none" THEN Panic(MakeFault(new))
       ELSE IF how = "read" THEN MakeobjFails(t, d, new, how)
       ELSE \E ioerr \in IoOutcomes :
         /\ used' = used \cup {new}
         /\ table' = table \cup {new}
         /\ refcnt' = [refcnt EXCEPT ![new] = 1]
         /\ itype' = [itype EXCEPT ![new] = "file"]
         /\ IF LinkResult(d, n, ioerr) = "ok"
            THEN /\ dir' = [dir EXCEPT ![new] = <<>>, ![d] = AddEntry(@, <<n, new>>)]
                 /\ lc' = [lc EXCEPT ![new] = 1]
                 /\ held' = [held EXCEPT ![t][new] = @ + 1]
                 /\ Release(t, {d}) /\ Finish(t)
            ELSE /\ dir' = [dir EXCEPT ![new] = <<>>]
                 /\ lc' = [lc EXCEPT ![new] = 0]
                 /\ CallDecref(t, new, "cr_unlock")
                 /\ UNCHANGED <<held, owner>>
         /\ dino' = ClearedIno(new)
         /\ UNCHANGED panicked

CreatUnlock(t) ==
    /\ pc[t] = "cr_unlock"
    /\ Release(t, {loc[t].d}) /\ Finish(t)
    /\ UNCHANGED <<used, itype, lc, dir, table, refcnt, held, panicked, dino>>

-----------------------------------------------------------------------------
(* sfs_link (1550-1574): the entry is written under the directory lock,  *)
(* the link count raised afterwards under the file's lock.               *)

StartLink(t) ==
    /\ pc[t] = "idle" /\ "link" \in Ops
    /\ \E d \in DirsOf(t), n \in Inputs, f \in Inos :
         /\ held[t][f] > 0
         /\ LinkDirs \/ itype[f] = "file"
         /\ loc' = [loc EXCEPT ![t] = [Loc0 EXCEPT !.d = d, !.n = n, !.f = f]]
         /\ Goto(t, "ln_lock")
    /\ UNCHANGED <<used, itype, lc, dir, table, refcnt, owner, held, panicked, dino>>

LinkLock(t) ==
    /\ pc[t] = "ln_lock"
    /\ Acquire(t, loc[t].d)
    /\ Goto(t, "ln_do")
    /\ UNCHANGED <<used, itype, lc, dir, table, refcnt, loc, held, panicked, dino>>

LinkDo(t) ==
    LET d == loc[t].d IN
    /\ pc[t] = "ln_do"
    /\ \E ioerr \in IoOutcomes :
         IF Cardinality(Bound(d, loc[t].n)) > 1 THEN Panic("dupname")
         ELSE IF LinkResult(d, loc[t].n, ioerr) = "ok"
         THEN /\ dir' = [dir EXCEPT ![d] = AddEntry(@, <<loc[t].n, loc[t].f>>)]
              /\ Release(t, {d}) /\ Goto(t, "ln_flock")
              /\ UNCHANGED <<used, itype, lc, table, refcnt, loc, held, panicked, dino>>
         ELSE /\ Release(t, {d}) /\ Finish(t)
              /\ UNCHANGED <<used, itype, lc, dir, table, refcnt, held, panicked, dino>>

LinkFileLock(t) ==
    /\ pc[t] = "ln_flock"
    /\ Acquire(t, loc[t].f)
    /\ Goto(t, "ln_inc")
    /\ UNCHANGED <<used, itype, lc, dir, table, refcnt, loc, held, panicked, dino>>

\* mutant: the link count is not raised
LinkIncMissing(t) ==
    /\ pc[t] = "ln_inc"
    /\ Release(t, {loc[t].f}) /\ Finish(t)
    /\ UNCHANGED <<used, itype, lc, dir, table, refcnt, held, panicked, dino>>

LinkInc(t) ==
    /\ pc[t] = "ln_inc"
    /\ lc' = [lc EXCEPT ![loc[t].f] = @ + 1]
    /\ Release(t, {loc[t].f}) /\ Finish(t)
    /\ UNCHANGED <<used, itype, dir, table, refcnt, held, panicked, dino>>

-----------------------------------------------------------------------------
(* sfs_remove (1584-1617): find the victim and unlink its entry under    *)
(* the directory lock, then lower its link count under its own lock, and *)
(* drop the lookup's reference before unlocking the directory.           *)

StartRemove(t) ==
    /\ pc[t] = "idle" /\ "remove" \in Ops
    /\ \E d \in DirsOf(t), n \in Inputs :
         /\ loc' = [loc EXCEPT ![t] = [Loc0 EXCEPT !.d = d, !.n = n]]
         /\ Goto(t, "rm_lock")
    /\ UNCHANGED <<used, itype, lc, dir, table, refcnt, owner, held, panicked, dino>>

RemoveLock(t) ==
    /\ pc[t] = "rm_lock"
    /\ Acquire(t, loc[t].d)
    /\ Goto(t, "rm_do")
    /\ UNCHANGED <<used, itype, lc, dir, table, refcnt, loc, held, panicked, dino>>

RemoveDo(t) ==
    LET d == loc[t].d
        n == loc[t].n
        i == CHOOSE x \in Bound(d, n) : TRUE
    IN
    /\ pc[t] = "rm_do"
    /\ IF Bound(d, n) = {}
       THEN /\ Release(t, {d}) /\ Finish(t)             \* ENOENT
            /\ UNCHANGED <<used, itype, lc, dir, table, refcnt, held, panicked, dino>>
       ELSE IF LookonceFault(d, n) # "none"
       THEN Panic(LookonceFault(d, n))
       ELSE \E ioerr \in IoOutcomes :
            /\ LoadVnode(i)
            /\ IF ioerr
               THEN /\ CallDecref(t, i, "rm_unlock")
                    /\ UNCHANGED dir
               ELSE /\ dir' = [dir EXCEPT ![d] = ClearEntry(@, <<n, i>>)]
                    /\ loc' = [loc EXCEPT ![t].v = i]
                    /\ Goto(t, "rm_vlock")
            /\ UNCHANGED <<used, itype, lc, owner, held, panicked, dino>>

RemoveVictimLock(t) ==
    /\ pc[t] = "rm_vlock"
    /\ Acquire(t, loc[t].v)
    /\ Goto(t, "rm_dlc")
    /\ UNCHANGED <<used, itype, lc, dir, table, refcnt, loc, held, panicked, dino>>

\* mutant: the victim's link count is not lowered
RemoveDropLinkNoDecrement(t) ==
    LET v == loc[t].v IN
    /\ pc[t] = "rm_dlc"
    /\ Release(t, {v})
    /\ CallDecref(t, v, "rm_unlock")
    /\ UNCHANGED <<used, itype, lc, dir, table, refcnt, held, panicked, dino>>

RemoveDropLink(t) ==
    LET v == loc[t].v IN
    /\ pc[t] = "rm_dlc"
    /\ IF lc[v] = 0
       THEN Panic("assert")
       ELSE /\ lc' = [lc EXCEPT ![v] = @ - 1]
            /\ Release(t, {v})
            /\ CallDecref(t, v, "rm_unlock")
            /\ UNCHANGED <<used, itype, dir, table, refcnt, held, panicked, dino>>

RemoveUnlock(t) ==
    /\ pc[t] = "rm_unlock"
    /\ Release(t, {loc[t].d}) /\ Finish(t)
    /\ UNCHANGED <<used, itype, lc, dir, table, refcnt, held, panicked, dino>>

-----------------------------------------------------------------------------
(* sfs_rename (1637-1720): only within the root (it asserts d1 == d2 and *)
(* that d1 is the root).  The file g1 is kept in loc.f.                  *)

StartRename(t) ==
    /\ pc[t] = "idle" /\ "rename" \in Ops
    /\ \E n1, n2 \in Inputs :
         /\ RenameOpen => \E g \in Bound(Root, n1) : held[t][g] > 0
         /\ loc' = [loc EXCEPT ![t] = [Loc0 EXCEPT !.d = Root, !.n = n1, !.n2 = n2]]
         /\ Goto(t, "rn_lock")
    /\ UNCHANGED <<used, itype, lc, dir, table, refcnt, owner, held, panicked, dino>>

RenameLock(t) ==
    /\ pc[t] = "rn_lock"
    /\ Acquire(t, Root)
    /\ Goto(t, "rn_do")
    /\ UNCHANGED <<used, itype, lc, dir, table, refcnt, loc, held, panicked, dino>>

\* mutant: the vnode sfs_lookonce hands back is not counted
RenameLookupNoLoad(t) ==
    LET n == loc[t].n
        i == CHOOSE x \in Bound(Root, n) : TRUE
    IN
    /\ pc[t] = "rn_do"
    /\ IF Bound(Root, n) = {}
       THEN /\ Release(t, {Root}) /\ Finish(t)
            /\ UNCHANGED <<used, itype, lc, dir, table, refcnt, held, panicked, dino>>
       ELSE IF LookonceFault(Root, n) # "none"
       THEN Panic(LookonceFault(Root, n))
       ELSE /\ loc' = [loc EXCEPT ![t].v = i, ![t].f = i]
            /\ Goto(t, "rn_glock")
            /\ UNCHANGED <<used, itype, lc, dir, table, refcnt, owner, held, panicked, dino>>

RenameLookup(t) ==
    LET n == loc[t].n
        i == CHOOSE x \in Bound(Root, n) : TRUE
    IN
    /\ pc[t] = "rn_do"
    /\ IF Bound(Root, n) = {}
       THEN /\ Release(t, {Root}) /\ Finish(t)           \* ENOENT
            /\ UNCHANGED <<used, itype, lc, dir, table, refcnt, held, panicked, dino>>
       ELSE IF LookonceFault(Root, n) # "none"
       THEN Panic(LookonceFault(Root, n))
       ELSE /\ LoadVnode(i)
            /\ loc' = [loc EXCEPT ![t].v = i, ![t].f = i]
            /\ Goto(t, "rn_glock")
            /\ UNCHANGED <<used, itype, lc, dir, owner, held, panicked, dino>>

RenameFileLock(t) ==
    /\ pc[t] = "rn_glock"
    /\ Acquire(t, loc[t].f)
    /\ Goto(t, "rn_link")
    /\ UNCHANGED <<used, itype, lc, dir, table, refcnt, loc, held, panicked, dino>>

\* mutant: the old name is never unlinked
RenameLinkKeepsOld(t) ==
    LET g1 == loc[t].f
        n2 == loc[t].n2
    IN
    /\ pc[t] = "rn_link"
    /\ IF itype[g1] # "file" THEN Panic("assert")
       ELSE IF Cardinality(Bound(Root, n2)) > 1 THEN Panic("dupname")
       ELSE \E linkerr \in IoOutcomes :
              /\ IF LinkResult(Root, n2, linkerr) = "ok"
                 THEN dir' = [dir EXCEPT ![Root] = AddEntry(@, <<n2, g1>>)]
                 ELSE UNCHANGED dir
              /\ CallDecref(t, g1, "rn_unlock")
              /\ UNCHANGED <<used, itype, lc, table, refcnt, owner, held, panicked, dino>>

\* link under n2 (raising the count), unlink n1 (lowering it); if the
\* unlink fails, unlink n2 again, and panic if that fails too
RenameLink(t) ==
    LET g1 == loc[t].f
        n1 == loc[t].n
        n2 == loc[t].n2
    IN
    /\ pc[t] = "rn_link"
    /\ IF itype[g1] # "file" THEN Panic("assert")
       ELSE IF Cardinality(Bound(Root, n2)) > 1 THEN Panic("dupname")
       ELSE \E linkerr, unlinkerr, undoerr \in IoOutcomes :
         IF LinkResult(Root, n2, linkerr) = "ok" /\ unlinkerr /\ undoerr
         THEN Panic("rename")
         ELSE /\ IF LinkResult(Root, n2, linkerr) = "ok" /\ ~unlinkerr
                 THEN dir' = [dir EXCEPT ![Root] = ClearEntry(AddEntry(@, <<n2, g1>>), <<n1, g1>>)]
                 ELSE UNCHANGED dir
              /\ CallDecref(t, g1, "rn_unlock")
              /\ UNCHANGED <<used, itype, lc, table, refcnt, owner, held, panicked, dino>>

\* mutant: the file's lock is left held
RenameUnlockKeepsFile(t) ==
    /\ pc[t] = "rn_unlock"
    /\ Release(t, {Root}) /\ Finish(t)
    /\ UNCHANGED <<used, itype, lc, dir, table, refcnt, held, panicked, dino>>

RenameUnlock(t) ==
    /\ pc[t] = "rn_unlock"
    /\ Release(t, {loc[t].f, Root}) /\ Finish(t)
    /\ UNCHANGED <<used, itype, lc, dir, table, refcnt, held, panicked, dino>>

-----------------------------------------------------------------------------
(* sfs_mkdir (1729-1807).  The new directory is kept in loc.f.           *)

StartMkdir(t) ==
    /\ pc[t] = "idle" /\ "mkdir" \in Ops
    /\ \E d \in DirsOf(t), n \in Inputs :
         /\ loc' = [loc EXCEPT ![t] = [Loc0 EXCEPT !.d = d, !.n = n]]
         /\ Goto(t, "mk_lock")
    /\ UNCHANGED <<used, itype, lc, dir, table, refcnt, owner, held, panicked, dino>>

MkdirLock(t) ==
    /\ pc[t] = "mk_lock"
    /\ Acquire(t, loc[t].d)
    /\ Goto(t, "mk_do")
    /\ UNCHANGED <<used, itype, lc, dir, table, refcnt, loc, held, panicked, dino>>

\* EEXIST if the name is taken, ENOSPC if no block is free, else make
\* a directory object and hold its vnode
MkdirMake(t) ==
    LET d == loc[t].d
        new == FreeIno
    IN
    /\ pc[t] = "mk_do"
    /\ IF Bound(d, loc[t].n) # {} \/ used = Inos
       THEN /\ Release(t, {d}) /\ Finish(t)
            /\ UNCHANGED <<used, itype, lc, dir, table, refcnt, held, panicked, dino>>
       ELSE \E how \in MakeOutcomes :
       IF how = "clear" THEN MakeobjFails(t, d, new, how)
       ELSE IF MakeFault(new) # "none" THEN Panic(MakeFault(new))
       ELSE IF how = "read" THEN MakeobjFails(t, d, new, how)
       ELSE /\ used' = used \cup {new}
            /\ table' = table \cup {new}
            /\ refcnt' = [refcnt EXCEPT ![new] = 1]
            /\ itype' = [itype EXCEPT ![new] = "dir"]
            /\ lc' = [lc EXCEPT ![new] = 0]
            /\ dir' = [dir EXCEPT ![new] = <<>>]
            /\ loc' = [loc EXCEPT ![t].v = new, ![t].f = new]
            /\ dino' = ClearedIno(new)
            /\ Goto(t, "mk_nlock")
            /\ UNCHANGED <<owner, held, panicked>>

MkdirNewLock(t) ==
    /\ pc[t] = "mk_nlock"
    /\ Acquire(t, loc[t].f)
    /\ Goto(t, "mk_link")
    /\ UNCHANGED <<used, itype, lc, dir, table, refcnt, loc, held, panicked, dino>>

\* a write of ".", "..", or the name fails: VOP_DECREF the new vnode
\* while still holding both locks.  The new vnode's reference is always its
\* last, so sfs_reclaim waits on the lock this thread holds and the unlock
\* that follows ("mk_unlock") is never reached.
MkdirLinkFail(t) ==
    LET d == loc[t].d
        new == loc[t].f
    IN
    /\ pc[t] = "mk_link"
    /\ \/ /\ IoFail                                  \* "." not written
          /\ UNCHANGED dir
       \/ /\ IoFail                                  \* ".." not written
          /\ dir' = [dir EXCEPT ![new] = <<<<Dot, new>>>>]
       \/ /\ \E e3 \in IoOutcomes : LinkResult(d, loc[t].n, e3) # "ok"
          /\ dir' = [dir EXCEPT ![new] = <<<<Dot, new>>, <<DotDot, d>>>>]
    /\ CallDecref(t, new, "mk_unlock")
    /\ UNCHANGED <<used, itype, lc, table, refcnt, owner, held, panicked, dino>>

\* mutant: the parent's link count is not raised
MkdirLinkedNoParentCount(t) ==
    LET d == loc[t].d
        new == loc[t].f
    IN
    /\ pc[t] = "mk_link"
    /\ LinkResult(d, loc[t].n, FALSE) = "ok"
    /\ dir' = [dir EXCEPT ![new] = <<<<Dot, new>>, <<DotDot, d>>>>,
                          ![d] = AddEntry(@, <<loc[t].n, new>>)]
    /\ lc' = [lc EXCEPT ![new] = @ + 1]
    /\ Release(t, {new, d})
    /\ CallDecref(t, new, "idle")
    /\ UNCHANGED <<used, itype, table, refcnt, held, panicked, dino>>

\* mutant: VOP_DECREF of the new vnode before its lock is released
MkdirLinkedDecrefLocked(t) ==
    LET d == loc[t].d
        new == loc[t].f
    IN
    /\ pc[t] = "mk_link"
    /\ LinkResult(d, loc[t].n, FALSE) = "ok"
    /\ dir' = [dir EXCEPT ![new] = <<<<Dot, new>>, <<DotDot, d>>>>,
                          ![d] = AddEntry(@, <<loc[t].n, new>>)]
    /\ lc' = [lc EXCEPT ![new] = @ + 1, ![d] = @ + 1]
    /\ Release(t, {d})
    /\ CallDecref(t, new, "mk_unlock")
    /\ UNCHANGED <<used, itype, table, refcnt, held, panicked, dino>>

\* all three entries written: raise both link counts, unlock, and drop
\* the reference sfs_makeobj returned
MkdirLinked(t) ==
    LET d == loc[t].d
        new == loc[t].f
    IN
    /\ pc[t] = "mk_link"
    /\ LinkResult(d, loc[t].n, FALSE) = "ok"
    /\ dir' = [dir EXCEPT ![new] = <<<<Dot, new>>, <<DotDot, d>>>>,
                          ![d] = AddEntry(@, <<loc[t].n, new>>)]
    /\ lc' = [lc EXCEPT ![new] = @ + 1, ![d] = @ + 1]
    /\ Release(t, {new, d})
    /\ CallDecref(t, new, "idle")
    /\ UNCHANGED <<used, itype, table, refcnt, held, panicked, dino>>

-----------------------------------------------------------------------------
(* VOP_DECREF of a reference a thread kept (vfs_close and the like)      *)

Close(t) ==
    /\ pc[t] = "idle" /\ "close" \in Ops
    /\ \E f \in Inos :
         /\ held[t][f] > 0
         /\ held' = [held EXCEPT ![t][f] = @ - 1]
         /\ CallDecref(t, f, "idle")
    /\ UNCHANGED <<used, itype, lc, dir, table, refcnt, owner, panicked, dino>>

\* sfs_fsync (1279-1293) on a vnode the thread holds
StartFsync(t) ==
    /\ pc[t] = "idle" /\ "fsync" \in Ops
    /\ \E f \in Inos :
         /\ held[t][f] > 0
         /\ loc' = [loc EXCEPT ![t].f = f]
         /\ Goto(t, "fs_lock")
    /\ UNCHANGED <<used, itype, lc, dir, table, refcnt, owner, held, panicked, dino>>

\* lock_acquire(sv_lock), sfs_sync_inode, lock_release: nothing else is
\* done under the lock, so taking it and letting it go is one step
Fsync(t) ==
    /\ pc[t] = "fs_lock"
    /\ owner[loc[t].f] = NoThread
    /\ dino' = SyncInode(loc[t].f, Len(dir[loc[t].f]))
    /\ Finish(t)
    /\ UNCHANGED <<used, itype, lc, dir, table, refcnt, owner, held, panicked>>

-----------------------------------------------------------------------------

Init ==
    /\ used = {Root}
    /\ itype = [i \in Inos |-> IF i = Root THEN "dir" ELSE "inval"]
    /\ lc = [i \in Inos |-> IF i = Root THEN 1 ELSE 0]
    /\ dir = [i \in Inos |-> IF i = Root THEN <<<<Dot, Root>>, <<DotDot, Root>>>>
                                         ELSE <<>>]
    /\ table = {Root}
    /\ refcnt = [i \in Inos |-> IF i = Root THEN 1 ELSE 0]
    /\ owner = [i \in Inos |-> NoThread]
    /\ pc = [t \in Threads |-> "idle"]
    /\ loc = [t \in Threads |-> Loc0]
    /\ held = [t \in Threads |-> [i \in Inos |-> 0]]
    /\ panicked = "none"
    /\ dino = [i \in Inos |-> [type |-> itype[i], lc |-> lc[i], size |-> Len(dir[i])]]

Step(t) ==
    \/ StartLookup(t) \/ LookupLock(t) \/ LookupDo(t)
    \/ StartCreat(t) \/ CreatLock(t) \/ CreatExisting(t) \/ CreatNew(t)
    \/ CreatUnlock(t)
    \/ StartLink(t) \/ LinkLock(t) \/ LinkDo(t) \/ LinkFileLock(t) \/ LinkInc(t)
    \/ StartRemove(t) \/ RemoveLock(t) \/ RemoveDo(t) \/ RemoveVictimLock(t)
    \/ RemoveDropLink(t) \/ RemoveUnlock(t)
    \/ StartRename(t) \/ RenameLock(t) \/ RenameLookup(t) \/ RenameFileLock(t)
    \/ RenameLink(t) \/ RenameUnlock(t)
    \/ StartMkdir(t) \/ MkdirLock(t) \/ MkdirMake(t) \/ MkdirNewLock(t)
    \/ MkdirLinkFail(t) \/ MkdirLinked(t)
    \/ Close(t) \/ StartFsync(t) \/ Fsync(t)
    \/ Decref(t) \/ ReclaimLock(t) \/ Reclaim(t)

\* after a panic no thread is enabled, and the system has stopped
Next == \E t \in Threads : Step(t)

Spec == Init /\ [][Next]_vars

-----------------------------------------------------------------------------
(* Properties *)

TypeOK ==
    /\ used \subseteq Inos /\ Root \in used
    /\ itype \in [Inos -> Types]
    /\ lc \in [Inos -> Nat]
    /\ dir \in [Inos -> Seq({FreeSlot} \cup (AllNames \X Inos))]
    /\ table \subseteq Inos
    /\ refcnt \in [Inos -> Nat]
    /\ owner \in [Inos -> Threads \cup {NoThread}]
    /\ loc \in [Threads -> [d : Inos \cup {NOINO}, n : AllNames, n2 : AllNames,
                            f : Inos \cup {NOINO}, v : Inos \cup {NOINO},
                            excl : BOOLEAN, ret : STRING]]
    /\ held \in [Threads -> [Inos -> 0..MaxHeld]]
    /\ panicked \in STRING
    /\ dino \in [Inos -> [type : Types, lc : Nat, size : Nat]]

\* the vnode lock thread t is blocked on, or NOINO
Wants(t) ==
    CASE pc[t] \in {"lk_lock", "cr_lock", "ln_lock", "rm_lock", "mk_lock"} -> loc[t].d
      [] pc[t] = "rn_lock"                            -> Root
      [] pc[t] \in {"ln_flock", "rn_glock", "mk_nlock", "fs_lock"} -> loc[t].f
      [] pc[t] \in {"rm_vlock", "rcl_lock"}            -> loc[t].v
      [] OTHER                                         -> NOINO

\* the references to i that exist: the VFS's on the root, the ones threads
\* keep, and the one an operation in progress carries in loc.v
Refs(i) ==
    (IF i = Root THEN 1 ELSE 0)
    + SumFunction([t \in Threads |-> held[t][i]])
    + Cardinality({t \in Threads : loc[t].v = i})

\* Vnode reference counting (VOP_DECREF, sfs_loadvnode, sfs_reclaim's
\* re-check under sfs_vnlock): every resident vnode's vn_refcount equals
\* the references that exist to it, and a vnode no longer in the table is
\* referenced, locked and waited on by nobody (no use after kfree).
RefcountExact ==
    \A i \in Inos :
        IF i \in table
        THEN refcnt[i] = Refs(i)
        ELSE /\ Refs(i) = 0
             /\ owner[i] = NoThread
             /\ \A t \in Threads : Wants(t) # i

\* x is the ".." of y
ParentRel == [p \in Inos \X Inos |-> p[2] \in used /\ <<DotDot, p[1]>> \in Entries(p[2])]
Ancestor == TransitiveClosure(ParentRel, Inos)

\* The locking protocol stated at the top of sfs_vnode.c, parent first,
\* then child: a thread never waits for the lock of an ancestor of a
\* directory whose lock it holds.
LockOrder ==
    \A t \in Threads : Wants(t) # NOINO =>
        \A h \in Inos : owner[h] = t => ~Ancestor[<<Wants(t), h>>]

\* vnode locks are not recursive: a thread never waits for a vnode lock it
\* holds itself (sfs_reclaim, reached through VOP_DECREF, locks sv_lock).
NoSelfWait ==
    \A t \in Threads : Wants(t) # NOINO => owner[Wants(t)] # t

Quiescent == \A t \in Threads : pc[t] = "idle"

\* the entries, other than ".", that name inode i
Referrers(i) == {p \in used \X AllNames : p[2] # Dot /\ <<p[2], i>> \in Entries(p[1])}

\* Link counts (creat, link, remove, rename, mkdir): whenever no operation
\* is in progress, every allocated inode's sfi_linkcount is the number of
\* directory entries naming it (".." counting for the parent).
LinkCountsMatch ==
    Quiescent => \A i \in used : lc[i] = Cardinality(Referrers(i))

\* sfs_reclaim frees an inode only once its link count is zero and its last
\* vnode reference goes: no entry of an allocated directory names a freed
\* inode, whatever the interleaving of remove, link, close and lookup.
NoDanglingEntries ==
    \A d \in used : \A e \in Entries(d) : e[2] \in used

\* Storage (sfs_reclaim frees an unlinked inode once its last vnode
\* reference goes): no entry names a freed inode, and when no operation is
\* in progress every allocated inode is named by an entry or is resident,
\* so no inode block leaks.
StorageReclaimed ==
    /\ NoDanglingEntries
    /\ Quiescent => \A i \in used \ {Root} : Referrers(i) # {} \/ i \in table

\* sfs_lookonce's panic: a name found in a directory never leads to an
\* inode whose link count is zero.
LookonceSeesLinked == panicked # "linkcount0"

\* the entries a reboot finds in inode d: the slots below its size on disk,
\* if its block on disk holds a directory
DiskEntries(d) ==
    IF dino[d].type = "dir"
    THEN {dir[d][k] : k \in 1..Min({dino[d].size, Len(dir[d])})} \ {FreeSlot}
    ELSE {}

\* y is reached from x through an entry on disk other than "." and ".."
DiskChild == [p \in Inos \X Inos |->
                \E e \in DiskEntries(p[1]) : e[2] = p[2] /\ e[1] \notin {Dot, DotDot}]

\* the directories a lookup after a reboot can reach from the root
DiskReachable == {Root} \cup {i \in Inos : TransitiveClosure(DiskChild, Inos)[<<Root, i>>]}

\* the entries, other than ".", that a reboot finds naming inode i
DiskReferrers(i) ==
    {p \in DiskReachable \X AllNames : p[2] # Dot /\ <<p[2], i>> \in DiskEntries(p[1])}

\* Crash consistency (spec.md: "crash-consistent mutation of persistent
\* structures"): at every step the disk alone is a file system a reboot can
\* use.  Every entry a lookup can reach on disk names an inode whose block
\* holds a file or a directory (sfs_loadvnode panics on any other type),
\* with an on-disk link count no lower than the entries naming it (else a
\* later remove frees an inode that is still named).  creat, link and mkdir
\* write the slot with sfs_writedir at once; a directory's size, and the new
\* inode, reach the disk at fsync or reclaim.
DiskConsistent ==
    \A i \in Inos : DiskReferrers(i) # {} =>
        /\ dino[i].type # "inval"
        /\ dino[i].lc >= Cardinality(DiskReferrers(i))

\* No panic of any kind (sfs_lookonce, sfs_loadvnode, the assertions).
KernelNeverPanics == panicked = "none"

=============================================================================
