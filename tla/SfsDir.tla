------------------------------- MODULE SfsDir -------------------------------
(***************************************************************************)
(* The directory engine of sfs_vnode.c: a directory file is an array of    *)
(* fixed-size struct sfs_dir slots {sfd_ino, sfd_name}; slot k lies at     *)
(* byte k * sizeof(struct sfs_dir) and SFS_NOINO marks a free slot.        *)
(* sfs_dir_findname scans the slots, sfs_dir_link writes a new entry into  *)
(* a free slot or past the end, sfs_dir_unlink overwrites a slot with a    *)
(* free entry, and sfs_getdirentry hands back the name in the slot the     *)
(* caller's offset names, one call at a time.                              *)
(*                                                                         *)
(* Every one of these runs under the directory's sv_lock, so each call is  *)
(* one step.  The callers that change the directory (creat, link, remove,  *)
(* rename, mkdir) are one stream of calls; a second thread lists the       *)
(* directory with getdirentry, releasing the lock between calls.           *)
(* sfs_io, under sfs_readdir and sfs_writedir, is abstracted to what it    *)
(* does to one entry: an entry never straddles a block, a slot past the    *)
(* last block needs a new block (ENOSPC once DirBlocks are used), a block  *)
(* read or write may fail, and a write that fails after uiomove still      *)
(* raises the size (sfs_io's "out:" path).                                 *)
(***************************************************************************)
EXTENDS Integers, Sequences, FiniteSets

CONSTANTS
    Names,       \* the names callers pass that fit in sfd_name
    LongNames,   \* names with strlen(name)+1 > sizeof(sfd_name)
    Inos,        \* inodes an entry may name
    Self,        \* the directory's inode
    Parent,      \* its parent's inode
    SPB,         \* directory entries per block
    DirBlocks,   \* blocks the directory can get before sfs_balloc fails
    IoFail       \* whether sfs_rblock / sfs_wblock may fail

NOINO == 0
Free == [ino |-> NOINO, name |-> ""]                 \* bzero'd, SFS_NOINO
Entry == [ino : Inos \cup {Self, Parent}, name : Names \cup {".", ".."}]
MaxSlots == SPB * DirBlocks

VARIABLES
    slots,    \* the directory's entries, slot k at index k+1; the size is Len
    ret,      \* the last changing call and what it returned
    rpc,      \* the listing thread: "idle", "listing", or "done" after a
              \* call that moved no bytes
    off,      \* the listing's uio_offset (a slot number)
    listed,   \* the names getdirentry has handed back in this listing
    kept      \* the names in the directory throughout this listing

vars == <<slots, ret, rpc, off, listed, kept>>

\* the names of the occupied slots
DirNames(s) == {s[k].name : k \in {k \in DOMAIN s : s[k].ino # NOINO}}

\* the <<name, inode>> pairs the slots hold
Entries(s) == {<<s[k].name, s[k].ino>> : k \in {k \in DOMAIN s : s[k].ino # NOINO}}

\* mutant: the slot count is taken one short
NentriesOffByOne == Len(slots) - 1

\* sfs_dir_nentries: the size over sizeof(struct sfs_dir).  Sizes only ever
\* change by whole entries, so its "Invalid size" panic cannot fire.
Nentries == Len(slots)

\* mutant: the scan stops at the first free slot
FindnameToFirstEmpty(n) ==
    {k \in 0..Nentries - 1 : /\ slots[k+1].ino # NOINO /\ slots[k+1].name = n
                             /\ \A j \in 0..k : slots[j+1].ino # NOINO}

\* sfs_dir_findname: the slots below nentries holding name n
Findname(n) == {k \in 0..Nentries - 1 : slots[k+1].ino # NOINO /\ slots[k+1].name = n}

\* the empty slot findname reports: the loop overwrites *emptyslot at
\* every free slot, so it is the last one, or -1
FreeSlots == {k \in 0..Nentries - 1 : slots[k+1].ino = NOINO}
Emptyslot == IF FreeSlots = {} THEN -1
             ELSE CHOOSE k \in FreeSlots : \A j \in FreeSlots : j <= k

\* the slots with entry e written at slot k (past the end: one more slot)
Put(k, e) == IF k = Len(slots) THEN Append(slots, e)
             ELSE [slots EXCEPT ![k+1] = e]

\* mutant: no check that a slot past the end needs a block the disk has
WritedirNoSpaceCheck(k, e) ==
    {[s |-> Put(k, e), r |-> "ok"]}
      \cup IF IoFail THEN {[s |-> slots, r |-> "EIO"],
                           [s |-> IF k = Len(slots) THEN Append(slots, Free) ELSE slots,
                            r |-> "EIO"]}
           ELSE {}

\* sfs_writedir(sv, e, k) through sfs_io's write of one entry: the outcomes
\* as <<slots, result>>.  A slot at a block boundary past the end needs
\* sfs_bmap to allocate a block (ENOSPC, or EIO from sfs_clearblock);
\* sfs_partialio's sfs_rblock may fail before anything changed; its
\* sfs_wblock may fail after uiomove advanced the offset, and sfs_io then
\* raises the size over a slot whose block still holds zeros (a free slot).
Writedir(k, e) ==
    IF k = Len(slots) /\ k % SPB = 0 /\ k \div SPB >= DirBlocks
    THEN {[s |-> slots, r |-> "ENOSPC"]}
    ELSE {[s |-> Put(k, e), r |-> "ok"]}
           \cup IF IoFail THEN {[s |-> slots, r |-> "EIO"],
                                [s |-> IF k = Len(slots) THEN Append(slots, Free) ELSE slots,
                                 r |-> "EIO"]}
                ELSE {}

\* sfs_readdir(sv, sd, k) through sfs_io's read of one entry: the slot's
\* entry, or EIO from sfs_rblock.  Sizes only change by whole entries, so
\* the "Short entry" panic cannot fire.
Readdir(k) ==
    {[e |-> slots[k+1], r |-> "ok"]} \cup IF IoFail THEN {[e |-> Free, r |-> "EIO"]} ELSE {}

\* the names present all through a listing so far
Track(s) == kept' = kept \cap DirNames(s)

\* a call that returns err before writing anything
Refused(call, err) ==
    /\ ret' = <<call, err>>
    /\ UNCHANGED <<slots, rpc, off, listed, kept>>

\* sfs_dir_link(sv, n, i): findname (a readdir of any slot may fail), EEXIST,
\* ENAMETOOLONG, then the entry goes into the empty slot or at nentries
DirLink(n, i) ==
    \/ IoFail /\ Refused("link", "EIO")
    \/ Findname(n) # {} /\ Refused("link", "EEXIST")
    \/ /\ Findname(n) = {}
       /\ n \in LongNames
       /\ Refused("link", "ENAMETOOLONG")
    \/ /\ Findname(n) = {}
       /\ n \in Names
       /\ \E o \in Writedir(IF Emptyslot < 0 THEN Nentries ELSE Emptyslot,
                            [ino |-> i, name |-> n]) :
             /\ slots' = o.s
             /\ ret' = <<"link", o.r>>
             /\ Track(o.s)
       /\ UNCHANGED <<rpc, off, listed>>

\* sfs_remove and sfs_rename: findname for the slot of n, then
\* sfs_dir_unlink writes a free entry over it
DirUnlink(n) ==
    \/ IoFail /\ Refused("unlink", "EIO")
    \/ Findname(n) = {} /\ Refused("unlink", "ENOENT")
    \/ /\ Findname(n) # {}
       /\ \E k \in Findname(n) : \E o \in Writedir(k, Free) :
             /\ slots' = o.s
             /\ ret' = <<"unlink", o.r>>
             /\ Track(o.s)
       /\ UNCHANGED <<rpc, off, listed>>

\* open() of the directory: sfs_opendir accepts read-only opens only; the
\* file's offset starts at slot 0
OpenDir(mode) ==
    /\ rpc = "idle"
    /\ IF mode = "O_RDONLY"
       THEN /\ rpc' = "listing"
            /\ off' = 0
            /\ listed' = {}
            /\ kept' = DirNames(slots)
       ELSE UNCHANGED <<rpc, off, listed, kept>>           \* EISDIR
    /\ UNCHANGED <<slots, ret>>

\* mutant: uio_offset is left where it was
GetDirEntryKeepsOffset ==
    /\ rpc = "listing"
    /\ IF off >= Nentries
       THEN /\ rpc' = "done"
            /\ UNCHANGED <<off, listed>>
       ELSE LET name == slots[off+1].name IN
            /\ UNCHANGED off
            /\ IF name = ""
               THEN rpc' = "done" /\ UNCHANGED listed
               ELSE listed' = listed \cup {name} /\ UNCHANGED rpc
    /\ UNCHANGED <<slots, ret, kept>>

\* sfs_getdirentry: past the last slot it returns having moved nothing;
\* otherwise it reads the slot (which may fail), moves strlen(sfd_name)
\* bytes and sets the offset to slot + 1.  A free slot's name is "", so
\* that call moves nothing either, which the caller takes as the end.
GetDirEntry ==
    /\ rpc = "listing"
    /\ IF off >= Nentries
       THEN /\ rpc' = "done"
            /\ UNCHANGED <<off, listed>>
       ELSE \E o \in Readdir(off) :
              IF o.r = "EIO"
              THEN /\ rpc' = "idle"
                   /\ UNCHANGED <<off, listed>>
              ELSE /\ off' = off + 1
                   /\ IF o.e.name = ""
                      THEN rpc' = "done" /\ UNCHANGED listed
                      ELSE listed' = listed \cup {o.e.name} /\ UNCHANGED rpc
    /\ UNCHANGED <<slots, ret, kept>>

\* the last close of the directory (sfs_close only syncs)
CloseDir ==
    /\ rpc \in {"listing", "done"}
    /\ rpc' = "idle"
    /\ UNCHANGED <<slots, ret, off, listed, kept>>

\* mkdir wrote "." and ".." into a fresh directory
Init ==
    /\ slots = <<[ino |-> Self, name |-> "."], [ino |-> Parent, name |-> ".."]>>
    /\ ret = <<"mkdir", "ok">>
    /\ rpc = "idle"
    /\ off = 0
    /\ listed = {}
    /\ kept = {}

Changer ==
    \E n \in Names \cup LongNames :
        \/ \E i \in Inos : DirLink(n, i)
        \/ DirUnlink(n)

Lister ==
    \/ \E mode \in {"O_RDONLY", "O_RDWR"} : OpenDir(mode)
    \/ GetDirEntry
    \/ CloseDir

Next == Changer \/ Lister

\* the listing thread keeps calling getdirentry while it lists
Spec == Init /\ [][Next]_vars /\ WF_vars(GetDirEntry)

-----------------------------------------------------------------------------
(* Properties *)

\* the type of every variable, and the directory within the blocks it can get
TypeOK ==
    /\ slots \in Seq(Entry \cup {Free})
    /\ Len(slots) <= MaxSlots
    /\ rpc \in {"idle", "listing", "done"}
    /\ off \in 0..MaxSlots
    /\ listed \subseteq Names \cup {".", ".."}
    /\ kept \subseteq Names \cup {".", ".."}

\* A name appears in at most one occupied slot (the spec's directory
\* invariant, and findname's assert(found==0)): sfs_dir_link's scan must
\* see every slot, free ones included, before it places a name.
NamesUnique ==
    \A j, k \in DOMAIN slots :
        j # k /\ slots[j].ino # NOINO /\ slots[k].ino # NOINO
            => slots[j].name # slots[k].name

\* The slots implement the abstract directory: every link and unlink,
\* failed ones and the free slot a failed append leaves included, is a
\* step of DirSpec or changes no entry.
D == INSTANCE DirSpec WITH entries <- Entries(slots)
DirRefinement == D!Spec

\* A listing ends: each getdirentry call moves the offset on, and the
\* directory cannot grow past the blocks it can get.
ListingEnds == rpc = "listing" ~> rpc # "listing"

\* A listing that ends returns every name that was in the directory all
\* through it (sfs_getdirentry, as the caller reads its result).
ListingComplete == rpc = "done" => kept \subseteq listed
=============================================================================
