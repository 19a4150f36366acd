------------------------------ MODULE CacheSim ------------------------------
(***************************************************************************)
(* The buffer-cache simulator of assignment 1 (src/a1/cache.c): threads    *)
(* call read_block(pid, file_id, block_num), which checks the request,     *)
(* looks the block up in the file's list under ftable_locks[file_id], and  *)
(* on a miss takes a slot from get_empty_slot (under slot_count_lock), or  *)
(* a random one once the slots are used up, and locks it.                  *)
(*                                                                         *)
(* pthread mutexes are modelled as an owner per lock; a thread that locks  *)
(* a mutex it already owns waits (the default Linux mutex deadlocks).      *)
(* Each thread makes at most MaxCalls calls, as the simulator's request   *)
(* trace is finite.                                                        *)
(***************************************************************************)
EXTENDS Integers

CONSTANTS
    Threads,      \* the simulator's threads (pid)
    NUM_FILES,
    NUM_SLOTS,
    MaxFileSize,  \* the largest size build_file_table draws
    MaxCalls,     \* read_block calls per thread
    NoThread

Files == 0..NUM_FILES - 1
Slots == 0..NUM_SLOTS - 1
\* the arguments a caller may pass, invalid ones included
FileIds == -1..NUM_FILES
BlockNums == -1..MaxFileSize

VARIABLES
    fsize,       \* ftable[i].size
    heads,       \* ftable[i].head, as the set of its nodes <<block, slot>>
    flock,       \* owner of ftable_locks[i]
    slock,       \* owner of cache_locks[s]
    sclock,      \* owner of slot_count_lock
    slot_count,
    pc,          \* where each thread is in read_block
    loc,         \* each call's file_id, block_num, slot and result
    calls        \* calls each thread has made

vars == <<fsize, heads, flock, slock, sclock, slot_count, pc, loc, calls>>

\* build_file_table: every size is at least 1; init_cache: no lock held
Init ==
    /\ fsize \in [Files -> 1..MaxFileSize]
    /\ heads = [f \in Files |-> {}]
    /\ flock = [f \in Files |-> NoThread]
    /\ slock = [s \in Slots |-> NoThread]
    /\ sclock = NoThread
    /\ slot_count = NUM_SLOTS
    /\ pc = [t \in Threads |-> "idle"]
    /\ loc = [t \in Threads |-> [file |-> 0, block |-> 0, slot |-> 0, ret |-> 0]]
    /\ calls = [t \in Threads |-> 0]

\* read_block is called; an out-of-range file_id returns 2 at once
Call(t) ==
    /\ pc[t] = "idle"
    /\ calls[t] < MaxCalls
    /\ calls' = [calls EXCEPT ![t] = @ + 1]
    /\ \E f \in FileIds, b \in BlockNums :
         IF f < 0 \/ f >= NUM_FILES
         THEN /\ loc' = [loc EXCEPT ![t] = [@ EXCEPT !.file = f, !.block = b, !.ret = 2]]
              /\ UNCHANGED pc
         ELSE /\ loc' = [loc EXCEPT ![t] = [@ EXCEPT !.file = f, !.block = b]]
              /\ pc' = [pc EXCEPT ![t] = "lockfile"]
    /\ UNCHANGED <<fsize, heads, flock, slock, sclock, slot_count>>

\* pthread_mutex_lock(&ftable_locks[file_id])
LockFile(t) ==
    /\ pc[t] = "lockfile"
    /\ flock[loc[t].file] = NoThread
    /\ flock' = [flock EXCEPT ![loc[t].file] = t]
    /\ pc' = [pc EXCEPT ![t] = "check"]
    /\ UNCHANGED <<fsize, heads, slock, sclock, slot_count, loc, calls>>

\* bNode_search: a node of the list for block b
Search(head, b) == \E n \in head : n[1] = b

\* an invalid block returns 2 and a hit returns 1, each after unlocking
\* the file; a miss goes on to get_empty_slot with the file still locked
Check(t) ==
    LET f == loc[t].file
        b == loc[t].block
        done == b < 0 \/ b >= fsize[f] \/ Search(heads[f], b)
    IN
    /\ pc[t] = "check"
    /\ IF done
       THEN /\ flock' = [flock EXCEPT ![f] = NoThread]
            /\ loc' = [loc EXCEPT ![t].ret = IF b < 0 \/ b >= fsize[f] THEN 2 ELSE 1]
            /\ pc' = [pc EXCEPT ![t] = "idle"]
       ELSE /\ pc' = [pc EXCEPT ![t] = "sclock"]
            /\ UNCHANGED <<flock, loc>>
    /\ UNCHANGED <<fsize, heads, slock, sclock, slot_count, calls>>

\* get_empty_slot: pthread_mutex_lock(&slot_count_lock)
SlotCountLock(t) ==
    /\ pc[t] = "sclock"
    /\ sclock = NoThread
    /\ sclock' = t
    /\ pc' = [pc EXCEPT ![t] = "gsread"]
    /\ UNCHANGED <<fsize, heads, flock, slock, slot_count, loc, calls>>

\* ret_val from slot_count (-1 once it is 0)
GsRead(t) ==
    /\ pc[t] = "gsread"
    /\ loc' = [loc EXCEPT ![t].slot = IF slot_count > 0 THEN NUM_SLOTS - slot_count ELSE -1]
    /\ pc' = [pc EXCEPT ![t] = "gsdec"]
    /\ UNCHANGED <<fsize, heads, flock, slock, sclock, slot_count, calls>>

\* slot_count-- if it was positive, unlock; back in read_block a -1 is
\* replaced by Equilikely(0, NUM_SLOTS-1)
GsDec(t) ==
    /\ pc[t] = "gsdec"
    /\ slot_count' = IF loc[t].slot # -1 THEN slot_count - 1 ELSE slot_count
    /\ sclock' = NoThread
    /\ \E s \in Slots :
         loc' = [loc EXCEPT ![t].slot = IF loc[t].slot = -1 THEN s ELSE loc[t].slot]
    /\ pc' = [pc EXCEPT ![t] = "lockslot"]
    /\ UNCHANGED <<fsize, heads, flock, slock, calls>>

\* pthread_mutex_lock(&cache_locks[slot]), then return 0 with the file and
\* the slot still locked
LockSlot(t) ==
    /\ pc[t] = "lockslot"
    /\ slock[loc[t].slot] = NoThread
    /\ slock' = [slock EXCEPT ![loc[t].slot] = t]
    /\ loc' = [loc EXCEPT ![t].ret = 0]
    /\ pc' = [pc EXCEPT ![t] = "idle"]
    /\ UNCHANGED <<fsize, heads, flock, sclock, slot_count, calls>>

Step(t) ==
    \/ Call(t) \/ LockFile(t) \/ Check(t) \/ SlotCountLock(t)
    \/ GsRead(t) \/ GsDec(t) \/ LockSlot(t)

Next == \E t \in Threads : Step(t)

\* the scheduler runs every thread that can run
Spec == Init /\ [][Next]_vars /\ \A t \in Threads : WF_vars(Step(t))

-----------------------------------------------------------------------------
(* Properties *)

\* the type of every variable
TypeOK ==
    /\ fsize \in [Files -> 1..MaxFileSize]
    /\ flock \in [Files -> Threads \cup {NoThread}]
    /\ slock \in [Slots -> Threads \cup {NoThread}]
    /\ sclock \in Threads \cup {NoThread}
    /\ slot_count \in 0..NUM_SLOTS
    /\ calls \in [Threads -> 0..MaxCalls]

\* Every call of read_block returns (the rubric's "no deadlocks"): a
\* thread inside read_block is eventually back in its caller.
CallsReturn == \A t \in Threads : pc[t] # "idle" ~> pc[t] = "idle"

=============================================================================
