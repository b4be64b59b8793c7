---------------------------- MODULE BufferCache ----------------------------
(***************************************************************************)
(* The buffer cache (fs/buffer.c) and the request slots of the block       *)
(* devices (kernel/blk_drv/ll_rw_blk.c, blk.h), with the callers that      *)
(* read and write blocks: file_read, file_write, block_write and sync.     *)
(*                                                                         *)
(* A process runs from one sleep to the next without giving way to another *)
(* process (`current'), while the disk interrupt comes between any two     *)
(* steps.  Waiting for a lock bit or a request slot is a step enabled once *)
(* the bit is clear or a slot is free: Sched shows that sleep_on/wake_up   *)
(* implement this.                                                         *)
(*                                                                         *)
(* The contents of a block are a version number; which request the device  *)
(* serves next is left open, and so is which of the equally bad unused     *)
(* buffers comes first in free_list.  sync_inodes() is not in this module: *)
(* it writes inode blocks as every writer does.                            *)
(***************************************************************************)
EXTENDS Naturals, Sequences, FiniteSets, Folds, Functions

CONSTANTS
  Proc,        \* processes
  NR_BUFFERS,  \* number of buffers
  NR_REQUEST,  \* number of request slots
  Block,       \* disk blocks
  DevOf(_),    \* the device of a block
  NoBlock,     \* b_dev = 0
  None,        \* no process
  MaxWrites,   \* bound: writes made
  MaxErrors,   \* bound: failed transfers
  Ahead(_),    \* the blocks breada is given besides a block
  Calls(_)     \* bound: the calls a process makes

ASSUME BufferAssumption ==
  /\ NoBlock \notin Block /\ None \notin Proc /\ IsFiniteSet(Proc)
  /\ NR_BUFFERS \in Nat \ {0} /\ NR_REQUEST \in Nat \ {0}
  /\ MaxWrites \in Nat /\ MaxErrors \in Nat
  /\ \A p \in Proc : Calls(p) \subseteq
       {"read", "file_write", "block_write", "full_write", "sync"}
  /\ \A k \in Block : Ahead(k) \in Seq(Block)

Buffer == 1 .. NR_BUFFERS
Slot == 1 .. NR_REQUEST
READ == "READ"
WRITE == "WRITE"

\* "The last third of the requests are only for reads."
SlotsFor(rw) == IF rw = READ THEN Slot ELSE 1 .. (NR_REQUEST * 2) \div 3

Free == [bh |-> 0, cmd |-> "none", moved |-> FALSE]   \* req->dev = -1

VARIABLES
  blk,       \* b_dev and b_blocknr
  count,     \* b_count
  dirt,      \* b_dirt
  uptodate,  \* b_uptodate
  lock,      \* b_lock
  data,      \* b_data
  request,   \* request[]: the buffer, the command, has the data been moved?
  disk,      \* the contents of the devices
  proc,      \* per process: where it is and its locals
  current,   \* the process in the kernel, None when all sleep or are in user mode
  latest,    \* history: the last version written to a block through the cache
  lost,      \* history: blocks of which the code has lost a version
  errors     \* transfers failed so far

buffers == <<blk, count, dirt, uptodate, lock, data>>
history == <<latest, lost, errors>>
vars == <<buffers, request, disk, proc, current, history>>

\* op is the system call and want its block; bh is the buffer getblk() found,
\* victim the one it wants to reuse; while breada() calls getblk() for the next
\* of the blocks in ahead, first is the buffer it has already; i, pass and dev are the loops of
\* sync_dev(), inside getblk() or on its own ("all": sys_sync); snap is a
\* history variable, the versions written when sys_sync started.
IdleProc == [pc |-> "idle", op |-> "none", want |-> NoBlock, bh |-> 0, victim |-> 0,
             first |-> 0, ahead |-> <<>>, i |-> 0, pass |-> 0, dev |-> "none", snap |-> <<>>]

Pc == {"idle", "getblk", "bufwait", "hashwait", "victim", "ll_rw", "slot",
       "ahead", "tmp", "readwait", "hold", "copy", "brelse", "sync"}

SysCall == {"none", "read", "file_write", "block_write", "full_write", "sync"}

AnyBlock == Block \cup {NoBlock}
AnyBuffer == {0} \cup Buffer
Pass == 0 .. 2
Device == {"none", "all"} \cup {DevOf(k) : k \in Block}
Versions == {<<>>} \cup [Block -> Nat]

Locals ==
  [pc : Pc, op : SysCall, want : AnyBlock, bh : AnyBuffer, victim : AnyBuffer,
   first : AnyBuffer, ahead : Seq(Block), i : Nat, pass : Pass, dev : Device, snap : Versions]

TypeOK ==
  /\ blk \in [Buffer -> Block \cup {NoBlock}]
  /\ count \in [Buffer -> Nat]
  /\ dirt \in [Buffer -> BOOLEAN] /\ uptodate \in [Buffer -> BOOLEAN]
  /\ lock \in [Buffer -> BOOLEAN]
  /\ data \in [Buffer -> Nat]
  /\ request \in [Slot -> {Free} \cup [bh : Buffer, cmd : {READ, WRITE}, moved : BOOLEAN]]
  /\ disk \in [Block -> Nat]
  /\ proc \in [Proc -> Locals]
  /\ current \in Proc \cup {None}
  /\ latest \in [Block -> Nat]
  /\ lost \in SUBSET Block /\ errors \in Nat

\* buffer_init, blk_dev_init
Init ==
  /\ blk = [b \in Buffer |-> NoBlock]
  /\ count = [b \in Buffer |-> 0]
  /\ dirt = [b \in Buffer |-> FALSE]
  /\ uptodate = [b \in Buffer |-> FALSE]
  /\ lock = [b \in Buffer |-> FALSE]
  /\ data = [b \in Buffer |-> 0]
  /\ request = [r \in Slot |-> Free]
  /\ disk = [k \in Block |-> 0]
  /\ proc = [p \in Proc |-> IdleProc]
  /\ current = None
  /\ latest = [k \in Block |-> 0]
  /\ lost = {} /\ errors = 0

-----------------------------------------------------------------------------
(* Control.                                                                *)

\* Is buffer b one that the sync loop of s looks at?
OnDev(b, s) == s.dev = "all" \/ (blk[b] # NoBlock /\ DevOf(blk[b]) = s.dev)

\* The buffer ll_rw_block() was called for, and the command: sync loops have
\* i # 0.
ReqBuf(s) == IF s.i = 0 THEN s.bh ELSE s.i
ReqCmd(s) == IF s.i = 0 THEN READ ELSE WRITE

\* The buffer whose lock bit s waits for in wait_on_buffer or lock_buffer.
WaitsFor(s) ==
  CASE s.pc \in {"hashwait", "readwait", "brelse"} -> {s.bh}
    [] s.pc = "victim" -> {s.victim}
    [] s.pc = "ll_rw" -> {ReqBuf(s)}
    [] s.pc = "sync" -> {b \in Buffer \cap {s.i} : OnDev(b, s)}
    [] OTHER -> {}

FreeSlots(s) == {r \in SlotsFor(ReqCmd(s)) : request[r] = Free}

MustSleep(s) ==
  \/ \E b \in WaitsFor(s) : lock[b]
  \/ s.pc = "slot" /\ FreeSlots(s) = {}

\* Process p goes on from pc: it is the one in the kernel, or nobody is and
\* it is scheduled.
At(p, pc) ==
  /\ proc[p].pc = pc /\ current \in {p, None}
  /\ ~MustSleep(proc[p])

\* p's locals become s; it keeps the processor.
Become(p, s) == proc' = [proc EXCEPT ![p] = s] /\ current' = p

Goto(p, pc) == Become(p, [proc[p] EXCEPT !.pc = pc])

\* The kernel gives the processor away: p sleeps in sleep_on().
Sleep(p) ==
  /\ current = p /\ MustSleep(proc[p])
  /\ current' = None
  /\ UNCHANGED <<buffers, request, disk, proc, history>>

-----------------------------------------------------------------------------
(* getblk.                                                                 *)

\* The writes made, and the calls that make none (for the bound MaxWrites).
Written == FoldFunction(+, 0, latest)
NoWrite == {"none", "read", "sync"}
\* The calls that read a block with breada(): block_read too, of which only
\* the copy, in Read, is modelled.
Breada == {"block_write"}

\* There are more buffers than processes that may hold one in breada() while
\* they ask for another: NR_TASKS is 64, and buffer_init() makes hundreds.
ASSUME BreadaAssumption ==
  Cardinality({p \in Proc : Calls(p) \cap Breada # {}}) < NR_BUFFERS

\* A system call begins.
Start(p, op, k) ==
  /\ At(p, "idle") /\ op # "sync"
  /\ op \notin NoWrite => Written + Cardinality({q \in Proc : proc[q].op \notin NoWrite}) < MaxWrites
  /\ Become(p, [IdleProc EXCEPT !.pc = "getblk", !.op = op, !.want = k,
                               !.ahead = IF op \in Breada THEN Ahead(k) ELSE <<>>])
  /\ UNCHANGED <<buffers, request, disk, history>>

find_buffer(k) == {b \in Buffer : blk[b] = k}

BADNESS(b) == (IF dirt[b] THEN 2 ELSE 0) + (IF lock[b] THEN 1 ELSE 0)

\* Whom the scan of free_list may stop at.
Victims ==
  LET unused == {b \in Buffer : count[b] = 0}
  IN  {b \in unused : \A c \in unused : BADNESS(b) <= BADNESS(c)}

\* getblk() returns b to s: block_write keeps a buffer it overwrites, bread
\* returns one that is up to date, or else calls ll_rw_block(READ), and breada
\* goes on with the blocks it reads ahead.
GotPc(s, fresh) ==
  IF s.first # 0 THEN "tmp"
  ELSE IF s.op = "full_write" THEN "hold"
  ELSE IF ~fresh THEN "ll_rw"
  ELSE IF s.op \in Breada THEN "ahead"
  ELSE "hold"

Got(s, b, fresh) == [s EXCEPT !.bh = b, !.victim = 0, !.pc = GotPc(s, fresh)]

\* get_hash_table() finds the block: b_count++, then wait_on_buffer.
GetblkHit(p) ==
  /\ At(p, "getblk")
  /\ \E b \in find_buffer(proc[p].want) :
       /\ count' = [count EXCEPT ![b] = @ + 1]
       /\ Become(p, [proc[p] EXCEPT !.pc = "hashwait", !.bh = b])
  /\ UNCHANGED <<blk, dirt, uptodate, lock, data, request, disk, history>>

\* "if (bh->b_dev == dev && bh->b_blocknr == block) return bh; bh->b_count--"
HashWait(p) ==
  /\ At(p, "hashwait")
  /\ LET s == proc[p] IN
     IF blk[s.bh] = s.want
     THEN Become(p, Got(s, s.bh, uptodate[s.bh])) /\ UNCHANGED count
     ELSE /\ count' = [count EXCEPT ![s.bh] = @ - 1]
          /\ Become(p, [s EXCEPT !.pc = "getblk", !.bh = 0])
  /\ UNCHANGED <<blk, dirt, uptodate, lock, data, request, disk, history>>

\* It does not: choose a buffer to reuse ...
GetblkMiss(p) ==
  /\ At(p, "getblk") /\ find_buffer(proc[p].want) = {}
  /\ \E v \in Victims : Become(p, [proc[p] EXCEPT !.pc = "victim", !.victim = v])
  /\ UNCHANGED <<buffers, request, disk, history>>

\* ... or sleep on buffer_wait when all are in use.
GetblkFull(p) ==
  /\ At(p, "getblk") /\ find_buffer(proc[p].want) = {} /\ Victims = {}
  /\ proc' = [proc EXCEPT ![p].pc = "bufwait"]
  /\ current' = None
  /\ UNCHANGED <<buffers, request, disk, history>>

\* Mutant: the second find_buffer() of getblk is left out.
StillMissingNot(k) == TRUE

\* "While we slept waiting for this block, somebody else might already have
\* added this block to the cache. check it"
StillMissing(k) == find_buffer(k) = {}

\* Mutant: the test of b_count after the sleep is left out.
UnusedNot(b) == TRUE

\* if (bh->b_count) goto repeat
Unused(b) == count[b] = 0

\* Mutant: the buffer taken over still counts as up to date.
ResetNot(b) == uptodate

\* bh->b_uptodate = 0
Reset(b) == [uptodate EXCEPT ![b] = FALSE]

\* After wait_on_buffer(victim): goto repeat, sync_dev, or take the buffer.
VictimRepeat(p) ==
  /\ At(p, "victim")
  /\ LET s == proc[p] IN
     /\ ~Unused(s.victim) \/ (~dirt[s.victim] /\ ~StillMissing(s.want))
     /\ Become(p, [s EXCEPT !.pc = "getblk", !.victim = 0])
  /\ UNCHANGED <<buffers, request, disk, history>>

VictimSync(p) ==
  /\ At(p, "victim")
  /\ LET s == proc[p] IN
     /\ Unused(s.victim) /\ dirt[s.victim]
     /\ Become(p, [s EXCEPT !.pc = "sync", !.i = 1, !.pass = 1, !.dev = DevOf(blk[s.victim])])
  /\ UNCHANGED <<buffers, request, disk, history>>

VictimTake(p) ==
  /\ At(p, "victim")
  /\ LET s == proc[p]
         v == s.victim IN
     /\ Unused(v) /\ ~dirt[v] /\ StillMissing(s.want)
     /\ count' = [count EXCEPT ![v] = 1]
     /\ dirt' = [dirt EXCEPT ![v] = FALSE]
     /\ uptodate' = Reset(v)
     /\ blk' = [blk EXCEPT ![v] = s.want]
     /\ Become(p, Got(s, v, FALSE))
  /\ UNCHANGED <<lock, data, request, disk, history>>

-----------------------------------------------------------------------------
(* bread, and ll_rw_block/make_request.                                    *)

\* Where ll_rw_block() returns to: bread's wait_on_buffer, breada's loop, or
\* the next buffer of the sync loop.
AfterRequest(s) ==
  IF s.i # 0 THEN [s EXCEPT !.pc = "sync", !.i = @ + 1]
  ELSE [s EXCEPT !.pc = IF s.op \in Breada THEN "ahead" ELSE "readwait"]

\* make_request's look at the buffer once it is locked.
NothingToDo(s) ==
  LET b == ReqBuf(s) IN IF ReqCmd(s) = WRITE THEN ~dirt[b] ELSE uptodate[b]

\* lock_buffer(), and unlock_buffer() again if there is nothing to do.
LlRw(p) ==
  /\ At(p, "ll_rw")
  /\ LET s == proc[p] IN
     IF NothingToDo(s)
     THEN Become(p, AfterRequest(s)) /\ UNCHANGED lock
     ELSE Goto(p, "slot") /\ lock' = [lock EXCEPT ![ReqBuf(s)] = TRUE]
  /\ UNCHANGED <<blk, count, dirt, uptodate, data, request, disk, history>>

\* What is lost when block b is read while its buffer is dirty: block_write
\* filled it and nobody marked it up to date.
ReadOver(b) == IF dirt[b] THEN {blk[b]} ELSE {}

\* A free slot is filled, and add_request queues it and clears b_dirt, of a
\* read as well.
MakeRequest(p) ==
  /\ At(p, "slot")
  /\ LET s == proc[p] IN
     /\ \E r \in FreeSlots(s) :
          request' = [request EXCEPT ![r] = [bh |-> ReqBuf(s), cmd |-> ReqCmd(s), moved |-> FALSE]]
     /\ dirt' = [dirt EXCEPT ![ReqBuf(s)] = FALSE]
     /\ lost' = lost \cup (IF ReqCmd(s) = READ THEN ReadOver(ReqBuf(s)) ELSE {})
     /\ Become(p, AfterRequest(s))
  /\ UNCHANGED <<blk, count, uptodate, lock, data, disk, latest, errors>>

\* breada(): getblk() for the next block, or on to wait_on_buffer.
AheadNext(p) ==
  /\ At(p, "ahead")
  /\ LET s == proc[p] IN
     IF s.ahead = <<>> THEN Goto(p, "readwait")
     ELSE Become(p, [s EXCEPT !.pc = "getblk", !.want = Head(s.ahead), !.ahead = Tail(s.ahead),
                              !.first = s.bh, !.bh = 0])
  /\ UNCHANGED <<buffers, request, disk, history>>

\* With the buffer tmp of that block, breada() calls ll_rw_block(READA, bh): of
\* the first block once more, not of tmp.  Read-ahead never sleeps, so that it
\* does something only if the first read has failed by now.  Then tmp is given
\* back, without a wake_up(&buffer_wait).
ReadAhead(p) ==
  /\ At(p, "tmp")
  /\ LET s == proc[p]
         b == s.first
         free == {r \in SlotsFor(READ) : request[r] = Free}
     IN /\ IF uptodate[s.bh] \/ lock[b] \/ uptodate[b] \/ free = {}
           THEN UNCHANGED <<lock, dirt, request, lost>>
           ELSE /\ \E r \in free :
                     request' = [request EXCEPT ![r] = [bh |-> b, cmd |-> READ, moved |-> FALSE]]
                /\ lock' = [lock EXCEPT ![b] = TRUE]
                /\ dirt' = [dirt EXCEPT ![b] = FALSE]
                /\ lost' = lost \cup ReadOver(b)
        /\ count' = [count EXCEPT ![s.bh] = @ - 1]
        /\ Become(p, [s EXCEPT !.pc = "ahead", !.bh = b, !.first = 0, !.want = blk[b]])
  /\ UNCHANGED <<blk, uptodate, data, disk, latest, errors>>

\* bread(): wait_on_buffer, then return the buffer, or brelse() and NULL.
ReadWait(p) ==
  /\ At(p, "readwait")
  /\ Goto(p, IF uptodate[proc[p].bh] THEN "hold" ELSE "brelse")
  /\ UNCHANGED <<buffers, request, disk, history>>

-----------------------------------------------------------------------------
(* The callers, with the buffer in hand.                                   *)

\* file_read, block_read: copy the block to the user, and brelse().
Read(p) ==
  /\ At(p, "hold") /\ proc[p].op = "read"
  /\ Goto(p, "brelse")
  /\ UNCHANGED <<buffers, request, disk, history>>

\* put_fs_byte and get_fs_byte may fault, and the process sleeps with the
\* buffer in hand; in file_write b_dirt is set by then.
Fault(p) ==
  /\ current = p
  /\ \/ proc[p].pc = "hold" /\ proc[p].op # "file_write"
     \/ proc[p].pc = "copy"
  /\ current' = None
  /\ UNCHANGED <<buffers, request, disk, proc, history>>

\* The user's bytes are in the buffer: a new version of the block.
Modify(p) ==
  LET s == proc[p] IN
  /\ data' = [data EXCEPT ![s.bh] = latest[s.want] + 1]
  /\ latest' = [latest EXCEPT ![s.want] = @ + 1]

\* file_write: b_dirt = 1 comes first ...
FileWriteDirt(p) ==
  /\ At(p, "hold") /\ proc[p].op = "file_write"
  /\ dirt' = [dirt EXCEPT ![proc[p].bh] = TRUE]
  /\ Goto(p, "copy")
  /\ UNCHANGED <<blk, count, uptodate, lock, data, request, disk, history>>

\* ... then the copy.  If it faulted and the buffer was written meanwhile,
\* b_dirt is 0 again and nobody will write the new bytes.
FileWriteCopy(p) ==
  /\ At(p, "copy")
  /\ Modify(p)
  /\ lost' = lost \cup (IF dirt[proc[p].bh] THEN {} ELSE {proc[p].want})
  /\ Goto(p, "brelse")
  /\ UNCHANGED <<blk, count, dirt, uptodate, lock, request, disk, errors>>

\* Mutant: the buffer is not marked dirty.
MarkedNot(b) == dirt

\* b_dirt = 1
Marked(b) == [dirt EXCEPT ![b] = TRUE]

\* block_write: the copy, then b_dirt = 1.
BlockWrite(p) ==
  /\ At(p, "hold") /\ proc[p].op \in {"block_write", "full_write"}
  /\ Modify(p)
  /\ dirt' = Marked(proc[p].bh)
  /\ Goto(p, "brelse")
  /\ UNCHANGED <<blk, count, uptodate, lock, request, disk, lost, errors>>

\* Mutant: nobody is woken.
WakeBufferWaitNot(s) == s

\* wake_up(&buffer_wait): a process that sleeps on it starts over.
WakeBufferWait(s) == IF s.pc = "bufwait" THEN [s EXCEPT !.pc = "getblk"] ELSE s

\* brelse: wait_on_buffer, b_count--, wake_up(&buffer_wait); the call returns.
Brelse(p) ==
  /\ At(p, "brelse")
  /\ count' = [count EXCEPT ![proc[p].bh] = @ - 1]
  /\ proc' = [q \in Proc |-> IF q = p THEN IdleProc ELSE WakeBufferWait(proc[q])]
  /\ current' = None
  /\ UNCHANGED <<blk, dirt, uptodate, lock, data, request, disk, history>>

-----------------------------------------------------------------------------
(* sys_sync and sync_dev.                                                  *)

SyncStart(p) ==
  /\ At(p, "idle") /\ "sync" \in Calls(p)
  /\ Become(p, [IdleProc EXCEPT !.pc = "sync", !.op = "sync", !.i = 1, !.dev = "all", !.snap = latest])
  /\ UNCHANGED <<buffers, request, disk, history>>

\* Mutant: buffers in use are passed over.
FlushesUnused(b, s) == OnDev(b, s) /\ dirt[b] /\ count[b] = 0

\* bh->b_dev == dev && bh->b_dirt
Flushes(b, s) == OnDev(b, s) /\ dirt[b]

\* One turn of the loop, after wait_on_buffer: write the buffer if it still
\* belongs to the device and is dirty.
SyncStep(p) ==
  /\ At(p, "sync") /\ proc[p].i \in Buffer
  /\ LET s == proc[p] IN
     IF Flushes(s.i, s) THEN Goto(p, "ll_rw") ELSE Become(p, [s EXCEPT !.i = @ + 1])
  /\ UNCHANGED <<buffers, request, disk, history>>

\* The end of a pass: sync_dev makes a second one, getblk goes on with its
\* victim, sys_sync returns.
SyncEnd(p) ==
  /\ At(p, "sync") /\ proc[p].i \notin Buffer
  /\ LET s == proc[p] IN
     CASE s.pass = 1 -> Become(p, [s EXCEPT !.i = 1, !.pass = 2])
       [] s.pass = 2 -> Become(p, [s EXCEPT !.pc = "victim", !.i = 0, !.pass = 0, !.dev = "none"])
       [] OTHER -> proc' = [proc EXCEPT ![p] = IdleProc] /\ current' = None
  /\ UNCHANGED <<buffers, request, disk, history>>

-----------------------------------------------------------------------------
(* The device.                                                             *)

\* The sectors move between the buffer and the disk; block_write may have
\* filled the buffer after the read was queued.
Transfer(r) ==
  /\ request[r] # Free /\ ~request[r].moved
  /\ request' = [request EXCEPT ![r].moved = TRUE]
  /\ LET b == request[r].bh IN
     IF request[r].cmd = READ
     THEN /\ data' = [data EXCEPT ![b] = disk[blk[b]]]
          /\ lost' = lost \cup ReadOver(b)
          /\ UNCHANGED disk
     ELSE disk' = [disk EXCEPT ![blk[b]] = data[b]] /\ UNCHANGED <<data, lost>>
  /\ UNCHANGED <<blk, count, dirt, uptodate, lock, proc, current, latest, errors>>

\* Mutant: the buffer stays locked after an error.
UnlockedOnSuccess(b, ok) == [lock EXCEPT ![b] = ~ok]

\* unlock_buffer
Unlocked(b, ok) == [lock EXCEPT ![b] = FALSE]

\* end_request(ok): b_uptodate, unlock_buffer, and the slot is free.
end_request(r, ok) ==
  /\ uptodate' = [uptodate EXCEPT ![request[r].bh] = ok]
  /\ lock' = Unlocked(request[r].bh, ok)
  /\ request' = [request EXCEPT ![r] = Free]
  /\ UNCHANGED <<blk, count, dirt, data, disk, proc, current, latest>>

Complete(r) ==
  /\ request[r].moved
  /\ end_request(r, TRUE)
  /\ UNCHANGED <<lost, errors>>

Fail(r) ==
  /\ request[r] # Free /\ errors < MaxErrors
  /\ end_request(r, FALSE)
  /\ errors' = errors + 1
  /\ lost' = lost \cup (IF request[r].cmd = WRITE THEN {blk[request[r].bh]} ELSE {})

-----------------------------------------------------------------------------
Step(p) ==
  \/ Sleep(p) \/ SyncStart(p) \/ SyncStep(p) \/ SyncEnd(p)
  \/ \E op \in Calls(p), k \in Block : Start(p, op, k)
  \/ GetblkHit(p) \/ HashWait(p) \/ GetblkMiss(p) \/ GetblkFull(p)
  \/ VictimRepeat(p) \/ VictimSync(p) \/ VictimTake(p)
  \/ LlRw(p) \/ MakeRequest(p) \/ AheadNext(p) \/ ReadAhead(p) \/ ReadWait(p)
  \/ Read(p) \/ Fault(p) \/ FileWriteDirt(p) \/ FileWriteCopy(p) \/ BlockWrite(p) \/ Brelse(p)

Next ==
  \/ \E p \in Proc : Step(p)
  \/ \E r \in Slot : Transfer(r) \/ Complete(r) \/ Fail(r)

Spec == Init /\ [][Next]_vars

-----------------------------------------------------------------------------
(* Properties.                                                             *)

\* No block is in two buffers: getblk() sleeps between its look at the hash
\* table and taking a buffer.
UniqueBlock == \A b, c \in Buffer : blk[b] = blk[c] /\ blk[b] # NoBlock => b = c

HasBuffer(p) == proc[p].pc \in {"ahead", "tmp", "readwait", "hold", "copy", "brelse"}

CountOK ==
  \A b \in Buffer :
    count[b] = Cardinality({p \in Proc : proc[p].bh = b})
                 + Cardinality({p \in Proc : proc[p].first = b})

\* A buffer that bread/getblk returned keeps its block, and its use count is
\* the number of processes that hold it or wait for it.
HeldBuffers ==
  /\ \A p \in Proc : HasBuffer(p) => blk[proc[p].bh] = proc[p].want
  /\ CountOK

\* A process sleeps on buffer_wait only while another one, awake or waiting
\* for a disk, has a buffer that it will give back with brelse: breada gives
\* its read-ahead buffers back without a wake-up.
BufferWaiter ==
  \A q \in Proc : proc[q].pc = "bufwait" =>
    \E p \in Proc : proc[p].pc # "bufwait" /\ {proc[p].bh, proc[p].first} # {0}

\* A locked buffer has exactly one owner, who will unlock it: its request, or
\* the process that looks for a slot.
LockOwner ==
  \A b \in Buffer :
    Cardinality({r \in Slot : request[r].bh = b})
      + Cardinality({p \in Proc : proc[p].pc = "slot" /\ ReqBuf(proc[p]) = b})
      = IF lock[b] THEN 1 ELSE 0

\* A buffer that is up to date holds the last version written, unless a
\* write of the block failed, block_write's bytes were read over (the buffer
\* was never marked up to date), or file_write's b_dirt was cleared before its
\* bytes were in the buffer.
Coherent ==
  \A b \in Buffer : uptodate[b] /\ blk[b] \notin lost => data[b] = latest[blk[b]]

\* The last version of a block is on the disk, or in a buffer that is dirty
\* or on its way to the disk, unless it was lost in one of these three ways.
Durable ==
  \A k \in Block \ lost :
    \/ disk[k] = latest[k]
    \/ \E b \in find_buffer(k) :
         /\ data[b] = latest[k]
         /\ dirt[b] \/ \E r \in Slot : request[r].bh = b /\ request[r].cmd = WRITE

\* sys_sync returns only when what was written before it began is on the disk
\* or queued.
ReturnsFlushed(p) ==
  proc[p].op = "sync" /\ proc'[p].op # "sync" =>
    \A k \in Block \ lost :
      \/ disk[k] >= proc[p].snap[k]
      \/ \E b \in find_buffer(k), r \in Slot :
           request[r].bh = b /\ request[r].cmd = WRITE /\ data[b] >= proc[p].snap[k]

\* What was written before sys_sync began is on the disk or queued when it
\* returns.
SyncFlushes == [][\A p \in Proc : ReturnsFlushed(p)]_vars

-----------------------------------------------------------------------------
(* The inductive strengthening of these properties, for BufferCacheProofs. *)

Asking == {"ll_rw", "slot"}

\* Which of its locals a process uses where it is.
LocalsOK(s) ==
  /\ s.bh # 0 <=> \/ s.pc \in {"hashwait", "ahead", "tmp", "readwait", "hold", "copy", "brelse"}
                  \/ s.pc \in Asking /\ s.i = 0
  /\ s.first # 0 => \/ s.pc \in {"getblk", "bufwait", "hashwait", "victim", "tmp"}
                    \/ s.i # 0
  /\ s.pc = "tmp" => s.first # 0
  /\ s.pc \in {"ahead", "tmp"} \/ s.first # 0 => s.op \in Breada
  /\ s.victim # 0 <=> s.pc = "victim" \/ s.pass # 0
  /\ s.i # 0 => s.pc \in Asking \cup {"sync"}
  /\ s.pc = "sync" => s.i # 0
  /\ s.pc \in Asking => s.i \in {0} \cup Buffer
  /\ s.pass # 0 => s.i # 0
  /\ s.op = "sync" <=> s.i # 0 /\ s.pass = 0
  /\ s.op = "sync" => s.dev = "all" /\ s.snap \in [Block -> Nat]
  /\ s.op # "sync" /\ s.pc # "idle" => s.want \in Block
  /\ s.pc = "copy" => s.op = "file_write"

LocalsInv == \A p \in Proc : LocalsOK(proc[p])

\* A buffer that is known to anybody has a block, and the one a process holds
\* has the block it wanted.
BlocksOK ==
  /\ \A b \in Buffer : lock[b] \/ dirt[b] \/ uptodate[b] => blk[b] \in Block
  /\ \A p \in Proc : proc[p].bh # 0 => blk[proc[p].bh] = proc[p].want
  /\ \A p \in Proc : proc[p].first # 0 => blk[proc[p].first] \in Block

\* p has locked b and looks for a slot.
Locking(p, b) == proc[p].pc = "slot" /\ ReqBuf(proc[p]) = b

\* What LockOwner says, without counting.
OwnerOK ==
  /\ \A r \in Slot : request[r].bh # 0 => lock[request[r].bh]
  /\ \A p \in Proc, b \in Buffer : Locking(p, b) => lock[b]
  /\ \A b \in Buffer : lock[b] =>
       (\E r \in Slot : request[r].bh = b) \/ (\E p \in Proc : Locking(p, b))
  /\ \A r, t \in Slot : request[r].bh # 0 /\ request[r].bh = request[t].bh => r = t
  /\ \A b \in Buffer, p, q \in Proc : Locking(p, b) /\ Locking(q, b) => p = q
  /\ \A r \in Slot, p \in Proc : request[r].bh # 0 => ~Locking(p, request[r].bh)

\* A buffer is written because it is dirty and read because it is not up to
\* date, and stays so while it is locked.
RequestOK ==
  /\ \A p \in Proc : proc[p].pc = "slot" =>
       IF proc[p].i = 0 THEN ~uptodate[proc[p].bh] ELSE dirt[proc[p].i]
  /\ \A r \in Slot : request[r].cmd = READ => ~uptodate[request[r].bh]

\* The buffer holds the last version of its block, unless the block is lost.
Good(b) == blk[b] \in lost \/ data[b] = latest[blk[b]]

\* Whoever relies on the contents of a buffer may do so.
GoodOK ==
  /\ \A b \in Buffer : uptodate[b] \/ dirt[b] => Good(b)
  /\ \A r \in Slot : request[r].cmd = WRITE \/ request[r].moved => Good(request[r].bh)
  /\ \A p \in Proc :
       proc[p].pc \in {"hold", "copy"} /\ proc[p].op # "full_write" => Good(proc[p].bh)

\* A write that has not reached the disk yet.
Unwritten(b) == \E r \in Slot : request[r].bh = b /\ request[r].cmd = WRITE /\ ~request[r].moved

DurableOK ==
  \A k \in Block \ lost :
    \/ disk[k] = latest[k]
    \/ \E b \in find_buffer(k) : data[b] = latest[k] /\ (dirt[b] \/ Unwritten(b))

\* Version v of block k is on the disk, on its way to it, or in a dirty
\* buffer that a loop at buffer i has not passed.
Flushed(k, v, i) ==
  \/ disk[k] >= v
  \/ \E b \in find_buffer(k) : data[b] >= v /\ (Unwritten(b) \/ (dirt[b] /\ b >= i))

SyncOK ==
  \A p \in Proc : proc[p].op = "sync" =>
    \A k \in Block :
      /\ proc[p].snap[k] <= latest[k]
      /\ k \in lost \/ Flushed(k, proc[p].snap[k], proc[p].i)

Inv ==
  /\ TypeOK /\ LocalsInv
  /\ UniqueBlock /\ CountOK /\ BlocksOK /\ OwnerOK /\ RequestOK
  /\ GoodOK /\ DurableOK /\ SyncOK
=============================================================================
