# Verification of linux-0.11

TLA+ models of the kernel in `src/`, checked with TLC on small instances, and
proofs of the central theorems for every instance, checked with TLAPS.

The kernel is a uniprocessor Unix of 1991 with later comments and a few later
changes (the wait queues in `kernel/sched.c` differ from the original). It is
not preempted: a task in the kernel runs until it calls `schedule()`, directly
or by sleeping. What makes it hard is what happens in those sleeps, and the
interrupts, which come at any point where `cli()` is not in force.

## Inventory

| Part | State | Operations | What makes it correct |
|---|---|---|---|
| Scheduler, wait queues (`kernel/sched.c`, `system_call.s`) | task states, signals, alarms, one pointer per wait queue, locals `tmp` of the sleepers, counters, timer list | `schedule`, `sleep_on`, `interruptible_sleep_on`, `wake_up`, `pause`, `alarm`, `do_timer`, `add_timer` | no wake-up is lost; sleepers run again; signals interrupt |
| Signals (`kernel/signal.c`, `exit.c`) | bit sets, handlers | `kill`, `sigaction`, `ssetmask`, `do_signal` | a signal is delivered once and reaches a sleeper |
| Processes (`fork.c`, `exit.c`, `exec.c`, `sys.c`) | task table, parents, zombies | `fork`, `exit`, `waitpid`, `exec` | every zombie is reaped once; no slot or page leaks |
| Memory (`mm/memory.c`, `page.s`) | use counts, page tables | page faults, copying and freeing of page tables, sharing | exact counts; a writable page has one user; contents are private |
| Buffer cache (`fs/buffer.c`) | buffers, hash table, free list | `getblk`, `bread`, `brelse`, `sync` | one buffer per block; no lost or stale data |
| Block requests (`ll_rw_blk.c`, `blk.h`) | request slots, a queue per device | `make_request`, `add_request`, `end_request` | locks given back once; no process waits for ever |
| Hard disk, floppy, RAM disk (`hd.c`, `floppy.c`, `ramdisk.c`) | current request, reset and seek flags, motor timers | interrupts, retries | every request ends; retries repeat the same sectors |
| Inodes, super blocks (`fs/inode.c`, `super.c`) | tables with counts and locks | `iget`, `iput`, `bmap`, `mount`, `umount` | one slot per inode; counts agree with users |
| Bitmaps (`bitmap.c`, `truncate.c`) | zone and inode maps | allocation and freeing | no block in two files |
| Directories (`namei.c`) | entries, links | look-up, link, unlink, mkdir, rmdir | link counts; no name lost or doubled by a race |
| Files (`open.c`, `fcntl.c`, `read_write.c`, `file_dev.c`, `block_dev.c`, `char_dev.c`, `pipe.c`) | descriptors, file table, pipe heads and tails | `open`, `close`, `dup`, `read`, `write`, `pipe` | counts; bytes arrive in order |
| Terminals (`tty_io.c`, `tty_ioctl.c`, `console.c`, `keyboard.S`, `serial.c`, `rs_io.s`) | three character queues per line | interrupts, canonical mode, read, write | no character lost below the limit; readers wake |
| Kernel allocator (`lib/malloc.c`) | buckets | `malloc`, `free_s` | blocks do not overlap |
| Boot, traps, printing, library, build tool | | | no concurrent state |

How they interact: every part sleeps through the wait queues; file and memory
code go through the buffer cache, which goes through the request slots to a
driver, whose interrupt unlocks the buffer and wakes the sleepers. `exec` and
page faults read executables through the buffer cache, and a copy between
kernel and user memory may fault, that is sleep, in the middle of a file
operation.

`PROJECT.json` lists the hazards, each at its line. The hard ones are
the wait queue threaded through stack variables with a stale head, the sleeps
inside `getblk`, flags set before a copy that may sleep, the moments in which a
page is about to be written while another task may share it, drivers that are
entered from a call, an interrupt and a timer with one set of globals, and the
line discipline and `con_write`, which interrupt themselves.

## Modules

### Sched, Monitor

`Sched` is `kernel/sched.c` with its users. A wait queue is one pointer,
`head[q]`; the rest of the queue hangs on the local `tmp` of each sleeper. In
this repository `sleep_on` never restores `*p` and `wake_up` does not clear it
any more, so `head[q]` may name a task that is long gone. State and code:
`state`, `signal`, `blocked`, `alarm` are the fields of `task_struct`; `head` is
`b_wait`, `i_wait`, `s_wait` or `proc_list`; `busy` is the lock bit of a buffer,
inode or super block, or `EMPTY(secondary)` of a terminal; `wq`, `tmp` and `pc`
stand for the kernel stack of a task. One action is the code from one return of
`schedule()` to the next call; `cli()` in the sleep loops makes that atomic.
`wait_on_buffer`, `lock_buffer`, `wait_on_inode`, `lock_inode`, `wait_on_super`
and `lock_super` have the same text and are one pair of actions, with the
object as a parameter. `schedule()` picks any runnable task: the counters are
not modelled.

`Monitor` says what a queue promises: a set of waiters per object, which a
release empties, and which a task joins only while the object is busy. `Sched`
implements it with the sleepers that no wake-up is on its way to (`Stuck`) as
the waiters.

### BufferCache

`fs/buffer.c` with the request slots and the lock bits, and the callers
`file_read`, `file_write`, `block_write` and `sync`. A process keeps the
processor (`current`) until it sleeps; waiting for a lock bit or a slot is a
guard, which is what `Sched` establishes of `sleep_on`. The contents of a block
are a version number. `latest`, `lost` and `snap` are history variables. `lost`
holds the blocks of which the code has lost a version, in one of three ways: a
write failed; `block_write` filled a buffer that was not up to date and a `bread`
read the old block over it; the copy of `file_write` faulted, and a flush cleared
`b_dirt` before the bytes were there. `Coherent`, `Durable` and `SyncFlushes`
speak of the other blocks. `breada` takes
its read-ahead buffers one by one (`AheadNext`) but asks again for the first block
(`ReadAhead`: the call names `bh`, not `tmp`), so that it reads nothing ahead, and
gives them back without a wake-up of `buffer_wait`; `BufferWaiter` says that a
`brelse` follows all the same. Two blocks read each other ahead in the run, in
one process; with as many readers as buffers, `breada` could wait for itself,
which hundreds of buffers and 64 tasks do not allow. Left
out: the order of requests (any may be served next), `bread_page`, `sync_inodes`, `invalidate_buffers`. The order of
`free_list` is left open among equally bad buffers.

### Memory

All of `mm/memory.c` with what `fork`, `exec`, `exit` and `verify_area` do to
pages. An address is one page in a 4 Mb region of its own, so that page tables
are allocated and run out one at a time. `held` is the page `do_no_page` or
`exec` has in a local variable while it sleeps. `view` is a history variable:
what the task must find at an address.

A system call that stores to user memory is `verify_area`, then the store or a
return without one (`waitpid` without a child, `read` at the end of a file). As in
`write_verify`, a page that is absent is left alone: the store faults
(`filling`, `faulted`), `do_no_page` may give it a shared, read-only page, and the
repeated store goes into it, because a 386 ignores write protection in
supervisor mode. A call is about one page; a call that stores several times to it
adds nothing, since the first store makes the entry dirty, and several pages
are several calls.

`loose` has the entries whose dirty bit a copy on write has cleared and which nobody
has stored to since, so that they look clean and are not. `raced` records that one
of three things has happened: `share_page` shared such a page; it shared a page of a
task that is between `current->executable = inode` in `exec` and the freeing of its
old pages; a system call stored into a page that has other users.
`exec` does not fault itself in the model, one page holds the arguments,
and pages below `LOW_MEM` (task 0, and what task 1 maps of them before its first
`exec`) are left out. The first state is task 1 with no executable. Pipes are
modelled only as users of a page (`get_pipe_inode`, and `iput` of the last end).

### FileSystem

`fs/inode.c`, `bitmap.c`, `truncate.c` and `namei.c` with `open`, `creat`,
`close`, and `read` and `write` as far as blocks and buffers go. `itab` is `inode_table`,
`disk` the inodes on disk, `ent` the entries in directory blocks, `imap` and
`zmap` the bitmaps; `pr` is the stack of a process in the kernel: the inodes it
has to give back, the number it has read in a directory and not yet passed to
`iget`, and the inodes it is putting one after the other. A step goes from one
place that may sleep to the next (`bread`, a locked inode, `write_inode`,
`new_block`, `free_block`, the copy of `file_read` and `file_write`); an `iput` that does not sleep is part of the step
before it. Which system call it is is chosen at the end of the path, because the
walks are the same.

`free_block` returns early when somebody else counts the buffer (`bitmap.c:58`): the bit
stays set, the zone is cleared, and the count `get_hash_table` took is never given
back. `Unfreed` is that test, `BufferInUse` who may hold the buffer: a process in the
copy of `file_read` or `file_write`, one that has the entry of the block in its
hands, one that is freeing the same block. `bread` counts the buffer before it
sleeps, so a process between the call of `bread` and `brelse` is at one place
(`copy`). `lost` has the blocks left behind this way. Only `open_namei`'s truncation
can meet a buffer of the file in use: `iput` truncates when nobody has the file open.
`FsckClean` excepts `lost` and nothing else: a bit that is set belongs to exactly
one inode or to `lost`, and a lost block is in no file.

Abstractions: a directory block has room for one entry besides "." and "..", so
that directories grow; a file has at most one block; one device; all processes
are root; no "..", no disk errors; a path is in memory (`get_fs_byte` does not
fault); one descriptor for each process. `O_EXCL` is a choice when the name was found.
The part of `get_empty_inode` that writes a dirty free inode is not there:
`FreeClean` says that it is never needed. Inodes on disk are forgotten when they
are freed.

`tainted` is a history variable. The code reads, sleeps, and acts on what it has
read, without looking again, in these places; a process that loses such a race
sets it, and the properties about contents speak of the states before:

- two processes add the same name to a directory, or one is added behind a scan;
- two processes clear the same entry, or unlink meets a link count of 0;
- `rmdir` removes a directory that was entered or filled during `empty_dir`;
- the last `iput` truncates and frees an inode whose number somebody has read,
  or which was taken from the table during the truncation;
- two processes allocate the same zone of a file, or truncate it together;
- `mkdir` fails for lack of a block (finding 3).

### Request, HardDisk, Timer, Floppy, BlockDev

`Request` is what `blk.h` gives to the drivers: the slots (`request`), the queue
of each device (`queue`, the linked list from `current_request` on), the buffer
heads with their lock, `IN_ORDER` and `end_request`. `HardDisk` (`hd.c`) and
`Floppy` (`floppy.c` and the motor part of `sched.c`) extend it; their driver
functions are operators from old to new values, because the code nests them:
`end_request` and then `do_hd_request` again is one interrupt. `Timer` is
`add_timer` and the list part of `do_timer`. `BlockDev` puts `ll_rw_blk.c` and the
RAM disk on top: `ll_rw_block` to the end of `make_request` or to its sleep is one
step, with a state (`gap`, `motorgap`, `selgap`) where interrupts come in between the
test and the sleep.

A sector's contents are a token with the sector's own address and a version, so
that a transfer to another sector or from another half of the buffer shows in
`TransferRight`. The controllers are external: a command ends, or fails as often
as the bound of the run allows. `Chs` and `Sector` are the code's division into
cylinder, head and sector and the controller's way back. Left out: `sys_setup`,
`rd_load`, the controllers' busy loops (a controller that is not ready counts as
a failed command), a lost interrupt (the code has no answer: nothing times a
hard disk command, `hd.c:363`).

### Process

`fork.c`, `exit.c`, the default action of `do_signal`, `sys_kill`, `ssetmask`, and
what ties processes together: `file_table`, `dup`, `close` and `pipe.c`. A task slot
is a record: state, the place in the kernel it sleeps at, pid, father, signals,
descriptors, and the locals of its system call. `busy` is the task in the kernel.
The wait queue of a pipe is the repository's, with its stale pointer. A byte in a
pipe is the number of its writing. `write_pipe` moves the head and `read_pipe` the tail
before they copy, and both copies, byte by byte, may fault and sleep in the
middle. `torn` records that the other side claimed such a byte in the meantime (a
reader moved the tail over a byte not yet stored, a writer the head over one not
yet taken), `wrong` that a byte was read out of order. `last_pid` starts again at 1 after `MaxPid`, so
that pids are used again. Left out: groups and sessions, handlers, `dup2`, flags,
memory (`Memory`), files other than pipes.

### Console, Screen

`console.c`. What `con_write` does with a character is a program, a sequence of
instructions: an assignment of a C variable, a `rep` string instruction on video
memory, or a call, whose tests are made when it is reached (`Advance`). `mem` also has
the cells before and behind video memory. Interrupts are on in `con_write`, and the echo
of a key enters it again. `Echo` does so between two characters or while there is
no `con_write`; `EchoInside` carries out a whole character at any point (`Points`) of
the program of another one and sets `nested`. `TickInside` is the timer in the
middle of `sysbeep`.

`Screen` says what a terminal does, without addresses: text, cursor, region.
`ScreenShown` says that from any text each character makes a step of `Screen` or
leaves the picture alone, which with the initial states is that `Console` implements
`Screen!Spec`. It is stated for a text with no two cells alike: `console.c` never
looks at a cell, so that this text stands for all, and the run may identify states
that differ in the text alone (`ControlView`).

Both properties hold as long as echoes come between characters. After one in
the middle of a character they are false, in the code as in the model: an echo
between the two assignments of `cr` parts `pos` from `x`, one after the test for the last
column stores behind the line, one inside `scrup` scrolls or stores with an `origin` that
is not the one shown.
They except these states by name (`nested`), and the run stops at the first of
them (`Apart`). What the code does further on, with counts that have become negative, is not followed. A `rep`
instruction is not divided, and compound assignments to memory are one instruction,
as the compiler makes them.

### Tty

`tty_io.c`, `tty_ioctl.c`, the rings of `tty.h`, the queue handling of `con_write`,
the keyboard's interrupt and a serial line. `stack` is the kernel stack: the system
call of a task at the bottom, interrupt handlers above it, each with its locals;
one step is one turn of a loop, and interrupts come between steps. The keyboard
has a trap gate and is acknowledged before the line discipline runs, so it may
interrupt its own handler; the serial interrupt cannot. `interruptible_sleep_on`
is as in `Sched`, with the signals that keys send. `seen` records the races the
code loses, and the properties name those they except:

- `overlap`: `con_write` counts its characters before its loop and is entered again,
  from the echo of a key or, with no interrupt at all, through `respond`;
- `over`: the echo, or a writer that has slept at its fetch, puts a character into a full
  queue, which is an empty one then; a writer that
  finds the console's queue full sleeps, and nobody ever wakes that queue;
- `nested`: `copy_to_cooked` interrupts itself; `erased`: ERASE comes between the test
  for a character and its taking;
- `faulted`: `tty_write` has looked for room and sleeps in the page fault of `get_fs_byte`
  before it puts the character (`WriteFault`); until it, or the next writer, calls
  `rs_write`, nothing may wake those that sleep for the serial queue it or others have
  filled;
- `eof`: the return of line 293 leaves the timeout's alarm armed.

Abstractions: the answer to `ESC Z` is written by one character `ID`; of the input
and output modes those in the termios record of a scenario (ICANON, ECHO, ISIG, ICRNL or
IGNCR, ONLCR, VMIN, VTIME); ECHOCTL is set; scan codes are characters.

### Type invariants

`TypeOK` of `BufferCache`, `FileSystem`, `BlockDev` and `Process` describes their variables and holds
on the instances of their runs; the configurations list what is less obvious. For
`Sched`, `BufferCache`, `Process`, `Memory` and `Tty` it is proved.

## Runs

| Run | Configuration | Shows |
|---|---|---|
| `sched` | 3 tasks, 1 lock, 1 terminal, 1 signal on one of the tasks; 411 000 states | `TypeOK`, `Inv`, `NoLostWakeup`, `MonitorSpec` |
| `sched_live` | the same without signals, `FairSpec`; 51 000 states | `SleeperWakes` |
| `sched_signal` | violated under `FairSpec`: 2 readers, 1 signal | `SignalledReaderReturns`: the readers wake each other for ever |
| `buffer` | 3 processes, 2 buffers, 3 blocks on 2 devices, 2 slots (1 for writes), 2 writes, also of whole blocks, copies that may fault, 1 failed transfer, 1 block read ahead; 1.9 million states | `BufferWaiter`, `UniqueBlock`, `HeldBuffers`, `LockOwner`, `Coherent`, `Durable`, `SyncFlushes` |
| `memory` | 2 tasks, 2 addresses (1 backed), 2 files, 8 pages, 1 pipe; 131 000 states up to renaming | `TypeOK`, `RefCount`, `WritableUnshared`, `ViewIntactUnlessRaced` |
| `filesystem` | 2 processes, 3 slots, 3 inodes, 3 blocks, paths `a`, `b`, `a/a`, `a/b`; 405 000 states up to renaming | `InodeCount`, `UniqueInode`, `FreeClean`, `CleanOnDisk`, `FsckClean` |
| `mkdir_full` | violated: 1 process, 3 inodes, 2 blocks | `NoDoubleFree`: `mkdir` frees a block twice |
| `blockdev` | 2 processes, 3 slots, a disk of 2 heads and 2 sectors with 2 partitions, 2 floppy drives, a RAM disk; eight workloads with up to 4 failed commands; 354 000 states | `LocksServed`, `TransferRight`, `SleeperWoken`, `HandlerHasRequest`, `MotorReady`, `NeverEarly`, `NoStarvation`, `GiveUp` |
| `process` | 3 tasks beside the idle task, pids 1 to 4, 2 descriptors, 2 files, a page of 3 bytes for the pipe; three workloads; 518 000 states | `FatherFound`, `WaiterTold`, `FileCounts`, `PipeFifo`, `PipeSleeper` |
| `process_zombie` | violated: a reader and a writer of a pipe | `ZombieStays`: a zombie is made runnable through a stale `i_wait` |
| `console` | 2 columns, 3 lines, video memory for 4, parameters up to 3, echoes of a letter and of LF; two sets of characters; 71 000 states up to the text | `VideoSound`, `ScreenShown` |
| `terminal` | 2 tasks, queues of 4, seven keys of which 3 are typed, handlers two deep; seven workloads; 3.9 million states | `LinesCounted`, `OutputOnce`, `SleeperWoken`, `NoStrayAlarm` |

Why the bounds are enough to be interesting. Three tasks give a queue with a
top, a middle and a bottom, and a stale head outside it. Two buffers and three
processes make all buffers busy, so that `getblk` has to sleep, sync and start
over; two devices let `sync_dev` pass over buffers; one slot for writes fills up
while reads go on; two writes are two versions of one block or one of each of
two. Eight pages are two fewer than two tasks with everything mapped need, so
every out-of-memory path is taken; the page of a pipe lets `copy_page_tables`
run out half way through a `fork`. `memory` is checked up to renaming of pages
(`View` in `MCMemory`): nothing depends on which free page is taken, nor on what is
in a page that is not mapped. Its
configuration does not check for deadlock, because the system of the model may
stop: all tasks can exit, and `init`, which would start another, is not part of
it. A `pass` run with symmetry checks no liveness.

`filesystem`: three inodes are the root, a directory and a file in it, or two
names of one file; three blocks let a directory grow and then be truncated in
two steps, and run out under `creat`, `mkdir` and `link`; three slots are filled
by the root and two processes in `iget`, and then `get_empty_inode` panics. Two
processes overlap only while inodes, blocks and open files together are at most
`MaxTogether` = 4 (the constraint `Followed` of `MCFileSystem`, which also stops
at the first tainted state); alone, a process uses the whole disk. States are
taken up to the names of slots and blocks (`View`). Deadlock is not checked
because a panic stops the system. The overlap bound keeps the run short; the same
properties were checked without it for 3 inodes, 2 blocks and 4 slots (2.2
million states), and without `View` for 2 inodes and 2 blocks.

`blockdev`: three slots are two for writes and one that only reads get, so that the
slots run out with two processes; the partition starts in the middle of a track
and its last block is the end of its range, where retries differ; the workloads
are three blocks without failures, two with one, one block that fails to the
end, a block that is not on the device, two drives with `floppy_change`, two drives
with a request given up, two tracks, and all drivers together. `MON`, `MOFF` and `BIG`
shorten the motor's delays and keep their order. The hard disk's calls are not
bounded; floppy requests are (`rw`), after which the system may stop, so deadlock is
not checked. `process`: three tasks are father, child and grandchild, or two readers
and a writer; four pids for them are used again; a pipe in a page of three bytes is
full with two, so that bytes have an order, and wraps. A task may read an empty pipe of its own for ever, so deadlock is not
checked. `console`: a screen of three lines in memory for four scrolls once before
it wraps, a region may be above, in or below; two columns are one tab stop; `BEEP`
is one tick; all characters but beeps and attributes make one workload (`WORKLOADS`),
these and a few more the other. `CUT` has the characters an echo may come in the
middle of; one is enough, CR, because nothing is claimed of the states behind it. `terminal`: queues of four are filled by one echo and by one write;
the workloads are line editing beside output, two readers, a program that asks the terminal for its
name, reads with timeouts and a change of mode, and two writers of a serial line
with and without echo, and with two page faults. They end, so deadlock is not checked.

Fairness (`Sched!Fairness`). A task in user mode is preempted by the timer and
one in the kernel goes on when it is chosen: weak fairness of `Continue` and
`IdlePause`. The counters of tasks that run only go down and all are refilled
when those of the runnable tasks are 0, so a task that is runnable again and
again is chosen in the end: strong fairness of `SwitchTo`. A holder gives its
lock back: weak fairness of `Unlock`, which for buffers is the disk interrupt.
Nothing is assumed of terminals and signals. The actions a task may or may not
take (system calls) have no fairness.

## Findings

Three places where the code does not do what a comment, a declaration or an
assertion in it says are violation runs, quoted in `PROJECT.json`:

1. A signalled reader of a terminal need never return (`sched.c:203`).
2. A zombie may be made runnable by a stale wait queue (`sched.c:217`).
3. `mkdir` on a full disk frees a block twice (`namei.c:525`).

The models contain more of them, and the properties of the passing runs except
them by name; removing the exception gives the counterexample:

- `pause()` may return without a signal, by the same stale pointer (`sched.c:218`,
  against the comment at `init/main.c:165`); `Sched` has the behaviour, and no
  property of it excludes it.
- A whole block written through a block device reads back old (`block_dev.c:28`), and
  bytes of `file_write` may never reach the disk (`file_dev.c:71`): `lost`.
- `try_to_share` shares pages that are not clean (`memory.c:328`), and a system call may
  store into a shared page, which `write_verify` has not made private because it was
  absent (`memory.c:282`) or was shared later: `raced`.
- One error in the second sector of the last block of a partition ends the request
  (`hd.c:329`); a read from a diskette may be given up on an old ST1
  (`floppy.c:253`): `GiveUp`.
- `do_fd_request` runs twice for a request that comes while a reset is under way
  (`floppy.c:417`): `HandlerHasRequest`.
- `creat` of a file that somebody is reading leaves its block allocated for ever
  (`bitmap.c:61`): `lost` of `FileSystem`, in `FsckClean`.
- A process may miss the wake-up between its test and its sleep (`ll_rw_blk.c:131`,
  `sched.c:261`): `SleeperWoken`.
- The comment at `console.c:19` trusts that all "will work even for keyboard
  interrupts", because trap gates leave interrupts off, which they do not. An echo in
  the middle of a character parts the cursor from its coordinates (`console.c:227`):
  `nested` of `Console`. The queues and the line discipline interrupt themselves too:
  `overlap` and `nested` of `Tty`.
- A read of a pipe may overtake the copy of a writer that sleeps (`pipe.c:62`), and a
  write the copy of a reader (`pipe.c:33`): `torn` in `PipeFifo`.
- A read that ends on EOF leaves its alarm armed (`tty_io.c:293`): `NoStrayAlarm`.
- `ESC 7` and `ESC 8` compare the column instead of the character (`console.c:507`);
  modelled as it is.

## Proofs

Eight modules hold theorems; all are checked to the last leaf. The bounds of the
runs do not matter here: the theorems are about every value of the constants
that the named assumptions allow. The assumptions say what the code's tables
say: names are distinct and tables not empty (`SchedAssumption`,
`BufferAssumption`, `ProcessAssumption`), pids outnumber the task slots
(`ProcessAssumption`; 2^31 - 1 and 64 in the code), more buffers than processes in
`breada` (`BreadaAssumption`; hundreds and 64), no more tasks than a byte of
`mem_map[]` can count (`MemoryAssumption`; 64), rings of more than two characters
and water marks below their size (`TtyAssumption`; 1024, 128, 20 and 256),
scenarios that are calls of `tty_read`, `tty_write` and `tty_ioctl`
(`ScenarioAssumption`), finitely many processes, a root inode and one data zone at
least, paths that are not empty (`FileSystemAssumption`), at least two request slots, so that one is for writes
(`RequestAssumption`; 32), and drives and partitions that have an entry in the
drivers' tables (`HdAssumption`, `FdAssumption`).

No property below is inductive as it stands. The invariant `Inv` that is stands
with the properties at the end of `Sched`, `BufferCache`, `Process`, `Memory`, `FileSystem`,
`Tty` and `BlockDev` (for pipes, `PipesOK` on top of it); it was model-checked there before it was
proved. The proof that a step keeps it has one lemma per action.

| Module | Theorem | What is proved |
|---|---|---|
| `SchedProofs` | `Invariance`, `TypeCorrect` | `Inv`, `TypeOK` |
| | `WakeupSafety` | `NoLostWakeup` |
| | `MonitorImplemented` | `MonitorSpec`: `Sched` implements `Monitor` |
| `BufferCacheProofs` | `CacheInvariant`, `CacheTypes` | `Inv`, `TypeOK` |
| | `NoAliases`, `CountsRight`, `OneOwner` | `UniqueBlock`, `HeldBuffers`, `LockOwner` |
| | `ReadsLatest`, `WritesKept`, `SyncWrites` | `Coherent`, `Durable`, `SyncFlushes` |
| | `WaiterHasWaker` | `BufferWaiter` |
| `ProcessProofs` | `ProcessInvariant` | `Inv` |
| | `FathersExist`, `WaitersTold`, `FilesCounted` | `FatherFound`, `WaiterTold`, `FileCounts` |
| | `PipesInvariant` | `PipesOK` |
| | `BytesInOrder`, `PipeSleepersTold` | `PipeFifo`, `PipeSleeper` |
| `MemoryProofs` | `MemoryInvariant`, `MemoryTypes` | `Inv`, `TypeOK` |
| | `PagesCounted`, `WritersAlone`, `ViewsIntact` | `RefCount`, `WritableUnshared`, `ViewIntactUnlessRaced` |
| `FileSystemProofs` | `FilesystemInvariant` | `Inv` |
| | `InodesCounted`, `FreeSlotsClean` | `InodeCount`, `FreeClean` |
| `TtyProofs` | `TerminalInvariant`, `TerminalTypes` | `Inv`, `TypeOK` |
| | `LinesAreCounted`, `OutputIsShownOnce` | `LinesCounted`, `OutputOnce` |
| | `SleepersAreWoken`, `NoAlarmIsStray` | `SleeperWoken`, `NoStrayAlarm` |
| `BlockDevProofs` | `BlockInvariant` | `Inv` |
| | `LocksServedHolds`, `SleeperWokenHolds` | `LocksServed`, `SleeperWoken` |
| | `HandlerHasRequestHolds`, `NoStarvationHolds` | `HandlerHasRequest`, `NoStarvation` |
| | `GiveUpHolds` | `GiveUp`, an action property |

`SetLemmas` has what several of them need: least and greatest elements of sets of
numbers, which the code's searches through a table find (from the
well-foundedness of `<`, without induction), and facts about cardinalities.

**SchedProofs.** That somebody awake is in a queue does not say whom he will
wake. `Inv` speaks of all sets of sleepers instead of paths along `tmp`, which
needs no induction over the queue. `LockChain`: every non-empty set of tasks
asleep on a lock contains `head` or the `tmp` of a queue member outside the set
(if it did not, nothing could ever wake it). `TtyChain`: the same for terminals,
for sets of all queue members, asleep or not, because `interruptible_sleep_on`
pops the queue and may not lose a member. `HeadAwake`: while the object is free,
`head` names no sleeper of it. `WqOK`: a task's place in the code and the queue
it is in agree. With all sleepers as the set and `HeadAwake`, the chain
conditions give `NoLostWakeup`.

For `MonitorImplemented` the waiters of `Monitor` are the stuck sleepers. From `Inv`,
each action of `Sched` is a join of a task that finds the object busy, a release
after which no sleeper is stuck, some waiters leaving, or a stutter; the case
that needs the chain conditions is a release that wakes only `head`.

**BufferCacheProofs.** `LocalsInv` says which locals of a process are in use
where it sleeps; `OwnerOK` is `LockOwner` without counting; `RequestOK` says that
a buffer is queued for writing because it is dirty and for reading because it is
not up to date, and that both last while it is locked; `GoodOK` that whoever
relies on the contents of a buffer may; `DurableOK` and `SyncOK` where the last
version of a block is, the second relative to the place of the loop in
`sys_sync`. `BufferWaiter` follows from `Inv` by counting: a process that waits for
a buffer holds at most one, so with fewer such processes than buffers some
buffer is held by a process that will give it back.

**ProcessProofs.** `FamilyOK` says that a father is never on its way out while it
has children, which is what the hand-over to init in `do_exit` is for. Most
actions are calm: they change no family, file or descriptor, and one lemma
covers them. That `find_empty_process` ends is by counting pids.

**ProcessProofs, pipes.** `PipesOK` has five parts. `UsersOK`: a task inside `read_pipe` or
`write_pipe` has a descriptor of that pipe, so by `FileCounts` the pipe is not given
back and used again under it. `PipeFifo` itself. `Flow`: the bytes between tail and
head carry the next numbers, or a copy that will store the right one is under
way, and the bytes a reader has claimed are still the ones it claimed, as long as
the pipe is not `torn`; the lemmas before it are about positions modulo the page and numbers modulo
twice the page. `Chain`: every set of sleepers without the one `i_wait` points to
has a member that a task outside the set will wake; sets again, not paths along
`tmp`, though the queue pointer is never cleared and `wake_up` reaches only its
top. `Top`: the sleeper `i_wait` points to has a reason to sleep (the pipe empty or
full, both ends open), or a task is in the loop of `read_pipe` or `write_pipe` and
wakes it before it leaves. `PipeSleeper` follows by taking as the set all sleepers
below no runnable task.

**MemoryProofs.** A page is named by places: entries, directory entries, task
structures, pages held in a local variable, and pipes. `Counts` says that
`mem_map` counts the places that name a page, and `Owned` that only entries for
one address share a page and then none of them is writable. Both are kept by
operations on places (take, drop, move, share, clear, fork), which are proved
once, away from the code; the actions are then sequences of them, on the
out-of-memory paths too. `ViewOK` is what `ViewIntactUnlessRaced` needs besides:
where the executable does not back an address, a system call that has verified it
stores into a writable page if the page is there, and a fault of the store gets a
page of its own; a page of an executable that looks clean holds what is in the file,
unless its entry is in `loose` or its task is closing files in `exec`. A step that
uses one of these exceptions sets `raced`; the theorem does not claim that none
does. Nothing is assumed of whether a call stores at all.

**FileSystemProofs.** `InodeCount` compares a counter with six kinds of references, and
says nothing of which process has which. `Inv` adds it: `Keeps` gives, for each place
a system call can sleep at, the locals that name an inode there, `RecordOK` the same for
a process that is in `iput` and will go on elsewhere afterwards. `Opening` says that a
process on its way to a descriptor has none in the model (it would forget that
file). `Fresh`: a slot taken for an inode that is not read yet has number 0 and one
user, so that `iget`, which gives the slot back by clearing it after a sleep, clears
nobody else's; without it neither the counts nor `FreeClean` are inductive. The counts
are proved by differences: a step of one process changes each cardinality by what
that process had and has (`TotalChanged`), and no process has more than two inodes
besides its open file, so that an action is settled by naming those two before and
after it (`Holds`, `Balanced`). `Go`, the puts that do not sleep at the end of a step, is
one lemma (`GoReady`). `free_inode` needs the counts themselves: a slot with one user is
not the root, which the mount holds, so the root's bit stays set and `new_inode` never
makes a second one. The run stops at the first tainted state; the theorem about
`InodeCount` covers the states behind it too: the races that spoil directories never
spoil a count.

**TtyProofs.** First the rings: what `PUTCH`, `GETCH` and the like do to the number of
characters and to the set of line ends, with positions modulo the size. Then the
steps, of two kinds. An interrupt handler leaves the calls of the tasks and the wait
queues alone; a step of a system call is a move of one task with nothing else on the
stack. For each kind one lemma says what is left to show. `EditorAlone` says that
what `copy_to_cooked` found out before the echo (there is room, the last character
may be erased) still holds after it, though the echo is written, and interrupts come,
in between: nobody but a read changes the secondary queue then, and no read runs above a
handler. `ConsoleDrained` says that a `con_write`, or a writer that will enter one, is
there whenever the console's queue is full (a writer asleep in a page fault may leave
characters in it, but not a full queue); with the count `con_write` took
at its entry that is `OutputOnce`, and it is why nobody waits for the console, nor
looks again for room (`LooksAgain`). `SerialSends` is the same for the transmit
interrupt of the serial line, for a queue that is not empty; once there was a fault, a
writer that is fetching (`Fetching`) will enable it. `Threaded` is the
chain condition of `SchedProofs` again, for `interruptible_sleep_on`, whose queue is
left in any order; `ReaderWoken` and `WriterWoken` say who wakes. `AlarmsOwned` says
which read an alarm belongs to.

**BlockDevProofs.** The drivers' functions are operators on queues, slots, locks
and processes, and so are the parts of `Inv`; a lemma about such an operator says
that it keeps `RequestsOK`, and an action that calls several of them in a row cites
one lemma for each. `RequestsOK` has the queues and slots (`Queued`: a slot in use is in
the queue of its device, once), the locks (`Held`), the place in a request that is
half done (`Positions`), who may count on a slot (`Slotless`) and the elevator.
`Elevator` says that a queue is the rest of one sweep and then the next: the order
of `IN_ORDER` has at most one descent. For each request and each piece of work (a
buffer read or written) it bounds how often the work was done while the request
waited: work not yet behind the head can be done once more before the request if
the request is in this sweep, and has not been done since it came if it is in the
next. A new request goes to the place in its sweep, or behind everything, and
keeps both bounds; without the part on work behind the head the bound of two is
not inductive. `HdBusy` says that the disk has a command exactly when there are
requests and that `do_hd` is the handler for the first; the request may be taken off
the queue only by the code that then starts the next. `FdBusy` says the same of the
floppy: one command or one timer, unless a request came during the reset that
follows a request given up (`overlap`), after which nothing of the kind holds and
the theorem claims nothing but `wild => overlap`. `GiveUp` is proved with the
induction, from the lemmas that say which requests a driver took off its queue and
why.

Only model-checked:

- `TransferRight`, `MotorReady`: they follow the positions of two heads, the version
  of every sector and the time a motor has had, through sequences of seeks and
  retries; the invariant above has none of that.
- `NeverEarly`: the time a timer has left is the sum of the delays before it in the
  list, a fold, and what a fold computes needs induction over data.
- `UniqueInode`, `CleanOnDisk` and `FsckClean` of `FileSystem`. They hold only together:
  that `new_inode` takes a number no slot has needs every entry to name an allocated
  inode, hence right link counts, hence disjoint zones and inodes read back as they
  were written. The invariant above knows nothing of links and zones.
- `VideoSound` and `ScreenShown` of `Console`, which has no proof.
- `NoDoubleFree` and `ZombieStays`, which the code violates.
- liveness (`SleeperWakes`, `SignalledReaderReturns`), which is out of the prover's
  reach, like `ENABLED`.

## Plan

Proofs that are left: `VideoSound` of `Console`, `MotorReady`, and the link counts of
`FileSystem` (`UniqueInode`, `CleanOnDisk` and `FsckClean` as one invariant).

Then what the models leave out: super blocks and mounting (`super.c`) and indirect
zones on top of `FileSystem`; `lib/malloc.c`; `exec.c` beyond its effect on pages;
`mktime` against a reference calendar.

## Not modelled

Boot code and the set-up functions that run once before there is concurrency
(`sys_setup`, `rd_load`, the chips), traps and printing, the translation of scan
codes, the library, the headers with their inline functions and the build tool:
they have no state that several steps share. Process groups, sessions, user ids,
flags of files, `stat` and `lseek` set or read single fields.
