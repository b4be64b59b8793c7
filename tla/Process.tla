------------------------------- MODULE Process -------------------------------
(***************************************************************************)
(* The life of a process (kernel/fork.c, exit.c, signal.c) with what ties  *)
(* processes together: the file table and pipes (fs/pipe.c, fcntl.c,       *)
(* open.c).                                                                *)
(*                                                                         *)
(* The kernel is not preempted: a task that is inside a system call keeps  *)
(* the processor (busy) until it sleeps or returns.  A task sleeps in      *)
(* waitpid, on i_wait of a pipe, when a page fault interrupts the copy     *)
(* into or out of a pipe, and in do_exit while iput writes the inodes of   *)
(* its directories.  sleep_on and wake_up are the repository's (see Sched): no *)
(* one clears the pointer of a wait queue, so it may name a task that      *)
(* sleeps elsewhere, is a zombie, or is gone.                              *)
(*                                                                         *)
(* Left out: process groups and sessions (one group, no leader), stopped   *)
(* tasks (no code stops one), memory (module Memory), other files.         *)
(***************************************************************************)
EXTENDS Naturals, FiniteSets, FiniteSetsExt

CONSTANTS
  NR_TASKS,   \* slots of task[]; slot 0 is the idle task and not modelled
  MaxPid,     \* bound: last_pid starts again at 1 after it (in the code 2^31 - 1)
  NR_OPEN,    \* descriptors of a process
  NR_FILE,    \* slots of file_table
  NPipe,      \* inodes that can be used for pipes
  PAGE_SIZE,  \* bytes of a pipe; one is never used
  MaxCount,   \* bound: bytes of one read or write
  Scenarios   \* bounds: how often each system call may be made in a behaviour

ASSUME ProcessAssumption ==
  /\ NR_TASKS \in Nat \ {0, 1} /\ MaxPid \in Nat /\ MaxPid >= NR_TASKS
  /\ NR_OPEN \in Nat /\ NR_FILE \in Nat /\ NPipe \in Nat
  /\ PAGE_SIZE \in Nat \ {0, 1} /\ MaxCount \in Nat
  /\ Scenarios \subseteq [{"fork", "wait", "kill", "mask", "pipe", "close", "dup", "rw"} -> Nat]

Slot == 1 .. NR_TASKS - 1
Init1 == 1                       \* task[1], init
Fd == 0 .. NR_OPEN - 1
File == 1 .. NR_FILE
Pipe == 1 .. NPipe
Pos == 0 .. PAGE_SIZE - 1
Number == 0 .. 2 * PAGE_SIZE - 1 \* the bytes of a pipe, numbered in the order written

Signal == {"SIGKILL", "SIGPIPE", "SIGCHLD"}

VARIABLES
  task,      \* task[], by slot
  last_pid,
  file,      \* file_table
  pipe,      \* the inodes used for pipes
  busy,      \* the task that is in the kernel, 0 if none
  calls      \* the system calls that are left

vars == <<task, last_pid, file, pipe, busy, calls>>

NULL == 0

\* A free slot has st = "none".  pc is where the task is: "user", "waitpid",
\* "read" and "write" (at the head of the loop), "rsleep" and "wsleep" (in
\* sleep_on), "copy" (write_pipe has moved the head and not yet stored the
\* bytes), "rcopy" (read_pipe has moved the tail and not yet taken them), "exit"
\* (do_exit has closed the files), "dead" (in the last schedule() of do_exit).
\* tmp is the local of sleep_on; arg the pid or the pipe, n the bytes to go, at
\* the position, chars the bytes and num the first number of a copy.
NoTask == [st |-> "none", pc |-> "user", pid |-> 0, father |-> 0, sig |-> {}, blocked |-> {},
           filp |-> [d \in Fd |-> NULL], tmp |-> NULL, arg |-> 0, n |-> 0,
           at |-> 0, chars |-> 0, num |-> 0]
NoFile == [count |-> 0, ino |-> NULL, mode |-> "r"]

\* wait is i_wait.  bytes, wnum and rnum are what was written, the number of
\* the next byte and of the next byte to be read; torn and wrong are history
\* variables: a piece was claimed, by moving the tail or the head over it, that
\* a task on the other side had still to copy; a byte other than the next one
\* was read although none was torn.
NoPipe == [count |-> 0, wait |-> NULL, head |-> 0, tail |-> 0,
           bytes |-> [i \in Pos |-> 0], wnum |-> 0, rnum |-> 0, torn |-> FALSE, wrong |-> FALSE]

Status == {"none", "run", "int", "unint", "zombie"}
Place == {"user", "waitpid", "read", "write", "rsleep", "wsleep", "copy", "rcopy", "exit", "dead"}
OnPipe == {"read", "write", "rsleep", "wsleep", "copy", "rcopy"}

Tasks ==
  [st : Status, pc : Place, pid : 0 .. MaxPid, father : 0 .. MaxPid, sig : SUBSET Signal,
   blocked : SUBSET Signal, filp : [Fd -> {NULL} \cup File], tmp : {NULL} \cup Slot,
   arg : Nat, n : 0 .. MaxCount, at : Pos, chars : 0 .. PAGE_SIZE, num : Number]
Files == [count : Nat, ino : {NULL} \cup Pipe, mode : {"r", "w"}]
Pipes ==
  [count : Nat, wait : {NULL} \cup Slot, head : Pos, tail : Pos, bytes : [Pos -> Number],
   wnum : Number, rnum : Number, torn : BOOLEAN, wrong : BOOLEAN]

TypeOK ==
  /\ task \in [Slot -> Tasks] /\ file \in [File -> Files] /\ pipe \in [Pipe -> Pipes]
  /\ last_pid \in 1 .. MaxPid /\ busy \in {NULL} \cup Slot

Init ==
  /\ task = [s \in Slot |-> IF s = Init1 THEN [NoTask EXCEPT !.st = "run", !.pid = 1] ELSE NoTask]
  /\ last_pid = 1
  /\ file = [f \in File |-> NoFile]
  /\ pipe = [i \in Pipe |-> NoPipe]
  /\ busy = NULL
  /\ calls \in Scenarios

-----------------------------------------------------------------------------
(* Scheduling and wait queues.                                             *)

Used(s) == task[s].st # "none"

\* Task s may take its next step at pc.
At(s, pc) == task[s].st = "run" /\ task[s].pc = pc /\ busy \in {NULL, s}

\* Task s, in user mode, makes a system call.
Call(s, name) == At(s, "user") /\ calls[name] > 0 /\ calls' = [calls EXCEPT ![name] = @ - 1]

\* (**p).state = 0.  The page of a task that is gone is written to as well.
Wake(t, p) == IF p = NULL \/ t[p].st = "none" THEN t ELSE [t EXCEPT ![p].st = "run"]

wake_up(t, i) == Wake(t, pipe[i].wait)

\* The return to user mode.
Return(t, s) == [t EXCEPT ![s] = [@ EXCEPT !.pc = "user", !.tmp = NULL, !.arg = 0, !.n = 0,
                                           !.at = 0, !.chars = 0, !.num = 0]]

\* sleep_on(&inode->i_wait), up to schedule() ...
sleep_on(t, s, i, pc) ==
  /\ task' = [t EXCEPT ![s] = [@ EXCEPT !.st = "unint", !.pc = pc, !.tmp = pipe[i].wait]]
  /\ pipe' = [pipe EXCEPT ![i].wait = s]
  /\ busy' = NULL

\* ... and after it.
SleepEnd(s, pc, back) ==
  /\ At(s, pc)
  /\ task' = [Wake(task, task[s].tmp) EXCEPT ![s].pc = back, ![s].tmp = NULL]
  /\ busy' = s
  /\ UNCHANGED <<last_pid, file, pipe, calls>>

\* schedule() makes an interruptible task that has a signal runnable.
Signalled(s) ==
  /\ task[s].st = "int" /\ task[s].sig \ task[s].blocked # {}
  /\ task' = [task EXCEPT ![s].st = "run"]
  /\ UNCHANGED <<last_pid, file, pipe, busy, calls>>

-----------------------------------------------------------------------------
(* fork.                                                                   *)

Pids == {task[s].pid : s \in {x \in Slot : Used(x)}}

\* find_empty_process: the next pid that nobody has, from last_pid on.
NextPid ==
  LET after(k) == ((last_pid + k - 1) % MaxPid) + 1
  IN after(Min({k \in 1 .. MaxPid : after(k) \notin Pids}))

\* Mutant: two descriptors of one file count once.
RefsOnce(r, f) == IF \E d \in Fd : r.filp[d] = f THEN 1 ELSE 0

\* f->f_count++ for each descriptor of r that is f.
Refs(r, f) == Cardinality({d \in Fd : r.filp[d] = f})

\* copy_process; without a slot, a page for the task or for its page tables it
\* fails, but last_pid has moved.
sys_fork(s) ==
  LET free == {x \in Slot : ~Used(x)}
      child == [NoTask EXCEPT !.st = "run", !.pid = NextPid, !.father = task[s].pid,
                              !.blocked = task[s].blocked, !.filp = task[s].filp]
  IN /\ Call(s, "fork")
     /\ last_pid' = NextPid
     /\ \/ /\ free # {}
           /\ task' = [task EXCEPT ![Min(free)] = child]
           /\ file' = [f \in File |-> [file[f] EXCEPT !.count = @ + Refs(task[s], f)]]
        \/ UNCHANGED <<task, file>>
     /\ UNCHANGED <<pipe, busy>>

-----------------------------------------------------------------------------
(* Closing.                                                                *)

\* sys_close of the descriptors ds of task s: the files nobody refers to any
\* more give back the inode (iput), which wakes i_wait first.
Close(t, s, ds) ==
  LET left(f) == file[f].count - Cardinality({d \in ds : task[s].filp[d] = f})
      gone == {f \in File : file[f].count > 0 /\ left(f) = 0}
      ends(i) == Cardinality({f \in gone : file[f].ino = i})
      cut == {i \in Pipe : ends(i) > 0}
      woken == {pipe[i].wait : i \in cut} \ {NULL}
  IN /\ file' = [f \in File |-> IF f \in gone THEN NoFile ELSE [file[f] EXCEPT !.count = left(f)]]
     /\ pipe' = [i \in Pipe |->
          IF i \in cut /\ pipe[i].count = ends(i) THEN NoPipe
          ELSE [pipe[i] EXCEPT !.count = @ - ends(i)]]
     /\ task' = [x \in Slot |->
          LET r == IF x \in woken /\ t[x].st # "none" THEN [t[x] EXCEPT !.st = "run"] ELSE t[x]
          IN IF x = s THEN [r EXCEPT !.filp = [d \in Fd |-> IF d \in ds THEN NULL ELSE @[d]]] ELSE r]

Open(s, d) == task[s].filp[d] # NULL

sys_close(s, d) ==
  /\ Call(s, "close") /\ Open(s, d)
  /\ Close(task, s, {d})
  /\ UNCHANGED <<last_pid, busy>>

-----------------------------------------------------------------------------
(* exit and waitpid.                                                       *)

\* Mutants: the children keep their father; the zombies among the children are
\* not told to init.
ReparentNone(t, s) == t
ReparentQuiet(t, s) ==
  [x \in Slot |-> IF t[x].st # "none" /\ t[x].father = t[s].pid THEN [t[x] EXCEPT !.father = 1] ELSE t[x]]

\* The children of s go to init, which hears of those that are zombies.
Reparent(t, s) ==
  LET mine == {x \in Slot : t[x].st # "none" /\ t[x].father = t[s].pid}
      dead == \E x \in mine : t[x].st = "zombie"
  IN [x \in Slot |->
        LET r == IF x \in mine THEN [t[x] EXCEPT !.father = 1] ELSE t[x]
        IN IF x = Init1 /\ dead THEN [r EXCEPT !.sig = @ \cup {"SIGCHLD"}] ELSE r]

\* do_exit up to the iput of the directories and the executable, which may
\* sleep.
do_exit(t, s) ==
  /\ Close([Reparent(t, s) EXCEPT ![s].pc = "exit"], s, Fd)
  /\ busy' = NULL
  /\ UNCHANGED <<last_pid, calls>>

\* Init does not exit.
sys_exit(s) == At(s, "user") /\ s # Init1 /\ do_exit(task, s)

Found(pid) == {x \in Slot : Used(x) /\ task[x].pid = pid}

\* The rest of do_exit: TASK_ZOMBIE and tell_father; a task without a father
\* releases itself.
BecomeZombie(s) ==
  /\ At(s, "exit")
  /\ LET fathers == Found(task[s].father)
         z == [task EXCEPT ![s] = [@ EXCEPT !.st = "zombie", !.pc = "dead"]]
     IN task' = IF fathers = {} THEN [task EXCEPT ![s] = NoTask]
                ELSE [z EXCEPT ![Min(fathers)].sig = @ \cup {"SIGCHLD"}]
  /\ busy' = NULL
  /\ UNCHANGED <<last_pid, file, pipe, calls>>

\* The children sys_waitpid looks at; pid = 0 stands for -1, any child.
Children(s, pid) ==
  {x \in Slot \ {s} : Used(x) /\ task[x].father = task[s].pid /\ pid \in {0, task[x].pid}}

\* From the label repeat: the zombie in the highest slot is released (release
\* calls schedule(), so the father is in user mode soon after); otherwise the
\* father sleeps, unless it has no children or does not want to.
Scan(s, pid, t) ==
  LET kids == Children(s, pid)
      dead == {x \in kids : task[x].st = "zombie"}
  IN CASE dead # {} -> task' = [Return(t, s) EXCEPT ![Max(dead)] = NoTask]
       [] dead = {} /\ kids # {} ->
            \/ task' = [t EXCEPT ![s] = [@ EXCEPT !.st = "int", !.pc = "waitpid", !.arg = pid]]
            \/ task[s].pc = "user" /\ task' = Return(t, s)
       [] OTHER -> task' = Return(t, s)

sys_waitpid(s, pid) ==
  /\ Call(s, "wait") /\ Children(s, pid) # {}
  /\ Scan(s, pid, task)
  /\ UNCHANGED <<last_pid, file, pipe, busy>>

\* schedule() has returned: look again, unless there is another signal.
WaitAgain(s, t) ==
  IF t[s].sig = {} THEN Scan(s, task[s].arg, t) ELSE task' = Return(t, s)

WaitReturn(s) ==
  /\ At(s, "waitpid")
  /\ WaitAgain(s, [task EXCEPT ![s].sig = @ \ {"SIGCHLD"}])
  /\ UNCHANGED <<last_pid, file, pipe, busy, calls>>

-----------------------------------------------------------------------------
(* Signals.                                                                *)

\* sys_kill with SIGKILL; init is spared by those who call it.
sys_kill(s, x) ==
  /\ Call(s, "kill") /\ Used(x) /\ x # Init1
  /\ task' = [task EXCEPT ![x].sig = @ \cup {"SIGKILL"}]
  /\ UNCHANGED <<last_pid, file, pipe, busy>>

sys_ssetmask(s, mask) ==
  /\ Call(s, "mask")
  /\ task' = [task EXCEPT ![s].blocked = mask \ {"SIGKILL"}]
  /\ UNCHANGED <<last_pid, file, pipe, busy>>

\* ret_from_sys_call and do_signal with the default actions: SIGCHLD is
\* dropped, the others (which have lower numbers and come first) kill.
do_signal(s) ==
  LET due == task[s].sig \ task[s].blocked
  IN /\ At(s, "user") /\ due # {}
     /\ IF due = {"SIGCHLD"}
        THEN /\ task' = [task EXCEPT ![s].sig = @ \ {"SIGCHLD"}]
             /\ UNCHANGED <<last_pid, file, pipe, busy, calls>>
        ELSE s # Init1 /\ do_exit(task, s)

-----------------------------------------------------------------------------
(* Descriptors.                                                            *)

FreeFds(s) == {d \in Fd : ~Open(s, d)}

\* sys_pipe: two slots of the file table, two descriptors and an inode, or
\* nothing (the failure of get_pipe_inode for want of a page included).
sys_pipe(s) ==
  LET ff == {f \in File : file[f].count = 0}
      fi == {i \in Pipe : pipe[i].count = 0}
      f0 == Min(ff)  f1 == Min(ff \ {f0})
      d0 == Min(FreeFds(s))  d1 == Min(FreeFds(s) \ {d0})
      i == Min(fi)
  IN /\ Call(s, "pipe")
     /\ Cardinality(ff) >= 2 /\ Cardinality(FreeFds(s)) >= 2 /\ fi # {}
     /\ file' = [file EXCEPT ![f0] = [count |-> 1, ino |-> i, mode |-> "r"],
                             ![f1] = [count |-> 1, ino |-> i, mode |-> "w"]]
     /\ task' = [task EXCEPT ![s].filp[d0] = f0, ![s].filp[d1] = f1]
     /\ pipe' = [pipe EXCEPT ![i] = [NoPipe EXCEPT !.count = 2]]
     /\ UNCHANGED <<last_pid, busy>>

\* dupfd(fd, arg)
dupfd(s, d, arg) ==
  LET free == {x \in FreeFds(s) : x >= arg}
  IN /\ Call(s, "dup") /\ Open(s, d) /\ free # {}
     /\ task' = [task EXCEPT ![s].filp[Min(free)] = task[s].filp[d]]
     /\ file' = [file EXCEPT ![task[s].filp[d]].count = @ + 1]
     /\ UNCHANGED <<last_pid, pipe, busy>>

-----------------------------------------------------------------------------
(* Pipes.                                                                  *)

PIPE_SIZE(i) == (pipe[i].head + PAGE_SIZE - pipe[i].tail) % PAGE_SIZE

\* sys_read and sys_write on a pipe.
Start(s, d, n, mode, pc) ==
  /\ Call(s, "rw") /\ Open(s, d) /\ file[task[s].filp[d]].mode = mode
  /\ task' = [task EXCEPT ![s] = [@ EXCEPT !.pc = pc, !.n = n, !.arg = file[task[s].filp[d]].ino]]
  /\ busy' = s
  /\ UNCHANGED <<last_pid, file, pipe>>

sys_read(s, d, n) == Start(s, d, n, "r", "read")
sys_write(s, d, n) == Start(s, d, n, "w", "write")

\* Mutant: the byte that tells a full pipe from an empty one is used too.
RoomAll(i) == PAGE_SIZE - PIPE_SIZE(i)

\* (PAGE_SIZE-1)-PIPE_SIZE
Room(i) == PAGE_SIZE - 1 - PIPE_SIZE(i)

\* Mutant: a pipe one of whose ends is closed is taken for one in use.
BothEndsAlways(i) == TRUE

\* inode->i_count == 2: there is a reader and a writer.
BothEnds(i) == pipe[i].count = 2

\* wake_up and the return of n bytes or fewer.
Done(t, s) == task' = Return(t, s) /\ busy' = NULL

Ring(k) == k % PAGE_SIZE
Wrap(k) == k % (2 * PAGE_SIZE)

\* The positions of a piece; it never goes past the end of the page.
Piece(at, chars) == at .. at + chars - 1

\* A task has moved the head (pc = "copy") or the tail ("rcopy") of pipe i over
\* position p, but not made its copy.
Pending(i, p, pc) ==
  \E x \in Slot : /\ task[x].pc = pc /\ task[x].arg = i
                  /\ p \in Piece(task[x].at, task[x].chars)

\* read_pipe and write_pipe claim a piece: task s will copy chars bytes from
\* position at on, of which the first has the number num.
Claim(s, pc, at, chars, num) ==
  /\ task' = [task EXCEPT ![s] = [@ EXCEPT !.pc = pc, !.n = task[s].n - chars,
                                           !.at = at, !.chars = chars, !.num = num]]
  /\ busy' = s

\* read_pipe, from the head of the outer loop: empty, or the tail moves over a
\* piece.
read_pipe(s) ==
  LET i == task[s].arg
      size == PIPE_SIZE(i)
      chars == Min({PAGE_SIZE - pipe[i].tail, task[s].n, size})
      torn == \E p \in Piece(pipe[i].tail, chars) : Pending(i, p, "copy")
      t == wake_up(task, i)
  IN /\ At(s, "read") /\ UNCHANGED <<last_pid, file, calls>>
     /\ CASE size = 0 /\ BothEnds(i) -> sleep_on(t, s, i, "rsleep")
          [] size = 0 /\ ~BothEnds(i) -> Done(t, s) /\ UNCHANGED pipe
          [] OTHER ->
               /\ Claim(s, "rcopy", pipe[i].tail, chars, pipe[i].rnum)
               /\ pipe' = [pipe EXCEPT ![i] =
                    [@ EXCEPT !.tail = Ring(pipe[i].tail + chars), !.rnum = Wrap(pipe[i].rnum + chars),
                              !.torn = pipe[i].torn \/ torn]]

\* write_pipe: full, or the head moves over a piece.
write_pipe(s) ==
  LET i == task[s].arg
      chars == Min({PAGE_SIZE - pipe[i].head, task[s].n, Room(i)})
      torn == \E p \in Piece(pipe[i].head, chars) : Pending(i, p, "rcopy")
      t == wake_up(task, i)
  IN /\ At(s, "write") /\ UNCHANGED <<last_pid, file, calls>>
     /\ CASE Room(i) = 0 /\ BothEnds(i) -> sleep_on(t, s, i, "wsleep")
          [] Room(i) = 0 /\ ~BothEnds(i) ->
               /\ Done([t EXCEPT ![s].sig = @ \cup {"SIGPIPE"}], s)
               /\ UNCHANGED pipe
          [] OTHER ->
               /\ Claim(s, "copy", pipe[i].head, chars, pipe[i].wnum)
               /\ pipe' = [pipe EXCEPT ![i] =
                    [@ EXCEPT !.head = Ring(pipe[i].head + chars), !.wnum = Wrap(pipe[i].wnum + chars),
                              !.torn = pipe[i].torn \/ torn]]

\* get_fs_byte or put_fs_byte faults: the task sleeps until the page is there.
CopyFault(s) ==
  /\ At(s, "copy") \/ At(s, "rcopy")
  /\ busy = s /\ busy' = NULL
  /\ UNCHANGED <<task, last_pid, file, pipe, calls>>

\* The copy is made: the call is done, or the loop goes on at back.
Copied(s, back) ==
  /\ IF task[s].n = 0 THEN Done(wake_up(task, task[s].arg), s)
     ELSE /\ task' = [task EXCEPT ![s] = [@ EXCEPT !.pc = back, !.at = 0, !.chars = 0, !.num = 0]]
          /\ busy' = s
  /\ UNCHANGED <<last_pid, file, calls>>

\* The bytes of write_pipe ...
Copy(s) ==
  LET r == task[s]
  IN /\ At(s, "copy") /\ Copied(s, "write")
     /\ pipe' = [pipe EXCEPT ![r.arg].bytes =
          [p \in Pos |-> IF p \in Piece(r.at, r.chars) THEN Wrap(r.num + p - r.at) ELSE @[p]]]

\* ... and of read_pipe.
CopyOut(s) ==
  LET r == task[s]
      wrong == \E p \in Piece(r.at, r.chars) : pipe[r.arg].bytes[p] # Wrap(r.num + p - r.at)
  IN /\ At(s, "rcopy") /\ Copied(s, "read")
     /\ pipe' = [pipe EXCEPT ![r.arg].wrong = @ \/ (wrong /\ ~pipe[r.arg].torn)]

-----------------------------------------------------------------------------
Next ==
  \E s \in Slot :
    \/ sys_fork(s) \/ sys_exit(s) \/ BecomeZombie(s)
    \/ \E pid \in 0 .. MaxPid : sys_waitpid(s, pid)
    \/ WaitReturn(s) \/ Signalled(s) \/ do_signal(s)
    \/ \E x \in Slot : sys_kill(s, x)
    \/ \E mask \in {{}, {"SIGCHLD"}} : sys_ssetmask(s, mask)
    \/ sys_pipe(s)
    \/ \E d \in Fd : sys_close(s, d) \/ \E arg \in Fd : dupfd(s, d, arg)
    \/ \E d \in Fd, n \in 1 .. MaxCount : sys_read(s, d, n) \/ sys_write(s, d, n)
    \/ read_pipe(s) \/ write_pipe(s) \/ CopyFault(s) \/ Copy(s) \/ CopyOut(s)
    \/ SleepEnd(s, "rsleep", "read") \/ SleepEnd(s, "wsleep", "write")

Spec == Init /\ [][Next]_vars

-----------------------------------------------------------------------------
(* Properties.                                                             *)

\* Every task but init has a father that is in the table and not on its way
\* out, and no two tasks have the same pid although pids are used again: the
\* exit of a task never ends in "BAD BAD - no father found", where it would
\* free the stack it runs on.
FatherFound ==
  \A s \in Slot : Used(s) =>
    /\ Cardinality(Found(task[s].pid)) = 1
    /\ s # Init1 => \E f \in Found(task[s].father) : task[f].pc \notin {"exit", "dead"}

\* A father that sleeps in waitpid while a child it waits for is a zombie has
\* SIGCHLD: the exit of a child between the scan and the sleep, of a child
\* that changes its father, or of several at once is never missed.
WaiterTold ==
  \A s \in Slot :
    /\ task[s].st = "int" /\ task[s].pc = "waitpid"
    /\ \E x \in Children(s, task[s].arg) : task[x].st = "zombie"
    => "SIGCHLD" \in task[s].sig

\* f_count is the number of descriptors of all processes that refer to the
\* file, and i_count of a pipe the number of its ends that are open: the end
\* of file, SIGPIPE and the release of the page depend on it.
FileCounts ==
  /\ \A f \in File :
       file[f].count = Cardinality({x \in Slot \X Fd : task[x[1]].filp[x[2]] = f})
  /\ \A i \in Pipe :
       pipe[i].count = Cardinality({f \in File : file[f].count > 0 /\ file[f].ino = i})

\* What is read from a pipe is what was written, in order, over the end of
\* the page and with several readers and writers, although tail and head move
\* before the bytes do; unless a task had a page fault in its copy and the
\* other side claimed the same bytes meanwhile (a reader bytes that are not
\* stored yet, a writer the room of bytes that are not taken yet).
PipeFifo == \A i \in Pipe : ~pipe[i].wrong

\* In the queue of pipe i; asleep in it; in the loop of read_pipe or write_pipe.
Member(s, i) == task[s].pc \in {"rsleep", "wsleep"} /\ task[s].arg = i
Sleeps(s, i) == task[s].st = "unint" /\ Member(s, i)
Active(s, i) == task[s].st = "run" /\ task[s].pc \in {"read", "write", "copy", "rcopy"} /\ task[s].arg = i

\* What s sleeps for.
Reason(s, i) ==
  pipe[i].count = 2 /\ IF task[s].pc = "rsleep" THEN PIPE_SIZE(i) = 0 ELSE Room(i) = 0

\* The tasks task x will wake, directly or through others, when it goes on:
\* those in every set that has the tmp of x and the tmp of its members.
Below(x) ==
  {y \in Slot : \A S \in SUBSET Slot :
     /\ task[x].tmp \in S \cup {NULL}
     /\ \A z \in S : task[z].tmp \in S \cup {NULL}
     => y \in S}

\* Whoever sleeps on a pipe has a reason to: it is empty for a reader, full for
\* a writer, and the other end is open; or somebody is under way who will wake
\* it, though readers and writers share i_wait and its pointer may be stale.
PipeSleeper ==
  \A s \in Slot, i \in Pipe : Sleeps(s, i) =>
    \/ Reason(s, i)
    \/ \E x \in Slot : Active(x, i)
    \/ \E x \in Slot : Member(x, i) /\ task[x].st = "run" /\ s \in Below(x)

-----------------------------------------------------------------------------
(* The inductive invariant behind FatherFound, WaiterTold and FileCounts.  *)

Leaving == {"exit", "dead"}

\* Pids are unique, init is there and stays, every other task has a father
\* that is not on its way out, and whoever may be released has left.
FamilyOK ==
  /\ \A s, x \in Slot : Used(s) /\ Used(x) /\ task[s].pid = task[x].pid => s = x
  /\ Used(Init1) /\ task[Init1].pid = 1 /\ task[Init1].pc \notin Leaving
  /\ \A s \in Slot \ {Init1} : Used(s) =>
       \E f \in Slot : Used(f) /\ task[f].pid = task[s].father /\ task[f].pc \notin Leaving
  /\ \A s \in Slot : task[s].st = "zombie" => task[s].pc = "dead"

\* A slot that is free, or whose task is on its way out, has no open file; an
\* open file is one end of a pipe, and a task inside read or write knows which.
FilesOK ==
  /\ \A s \in Slot : ~Used(s) \/ task[s].pc \in Leaving => \A d \in Fd : ~Open(s, d)
  /\ \A f \in File : file[f].count > 0 => file[f].ino \in Pipe
  /\ \A s \in Slot : task[s].pc \in OnPipe => task[s].arg \in Pipe

Inv == TypeOK /\ FamilyOK /\ WaiterTold /\ FilesOK /\ FileCounts

\* The inductive invariant behind PipeFifo and PipeSleeper.  A task on a pipe
\* has it open, so the pipe is not given to somebody else.
UsersOK ==
  \A s \in Slot : task[s].pc \in OnPipe =>
    /\ task[s].st = "run" \/ (task[s].st = "unint" /\ task[s].pc \in {"rsleep", "wsleep"})
    /\ \E d \in Fd : Open(s, d) /\ file[task[s].filp[d]].ino = task[s].arg

\* The place of the j-th byte that is in pipe i, and its number.
Where(i, j) == Ring(pipe[i].tail + j)
Num(i, j) == Wrap(pipe[i].rnum + j)
InPipe(i) == 0 .. PIPE_SIZE(i) - 1

\* As long as no piece was torn: the bytes in the pipe are the next ones, or
\* will be when the copies that are under way are made; every copy in goes to
\* bytes that are in the pipe, and every copy out finds its bytes, which are in
\* the pipe no more.
Flow(i) ==
  /\ pipe[i].wnum = Num(i, PIPE_SIZE(i))
  /\ ~pipe[i].torn =>
       /\ \A j \in InPipe(i) : Pending(i, Where(i, j), "copy") \/ pipe[i].bytes[Where(i, j)] = Num(i, j)
       /\ \A x \in Slot : task[x].pc = "copy" /\ task[x].arg = i =>
            \A p \in Piece(task[x].at, task[x].chars) :
              \E j \in InPipe(i) : p = Where(i, j) /\ Wrap(task[x].num + p - task[x].at) = Num(i, j)
       /\ \A x \in Slot : task[x].pc = "rcopy" /\ task[x].arg = i =>
            \A p \in Piece(task[x].at, task[x].chars) :
              /\ p \in Pos /\ pipe[i].bytes[p] = Wrap(task[x].num + p - task[x].at)
              /\ \A j \in InPipe(i) : p # Where(i, j)

\* Every set of sleepers without the one i_wait points to has a member that a
\* task outside the set will wake, and that is not asleep at the top.
Chain(i) ==
  \A S \in SUBSET Slot :
    /\ S # {} /\ pipe[i].wait \notin S /\ \A s \in S : Sleeps(s, i)
    => \E y \in Slot \ S :
         Member(y, i) /\ task[y].tmp \in S /\ ~(y = pipe[i].wait /\ Sleeps(y, i))

\* The sleeper at the top has a reason to sleep, or somebody who will wake it.
Top(i) ==
  pipe[i].wait # NULL /\ Sleeps(pipe[i].wait, i) =>
    Reason(pipe[i].wait, i) \/ \E x \in Slot : Active(x, i)

PipesOK == UsersOK /\ PipeFifo /\ \A i \in Pipe : Flow(i) /\ Chain(i) /\ Top(i)

\* do_exit does not return (it is declared volatile, "just to suppress
\* warnings" stands at its return): a zombie stays one until it is released.
ZombieStays ==
  [][\A s \in Slot : task[s].st = "zombie" => task'[s].st \in {"zombie", "none"}]_vars
=============================================================================
