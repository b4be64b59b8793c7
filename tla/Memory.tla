------------------------------- MODULE Memory -------------------------------
(***************************************************************************)
(* Pages, page tables, copy-on-write, demand loading and sharing:          *)
(* mm/memory.c, with the parts of fork, exec, exit and verify_area that    *)
(* call it.                                                                *)
(*                                                                         *)
(* An address stands for one page of a task's 64 Mb, each in a 4 Mb region *)
(* (a page table) of its own.  The kernel is not preempted, so an action   *)
(* is a page fault or a piece of a system call up to the point where other *)
(* tasks may run: do_no_page sleeps while it reads the page, exec and exit *)
(* while they close files, a system call between verify_area and its       *)
(* store, and the timer may come before a user's store that faulted is     *)
(* made again.  A system call stores into one page.  Pages below LOW_MEM,  *)
(* and task 0 that uses them, are left out.                                *)
(***************************************************************************)
EXTENDS Integers, FiniteSets

CONSTANTS
  Task, First,   \* the task slots, and the one in use at the start
  NPages,        \* pages of main memory
  NAddr,         \* pages of an address space ...
  NBacked,       \* ... of which the first are below end_data
  File,          \* executables
  MaxPipes,      \* bound: pipes open
  NULL

\* mem_map[] has a byte for a page, and NR_TASKS is 64.
ASSUME MemoryAssumption ==
  /\ First \in Task /\ NULL \notin Task \cup File
  /\ IsFiniteSet(Task) /\ Cardinality(Task) <= 255
  /\ {NPages, NAddr, NBacked, MaxPipes} \subseteq Nat
  /\ NPages >= 3 /\ NBacked < NAddr

Page == 1 .. NPages
Addr == 1 .. NAddr
Backed == 1 .. NBacked   \* loaded from the executable
Stack == NAddr           \* where exec puts the arguments
Absent == [page |-> 0, rw |-> FALSE, dirty |-> FALSE]
Entry == [page : 0 .. NPages, rw : BOOLEAN, dirty : BOOLEAN]
NoEntry == [a \in Addr |-> Absent]
NoTable == [a \in Addr |-> 0]

VARIABLES
  mem_map,     \* use counts of the pages
  content,     \* of a page: see Contents; kept zero while the page is free
  task,        \* the page of the task_struct, 0 when the slot is empty
  dir,         \* the pages of the page tables, 0 when there is none
  pte,         \* page table entries
  pipes,       \* the pages of the pipes
  executable,
  pc,          \* where the task is
  held,        \* a page only a local variable of the task knows, 0 if none
  at,          \* the address it is about (0: none) ...
  file,        \* ... or the file exec loads
  view,        \* history: what the task must find at an address
  loose,       \* history: <<t, a>> when a copy on write cleared the dirty bit
               \* of the entry and t has not stored to the page since
  raced        \* history: did sharing or a store break a task's view?

vars ==
  <<mem_map, content, task, dir, pte, pipes, executable, pc, held, at, file, view, loose, raced>>

\* A page of a file, zeroes, the arguments of exec, or what a task stored.
Zero == <<"zero", 0>>
Args == <<"args", 0>>
Contents == (File \X Addr) \cup {Zero, Args} \cup (Task \X {0, 1})

\* In a system call that stores: after verify_area; in do_no_page for the page
\* at which the store faults; and on the way back from the fault to the store.
InCall == {"verified", "filling", "faulted"}
Place == InCall \cup {"none", "user", "loading", "exec", "closing", "exiting", "zombie"}

TypeOK ==
  /\ mem_map \in [Page -> 0 .. 255]
  /\ content \in [Page -> Contents]
  /\ task \in [Task -> 0 .. NPages]
  /\ dir \in [Task -> [Addr -> 0 .. NPages]]
  /\ pte \in [Task -> [Addr -> Entry]]
  /\ pipes \subseteq Page
  /\ executable \in [Task -> File \cup {NULL}]
  /\ pc \in [Task -> Place]
  /\ held \in [Task -> 0 .. NPages]
  /\ at \in [Task -> 0 .. NAddr]
  /\ file \in [Task -> File \cup {NULL}]
  /\ view \in [Task -> [Addr -> Contents]]
  /\ loose \subseteq Task \X Backed
  /\ raced \in BOOLEAN

\* Task 1: it has no executable, and a stack page of its own.
Init ==
  /\ task = [t \in Task |-> IF t = First THEN 1 ELSE 0]
  /\ dir = [t \in Task |-> [a \in Addr |-> IF t = First /\ a = Stack THEN 2 ELSE 0]]
  /\ pte = [t \in Task |-> [a \in Addr |->
       IF t = First /\ a = Stack THEN [page |-> 3, rw |-> TRUE, dirty |-> FALSE] ELSE Absent]]
  /\ mem_map = [p \in Page |-> IF p \in 1 .. 3 THEN 1 ELSE 0]
  /\ content = [p \in Page |-> Zero]
  /\ pipes = {}
  /\ executable = [t \in Task |-> NULL]
  /\ pc = [t \in Task |-> IF t = First THEN "user" ELSE "none"]
  /\ held = [t \in Task |-> 0]
  /\ at = [t \in Task |-> 0]
  /\ file = [t \in Task |-> NULL]
  /\ view = [t \in Task |-> [a \in Addr |-> Zero]]
  /\ loose = {}
  /\ raced = FALSE

-----------------------------------------------------------------------------
(* mem_map.                                                                *)

Present(t, a) == pte[t][a] # Absent

\* get_free_page takes the last free page; the n-th call in a row takes the
\* n-th last.  0: there is none.
Free(map) == {p \in Page : map[p] = 0}
NthFree(map, n) ==
  IF Cardinality(Free(map)) < n THEN 0
  ELSE CHOOSE p \in Free(map) : Cardinality({q \in Free(map) : q >= p}) = n
get_free_page(map) == NthFree(map, 1)

Use(map, p) == IF p = 0 THEN map ELSE [map EXCEPT ![p] = @ + 1]

\* free_page; address 0 is ignored.
free_page(map, p) == IF p = 0 THEN map ELSE [map EXCEPT ![p] = @ - 1]

Entries(t, p) == Cardinality({a \in Addr : pte[t][a].page = p})
Tables(t) == {a \in Addr : dir[t][a] # 0}

\* Mutant: the page tables themselves are not freed.
free_page_tables_leak(map, t) == [p \in Page |-> map[p] - Entries(t, p)]

\* The pages of t's page tables, and the page tables.
free_page_tables(map, t) ==
  [p \in Page |-> map[p] - Entries(t, p) - Cardinality({a \in Addr : dir[t][a] = p})]

\* loose without the entries of t, which are freed.
Tight(t) == {x \in loose : x[1] # t}

\* content once mem_map' is known.
Kept(c) == [p \in Page |-> IF mem_map'[p] = 0 THEN Zero ELSE c[p]]

-----------------------------------------------------------------------------
(* exit.                                                                   *)

\* do_exit up to the first sys_close, which may sleep; map is mem_map on entry.
Exit(t, map) ==
  /\ mem_map' = free_page_tables(map, t)
  /\ content' = Kept(content)
  /\ pte' = [pte EXCEPT ![t] = NoEntry]
  /\ dir' = [dir EXCEPT ![t] = NoTable]
  /\ view' = [view EXCEPT ![t] = [a \in Addr |-> Zero]]
  /\ loose' = Tight(t)
  /\ pc' = [pc EXCEPT ![t] = "exiting"]
  /\ held' = [held EXCEPT ![t] = 0]
  /\ at' = [at EXCEPT ![t] = 0]
  /\ UNCHANGED <<task, executable, file, pipes, raced>>

sys_exit(t) == pc[t] = "user" /\ Exit(t, mem_map)

\* The rest of do_exit: files closed, iput(executable).
ExitDone(t) ==
  /\ pc[t] = "exiting"
  /\ executable' = [executable EXCEPT ![t] = NULL]
  /\ pc' = [pc EXCEPT ![t] = "zombie"]
  /\ UNCHANGED <<mem_map, content, task, dir, pte, held, at, file, view, pipes, loose, raced>>

\* release, by the waitpid of the father or of init.
release(t) ==
  /\ pc[t] = "zombie"
  /\ mem_map' = free_page(mem_map, task[t])
  /\ task' = [task EXCEPT ![t] = 0]
  /\ pc' = [pc EXCEPT ![t] = "none"]
  /\ UNCHANGED <<content, dir, pte, executable, held, at, file, view, pipes, loose, raced>>

-----------------------------------------------------------------------------
(* fork.                                                                   *)

\* Mutant: the parent keeps its writable entries.
ProtectNot(e) == e

\* this_page &= ~2, in the parent's page table.
Protect(e) == [e EXCEPT !.rw = FALSE]

\* The page copy_page_tables gets for the new page table of a: the one for the
\* task_struct comes first, the tables follow in the order of the addresses.
NewTable(t, a) == NthFree(mem_map, 1 + Cardinality({b \in Tables(t) : b <= a}))

\* copy_process, with copy_mem and copy_page_tables.
fork(t, c) ==
  /\ pc[t] = "user" /\ pc[c] = "none"
  /\ Cardinality(Free(mem_map)) > Cardinality(Tables(t))
  /\ task' = [task EXCEPT ![c] = get_free_page(mem_map)]
  /\ dir' = [dir EXCEPT ![c] = [a \in Addr |-> IF a \in Tables(t) THEN NewTable(t, a) ELSE 0]]
  /\ mem_map' = [p \in Page |->
       IF p = task'[c] \/ \E a \in Addr : p = dir'[c][a] THEN 1 ELSE mem_map[p] + Entries(t, p)]
  /\ pte' = [pte EXCEPT ![t] = [a \in Addr |-> Protect(pte[t][a])],
                        ![c] = [a \in Addr |-> [pte[t][a] EXCEPT !.rw = FALSE]]]
  /\ executable' = [executable EXCEPT ![c] = executable[t]]
  /\ pc' = [pc EXCEPT ![c] = "user"]
  /\ view' = [view EXCEPT ![c] = view[t]]
  /\ loose' = loose \cup {<<c, a>> : a \in {b \in Backed : <<t, b>> \in loose}}
  /\ UNCHANGED <<content, held, at, file, pipes, raced>>

\* copy_page_tables runs out of memory: copy_mem frees what it copied, and
\* copy_process the task_struct; the parent's entries stay read-only.
ForkFails(t, c) ==
  /\ pc[t] = "user" /\ pc[c] = "none"
  /\ Free(mem_map) # {} /\ Cardinality(Free(mem_map)) <= Cardinality(Tables(t))
  /\ pte' = [pte EXCEPT ![t] = [a \in Addr |->
       IF a \in Tables(t) /\ NewTable(t, a) # 0 THEN Protect(pte[t][a]) ELSE pte[t][a]]]
  /\ UNCHANGED <<mem_map, content, task, dir, executable, pc, held, at, file, view, pipes, loose, raced>>

-----------------------------------------------------------------------------
(* Page faults.                                                            *)

\* The page table of a, and mem_map, once there is one for it.
TableFor(t, a, map) == IF dir[t][a] # 0 THEN dir[t][a] ELSE get_free_page(map)
TableMap(t, a, map) == IF dir[t][a] # 0 THEN map ELSE Use(map, get_free_page(map))

\* Where t goes on after a page fault.
BackTo(t) == IF pc[t] \in InCall THEN "faulted" ELSE "user"

\* put_page of page p with contents c, which the caller got: it takes a page
\* for the page table if there is none, or it fails and the caller frees p and
\* calls oom().  map is mem_map with p in use.
put_page(t, a, p, map, c) ==
  IF TableFor(t, a, map) = 0
  THEN Exit(t, free_page(map, p))
  ELSE /\ dir' = [dir EXCEPT ![t][a] = TableFor(t, a, map)]
       /\ mem_map' = TableMap(t, a, map)
       /\ pte' = [pte EXCEPT ![t][a] = [page |-> p, rw |-> TRUE, dirty |-> FALSE]]
       /\ content' = [content EXCEPT ![p] = c]
       /\ view' = [view EXCEPT ![t][a] = c]
       /\ pc' = [pc EXCEPT ![t] = BackTo(t)]
       /\ held' = [held EXCEPT ![t] = 0]
       /\ at' = [at EXCEPT ![t] = IF BackTo(t) = "faulted" THEN a ELSE 0]
       /\ UNCHANGED <<task, executable, file, pipes, loose, raced>>

\* The task itself touches the page, or a system call stores to it for the
\* task: verify_area leaves an absent page alone.
Faults(t, a) ==
  /\ pc[t] = "user" \/ (pc[t] = "verified" /\ at[t] = a)
  /\ ~Present(t, a)

\* !current->executable || tmp >= current->end_data
Anonymous(t, a) == executable[t] = NULL \/ a \notin Backed

\* get_empty_page: for addresses the executable does not back.
get_empty_page(t, a) ==
  /\ Faults(t, a) /\ Anonymous(t, a)
  /\ LET p == get_free_page(mem_map) IN
     IF p = 0 THEN Exit(t, mem_map) ELSE put_page(t, a, p, Use(mem_map, p), Zero)

\* Mutant: a page that has been written to is shared too.
CleanNot(e) == TRUE

\* "is the page clean and present?"
Clean(e) == ~e.dirty

\* The tasks try_to_share finds the page of a in; the order of the slots is
\* left open.
Sharers(t, a) ==
  {u \in Task \ {t} : executable[u] = executable[t] /\ Present(u, a) /\ Clean(pte[u][a])}

\* Mutant: only the new entry is write-protected.
ShareProtectNot(e) == e

\* *from_page &= ~2
ShareProtect(e) == [e EXCEPT !.rw = FALSE]

\* Mutant: mem_map[phys_addr]++ is left out.
CountNot(map, p) == map

\* mem_map[phys_addr]++
Count(map, p) == Use(map, p)

\* share_page, try_to_share: both entries become read-only.
share_page(t, a) ==
  /\ Faults(t, a) /\ ~Anonymous(t, a)
  /\ \E u \in Sharers(t, a) :
       IF TableFor(t, a, mem_map) = 0
       THEN Exit(t, mem_map)
       ELSE /\ dir' = [dir EXCEPT ![t][a] = TableFor(t, a, mem_map)]
            /\ mem_map' = Count(TableMap(t, a, mem_map), pte[u][a].page)
            /\ pte' = [pte EXCEPT ![u][a] = ShareProtect(@),
                                  ![t][a] = [pte[u][a] EXCEPT !.rw = FALSE]]
            /\ view' = [view EXCEPT ![t][a] = <<executable[t], a>>]
            /\ pc' = [pc EXCEPT ![t] = BackTo(t)]
            /\ raced' = (raced \/ <<u, a>> \in loose \/ pc[u] = "closing")
            /\ UNCHANGED <<content, task, executable, held, at, pipes, file, loose>>

\* Otherwise do_no_page gets a page and sleeps until it is read ...
do_no_page(t, a) ==
  /\ Faults(t, a) /\ ~Anonymous(t, a) /\ Sharers(t, a) = {}
  /\ LET p == get_free_page(mem_map) IN
     IF p = 0
     THEN Exit(t, mem_map)
     ELSE /\ mem_map' = Use(mem_map, p)
          /\ pc' = [pc EXCEPT ![t] = IF pc[t] = "user" THEN "loading" ELSE "filling"]
          /\ held' = [held EXCEPT ![t] = p]
          /\ at' = [at EXCEPT ![t] = a]
          /\ UNCHANGED <<content, task, dir, pte, executable, file, view, pipes, loose, raced>>

\* ... and maps it.
Loaded(t) ==
  /\ pc[t] \in {"loading", "filling"}
  /\ put_page(t, at[t], held[t], mem_map, <<executable[t], at[t]>>)

-----------------------------------------------------------------------------
(* Stores to present pages.                                                *)

\* The task's new bytes, told apart from its last ones.
Bytes(t, a) == IF view[t][a] = <<t, 0>> THEN <<t, 1>> ELSE <<t, 0>>

Unshared(e) == mem_map[e.page] = 1
ReadOnly(t, a) == Present(t, a) /\ ~pte[t][a].rw

Store(t, a) ==
  /\ content' = [content EXCEPT ![pte[t][a].page] = Bytes(t, a)]
  /\ pte' = [pte EXCEPT ![t][a].dirty = TRUE]
  /\ view' = [view EXCEPT ![t][a] = Bytes(t, a)]
  /\ loose' = loose \ {<<t, a>>}
  /\ pc' = [pc EXCEPT ![t] = "user"]
  /\ at' = [at EXCEPT ![t] = 0]
  /\ UNCHANGED <<mem_map, task, dir, executable, held, file, pipes>>

\* A user store through a writable entry; also one that faulted, made again.
Write(t, a) ==
  /\ pc[t] = "user" /\ pte[t][a].rw
  /\ Store(t, a)
  /\ UNCHANGED raced

\* put_fs_byte after verify_area, once the page is there: the processor does
\* not look at the write protection of a page in supervisor mode.
put_fs(t) ==
  /\ pc[t] \in {"verified", "faulted"} /\ Present(t, at[t])
  /\ Store(t, at[t])
  /\ raced' = (raced \/ (ReadOnly(t, at[t]) /\ ~Unshared(pte[t][at[t]])))

\* The call returns without a store: waitpid finds no child, read no data.
CallReturns(t) ==
  /\ pc[t] = "verified"
  /\ pc' = [pc EXCEPT ![t] = "user"]
  /\ at' = [at EXCEPT ![t] = 0]
  /\ UNCHANGED <<mem_map, content, task, dir, pte, executable, held, file, view, pipes, loose, raced>>

\* Mutant: the count of the page that was copied is not taken down.
LeaveOldNot(map, p) == map

\* mem_map[MAP_NR(old_page)]--
LeaveOld(map, p) == [map EXCEPT ![p] = @ - 1]

\* Mutant: copy_page is left out.
CopiedNot(new, old) == content

\* copy_page(old_page, new_page)
Copied(new, old) == [content EXCEPT ![new] = content[old]]

\* un_wp_page: the last user of the page gets it writable, others get a copy,
\* with the dirty bit clear; t goes on at `next'.
un_wp_page(t, a, next) ==
  LET e == pte[t][a]
      p == get_free_page(mem_map) IN
  IF ~Unshared(e) /\ p = 0
  THEN Exit(t, mem_map)
  ELSE /\ IF Unshared(e)
          THEN pte' = [pte EXCEPT ![t][a].rw = TRUE] /\ UNCHANGED <<mem_map, content, loose>>
          ELSE /\ pte' = [pte EXCEPT ![t][a] = [page |-> p, rw |-> TRUE, dirty |-> FALSE]]
               /\ mem_map' = LeaveOld(Use(mem_map, p), e.page)
               /\ content' = Copied(p, e.page)
               /\ loose' = IF e.dirty /\ a \in Backed THEN loose \cup {<<t, a>>} ELSE loose
       /\ pc' = [pc EXCEPT ![t] = next]
       /\ at' = [at EXCEPT ![t] = IF next = "user" THEN 0 ELSE a]
       /\ UNCHANGED <<task, dir, executable, held, file, view, pipes, raced>>

\* do_wp_page: a user store to a read-only page; other tasks may run before
\* the store is made again.
do_wp_page(t, a) ==
  /\ pc[t] = "user" /\ ReadOnly(t, a)
  /\ un_wp_page(t, a, "user")

\* verify_area, write_verify: a read-only page is made writable for the store
\* the system call may make; an absent one is left to the page fault.
verify_area(t, a) ==
  /\ pc[t] = "user"
  /\ IF ReadOnly(t, a)
     THEN un_wp_page(t, a, "verified")
     ELSE /\ pc' = [pc EXCEPT ![t] = "verified"]
          /\ at' = [at EXCEPT ![t] = a]
          /\ UNCHANGED <<mem_map, content, task, dir, pte, executable, held, file, view, pipes, loose, raced>>

-----------------------------------------------------------------------------
(* exec.                                                                   *)

\* do_execve up to "the point of no return": copy_strings gets a page for the
\* arguments, or exec fails.
do_execve(t, f) ==
  /\ pc[t] = "user"
  /\ LET p == get_free_page(mem_map) IN
     /\ p # 0
     /\ mem_map' = Use(mem_map, p)
     /\ content' = [content EXCEPT ![p] = Args]
     /\ held' = [held EXCEPT ![t] = p]
  /\ file' = [file EXCEPT ![t] = f]
  /\ pc' = [pc EXCEPT ![t] = "exec"]
  /\ UNCHANGED <<task, dir, pte, executable, at, view, pipes, loose, raced>>

\* An error after copy_strings: the page is freed.
ExecError(t) ==
  /\ pc[t] = "exec"
  /\ mem_map' = free_page(mem_map, held[t])
  /\ content' = Kept(content)
  /\ held' = [held EXCEPT ![t] = 0]
  /\ file' = [file EXCEPT ![t] = NULL]
  /\ pc' = [pc EXCEPT ![t] = "user"]
  /\ UNCHANGED <<task, dir, pte, executable, at, view, pipes, loose, raced>>

\* current->executable = inode; sys_close may sleep before the pages of the
\* old program are freed.
ExecSwitch(t) ==
  /\ pc[t] = "exec"
  /\ executable' = [executable EXCEPT ![t] = file[t]]
  /\ file' = [file EXCEPT ![t] = NULL]
  /\ pc' = [pc EXCEPT ![t] = "closing"]
  /\ UNCHANGED <<mem_map, content, task, dir, pte, held, at, view, pipes, loose, raced>>

\* free_page_tables, and change_ldt puts the arguments into the new space; the
\* page tables just freed leave a page for the new one.
ExecClosed(t) ==
  /\ pc[t] = "closing"
  /\ LET map == free_page_tables(mem_map, t)
         d == get_free_page(map) IN
     /\ mem_map' = Use(map, d)
     /\ dir' = [dir EXCEPT ![t] = [NoTable EXCEPT ![Stack] = d]]
  /\ content' = Kept(content)
  /\ pte' = [pte EXCEPT ![t] = [NoEntry EXCEPT ![Stack] =
                                  [page |-> held[t], rw |-> TRUE, dirty |-> FALSE]]]
  /\ view' = [view EXCEPT ![t] = [a \in Addr |-> IF a = Stack THEN Args ELSE Zero]]
  /\ loose' = Tight(t)
  /\ held' = [held EXCEPT ![t] = 0]
  /\ pc' = [pc EXCEPT ![t] = "user"]
  /\ UNCHANGED <<task, executable, at, file, pipes, raced>>

-----------------------------------------------------------------------------
(* Pipes, whose buffer is a page.                                          *)

\* get_pipe_inode
get_pipe_inode(t) ==
  /\ pc[t] = "user" /\ Free(mem_map) # {} /\ Cardinality(pipes) < MaxPipes
  /\ mem_map' = Use(mem_map, get_free_page(mem_map))
  /\ pipes' = pipes \cup {get_free_page(mem_map)}
  /\ UNCHANGED <<content, task, dir, pte, executable, pc, held, at, file, view, loose, raced>>

\* iput, of the last end of the pipe: by close, or by the exit of a task.
IputPipe(t, p) ==
  /\ pc[t] \in {"user", "closing", "exiting"} /\ p \in pipes
  /\ mem_map' = free_page(mem_map, p)
  /\ pipes' = pipes \ {p}
  /\ UNCHANGED <<content, task, dir, pte, executable, pc, held, at, file, view, loose, raced>>

-----------------------------------------------------------------------------
Step(t) ==
  \/ sys_exit(t) \/ ExitDone(t) \/ release(t)
  \/ \E c \in Task : fork(t, c) \/ ForkFails(t, c)
  \/ \E a \in Addr : \/ get_empty_page(t, a) \/ share_page(t, a) \/ do_no_page(t, a)
                     \/ Write(t, a) \/ do_wp_page(t, a) \/ verify_area(t, a)
  \/ Loaded(t) \/ put_fs(t) \/ CallReturns(t)
  \/ \E f \in File : do_execve(t, f)
  \/ ExecError(t) \/ ExecSwitch(t) \/ ExecClosed(t)
  \/ get_pipe_inode(t) \/ \E p \in Page : IputPipe(t, p)

\* From the page fault inside a system call back to the store there is no
\* place where another task may run.
Next == \E t \in Task : (\A u \in Task : pc[u] = "faulted" => u = t) /\ Step(t)

Spec == Init /\ [][Next]_vars

-----------------------------------------------------------------------------
(* Properties.                                                             *)

References(p) ==
  Cardinality({x \in Task \X Addr : pte[x[1]][x[2]].page = p})
    + Cardinality({x \in Task \X Addr : dir[x[1]][x[2]] = p})
    + Cardinality({t \in Task : task[t] = p})
    + Cardinality({t \in Task : held[t] = p})
    + (IF p \in pipes THEN 1 ELSE 0)

\* mem_map counts every reference to a page: entries, page tables, task
\* structures, pipes, and the page a sleeping task has in a local variable.  Nothing
\* leaks, on the out-of-memory paths either, and nothing in use is free.
RefCount == \A p \in Page : mem_map[p] = References(p)

\* A page that some task may write is in no other page table: un_wp_page
\* trusts mem_map = 1, and sharing and fork write-protect both sides.
WritableUnshared ==
  \A t \in Task, a \in Addr : pte[t][a].rw => References(pte[t][a].page) = 1

\* The pages a task has present and can look at.
Visible == {x \in Task \X Addr : Present(x[1], x[2]) /\ pc[x[1]] # "closing"}

\* Every task finds at an address what it stored there, or what its
\* executable, exec or its parent put there (the comment on try_to_share has
\* it share a page only "if it is clean"): at the addresses the executable
\* does not back always, and at all of them as long as none of three things
\* has happened: a task shared a page that looked clean because a copy on
\* write had cleared its dirty bit; it shared one of a task that is closing
\* its files in exec and has its old pages under its new executable; or a
\* system call stored into a page that was shared after verify_area had
\* looked at it, or that the fault of this very store had shared.
ViewIntactUnlessRaced ==
  \A x \in Visible :
    x[2] \notin Backed \/ ~raced => content[pte[x[1]][x[2]].page] = view[x[1]][x[2]]

-----------------------------------------------------------------------------
(* The inductive invariant behind these properties, for MemoryProofs.      *)

\* All the places that may name a page, and the page each of them names.
Name ==
  (Task \X Addr \X {"pte", "dir"}) \cup (Task \X {0} \X {"task", "held"}) \cup (Page \X {0} \X {"pipe"})

Ref(n) ==
  IF n[3] = "pte" THEN pte[n[1]][n[2]].page
  ELSE IF n[3] = "dir" THEN dir[n[1]][n[2]]
  ELSE IF n[3] = "task" THEN task[n[1]]
  ELSE IF n[3] = "held" THEN held[n[1]]
  ELSE IF n[1] \in pipes THEN n[1] ELSE 0

ref == [n \in Name |-> Ref(n)]
Writable == {n \in Name : n[3] = "pte" /\ pte[n[1]][n[2]].rw}

\* map counts the places of r that name a page.
Counts(map, r) == \A p \in Page : map[p] = Cardinality({n \in Name : r[n] = p})

\* Only entries for one address share a page, and then none of them may write.
Owned(r, w) ==
  \A n, m \in Name : r[n] # 0 /\ r[n] = r[m] /\ n # m =>
    n[3] = "pte" /\ m[3] = "pte" /\ n[2] = m[2] /\ n \notin w

Types ==
  /\ mem_map \in [Page -> Nat]
  /\ content \in [Page -> Contents]
  /\ task \in [Task -> 0 .. NPages]
  /\ dir \in [Task -> [Addr -> 0 .. NPages]]
  /\ pte \in [Task -> [Addr -> Entry]]
  /\ pipes \subseteq Page
  /\ executable \in [Task -> File \cup {NULL}]
  /\ pc \in [Task -> Place]
  /\ held \in [Task -> 0 .. NPages]
  /\ at \in [Task -> 0 .. NAddr]
  /\ file \in [Task -> File \cup {NULL}]
  /\ view \in [Task -> [Addr -> Contents]]
  /\ loose \subseteq Task \X Backed
  /\ raced \in BOOLEAN

Gone == {"none", "exiting", "zombie"}
Holding == {"loading", "filling", "exec", "closing"}
Busy == {"loading"} \cup InCall

\* What a task has where it is.
PlaceOK ==
  \A t \in Task :
    /\ pc[t] = "none" <=> task[t] = 0
    /\ pc[t] \in Gone => pte[t] = NoEntry /\ dir[t] = NoTable
    /\ pc[t] \in Holding <=> held[t] # 0
    /\ pc[t] \in Busy <=> at[t] # 0
    /\ pc[t] = "exec" => file[t] \in File
    /\ pc[t] \in {"loading", "filling"} => pte[t][at[t]] = Absent /\ executable[t] \in File
    /\ pc[t] = "faulted" => pte[t][at[t]].page # 0
    /\ \A a \in Addr : pte[t][a].page = 0 => pte[t][a] = Absent

\* A system call stores into a writable page where the executable does not
\* back the address, the arguments of exec are in the page it holds, and a
\* page that is clean is the executable's, but for the entries named.
ViewOK ==
  /\ \A t \in Task :
       /\ pc[t] \in {"verified", "faulted"} /\ at[t] \notin Backed
       /\ pte[t][at[t]].page # 0
       => pte[t][at[t]].rw
  /\ \A t \in Task : pc[t] \in {"exec", "closing"} => content[held[t]] = Args
  /\ \A t \in Task, a \in Backed :
       /\ pte[t][a].page # 0 /\ Clean(pte[t][a]) /\ executable[t] \in File
       /\ ~raced /\ <<t, a>> \notin loose /\ pc[t] # "closing"
       => view[t][a] = <<executable[t], a>>

Inv ==
  /\ Types /\ PlaceOK /\ Counts(mem_map, ref) /\ Owned(ref, Writable)
  /\ ViewOK /\ ViewIntactUnlessRaced
=============================================================================
