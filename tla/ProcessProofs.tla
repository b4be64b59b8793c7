--------------------------- MODULE ProcessProofs ---------------------------
(***************************************************************************)
(* The tree of processes, the news of a child's death and the counts of    *)
(* files and pipes stay right, for any sizes of the tables.  Inv of        *)
(* Process is the inductive invariant.  Most actions are calm: they change *)
(* nobody's family or descriptors.  fork, exit, the end of a zombie, close,*)
(* dup and pipe are not, and count the descriptors that come and go.  The  *)
(* second half is about pipes.                                             *)
(***************************************************************************)
EXTENDS Process, SetLemmas

-----------------------------------------------------------------------------
(* The records of a task and what a step may do to them.                   *)

\* What the families see of a step of one task: it stays who it is, in the
\* table or out of it, on its way out or not; it does not become a zombie, nor
\* fall asleep in waitpid, and keeps its SIGCHLD while it sleeps there.
Kin(r, n) ==
  /\ n.pid = r.pid /\ n.father = r.father
  /\ n.st = "none" <=> r.st = "none"
  /\ n.st = "zombie" => r.st = "zombie" /\ n.pc = r.pc
  /\ n.pc \in Leaving <=> r.pc \in Leaving
  /\ n.st = "int" /\ n.pc = "waitpid" =>
       /\ r.st = "int" /\ r.pc = "waitpid" /\ n.arg = r.arg
       /\ "SIGCHLD" \in r.sig => "SIGCHLD" \in n.sig

\* Such a step, when it leaves the descriptors alone.
Calm(r, n) == Kin(r, n) /\ n.filp = r.filp /\ (n.pc \in OnPipe => n.arg \in Pipe)

\* All tasks take such steps from task to t.
Calms(t) == t \in [Slot -> Tasks] /\ \A x \in Slot : Calm(task[x], t[x])

\* Two such steps in a row.
LEMMA CalmTwice ==
  ASSUME NEW a, NEW b, NEW c, Calm(a, b), Calm(b, c)
  PROVE  Calm(a, c)
BY DEF Calm, Kin

\* The record of one task is replaced.
LEMMA CalmPut ==
  ASSUME NEW t, Calms(t), NEW s \in Slot, NEW n \in Tasks, Calm(t[s], n)
  PROVE  Calms([t EXCEPT ![s] = n])
<1>1. Calm(task[s], n)
  BY CalmTwice DEF Calms
<1> QED BY <1>1 DEF Calms

\* A task of the table is made runnable.
LEMMA Woken ==
  ASSUME NEW r \in Tasks, r.st # "none", r.pc \in OnPipe => r.arg \in Pipe
  PROVE  LET n == [r EXCEPT !.st = "run"]
         IN n \in Tasks /\ Calm(r, n) /\ n.st = "run" /\ n.pc = r.pc /\ n.sig = r.sig
              /\ n.arg = r.arg /\ n.n = r.n /\ n.tmp = r.tmp /\ n.at = r.at /\ n.chars = r.chars
              /\ n.num = r.num
BY DEF Tasks, Calm, Kin, Status, Leaving

\* The locals of a system call at the start.
LEMMA Zeros ==
  /\ 0 \in Pos /\ 0 \in Number /\ 0 \in 0 .. MaxCount /\ 0 \in 0 .. PAGE_SIZE /\ 0 \in Nat
  /\ NULL \in {NULL} \cup Slot /\ Pos \subseteq Nat /\ Number \subseteq Nat
BY ProcessAssumption DEF Pos, Number, NULL

\* The return to user mode.
LEMMA Returned ==
  ASSUME NEW r \in Tasks, r.st = "run", r.pc \notin Leaving
  PROVE  LET n == [r EXCEPT !.pc = "user", !.tmp = NULL, !.arg = 0, !.n = 0, !.at = 0,
                            !.chars = 0, !.num = 0]
         IN n \in Tasks /\ Calm(r, n) /\ n.st = "run" /\ n.sig = r.sig
<1> DEFINE n == [r EXCEPT !.pc = "user", !.tmp = NULL, !.arg = 0, !.n = 0, !.at = 0,
                          !.chars = 0, !.num = 0]
<1>1. n \in Tasks
  BY Zeros DEF Tasks, Place
<1>2. /\ n.st = r.st /\ n.pid = r.pid /\ n.father = r.father /\ n.sig = r.sig /\ n.filp = r.filp
      /\ n.pc = "user"
  BY DEF Tasks
<1> QED BY <1>1, <1>2 DEF Calm, Kin, Leaving, OnPipe

-----------------------------------------------------------------------------
(* Steps that change nobody's family or descriptors.                       *)

\* What keeps the families: a task stays who it is, and is on its way out
\* before and after or neither before nor after, or it is released from where
\* it was on its way out.
Kept(r, n) ==
  \/ /\ n.pid = r.pid /\ n.father = r.father
     /\ n.st = "none" <=> r.st = "none"
     /\ n.st = "zombie" => n.pc = "dead"
     /\ n.pc \in Leaving <=> r.pc \in Leaving
  \/ n.st = "none" /\ r.pc \in Leaving

\* Steps of that kind keep the tree of processes.
LEMMA FamilyStep ==
  ASSUME FamilyOK, \A x \in Slot : Kept(task[x], task'[x])
  PROVE  FamilyOK'
<1> USE DEF FamilyOK
<1>0. \A x \in Slot : Used(x)' => Used(x) /\ task'[x].pid = task[x].pid /\ task'[x].father = task[x].father
  BY DEF Used, Kept
<1>1. \A x \in Slot : Used(x) /\ task[x].pc \notin Leaving =>
        Used(x)' /\ task'[x].pid = task[x].pid /\ task'[x].pc \notin Leaving
  BY DEF Used, Kept
<1>2. Init1 \in Slot
  BY ProcessAssumption DEF Init1, Slot
<1>3. (\A s, x \in Slot : Used(s) /\ Used(x) /\ task[s].pid = task[x].pid => s = x)'
  BY <1>0
<1>4. (Used(Init1) /\ task[Init1].pid = 1 /\ task[Init1].pc \notin Leaving)'
  BY <1>1, <1>2
<1>5. (\A s \in Slot \ {Init1} : Used(s) =>
        \E f \in Slot : Used(f) /\ task[f].pid = task[s].father /\ task[f].pc \notin Leaving)'
  BY <1>0, <1>1
<1>6. (\A s \in Slot : task[s].st = "zombie" => task[s].pc = "dead")'
  BY DEF Kept
<1> QED BY <1>3, <1>4, <1>5, <1>6

\* A step of one task that is calm keeps the families.
LEMMA KinStep ==
  ASSUME FamilyOK, WaiterTold, \A x \in Slot : Kin(task[x], task'[x])
  PROVE  FamilyOK' /\ WaiterTold'
<1>0. \A x \in Slot : Used(x)' <=> Used(x)
  BY DEF Used, Kin
<1>1. FamilyOK'
  <2>1. ASSUME NEW x \in Slot PROVE Kept(task[x], task'[x])
    BY DEF Kin, Kept, FamilyOK
  <2> QED BY <2>1, FamilyStep
<1>2. WaiterTold'
  <2> SUFFICES ASSUME NEW s \in Slot, task'[s].st = "int", task'[s].pc = "waitpid",
                      NEW x \in Slot \ {s}, Used(x)', task'[x].father = task'[s].pid,
                      task'[s].arg \in {0, task'[x].pid}, task'[x].st = "zombie"
               PROVE  "SIGCHLD" \in task'[s].sig
    BY DEF WaiterTold, Children
  <2>1. task[s].st = "int" /\ task[s].pc = "waitpid" /\ task[x].st = "zombie"
    BY DEF Kin
  <2>2. x \in Children(s, task[s].arg)
    BY <1>0 DEF Kin, Children
  <2>3. "SIGCHLD" \in task[s].sig
    BY <2>1, <2>2 DEF WaiterTold
  <2> QED BY <2>3 DEF Kin
<1> QED BY <1>1, <1>2

\* A step that leaves the descriptors alone keeps the counts.
LEMMA SameFiles ==
  ASSUME FileCounts, \A x \in Slot : task'[x].filp = task[x].filp, file' = file,
         \A i \in Pipe : pipe'[i].count = pipe[i].count
  PROVE  FileCounts'
<1>1. \A f \in File : {x \in Slot \X Fd : task'[x[1]].filp[x[2]] = f}
                         = {x \in Slot \X Fd : task[x[1]].filp[x[2]] = f}
  OBVIOUS
<1> QED BY <1>1 DEF FileCounts

\* Nor does it open or close anything.
LEMMA SameOpen ==
  ASSUME FilesOK, \A x \in Slot : task'[x].filp = task[x].filp, file' = file,
         \A x \in Slot : ~Used(x)' \/ task'[x].pc \in Leaving => ~Used(x) \/ task[x].pc \in Leaving,
         \A x \in Slot : task'[x].pc \in OnPipe => task'[x].arg \in Pipe
  PROVE  FilesOK'
<1>1. \A x \in Slot, d \in Fd : Open(x, d)' <=> Open(x, d)
  BY DEF Open
<1> QED BY <1>1 DEF FilesOK

\* A step that changes nobody's family or descriptors keeps the invariant.
LEMMA CalmStep ==
  ASSUME Inv, Calms(task'), file' = file, pipe' \in [Pipe -> Pipes],
         \A i \in Pipe : pipe'[i].count = pipe[i].count,
         last_pid' \in 1 .. MaxPid, busy' \in {NULL} \cup Slot
  PROVE  Inv'
<1>1. TypeOK'
  BY DEF TypeOK, Inv, Calms
<1>2. FamilyOK' /\ WaiterTold'
  BY KinStep DEF Inv, Calms, Calm
<1>3. FileCounts'
  BY SameFiles DEF Inv, Calms, Calm
<1>4. FilesOK'
  <2>1. \A x \in Slot : ~Used(x)' \/ task'[x].pc \in Leaving => ~Used(x) \/ task[x].pc \in Leaving
    BY DEF Used, Calms, Calm, Kin
  <2>2. \A x \in Slot : task'[x].filp = task[x].filp /\ (task'[x].pc \in OnPipe => task'[x].arg \in Pipe)
    BY DEF Calms, Calm
  <2> QED BY <2>1, <2>2, SameOpen DEF Inv
<1> QED BY <1>1, <1>2, <1>3, <1>4 DEF Inv

\* Nothing happens.
LEMMA CalmId == Inv => Calms(task)
BY DEF Inv, TypeOK, FilesOK, Calms, Calm, Kin

\* wake_up, through a pointer that may be stale.
LEMMA CalmWake ==
  ASSUME NEW t, Calms(t), NEW p \in {NULL} \cup Slot
  PROVE  /\ Calms(Wake(t, p))
         /\ \A x \in Slot : t[x].st = "run" => Wake(t, p)[x] = t[x]
<1>1. CASE p = NULL \/ t[p].st = "none"
  BY <1>1 DEF Wake
<1>2. CASE ~(p = NULL \/ t[p].st = "none")
  <2> DEFINE n == [t[p] EXCEPT !.st = "run"]
  <2>1. Wake(t, p) = [t EXCEPT ![p] = n] /\ p \in Slot
    BY <1>2 DEF Wake
  <2>2. t[p] \in Tasks /\ t[p].st # "none" /\ (t[p].pc \in OnPipe => t[p].arg \in Pipe)
    BY <1>2, <2>1 DEF Calms, Calm
  <2>3. n \in Tasks /\ Calm(t[p], n)
    BY <2>2, Woken
  <2>4. t[p].st = "run" => n = t[p]
    BY <2>2 DEF Tasks
  <2> HIDE DEF n
  <2> QED BY <2>1, <2>3, <2>4, CalmPut DEF Calms
<1> QED BY <1>1, <1>2

\* A task goes to sleep on a pipe.
LEMMA Sleeps1 ==
  ASSUME NEW r \in Tasks, r.st = "run", r.pc \notin Leaving, r.arg \in Pipe,
         NEW pc \in {"rsleep", "wsleep"}, NEW w \in {NULL} \cup Slot
  PROVE  LET n == [r EXCEPT !.st = "unint", !.pc = pc, !.tmp = w]
         IN n \in Tasks /\ Calm(r, n)
<1> DEFINE n == [r EXCEPT !.st = "unint", !.pc = pc, !.tmp = w]
<1>1. n \in Tasks
  BY DEF Tasks, Place, Status
<1>2. /\ n.st = "unint" /\ n.pid = r.pid /\ n.father = r.father /\ n.filp = r.filp
      /\ n.pc = pc /\ n.arg = r.arg
  BY DEF Tasks
<1> QED BY <1>1, <1>2 DEF Calm, Kin, Leaving, OnPipe

\* A task is back from sleep_on.
LEMMA Resumes ==
  ASSUME NEW r \in Tasks, r.st = "run", r.pc \notin Leaving, r.arg \in Pipe,
         NEW pc \in {"read", "write"}
  PROVE  LET n == [r EXCEPT !.pc = pc, !.tmp = NULL]
         IN n \in Tasks /\ Calm(r, n)
<1> DEFINE n == [r EXCEPT !.pc = pc, !.tmp = NULL]
<1>1. n \in Tasks
  BY DEF Tasks, Place
<1>2. /\ n.st = r.st /\ n.pid = r.pid /\ n.father = r.father /\ n.filp = r.filp
      /\ n.pc = pc /\ n.arg = r.arg
  BY DEF Tasks
<1> QED BY <1>1, <1>2 DEF Calm, Kin, Leaving, OnPipe

\* A task has other signals.
LEMMA Signals1 ==
  ASSUME NEW r \in Tasks, r.pc \in OnPipe => r.arg \in Pipe, NEW g \in SUBSET Signal,
         r.st = "int" /\ r.pc = "waitpid" /\ "SIGCHLD" \in r.sig => "SIGCHLD" \in g
  PROVE  LET n == [r EXCEPT !.sig = g]
         IN n \in Tasks /\ Calm(r, n) /\ n.st = r.st /\ n.pc = r.pc /\ n.sig = g /\ n.arg = r.arg
BY DEF Tasks, Calm, Kin

\* A task blocks other signals.
LEMMA Masks ==
  ASSUME NEW r \in Tasks, r.pc \in OnPipe => r.arg \in Pipe, NEW g \in SUBSET Signal
  PROVE  LET n == [r EXCEPT !.blocked = g] IN n \in Tasks /\ Calm(r, n)
BY DEF Tasks, Calm, Kin

\* A task begins to read or write.
LEMMA Starts ==
  ASSUME NEW r \in Tasks, r.st = "run", r.pc \notin Leaving, NEW i \in Pipe, NEW m \in 0 .. MaxCount,
         NEW pc \in {"read", "write"}
  PROVE  LET n == [r EXCEPT !.pc = pc, !.n = m, !.arg = i] IN n \in Tasks /\ Calm(r, n)
<1> DEFINE n == [r EXCEPT !.pc = pc, !.n = m, !.arg = i]
<1>0. i \in Nat
  BY ProcessAssumption DEF Pipe
<1>1. n \in Tasks
  BY <1>0 DEF Tasks, Place
<1>2. /\ n.st = r.st /\ n.pid = r.pid /\ n.father = r.father /\ n.filp = r.filp
      /\ n.pc = pc /\ n.arg = i
  BY DEF Tasks
<1> QED BY <1>1, <1>2 DEF Calm, Kin, Leaving, OnPipe

\* A task is about to copy a piece, or has done so.
LEMMA Copies ==
  ASSUME NEW r \in Tasks, r.st = "run", r.pc \notin Leaving, r.arg \in Pipe,
         NEW pc \in {"read", "write", "copy", "rcopy"}, NEW m \in 0 .. MaxCount, NEW a \in Pos,
         NEW c \in 0 .. PAGE_SIZE, NEW k \in Number
  PROVE  LET n == [r EXCEPT !.pc = pc, !.n = m, !.at = a, !.chars = c, !.num = k]
         IN n \in Tasks /\ Calm(r, n)
<1> DEFINE n == [r EXCEPT !.pc = pc, !.n = m, !.at = a, !.chars = c, !.num = k]
<1>1. n \in Tasks
  BY DEF Tasks, Place
<1>2. /\ n.st = r.st /\ n.pid = r.pid /\ n.father = r.father /\ n.filp = r.filp
      /\ n.pc = pc /\ n.arg = r.arg
  BY DEF Tasks
<1> QED BY <1>1, <1>2 DEF Calm, Kin, Leaving, OnPipe

-----------------------------------------------------------------------------
(* The actions that are calm.                                              *)

\* What is known of a task that takes a step.
LEMMA AtFacts ==
  ASSUME Inv, NEW s \in Slot
  PROVE  /\ Calms(task) /\ task[s] \in Tasks /\ (task[s].pc \in OnPipe => task[s].arg \in Pipe)
         /\ pipe \in [Pipe -> Pipes] /\ file \in [File -> Files] /\ last_pid \in 1 .. MaxPid
         /\ s \in {NULL} \cup Slot /\ NULL \in {NULL} \cup Slot
         /\ \A i \in Pipe : pipe[i] \in Pipes /\ pipe[i].wait \in {NULL} \cup Slot
         /\ task[s].tmp \in {NULL} \cup Slot
         /\ busy \in {NULL} \cup Slot
<1>1. Calms(task)
  BY CalmId
<1>2. \A i \in Pipe : pipe[i] \in Pipes /\ pipe[i].wait \in {NULL} \cup Slot
  BY DEF Inv, TypeOK, Pipes
<1>3. task[s] \in Tasks /\ task[s].tmp \in {NULL} \cup Slot
  BY DEF Inv, TypeOK, Tasks
<1> QED BY <1>1, <1>2, <1>3 DEF Inv, TypeOK, Calms, Calm

\* The task wakes up in sleep_on and passes the wake-up on.
LEMMA SleepEndInv ==
  ASSUME Inv, NEW s \in Slot, SleepEnd(s, "rsleep", "read") \/ SleepEnd(s, "wsleep", "write")
  PROVE  Inv'
<1> DEFINE w == Wake(task, task[s].tmp)
<1>0. PICK back \in {"read", "write"} :
        /\ task' = [w EXCEPT ![s].pc = back, ![s].tmp = NULL]
        /\ busy' = s /\ UNCHANGED <<last_pid, file, pipe>>
        /\ task[s].st = "run" /\ task[s].pc \in {"rsleep", "wsleep"}
  BY DEF SleepEnd, At
<1>1. Calms(w) /\ w[s] = task[s]
  BY <1>0, AtFacts, CalmWake
<1> HIDE DEF w
<1>2. task' = [w EXCEPT ![s] = [w[s] EXCEPT !.pc = back, !.tmp = NULL]]
  BY <1>0, <1>1 DEF Calms
<1>3. [w[s] EXCEPT !.pc = back, !.tmp = NULL] \in Tasks
      /\ Calm(w[s], [w[s] EXCEPT !.pc = back, !.tmp = NULL])
  BY <1>0, <1>1, AtFacts, Resumes DEF OnPipe, Leaving
<1>4. Calms(task')
  BY <1>1, <1>2, <1>3, CalmPut
<1> QED BY <1>0, <1>4, AtFacts, CalmStep

\* schedule() makes a task runnable that has a signal.
LEMMA SignalledInv ==
  ASSUME Inv, NEW s \in Slot, Signalled(s)
  PROVE  Inv'
<1>1. [task[s] EXCEPT !.st = "run"] \in Tasks /\ Calm(task[s], [task[s] EXCEPT !.st = "run"])
  BY AtFacts, Woken DEF Signalled
<1>2. task' = [task EXCEPT ![s] = [task[s] EXCEPT !.st = "run"]]
  BY DEF Signalled
<1>3. Calms(task')
  BY <1>1, <1>2, AtFacts, CalmPut
<1> QED BY <1>3, AtFacts, CalmStep DEF Signalled

\* sys_kill adds a signal.
LEMMA KillInv ==
  ASSUME Inv, NEW s \in Slot, NEW x \in Slot, sys_kill(s, x)
  PROVE  Inv'
<1> DEFINE g == task[x].sig \cup {"SIGKILL"}
           n == [task[x] EXCEPT !.sig = g]
<1>0. g \in SUBSET Signal
  BY AtFacts DEF Tasks, Signal
<1>1. n \in Tasks /\ Calm(task[x], n)
  BY <1>0, AtFacts, Signals1
<1>2. task' = [task EXCEPT ![x] = n]
  BY DEF sys_kill
<1> HIDE DEF n
<1>3. Calms(task')
  BY <1>1, <1>2, AtFacts, CalmPut
<1> QED BY <1>3, AtFacts, CalmStep DEF sys_kill

\* sys_ssetmask changes what is blocked.
LEMMA MaskInv ==
  ASSUME Inv, NEW s \in Slot, NEW mask \in {{}, {"SIGCHLD"}}, sys_ssetmask(s, mask)
  PROVE  Inv'
<1> DEFINE g == mask \ {"SIGKILL"}
           n == [task[s] EXCEPT !.blocked = g]
<1>0. g \in SUBSET Signal
  BY DEF Signal
<1>1. n \in Tasks /\ Calm(task[s], n)
  BY <1>0, AtFacts, Masks
<1>2. task' = [task EXCEPT ![s] = n]
  BY DEF sys_ssetmask
<1> HIDE DEF n
<1>3. Calms(task')
  BY <1>1, <1>2, AtFacts, CalmPut
<1> QED BY <1>3, AtFacts, CalmStep DEF sys_ssetmask

\* A page fault in the copy.
LEMMA CopyFaultInv ==
  ASSUME Inv, NEW s \in Slot, CopyFault(s)
  PROVE  Inv'
<1>1. Calms(task')
  BY AtFacts DEF CopyFault
<1> QED BY <1>1, AtFacts, CalmStep DEF CopyFault

\* The tables are finite.
LEMMA Finite ==
  /\ IsFiniteSet(Slot) /\ IsFiniteSet(Fd) /\ IsFiniteSet(File) /\ IsFiniteSet(Slot \X Fd)
  /\ Slot \subseteq Nat /\ Fd \subseteq Nat /\ File \subseteq Nat /\ Pipe \subseteq Nat
  /\ Cardinality(Slot) = NR_TASKS - 1
<1>1. NR_TASKS - 1 \in Nat /\ NR_OPEN - 1 \in Int /\ NR_FILE \in Int /\ NR_TASKS \in Int /\ NR_TASKS > 1
  BY ProcessAssumption
<1>2. IsFiniteSet(Slot) /\ Cardinality(Slot) = NR_TASKS - 1
  BY <1>1, FS_Interval DEF Slot
<1>3. IsFiniteSet(Fd) /\ IsFiniteSet(File)
  BY <1>1, FS_Interval DEF Fd, File
<1>4. IsFiniteSet(Slot \X Fd)
  BY <1>2, <1>3, FS_Product
<1> QED BY <1>2, <1>3, <1>4, ProcessAssumption DEF Slot, Fd, File, Pipe

\* A file that a descriptor refers to is open, so it has a pipe.
LEMMA Referred ==
  ASSUME Inv, NEW s \in Slot, NEW d \in Fd, Open(s, d)
  PROVE  /\ task[s].filp[d] \in File /\ file[task[s].filp[d]].count > 0
         /\ file[task[s].filp[d]].ino \in Pipe
<1> DEFINE f == task[s].filp[d]
           refs == {x \in Slot \X Fd : task[x[1]].filp[x[2]] = f}
<1>1. f \in File
  BY DEF Inv, TypeOK, Tasks, Open
<1>2. <<s, d>> \in refs
  OBVIOUS
<1>3. IsFiniteSet(Slot \X Fd)
  BY Finite
<1>6. refs \in SUBSET (Slot \X Fd) /\ refs # {}
  BY <1>2
<1> HIDE DEF refs
<1>7. IsFiniteSet(refs)
  BY <1>3, <1>6, FS_Subset
<1>4. Cardinality(refs) \in Nat /\ Cardinality(refs) # 0
  BY <1>6, <1>7, FS_CardinalityType, FS_EmptySet
<1>5. file[f].count = Cardinality(refs)
  BY <1>1 DEF Inv, FileCounts, refs
<1> QED BY <1>1, <1>4, <1>5 DEF Inv, FilesOK

\* sys_read and sys_write begin.
LEMMA StartInv ==
  ASSUME Inv, NEW s \in Slot, NEW d \in Fd, NEW m \in 1 .. MaxCount,
         sys_read(s, d, m) \/ sys_write(s, d, m)
  PROVE  Inv'
<1>0. PICK pc \in {"read", "write"} :
        /\ At(s, "user") /\ Open(s, d)
        /\ task' = [task EXCEPT ![s] = [task[s] EXCEPT !.pc = pc, !.n = m, !.arg = file[task[s].filp[d]].ino]]
        /\ busy' = s /\ UNCHANGED <<last_pid, file, pipe>>
  BY DEF sys_read, sys_write, Start, Call
<1> DEFINE i == file[task[s].filp[d]].ino
           n == [task[s] EXCEPT !.pc = pc, !.n = m, !.arg = i]
<1>1. i \in Pipe /\ m \in 0 .. MaxCount
  BY <1>0, Referred, ProcessAssumption
<1>2. n \in Tasks /\ Calm(task[s], n)
  BY <1>0, <1>1, AtFacts, Starts DEF At, Leaving
<1>3. task' = [task EXCEPT ![s] = n]
  BY <1>0
<1> HIDE DEF n
<1>4. Calms(task')
  BY <1>2, <1>3, AtFacts, CalmPut
<1> QED BY <1>0, <1>4, AtFacts, CalmStep

-----------------------------------------------------------------------------
(* Pipes.                                                                  *)

\* The numbers of a ring.
LEMMA Rings ==
  /\ \A k \in Nat : Ring(k) \in Pos /\ Wrap(k) \in Number
  /\ \A r \in Pipes : /\ (r.head + PAGE_SIZE - r.tail) % PAGE_SIZE \in 0 .. PAGE_SIZE - 1
                      /\ PAGE_SIZE - r.tail \in Nat /\ PAGE_SIZE - r.head \in Nat
                      /\ r.tail \in Nat /\ r.head \in Nat /\ r.rnum \in Nat /\ r.wnum \in Nat
  /\ PAGE_SIZE \in Nat /\ PAGE_SIZE > 1
<1>0. PAGE_SIZE \in Nat /\ PAGE_SIZE > 1
  BY ProcessAssumption
<1>1. ASSUME NEW k \in Nat PROVE Ring(k) \in Pos /\ Wrap(k) \in Number
  <2>1. k % PAGE_SIZE \in 0 .. PAGE_SIZE - 1
    BY <1>0
  <2>2. 2 * PAGE_SIZE \in Nat \ {0}
    BY <1>0
  <2> DEFINE m == 2 * PAGE_SIZE
  <2> HIDE DEF m
  <2>3. k % m \in 0 .. m - 1
    BY <2>2 DEF m
  <2> QED BY <2>1, <2>3 DEF Ring, Wrap, Pos, Number, m
<1>2. ASSUME NEW r \in Pipes
      PROVE  /\ (r.head + PAGE_SIZE - r.tail) % PAGE_SIZE \in 0 .. PAGE_SIZE - 1
             /\ PAGE_SIZE - r.tail \in Nat /\ PAGE_SIZE - r.head \in Nat
             /\ r.tail \in Nat /\ r.head \in Nat /\ r.rnum \in Nat /\ r.wnum \in Nat
  <2>1. r.head \in Pos /\ r.tail \in Pos /\ r.rnum \in Number /\ r.wnum \in Number
    BY DEF Pipes
  <2>2. r.head + PAGE_SIZE - r.tail \in Nat
    BY <2>1, <1>0 DEF Pos
  <2>3. (r.head + PAGE_SIZE - r.tail) % PAGE_SIZE \in 0 .. PAGE_SIZE - 1
    BY <2>2, <1>0
  <2> QED BY <2>1, <2>3, <1>0 DEF Pos, Number
<1> QED BY <1>0, <1>1, <1>2

\* The least of three numbers.
LEMMA Least ==
  ASSUME NEW a \in Nat, NEW b \in Nat, NEW c \in Nat
  PROVE  Min({a, b, c}) \in Nat /\ Min({a, b, c}) <= a /\ Min({a, b, c}) <= b /\ Min({a, b, c}) <= c
<1>1. {a, b, c} \in SUBSET Nat /\ {a, b, c} # {}
  OBVIOUS
<1> DEFINE S == {a, b, c}
<1> HIDE DEF S
<1>2. Min(S) \in S /\ \A y \in S : Min(S) <= y
  BY <1>1, MinNat DEF S
<1> QED BY <1>2 DEF S

\* Another task is the head of a pipe's wait queue.
LEMMA PipeWaits ==
  ASSUME NEW r \in Pipes, NEW s \in {NULL} \cup Slot
  PROVE  [r EXCEPT !.wait = s] \in Pipes /\ [r EXCEPT !.wait = s].count = r.count
BY DEF Pipes

\* Bytes are taken.
LEMMA PipeTaken ==
  ASSUME NEW r \in Pipes, NEW b \in BOOLEAN
  PROVE  [r EXCEPT !.wrong = b] \in Pipes /\ [r EXCEPT !.wrong = b].count = r.count
BY DEF Pipes

\* Bytes are stored.
LEMMA PipeStored ==
  ASSUME NEW r \in Pipes, NEW b \in [Pos -> Number]
  PROVE  [r EXCEPT !.bytes = b] \in Pipes /\ [r EXCEPT !.bytes = b].count = r.count
BY DEF Pipes

\* One pipe is replaced by a record with the same number of ends.
LEMMA OnePipe ==
  ASSUME Inv, NEW i \in Pipe, NEW n \in Pipes, n.count = pipe[i].count, pipe' = [pipe EXCEPT ![i] = n]
  PROVE  pipe' \in [Pipe -> Pipes] /\ \A j \in Pipe : pipe'[j].count = pipe[j].count
BY DEF Inv, TypeOK

\* sleep_on(&inode->i_wait) after wake_up of the same queue.
LEMMA SleepOnInv ==
  ASSUME Inv, NEW s \in Slot, NEW i \in Pipe, NEW pc \in {"rsleep", "wsleep"}, i = task[s].arg,
         task[s].st = "run", task[s].pc \notin Leaving, UNCHANGED <<last_pid, file>>,
         sleep_on(wake_up(task, i), s, i, pc)
  PROVE  Inv'
<1> DEFINE w == Wake(task, pipe[i].wait)
           n == [w[s] EXCEPT !.st = "unint", !.pc = pc, !.tmp = pipe[i].wait]
           q == [pipe[i] EXCEPT !.wait = s]
<1>1. Calms(w) /\ w[s] = task[s] /\ w[s] \in Tasks
  BY AtFacts, CalmWake
<1>2. task' = [w EXCEPT ![s] = n] /\ pipe' = [pipe EXCEPT ![i] = q] /\ busy' = NULL
  BY DEF sleep_on, wake_up
<1>3. q \in Pipes /\ q.count = pipe[i].count
  BY AtFacts, PipeWaits
<1> HIDE DEF w, q
<1>4. n \in Tasks /\ Calm(w[s], n)
  BY <1>1, AtFacts, Sleeps1
<1> HIDE DEF n
<1>5. Calms(task')
  BY <1>1, <1>2, <1>4, CalmPut
<1>6. pipe' \in [Pipe -> Pipes] /\ \A j \in Pipe : pipe'[j].count = pipe[j].count
  BY <1>2, <1>3, OnePipe
<1>7. last_pid' \in 1 .. MaxPid /\ busy' \in {NULL} \cup Slot
  BY <1>2, AtFacts
<1> QED BY <1>5, <1>6, <1>7, CalmStep

\* The end of a read or write: t holds the tasks after wake_up.
LEMMA DoneCalm ==
  ASSUME NEW t, Calms(t), NEW s \in Slot, t[s].st = "run", t[s].pc \notin Leaving
  PROVE  Calms(Return(t, s))
<1> DEFINE n == [t[s] EXCEPT !.pc = "user", !.tmp = NULL, !.arg = 0, !.n = 0, !.at = 0,
                             !.chars = 0, !.num = 0]
<1>1. t[s] \in Tasks
  BY DEF Calms
<1>2. n \in Tasks /\ Calm(t[s], n)
  BY <1>1, Returned
<1>3. Return(t, s) = [t EXCEPT ![s] = n]
  BY DEF Return
<1> HIDE DEF n
<1>4. Calms([t EXCEPT ![s] = n])
  BY <1>2, CalmPut
<1> QED BY <1>3, <1>4

\* read_pipe.
LEMMA ReadInv ==
  ASSUME Inv, NEW s \in Slot, read_pipe(s)
  PROVE  Inv'
<1>0. task[s].st = "run" /\ task[s].pc = "read" /\ UNCHANGED <<last_pid, file>>
  BY DEF read_pipe, At
<1>1. PICK i \in Pipe : i = task[s].arg
  BY <1>0, AtFacts DEF OnPipe
<1>2. task[s].pc \notin Leaving
  BY <1>0 DEF Leaving
<1> DEFINE size == PIPE_SIZE(i)
           chars == Min({PAGE_SIZE - pipe[i].tail, task[s].n, size})
           torn == pipe[i].torn \/ \E p \in Piece(pipe[i].tail, chars) : Pending(i, p, "copy")
           q == [pipe[i] EXCEPT !.tail = Ring(pipe[i].tail + chars), !.rnum = Wrap(pipe[i].rnum + chars),
                                !.torn = torn]
           w == Wake(task, pipe[i].wait)
           m == [task[s] EXCEPT !.pc = "rcopy", !.n = task[s].n - chars, !.at = pipe[i].tail,
                                !.chars = chars, !.num = pipe[i].rnum]
<1>3. Calms(w) /\ w[s] = task[s]
  BY <1>0, AtFacts, CalmWake
<1>4. Calms(Return(w, s))
  BY <1>0, <1>2, <1>3, DoneCalm
<1>5. last_pid' \in 1 .. MaxPid /\ NULL \in {NULL} \cup Slot /\ s \in {NULL} \cup Slot
  BY <1>0, AtFacts
<1>6. \/ sleep_on(wake_up(task, i), s, i, "rsleep")
      \/ task' = Return(w, s) /\ busy' = NULL /\ pipe' = pipe
      \/ /\ pipe' = [pipe EXCEPT ![i] = q]
         /\ task' = [task EXCEPT ![s] = m]
         /\ busy' = s
  BY <1>1 DEF read_pipe, Claim, Done, wake_up
<1>7. CASE sleep_on(wake_up(task, i), s, i, "rsleep")
  BY <1>0, <1>1, <1>2, <1>7, SleepOnInv
<1>8. CASE task' = Return(w, s) /\ busy' = NULL /\ pipe' = pipe
  BY <1>0, <1>4, <1>5, <1>8, AtFacts, CalmStep
<1>9. CASE /\ pipe' = [pipe EXCEPT ![i] = q]
           /\ task' = [task EXCEPT ![s] = m]
           /\ busy' = s
  <2>1. pipe[i] \in Pipes /\ size \in Nat /\ PAGE_SIZE - pipe[i].tail \in Nat /\ pipe[i].tail \in Nat
        /\ pipe[i].rnum \in Nat /\ pipe[i].tail \in Pos /\ pipe[i].rnum \in Number
    <3>1. pipe[i] \in Pipes
      BY AtFacts
    <3>2. pipe[i].tail \in Pos /\ pipe[i].rnum \in Number
      BY <3>1 DEF Pipes
    <3> QED BY <3>1, <3>2, Rings DEF PIPE_SIZE
  <2>2. task[s].n \in 0 .. MaxCount /\ task[s].n \in Nat
    BY AtFacts, ProcessAssumption DEF Tasks
  <2> HIDE DEF size
  <2>3. chars \in Nat /\ chars <= task[s].n /\ chars <= PAGE_SIZE - pipe[i].tail
    BY <2>1, <2>2, Least
  <2> HIDE DEF chars
  <2>4. /\ Ring(pipe[i].tail + chars) \in Pos /\ Wrap(pipe[i].rnum + chars) \in Number
        /\ chars \in 0 .. PAGE_SIZE /\ task[s].n - chars \in 0 .. MaxCount
    <3>1. chars \in 0 .. PAGE_SIZE /\ task[s].n - chars \in 0 .. MaxCount
      BY <2>1, <2>2, <2>3, ProcessAssumption
    <3> QED BY <2>1, <2>3, <3>1, Rings
  <2>5. torn \in BOOLEAN
    OBVIOUS
  <2> HIDE DEF torn
  <2>6. q \in Pipes /\ q.count = pipe[i].count
    <3>1. PICK b \in BOOLEAN : b = torn
      BY <2>5
    <3> DEFINE a == Ring(pipe[i].tail + chars)
               k == Wrap(pipe[i].rnum + chars)
    <3>2. a \in Pos /\ k \in Number /\ pipe[i] \in Pipes
      BY <2>1, <2>4
    <3>3. q = [pipe[i] EXCEPT !.tail = a, !.rnum = k, !.torn = b]
      BY <3>1
    <3> HIDE DEF a, k, q
    <3> QED BY <3>2, <3>3 DEF Pipes
  <2>7. m \in Tasks /\ Calm(task[s], m)
    BY <1>0, <1>1, <1>2, <2>1, <2>4, AtFacts, Copies
  <2> HIDE DEF q, m
  <2>8. pipe' \in [Pipe -> Pipes] /\ \A j \in Pipe : pipe'[j].count = pipe[j].count
    BY <1>9, <2>6, OnePipe
  <2>9. Calms(task')
    BY <1>9, <2>7, AtFacts, CalmPut
  <2> QED BY <1>0, <1>5, <1>9, <2>8, <2>9, CalmStep
<1> QED BY <1>6, <1>7, <1>8, <1>9

\* write_pipe.
LEMMA WriteInv ==
  ASSUME Inv, NEW s \in Slot, write_pipe(s)
  PROVE  Inv'
<1>0. task[s].st = "run" /\ task[s].pc = "write" /\ UNCHANGED <<last_pid, file>>
  BY DEF write_pipe, At
<1>1. PICK i \in Pipe : i = task[s].arg
  BY <1>0, AtFacts DEF OnPipe
<1>2. task[s].pc \notin Leaving
  BY <1>0 DEF Leaving
<1> DEFINE room == Room(i)
           chars == Min({PAGE_SIZE - pipe[i].head, task[s].n, room})
           torn == pipe[i].torn \/ \E p \in Piece(pipe[i].head, chars) : Pending(i, p, "rcopy")
           q == [pipe[i] EXCEPT !.head = Ring(pipe[i].head + chars), !.wnum = Wrap(pipe[i].wnum + chars),
                                !.torn = torn]
           w == Wake(task, pipe[i].wait)
           m == [task[s] EXCEPT !.pc = "copy", !.n = task[s].n - chars, !.at = pipe[i].head,
                                !.chars = chars, !.num = pipe[i].wnum]
<1>3. Calms(w) /\ w[s] = task[s]
  BY <1>0, AtFacts, CalmWake
<1>5. last_pid' \in 1 .. MaxPid /\ NULL \in {NULL} \cup Slot /\ s \in {NULL} \cup Slot
  BY <1>0, AtFacts
<1>6. \/ sleep_on(wake_up(task, i), s, i, "wsleep")
      \/ /\ task' = Return([w EXCEPT ![s].sig = @ \cup {"SIGPIPE"}], s)
         /\ busy' = NULL /\ pipe' = pipe
      \/ /\ pipe' = [pipe EXCEPT ![i] = q]
         /\ task' = [task EXCEPT ![s] = m]
         /\ busy' = s
  BY <1>1 DEF write_pipe, Claim, Done, wake_up
<1>7. CASE sleep_on(wake_up(task, i), s, i, "wsleep")
  BY <1>0, <1>1, <1>2, <1>7, SleepOnInv
<1>8. CASE /\ task' = Return([w EXCEPT ![s].sig = @ \cup {"SIGPIPE"}], s)
           /\ busy' = NULL /\ pipe' = pipe
  <2> HIDE DEF w
  <2> DEFINE g == w[s].sig \cup {"SIGPIPE"}
             n == [w[s] EXCEPT !.sig = g]
             t == [w EXCEPT ![s] = n]
  <2>1. g \in SUBSET Signal /\ w[s] \in Tasks
    BY <1>3, AtFacts DEF Tasks, Signal
  <2> HIDE DEF g
  <2>2. n \in Tasks /\ Calm(w[s], n) /\ n.st = "run" /\ n.pc = "write"
    <3>1. w[s].st = "run" /\ w[s].pc = "write" /\ (w[s].pc \in OnPipe => w[s].arg \in Pipe)
      BY <1>0, <1>3, AtFacts
    <3> QED BY <2>1, <3>1, Signals1
  <2>3. task' = Return(t, s)
    BY <1>8 DEF g
  <2> HIDE DEF n
  <2>4. Calms(t) /\ t[s] = n
    BY <1>3, <2>2, CalmPut DEF Calms
  <2> HIDE DEF t
  <2>5. Calms(task')
    BY <2>2, <2>3, <2>4, DoneCalm DEF Leaving
  <2> QED BY <1>0, <1>5, <1>8, <2>5, AtFacts, CalmStep
<1>9. CASE /\ pipe' = [pipe EXCEPT ![i] = q]
           /\ task' = [task EXCEPT ![s] = m]
           /\ busy' = s
  <2>1. pipe[i] \in Pipes /\ room \in Nat /\ PAGE_SIZE - pipe[i].head \in Nat /\ pipe[i].head \in Nat
        /\ pipe[i].wnum \in Nat /\ pipe[i].head \in Pos /\ pipe[i].wnum \in Number
    <3>1. pipe[i] \in Pipes
      BY AtFacts
    <3>2. pipe[i].head \in Pos /\ pipe[i].wnum \in Number
      BY <3>1 DEF Pipes
    <3> QED BY <3>1, <3>2, Rings DEF PIPE_SIZE, Room
  <2>2. task[s].n \in 0 .. MaxCount /\ task[s].n \in Nat
    BY AtFacts, ProcessAssumption DEF Tasks
  <2> HIDE DEF room
  <2>3. chars \in Nat /\ chars <= task[s].n /\ chars <= PAGE_SIZE - pipe[i].head
    BY <2>1, <2>2, Least
  <2> HIDE DEF chars
  <2>4. /\ Ring(pipe[i].head + chars) \in Pos /\ Wrap(pipe[i].wnum + chars) \in Number
        /\ chars \in 0 .. PAGE_SIZE /\ task[s].n - chars \in 0 .. MaxCount
    <3>1. chars \in 0 .. PAGE_SIZE /\ task[s].n - chars \in 0 .. MaxCount
      BY <2>1, <2>2, <2>3, ProcessAssumption
    <3> QED BY <2>1, <2>3, <3>1, Rings
  <2>5. torn \in BOOLEAN
    OBVIOUS
  <2> HIDE DEF torn
  <2>6. q \in Pipes /\ q.count = pipe[i].count
    <3>1. PICK b \in BOOLEAN : b = torn
      BY <2>5
    <3> DEFINE a == Ring(pipe[i].head + chars)
               k == Wrap(pipe[i].wnum + chars)
    <3>2. a \in Pos /\ k \in Number /\ pipe[i] \in Pipes
      BY <2>1, <2>4
    <3>3. q = [pipe[i] EXCEPT !.head = a, !.wnum = k, !.torn = b]
      BY <3>1
    <3> HIDE DEF a, k, q
    <3> QED BY <3>2, <3>3 DEF Pipes
  <2>7. m \in Tasks /\ Calm(task[s], m)
    BY <1>0, <1>1, <1>2, <2>1, <2>4, AtFacts, Copies
  <2> HIDE DEF q, m
  <2>8. pipe' \in [Pipe -> Pipes] /\ \A j \in Pipe : pipe'[j].count = pipe[j].count
    BY <1>9, <2>6, OnePipe
  <2>9. Calms(task')
    BY <1>9, <2>7, AtFacts, CalmPut
  <2> QED BY <1>0, <1>5, <1>9, <2>8, <2>9, CalmStep
<1> QED BY <1>6, <1>7, <1>8, <1>9

\* A piece is copied: the call returns or goes on.
LEMMA CopiedInv ==
  ASSUME Inv, NEW s \in Slot, task[s].st = "run", task[s].pc \in {"copy", "rcopy"},
         NEW back \in {"read", "write"}, Copied(s, back),
         NEW i \in Pipe, i = task[s].arg, NEW q \in Pipes, q.count = pipe[i].count,
         pipe' = [pipe EXCEPT ![i] = q]
  PROVE  Inv'
<1>0. task[s].pc \notin Leaving /\ UNCHANGED <<last_pid, file>>
  BY DEF Leaving, Copied
<1> DEFINE w == Wake(task, pipe[i].wait)
           m == [task[s] EXCEPT !.pc = back, !.n = task[s].n, !.at = 0, !.chars = 0, !.num = 0]
<1>1. Calms(w) /\ w[s] = task[s]
  BY AtFacts, CalmWake
<1>2. Calms(Return(w, s))
  BY <1>0, <1>1, DoneCalm
<1>3. last_pid' \in 1 .. MaxPid /\ NULL \in {NULL} \cup Slot /\ s \in {NULL} \cup Slot
  BY <1>0, AtFacts
<1>4. pipe' \in [Pipe -> Pipes] /\ \A j \in Pipe : pipe'[j].count = pipe[j].count
  BY OnePipe
<1>5. m \in Tasks /\ Calm(task[s], m)
  <2>1. task[s].n \in 0 .. MaxCount /\ task[s] \in Tasks /\ task[s].arg \in Pipe
    BY AtFacts DEF Tasks
  <2> QED BY <1>0, <2>1, Zeros, Copies
<1>6. [task[s] EXCEPT !.pc = back, !.at = 0, !.chars = 0, !.num = 0] = m
  BY AtFacts DEF Tasks
<1>7. \/ task' = Return(w, s) /\ busy' = NULL
      \/ task' = [task EXCEPT ![s] = m] /\ busy' = s
  BY <1>6 DEF Copied, Done, wake_up
<1> HIDE DEF m
<1>8. Calms([task EXCEPT ![s] = m])
  BY <1>5, AtFacts, CalmPut
<1>9. Calms(task') /\ busy' \in {NULL} \cup Slot
  BY <1>2, <1>3, <1>7, <1>8
<1> QED BY <1>0, <1>3, <1>4, <1>9, CalmStep

\* The piece is stored after the head has moved.
LEMMA CopyInv ==
  ASSUME Inv, NEW s \in Slot, Copy(s)
  PROVE  Inv'
<1>0. task[s].st = "run" /\ task[s].pc = "copy" /\ Copied(s, "write")
  BY DEF Copy, At
<1>1. PICK i \in Pipe : i = task[s].arg
  BY <1>0, AtFacts DEF OnPipe
<1> DEFINE b == [p \in Pos |-> IF p \in Piece(task[s].at, task[s].chars)
                               THEN Wrap(task[s].num + p - task[s].at) ELSE pipe[i].bytes[p]]
           q == [pipe[i] EXCEPT !.bytes = b]
<1>2. b \in [Pos -> Number] /\ pipe[i] \in Pipes
  <2>1. pipe[i] \in Pipes /\ pipe[i].bytes \in [Pos -> Number]
    BY AtFacts DEF Pipes
  <2>2. ASSUME NEW p \in Pos, p \in Piece(task[s].at, task[s].chars)
        PROVE  Wrap(task[s].num + p - task[s].at) \in Number
    <3>1. task[s].num \in Nat /\ task[s].at \in Nat /\ task[s].chars \in Nat /\ p \in Nat
      <4>1. task[s].num \in Number /\ task[s].at \in Pos /\ task[s].chars \in 0 .. PAGE_SIZE
        BY AtFacts DEF Tasks
      <4>2. task[s].chars \in Nat
        BY <4>1, ProcessAssumption
      <4> QED BY <4>1, <4>2, Zeros
    <3>2. p >= task[s].at
      BY <2>2, <3>1 DEF Piece
    <3>3. task[s].num + p - task[s].at \in Nat
      BY <3>1, <3>2
    <3> QED BY <3>3, Rings
  <2> QED BY <2>1, <2>2
<1>3. pipe' = [pipe EXCEPT ![i] = q]
  BY <1>1, AtFacts DEF Copy
<1> HIDE DEF b
<1>4. q \in Pipes /\ q.count = pipe[i].count
  BY <1>2, PipeStored
<1> HIDE DEF q
<1> QED BY <1>0, <1>1, <1>3, <1>4, CopiedInv

\* The piece is taken after the tail has moved.
LEMMA CopyOutInv ==
  ASSUME Inv, NEW s \in Slot, CopyOut(s)
  PROVE  Inv'
<1>0. task[s].st = "run" /\ task[s].pc = "rcopy" /\ Copied(s, "read")
  BY DEF CopyOut, At
<1>1. PICK i \in Pipe : i = task[s].arg
  BY <1>0, AtFacts DEF OnPipe
<1> DEFINE bad == \/ pipe[i].wrong
                  \/ /\ \E p \in Piece(task[s].at, task[s].chars) :
                          pipe[i].bytes[p] # Wrap(task[s].num + p - task[s].at)
                     /\ ~pipe[i].torn
           q == [pipe[i] EXCEPT !.wrong = bad]
<1>2. bad \in BOOLEAN /\ pipe[i] \in Pipes
  BY AtFacts
<1>3. pipe' = [pipe EXCEPT ![i] = q]
  BY <1>1, AtFacts DEF CopyOut
<1> HIDE DEF bad
<1>4. q \in Pipes /\ q.count = pipe[i].count
  BY <1>2, PipeTaken
<1> HIDE DEF q
<1> QED BY <1>0, <1>1, <1>3, <1>4, CopiedInv

-----------------------------------------------------------------------------
(* waitpid.                                                                *)

\* Zombies were zombies before the step, and whoever sleeps in waitpid did so
\* before and keeps its SIGCHLD, or has just seen that no child is a zombie.
LEMMA WaiterStep ==
  ASSUME WaiterTold,
         \A x \in Slot : task'[x].st = "zombie" =>
           task[x].st = "zombie" /\ task'[x].pid = task[x].pid /\ task'[x].father = task[x].father,
         \A y \in Slot : task'[y].st = "int" /\ task'[y].pc = "waitpid" =>
           \/ /\ task[y].st = "int" /\ task[y].pc = "waitpid" /\ task'[y].arg = task[y].arg
              /\ task'[y].pid = task[y].pid /\ ("SIGCHLD" \in task[y].sig => "SIGCHLD" \in task'[y].sig)
           \/ /\ task'[y].pid = task[y].pid
              /\ \A x \in Children(y, task'[y].arg) : task[x].st # "zombie"
  PROVE  WaiterTold'
<1> SUFFICES ASSUME NEW y \in Slot, task'[y].st = "int", task'[y].pc = "waitpid",
                    NEW x \in Slot \ {y}, Used(x)', task'[x].father = task'[y].pid,
                    task'[y].arg \in {0, task'[x].pid}, task'[x].st = "zombie"
             PROVE  "SIGCHLD" \in task'[y].sig
  BY DEF WaiterTold, Children
<1>1. task[x].st = "zombie" /\ Used(x)
  BY DEF Used
<1>2. x \in Children(y, task'[y].arg)
  BY <1>1 DEF Children
<1>3. "SIGCHLD" \in task[y].sig \/ ~(task[y].st = "int" /\ task[y].pc = "waitpid" /\ task'[y].arg = task[y].arg)
  BY <1>1, <1>2 DEF WaiterTold
<1> QED BY <1>1, <1>2, <1>3

\* The record of a task that sleeps in waitpid.
LEMMA WaitSleeps ==
  ASSUME NEW r \in Tasks, NEW p \in Nat
  PROVE  LET n == [r EXCEPT !.st = "int", !.pc = "waitpid", !.arg = p]
         IN n \in Tasks /\ n.pid = r.pid /\ n.father = r.father /\ n.filp = r.filp
            /\ n.st = "int" /\ n.pc = "waitpid" /\ n.arg = p
BY DEF Tasks, Status, Place

\* The record of a free slot.
LEMMA Nobody ==
  /\ NoTask \in Tasks /\ NoTask.st = "none" /\ NoTask.pc = "user" /\ NoTask.father = 0
  /\ NoTask.filp = [d \in Fd |-> NULL]
<1>1. 0 \in 0 .. MaxPid /\ [d \in Fd |-> NULL] \in [Fd -> {NULL} \cup File]
      /\ {} \in SUBSET Signal /\ "none" \in Status /\ "user" \in Place
  BY ProcessAssumption DEF NULL, Status, Place
<1> QED BY <1>1, Zeros DEF NoTask, Tasks

\* The father falls asleep when it sees no zombie.
LEMMA ScanSleep ==
  ASSUME Inv, NEW s \in Slot, task[s].st = "run", task[s].pc \in {"user", "waitpid"},
         NEW p \in Nat, NEW t, Calms(t), \A x \in Slot \ {s} : t[x] = task[x],
         \A x \in Children(s, p) : task[x].st # "zombie",
         task' = [t EXCEPT ![s] = [t[s] EXCEPT !.st = "int", !.pc = "waitpid", !.arg = p]],
         UNCHANGED <<last_pid, file, pipe, busy>>
  PROVE  Inv'
<1> DEFINE n == [t[s] EXCEPT !.st = "int", !.pc = "waitpid", !.arg = p]
<1>1. t \in [Slot -> Tasks] /\ Calm(task[s], t[s])
  BY DEF Calms
<1>2. /\ n \in Tasks /\ n.pid = task[s].pid /\ n.father = task[s].father /\ n.filp = task[s].filp
      /\ n.st = "int" /\ n.pc = "waitpid" /\ n.arg = p
  <2>1. PICK r \in Tasks : r = t[s]
    BY <1>1
  <2>2. /\ n \in Tasks /\ n.pid = t[s].pid /\ n.father = t[s].father /\ n.filp = t[s].filp
        /\ n.st = "int" /\ n.pc = "waitpid" /\ n.arg = p
    <3> DEFINE m == [r EXCEPT !.st = "int", !.pc = "waitpid", !.arg = p]
    <3>1. m \in Tasks /\ m.pid = r.pid /\ m.father = r.father /\ m.filp = r.filp
          /\ m.st = "int" /\ m.pc = "waitpid" /\ m.arg = p
      BY WaitSleeps
    <3> HIDE DEF m
    <3>2. m = n
      BY <2>1 DEF m
    <3> QED BY <2>1, <3>1, <3>2
  <2> HIDE DEF n
  <2> QED BY <1>1, <2>2 DEF Calm, Kin
<1> HIDE DEF n
<1>3. /\ task' \in [Slot -> Tasks] /\ task'[s] = n /\ \A x \in Slot \ {s} : task'[x] = task[x]
  BY <1>1, <1>2 DEF n
<1>4. TypeOK'
  BY <1>3 DEF Inv, TypeOK
<1>5. FamilyOK'
  <2>1. ASSUME NEW x \in Slot PROVE Kept(task[x], task'[x])
    BY <1>2, <1>3 DEF Kept, Leaving, Inv, FamilyOK
  <2> QED BY <2>1, FamilyStep DEF Inv
<1>6. WaiterTold'
  BY <1>2, <1>3, WaiterStep DEF Inv
<1>7. \A x \in Slot : task'[x].filp = task[x].filp
  BY <1>2, <1>3
<1>8. FileCounts'
  BY <1>7, SameFiles DEF Inv
<1>9. FilesOK'
  <2>1. \A x \in Slot : ~Used(x)' \/ task'[x].pc \in Leaving => ~Used(x) \/ task[x].pc \in Leaving
    BY <1>2, <1>3 DEF Used, Leaving
  <2>2. \A x \in Slot : task'[x].pc \in OnPipe => task'[x].arg \in Pipe
    BY <1>2, <1>3 DEF OnPipe, Inv, FilesOK
  <2> QED BY <1>7, <2>1, <2>2, SameOpen DEF Inv
<1> QED BY <1>4, <1>5, <1>6, <1>8, <1>9 DEF Inv

\* The father releases a zombie.
LEMMA ScanRelease ==
  ASSUME Inv, NEW s \in Slot, task[s].st = "run", NEW t, Calms(t), \A x \in Slot \ {s} : t[x] = task[x],
         t[s].st = "run", t[s].pc \notin Leaving,
         NEW z \in Slot \ {s}, task[z].st = "zombie",
         task' = [Return(t, s) EXCEPT ![z] = NoTask],
         UNCHANGED <<last_pid, file, pipe, busy>>
  PROVE  Inv'
<1> DEFINE u == Return(t, s)
<1>1. Calms(u)
  BY DoneCalm
<1>2. \A x \in Slot \ {s} : u[x] = task[x]
  BY DEF Return, Calms
<1>3. u[s].st = "run"
  BY DEF Return, Calms, Tasks
<1> HIDE DEF u
<1>4. task' = [u EXCEPT ![z] = NoTask]
  BY DEF u
<1>5. /\ task' \in [Slot -> Tasks] /\ task'[z] = NoTask /\ task'[s] = u[s]
      /\ \A x \in Slot \ {s, z} : task'[x] = task[x]
  BY <1>1, <1>2, <1>4, Nobody DEF Calms
<1>6. task[z].pc \in Leaving
  BY DEF Inv, FamilyOK, Leaving
<1>7. TypeOK'
  BY <1>5 DEF Inv, TypeOK
<1>8. FamilyOK'
  <2>1. Kept(task[z], task'[z])
    BY <1>5, <1>6, Nobody DEF Kept
  <2>2. Kept(task[s], task'[s])
    BY <1>1, <1>3, <1>5 DEF Kept, Calms, Calm, Kin
  <2>3. \A x \in Slot \ {s, z} : Kept(task[x], task'[x])
    BY <1>5 DEF Kept, Inv, FamilyOK
  <2>4. \A x \in Slot : Kept(task[x], task'[x])
    BY <2>1, <2>2, <2>3
  <2> QED BY <2>4, FamilyStep DEF Inv
<1>9. WaiterTold'
  BY <1>3, <1>5, Nobody, WaiterStep DEF Inv
<1>10. \A x \in Slot : task'[x].filp = task[x].filp
  <2>1. task[z].filp = [d \in Fd |-> NULL]
    BY <1>6 DEF Inv, FilesOK, Open, TypeOK, Tasks
  <2>2. task'[s].filp = task[s].filp
    BY <1>1, <1>5 DEF Calms, Calm
  <2> QED BY <1>5, <2>1, <2>2, Nobody
<1>11. FileCounts'
  BY <1>10, SameFiles DEF Inv
<1>12. FilesOK'
  <2>1. \A x \in Slot : ~Used(x)' \/ task'[x].pc \in Leaving => ~Used(x) \/ task[x].pc \in Leaving
    BY <1>1, <1>5, <1>6, Nobody DEF Used, Calms, Calm, Kin
  <2>2. \A x \in Slot : task'[x].pc \in OnPipe => task'[x].arg \in Pipe
    BY <1>1, <1>5, Nobody DEF OnPipe, Inv, FilesOK, Calms, Calm
  <2> QED BY <1>10, <2>1, <2>2, SameOpen DEF Inv
<1> QED BY <1>7, <1>8, <1>9, <1>11, <1>12 DEF Inv

\* The scan of sys_waitpid, from the label repeat.
LEMMA ScanInv ==
  ASSUME Inv, NEW s \in Slot, task[s].st = "run", task[s].pc \in {"user", "waitpid"},
         NEW p \in Nat, NEW t, Calms(t), \A x \in Slot \ {s} : t[x] = task[x],
         t[s].st = "run", t[s].pc \notin Leaving, Scan(s, p, t),
         UNCHANGED <<last_pid, file, pipe, busy>>
  PROVE  Inv'
<1> DEFINE kids == Children(s, p)
           dead == {x \in kids : task[x].st = "zombie"}
<1>1. dead \in SUBSET Nat /\ \A x \in dead : x <= NR_TASKS
  BY ProcessAssumption DEF Children, Slot
<1>2. dead # {} => Max(dead) \in dead
  BY <1>1, MaxNat, ProcessAssumption
<1>3. \/ dead # {} /\ task' = [Return(t, s) EXCEPT ![Max(dead)] = NoTask]
      \/ dead = {} /\ task' = [t EXCEPT ![s] = [t[s] EXCEPT !.st = "int", !.pc = "waitpid", !.arg = p]]
      \/ task' = Return(t, s)
  BY DEF Scan
<1>4. CASE dead # {} /\ task' = [Return(t, s) EXCEPT ![Max(dead)] = NoTask]
  <2>1. PICK z \in Slot \ {s} : z = Max(dead) /\ task[z].st = "zombie"
    BY <1>2, <1>4 DEF Children
  <2> QED BY <1>4, <2>1, ScanRelease
<1>5. CASE dead = {} /\ task' = [t EXCEPT ![s] = [t[s] EXCEPT !.st = "int", !.pc = "waitpid", !.arg = p]]
  <2>1. \A x \in Children(s, p) : task[x].st # "zombie"
    BY <1>5
  <2> QED BY <1>5, <2>1, ScanSleep
<1>6. CASE task' = Return(t, s)
  <2>1. Calms(task')
    BY <1>6, DoneCalm
  <2> QED BY <2>1, AtFacts, CalmStep
<1> QED BY <1>3, <1>4, <1>5, <1>6

\* sys_waitpid.
LEMMA WaitpidInv ==
  ASSUME Inv, NEW s \in Slot, NEW p \in 0 .. MaxPid, sys_waitpid(s, p)
  PROVE  Inv'
<1>1. p \in Nat /\ task[s].st = "run" /\ task[s].pc = "user" /\ task[s].pc \notin Leaving
  BY ProcessAssumption DEF sys_waitpid, Call, At, Leaving
<1>2. Scan(s, p, task) /\ UNCHANGED <<last_pid, file, pipe, busy>>
  BY DEF sys_waitpid
<1>3. Calms(task)
  BY CalmId
<1> QED BY <1>1, <1>2, <1>3, ScanInv

\* A running task loses SIGCHLD.
LEMMA DropChld ==
  ASSUME Inv, NEW s \in Slot, task[s].st = "run"
  PROVE  LET t == [task EXCEPT ![s].sig = @ \ {"SIGCHLD"}]
         IN /\ Calms(t) /\ \A x \in Slot \ {s} : t[x] = task[x]
            /\ t[s].st = "run" /\ t[s].pc = task[s].pc
<1> DEFINE g == task[s].sig \ {"SIGCHLD"}
           n == [task[s] EXCEPT !.sig = g]
           t == [task EXCEPT ![s] = n]
<1>1. g \in SUBSET Signal
  BY AtFacts DEF Tasks
<1> HIDE DEF g
<1>2. n \in Tasks /\ Calm(task[s], n) /\ n.st = "run" /\ n.pc = task[s].pc
  BY <1>1, AtFacts, Signals1
<1>3. [task EXCEPT ![s].sig = @ \ {"SIGCHLD"}] = t
  BY DEF g
<1> HIDE DEF n
<1>4. Calms(t)
  BY <1>2, AtFacts, CalmPut
<1>5. t[s] = n /\ \A x \in Slot \ {s} : t[x] = task[x]
  BY DEF Inv, TypeOK
<1> HIDE DEF t
<1> QED BY <1>2, <1>3, <1>4, <1>5

\* schedule() in sys_waitpid has returned.
LEMMA WaitReturnInv ==
  ASSUME Inv, NEW s \in Slot, WaitReturn(s)
  PROVE  Inv'
<1>1. /\ task[s].st = "run" /\ task[s].pc = "waitpid" /\ task[s].pc \notin Leaving
      /\ UNCHANGED <<last_pid, file, pipe, busy>>
  BY DEF WaitReturn, At, Leaving
<1>2. PICK t : t = [task EXCEPT ![s].sig = @ \ {"SIGCHLD"}]
  OBVIOUS
<1>3. /\ Calms(t) /\ \A x \in Slot \ {s} : t[x] = task[x]
      /\ t[s].st = "run" /\ t[s].pc = task[s].pc
  BY <1>1, <1>2, DropChld
<1>4. PICK p \in Nat : p = task[s].arg
  BY AtFacts DEF Tasks
<1>5. Scan(s, p, t) \/ task' = Return(t, s)
  BY <1>2, <1>4 DEF WaitReturn, WaitAgain
<1>6. CASE Scan(s, p, t)
  BY <1>1, <1>3, <1>6, ScanInv
<1>7. CASE task' = Return(t, s)
  <2>1. Calms(task')
    BY <1>1, <1>3, <1>7, DoneCalm
  <2> QED BY <1>1, <2>1, AtFacts, CalmStep
<1> QED BY <1>5, <1>6, <1>7

-----------------------------------------------------------------------------
(* The counts of files and pipes.                                          *)

\* The descriptors that refer to a file, and the open ends of a pipe.
Users(f) == {x \in Slot \X Fd : task[x[1]].filp[x[2]] = f}
Ends(i) == {f \in File : file[f].count > 0 /\ file[f].ino = i}

\* What the counts count.
LEMMA Counted ==
  ASSUME Inv
  PROVE  /\ \A f \in File : IsFiniteSet(Users(f)) /\ file[f].count = Cardinality(Users(f)) /\ file[f].count \in Nat
         /\ \A i \in Pipe : IsFiniteSet(Ends(i)) /\ pipe[i].count = Cardinality(Ends(i)) /\ pipe[i].count \in Nat
<1>1. ASSUME NEW f \in File PROVE IsFiniteSet(Users(f)) /\ file[f].count = Cardinality(Users(f))
  <2>1. Users(f) \in SUBSET (Slot \X Fd)
    BY DEF Users
  <2>2. IsFiniteSet(Users(f))
    BY <2>1, Finite, FS_Subset
  <2> QED BY <2>2 DEF Inv, FileCounts, Users
<1>2. ASSUME NEW i \in Pipe PROVE IsFiniteSet(Ends(i)) /\ pipe[i].count = Cardinality(Ends(i))
  <2>1. Ends(i) \in SUBSET File
    BY DEF Ends
  <2>2. IsFiniteSet(Ends(i))
    BY <2>1, Finite, FS_Subset
  <2> QED BY <2>2 DEF Inv, FileCounts, Ends
<1> QED BY <1>1, <1>2, FS_CardinalityType

\* The descriptors of one task that refer to a file.
LEMMA Mine ==
  ASSUME NEW s \in Slot, NEW D \in SUBSET Fd
  PROVE  IsFiniteSet({s} \X D) /\ IsFiniteSet(D) /\ Cardinality({s} \X D) = Cardinality(D)
<1>1. IsFiniteSet(D)
  BY Finite, FS_Subset
<1> DEFINE g == [d \in D |-> <<s, d>>]
           T == {s} \X D
<1>2. g \in [D -> T] /\ (\A x, y \in D : g[x] = g[y] => x = y) /\ (\A z \in T : \E x \in D : g[x] = z)
  OBVIOUS
<1> HIDE DEF g, T
<1>3. IsFiniteSet(T) /\ Cardinality(T) = Cardinality(D)
  BY <1>1, <1>2, SameSize
<1> QED BY <1>1, <1>3 DEF T

-----------------------------------------------------------------------------
(* Closing.                                                                *)

\* What Close does to a task: it may be woken; the one that closes loses the
\* descriptors.
LEMMA CloseTasks ==
  ASSUME Inv, NEW s \in Slot, NEW ds \in SUBSET Fd, NEW t \in [Slot -> Tasks],
         \A x \in Slot : t[x].filp = task[x].filp, Close(t, s, ds)
  PROVE  /\ task' \in [Slot -> Tasks]
         /\ \A x \in Slot :
              /\ task'[x].pid = t[x].pid /\ task'[x].father = t[x].father /\ task'[x].pc = t[x].pc
              /\ task'[x].sig = t[x].sig /\ task'[x].arg = t[x].arg
              /\ task'[x].st = t[x].st \/ (task'[x].st = "run" /\ t[x].st # "none")
         /\ \A x \in Slot \ {s} : task'[x].filp = task[x].filp
         /\ \A d \in Fd : task'[s].filp[d] = IF d \in ds THEN NULL ELSE task[s].filp[d]
<1> DEFINE awake(r) == [r EXCEPT !.st = "run"]
           shut(r) == [r EXCEPT !.filp = [d \in Fd |-> IF d \in ds THEN NULL ELSE r.filp[d]]]
<1>1. PICK wk \in SUBSET Slot :
        task' = [x \in Slot |->
          IF x = s THEN shut(IF x \in wk THEN awake(t[x]) ELSE t[x])
          ELSE IF x \in wk THEN awake(t[x]) ELSE t[x]]
        /\ \A x \in wk : t[x].st # "none"
  <2> DEFINE left(f) == file[f].count - Cardinality({d \in ds : task[s].filp[d] = f})
             gone == {f \in File : file[f].count > 0 /\ left(f) = 0}
             ends(i) == Cardinality({f \in gone : file[f].ino = i})
             cut == {i \in Pipe : ends(i) > 0}
             woken == {pipe[i].wait : i \in cut} \ {NULL}
             wk == {x \in Slot : x \in woken /\ t[x].st # "none"}
  <2>1. task' = [x \in Slot |->
          LET r == IF x \in woken /\ t[x].st # "none" THEN [t[x] EXCEPT !.st = "run"] ELSE t[x]
          IN IF x = s THEN [r EXCEPT !.filp = [d \in Fd |-> IF d \in ds THEN NULL ELSE @[d]]] ELSE r]
    BY DEF Close
  <2> HIDE DEF woken
  <2> WITNESS wk \in SUBSET Slot
  <2> QED BY <2>1
<1>2. ASSUME NEW r \in Tasks
      PROVE  /\ awake(r) \in Tasks /\ awake(r).pid = r.pid /\ awake(r).father = r.father
             /\ awake(r).pc = r.pc /\ awake(r).sig = r.sig /\ awake(r).arg = r.arg
             /\ awake(r).filp = r.filp /\ awake(r).st = "run"
  BY DEF Tasks, Status
<1>3. ASSUME NEW r \in Tasks
      PROVE  /\ shut(r) \in Tasks /\ shut(r).pid = r.pid /\ shut(r).father = r.father
             /\ shut(r).pc = r.pc /\ shut(r).sig = r.sig /\ shut(r).arg = r.arg /\ shut(r).st = r.st
             /\ \A d \in Fd : shut(r).filp[d] = IF d \in ds THEN NULL ELSE r.filp[d]
  <2>1. [d \in Fd |-> IF d \in ds THEN NULL ELSE r.filp[d]] \in [Fd -> {NULL} \cup File]
    BY DEF Tasks
  <2> DEFINE h == [d \in Fd |-> IF d \in ds THEN NULL ELSE r.filp[d]]
  <2>2. \A d \in Fd : h[d] = IF d \in ds THEN NULL ELSE r.filp[d]
    OBVIOUS
  <2> HIDE DEF h
  <2>3. LET n == [r EXCEPT !.filp = h]
        IN n \in Tasks /\ n.pid = r.pid /\ n.father = r.father /\ n.pc = r.pc /\ n.sig = r.sig
           /\ n.arg = r.arg /\ n.st = r.st /\ n.filp = h
    BY <2>1 DEF Tasks, h
  <2> QED BY <2>2, <2>3 DEF h
<1> HIDE DEF awake, shut
<1>4. ASSUME NEW x \in Slot \ {s}
      PROVE  task'[x] \in Tasks /\ task'[x].filp = task[x].filp
             /\ task'[x].pid = t[x].pid /\ task'[x].father = t[x].father /\ task'[x].pc = t[x].pc
             /\ task'[x].sig = t[x].sig /\ task'[x].arg = t[x].arg
             /\ (task'[x].st = t[x].st \/ (task'[x].st = "run" /\ t[x].st # "none"))
  <2>1. task'[x] = IF x \in wk THEN awake(t[x]) ELSE t[x]
    BY <1>1
  <2>2. t[x] \in Tasks /\ x \in Slot
    OBVIOUS
  <2> QED BY <1>1, <1>2, <2>1, <2>2
<1>5. /\ task'[s] \in Tasks
      /\ task'[s].pid = t[s].pid /\ task'[s].father = t[s].father /\ task'[s].pc = t[s].pc
      /\ task'[s].sig = t[s].sig /\ task'[s].arg = t[s].arg
      /\ (task'[s].st = t[s].st \/ (task'[s].st = "run" /\ t[s].st # "none"))
      /\ \A d \in Fd : task'[s].filp[d] = IF d \in ds THEN NULL ELSE task[s].filp[d]
  <2>1. PICK r : r = IF s \in wk THEN awake(t[s]) ELSE t[s]
    OBVIOUS
  <2>2. task'[s] = shut(r)
    BY <1>1, <2>1
  <2>3. t[s] \in Tasks
    OBVIOUS
  <2>4. /\ r \in Tasks /\ r.filp = task[s].filp
        /\ r.pid = t[s].pid /\ r.father = t[s].father /\ r.pc = t[s].pc
        /\ r.sig = t[s].sig /\ r.arg = t[s].arg
        /\ (r.st = t[s].st \/ (r.st = "run" /\ t[s].st # "none"))
    BY <1>1, <1>2, <2>1, <2>3
  <2> QED BY <1>3, <2>2, <2>4
<1>6. task' = [x \in Slot |-> task'[x]]
  BY <1>1
<1> QED BY <1>4, <1>5, <1>6

\* f_count and i_count after Close.
LEMMA CloseCounts ==
  ASSUME Inv, NEW s \in Slot, NEW ds \in SUBSET Fd, NEW t \in [Slot -> Tasks],
         \A x \in Slot : t[x].filp = task[x].filp, Close(t, s, ds)
  PROVE  /\ file' \in [File -> Files] /\ pipe' \in [Pipe -> Pipes] /\ FileCounts'
         /\ \A f \in File : file'[f].count > 0 => file'[f].ino \in Pipe
<1> DEFINE mine(f) == {d \in ds : task[s].filp[d] = f}
           left(f) == file[f].count - Cardinality(mine(f))
           gone == {f \in File : file[f].count > 0 /\ left(f) = 0}
           shut(i) == {f \in gone : file[f].ino = i}
           ends(i) == Cardinality(shut(i))
           cut == {i \in Pipe : ends(i) > 0}
<1>1. /\ file' = [f \in File |-> IF f \in gone THEN NoFile ELSE [file[f] EXCEPT !.count = left(f)]]
      /\ pipe' = [i \in Pipe |->
           IF i \in cut /\ pipe[i].count = ends(i) THEN NoPipe
           ELSE [pipe[i] EXCEPT !.count = pipe[i].count - ends(i)]]
  BY DEF Close
<1>2. /\ \A x \in Slot \ {s} : task'[x].filp = task[x].filp
      /\ \A d \in Fd : task'[s].filp[d] = IF d \in ds THEN NULL ELSE task[s].filp[d]
  BY CloseTasks
<1>3. file \in [File -> Files] /\ pipe \in [Pipe -> Pipes]
  BY DEF Inv, TypeOK
<1>4. ASSUME NEW f \in File PROVE left(f) \in Nat /\ left(f) = Cardinality(Users(f)') /\ left(f) <= file[f].count
  <2>1. mine(f) \in SUBSET Fd
    OBVIOUS
  <2> DEFINE M == {s} \X mine(f)
  <2>2. Users(f)' = Users(f) \ M
    <3>1. f # NULL
      BY ProcessAssumption DEF File, NULL
    <3>2. ASSUME NEW x \in Slot, NEW d \in Fd
          PROVE  <<x, d>> \in Users(f)' <=> <<x, d>> \in Users(f) \ M
      <4>1. CASE x = s
        BY <1>2, <3>1, <4>1 DEF Users
      <4>2. CASE x # s
        BY <1>2, <4>2 DEF Users
      <4> QED BY <4>1, <4>2
    <3> QED BY <3>2 DEF Users
  <2>3. M \in SUBSET Users(f)
    BY DEF Users
  <2> HIDE DEF mine
  <2>4. Cardinality(M) = Cardinality(mine(f))
    BY <2>1, Mine
  <2> HIDE DEF M
  <2>5. /\ Cardinality(Users(f) \ M) = Cardinality(Users(f)) - Cardinality(M)
        /\ Cardinality(M) \in Nat /\ Cardinality(Users(f)) \in Nat /\ Cardinality(M) <= Cardinality(Users(f))
    BY <2>3, Counted, Without
  <2>6. file[f].count = Cardinality(Users(f))
    BY Counted
  <2> QED BY <2>2, <2>4, <2>5, <2>6
<1> HIDE DEF left
<1>5. ASSUME NEW f \in File
      PROVE  /\ file'[f] \in Files /\ file'[f].count = left(f)
             /\ f \notin gone => file'[f].ino = file[f].ino
  <2>1. CASE f \in gone
    <3>1. file'[f] = NoFile /\ left(f) = 0
      BY <1>1, <2>1
    <3>2. NoFile \in Files /\ NoFile.count = 0
      BY DEF NoFile, Files, NULL
    <3> QED BY <2>1, <3>1, <3>2
  <2>2. CASE f \notin gone
    <3>1. file'[f] = [file[f] EXCEPT !.count = left(f)]
      BY <1>1, <2>2
    <3>2. file[f] \in Files /\ left(f) \in Nat
      BY <1>3, <1>4
    <3> QED BY <3>1, <3>2 DEF Files
  <2> QED BY <2>1, <2>2
<1>6. ASSUME NEW f \in File, file'[f].count > 0 PROVE file'[f].ino \in Pipe
  <2>1. f \notin gone /\ file[f].count > 0
    <3>1. left(f) > 0
      BY <1>5, <1>6
    <3>2. file[f].count \in Nat
      BY Counted
    <3> QED BY <1>4, <3>1, <3>2
  <2>2. file[f].ino \in Pipe
    BY <2>1 DEF Inv, FilesOK
  <2> QED BY <1>5, <2>1, <2>2
<1>7. ASSUME NEW i \in Pipe
      PROVE  /\ Ends(i)' = Ends(i) \ shut(i) /\ shut(i) \in SUBSET Ends(i)
  <2>1. shut(i) \in SUBSET Ends(i)
    BY DEF Ends
  <2>2. ASSUME NEW f \in File PROVE f \in Ends(i)' <=> f \in Ends(i) \ shut(i)
    <3>1. file[f].count \in Nat /\ left(f) \in Nat /\ left(f) <= file[f].count /\ file'[f].count = left(f)
      BY Counted, <1>4, <1>5
    <3>2. CASE f \in gone
      <4>1. left(f) = 0
        BY <3>2
      <4> QED BY <3>1, <3>2, <4>1 DEF Ends
    <3>3. CASE f \notin gone
      <4>1. file'[f].ino = file[f].ino
        BY <1>5, <3>3
      <4>2. left(f) > 0 <=> file[f].count > 0
        BY <3>1, <3>3
      <4> QED BY <3>1, <3>3, <4>1, <4>2 DEF Ends
    <3> QED BY <3>2, <3>3
  <2> QED BY <2>1, <2>2 DEF Ends
<1> HIDE DEF shut, gone
<1>8. ASSUME NEW i \in Pipe PROVE pipe'[i] \in Pipes /\ pipe'[i].count = Cardinality(Ends(i)')
  <2>1. /\ Cardinality(Ends(i) \ shut(i)) = Cardinality(Ends(i)) - Cardinality(shut(i))
        /\ Cardinality(shut(i)) \in Nat /\ Cardinality(Ends(i)) \in Nat /\ Cardinality(shut(i)) <= Cardinality(Ends(i))
    BY <1>7, Counted, Without
  <2>2. pipe[i].count = Cardinality(Ends(i)) /\ pipe[i] \in Pipes
    BY <1>3, Counted
  <2>3. pipe[i].count - ends(i) \in Nat /\ Cardinality(Ends(i)') = pipe[i].count - ends(i)
    <3>1. Ends(i)' = Ends(i) \ shut(i)
      BY <1>7
    <3>2. pipe[i].count - ends(i) \in Nat /\ Cardinality(Ends(i) \ shut(i)) = pipe[i].count - ends(i)
      BY <2>1, <2>2
    <3> QED BY <3>1, <3>2
  <2>4. pipe'[i] = [pipe[i] EXCEPT !.count = pipe[i].count - ends(i)]
        \/ (pipe'[i] = NoPipe /\ pipe[i].count = ends(i))
    BY <1>1
  <2>5. CASE pipe'[i] = [pipe[i] EXCEPT !.count = pipe[i].count - ends(i)]
    <3> DEFINE k == pipe[i].count - ends(i)
    <3>1. k \in Nat
      BY <2>3
    <3> HIDE DEF k
    <3>2. [pipe[i] EXCEPT !.count = k] \in Pipes /\ [pipe[i] EXCEPT !.count = k].count = k
      BY <2>2, <3>1 DEF Pipes
    <3> QED BY <2>3, <2>5, <3>2 DEF k
  <2>6. CASE pipe'[i] = NoPipe /\ pipe[i].count = ends(i)
    <3>1. NoPipe \in Pipes /\ NoPipe.count = 0
      <4>1. [p \in Pos |-> 0] \in [Pos -> Number] /\ NULL \in {NULL} \cup Slot
        BY Zeros
      <4> QED BY <4>1, Zeros DEF NoPipe, Pipes
    <3> QED BY <2>1, <2>2, <2>3, <2>6, <3>1
  <2> QED BY <2>4, <2>5, <2>6
<1>9. file' \in [File -> Files]
  <2>1. file' = [f \in File |-> file'[f]]
    BY <1>1
  <2> QED BY <1>5, <2>1
<1>10. pipe' \in [Pipe -> Pipes]
  <2>1. pipe' = [i \in Pipe |-> pipe'[i]]
    BY <1>1
  <2> QED BY <1>8, <2>1
<1>11. FileCounts'
  <2>1. \A f \in File : file'[f].count = Cardinality(Users(f)')
    BY <1>4, <1>5
  <2> QED BY <2>1, <1>8 DEF FileCounts, Users, Ends
<1> QED BY <1>6, <1>9, <1>10, <1>11

\* sys_close.
LEMMA CloseInv ==
  ASSUME Inv, NEW s \in Slot, NEW d \in Fd, sys_close(s, d)
  PROVE  Inv'
<1>1. Close(task, s, {d}) /\ UNCHANGED <<last_pid, busy>> /\ {d} \in SUBSET Fd /\ task \in [Slot -> Tasks]
  BY DEF sys_close, Inv, TypeOK
<1>2. /\ file' \in [File -> Files] /\ pipe' \in [Pipe -> Pipes] /\ FileCounts'
      /\ \A f \in File : file'[f].count > 0 => file'[f].ino \in Pipe
  BY <1>1, CloseCounts
<1>3. /\ task' \in [Slot -> Tasks]
      /\ \A x \in Slot :
           /\ task'[x].pid = task[x].pid /\ task'[x].father = task[x].father /\ task'[x].pc = task[x].pc
           /\ task'[x].sig = task[x].sig /\ task'[x].arg = task[x].arg
           /\ task'[x].st = task[x].st \/ (task'[x].st = "run" /\ task[x].st # "none")
      /\ \A x \in Slot \ {s} : task'[x].filp = task[x].filp
      /\ \A e \in Fd : task'[s].filp[e] = IF e \in {d} THEN NULL ELSE task[s].filp[e]
  BY <1>1, CloseTasks
<1>4. TypeOK'
  BY <1>1, <1>2, <1>3 DEF Inv, TypeOK
<1>5. FamilyOK' /\ WaiterTold'
  <2>1. \A x \in Slot : Kin(task[x], task'[x])
    BY <1>3 DEF Kin
  <2> QED BY <2>1, KinStep DEF Inv
<1>6. FilesOK'
  <2>1. \A x \in Slot, e \in Fd : Open(x, e)' => Open(x, e)
    BY <1>3 DEF Open
  <2>2. \A x \in Slot : Used(x)' <=> Used(x)
    BY <1>3 DEF Used
  <2> QED BY <1>2, <1>3, <2>1, <2>2 DEF Inv, FilesOK
<1> QED BY <1>2, <1>4, <1>5, <1>6 DEF Inv

-----------------------------------------------------------------------------
(* exit.                                                                   *)

\* The records Reparent makes.
LEMMA Adopted ==
  ASSUME NEW r \in Tasks
  PROVE  /\ LET n == [r EXCEPT !.father = 1]
            IN n \in Tasks /\ n.st = r.st /\ n.pc = r.pc /\ n.pid = r.pid /\ n.father = 1
               /\ n.sig = r.sig /\ n.arg = r.arg /\ n.filp = r.filp
         /\ LET n == [r EXCEPT !.sig = r.sig \cup {"SIGCHLD"}]
            IN n \in Tasks /\ n.st = r.st /\ n.pc = r.pc /\ n.pid = r.pid /\ n.father = r.father
               /\ n.sig = r.sig \cup {"SIGCHLD"} /\ n.arg = r.arg /\ n.filp = r.filp
         /\ LET n == [r EXCEPT !.pc = "exit"]
            IN n \in Tasks /\ n.st = r.st /\ n.pc = "exit" /\ n.pid = r.pid /\ n.father = r.father
               /\ n.sig = r.sig /\ n.arg = r.arg /\ n.filp = r.filp
<1>1. 1 \in 0 .. MaxPid
  BY ProcessAssumption
<1>2. LET n == [r EXCEPT !.father = 1]
      IN n \in Tasks /\ n.st = r.st /\ n.pc = r.pc /\ n.pid = r.pid /\ n.father = 1
         /\ n.sig = r.sig /\ n.arg = r.arg /\ n.filp = r.filp
  BY <1>1 DEF Tasks
<1>3. r.sig \cup {"SIGCHLD"} \in SUBSET Signal
  BY DEF Tasks, Signal
<1>4. LET n == [r EXCEPT !.sig = r.sig \cup {"SIGCHLD"}]
      IN n \in Tasks /\ n.st = r.st /\ n.pc = r.pc /\ n.pid = r.pid /\ n.father = r.father
         /\ n.sig = r.sig \cup {"SIGCHLD"} /\ n.arg = r.arg /\ n.filp = r.filp
  BY <1>3 DEF Tasks
<1>5. LET n == [r EXCEPT !.pc = "exit"]
      IN n \in Tasks /\ n.st = r.st /\ n.pc = "exit" /\ n.pid = r.pid /\ n.father = r.father
         /\ n.sig = r.sig /\ n.arg = r.arg /\ n.filp = r.filp
  BY DEF Tasks, Place
<1> QED BY <1>2, <1>4, <1>5

\* The children of s go to init, which hears of those that are zombies.
LEMMA Reparented ==
  ASSUME Inv, NEW s \in Slot
  PROVE  LET t == Reparent(task, s)
         IN /\ t \in [Slot -> Tasks]
            /\ \A x \in Slot :
                 /\ t[x].st = task[x].st /\ t[x].pc = task[x].pc /\ t[x].pid = task[x].pid
                 /\ t[x].arg = task[x].arg /\ t[x].filp = task[x].filp /\ task[x].sig \subseteq t[x].sig
                 /\ t[x].father = IF Used(x) /\ task[x].father = task[s].pid THEN 1 ELSE task[x].father
            /\ (\E x \in Slot : task[x].father = task[s].pid /\ task[x].st = "zombie") =>
                 "SIGCHLD" \in t[Init1].sig
<1> DEFINE mine == {x \in Slot : task[x].st # "none" /\ task[x].father = task[s].pid}
           dead == \E x \in mine : task[x].st = "zombie"
           a(x) == IF x \in mine THEN [task[x] EXCEPT !.father = 1] ELSE task[x]
           b(x) == [a(x) EXCEPT !.sig = a(x).sig \cup {"SIGCHLD"}]
<1>0. Init1 \in Slot
  BY ProcessAssumption DEF Init1, Slot
<1>1. PICK t : t = Reparent(task, s)
  OBVIOUS
<1>2. t = [x \in Slot |-> IF x = Init1 /\ dead THEN b(x) ELSE a(x)]
  BY <1>1 DEF Reparent
<1>3. ASSUME NEW x \in Slot
      PROVE  /\ a(x) \in Tasks /\ a(x).st = task[x].st /\ a(x).pc = task[x].pc /\ a(x).pid = task[x].pid
             /\ a(x).arg = task[x].arg /\ a(x).filp = task[x].filp /\ a(x).sig = task[x].sig
             /\ a(x).father = IF Used(x) /\ task[x].father = task[s].pid THEN 1 ELSE task[x].father
  <2>1. PICK r \in Tasks : r = task[x]
    BY DEF Inv, TypeOK
  <2>2. CASE x \in mine
    <3> DEFINE n == [r EXCEPT !.father = 1]
    <3>1. n \in Tasks /\ n.st = r.st /\ n.pc = r.pc /\ n.pid = r.pid /\ n.father = 1
          /\ n.sig = r.sig /\ n.arg = r.arg /\ n.filp = r.filp
      BY Adopted
    <3>2. a(x) = n
      BY <2>1, <2>2
    <3> HIDE DEF n, a
    <3> QED BY <2>1, <2>2, <3>1, <3>2 DEF Used
  <2>3. CASE x \notin mine
    <3>1. a(x) = r
      BY <2>1, <2>3
    <3> HIDE DEF a
    <3> QED BY <2>1, <2>3, <3>1 DEF Used
  <2> QED BY <2>2, <2>3
<1> HIDE DEF a
<1>4. ASSUME NEW x \in Slot
      PROVE  /\ b(x) \in Tasks /\ b(x).st = a(x).st /\ b(x).pc = a(x).pc /\ b(x).pid = a(x).pid
             /\ b(x).arg = a(x).arg /\ b(x).filp = a(x).filp /\ b(x).sig = a(x).sig \cup {"SIGCHLD"}
             /\ b(x).father = a(x).father
  <2>1. PICK r \in Tasks : r = a(x)
    BY <1>3
  <2> DEFINE n == [r EXCEPT !.sig = r.sig \cup {"SIGCHLD"}]
  <2>2. n \in Tasks /\ n.st = r.st /\ n.pc = r.pc /\ n.pid = r.pid /\ n.father = r.father
        /\ n.sig = r.sig \cup {"SIGCHLD"} /\ n.arg = r.arg /\ n.filp = r.filp
    BY Adopted
  <2>3. n = b(x)
    BY <2>1
  <2> HIDE DEF n, b
  <2> QED BY <2>1, <2>2, <2>3
<1> HIDE DEF b
<1>5. \A x \in Slot : t[x] = a(x) \/ t[x] = b(x)
  BY <1>2
<1>6. t \in [Slot -> Tasks]
  BY <1>2, <1>3, <1>4
<1>7. \A x \in Slot :
        /\ t[x].st = task[x].st /\ t[x].pc = task[x].pc /\ t[x].pid = task[x].pid
        /\ t[x].arg = task[x].arg /\ t[x].filp = task[x].filp /\ task[x].sig \subseteq t[x].sig
        /\ t[x].father = IF Used(x) /\ task[x].father = task[s].pid THEN 1 ELSE task[x].father
  BY <1>3, <1>4, <1>5
<1>8. ASSUME \E x \in Slot : task[x].father = task[s].pid /\ task[x].st = "zombie"
      PROVE  "SIGCHLD" \in t[Init1].sig
  <2>1. dead
    BY <1>8
  <2> HIDE DEF dead
  <2>2. t[Init1] = b(Init1)
    BY <1>0, <1>2, <2>1
  <2> QED BY <1>0, <1>4, <2>2
<1> QED BY <1>1, <1>6, <1>7, <1>8

\* do_exit up to the iput of the directories.
LEMMA ExitInv ==
  ASSUME Inv, NEW s \in Slot \ {Init1}, task[s].st = "run", do_exit(task, s)
  PROVE  Inv'
<1>0. Init1 \in Slot
  BY ProcessAssumption DEF Init1, Slot
<1>1. PICK u : u = Reparent(task, s)
  OBVIOUS
<1>2. /\ u \in [Slot -> Tasks]
      /\ \A x \in Slot :
           /\ u[x].st = task[x].st /\ u[x].pc = task[x].pc /\ u[x].pid = task[x].pid
           /\ u[x].arg = task[x].arg /\ u[x].filp = task[x].filp /\ task[x].sig \subseteq u[x].sig
           /\ u[x].father = IF Used(x) /\ task[x].father = task[s].pid THEN 1 ELSE task[x].father
      /\ (\E x \in Slot : task[x].father = task[s].pid /\ task[x].st = "zombie") =>
           "SIGCHLD" \in u[Init1].sig
  BY <1>1, Reparented
<1> DEFINE n == [u[s] EXCEPT !.pc = "exit"]
           t == [u EXCEPT ![s] = n]
<1>3. /\ n \in Tasks /\ n.st = u[s].st /\ n.pc = "exit" /\ n.pid = u[s].pid /\ n.father = u[s].father
      /\ n.sig = u[s].sig /\ n.arg = u[s].arg /\ n.filp = u[s].filp
  <2>1. PICK r \in Tasks : r = u[s]
    BY <1>2
  <2> DEFINE m == [r EXCEPT !.pc = "exit"]
  <2>2. m \in Tasks /\ m.st = r.st /\ m.pc = "exit" /\ m.pid = r.pid /\ m.father = r.father
        /\ m.sig = r.sig /\ m.arg = r.arg /\ m.filp = r.filp
    BY Adopted
  <2>3. m = n
    BY <2>1
  <2> HIDE DEF m, n
  <2> QED BY <2>1, <2>2, <2>3
<1>4. Close(t, s, Fd) /\ busy' = NULL /\ UNCHANGED last_pid
  BY <1>1, <1>2 DEF do_exit
<1> HIDE DEF n
<1>5. t \in [Slot -> Tasks] /\ t[s] = n /\ \A x \in Slot \ {s} : t[x] = u[x]
  BY <1>2, <1>3
<1> HIDE DEF t
<1>6. \A x \in Slot : t[x].filp = task[x].filp
  BY <1>2, <1>3, <1>5
<1>7. Fd \in SUBSET Fd
  OBVIOUS
<1>8. /\ file' \in [File -> Files] /\ pipe' \in [Pipe -> Pipes] /\ FileCounts'
      /\ \A f \in File : file'[f].count > 0 => file'[f].ino \in Pipe
  BY <1>4, <1>5, <1>6, <1>7, CloseCounts
<1>9. /\ task' \in [Slot -> Tasks]
      /\ \A x \in Slot :
           /\ task'[x].pid = t[x].pid /\ task'[x].father = t[x].father /\ task'[x].pc = t[x].pc
           /\ task'[x].sig = t[x].sig /\ task'[x].arg = t[x].arg
           /\ task'[x].st = t[x].st \/ (task'[x].st = "run" /\ t[x].st # "none")
      /\ \A x \in Slot \ {s} : task'[x].filp = task[x].filp
      /\ \A d \in Fd : task'[s].filp[d] = IF d \in Fd THEN NULL ELSE task[s].filp[d]
  BY <1>4, <1>5, <1>6, <1>7, CloseTasks
<1>10. \A x \in Slot :
         /\ task'[x].pid = task[x].pid /\ task[x].sig \subseteq task'[x].sig /\ task'[x].arg = task[x].arg
         /\ task'[x].father = IF Used(x) /\ task[x].father = task[s].pid THEN 1 ELSE task[x].father
         /\ task'[x].st = task[x].st \/ (task'[x].st = "run" /\ task[x].st # "none")
         /\ task'[x].pc = IF x = s THEN "exit" ELSE task[x].pc
  BY <1>2, <1>3, <1>5, <1>9
<1>11. \A x \in Slot : Used(x)' <=> Used(x)
  BY <1>10 DEF Used
<1>12. TypeOK'
  BY <1>4, <1>8, <1>9 DEF Inv, TypeOK
<1>13. FamilyOK'
  <2>1. (\A y, x \in Slot : Used(y) /\ Used(x) /\ task[y].pid = task[x].pid => y = x)'
    BY <1>10, <1>11 DEF Inv, FamilyOK
  <2>2. (Used(Init1) /\ task[Init1].pid = 1 /\ task[Init1].pc \notin Leaving)'
    BY <1>0, <1>10, <1>11 DEF Inv, FamilyOK
  <2>3. ASSUME NEW y \in Slot \ {Init1}, Used(y)'
        PROVE  \E f \in Slot : Used(f)' /\ task'[f].pid = task'[y].father /\ task'[f].pc \notin Leaving
    <3>1. CASE task[y].father = task[s].pid
      <4>1. task'[y].father = 1
        BY <1>10, <1>11, <2>3, <3>1
      <4> QED BY <1>0, <2>2, <4>1
    <3>2. CASE task[y].father # task[s].pid
      <4>1. PICK f \in Slot : Used(f) /\ task[f].pid = task[y].father /\ task[f].pc \notin Leaving
        BY <1>11, <2>3 DEF Inv, FamilyOK
      <4>2. f # s
        BY <3>2, <4>1
      <4>3. task'[y].father = task[y].father
        BY <1>10, <3>2
      <4> QED BY <1>10, <1>11, <4>1, <4>2, <4>3
    <3> QED BY <3>1, <3>2
  <2>4. (\A y \in Slot : task[y].st = "zombie" => task[y].pc = "dead")'
    <3> SUFFICES ASSUME NEW y \in Slot, task'[y].st = "zombie" PROVE task'[y].pc = "dead"
      OBVIOUS
    <3>1. task[y].st = "zombie" /\ y # s
      BY <1>10
    <3> QED BY <1>10, <3>1 DEF Inv, FamilyOK
  <2> QED BY <2>1, <2>2, <2>3, <2>4 DEF FamilyOK
<1>14. WaiterTold'
  <2> SUFFICES ASSUME NEW y \in Slot, task'[y].st = "int", task'[y].pc = "waitpid",
                      NEW x \in Slot \ {y}, Used(x)', task'[x].father = task'[y].pid,
                      task'[y].arg \in {0, task'[x].pid}, task'[x].st = "zombie"
               PROVE  "SIGCHLD" \in task'[y].sig
    BY DEF WaiterTold, Children
  <2>1. /\ y # s /\ task[y].st = "int" /\ task[y].pc = "waitpid" /\ task[x].st = "zombie" /\ Used(x)
        /\ Used(y) /\ task[y].pid = task'[y].pid
    BY <1>10, <1>11 DEF Used
  <2>2. CASE task[x].father = task[s].pid
    <3>1. task'[x].father = 1
      BY <1>10, <2>1, <2>2
    <3>2. y = Init1
      BY <1>0, <2>1, <3>1 DEF Inv, FamilyOK
    <3>3. "SIGCHLD" \in u[Init1].sig
      BY <1>2, <2>1, <2>2
    <3> QED BY <1>5, <1>9, <2>1, <3>2, <3>3
  <2>3. CASE task[x].father # task[s].pid
    <3>1. task[x].father = task[y].pid /\ task[y].arg \in {0, task[x].pid}
      BY <1>10, <2>1, <2>3
    <3>2. x \in Children(y, task[y].arg)
      BY <2>1, <3>1 DEF Children
    <3>3. "SIGCHLD" \in task[y].sig
      BY <2>1, <3>2 DEF Inv, WaiterTold
    <3> QED BY <1>10, <3>3
  <2> QED BY <2>2, <2>3
<1>15. FilesOK'
  <2>1. ASSUME NEW x \in Slot, NEW d \in Fd PROVE Open(x, d)' => Open(x, d) /\ x # s
    BY <1>9 DEF Open
  <2>2. (\A x \in Slot : ~Used(x) \/ task[x].pc \in Leaving => \A d \in Fd : ~Open(x, d))'
    BY <1>10, <1>11, <2>1 DEF Inv, FilesOK
  <2>3. (\A x \in Slot : task[x].pc \in OnPipe => task[x].arg \in Pipe)'
    BY <1>10 DEF Inv, FilesOK, OnPipe
  <2> QED BY <1>8, <2>2, <2>3 DEF FilesOK
<1> QED BY <1>8, <1>12, <1>13, <1>14, <1>15 DEF Inv

\* do_signal drops SIGCHLD or kills.
LEMMA SignalInv ==
  ASSUME Inv, NEW s \in Slot, do_signal(s)
  PROVE  Inv'
<1>1. task[s].st = "run"
  BY DEF do_signal, At
<1>2. \/ /\ task' = [task EXCEPT ![s].sig = @ \ {"SIGCHLD"}]
         /\ UNCHANGED <<last_pid, file, pipe, busy>>
      \/ s # Init1 /\ do_exit(task, s)
  BY DEF do_signal
<1>3. CASE /\ task' = [task EXCEPT ![s].sig = @ \ {"SIGCHLD"}]
           /\ UNCHANGED <<last_pid, file, pipe, busy>>
  <2>1. PICK t : t = [task EXCEPT ![s].sig = @ \ {"SIGCHLD"}]
    OBVIOUS
  <2>2. Calms(t)
    BY <1>1, <2>1, DropChld
  <2>3. Calms(task')
    BY <1>3, <2>1, <2>2
  <2> QED BY <1>3, <2>3, AtFacts, CalmStep
<1>4. CASE s # Init1 /\ do_exit(task, s)
  BY <1>1, <1>4, ExitInv
<1> QED BY <1>2, <1>3, <1>4

\* The end of do_exit: the father hears of its child.
LEMMA ZombieInv ==
  ASSUME Inv, NEW s \in Slot, BecomeZombie(s)
  PROVE  Inv'
<1>1. task[s].st = "run" /\ task[s].pc = "exit" /\ busy' = NULL /\ UNCHANGED <<last_pid, file, pipe>>
  BY DEF BecomeZombie, At
<1> DEFINE fathers == Found(task[s].father)
           r == [task[s] EXCEPT !.st = "zombie", !.pc = "dead"]
           z == [task EXCEPT ![s] = r]
<1>2. PICK f \in Slot : /\ Used(f) /\ task[f].pid = task[s].father /\ task[f].pc \notin Leaving
                        /\ f # s
  <2>1. s # Init1 /\ Used(s)
    BY <1>1 DEF Inv, FamilyOK, Leaving, Used
  <2> QED BY <1>1, <2>1 DEF Inv, FamilyOK, Leaving
<1>3. fathers = {f}
  BY <1>2 DEF Found, Inv, FamilyOK
<1>4. Min(fathers) = f
  <2>1. f \in Nat
    BY Finite
  <2> QED BY <1>3, <2>1 DEF Min
<1> DEFINE m == [task[f] EXCEPT !.sig = task[f].sig \cup {"SIGCHLD"}]
<1>5. task' = [task EXCEPT ![s] = r, ![f] = m]
  <2>1. task' = [z EXCEPT ![Min(fathers)].sig = @ \cup {"SIGCHLD"}]
    BY <1>3 DEF BecomeZombie
  <2>2. z[f] = task[f] /\ task \in [Slot -> Tasks]
    BY <1>2 DEF Inv, TypeOK
  <2> HIDE DEF r, fathers
  <2> QED BY <1>2, <1>4, <2>1, <2>2
<1>6. r \in Tasks /\ r.pid = task[s].pid /\ r.father = task[s].father /\ r.filp = task[s].filp
      /\ r.st = "zombie" /\ r.pc = "dead"
  <2>1. task[s] \in Tasks
    BY AtFacts
  <2> QED BY <2>1 DEF Tasks, Status, Place
<1>7. m \in Tasks /\ m.st = task[f].st /\ m.pc = task[f].pc /\ m.pid = task[f].pid /\ m.father = task[f].father
      /\ m.sig = task[f].sig \cup {"SIGCHLD"} /\ m.arg = task[f].arg /\ m.filp = task[f].filp
  <2>1. PICK g \in Tasks : g = task[f]
    BY AtFacts
  <2> DEFINE n == [g EXCEPT !.sig = g.sig \cup {"SIGCHLD"}]
  <2>2. n \in Tasks /\ n.st = g.st /\ n.pc = g.pc /\ n.pid = g.pid /\ n.father = g.father
        /\ n.sig = g.sig \cup {"SIGCHLD"} /\ n.arg = g.arg /\ n.filp = g.filp
    BY Adopted
  <2>3. n = m
    BY <2>1
  <2> HIDE DEF n, m
  <2> QED BY <2>1, <2>2, <2>3
<1> HIDE DEF r, m
<1>8. /\ task' \in [Slot -> Tasks] /\ task'[s] = r /\ task'[f] = m
      /\ \A x \in Slot \ {s, f} : task'[x] = task[x]
  BY <1>2, <1>5, <1>6, <1>7 DEF Inv, TypeOK
<1>9. TypeOK'
  BY <1>1, <1>8 DEF Inv, TypeOK
<1>10. FamilyOK'
  <2>1. Kept(task[s], task'[s])
    BY <1>1, <1>6, <1>8 DEF Kept, Leaving
  <2>2. Kept(task[f], task'[f])
    BY <1>7, <1>8 DEF Kept, Inv, FamilyOK
  <2>3. \A x \in Slot \ {s, f} : Kept(task[x], task'[x])
    BY <1>8 DEF Kept, Inv, FamilyOK
  <2>4. \A x \in Slot : Kept(task[x], task'[x])
    BY <2>1, <2>2, <2>3
  <2> QED BY <2>4, FamilyStep DEF Inv
<1>11. WaiterTold'
  <2> SUFFICES ASSUME NEW y \in Slot, task'[y].st = "int", task'[y].pc = "waitpid",
                      NEW x \in Slot \ {y}, Used(x)', task'[x].father = task'[y].pid,
                      task'[y].arg \in {0, task'[x].pid}, task'[x].st = "zombie"
               PROVE  "SIGCHLD" \in task'[y].sig
    BY DEF WaiterTold, Children
  <2>1. y # s
    BY <1>6, <1>8
  <2>2. CASE y = f
    BY <1>7, <1>8, <2>2
  <2>3. CASE y # f
    <3>1. task'[y] = task[y] /\ Used(y)
      BY <1>8, <2>1, <2>3 DEF Used
    <3>2. x # s
      BY <1>2, <1>6, <1>8, <2>3, <3>1 DEF Inv, FamilyOK
    <3>3. task[x].st = "zombie" /\ task[x].father = task'[x].father /\ task[x].pid = task'[x].pid
      BY <1>7, <1>8, <3>2
    <3>4. x \in Children(y, task[y].arg)
      BY <3>1, <3>3 DEF Children, Used
    <3> QED BY <3>1, <3>3, <3>4 DEF Inv, WaiterTold
  <2> QED BY <2>2, <2>3
<1>12. \A x \in Slot : task'[x].filp = task[x].filp
  BY <1>6, <1>7, <1>8
<1>13. FileCounts'
  BY <1>1, <1>12, SameFiles DEF Inv
<1>14. FilesOK'
  <2>1. \A x \in Slot : ~Used(x)' \/ task'[x].pc \in Leaving => ~Used(x) \/ task[x].pc \in Leaving
    BY <1>1, <1>6, <1>7, <1>8 DEF Used, Leaving
  <2>2. \A x \in Slot : task'[x].pc \in OnPipe => task'[x].arg \in Pipe
    BY <1>6, <1>7, <1>8 DEF OnPipe, Inv, FilesOK
  <2> QED BY <1>1, <1>12, <2>1, <2>2, SameOpen DEF Inv
<1> QED BY <1>9, <1>10, <1>11, <1>13, <1>14 DEF Inv

-----------------------------------------------------------------------------
(* fork.                                                                   *)

\* There are more pids than tasks, so find_empty_process ends, with a pid that
\* nobody has.
LEMMA FreshPid ==
  ASSUME Inv
  PROVE  NextPid \in 1 .. MaxPid /\ NextPid \notin Pids
<1> DEFINE after(k) == ((last_pid + k - 1) % MaxPid) + 1
           free == {k \in 1 .. MaxPid : after(k) \notin Pids}
<1>0. MaxPid \in Nat /\ MaxPid > 0 /\ NR_TASKS \in Nat /\ MaxPid >= NR_TASKS /\ NR_TASKS > 1
      /\ last_pid \in 1 .. MaxPid
  BY ProcessAssumption DEF Inv, TypeOK
<1>1. IsFiniteSet(Pids) /\ Cardinality(Pids) < MaxPid
  <2> DEFINE U == {x \in Slot : Used(x)}
  <2>1. U \in SUBSET Slot
    OBVIOUS
  <2>2. IsFiniteSet(U) /\ Cardinality(U) <= NR_TASKS - 1 /\ Cardinality(U) \in Nat
    <3>1. IsFiniteSet(U) /\ Cardinality(U) <= Cardinality(Slot)
      BY <2>1, Finite, FS_Subset
    <3> QED BY <3>1, Finite, FS_CardinalityType
  <2> DEFINE g == [x \in U |-> task[x].pid]
  <2>3. Pids = {g[x] : x \in U}
    BY DEF Pids
  <2> HIDE DEF U
  <2>4. g \in Surjection(U, Pids)
    <3>1. g \in [U -> Pids]
      BY <2>3
    <3>2. \A y \in Pids : \E x \in U : g[x] = y
      BY <2>3
    <3> QED BY <3>1, <3>2 DEF Surjection
  <2> HIDE DEF g
  <2>5. IsFiniteSet(Pids) /\ Cardinality(Pids) <= Cardinality(U)
    BY <2>2, <2>4, FS_Surjection
  <2>6. Cardinality(Pids) \in Nat
    BY <2>5, FS_CardinalityType
  <2> QED BY <1>0, <2>2, <2>5, <2>6
<1>2. PICK v \in 1 .. MaxPid : v \notin Pids
  <2>1. IsFiniteSet(1 .. MaxPid) /\ Cardinality(1 .. MaxPid) = MaxPid
    BY <1>0, FS_Interval
  <2>2. ~(1 .. MaxPid \subseteq Pids)
    <3> SUFFICES ASSUME 1 .. MaxPid \subseteq Pids PROVE FALSE
      OBVIOUS
    <3>1. Cardinality(1 .. MaxPid) <= Cardinality(Pids)
      BY <1>1, FS_Subset
    <3>2. Cardinality(Pids) \in Nat
      BY <1>1, FS_CardinalityType
    <3> QED BY <1>0, <1>1, <2>1, <3>1, <3>2
  <2> QED BY <2>2
<1>3. \E k \in 1 .. MaxPid : after(k) = v
  <2>1. v - 1 \in Nat /\ v - 1 < MaxPid /\ v \in Int /\ last_pid \in Int
    BY <1>0
  <2>2. (v - 1) % MaxPid = v - 1 /\ ((v - 1) + MaxPid) % MaxPid = v - 1
    <3>1. PICK x \in Nat : x = v - 1
      BY <2>1
    <3>2. x < MaxPid
      BY <2>1, <3>1
    <3>3. x % MaxPid = x
      BY <1>0, <3>2
    <3>4. (x + MaxPid) % MaxPid = x
      BY <1>0, <3>2
    <3> QED BY <3>1, <3>3, <3>4
  <2>3. CASE v > last_pid
    <3> DEFINE k == v - last_pid
    <3>1. k \in 1 .. MaxPid /\ last_pid + k - 1 = v - 1
      BY <1>0, <2>1, <2>3
    <3> HIDE DEF k
    <3>2. after(k) = v
      BY <2>1, <2>2, <3>1
    <3> QED BY <3>1, <3>2
  <2>4. CASE v <= last_pid
    <3> DEFINE k == v - last_pid + MaxPid
    <3>1. k \in 1 .. MaxPid /\ last_pid + k - 1 = (v - 1) + MaxPid
      BY <1>0, <2>1, <2>4
    <3> HIDE DEF k
    <3>2. after(k) = v
      BY <2>1, <2>2, <3>1
    <3> QED BY <3>1, <3>2
  <2> QED BY <1>0, <2>3, <2>4
<1>4. free # {} /\ free \in SUBSET Nat
  <2>1. PICK k \in 1 .. MaxPid : after(k) = v
    BY <1>3
  <2>2. free \in SUBSET Nat
    BY <1>0
  <2> HIDE DEF after
  <2> QED BY <1>2, <2>1, <2>2
<1>5. Min(free) \in free
  BY <1>4, MinNat
<1>6. NextPid = after(Min(free))
  BY DEF NextPid
<1>7. \A k \in 1 .. MaxPid : after(k) \in 1 .. MaxPid
  <2> SUFFICES ASSUME NEW k \in 1 .. MaxPid PROVE after(k) \in 1 .. MaxPid
    OBVIOUS
  <2>1. PICK x \in Nat : x = last_pid + k - 1
    BY <1>0
  <2>2. x % MaxPid \in 0 .. MaxPid - 1
    BY <1>0
  <2> QED BY <1>0, <2>1, <2>2
<1> HIDE DEF after
<1> QED BY <1>5, <1>6, <1>7

\* Descriptors of one task come to refer to a file.
LEMMA MoreUsers ==
  ASSUME Inv, NEW f \in File, NEW c \in Slot, NEW D \in SUBSET Fd,
         \A d \in D : task[c].filp[d] # f, Users(f)' = Users(f) \cup ({c} \X D)
  PROVE  /\ Cardinality(Users(f)') = file[f].count + Cardinality(D)
         /\ Cardinality(D) \in Nat /\ file[f].count \in Nat
<1>1. PICK M : M = {c} \X D
  OBVIOUS
<1>2. IsFiniteSet(M) /\ Cardinality(M) = Cardinality(D)
  BY <1>1, Mine
<1>3. Users(f) \cap M = {}
  BY <1>1 DEF Users
<1>4. IsFiniteSet(Users(f)) /\ file[f].count = Cardinality(Users(f))
  BY Counted
<1>5. /\ Cardinality(Users(f) \cup M) = Cardinality(Users(f)) + Cardinality(M)
      /\ Cardinality(Users(f)) \in Nat /\ Cardinality(M) \in Nat
  BY <1>2, <1>3, <1>4, DisjointUnion
<1>6. Users(f)' = Users(f) \cup M
  BY <1>1
<1> QED BY <1>2, <1>4, <1>5, <1>6

\* A pid goes by and no process comes.
LEMMA ForkFails ==
  ASSUME Inv, UNCHANGED <<task, file, pipe, busy>>, last_pid' = NextPid
  PROVE  Inv'
<1>1. Calms(task')
  BY CalmId
<1>2. pipe' \in [Pipe -> Pipes] /\ busy' \in {NULL} \cup Slot
  BY DEF Inv, TypeOK
<1> QED BY <1>1, <1>2, FreshPid, CalmStep

\* The record of a child.
LEMMA Child ==
  ASSUME NEW r \in Tasks, NEW p \in 0 .. MaxPid
  PROVE  LET n == [NoTask EXCEPT !.st = "run", !.pid = p, !.father = r.pid,
                                 !.blocked = r.blocked, !.filp = r.filp]
         IN n \in Tasks /\ n.st = "run" /\ n.pc = "user" /\ n.pid = p /\ n.father = r.pid /\ n.filp = r.filp
<1>1. NoTask \in Tasks /\ NoTask.pc = "user"
  BY Nobody
<1>2. r.pid \in 0 .. MaxPid /\ r.blocked \in SUBSET Signal /\ r.filp \in [Fd -> {NULL} \cup File]
  BY DEF Tasks
<1> QED BY <1>1, <1>2 DEF Tasks, Status

\* sys_fork.
LEMMA ForkInv ==
  ASSUME Inv, NEW s \in Slot, sys_fork(s)
  PROVE  Inv'
<1> DEFINE free == {x \in Slot : ~Used(x)}
           child == [NoTask EXCEPT !.st = "run", !.pid = NextPid, !.father = task[s].pid,
                                   !.blocked = task[s].blocked, !.filp = task[s].filp]
<1>0. Init1 \in Slot /\ Used(Init1)
  BY ProcessAssumption DEF Init1, Slot, Inv, FamilyOK
<1>1. task[s].st = "run" /\ task[s].pc = "user" /\ last_pid' = NextPid /\ UNCHANGED <<pipe, busy>>
  BY DEF sys_fork, Call, At
<1>2. CASE UNCHANGED <<task, file>>
  BY <1>1, <1>2, ForkFails
<1>3. CASE /\ free # {}
           /\ task' = [task EXCEPT ![Min(free)] = child]
           /\ file' = [f \in File |-> [file[f] EXCEPT !.count = @ + Refs(task[s], f)]]
  <2>1. PICK c \in Slot : c = Min(free) /\ ~Used(c)
    <3>1. free \in SUBSET Nat /\ free # {}
      BY <1>3, Finite
    <3>2. Min(free) \in free
      BY <3>1, MinNat
    <3> QED BY <3>2
  <2>2. /\ child \in Tasks /\ child.st = "run" /\ child.pc = "user" /\ child.pid = NextPid
        /\ child.father = task[s].pid /\ child.filp = task[s].filp
    <3>1. PICK r \in Tasks : r = task[s]
      BY DEF Inv, TypeOK
    <3>2. PICK p \in 0 .. MaxPid : p = NextPid
      BY FreshPid
    <3> DEFINE n == [NoTask EXCEPT !.st = "run", !.pid = p, !.father = r.pid,
                                   !.blocked = r.blocked, !.filp = r.filp]
    <3>3. n \in Tasks /\ n.st = "run" /\ n.pc = "user" /\ n.pid = p /\ n.father = r.pid /\ n.filp = r.filp
      BY Child
    <3>4. n = child
      BY <3>1, <3>2
    <3> HIDE DEF n, child
    <3> QED BY <3>1, <3>2, <3>3, <3>4
  <2>3. task' = [task EXCEPT ![c] = child]
    BY <1>3, <2>1
  <2> HIDE DEF child, free
  <2>4. task' \in [Slot -> Tasks] /\ task'[c] = child /\ \A x \in Slot \ {c} : task'[x] = task[x]
    BY <2>2, <2>3 DEF Inv, TypeOK
  <2>5. c # s /\ c # Init1 /\ Used(s)
    BY <1>0, <1>1, <2>1 DEF Used
  <2>6. Used(c)' /\ \A x \in Slot \ {c} : Used(x)' <=> Used(x)
    BY <2>2, <2>4 DEF Used
  <2>7. ASSUME NEW f \in File
        PROVE  /\ file'[f] \in Files /\ file'[f].count = Cardinality(Users(f)')
               /\ file'[f].count > 0 <=> file[f].count > 0
               /\ file'[f].ino = file[f].ino
    <3> DEFINE D == {d \in Fd : task[s].filp[d] = f}
               k == file[f].count + Cardinality(D)
    <3>1. D \in SUBSET Fd
      OBVIOUS
    <3>2. \A d \in Fd : task[c].filp[d] # f
      <4>1. f # NULL
        BY ProcessAssumption DEF File, NULL
      <4> QED BY <2>1, <4>1 DEF Inv, FilesOK, Open
    <3>3. Users(f)' = Users(f) \cup ({c} \X D)
      <4>1. ASSUME NEW x \in Slot, NEW d \in Fd
            PROVE  <<x, d>> \in Users(f)' <=> <<x, d>> \in Users(f) \cup ({c} \X D)
        <5>1. CASE x = c
          BY <2>2, <2>4, <3>2, <5>1 DEF Users
        <5>2. CASE x # c
          BY <2>4, <5>2 DEF Users
        <5> QED BY <5>1, <5>2
      <4> QED BY <4>1 DEF Users
    <3>4. file'[f] = [file[f] EXCEPT !.count = k]
      BY <1>3 DEF Refs
    <3>5. D # {} => file[f].count > 0
      <4> SUFFICES ASSUME NEW d \in D PROVE file[f].count > 0
        OBVIOUS
      <4>1. Open(s, d) /\ task[s].filp[d] = f
        BY ProcessAssumption DEF Open, NULL, File
      <4> QED BY <4>1, Referred
    <3> HIDE DEF D
    <3>6. Cardinality(Users(f)') = k /\ Cardinality(D) \in Nat /\ file[f].count \in Nat
      BY <3>1, <3>2, <3>3, MoreUsers
    <3>7. D = {} => Cardinality(D) = 0
      BY FS_EmptySet
    <3>8. k \in Nat /\ (k > 0 <=> file[f].count > 0)
      BY <3>5, <3>6, <3>7
    <3> HIDE DEF k
    <3>9. file[f] \in Files
      BY DEF Inv, TypeOK
    <3>10. [file[f] EXCEPT !.count = k] \in Files /\ [file[f] EXCEPT !.count = k].count = k
           /\ [file[f] EXCEPT !.count = k].ino = file[f].ino
      BY <3>8, <3>9 DEF Files
    <3> QED BY <3>4, <3>6, <3>8, <3>10
  <2>8. FileCounts'
    <3>1. \A i \in Pipe : Ends(i)' = Ends(i)
      BY <2>7 DEF Ends
    <3>2. \A i \in Pipe : pipe'[i].count = Cardinality(Ends(i)')
      BY <1>1, <3>1, Counted
    <3> QED BY <2>7, <3>2 DEF FileCounts, Users, Ends
  <2>9. TypeOK'
    <3>1. file' = [f \in File |-> file'[f]]
      BY <1>3
    <3>2. file' \in [File -> Files]
      BY <2>7, <3>1
    <3> QED BY <1>1, <2>4, <3>2, FreshPid DEF Inv, TypeOK
  <2>10. FilesOK'
    <3>1. \A x \in Slot \ {c}, d \in Fd : Open(x, d)' <=> Open(x, d)
      BY <2>4 DEF Open
    <3>2. (\A x \in Slot : ~Used(x) \/ task[x].pc \in Leaving => \A d \in Fd : ~Open(x, d))'
      BY <2>2, <2>4, <2>6, <3>1 DEF Inv, FilesOK, Leaving
    <3>3. (\A f \in File : file[f].count > 0 => file[f].ino \in Pipe)'
      BY <2>7 DEF Inv, FilesOK
    <3>4. (\A x \in Slot : task[x].pc \in OnPipe => task[x].arg \in Pipe)'
      BY <2>2, <2>4 DEF Inv, FilesOK, OnPipe
    <3> QED BY <3>2, <3>3, <3>4 DEF FilesOK
  <2>11. FamilyOK'
    <3>1. \A x \in Slot : Used(x) => task[x].pid # NextPid
      BY FreshPid DEF Pids
    <3>2. (\A y, x \in Slot : Used(y) /\ Used(x) /\ task[y].pid = task[x].pid => y = x)'
      BY <2>2, <2>4, <2>6, <3>1 DEF Inv, FamilyOK
    <3>3. (Used(Init1) /\ task[Init1].pid = 1 /\ task[Init1].pc \notin Leaving)'
      BY <1>0, <2>4, <2>5, <2>6 DEF Inv, FamilyOK
    <3>4. ASSUME NEW y \in Slot \ {Init1}, Used(y)'
          PROVE  \E f \in Slot : Used(f)' /\ task'[f].pid = task'[y].father /\ task'[f].pc \notin Leaving
      <4>1. CASE y = c
        BY <1>1, <2>2, <2>4, <2>5, <2>6, <4>1 DEF Leaving
      <4>2. CASE y # c
        <5>1. PICK f \in Slot : Used(f) /\ task[f].pid = task[y].father /\ task[f].pc \notin Leaving
          BY <2>6, <3>4, <4>2 DEF Inv, FamilyOK
        <5>2. f # c
          BY <2>1, <5>1
        <5> QED BY <2>4, <2>6, <4>2, <5>1, <5>2
      <4> QED BY <4>1, <4>2
    <3>5. (\A y \in Slot : task[y].st = "zombie" => task[y].pc = "dead")'
      BY <2>2, <2>4 DEF Inv, FamilyOK
    <3> QED BY <3>2, <3>3, <3>4, <3>5 DEF FamilyOK
  <2>12. WaiterTold'
    BY <2>2, <2>4, WaiterStep DEF Inv
  <2> QED BY <2>8, <2>9, <2>10, <2>11, <2>12 DEF Inv
<1> QED BY <1>2, <1>3 DEF sys_fork

-----------------------------------------------------------------------------
(* Opening.                                                                *)

\* A running task in user mode gets other descriptors.
LEMMA Opens ==
  ASSUME Inv, NEW s \in Slot, task[s].st = "run", task[s].pc = "user",
         NEW h \in [Fd -> {NULL} \cup File],
         task' = [task EXCEPT ![s] = [task[s] EXCEPT !.filp = h]],
         \A f \in File : file'[f].count > 0 => file'[f].ino \in Pipe
  PROVE  /\ task' \in [Slot -> Tasks] /\ FamilyOK' /\ WaiterTold' /\ FilesOK'
         /\ task'[s].filp = h /\ \A x \in Slot \ {s} : task'[x].filp = task[x].filp
<1> DEFINE n == [task[s] EXCEPT !.filp = h]
<1>1. /\ n \in Tasks /\ n.pid = task[s].pid /\ n.father = task[s].father /\ n.pc = task[s].pc
      /\ n.arg = task[s].arg /\ n.st = task[s].st /\ n.filp = h
  <2>1. task[s] \in Tasks
    BY AtFacts
  <2> QED BY <2>1 DEF Tasks
<1>2. task' = [task EXCEPT ![s] = n]
  OBVIOUS
<1> HIDE DEF n
<1>3. task' \in [Slot -> Tasks] /\ task'[s] = n /\ \A x \in Slot \ {s} : task'[x] = task[x]
  BY <1>1, <1>2 DEF Inv, TypeOK
<1>4. FamilyOK' /\ WaiterTold'
  <2>1. \A x \in Slot : Kin(task[x], task'[x])
    BY <1>1, <1>3 DEF Kin
  <2> QED BY <2>1, KinStep DEF Inv
<1>5. FilesOK'
  <2>1. \A x \in Slot \ {s}, d \in Fd : Open(x, d)' <=> Open(x, d)
    BY <1>3 DEF Open
  <2>2. Used(s)' /\ task'[s].pc \notin Leaving /\ task'[s].pc \notin OnPipe
    BY <1>1, <1>3 DEF Used, Leaving, OnPipe
  <2>3. \A x \in Slot \ {s} : Used(x)' <=> Used(x)
    BY <1>3 DEF Used
  <2>4. (\A x \in Slot : ~Used(x) \/ task[x].pc \in Leaving => \A d \in Fd : ~Open(x, d))'
    BY <1>3, <2>1, <2>2, <2>3 DEF Inv, FilesOK
  <2>5. (\A x \in Slot : task[x].pc \in OnPipe => task[x].arg \in Pipe)'
    BY <1>3, <2>2 DEF Inv, FilesOK
  <2> QED BY <2>4, <2>5 DEF FilesOK
<1> QED BY <1>1, <1>3, <1>4, <1>5

\* dupfd.
LEMMA DupInv ==
  ASSUME Inv, NEW s \in Slot, NEW d \in Fd, NEW arg \in Fd, dupfd(s, d, arg)
  PROVE  Inv'
<1> DEFINE free == {x \in FreeFds(s) : x >= arg}
<1>1. /\ task[s].st = "run" /\ task[s].pc = "user" /\ Open(s, d) /\ free # {}
      /\ task' = [task EXCEPT ![s].filp[Min(free)] = task[s].filp[d]]
      /\ file' = [file EXCEPT ![task[s].filp[d]].count = @ + 1]
      /\ UNCHANGED <<last_pid, pipe, busy>>
  BY DEF dupfd, Call, At
<1>2. PICK m \in Fd : m = Min(free) /\ ~Open(s, m)
  <2>1. free \in SUBSET Nat /\ free # {}
    BY <1>1, Finite DEF FreeFds
  <2>2. Min(free) \in free
    BY <2>1, MinNat
  <2> QED BY <2>2 DEF FreeFds
<1> HIDE DEF free
<1>3. PICK f \in File : f = task[s].filp[d] /\ file[f].count > 0 /\ file[f].ino \in Pipe
  BY <1>1, Referred
<1> DEFINE h == [task[s].filp EXCEPT ![m] = f]
<1>4. task[s].filp \in [Fd -> {NULL} \cup File] /\ task[s].filp[m] = NULL /\ f # NULL
  BY <1>2, AtFacts, ProcessAssumption DEF Open, Tasks, File, NULL
<1>5. h \in [Fd -> {NULL} \cup File] /\ h[m] = f /\ \A e \in Fd \ {m} : h[e] = task[s].filp[e]
  BY <1>4
<1>6. task' = [task EXCEPT ![s] = [task[s] EXCEPT !.filp = h]]
  BY <1>1, <1>2, <1>3
<1> HIDE DEF h
<1>7. file[f] \in Files /\ file[f].count \in Nat /\ file \in [File -> Files]
  BY Counted DEF Inv, TypeOK
<1> DEFINE q == [file[f] EXCEPT !.count = file[f].count + 1]
<1>8. q \in Files /\ q.count = file[f].count + 1 /\ q.ino = file[f].ino
  <2>1. PICK k \in Nat : k = file[f].count + 1
    BY <1>7
  <2> QED BY <1>7, <2>1 DEF Files
<1>9. file' = [file EXCEPT ![f] = q]
  BY <1>1, <1>3
<1> HIDE DEF q
<1>10. file' \in [File -> Files] /\ file'[f] = q /\ \A g \in File \ {f} : file'[g] = file[g]
  BY <1>7, <1>8, <1>9
<1>11. \A g \in File : (file'[g].count > 0 <=> file[g].count > 0) /\ file'[g].ino = file[g].ino
  BY <1>3, <1>7, <1>8, <1>10
<1>12. \A g \in File : file'[g].count > 0 => file'[g].ino \in Pipe
  BY <1>11 DEF Inv, FilesOK
<1>13. /\ task' \in [Slot -> Tasks] /\ FamilyOK' /\ WaiterTold' /\ FilesOK'
       /\ task'[s].filp = h /\ \A x \in Slot \ {s} : task'[x].filp = task[x].filp
  BY <1>1, <1>5, <1>6, <1>12, Opens
<1>14. file'[f].count = Cardinality(Users(f)')
  <2>1. {m} \in SUBSET Fd /\ Cardinality({m}) = 1
    BY FS_Singleton
  <2>2. Users(f)' = Users(f) \cup ({s} \X {m})
    <3>1. ASSUME NEW x \in Slot, NEW e \in Fd
          PROVE  <<x, e>> \in Users(f)' <=> <<x, e>> \in Users(f) \cup ({s} \X {m})
      <4>1. CASE x = s
        BY <1>5, <1>13, <4>1 DEF Users
      <4>2. CASE x # s
        BY <1>13, <4>2 DEF Users
      <4> QED BY <4>1, <4>2
    <3> QED BY <3>1 DEF Users
  <2>3. \A e \in {m} : task[s].filp[e] # f
    BY <1>4
  <2>4. PICK D \in SUBSET Fd : D = {m}
    BY <2>1
  <2>5. Cardinality(Users(f)') = file[f].count + Cardinality(D)
    BY <2>2, <2>3, <2>4, MoreUsers
  <2> QED BY <1>8, <1>10, <2>1, <2>4, <2>5
<1>15. ASSUME NEW g \in File \ {f} PROVE file'[g].count = Cardinality(Users(g)')
  <2>1. g # NULL
    BY ProcessAssumption DEF File, NULL
  <2>2. Users(g)' = Users(g)
    <3>1. ASSUME NEW x \in Slot, NEW e \in Fd PROVE <<x, e>> \in Users(g)' <=> <<x, e>> \in Users(g)
      <4>1. CASE x = s
        BY <1>4, <1>5, <1>13, <2>1, <4>1 DEF Users
      <4>2. CASE x # s
        BY <1>13, <4>2 DEF Users
      <4> QED BY <4>1, <4>2
    <3> QED BY <3>1 DEF Users
  <2>3. file[g].count = Cardinality(Users(g))
    BY Counted
  <2> QED BY <1>10, <2>2, <2>3
<1>16. FileCounts'
  <2>1. \A i \in Pipe : Ends(i)' = Ends(i)
    BY <1>11 DEF Ends
  <2>2. \A i \in Pipe : pipe'[i].count = Cardinality(Ends(i)')
    BY <1>1, <2>1, Counted
  <2>3. \A g \in File : file'[g].count = Cardinality(Users(g)')
    BY <1>14, <1>15
  <2> QED BY <2>2, <2>3 DEF FileCounts, Users, Ends
<1>17. TypeOK'
  BY <1>1, <1>10, <1>13 DEF Inv, TypeOK
<1> QED BY <1>13, <1>16, <1>17 DEF Inv

\* A file nobody refers to, and a pipe none of whose ends is open.
LEMMA Unused ==
  ASSUME Inv
  PROVE  /\ \A f \in File : file[f].count = 0 => Users(f) = {}
         /\ \A i \in Pipe : pipe[i].count = 0 => Ends(i) = {}
BY Counted, FS_EmptySet

\* sys_pipe.
LEMMA PipeInv ==
  ASSUME Inv, NEW s \in Slot, sys_pipe(s)
  PROVE  Inv'
<1> DEFINE ff == {f \in File : file[f].count = 0}
           fi == {i \in Pipe : pipe[i].count = 0}
           F0 == Min(ff)  F1 == Min(ff \ {F0})
           D0 == Min(FreeFds(s))  D1 == Min(FreeFds(s) \ {D0})
           I == Min(fi)
<1>1. /\ task[s].st = "run" /\ task[s].pc = "user" /\ UNCHANGED <<last_pid, busy>>
      /\ Cardinality(ff) >= 2 /\ Cardinality(FreeFds(s)) >= 2 /\ fi # {}
      /\ file' = [file EXCEPT ![F0] = [count |-> 1, ino |-> I, mode |-> "r"],
                              ![F1] = [count |-> 1, ino |-> I, mode |-> "w"]]
      /\ task' = [task EXCEPT ![s].filp[D0] = F0, ![s].filp[D1] = F1]
      /\ pipe' = [pipe EXCEPT ![I] = [NoPipe EXCEPT !.count = 2]]
  BY DEF sys_pipe, Call, At
<1>2. PICK f0 \in File, f1 \in File : f0 = F0 /\ f1 = F1 /\ f0 # f1 /\ file[f0].count = 0 /\ file[f1].count = 0
  <2>1. ff \in SUBSET File /\ File \in SUBSET Nat /\ IsFiniteSet(File)
    BY Finite
  <2>2. IsFiniteSet(ff)
    BY <2>1, FS_Subset
  <2> DEFINE S == ff
  <2>3. S \in SUBSET Nat /\ IsFiniteSet(S) /\ Cardinality(S) >= 2
    BY <1>1, <2>1, <2>2
  <2> HIDE DEF S
  <2>4. Min(S) \in S /\ Min(S \ {Min(S)}) \in S \ {Min(S)}
    BY <2>3, TwoLeast
  <2> QED BY <2>4 DEF S
<1>3. PICK d0 \in Fd, d1 \in Fd : d0 = D0 /\ d1 = D1 /\ d0 # d1 /\ ~Open(s, d0) /\ ~Open(s, d1)
  <2>1. FreeFds(s) \in SUBSET Fd /\ Fd \in SUBSET Nat /\ IsFiniteSet(Fd)
    BY Finite DEF FreeFds
  <2>2. IsFiniteSet(FreeFds(s))
    BY <2>1, FS_Subset
  <2>3. FreeFds(s) \in SUBSET Nat
    BY <2>1
  <2>4. D0 \in FreeFds(s) /\ D1 \in FreeFds(s) \ {D0}
    BY <1>1, <2>2, <2>3, TwoLeast
  <2> HIDE DEF D0, D1
  <2> QED BY <2>4 DEF FreeFds
<1>4. PICK i \in Pipe : i = I /\ pipe[i].count = 0
  <2>1. fi \in SUBSET Nat /\ fi # {}
    BY <1>1, Finite
  <2>2. Min(fi) \in fi
    BY <2>1, MinNat
  <2> QED BY <2>2
<1> DEFINE h == [task[s].filp EXCEPT ![d0] = f0, ![d1] = f1]
           r0 == [count |-> 1, ino |-> i, mode |-> "r"]
           r1 == [count |-> 1, ino |-> i, mode |-> "w"]
           q == [NoPipe EXCEPT !.count = 2]
<1> HIDE DEF F0, F1, D0, D1, I
<1>5. /\ task[s].filp \in [Fd -> {NULL} \cup File] /\ task[s].filp[d0] = NULL /\ task[s].filp[d1] = NULL
      /\ f0 # NULL /\ f1 # NULL
  BY <1>3, AtFacts, ProcessAssumption DEF Open, Tasks, File, NULL
<1>6. /\ h \in [Fd -> {NULL} \cup File] /\ h[d0] = f0 /\ h[d1] = f1
      /\ \A e \in Fd \ {d0, d1} : h[e] = task[s].filp[e]
  BY <1>3, <1>5
<1>7. task' = [task EXCEPT ![s] = [task[s] EXCEPT !.filp = h]]
  <2> DEFINE h0 == [task[s].filp EXCEPT ![d0] = f0]
             u == [task EXCEPT ![s] = [task[s] EXCEPT !.filp = h0]]
  <2>1. task' = [u EXCEPT ![s].filp[d1] = f1]
    BY <1>1, <1>2, <1>3
  <2>2. h = [h0 EXCEPT ![d1] = f1]
    OBVIOUS
  <2>3. PICK r \in Tasks : r = task[s] /\ task \in [Slot -> Tasks]
    BY DEF Inv, TypeOK
  <2> HIDE DEF h0, h
  <2>4. [[r EXCEPT !.filp = h0] EXCEPT !.filp = h] = [r EXCEPT !.filp = h] /\ [r EXCEPT !.filp = h0].filp = h0
    BY <2>3 DEF Tasks
  <2>5. u[s] = [r EXCEPT !.filp = h0]
    BY <2>3
  <2>6. task' = [u EXCEPT ![s] = [u[s] EXCEPT !.filp = h]]
    BY <2>1, <2>2, <2>4, <2>5
  <2>7. task' = [u EXCEPT ![s] = [r EXCEPT !.filp = h]]
    BY <2>4, <2>5, <2>6
  <2> QED BY <2>3, <2>7
<1> HIDE DEF h
<1>8. r0 \in Files /\ r0.count = 1 /\ r0.ino = i /\ r1 \in Files /\ r1.count = 1 /\ r1.ino = i
  BY DEF Files
<1>9. q \in Pipes /\ q.count = 2
  <2>1. [p \in Pos |-> 0] \in [Pos -> Number] /\ NULL \in {NULL} \cup Slot
    BY Zeros
  <2>2. NoPipe \in Pipes
    BY <2>1, Zeros DEF NoPipe, Pipes
  <2> QED BY <2>2 DEF Pipes
<1>10. file' = [file EXCEPT ![f0] = r0, ![f1] = r1] /\ pipe' = [pipe EXCEPT ![i] = q]
  BY <1>1, <1>2, <1>4
<1> HIDE DEF r0, r1, q
<1>11. /\ file' \in [File -> Files] /\ file'[f0] = r0 /\ file'[f1] = r1
       /\ \A g \in File \ {f0, f1} : file'[g] = file[g]
  BY <1>2, <1>8, <1>10, AtFacts
<1>12. pipe' \in [Pipe -> Pipes] /\ pipe'[i] = q /\ \A j \in Pipe \ {i} : pipe'[j] = pipe[j]
  BY <1>9, <1>10, AtFacts
<1>13. \A g \in File : file'[g].count > 0 => file'[g].ino \in Pipe
  BY <1>8, <1>11 DEF Inv, FilesOK
<1>14. /\ task' \in [Slot -> Tasks] /\ FamilyOK' /\ WaiterTold' /\ FilesOK'
       /\ task'[s].filp = h /\ \A x \in Slot \ {s} : task'[x].filp = task[x].filp
  BY <1>1, <1>6, <1>7, <1>13, Opens
<1>15. ASSUME NEW g \in File, NEW x \in Slot, NEW e \in Fd
       PROVE  task'[x].filp[e] = g <=>
                \/ task[x].filp[e] = g
                \/ x = s /\ e = d0 /\ g = f0
                \/ x = s /\ e = d1 /\ g = f1
  <2>1. g # NULL
    BY ProcessAssumption DEF File, NULL
  <2>2. CASE x = s
    BY <1>3, <1>5, <1>6, <1>14, <2>1, <2>2
  <2>3. CASE x # s
    BY <1>14, <2>3
  <2> QED BY <2>2, <2>3
<1>16. Users(f0)' = {<<s, d0>>} /\ Users(f1)' = {<<s, d1>>}
  <2>1. Users(f0) = {} /\ Users(f1) = {}
    BY <1>2, Unused
  <2>2. \A x \in Slot, e \in Fd : task[x].filp[e] # f0 /\ task[x].filp[e] # f1
    <3> SUFFICES ASSUME NEW x \in Slot, NEW e \in Fd PROVE task[x].filp[e] # f0 /\ task[x].filp[e] # f1
      OBVIOUS
    <3>1. <<x, e>> \notin Users(f0) /\ <<x, e>> \notin Users(f1)
      BY <2>1
    <3> QED BY <3>1 DEF Users
  <2>3. \A x \in Slot, e \in Fd : /\ task'[x].filp[e] = f0 <=> x = s /\ e = d0
                                  /\ task'[x].filp[e] = f1 <=> x = s /\ e = d1
    BY <1>2, <1>15, <2>2
  <2> QED BY <2>3 DEF Users
<1>17. ASSUME NEW g \in File \ {f0, f1} PROVE Users(g)' = Users(g)
  BY <1>15 DEF Users
<1>18. \A g \in File : file'[g].count = Cardinality(Users(g)')
  <2>1. file'[f0].count = Cardinality(Users(f0)') /\ file'[f1].count = Cardinality(Users(f1)')
    <3>1. Cardinality({<<s, d0>>}) = 1 /\ Cardinality({<<s, d1>>}) = 1
      BY FS_Singleton
    <3> QED BY <1>8, <1>11, <1>16, <3>1
  <2>2. \A g \in File \ {f0, f1} : file'[g].count = Cardinality(Users(g)')
    BY <1>11, <1>17, Counted
  <2> QED BY <2>1, <2>2
<1>19. ASSUME NEW j \in Pipe PROVE pipe'[j].count = Cardinality(Ends(j)')
  <2>1. \A g \in File \ {f0, f1} : g \in Ends(j)' <=> g \in Ends(j)
    BY <1>11 DEF Ends
  <2>2. f0 \notin Ends(j) /\ f1 \notin Ends(j)
    BY <1>2 DEF Ends
  <2>3. CASE j = i
    <3>1. f0 \in Ends(j)' /\ f1 \in Ends(j)'
      BY <1>8, <1>11, <2>3 DEF Ends
    <3>2. Ends(j) = {}
      BY <1>4, <2>3, Unused
    <3>3. Ends(j)' = {f0, f1}
      BY <2>1, <3>1, <3>2 DEF Ends
    <3>4. Cardinality({f0, f1}) = 2
      <4>1. IsFiniteSet({f0}) /\ Cardinality({f0}) = 1 /\ f1 \notin {f0}
        BY <1>2, FS_Singleton
      <4>2. Cardinality({f0} \cup {f1}) = Cardinality({f0}) + 1
        BY <4>1, FS_AddElement
      <4>3. {f0} \cup {f1} = {f0, f1}
        OBVIOUS
      <4> QED BY <4>1, <4>2, <4>3
    <3> QED BY <1>9, <1>12, <2>3, <3>3, <3>4
  <2>4. CASE j # i
    <3>1. f0 \notin Ends(j)' /\ f1 \notin Ends(j)'
      BY <1>8, <1>11, <2>4 DEF Ends
    <3>2. Ends(j)' = Ends(j)
      BY <2>1, <2>2, <3>1 DEF Ends
    <3>3. pipe[j].count = Cardinality(Ends(j))
      BY Counted
    <3> QED BY <1>12, <2>4, <3>2, <3>3
  <2> QED BY <2>3, <2>4
<1>20. FileCounts'
  BY <1>18, <1>19 DEF FileCounts, Users, Ends
<1>21. TypeOK'
  BY <1>1, <1>11, <1>12, <1>14 DEF Inv, TypeOK
<1> QED BY <1>14, <1>20, <1>21 DEF Inv

-----------------------------------------------------------------------------
(* The theorems.                                                           *)

\* Init is alone, without a father, and nothing is open.
LEMMA InitInv == Init => Inv
<1> SUFFICES ASSUME Init PROVE Inv
  OBVIOUS
<1> USE DEF Init
<1> DEFINE r == [NoTask EXCEPT !.st = "run", !.pid = 1]
<1>0. Init1 \in Slot
  BY ProcessAssumption DEF Init1, Slot
<1>1. r \in Tasks /\ r.st = "run" /\ r.pid = 1 /\ r.pc = "user" /\ r.filp = [d \in Fd |-> NULL]
  <2>1. 1 \in 0 .. MaxPid
    BY ProcessAssumption
  <2> QED BY <2>1, Nobody DEF Tasks, Status
<1> HIDE DEF r
<1>2. task = [x \in Slot |-> IF x = Init1 THEN r ELSE NoTask]
  BY DEF r
<1>3. /\ task \in [Slot -> Tasks] /\ task[Init1] = r /\ \A x \in Slot \ {Init1} : task[x] = NoTask
  BY <1>0, <1>1, <1>2, Nobody
<1>4. \A x \in Slot, d \in Fd : task[x].filp[d] = NULL
  BY <1>1, <1>3, Nobody
<1>5. NoFile \in Files /\ NoFile.count = 0
  BY DEF NoFile, Files, NULL
<1>6. NoPipe \in Pipes /\ NoPipe.count = 0
  <2>1. [p \in Pos |-> 0] \in [Pos -> Number] /\ NULL \in {NULL} \cup Slot
    BY Zeros
  <2> QED BY <2>1, Zeros DEF NoPipe, Pipes
<1>7. TypeOK
  <2>1. 1 \in 1 .. MaxPid
    BY ProcessAssumption
  <2> QED BY <1>3, <1>5, <1>6, <2>1 DEF TypeOK
<1>8. \A x \in Slot : Used(x) <=> x = Init1
  BY <1>1, <1>3, Nobody DEF Used
<1>9. FamilyOK
  BY <1>0, <1>1, <1>3, <1>8, Nobody DEF FamilyOK, Leaving
<1>10. WaiterTold
  BY <1>1, <1>3, Nobody DEF WaiterTold
<1>11. FilesOK
  BY <1>1, <1>3, <1>4, <1>5, Nobody DEF FilesOK, Open, OnPipe
<1>12. FileCounts
  <2>1. ASSUME NEW f \in File PROVE {x \in Slot \X Fd : task[x[1]].filp[x[2]] = f} = {}
    BY <1>4, ProcessAssumption DEF File, NULL
  <2>2. ASSUME NEW i \in Pipe PROVE {f \in File : file[f].count > 0 /\ file[f].ino = i} = {}
    BY <1>5
  <2> QED BY <1>5, <1>6, <2>1, <2>2, FS_EmptySet DEF FileCounts
<1> QED BY <1>7, <1>9, <1>10, <1>11, <1>12 DEF Inv

\* Every step keeps the invariant.
LEMMA NextInv == Inv /\ [Next]_vars => Inv'
<1> SUFFICES ASSUME Inv, [Next]_vars PROVE Inv'
  OBVIOUS
<1>1. CASE UNCHANGED vars
  <2>1. Calms(task')
    BY <1>1, CalmId DEF vars
  <2>2. pipe' \in [Pipe -> Pipes] /\ last_pid' \in 1 .. MaxPid /\ busy' \in {NULL} \cup Slot
    BY <1>1 DEF vars, Inv, TypeOK
  <2> QED BY <1>1, <2>1, <2>2, CalmStep DEF vars
<1>2. ASSUME NEW s \in Slot, sys_fork(s) PROVE Inv'
  BY <1>2, ForkInv
<1>3. ASSUME NEW s \in Slot, sys_exit(s) PROVE Inv'
  BY <1>3, ExitInv DEF sys_exit, At
<1>4. ASSUME NEW s \in Slot, BecomeZombie(s) PROVE Inv'
  BY <1>4, ZombieInv
<1>5. ASSUME NEW s \in Slot, NEW p \in 0 .. MaxPid, sys_waitpid(s, p) PROVE Inv'
  BY <1>5, WaitpidInv
<1>6. ASSUME NEW s \in Slot, WaitReturn(s) \/ Signalled(s) \/ do_signal(s) PROVE Inv'
  BY <1>6, WaitReturnInv, SignalledInv, SignalInv
<1>7. ASSUME NEW s \in Slot, NEW x \in Slot, sys_kill(s, x) PROVE Inv'
  BY <1>7, KillInv
<1>8. ASSUME NEW s \in Slot, NEW mask \in {{}, {"SIGCHLD"}}, sys_ssetmask(s, mask) PROVE Inv'
  BY <1>8, MaskInv
<1>9. ASSUME NEW s \in Slot, sys_pipe(s) PROVE Inv'
  BY <1>9, PipeInv
<1>10. ASSUME NEW s \in Slot, NEW d \in Fd, sys_close(s, d) PROVE Inv'
  BY <1>10, CloseInv
<1>11. ASSUME NEW s \in Slot, NEW d \in Fd, NEW arg \in Fd, dupfd(s, d, arg) PROVE Inv'
  BY <1>11, DupInv
<1>12. ASSUME NEW s \in Slot, NEW d \in Fd, NEW n \in 1 .. MaxCount, sys_read(s, d, n) \/ sys_write(s, d, n)
       PROVE  Inv'
  BY <1>12, StartInv
<1>13. ASSUME NEW s \in Slot, read_pipe(s) \/ write_pipe(s) \/ CopyFault(s) \/ Copy(s) \/ CopyOut(s)
       PROVE  Inv'
  BY <1>13, ReadInv, WriteInv, CopyFaultInv, CopyInv, CopyOutInv
<1>14. ASSUME NEW s \in Slot, SleepEnd(s, "rsleep", "read") \/ SleepEnd(s, "wsleep", "write") PROVE Inv'
  BY <1>14, SleepEndInv
<1> QED BY <1>1, <1>2, <1>3, <1>4, <1>5, <1>6, <1>7, <1>8, <1>9, <1>10, <1>11, <1>12, <1>13, <1>14
        DEF Next

\* The invariant holds in every state.
THEOREM ProcessInvariant == Spec => []Inv
<1> QED BY InitInv, NextInv, PTL DEF Spec

\* tell_father always finds exactly one father, and find_empty_process never
\* gives out a pid that is in use: every task but init has a father that is in
\* the table and not on its way out (FatherFound), for any number of tasks.
THEOREM FathersExist == Spec => []FatherFound
<1>1. Inv => FatherFound
  <2> SUFFICES ASSUME Inv, NEW s \in Slot, Used(s)
               PROVE  /\ Cardinality(Found(task[s].pid)) = 1
                      /\ s # Init1 => \E f \in Found(task[s].father) : task[f].pc \notin {"exit", "dead"}
    BY DEF FatherFound
  <2>1. Found(task[s].pid) = {s}
    BY DEF Found, Inv, FamilyOK
  <2>2. Cardinality({s}) = 1
    BY FS_Singleton
  <2>3. s # Init1 => \E f \in Found(task[s].father) : task[f].pc \notin {"exit", "dead"}
    BY DEF Found, Inv, FamilyOK, Leaving
  <2> QED BY <2>1, <2>2, <2>3
<1> QED BY <1>1, ProcessInvariant, PTL

\* A father that sleeps in waitpid while a child it waits for is a zombie has
\* SIGCHLD, whatever exits, changes its father or is waited for in between.
THEOREM WaitersTold == Spec => []WaiterTold
<1>1. Inv => WaiterTold
  BY DEF Inv
<1> QED BY <1>1, ProcessInvariant, PTL

\* f_count and i_count are right after every fork, close, dup, pipe and exit.
THEOREM FilesCounted == Spec => []FileCounts
<1>1. Inv => FileCounts
  BY DEF Inv
<1> QED BY <1>1, ProcessInvariant, PTL

-----------------------------------------------------------------------------
(* Pipes.  Bytes leave a pipe in the order they came, and nobody sleeps on *)
(* a pipe without a reason or somebody on the way to wake it, for any      *)
(* number of readers and writers and any size of the page.  PipesOK of     *)
(* Process is the inductive invariant, on top of Inv.                      *)

-----------------------------------------------------------------------------
(* The numbers of a ring.                                                  *)

\* The remainder of a number that is less than twice the divisor.
LEMMA Once ==
  ASSUME NEW m \in Nat \ {0}, NEW k \in 0 .. 2 * m - 1
  PROVE  k % m = IF k < m THEN k ELSE k - m
OBVIOUS

\* Positions and numbers that have gone round at most once.
LEMMA RingOnce ==
  /\ \A k \in Nat : k < 2 * PAGE_SIZE => Ring(k) = IF k < PAGE_SIZE THEN k ELSE k - PAGE_SIZE
  /\ \A k \in Nat : k < 4 * PAGE_SIZE =>
       Wrap(k) = IF k < 2 * PAGE_SIZE THEN k ELSE k - 2 * PAGE_SIZE
<1>0. PAGE_SIZE \in Nat \ {0}
  BY ProcessAssumption
<1>1. ASSUME NEW k \in Nat, k < 2 * PAGE_SIZE
      PROVE  Ring(k) = IF k < PAGE_SIZE THEN k ELSE k - PAGE_SIZE
  <2>1. k \in 0 .. 2 * PAGE_SIZE - 1
    BY <1>0, <1>1
  <2>2. k % PAGE_SIZE = IF k < PAGE_SIZE THEN k ELSE k - PAGE_SIZE
    BY <1>0, <2>1, Once
  <2> QED BY <2>2 DEF Ring
<1>2. ASSUME NEW k \in Nat, k < 4 * PAGE_SIZE
      PROVE  Wrap(k) = IF k < 2 * PAGE_SIZE THEN k ELSE k - 2 * PAGE_SIZE
  <2> DEFINE m == 2 * PAGE_SIZE
  <2>1. m \in Nat \ {0} /\ k \in 0 .. 2 * m - 1
    BY <1>0, <1>2
  <2> HIDE DEF m
  <2>2. k % m = IF k < m THEN k ELSE k - m
    BY <2>1, Once
  <2> QED BY <2>2 DEF Wrap, m
<1> QED BY <1>1, <1>2

\* The size of a pipe, and that of one whose head or tail has moved.
LEMMA Sizes ==
  ASSUME NEW h \in Pos, NEW l \in Pos
  PROVE  LET size(a, b) == (a + PAGE_SIZE - b) % PAGE_SIZE
         IN /\ size(h, l) = IF h >= l THEN h - l ELSE h + PAGE_SIZE - l
            /\ size(h, l) \in 0 .. PAGE_SIZE - 1
            /\ Ring(l + size(h, l)) = h
            /\ \A c \in 0 .. size(h, l) : size(h, Ring(l + c)) = size(h, l) - c
            /\ \A c \in Nat : size(h, l) + c < PAGE_SIZE => size(Ring(h + c), l) = size(h, l) + c
<1> DEFINE size(a, b) == (a + PAGE_SIZE - b) % PAGE_SIZE
<1>0. PAGE_SIZE \in Nat \ {0}
  BY ProcessAssumption
<1>1. ASSUME NEW a \in Pos, NEW b \in Pos
      PROVE  size(a, b) = IF a >= b THEN a - b ELSE a + PAGE_SIZE - b
  <2>1. a + PAGE_SIZE - b \in 0 .. 2 * PAGE_SIZE - 1
    BY <1>0 DEF Pos
  <2>2. (a + PAGE_SIZE - b) % PAGE_SIZE =
          IF a + PAGE_SIZE - b < PAGE_SIZE THEN a + PAGE_SIZE - b ELSE (a + PAGE_SIZE - b) - PAGE_SIZE
    <3> DEFINE k == a + PAGE_SIZE - b
    <3> HIDE DEF k
    <3>1. k % PAGE_SIZE = IF k < PAGE_SIZE THEN k ELSE k - PAGE_SIZE
      BY <1>0, <2>1, Once DEF k
    <3> QED BY <3>1 DEF k
  <2> HIDE DEF size
  <2>3. size(a, b) =
          IF a + PAGE_SIZE - b < PAGE_SIZE THEN a + PAGE_SIZE - b ELSE (a + PAGE_SIZE - b) - PAGE_SIZE
    BY <2>2 DEF size
  <2> QED BY <1>0, <2>3 DEF Pos
<1>2. ASSUME NEW a \in Pos, NEW c \in Nat, c < PAGE_SIZE
      PROVE  Ring(a + c) \in Pos /\ Ring(a + c) = IF a + c < PAGE_SIZE THEN a + c ELSE a + c - PAGE_SIZE
  <2>1. a + c \in Nat /\ a + c < 2 * PAGE_SIZE
    BY <1>0, <1>2 DEF Pos
  <2> QED BY <1>0, <2>1, RingOnce DEF Pos
<1> HIDE DEF size
<1>3. size(h, l) = IF h >= l THEN h - l ELSE h + PAGE_SIZE - l
  BY <1>1
<1>4. size(h, l) \in 0 .. PAGE_SIZE - 1
  BY <1>0, <1>3 DEF Pos
<1>5. Ring(l + size(h, l)) = h
  <2>1. size(h, l) \in Nat /\ size(h, l) < PAGE_SIZE
    BY <1>0, <1>4
  <2>2. Ring(l + size(h, l)) =
          IF l + size(h, l) < PAGE_SIZE THEN l + size(h, l) ELSE l + size(h, l) - PAGE_SIZE
    BY <1>2, <2>1
  <2> QED BY <1>0, <1>3, <2>2 DEF Pos
<1>6. ASSUME NEW c \in 0 .. size(h, l) PROVE size(h, Ring(l + c)) = size(h, l) - c
  <2>1. c \in Nat /\ c < PAGE_SIZE
    BY <1>0, <1>4
  <2>2. Ring(l + c) \in Pos /\ Ring(l + c) = IF l + c < PAGE_SIZE THEN l + c ELSE l + c - PAGE_SIZE
    BY <1>2, <2>1
  <2>3. size(h, Ring(l + c)) = IF h >= Ring(l + c) THEN h - Ring(l + c) ELSE h + PAGE_SIZE - Ring(l + c)
    BY <1>1, <2>2
  <2> QED BY <1>0, <1>3, <2>1, <2>2, <2>3 DEF Pos
<1>7. ASSUME NEW c \in Nat, size(h, l) + c < PAGE_SIZE PROVE size(Ring(h + c), l) = size(h, l) + c
  <2>1. c < PAGE_SIZE
    BY <1>0, <1>4, <1>7
  <2>2. Ring(h + c) \in Pos /\ Ring(h + c) = IF h + c < PAGE_SIZE THEN h + c ELSE h + c - PAGE_SIZE
    BY <1>2, <2>1
  <2>3. size(Ring(h + c), l) = IF Ring(h + c) >= l THEN Ring(h + c) - l ELSE Ring(h + c) + PAGE_SIZE - l
    BY <1>1, <2>2
  <2> QED BY <1>0, <1>3, <1>7, <2>1, <2>2, <2>3 DEF Pos
<1> QED BY <1>3, <1>4, <1>5, <1>6, <1>7 DEF size

\* The place and the number of a byte seen from a tail that has moved by c, and
\* of one at the head seen from the tail.
LEMMA Places ==
  ASSUME NEW l \in Pos, NEW k \in Number, NEW c \in Nat, NEW j \in Nat, c + j < PAGE_SIZE
  PROVE  /\ Ring(Ring(l + c) + j) = Ring(l + (c + j))
         /\ Wrap(Wrap(k + c) + j) = Wrap(k + (c + j))
         /\ Ring(l + c) \in Pos
<1>0. PAGE_SIZE \in Nat \ {0}
  BY ProcessAssumption
<1>1. Ring(l + c) = IF l + c < PAGE_SIZE THEN l + c ELSE l + c - PAGE_SIZE
  BY <1>0, RingOnce DEF Pos
<1>2. Ring(l + c) \in Pos
  BY <1>0, <1>1 DEF Pos
<1>3. Ring(Ring(l + c) + j) = IF Ring(l + c) + j < PAGE_SIZE THEN Ring(l + c) + j ELSE Ring(l + c) + j - PAGE_SIZE
  BY <1>0, <1>2, RingOnce DEF Pos
<1>4. Ring(l + (c + j)) = IF l + (c + j) < PAGE_SIZE THEN l + (c + j) ELSE l + (c + j) - PAGE_SIZE
  BY <1>0, RingOnce DEF Pos
<1>5. Wrap(k + c) = IF k + c < 2 * PAGE_SIZE THEN k + c ELSE k + c - 2 * PAGE_SIZE
  BY <1>0, RingOnce DEF Number
<1>6. Wrap(k + c) \in Number
  BY <1>0, <1>5 DEF Number
<1>7. Wrap(Wrap(k + c) + j) =
        IF Wrap(k + c) + j < 2 * PAGE_SIZE THEN Wrap(k + c) + j ELSE Wrap(k + c) + j - 2 * PAGE_SIZE
  BY <1>0, <1>6, RingOnce DEF Number
<1>8. Wrap(k + (c + j)) = IF k + (c + j) < 2 * PAGE_SIZE THEN k + (c + j) ELSE k + (c + j) - 2 * PAGE_SIZE
  BY <1>0, RingOnce DEF Number
<1>9. Ring(Ring(l + c) + j) = Ring(l + (c + j))
  BY <1>0, <1>1, <1>3, <1>4 DEF Pos
<1>10. Wrap(Wrap(k + c) + j) = Wrap(k + (c + j))
  BY <1>0, <1>5, <1>7, <1>8 DEF Number
<1> QED BY <1>2, <1>9, <1>10

\* Two bytes in a pipe have two places.
LEMMA TwoPlaces ==
  ASSUME NEW l \in Pos, NEW j \in Nat, NEW k \in Nat, j < PAGE_SIZE, k < PAGE_SIZE, Ring(l + j) = Ring(l + k)
  PROVE  j = k
<1>0. PAGE_SIZE \in Nat \ {0}
  BY ProcessAssumption
<1>1. /\ Ring(l + j) = IF l + j < PAGE_SIZE THEN l + j ELSE l + j - PAGE_SIZE
      /\ Ring(l + k) = IF l + k < PAGE_SIZE THEN l + k ELSE l + k - PAGE_SIZE
  BY <1>0, RingOnce DEF Pos
<1> QED BY <1>0, <1>1 DEF Pos

-----------------------------------------------------------------------------
(* What keeps each part of the invariant.                                  *)

\* A task that is on a pipe, before or after, stays where it is, though it may
\* be made runnable.
Still(r, n) ==
  r.pc \in OnPipe \/ n.pc \in OnPipe =>
    /\ n.pc = r.pc /\ n.arg = r.arg /\ n.tmp = r.tmp /\ n.filp = r.filp
    /\ n.at = r.at /\ n.chars = r.chars /\ n.num = r.num
    /\ n.st = r.st \/ n.st = "run"

\* A task has the same copy to make to or from pipe i, or none from it any more.
SameCopy(r, n, i) ==
  /\ n.pc = "copy" /\ n.arg = i <=> r.pc = "copy" /\ r.arg = i
  /\ n.pc = "rcopy" /\ n.arg = i => r.pc = "rcopy" /\ r.arg = i
  /\ n.pc \in {"copy", "rcopy"} /\ n.arg = i => n.at = r.at /\ n.chars = r.chars /\ n.num = r.num

\* The contents of a pipe are the same, and its queue too.
SameFlow(r, n) ==
  /\ n.head = r.head /\ n.tail = r.tail /\ n.bytes = r.bytes
  /\ n.wnum = r.wnum /\ n.rnum = r.rnum /\ n.torn = r.torn /\ n.wrong = r.wrong
SamePipe(r, n) == n.wait = r.wait /\ SameFlow(r, n)

\* A pipe nobody has used yet.
NewPipe(n) ==
  /\ n.wait = NULL /\ n.head = 0 /\ n.tail = 0 /\ n.wnum = 0 /\ n.rnum = 0
  /\ ~n.torn /\ ~n.wrong

\* An open file keeps its inode.
SameInodes == \A f \in File : file[f].count > 0 /\ file'[f].count > 0 => file'[f].ino = file[f].ino

\* Whoever has a descriptor of a file is counted.
LEMMA OpenCounted ==
  ASSUME Inv, NEW s \in Slot, NEW d \in Fd, Open(s, d)
  PROVE  task[s].filp[d] \in File /\ file[task[s].filp[d]].count > 0
<1>1. task[s].filp[d] \in File
  BY DEF Inv, TypeOK, Tasks, Open
<1> DEFINE f == task[s].filp[d]
           U == {x \in Slot \X Fd : task[x[1]].filp[x[2]] = f}
<1>2. <<s, d>> \in U
  OBVIOUS
<1>3. IsFiniteSet(U)
  <2>1. U \in SUBSET (Slot \X Fd)
    OBVIOUS
  <2> HIDE DEF U
  <2> QED BY <2>1, Finite, FS_Subset
<1>4. file[f].count = Cardinality(U)
  BY <1>1 DEF Inv, FileCounts
<1> HIDE DEF U
<1>5. Cardinality(U) # 0 /\ Cardinality(U) \in Nat
  BY <1>2, <1>3, FS_EmptySet, FS_CardinalityType
<1> QED BY <1>1, <1>4, <1>5

\* The same of all tasks.
LEMMA OpensCounted ==
  Inv => \A s \in Slot, d \in Fd :
           Open(s, d) => task[s].filp[d] \in File /\ file[task[s].filp[d]].count > 0
BY OpenCounted

\* The same after a step.
LEMMA OpensCountedNext ==
  Inv' => (\A s \in Slot, d \in Fd :
             Open(s, d) => task[s].filp[d] \in File /\ file[task[s].filp[d]].count > 0)'
BY OpensCounted, PTL

\* A pipe that some task is on has an open end.
LEMMA UserCounted ==
  ASSUME Inv, UsersOK, NEW s \in Slot, task[s].pc \in OnPipe, NEW i \in Pipe, task[s].arg = i
  PROVE  pipe[i].count # 0
<1>1. PICK d \in Fd : Open(s, d) /\ file[task[s].filp[d]].ino = i
  BY DEF UsersOK
<1> DEFINE f == task[s].filp[d]
           E == {g \in File : file[g].count > 0 /\ file[g].ino = i}
<1>2. f \in File /\ file[f].count > 0
  BY <1>1, OpenCounted
<1>3. f \in E
  BY <1>1, <1>2
<1>4. IsFiniteSet(E)
  <2>1. E \in SUBSET File
    OBVIOUS
  <2> HIDE DEF E
  <2> QED BY <2>1, Finite, FS_Subset
<1>5. pipe[i].count = Cardinality(E)
  BY DEF Inv, FileCounts
<1> HIDE DEF E
<1> QED BY <1>3, <1>4, <1>5, FS_EmptySet

\* A step in which no task comes to a pipe, and nobody who is on one closes it.
LEMMA UsersStep ==
  ASSUME Inv, Inv', UsersOK, SameInodes,
         \A x \in Slot : task'[x].pc \in OnPipe =>
           /\ task[x].pc \in OnPipe /\ task'[x].arg = task[x].arg /\ task'[x].filp = task[x].filp
           /\ task'[x].st = "run" \/ (task'[x].st = "unint" /\ task'[x].pc \in {"rsleep", "wsleep"})
  PROVE  UsersOK'
<1> SUFFICES ASSUME NEW s \in Slot, task'[s].pc \in OnPipe
             PROVE  \E d \in Fd : Open(s, d)' /\ file'[task'[s].filp[d]].ino = task'[s].arg
  BY DEF UsersOK
<1>1. PICK d \in Fd : Open(s, d) /\ file[task[s].filp[d]].ino = task[s].arg
  BY DEF UsersOK
<1>2. task'[s].filp = task[s].filp /\ task'[s].arg = task[s].arg
  OBVIOUS
<1>3. Open(s, d)'
  BY <1>1, <1>2 DEF Open
<1>4. task[s].filp[d] \in File /\ file[task[s].filp[d]].count > 0
  BY <1>1, OpenCounted
<1>5. file'[task[s].filp[d]].count > 0
  <2>1. (task[s].filp[d] \in File /\ file[task[s].filp[d]].count > 0)'
    BY <1>3, OpensCountedNext
  <2> QED BY <1>2, <2>1
<1>6. file'[task[s].filp[d]].ino = task[s].arg
  BY <1>1, <1>4, <1>5 DEF SameInodes
<1> QED BY <1>2, <1>3, <1>6

\* Neither the pipe nor the copies to it and from it change.
LEMMA FlowSame ==
  ASSUME NEW i \in Pipe, Flow(i), SameFlow(pipe[i], pipe'[i]),
         \A x \in Slot : SameCopy(task[x], task'[x], i)
  PROVE  Flow(i)'
<1>1. \A p : Pending(i, p, "copy")' <=> Pending(i, p, "copy")
  BY DEF Pending, SameCopy
<1>2. PIPE_SIZE(i)' = PIPE_SIZE(i) /\ InPipe(i)' = InPipe(i)
  BY DEF PIPE_SIZE, InPipe, SameFlow
<1>3. \A j : Where(i, j)' = Where(i, j) /\ Num(i, j)' = Num(i, j)
  BY DEF Where, Num, SameFlow
<1>4. pipe'[i].wnum = pipe[i].wnum /\ pipe'[i].torn = pipe[i].torn /\ pipe'[i].bytes = pipe[i].bytes
  BY DEF SameFlow
<1>5. pipe'[i].wnum = Num(i, PIPE_SIZE(i))'
  BY <1>2, <1>3, <1>4 DEF Flow
<1>6. ASSUME ~pipe[i].torn
      PROVE  \A j \in InPipe(i)' : Pending(i, Where(i, j), "copy")' \/ pipe'[i].bytes[Where(i, j)'] = Num(i, j)'
  BY <1>1, <1>2, <1>3, <1>4, <1>6 DEF Flow
<1>7. ASSUME ~pipe[i].torn, NEW x \in Slot, task'[x].pc = "copy", task'[x].arg = i,
             NEW p \in Piece(task'[x].at, task'[x].chars)
      PROVE  \E j \in InPipe(i)' : p = Where(i, j)' /\ Wrap(task'[x].num + p - task'[x].at) = Num(i, j)'
  <2>1. task[x].pc = "copy" /\ task[x].arg = i /\ task'[x].at = task[x].at
        /\ task'[x].chars = task[x].chars /\ task'[x].num = task[x].num
    BY <1>7 DEF SameCopy
  <2>2. PICK j \in InPipe(i) : p = Where(i, j) /\ Wrap(task[x].num + p - task[x].at) = Num(i, j)
    BY <1>7, <2>1 DEF Flow
  <2> QED BY <1>2, <1>3, <2>1, <2>2
<1>8. ASSUME ~pipe[i].torn, NEW x \in Slot, task'[x].pc = "rcopy", task'[x].arg = i,
             NEW p \in Piece(task'[x].at, task'[x].chars)
      PROVE  /\ p \in Pos /\ pipe'[i].bytes[p] = Wrap(task'[x].num + p - task'[x].at)
             /\ \A j \in InPipe(i)' : p # Where(i, j)'
  <2>1. task[x].pc = "rcopy" /\ task[x].arg = i /\ task'[x].at = task[x].at
        /\ task'[x].chars = task[x].chars /\ task'[x].num = task[x].num
    BY <1>8 DEF SameCopy
  <2>2. /\ p \in Pos /\ pipe[i].bytes[p] = Wrap(task[x].num + p - task[x].at)
        /\ \A j \in InPipe(i) : p # Where(i, j)
    BY <1>8, <2>1 DEF Flow
  <2> QED BY <1>2, <1>3, <1>4, <2>1, <2>2
<1> QED BY <1>4, <1>5, <1>6, <1>7, <1>8 DEF Flow

\* A pipe nobody has used yet, and nobody is on.
LEMMA FlowNew ==
  ASSUME NEW i \in Pipe, NewPipe(pipe[i]),
         \A x \in Slot : task[x].pc \in {"copy", "rcopy"} => task[x].arg # i
  PROVE  Flow(i)
<1>0. PAGE_SIZE \in Nat \ {0}
  BY ProcessAssumption
<1>1. PIPE_SIZE(i) = 0
  <2>1. pipe[i].head = 0 /\ pipe[i].tail = 0 /\ 0 \in Pos
    BY Zeros DEF NewPipe
  <2>2. (0 + PAGE_SIZE - 0) % PAGE_SIZE = IF 0 >= 0 THEN 0 - 0 ELSE 0 + PAGE_SIZE - 0
    BY <2>1, Sizes
  <2> QED BY <2>1, <2>2 DEF PIPE_SIZE
<1>2. InPipe(i) = {}
  BY <1>1 DEF InPipe
<1>3. pipe[i].wnum = Num(i, PIPE_SIZE(i))
  <2>1. Wrap(0) = 0
    BY <1>0, RingOnce
  <2> QED BY <1>1, <2>1 DEF Num, NewPipe
<1> QED BY <1>2, <1>3 DEF Flow

\* Nobody comes to the queue of a pipe, and whoever leaves it has woken the one
\* below.
LEMMA ChainStep ==
  ASSUME NEW i \in Pipe, Chain(i), pipe'[i].wait = pipe[i].wait,
         \A x \in Slot : Member(x, i)' =>
           Member(x, i) /\ task'[x].tmp = task[x].tmp /\ (task'[x].st = task[x].st \/ task'[x].st = "run"),
         \A x, z \in Slot : Member(x, i) /\ ~Member(x, i)' /\ task[x].tmp = z => ~Sleeps(z, i)'
  PROVE  Chain(i)'
<1> SUFFICES ASSUME NEW S \in SUBSET Slot, S # {}, pipe'[i].wait \notin S, \A s \in S : Sleeps(s, i)'
             PROVE  \E y \in Slot \ S : Member(y, i)' /\ task'[y].tmp \in S
                                        /\ ~(y = pipe'[i].wait /\ Sleeps(y, i)')
  BY DEF Chain
<1>1. \A x \in Slot : Sleeps(x, i)' => Sleeps(x, i)
  BY DEF Sleeps
<1>2. PICK y \in Slot \ S : Member(y, i) /\ task[y].tmp \in S /\ ~(y = pipe[i].wait /\ Sleeps(y, i))
  BY <1>1 DEF Chain
<1>4. Member(y, i)'
  BY <1>2
<1> QED BY <1>1, <1>2, <1>4

\* Nobody is in the queue of a pipe.
LEMMA ChainNew ==
  ASSUME NEW i \in Pipe, \A x \in Slot : ~Member(x, i)
  PROVE  Chain(i)
BY DEF Chain, Sleeps

\* The top of a queue does not sleep, or nobody stops what it waits for.
LEMMA TopStep ==
  ASSUME NEW i \in Pipe, pipe[i].wait \in {NULL} \cup Slot, Top(i), pipe'[i].wait = pipe[i].wait,
         pipe'[i].count = pipe[i].count, pipe'[i].head = pipe[i].head, pipe'[i].tail = pipe[i].tail,
         \A x \in Slot : Sleeps(x, i)' => Sleeps(x, i) /\ task'[x].pc = task[x].pc,
         \A x \in Slot : Active(x, i) => Active(x, i)'
  PROVE  Top(i)'
<1> SUFFICES ASSUME pipe[i].wait # NULL, Sleeps(pipe[i].wait, i)'
             PROVE  Reason(pipe[i].wait, i)' \/ \E x \in Slot : Active(x, i)'
  BY DEF Top
<1>1. PICK w \in Slot : w = pipe[i].wait
  OBVIOUS
<1>2. Sleeps(w, i)' /\ w # NULL
  BY <1>1
<1>3. Reason(w, i) \/ \E x \in Slot : Active(x, i)
  BY <1>1, <1>2 DEF Top
<1>4. Reason(w, i) => Reason(w, i)'
  BY <1>2 DEF Reason, PIPE_SIZE, Room
<1> QED BY <1>1, <1>3, <1>4

\* The last three facts for all pipes, and after a step.
LEMMA Quiet ==
  /\ Inv /\ UsersOK =>
       \A i \in Pipe : pipe[i].count = 0 => \A x \in Slot : task[x].pc \in OnPipe => task[x].arg # i
  /\ \A i \in Pipe : NewPipe(pipe[i]) /\ (\A x \in Slot : task[x].pc \in OnPipe => task[x].arg # i) =>
       Flow(i) /\ Chain(i) /\ Top(i)
<1>1. ASSUME NEW i \in Pipe, NewPipe(pipe[i]), \A x \in Slot : task[x].pc \in OnPipe => task[x].arg # i
      PROVE  Flow(i) /\ Chain(i) /\ Top(i)
  <2>1. Flow(i)
    BY <1>1, FlowNew DEF OnPipe
  <2>2. Chain(i)
    BY <1>1, ChainNew DEF OnPipe, Member
  <2>3. Top(i)
    BY <1>1 DEF Top, NewPipe
  <2> QED BY <2>1, <2>2, <2>3
<1> QED BY <1>1, UserCounted

\* The same after a step.
LEMMA QuietNext ==
  /\ Inv' /\ UsersOK' =>
       (\A i \in Pipe : pipe[i].count = 0 => \A x \in Slot : task[x].pc \in OnPipe => task[x].arg # i)'
  /\ (\A i \in Pipe : NewPipe(pipe[i]) /\ (\A x \in Slot : task[x].pc \in OnPipe => task[x].arg # i) =>
       Flow(i) /\ Chain(i) /\ Top(i))'
BY Quiet, PTL

\* A pipe in a step of tasks that are not on it: it stays as it is, it loses an
\* end and its top is woken, or it is taken or given back.
Calmed(i) ==
  \/ /\ SamePipe(pipe[i], pipe'[i])
     /\ pipe'[i].count = pipe[i].count \/ pipe[i].wait = NULL \/ task'[pipe[i].wait].st # "unint"
  \/ NewPipe(pipe'[i]) /\ (pipe[i].count = 0 \/ pipe'[i].count = 0)

\* All tasks on pipes stay where they are.
LEMMA StillStep ==
  ASSUME Inv, Inv', PipesOK, SameInodes, \A x \in Slot : Still(task[x], task'[x]),
         \A i \in Pipe : Calmed(i)
  PROVE  PipesOK'
<1>1. UsersOK'
  <2>1. \A x \in Slot : task'[x].pc \in OnPipe =>
           /\ task[x].pc \in OnPipe /\ task'[x].arg = task[x].arg /\ task'[x].filp = task[x].filp
           /\ task'[x].st = "run" \/ (task'[x].st = "unint" /\ task'[x].pc \in {"rsleep", "wsleep"})
    BY DEF Still, PipesOK, UsersOK
  <2> QED BY <2>1, UsersStep DEF PipesOK
<1>2. PipeFifo'
  BY DEF PipesOK, PipeFifo, Calmed, SamePipe, SameFlow, NewPipe
<1>3. ASSUME NEW i \in Pipe PROVE Flow(i)' /\ Chain(i)' /\ Top(i)'
  <2>0. Flow(i) /\ Chain(i) /\ Top(i) /\ pipe[i].wait \in {NULL} \cup Slot
    BY DEF PipesOK, Inv, TypeOK, Pipes
  <2>1. CASE /\ SamePipe(pipe[i], pipe'[i])
             /\ pipe'[i].count = pipe[i].count \/ pipe[i].wait = NULL \/ task'[pipe[i].wait].st # "unint"
    <3>1. Flow(i)'
      BY <2>0, <2>1, FlowSame DEF Still, OnPipe, SamePipe, SameCopy
    <3>2. \A x \in Slot : /\ Member(x, i)' <=> Member(x, i)
                          /\ Member(x, i)' => /\ task'[x].tmp = task[x].tmp /\ task'[x].pc = task[x].pc
                                              /\ task'[x].st = task[x].st \/ task'[x].st = "run"
      BY DEF Still, OnPipe, Member
    <3>3. Chain(i)'
      BY <2>0, <2>1, <3>2, ChainStep DEF SamePipe, SameFlow
    <3>4. Top(i)'
      <4>1. CASE pipe[i].wait = NULL \/ task'[pipe[i].wait].st # "unint"
        BY <2>1, <4>1 DEF Top, SamePipe, SameFlow, Sleeps
      <4>2. CASE pipe'[i].count = pipe[i].count
        <5>1. \A x \in Slot : Sleeps(x, i)' => Sleeps(x, i) /\ task'[x].pc = task[x].pc
          BY <3>2 DEF Sleeps
        <5>2. \A x \in Slot : Active(x, i) => Active(x, i)'
          BY DEF Active, Still, OnPipe
        <5> QED BY <2>0, <2>1, <4>2, <5>1, <5>2, TopStep DEF SamePipe, SameFlow
      <4> QED BY <2>1, <4>1, <4>2
    <3> QED BY <3>1, <3>3, <3>4
  <2>2. CASE NewPipe(pipe'[i]) /\ (pipe[i].count = 0 \/ pipe'[i].count = 0)
    <3>1. \A x \in Slot : task'[x].pc \in OnPipe => task'[x].arg # i
      <4>1. CASE pipe[i].count = 0
        <5>1. \A x \in Slot : task[x].pc \in OnPipe => task[x].arg # i
          BY <4>1, Quiet DEF PipesOK
        <5> QED BY <5>1 DEF Still
      <4>2. CASE pipe'[i].count = 0
        BY <1>1, <4>2, QuietNext
      <4> QED BY <2>2, <4>1, <4>2
    <3> QED BY <2>2, <3>1, QuietNext
  <2> QED BY <2>1, <2>2 DEF Calmed
<1> QED BY <1>1, <1>2, <1>3 DEF PipesOK

-----------------------------------------------------------------------------
(* Actions that leave the tasks on pipes where they are.                   *)

\* Files and pipes stay the same.
LEMMA StillOnly ==
  ASSUME Inv, Inv', PipesOK, UNCHANGED <<file, pipe>>, \A x \in Slot : Still(task[x], task'[x])
  PROVE  PipesOK'
<1>1. SameInodes
  BY DEF SameInodes
<1>2. \A i \in Pipe : Calmed(i)
  BY DEF Calmed, SamePipe, SameFlow
<1> QED BY <1>1, <1>2, StillStep

\* A record is replaced by one in which only what pipes do not look at differs.
LEMMA StillSame ==
  ASSUME NEW r \in Tasks
  PROVE  /\ Still(r, r)
         /\ r.st # "none" => Still(r, [r EXCEPT !.st = "run"])
         /\ \A g : Still(r, [r EXCEPT !.sig = g]) /\ Still(r, [r EXCEPT !.blocked = g])
BY DEF Still, Tasks

\* A step of one task that leaves it off the pipes.
LEMMA StillUser ==
  ASSUME NEW r, NEW n, r.pc \notin OnPipe, n.pc \notin OnPipe
  PROVE  Still(r, n)
BY DEF Still

\* schedule() of a task with a signal.
LEMMA SignalledPipes ==
  ASSUME Inv, Inv', PipesOK, NEW s \in Slot, Signalled(s)
  PROVE  PipesOK'
<1>1. task[s] \in Tasks /\ task \in [Slot -> Tasks]
  BY DEF Inv, TypeOK
<1> DEFINE n == [task[s] EXCEPT !.st = "run"]
<1>2. Still(task[s], n)
  BY <1>1, StillSame DEF Signalled
<1>3. task' = [task EXCEPT ![s] = n]
  BY DEF Signalled
<1> HIDE DEF n
<1>4. \A x \in Slot : Still(task[x], task'[x])
  BY <1>1, <1>2, <1>3, StillSame
<1> QED BY <1>4, StillOnly DEF Signalled

\* A signal is sent.
LEMMA KillPipes ==
  ASSUME Inv, Inv', PipesOK, NEW s \in Slot, NEW y \in Slot, sys_kill(s, y)
  PROVE  PipesOK'
<1>1. task[y] \in Tasks /\ task \in [Slot -> Tasks]
  BY DEF Inv, TypeOK
<1> DEFINE g == task[y].sig \cup {"SIGKILL"}
           n == [task[y] EXCEPT !.sig = g]
<1>2. Still(task[y], n)
  BY <1>1, StillSame
<1>3. task' = [task EXCEPT ![y] = n]
  BY DEF sys_kill
<1> HIDE DEF n
<1>4. \A x \in Slot : Still(task[x], task'[x])
  BY <1>1, <1>2, <1>3, StillSame
<1> QED BY <1>4, StillOnly DEF sys_kill

\* Signals are blocked.
LEMMA MaskPipes ==
  ASSUME Inv, Inv', PipesOK, NEW s \in Slot, NEW mask, sys_ssetmask(s, mask)
  PROVE  PipesOK'
<1>1. task[s] \in Tasks /\ task \in [Slot -> Tasks]
  BY DEF Inv, TypeOK
<1> DEFINE g == mask \ {"SIGKILL"}
           n == [task[s] EXCEPT !.blocked = g]
<1>2. Still(task[s], n)
  BY <1>1, StillSame
<1>3. task' = [task EXCEPT ![s] = n]
  BY DEF sys_ssetmask
<1> HIDE DEF n
<1>4. \A x \in Slot : Still(task[x], task'[x])
  BY <1>1, <1>2, <1>3, StillSame
<1> QED BY <1>4, StillOnly DEF sys_ssetmask

\* A page fault in the middle of a copy.
LEMMA FaultPipes ==
  ASSUME Inv, Inv', PipesOK, NEW s \in Slot, CopyFault(s)
  PROVE  PipesOK'
<1>1. \A x \in Slot : Still(task[x], task'[x])
  BY StillSame DEF CopyFault, Inv, TypeOK
<1> QED BY <1>1, StillOnly DEF CopyFault

\* The scan of the children, from user mode or after a sleep in waitpid.
LEMMA ScanPipes ==
  ASSUME Inv, Inv', PipesOK, NEW s \in Slot, task[s].pc \in {"user", "waitpid"}, NEW pid, NEW t,
         t \in [Slot -> Tasks], t[s].pc = task[s].pc, \A x \in Slot \ {s} : t[x] = task[x],
         Scan(s, pid, t) \/ task' = Return(t, s), UNCHANGED <<file, pipe>>
  PROVE  PipesOK'
<1>1. task \in [Slot -> Tasks]
  BY DEF Inv, TypeOK
<1> DEFINE u == Return(t, s)
           v == [t EXCEPT ![s] = [@ EXCEPT !.st = "int", !.pc = "waitpid", !.arg = pid]]
<1>2. u[s].pc = "user" /\ v[s].pc = "waitpid" /\ u \in [Slot -> {u[x] : x \in Slot}]
      /\ \A x \in Slot \ {s} : u[x] = t[x] /\ v[x] = t[x]
  BY <1>1 DEF Return, Tasks
<1>3. \/ task' = u \/ task' = v
      \/ \E z \in Slot : task[z].st = "zombie" /\ task' = [u EXCEPT ![z] = NoTask]
  <2> DEFINE kids == Children(s, pid)
             dead == {x \in kids : task[x].st = "zombie"}
  <2>1. CASE task' = Return(t, s)
    BY <2>1
  <2>2. CASE Scan(s, pid, t) /\ dead # {}
    <3>1. task' = [u EXCEPT ![Max(dead)] = NoTask]
      BY <2>2 DEF Scan
    <3>2. dead \in SUBSET Slot
      BY DEF Children
    <3>3. Max(dead) \in dead
      <4> HIDE DEF dead
      <4>1. \A x \in dead : x <= NR_TASKS
        BY <3>2, ProcessAssumption DEF Slot
      <4>2. dead \in SUBSET Nat /\ NR_TASKS \in Nat
        BY <3>2, Finite, ProcessAssumption
      <4> QED BY <2>2, <4>1, <4>2, MaxNat
    <3> QED BY <3>1, <3>2, <3>3
  <2>3. CASE Scan(s, pid, t) /\ dead = {}
    BY <2>3 DEF Scan
  <2> QED BY <2>1, <2>2, <2>3
<1> HIDE DEF u, v
<1>4. ASSUME NEW x \in Slot PROVE Still(task[x], task'[x])
  <2>1. CASE task' = u \/ task' = v
    <3>1. CASE x = s
      BY <1>2, <2>1, <3>1, StillUser DEF OnPipe
    <3>2. CASE x # s
      BY <1>1, <1>2, <2>1, <3>2, StillSame
    <3> QED BY <3>1, <3>2
  <2>2. CASE \E z \in Slot : task[z].st = "zombie" /\ task' = [u EXCEPT ![z] = NoTask]
    <3>1. PICK z \in Slot : task[z].st = "zombie" /\ task' = [u EXCEPT ![z] = NoTask]
      BY <2>2
    <3>2. task[z].pc = "dead"
      BY <3>1 DEF Inv, FamilyOK
    <3>3. task'[z].pc = "user"
      BY <1>2, <3>1 DEF NoTask
    <3>4. CASE x = z
      BY <3>2, <3>3, <3>4, StillUser DEF OnPipe
    <3>5. CASE x # z
      <4>1. task'[x] = u[x]
        BY <1>2, <3>1, <3>5
      <4>2. CASE x = s
        BY <1>2, <4>1, <4>2, StillUser DEF OnPipe
      <4>3. CASE x # s
        BY <1>1, <1>2, <4>1, <4>3, StillSame
      <4> QED BY <4>2, <4>3
    <3> QED BY <3>4, <3>5
  <2> QED BY <1>3, <2>1, <2>2
<1> QED BY <1>4, StillOnly

\* waitpid.
LEMMA WaitPipes ==
  ASSUME Inv, Inv', PipesOK, NEW s \in Slot, WaitReturn(s) \/ \E pid \in 0 .. MaxPid : sys_waitpid(s, pid)
  PROVE  PipesOK'
<1>1. task \in [Slot -> Tasks] /\ task[s] \in Tasks
  BY DEF Inv, TypeOK
<1>2. CASE WaitReturn(s)
  <2> DEFINE g == task[s].sig \ {"SIGCHLD"}
             n == [task[s] EXCEPT !.sig = g]
             t == [task EXCEPT ![s] = n]
  <2>1. n \in Tasks /\ n.pc = task[s].pc
    BY <1>1 DEF Tasks
  <2>2. WaitAgain(s, t)
    BY <1>2 DEF WaitReturn
  <2> HIDE DEF n
  <2>3. t \in [Slot -> Tasks] /\ t[s].pc = task[s].pc /\ \A x \in Slot \ {s} : t[x] = task[x]
    BY <1>1, <2>1
  <2> HIDE DEF t
  <2>4. Scan(s, task[s].arg, t) \/ task' = Return(t, s)
    BY <2>2 DEF WaitAgain
  <2>5. task[s].pc = "waitpid" /\ UNCHANGED <<file, pipe>>
    BY <1>2 DEF WaitReturn, At
  <2> QED BY <2>3, <2>4, <2>5, ScanPipes
<1>3. ASSUME NEW pid \in 0 .. MaxPid, sys_waitpid(s, pid) PROVE PipesOK'
  <2>1. Scan(s, pid, task) /\ task[s].pc = "user" /\ UNCHANGED <<file, pipe>>
    BY <1>3 DEF sys_waitpid, Call, At
  <2> QED BY <1>1, <2>1, ScanPipes
<1> QED BY <1>2, <1>3

\* The end of do_exit.
LEMMA ZombiePipes ==
  ASSUME Inv, Inv', PipesOK, NEW s \in Slot, BecomeZombie(s)
  PROVE  PipesOK'
<1>1. task \in [Slot -> Tasks] /\ task[s] \in Tasks /\ task[s].pc = "exit"
  BY DEF Inv, TypeOK, BecomeZombie, At
<1> DEFINE fathers == Found(task[s].father)
           z == [task EXCEPT ![s] = [@ EXCEPT !.st = "zombie", !.pc = "dead"]]
<1>2. z \in [Slot -> Tasks] /\ z[s].pc = "dead" /\ \A x \in Slot \ {s} : z[x] = task[x]
  <2> DEFINE n == [task[s] EXCEPT !.st = "zombie", !.pc = "dead"]
  <2>1. n \in Tasks /\ n.pc = "dead"
    BY <1>1 DEF Tasks, Status, Place
  <2> HIDE DEF n
  <2>2. z = [task EXCEPT ![s] = n]
    BY DEF n
  <2> QED BY <1>1, <2>1, <2>2
<1>3. \/ task' = [task EXCEPT ![s] = NoTask]
      \/ task' = [z EXCEPT ![Min(fathers)].sig = @ \cup {"SIGCHLD"}] /\ Min(fathers) \in Slot
  <2>1. CASE fathers = {}
    BY <2>1 DEF BecomeZombie
  <2>2. CASE fathers # {}
    <3>1. fathers \in SUBSET Slot
      BY DEF Found
    <3>2. Min(fathers) \in Slot
      <4> HIDE DEF fathers
      <4>1. fathers \in SUBSET Nat
        BY <3>1, Finite
      <4> QED BY <2>2, <3>1, <4>1, MinNat
    <3> QED BY <2>2, <3>2 DEF BecomeZombie
  <2> QED BY <2>1, <2>2
<1> HIDE DEF z, fathers
<1>4. ASSUME NEW x \in Slot PROVE Still(task[x], task'[x])
  <2>1. CASE task' = [task EXCEPT ![s] = NoTask]
    <3>1. NoTask.pc = "user"
      BY DEF NoTask
    <3> QED BY <1>1, <2>1, <3>1, StillUser, StillSame DEF OnPipe
  <2>2. CASE task' = [z EXCEPT ![Min(fathers)].sig = @ \cup {"SIGCHLD"}] /\ Min(fathers) \in Slot
    <3>1. PICK f \in Slot : task' = [z EXCEPT ![f].sig = @ \cup {"SIGCHLD"}]
      BY <2>2
    <3> DEFINE g == z[f].sig \cup {"SIGCHLD"}
               n == [z[f] EXCEPT !.sig = g]
    <3>2. Still(z[f], n) /\ n.pc = z[f].pc
      <4>1. z[f] \in Tasks
        BY <1>2
      <4>2. Still(z[f], n)
        BY <4>1, StillSame
      <4> QED BY <4>1, <4>2 DEF Tasks
    <3>3. task' = [z EXCEPT ![f] = n]
      BY <3>1
    <3> HIDE DEF n
    <3>4. CASE x = s
      <4>1. task'[s].pc = "dead"
        BY <1>2, <3>2, <3>3
      <4> QED BY <1>1, <3>4, <4>1, StillUser DEF OnPipe
    <3>5. CASE x # s
      BY <1>1, <1>2, <3>2, <3>3, <3>5, StillSame
    <3> QED BY <3>4, <3>5
  <2> QED BY <1>3, <2>1, <2>2
<1> QED BY <1>4, StillOnly DEF BecomeZombie

\* fork.
LEMMA ForkPipes ==
  ASSUME Inv, Inv', PipesOK, NEW s \in Slot, sys_fork(s)
  PROVE  PipesOK'
<1> DEFINE free == {x \in Slot : ~Used(x)}
           child == [NoTask EXCEPT !.st = "run", !.pid = NextPid, !.father = task[s].pid,
                                   !.blocked = task[s].blocked, !.filp = task[s].filp]
<1>1. task \in [Slot -> Tasks] /\ file \in [File -> Files] /\ pipe' = pipe
  BY DEF Inv, TypeOK, sys_fork
<1>2. CASE UNCHANGED <<task, file>>
  BY <1>1, <1>2, StillSame, StillOnly
<1>3. CASE /\ free # {}
           /\ task' = [task EXCEPT ![Min(free)] = child]
           /\ file' = [f \in File |-> [file[f] EXCEPT !.count = @ + Refs(task[s], f)]]
  <2>1. PICK c \in Slot : c = Min(free) /\ ~Used(c)
    <3>1. free \in SUBSET Nat /\ free # {}
      BY <1>3, Finite
    <3>2. Min(free) \in free
      BY <3>1, MinNat
    <3> QED BY <3>2
  <2>2. task'[c].pc = "user" /\ \A x \in Slot \ {c} : task'[x] = task[x]
    <3>1. child.pc = "user"
      BY DEF NoTask
    <3> HIDE DEF child, free
    <3> QED BY <1>1, <1>3, <2>1, <3>1
  <2>3. task[c].pc \notin OnPipe
    BY <2>1 DEF PipesOK, UsersOK, Used
  <2>4. \A x \in Slot : Still(task[x], task'[x])
    BY <1>1, <2>2, <2>3, StillUser, StillSame DEF OnPipe
  <2>5. SameInodes
    BY <1>1, <1>3 DEF SameInodes, Files
  <2>6. \A i \in Pipe : Calmed(i)
    BY <1>1 DEF Calmed, SamePipe, SameFlow
  <2> QED BY <2>4, <2>5, <2>6, StillStep
<1> QED BY <1>2, <1>3 DEF sys_fork

\* dup.
LEMMA DupPipes ==
  ASSUME Inv, Inv', PipesOK, NEW s \in Slot, NEW d \in Fd, NEW arg \in Fd, dupfd(s, d, arg)
  PROVE  PipesOK'
<1> DEFINE free == {x \in FreeFds(s) : x >= arg}
<1>1. task \in [Slot -> Tasks] /\ file \in [File -> Files] /\ pipe' = pipe /\ task[s].pc = "user"
  BY DEF Inv, TypeOK, dupfd, Call, At
<1>2. /\ task' = [task EXCEPT ![s].filp[Min(free)] = task[s].filp[d]]
      /\ file' = [file EXCEPT ![task[s].filp[d]].count = @ + 1]
  BY DEF dupfd
<1> HIDE DEF free
<1>3. task'[s].pc = "user" /\ \A x \in Slot \ {s} : task'[x] = task[x]
  BY <1>1, <1>2 DEF Tasks
<1>4. \A x \in Slot : Still(task[x], task'[x])
  BY <1>1, <1>3, StillUser, StillSame DEF OnPipe
<1>5. SameInodes
  BY <1>1, <1>2 DEF SameInodes, Files
<1>6. \A i \in Pipe : Calmed(i)
  BY <1>1 DEF Calmed, SamePipe, SameFlow
<1> QED BY <1>4, <1>5, <1>6, StillStep

\* pipe.
LEMMA PipePipes ==
  ASSUME Inv, Inv', PipesOK, NEW s \in Slot, sys_pipe(s)
  PROVE  PipesOK'
<1> DEFINE ff == {f \in File : file[f].count = 0}
           fi == {i \in Pipe : pipe[i].count = 0}
           F0 == Min(ff)  F1 == Min(ff \ {F0})
           D0 == Min(FreeFds(s))  D1 == Min(FreeFds(s) \ {D0})
           I == Min(fi)
<1>1. /\ task \in [Slot -> Tasks] /\ file \in [File -> Files] /\ pipe \in [Pipe -> Pipes]
      /\ task[s].pc = "user" /\ Cardinality(ff) >= 2 /\ fi # {}
      /\ file' = [file EXCEPT ![F0] = [count |-> 1, ino |-> I, mode |-> "r"],
                              ![F1] = [count |-> 1, ino |-> I, mode |-> "w"]]
      /\ task' = [task EXCEPT ![s].filp[D0] = F0, ![s].filp[D1] = F1]
      /\ pipe' = [pipe EXCEPT ![I] = [NoPipe EXCEPT !.count = 2]]
  BY DEF sys_pipe, Call, At, Inv, TypeOK
<1>2. PICK f0 \in File, f1 \in File : f0 = F0 /\ f1 = F1 /\ file[f0].count = 0 /\ file[f1].count = 0
  <2>1. ff \in SUBSET File /\ File \in SUBSET Nat /\ IsFiniteSet(File)
    BY Finite
  <2>2. IsFiniteSet(ff)
    BY <2>1, FS_Subset
  <2> DEFINE S == ff
  <2>3. S \in SUBSET Nat /\ IsFiniteSet(S) /\ Cardinality(S) >= 2
    BY <1>1, <2>1, <2>2
  <2> HIDE DEF S
  <2>4. Min(S) \in S /\ Min(S \ {Min(S)}) \in S \ {Min(S)}
    BY <2>3, TwoLeast
  <2> QED BY <2>4 DEF S
<1>3. PICK i \in Pipe : i = I /\ pipe[i].count = 0
  <2>1. fi \in SUBSET Nat /\ fi # {}
    BY <1>1, Finite
  <2>2. Min(fi) \in fi
    BY <2>1, MinNat
  <2> QED BY <2>2
<1> HIDE DEF F0, F1, D0, D1, I
<1>4. task'[s].pc = "user" /\ \A x \in Slot \ {s} : task'[x] = task[x]
  BY <1>1 DEF Tasks
<1>5. \A x \in Slot : Still(task[x], task'[x])
  BY <1>1, <1>4, StillUser, StillSame DEF OnPipe
<1>6. SameInodes
  <2>1. \A f \in File : f # f0 /\ f # f1 => file'[f] = file[f]
    BY <1>1, <1>2
  <2> QED BY <1>2, <2>1 DEF SameInodes
<1>7. ASSUME NEW j \in Pipe PROVE Calmed(j)
  <2> DEFINE q == [NoPipe EXCEPT !.count = 2]
  <2>1. NewPipe(q)
    BY DEF NewPipe, NoPipe
  <2> HIDE DEF q
  <2>2. pipe' = [pipe EXCEPT ![i] = q]
    BY <1>1, <1>3 DEF q
  <2>3. CASE j = i
    BY <1>1, <1>3, <2>1, <2>2, <2>3 DEF Calmed
  <2>4. CASE j # i
    BY <1>1, <2>2, <2>4 DEF Calmed, SamePipe, SameFlow
  <2> QED BY <2>3, <2>4
<1> QED BY <1>5, <1>6, <1>7, StillStep

\* Closing descriptors of a task that is not on a pipe; t holds the tasks before.
LEMMA ClosePipes ==
  ASSUME Inv, Inv', PipesOK, NEW s \in Slot, NEW ds \in SUBSET Fd, NEW t \in [Slot -> Tasks],
         \A x \in Slot : Still(task[x], t[x]), task[s].pc \notin OnPipe, t[s].pc \notin OnPipe,
         Close(t, s, ds)
  PROVE  PipesOK'
<1> DEFINE left(f) == file[f].count - Cardinality({d \in ds : task[s].filp[d] = f})
           gone == {f \in File : file[f].count > 0 /\ left(f) = 0}
           ends(i) == Cardinality({f \in gone : file[f].ino = i})
           cut == {i \in Pipe : ends(i) > 0}
           woken == {pipe[i].wait : i \in cut} \ {NULL}
<1>1. file' = [f \in File |-> IF f \in gone THEN NoFile ELSE [file[f] EXCEPT !.count = left(f)]]
  BY DEF Close
<1>2. pipe' = [i \in Pipe |->
          IF i \in cut /\ pipe[i].count = ends(i) THEN NoPipe
          ELSE [pipe[i] EXCEPT !.count = pipe[i].count - ends(i)]]
  BY DEF Close
<1>3. task' = [x \in Slot |->
          LET r == IF x \in woken /\ t[x].st # "none" THEN [t[x] EXCEPT !.st = "run"] ELSE t[x]
          IN IF x = s THEN [r EXCEPT !.filp = [d \in Fd |-> IF d \in ds THEN NULL ELSE @[d]]] ELSE r]
  BY DEF Close
<1>4. file \in [File -> Files] /\ pipe \in [Pipe -> Pipes]
  BY DEF Inv, TypeOK
<1>5. \A i \in Pipe : ends(i) \in Nat
  <2>1. ASSUME NEW i \in Pipe PROVE IsFiniteSet({f \in gone : file[f].ino = i})
    <3>1. {f \in gone : file[f].ino = i} \in SUBSET File
      OBVIOUS
    <3> HIDE DEF gone
    <3> QED BY <3>1, Finite, FS_Subset
  <2> HIDE DEF gone
  <2> QED BY <2>1, FS_CardinalityType
<1>6. SameInodes
  <2> HIDE DEF left
  <2>1. ASSUME NEW f \in File PROVE file'[f].count > 0 => file'[f].ino = file[f].ino
    <3>1. CASE f \in gone
      BY <1>1, <3>1 DEF NoFile
    <3>2. CASE f \notin gone
      <4>1. file[f] \in Files
        BY <1>4
      <4>2. file'[f] = [file[f] EXCEPT !.count = left(f)]
        BY <1>1, <3>2
      <4> QED BY <4>1, <4>2 DEF Files
    <3> QED BY <3>1, <3>2
  <2> QED BY <2>1 DEF SameInodes
<1> HIDE DEF left, gone, ends
<1>7. \A x \in Slot \ {s} : task'[x] = IF x \in woken /\ t[x].st # "none" THEN [t[x] EXCEPT !.st = "run"] ELSE t[x]
  BY <1>3
<1>8. task'[s].pc = t[s].pc /\ (s \in woken /\ t[s].st # "none" => task'[s].st = "run") /\ (t[s].st = "none" => task'[s].st = "none")
  <2> DEFINE r == IF s \in woken /\ t[s].st # "none" THEN [t[s] EXCEPT !.st = "run"] ELSE t[s]
             h == [d \in Fd |-> IF d \in ds THEN NULL ELSE r.filp[d]]
  <2>1. task'[s] = [r EXCEPT !.filp = h]
    BY <1>3
  <2>2. r \in Tasks /\ r.pc = t[s].pc /\ (s \in woken /\ t[s].st # "none" => r.st = "run") /\ (t[s].st = "none" => r.st = "none")
    <3>1. t[s] \in Tasks
      OBVIOUS
    <3> HIDE DEF woken
    <3> QED BY <3>1 DEF Tasks, Status
  <2> HIDE DEF r, h
  <2> QED BY <2>1, <2>2 DEF Tasks
<1>9. ASSUME NEW x \in Slot PROVE Still(task[x], task'[x])
  <2>1. CASE x = s
    BY <1>8, <2>1, StillUser
  <2>2. CASE x # s
    <3>1. task'[x] = t[x] \/ (task'[x] = [t[x] EXCEPT !.st = "run"] /\ t[x].st # "none")
      BY <1>7, <2>2
    <3>2. t[x] \in Tasks /\ Still(task[x], t[x])
      OBVIOUS
    <3> QED BY <3>1, <3>2 DEF Still, Tasks
  <2> QED BY <2>1, <2>2
<1>10. ASSUME NEW i \in Pipe PROVE Calmed(i)
  <2>0. pipe[i] \in Pipes /\ pipe[i].wait \in {NULL} \cup Slot /\ pipe[i].count \in Nat
    BY <1>4 DEF Pipes
  <2>1. CASE i \in cut /\ pipe[i].count = ends(i)
    BY <1>2, <2>1 DEF Calmed, NewPipe, NoPipe
  <2>2. CASE ~(i \in cut /\ pipe[i].count = ends(i))
    <3> DEFINE k == pipe[i].count - ends(i)
    <3>1. pipe'[i] = [pipe[i] EXCEPT !.count = k]
      BY <1>2, <2>2
    <3>2. SamePipe(pipe[i], pipe'[i]) /\ pipe'[i].count = k
      <4> HIDE DEF k
      <4> QED BY <2>0, <3>1 DEF SamePipe, SameFlow, Pipes
    <3>3. CASE i \notin cut
      <4>1. k = pipe[i].count
        BY <1>5, <2>0, <3>3
      <4> QED BY <3>2, <4>1 DEF Calmed
    <3>4. CASE i \in cut /\ pipe[i].wait # NULL
      <4>1. PICK w \in Slot : w = pipe[i].wait
        BY <2>0, <3>4
      <4>2. w \in woken
        BY <3>4, <4>1
      <4>3. task'[w].st # "unint"
        <5> HIDE DEF woken
        <5>1. t[w] \in Tasks
          OBVIOUS
        <5>2. CASE w = s
          BY <1>3, <1>8, <4>2, <5>1, <5>2 DEF Tasks, Status
        <5>3. CASE w # s
          BY <1>7, <4>2, <5>1, <5>3 DEF Tasks
        <5> QED BY <5>2, <5>3
      <4> QED BY <3>2, <4>1, <4>3 DEF Calmed
    <3>5. CASE pipe[i].wait = NULL
      BY <3>2, <3>5 DEF Calmed
    <3> QED BY <3>3, <3>4, <3>5
  <2> QED BY <2>1, <2>2
<1> QED BY <1>6, <1>9, <1>10, StillStep

\* close.
LEMMA CloseOnePipes ==
  ASSUME Inv, Inv', PipesOK, NEW s \in Slot, NEW d \in Fd, sys_close(s, d)
  PROVE  PipesOK'
<1>1. task \in [Slot -> Tasks] /\ Close(task, s, {d}) /\ {d} \in SUBSET Fd /\ task[s].pc \notin OnPipe
  BY DEF Inv, TypeOK, sys_close, Call, At, OnPipe
<1>2. \A x \in Slot : Still(task[x], task[x])
  BY <1>1, StillSame
<1> QED BY <1>1, <1>2, ClosePipes

\* exit.
LEMMA ExitPipes ==
  ASSUME Inv, Inv', PipesOK, NEW s \in Slot, task[s].pc = "user", do_exit(task, s)
  PROVE  PipesOK'
<1>1. task \in [Slot -> Tasks]
  BY DEF Inv, TypeOK
<1> DEFINE u == Reparent(task, s)
           t == [u EXCEPT ![s].pc = "exit"]
<1>2. /\ u \in [Slot -> Tasks]
  BY Reparented
<1>3. ASSUME NEW x \in Slot PROVE Still(task[x], u[x])
  <2> DEFINE mine == {y \in Slot : task[y].st # "none" /\ task[y].father = task[s].pid}
             dead == \E y \in mine : task[y].st = "zombie"
             r == IF x \in mine THEN [task[x] EXCEPT !.father = 1] ELSE task[x]
             g == r.sig \cup {"SIGCHLD"}
  <2>1. u[x] = IF x = Init1 /\ dead THEN [r EXCEPT !.sig = g] ELSE r
    BY DEF Reparent
  <2> HIDE DEF mine, dead
  <2>2. Still(task[x], r) /\ Still(r, r) /\ Still(r, [r EXCEPT !.sig = g]) /\ Still(task[x], [r EXCEPT !.sig = g])
    <3>1. task[x] \in Tasks
      BY <1>1
    <3> QED BY <3>1 DEF Still, Tasks
  <2> HIDE DEF r, g, u
  <2> QED BY <2>1, <2>2
<1> HIDE DEF u
<1>4. t \in [Slot -> Tasks] /\ t[s].pc = "exit" /\ \A x \in Slot \ {s} : t[x] = u[x]
  <2> DEFINE n == [u[s] EXCEPT !.pc = "exit"]
  <2>1. n \in Tasks /\ n.pc = "exit"
    BY <1>2 DEF Tasks, Place
  <2>2. t = [u EXCEPT ![s] = n]
    OBVIOUS
  <2> HIDE DEF n, t
  <2> QED BY <1>2, <2>1, <2>2
<1>5. Close(t, s, Fd)
  BY DEF do_exit, u
<1> HIDE DEF t
<1>6. \A x \in Slot : Still(task[x], t[x])
  BY <1>3, <1>4, StillUser DEF OnPipe
<1>7. Fd \in SUBSET Fd /\ task[s].pc \notin OnPipe /\ t[s].pc \notin OnPipe
  BY <1>4 DEF OnPipe
<1> QED BY <1>4, <1>5, <1>6, <1>7, ClosePipes

\* do_signal.
LEMMA SignalPipes ==
  ASSUME Inv, Inv', PipesOK, NEW s \in Slot, do_signal(s)
  PROVE  PipesOK'
<1>1. task \in [Slot -> Tasks] /\ task[s].pc = "user"
  BY DEF Inv, TypeOK, do_signal, At
<1>2. CASE do_exit(task, s)
  BY <1>1, <1>2, ExitPipes
<1>3. CASE ~do_exit(task, s)
  <2> DEFINE g == task[s].sig \ {"SIGCHLD"}
             n == [task[s] EXCEPT !.sig = g]
  <2>1. task' = [task EXCEPT ![s] = n] /\ UNCHANGED <<file, pipe>>
    BY <1>3 DEF do_signal
  <2>2. Still(task[s], n)
    BY <1>1, StillSame
  <2> HIDE DEF n
  <2>3. \A x \in Slot : Still(task[x], task'[x])
    BY <1>1, <2>1, <2>2, StillSame
  <2> QED BY <2>1, <2>3, StillOnly
<1> QED BY <1>2, <1>3

-----------------------------------------------------------------------------
(* Actions of tasks on pipes.                                              *)

\* wake_up through a pointer that may be stale.
LEMMA WakeIs ==
  ASSUME NEW t \in [Slot -> Tasks], NEW p \in {NULL} \cup Slot
  PROVE  /\ Wake(t, p) \in [Slot -> Tasks]
         /\ \A x \in Slot : /\ Still(t[x], Wake(t, p)[x]) /\ Wake(t, p)[x].pc = t[x].pc
                            /\ t[x].st = "run" => Wake(t, p)[x] = t[x]
         /\ p # NULL => Wake(t, p)[p].st # "unint"
<1>0. p # NULL => p \in Slot
  OBVIOUS
<1>1. CASE p = NULL \/ t[p].st = "none"
  <2>1. Wake(t, p) = t
    BY <1>1 DEF Wake
  <2> QED BY <1>1, <2>1, StillSame
<1>2. CASE ~(p = NULL \/ t[p].st = "none")
  <2> DEFINE n == [t[p] EXCEPT !.st = "run"]
  <2>1. t[p] \in Tasks /\ p \in Slot /\ t[p].st # "none"
    BY <1>2
  <2>2. n \in Tasks /\ n.st = "run" /\ n.pc = t[p].pc /\ (t[p].st = "run" => n = t[p])
    BY <2>1 DEF Tasks, Status
  <2>3. Still(t[p], n)
    BY <2>1, StillSame
  <2>4. Wake(t, p) = [t EXCEPT ![p] = n]
    BY <1>2 DEF Wake
  <2> HIDE DEF n
  <2> QED BY <2>1, <2>2, <2>3, <2>4, StillSame
<1> QED BY <1>1, <1>2

\* A step of a task in the loop of read_pipe or write_pipe that does not sleep:
\* it stays there, or it wakes the top of the queue and returns.
LEMMA LoopStep ==
  ASSUME Inv, Inv', PipesOK, UNCHANGED file, NEW s \in Slot, NEW i \in Pipe,
         task[s].pc \in {"read", "write", "copy", "rcopy"}, task[s].arg = i, task[s].st = "run",
         \A x \in Slot \ {s} : Still(task[x], task'[x]),
         \/ task'[s].pc = "user" /\ (pipe[i].wait = NULL \/ task'[pipe[i].wait].st # "unint")
         \/ /\ task'[s].pc \in {"read", "write", "copy", "rcopy"} /\ task'[s].arg = i /\ task'[s].st = "run"
            /\ task'[s].filp = task[s].filp,
         \A j \in Pipe \ {i} : pipe'[j] = pipe[j], pipe'[i].wait = pipe[i].wait,
         Flow(i)', ~pipe'[i].wrong
  PROVE  PipesOK'
<1>1. UsersOK'
  <2>1. SameInodes
    BY DEF SameInodes
  <2>2. \A x \in Slot : task'[x].pc \in OnPipe =>
           /\ task[x].pc \in OnPipe /\ task'[x].arg = task[x].arg /\ task'[x].filp = task[x].filp
           /\ task'[x].st = "run" \/ (task'[x].st = "unint" /\ task'[x].pc \in {"rsleep", "wsleep"})
    BY DEF Still, PipesOK, UsersOK, OnPipe
  <2> QED BY <2>1, <2>2, UsersStep DEF PipesOK
<1>2. PipeFifo'
  BY DEF PipesOK, PipeFifo
<1>3. ASSUME NEW j \in Pipe PROVE Flow(j)' /\ Chain(j)' /\ Top(j)'
  <2>0. Flow(j) /\ Chain(j) /\ Top(j) /\ pipe[j].wait \in {NULL} \cup Slot /\ pipe'[j].wait = pipe[j].wait
    BY DEF PipesOK, Inv, TypeOK, Pipes
  <2>1. Flow(j)'
    <3>1. CASE j = i
      BY <3>1
    <3>2. CASE j # i
      <4>1. SameFlow(pipe[j], pipe'[j])
        BY <3>2 DEF SameFlow
      <4>2. \A x \in Slot : SameCopy(task[x], task'[x], j)
        BY <3>2 DEF Still, OnPipe, SameCopy
      <4> QED BY <2>0, <4>1, <4>2, FlowSame
    <3> QED BY <3>1, <3>2
  <2>2. \A x \in Slot : /\ Member(x, j)' <=> Member(x, j)
                        /\ Member(x, j)' => /\ task'[x].tmp = task[x].tmp /\ task'[x].pc = task[x].pc
                                            /\ task'[x].st = task[x].st \/ task'[x].st = "run"
    BY DEF Still, OnPipe, Member
  <2>3. Chain(j)'
    BY <2>0, <2>2, ChainStep
  <2>4. Top(j)'
    <3>1. CASE j = i /\ task'[s].pc = "user"
      BY <3>1 DEF Top, Sleeps
    <3>2. CASE j = i /\ task'[s].pc # "user"
      BY <3>2 DEF Top, Active
    <3>3. CASE j # i
      <4>1. \A x \in Slot : Sleeps(x, j)' => Sleeps(x, j) /\ task'[x].pc = task[x].pc
        BY <2>2 DEF Sleeps
      <4>2. \A x \in Slot : Active(x, j) => Active(x, j)'
        BY <3>3 DEF Active, Still, OnPipe
      <4> QED BY <2>0, <3>3, <4>1, <4>2, TopStep
    <3> QED BY <3>1, <3>2, <3>3
  <2> QED BY <2>1, <2>3, <2>4
<1> QED BY <1>1, <1>2, <1>3 DEF PipesOK

\* The start of a read or write.
LEMMA StartPipes ==
  ASSUME Inv, Inv', PipesOK, NEW s \in Slot, NEW d \in Fd, NEW n \in 1 .. MaxCount,
         sys_read(s, d, n) \/ sys_write(s, d, n)
  PROVE  PipesOK'
<1>1. PICK mode \in {"r", "w"}, pc \in {"read", "write"} : Start(s, d, n, mode, pc)
  BY DEF sys_read, sys_write
<1>2. /\ task \in [Slot -> Tasks] /\ task[s] \in Tasks /\ pipe' = pipe /\ file' = file
      /\ task[s].pc = "user" /\ task[s].st = "run" /\ Open(s, d)
  BY <1>1 DEF Inv, TypeOK, Start, Call, At
<1> DEFINE i == file[task[s].filp[d]].ino
           m == [task[s] EXCEPT !.pc = pc, !.n = n, !.arg = i]
<1>3. task' = [task EXCEPT ![s] = m]
  BY <1>1 DEF Start
<1>4. m.pc = pc /\ m.arg = i /\ m.filp = task[s].filp /\ m.st = "run"
  BY <1>2 DEF Tasks
<1> HIDE DEF m
<1>5. task'[s] = m /\ \A x \in Slot \ {s} : task'[x] = task[x]
  BY <1>2, <1>3
<1>6. UsersOK'
  <2>1. ASSUME NEW x \in Slot, task'[x].pc \in OnPipe
        PROVE  /\ task'[x].st = "run" \/ (task'[x].st = "unint" /\ task'[x].pc \in {"rsleep", "wsleep"})
               /\ \E e \in Fd : Open(x, e)' /\ file'[task'[x].filp[e]].ino = task'[x].arg
    <3>1. CASE x = s
      BY <1>2, <1>4, <1>5, <3>1 DEF Open
    <3>2. CASE x # s
      BY <1>2, <1>5, <2>1, <3>2 DEF Open, PipesOK, UsersOK
    <3> QED BY <3>1, <3>2
  <2> QED BY <2>1 DEF UsersOK
<1>7. PipeFifo'
  BY <1>2 DEF PipesOK, PipeFifo
<1>8. ASSUME NEW j \in Pipe PROVE Flow(j)' /\ Chain(j)' /\ Top(j)'
  <2>0. Flow(j) /\ Chain(j) /\ Top(j) /\ pipe[j].wait \in {NULL} \cup Slot /\ pipe'[j].wait = pipe[j].wait
    BY <1>2 DEF PipesOK, Inv, TypeOK, Pipes
  <2>1. Flow(j)'
    <3>1. SameFlow(pipe[j], pipe'[j])
      BY <1>2 DEF SameFlow
    <3>2. \A x \in Slot : SameCopy(task[x], task'[x], j)
      BY <1>2, <1>4, <1>5 DEF SameCopy
    <3> QED BY <2>0, <3>1, <3>2, FlowSame
  <2>2. \A x \in Slot : (Member(x, j)' <=> Member(x, j)) /\ (Member(x, j)' => task'[x] = task[x])
    BY <1>2, <1>4, <1>5 DEF Member
  <2>3. Chain(j)'
    BY <2>0, <2>2, ChainStep
  <2>4. Top(j)'
    <3>1. \A x \in Slot : Sleeps(x, j)' => Sleeps(x, j) /\ task'[x].pc = task[x].pc
      BY <2>2 DEF Sleeps
    <3>2. \A x \in Slot : Active(x, j) => Active(x, j)'
      BY <1>2, <1>5 DEF Active
    <3> QED BY <1>2, <2>0, <3>1, <3>2, TopStep
  <2> QED BY <2>1, <2>3, <2>4
<1> QED BY <1>6, <1>7, <1>8 DEF PipesOK

\* A task wakes up in sleep_on and passes the wake-up on.
LEMMA SleepEndPipes ==
  ASSUME Inv, Inv', PipesOK, NEW s \in Slot,
         SleepEnd(s, "rsleep", "read") \/ SleepEnd(s, "wsleep", "write")
  PROVE  PipesOK'
<1>1. PICK pc \in {"rsleep", "wsleep"}, back \in {"read", "write"} : SleepEnd(s, pc, back)
  OBVIOUS
<1>2. /\ task \in [Slot -> Tasks] /\ task[s] \in Tasks /\ pipe' = pipe /\ file' = file
      /\ task[s].pc = pc /\ task[s].st = "run" /\ task[s].tmp \in {NULL} \cup Slot
  BY <1>1 DEF Inv, TypeOK, SleepEnd, At, Tasks
<1>3. PICK i \in Pipe : task[s].arg = i
  BY <1>2, AtFacts DEF OnPipe
<1>4. PICK w : w = Wake(task, task[s].tmp)
  OBVIOUS
<1>5. /\ w \in [Slot -> Tasks] /\ w[s] = task[s]
      /\ \A x \in Slot : Still(task[x], w[x])
      /\ task[s].tmp # NULL => w[task[s].tmp].st # "unint"
  BY <1>2, <1>4, WakeIs
<1> DEFINE m == [task[s] EXCEPT !.pc = back, !.tmp = NULL]
<1>6. task' = [w EXCEPT ![s] = m]
  <2>1. task' = [w EXCEPT ![s].pc = back, ![s].tmp = NULL]
    BY <1>1, <1>4 DEF SleepEnd
  <2> QED BY <1>2, <1>5, <2>1 DEF Tasks
<1>7. m.pc = back /\ m.arg = i /\ m.filp = task[s].filp /\ m.st = "run"
  BY <1>2, <1>3 DEF Tasks
<1> HIDE DEF m
<1>8. task'[s] = m /\ \A x \in Slot \ {s} : task'[x] = w[x]
  BY <1>5, <1>6
<1>9. \A x \in Slot \ {s} : Still(task[x], task'[x])
  BY <1>5, <1>8
<1>10. UsersOK'
  <2>1. SameInodes
    BY <1>2 DEF SameInodes
  <2>2. \A x \in Slot : task'[x].pc \in OnPipe =>
           /\ task[x].pc \in OnPipe /\ task'[x].arg = task[x].arg /\ task'[x].filp = task[x].filp
           /\ task'[x].st = "run" \/ (task'[x].st = "unint" /\ task'[x].pc \in {"rsleep", "wsleep"})
    BY <1>2, <1>3, <1>7, <1>8, <1>9 DEF Still, PipesOK, UsersOK, OnPipe
  <2> QED BY <2>1, <2>2, UsersStep DEF PipesOK
<1>11. PipeFifo'
  BY <1>2 DEF PipesOK, PipeFifo
<1>12. ASSUME NEW j \in Pipe PROVE Flow(j)' /\ Chain(j)' /\ Top(j)'
  <2>0. Flow(j) /\ Chain(j) /\ Top(j) /\ pipe[j].wait \in {NULL} \cup Slot /\ pipe'[j].wait = pipe[j].wait
    BY <1>2 DEF PipesOK, Inv, TypeOK, Pipes
  <2>1. Flow(j)'
    <3>1. SameFlow(pipe[j], pipe'[j])
      BY <1>2 DEF SameFlow
    <3>2. \A x \in Slot : SameCopy(task[x], task'[x], j)
      BY <1>2, <1>7, <1>8, <1>9 DEF Still, OnPipe, SameCopy
    <3> QED BY <2>0, <3>1, <3>2, FlowSame
  <2>2. \A x \in Slot : Member(x, j)' =>
           Member(x, j) /\ task'[x].tmp = task[x].tmp /\ task'[x].pc = task[x].pc
           /\ (task'[x].st = task[x].st \/ task'[x].st = "run")
    BY <1>7, <1>8, <1>9 DEF Still, OnPipe, Member
  <2>3. ASSUME NEW x \in Slot, NEW z \in Slot, Member(x, j), ~Member(x, j)', task[x].tmp = z
        PROVE  ~Sleeps(z, j)'
    <3>1. x = s
      BY <1>9, <2>3 DEF Still, OnPipe, Member
    <3>2. z # NULL
      BY DEF NULL, Slot
    <3>3. task'[z].st # "unint"
      BY <1>5, <1>7, <1>8, <2>3, <3>1, <3>2
    <3> QED BY <3>3 DEF Sleeps
  <2>4. Chain(j)'
    BY <2>0, <2>2, <2>3, ChainStep
  <2>5. Top(j)'
    <3>1. CASE j = i
      <4>1. Active(s, i)'
        BY <1>7, <1>8 DEF Active
      <4> QED BY <3>1, <4>1 DEF Top
    <3>2. CASE j # i
      <4>1. \A x \in Slot : Sleeps(x, j)' => Sleeps(x, j) /\ task'[x].pc = task[x].pc
        BY <2>2 DEF Sleeps
      <4>2. \A x \in Slot : Active(x, j) => Active(x, j)'
        BY <1>3, <1>9, <3>2 DEF Active, Still, OnPipe
      <4> QED BY <1>2, <2>0, <4>1, <4>2, TopStep
    <3> QED BY <3>1, <3>2
  <2> QED BY <2>1, <2>4, <2>5
<1> QED BY <1>10, <1>11, <1>12 DEF PipesOK

\* sleep_on, after wake_up of the same queue, of a task that has a reason to.
LEMMA SleepOnPipes ==
  ASSUME Inv, Inv', PipesOK, UNCHANGED file, NEW s \in Slot, NEW i \in Pipe, NEW pc \in {"rsleep", "wsleep"},
         task[s].pc \in {"read", "write"}, task[s].arg = i, task[s].st = "run",
         pipe[i].count = 2, IF pc = "rsleep" THEN PIPE_SIZE(i) = 0 ELSE Room(i) = 0,
         sleep_on(wake_up(task, i), s, i, pc)
  PROVE  PipesOK'
<1>1. /\ task \in [Slot -> Tasks] /\ task[s] \in Tasks /\ pipe \in [Pipe -> Pipes]
      /\ pipe[i] \in Pipes /\ pipe[i].wait \in {NULL} \cup Slot
  BY DEF Inv, TypeOK, Pipes
<1>2. PICK w : w = Wake(task, pipe[i].wait)
  OBVIOUS
<1>3. /\ w \in [Slot -> Tasks] /\ w[s] = task[s]
      /\ \A x \in Slot : Still(task[x], w[x])
      /\ pipe[i].wait # NULL => w[pipe[i].wait].st # "unint"
  BY <1>1, <1>2, WakeIs
<1> DEFINE m == [task[s] EXCEPT !.st = "unint", !.pc = pc, !.tmp = pipe[i].wait]
           q == [pipe[i] EXCEPT !.wait = s]
<1>4. task' = [w EXCEPT ![s] = m] /\ pipe' = [pipe EXCEPT ![i] = q]
  BY <1>2, <1>3 DEF sleep_on, wake_up
<1>5. m.pc = pc /\ m.arg = i /\ m.filp = task[s].filp /\ m.st = "unint"
  BY <1>1 DEF Tasks
<1>6. q.wait = s /\ q.count = pipe[i].count /\ SameFlow(pipe[i], q)
  BY <1>1 DEF Pipes, SameFlow
<1> HIDE DEF m, q
<1>7. task'[s] = m /\ \A x \in Slot \ {s} : task'[x] = w[x] /\ Still(task[x], task'[x])
  BY <1>3, <1>4
<1>8. pipe'[i] = q /\ \A j \in Pipe \ {i} : pipe'[j] = pipe[j]
  BY <1>1, <1>4
<1>9. UsersOK'
  <2>1. SameInodes
    BY DEF SameInodes
  <2>2. \A x \in Slot : task'[x].pc \in OnPipe =>
           /\ task[x].pc \in OnPipe /\ task'[x].arg = task[x].arg /\ task'[x].filp = task[x].filp
           /\ task'[x].st = "run" \/ (task'[x].st = "unint" /\ task'[x].pc \in {"rsleep", "wsleep"})
    BY <1>5, <1>7 DEF Still, PipesOK, UsersOK, OnPipe
  <2> QED BY <2>1, <2>2, UsersStep DEF PipesOK
<1>10. PipeFifo'
  BY <1>6, <1>8 DEF PipesOK, PipeFifo, SameFlow
<1>11. ASSUME NEW j \in Pipe PROVE Flow(j)'
  <2>1. SameFlow(pipe[j], pipe'[j]) /\ Flow(j)
    BY <1>6, <1>8 DEF SameFlow, PipesOK
  <2>2. \A x \in Slot : SameCopy(task[x], task'[x], j)
    BY <1>5, <1>7 DEF Still, OnPipe, SameCopy
  <2> QED BY <2>1, <2>2, FlowSame
<1>12. ASSUME NEW j \in Pipe, NEW x \in Slot, x # s
       PROVE  /\ Member(x, j)' <=> Member(x, j)
              /\ Member(x, j)' => /\ task'[x].tmp = task[x].tmp /\ task'[x].pc = task[x].pc
                                  /\ task'[x].st = task[x].st \/ task'[x].st = "run"
  BY <1>7, <1>12 DEF Still, OnPipe, Member
<1>13. \A j \in Pipe : ~Member(s, j) /\ (Member(s, j)' => j = i)
  BY <1>5, <1>7 DEF Member
<1>14. Chain(i)'
  <2> SUFFICES ASSUME NEW S \in SUBSET Slot, S # {}, pipe'[i].wait \notin S, \A x \in S : Sleeps(x, i)'
               PROVE  \E y \in Slot \ S : Member(y, i)' /\ task'[y].tmp \in S
                                          /\ ~(y = pipe'[i].wait /\ Sleeps(y, i)')
    BY DEF Chain
  <2>1. s \notin S
    BY <1>6, <1>8
  <2>2. \A x \in S : Sleeps(x, i)
    BY <1>12, <2>1 DEF Sleeps
  <2>3. pipe[i].wait \notin S
    <3>1. ASSUME pipe[i].wait \in S PROVE FALSE
      <4>1. PICK z \in S : z = pipe[i].wait
        BY <3>1
      <4>2. z # NULL /\ z # s /\ Sleeps(z, i)'
        BY <2>1, <4>1 DEF NULL, Slot
      <4> QED BY <1>3, <1>7, <4>1, <4>2 DEF Sleeps
    <3> QED BY <3>1
  <2>4. PICK y \in Slot \ S : Member(y, i) /\ task[y].tmp \in S
    <3>1. Chain(i)
      BY DEF PipesOK
    <3> QED BY <2>2, <2>3, <3>1 DEF Chain
  <2>5. y # s
    BY <1>13, <2>4
  <2> QED BY <1>6, <1>8, <1>12, <2>4, <2>5
<1>15. Top(i)'
  <2>1. pipe'[i].wait = s /\ Reason(s, i)'
    BY <1>5, <1>6, <1>7, <1>8 DEF Reason, PIPE_SIZE, Room, SameFlow
  <2> QED BY <2>1 DEF Top
<1>16. ASSUME NEW j \in Pipe \ {i} PROVE Chain(j)' /\ Top(j)'
  <2>0. Chain(j) /\ Top(j) /\ pipe[j].wait \in {NULL} \cup Slot /\ pipe'[j] = pipe[j]
    BY <1>8 DEF PipesOK, Inv, TypeOK, Pipes
  <2>1. \A x \in Slot : /\ Member(x, j)' <=> Member(x, j)
                        /\ Member(x, j)' => /\ task'[x].tmp = task[x].tmp /\ task'[x].pc = task[x].pc
                                            /\ task'[x].st = task[x].st \/ task'[x].st = "run"
    BY <1>12, <1>13
  <2>2. Chain(j)'
    BY <2>0, <2>1, ChainStep
  <2>3. \A x \in Slot : Sleeps(x, j)' => Sleeps(x, j) /\ task'[x].pc = task[x].pc
    BY <2>1 DEF Sleeps
  <2>4. \A x \in Slot : Active(x, j) => Active(x, j)'
    BY <1>7 DEF Active, Still, OnPipe
  <2> QED BY <2>0, <2>2, <2>3, <2>4, TopStep
<1> QED BY <1>9, <1>10, <1>11, <1>14, <1>15, <1>16 DEF PipesOK

\* What is known of the numbers of a pipe.
LEMMA PipeNumbers ==
  ASSUME Inv, NEW i \in Pipe
  PROVE  /\ pipe[i] \in Pipes /\ pipe[i].wait \in {NULL} \cup Slot
         /\ pipe[i].head \in Pos /\ pipe[i].tail \in Pos
         /\ pipe[i].rnum \in Number /\ pipe[i].wnum \in Number /\ pipe[i].bytes \in [Pos -> Number]
         /\ pipe[i].torn \in BOOLEAN /\ pipe[i].wrong \in BOOLEAN
         /\ PIPE_SIZE(i) \in 0 .. PAGE_SIZE - 1
         /\ Ring(pipe[i].tail + PIPE_SIZE(i)) = pipe[i].head
<1>1. /\ pipe[i] \in Pipes /\ pipe[i].wait \in {NULL} \cup Slot
      /\ pipe[i].head \in Pos /\ pipe[i].tail \in Pos
      /\ pipe[i].rnum \in Number /\ pipe[i].wnum \in Number /\ pipe[i].bytes \in [Pos -> Number]
      /\ pipe[i].torn \in BOOLEAN /\ pipe[i].wrong \in BOOLEAN
  BY DEF Inv, TypeOK, Pipes
<1>2. PIPE_SIZE(i) \in 0 .. PAGE_SIZE - 1 /\ Ring(pipe[i].tail + PIPE_SIZE(i)) = pipe[i].head
  BY <1>1, Sizes DEF PIPE_SIZE
<1> QED BY <1>1, <1>2

\* The tail moves over c bytes, which task s is about to take.
LEMMA FlowTake ==
  ASSUME Inv, NEW i \in Pipe, Flow(i), NEW c \in Nat, c <= PAGE_SIZE - pipe[i].tail, c <= PIPE_SIZE(i),
         pipe'[i].head = pipe[i].head, pipe'[i].tail = Ring(pipe[i].tail + c),
         pipe'[i].bytes = pipe[i].bytes, pipe'[i].wnum = pipe[i].wnum,
         pipe'[i].rnum = Wrap(pipe[i].rnum + c),
         pipe'[i].torn <=> pipe[i].torn \/ \E p \in Piece(pipe[i].tail, c) : Pending(i, p, "copy"),
         NEW s \in Slot, task[s].pc \notin {"copy", "rcopy"},
         task'[s].pc = "rcopy", task'[s].arg = i, task'[s].at = pipe[i].tail, task'[s].chars = c,
         task'[s].num = pipe[i].rnum, \A x \in Slot \ {s} : task'[x] = task[x]
  PROVE  Flow(i)'
<1>0. PAGE_SIZE \in Nat \ {0}
  BY ProcessAssumption
<1>1. PICK h \in Pos, l \in Pos, rn \in Number, z \in 0 .. PAGE_SIZE - 1 :
        h = pipe[i].head /\ l = pipe[i].tail /\ rn = pipe[i].rnum /\ z = PIPE_SIZE(i)
  BY PipeNumbers
<1>2. /\ c <= PAGE_SIZE - l /\ c <= z /\ c \in 0 .. z /\ l \in Nat /\ z \in Nat /\ rn \in Nat
      /\ z < PAGE_SIZE
  BY <1>0, <1>1 DEF Pos, Number
<1>3. PIPE_SIZE(i)' = z - c
  <2>1. z = (h + PAGE_SIZE - l) % PAGE_SIZE
    BY <1>1 DEF PIPE_SIZE
  <2>2. (h + PAGE_SIZE - Ring(l + c)) % PAGE_SIZE = z - c
    BY <1>2, <2>1, Sizes
  <2> QED BY <1>1, <2>2 DEF PIPE_SIZE
<1>4. InPipe(i) = 0 .. z - 1 /\ InPipe(i)' = 0 .. z - c - 1
  BY <1>1, <1>3 DEF InPipe
<1>5. ASSUME NEW j \in Nat, c + j < PAGE_SIZE
      PROVE  Where(i, j)' = Where(i, c + j) /\ Num(i, j)' = Num(i, c + j)
  <2>1. Ring(Ring(l + c) + j) = Ring(l + (c + j)) /\ Wrap(Wrap(rn + c) + j) = Wrap(rn + (c + j))
    BY <1>5, Places
  <2> QED BY <1>1, <2>1 DEF Where, Num
<1>6. pipe'[i].wnum = Num(i, PIPE_SIZE(i))'
  <2>1. z - c \in Nat /\ c + (z - c) < PAGE_SIZE /\ c + (z - c) = z
    BY <1>2
  <2>2. Num(i, z - c)' = Num(i, z)
    BY <1>5, <2>1
  <2>3. Num(i, PIPE_SIZE(i))' = Num(i, z - c)'
    BY <1>3 DEF Num
  <2> QED BY <1>1, <2>2, <2>3 DEF Flow
<1>7. \A p : Pending(i, p, "copy")' <=> Pending(i, p, "copy")
  BY DEF Pending
<1>8. ASSUME NEW j \in 0 .. z - c - 1, ~pipe'[i].torn
      PROVE  Pending(i, Where(i, j), "copy")' \/ pipe'[i].bytes[Where(i, j)'] = Num(i, j)'
  <2>1. j \in Nat /\ c + j < PAGE_SIZE /\ c + j \in InPipe(i)
    BY <1>0, <1>2, <1>4
  <2>2. PICK k : k = c + j
    OBVIOUS
  <2>3. Where(i, j)' = Where(i, k) /\ Num(i, j)' = Num(i, k)
    BY <1>5, <2>1, <2>2
  <2>4. Pending(i, Where(i, k), "copy") \/ pipe[i].bytes[Where(i, k)] = Num(i, k)
    BY <1>8, <2>1, <2>2 DEF Flow
  <2>5. Pending(i, Where(i, k), "copy") => Pending(i, Where(i, j), "copy")'
    BY <1>7, <2>3 DEF Pending
  <2> QED BY <2>3, <2>4, <2>5
<1>9. ASSUME NEW k \in 0 .. c - 1
      PROVE  Where(i, k) = l + k /\ l + k \in Piece(l, c) /\ k \in InPipe(i)
  <2>1. k \in Nat /\ l + k \in Nat /\ l + k < PAGE_SIZE
    BY <1>0, <1>2
  <2>2. Ring(l + k) = l + k
    BY <1>0, <2>1, RingOnce
  <2>3. l + k \in l .. l + c - 1 /\ k \in 0 .. z - 1
    BY <1>2, <2>1
  <2> QED BY <1>1, <1>4, <2>2, <2>3 DEF Where, Piece
<1>10. ASSUME ~pipe'[i].torn, NEW x \in Slot, task'[x].pc = "copy", task'[x].arg = i,
              NEW p \in Piece(task'[x].at, task'[x].chars)
       PROVE  \E j \in 0 .. z - c - 1 : p = Where(i, j)' /\ Wrap(task'[x].num + p - task'[x].at) = Num(i, j)'
  <2>1. task[x].pc = "copy" /\ task[x].arg = i /\ task'[x].at = task[x].at
        /\ task'[x].chars = task[x].chars /\ task'[x].num = task[x].num
    BY <1>10
  <2>2. PICK k \in InPipe(i) : p = Where(i, k) /\ Wrap(task[x].num + p - task[x].at) = Num(i, k)
    BY <1>10, <2>1 DEF Flow
  <2>3. Pending(i, p, "copy")
    BY <1>10, <2>1 DEF Pending
  <2>4. k \notin 0 .. c - 1
    BY <1>1, <1>9, <1>10, <2>2, <2>3
  <2>5. k - c \in 0 .. z - c - 1 /\ k - c \in Nat /\ c + (k - c) < PAGE_SIZE /\ c + (k - c) = k
    BY <1>0, <1>2, <1>4, <2>4
  <2>6. Where(i, k - c)' = Where(i, k) /\ Num(i, k - c)' = Num(i, k)
    BY <1>5, <2>5
  <2> QED BY <2>1, <2>2, <2>5, <2>6
<1>11. ASSUME ~pipe'[i].torn, NEW p \in Piece(l, c)
       PROVE  /\ p \in Pos /\ pipe[i].bytes[p] = Wrap(rn + p - l)
              /\ \A j \in 0 .. z - c - 1 : p # Where(i, j)'
  <2>1. PICK k \in 0 .. c - 1 : p = l + k
    <3>1. p - l \in 0 .. c - 1 /\ p = l + (p - l)
      BY <1>2, <1>11 DEF Piece
    <3> QED BY <3>1
  <2>2. Where(i, k) = p /\ k \in InPipe(i)
    BY <1>9, <2>1
  <2>3. ~Pending(i, p, "copy")
    BY <1>1, <1>11
  <2>4. pipe[i].bytes[p] = Num(i, k)
    BY <1>11, <2>2, <2>3 DEF Flow
  <2>5. rn + k = rn + p - l /\ p \in Pos
    BY <1>0, <1>2, <2>1 DEF Pos
  <2>6. ASSUME NEW j \in 0 .. z - c - 1, p = Where(i, j)' PROVE FALSE
    <3>1. j \in Nat /\ c + j < PAGE_SIZE /\ c + j \in Nat /\ k \in Nat /\ k < PAGE_SIZE /\ k # c + j
      BY <1>0, <1>2
    <3>2. Ring(l + k) = Ring(l + (c + j))
      BY <1>1, <1>5, <2>2, <2>6, <3>1 DEF Where
    <3> QED BY <3>1, <3>2, TwoPlaces
  <2> QED BY <1>1, <2>4, <2>5, <2>6 DEF Num
<1>12. ASSUME ~pipe'[i].torn, NEW x \in Slot, task'[x].pc = "rcopy", task'[x].arg = i,
              NEW p \in Piece(task'[x].at, task'[x].chars)
       PROVE  /\ p \in Pos /\ pipe'[i].bytes[p] = Wrap(task'[x].num + p - task'[x].at)
              /\ \A j \in 0 .. z - c - 1 : p # Where(i, j)'
  <2>1. CASE x = s
    BY <1>1, <1>11, <1>12, <2>1
  <2>2. CASE x # s
    <3>1. task'[x] = task[x]
      BY <2>2
    <3>2. /\ p \in Pos /\ pipe[i].bytes[p] = Wrap(task[x].num + p - task[x].at)
          /\ \A k \in InPipe(i) : p # Where(i, k)
      BY <1>12, <3>1 DEF Flow
    <3>3. ASSUME NEW j \in 0 .. z - c - 1 PROVE p # Where(i, j)'
      <4>1. j \in Nat /\ c + j < PAGE_SIZE /\ c + j \in InPipe(i)
        BY <1>0, <1>2, <1>4
      <4>2. p # Where(i, c + j)
        BY <3>2, <4>1
      <4> QED BY <1>5, <4>1, <4>2
    <3> QED BY <3>1, <3>2, <3>3
  <2> QED BY <2>1, <2>2
<1>13. ASSUME ~pipe'[i].torn
       PROVE  \A j \in InPipe(i)' : Pending(i, Where(i, j), "copy")' \/ pipe'[i].bytes[Where(i, j)'] = Num(i, j)'
  BY <1>4, <1>8, <1>13
<1>14. ASSUME ~pipe'[i].torn, NEW x \in Slot, task'[x].pc = "copy", task'[x].arg = i
       PROVE  \A p \in Piece(task'[x].at, task'[x].chars) : \E j \in InPipe(i)' :
                p = Where(i, j)' /\ Wrap(task'[x].num + p - task'[x].at) = Num(i, j)'
  BY <1>4, <1>10, <1>14
<1>15. ASSUME ~pipe'[i].torn, NEW x \in Slot, task'[x].pc = "rcopy", task'[x].arg = i
       PROVE  \A p \in Piece(task'[x].at, task'[x].chars) :
                /\ p \in Pos /\ pipe'[i].bytes[p] = Wrap(task'[x].num + p - task'[x].at)
                /\ \A j \in InPipe(i)' : p # Where(i, j)'
  BY <1>4, <1>12, <1>15
<1> QED BY <1>6, <1>13, <1>14, <1>15 DEF Flow

\* The head moves over c bytes, which task s is about to store.
LEMMA FlowPut ==
  ASSUME Inv, NEW i \in Pipe, Flow(i), NEW c \in Nat, c <= PAGE_SIZE - pipe[i].head, c <= Room(i),
         NEW s \in Slot, task[s].pc \notin {"copy", "rcopy"},
         pipe'[i].tail = pipe[i].tail, pipe'[i].head = Ring(pipe[i].head + c),
         pipe'[i].bytes = pipe[i].bytes, pipe'[i].rnum = pipe[i].rnum,
         pipe'[i].torn <=> pipe[i].torn \/ \E p \in Piece(pipe[i].head, c) : Pending(i, p, "rcopy"),
         pipe'[i].wnum = Wrap(pipe[i].wnum + c),
         task'[s].pc = "copy", task'[s].arg = i, task'[s].at = pipe[i].head, task'[s].chars = c,
         task'[s].num = pipe[i].wnum, \A x \in Slot \ {s} : task'[x] = task[x]
  PROVE  Flow(i)'
<1>0. PAGE_SIZE \in Nat \ {0}
  BY ProcessAssumption
<1>1. PICK h \in Pos, l \in Pos, rn \in Number, wn \in Number, z \in 0 .. PAGE_SIZE - 1 :
        /\ h = pipe[i].head /\ l = pipe[i].tail /\ rn = pipe[i].rnum /\ wn = pipe[i].wnum
        /\ z = PIPE_SIZE(i) /\ Ring(l + z) = h /\ wn = Wrap(rn + z)
  BY PipeNumbers DEF Flow, Num
<1>2. /\ c <= PAGE_SIZE - h /\ z + c < PAGE_SIZE /\ l \in Nat /\ h \in Nat /\ z \in Nat /\ rn \in Nat
      /\ wn \in Nat /\ z < PAGE_SIZE
  BY <1>0, <1>1 DEF Pos, Number, Room
<1>3. PIPE_SIZE(i)' = z + c
  <2>1. z = (h + PAGE_SIZE - l) % PAGE_SIZE
    BY <1>1 DEF PIPE_SIZE
  <2>2. (Ring(h + c) + PAGE_SIZE - l) % PAGE_SIZE = z + c
    BY <1>2, <2>1, Sizes
  <2> QED BY <1>1, <2>2 DEF PIPE_SIZE
<1>4. InPipe(i) = 0 .. z - 1 /\ InPipe(i)' = 0 .. z + c - 1
  BY <1>1, <1>2, <1>3 DEF InPipe
<1>5. \A j : Where(i, j)' = Where(i, j) /\ Num(i, j)' = Num(i, j)
  BY DEF Where, Num
<1>6. ASSUME NEW k \in Nat, z + k < PAGE_SIZE
      PROVE  Where(i, z + k) = Ring(h + k) /\ Num(i, z + k) = Wrap(wn + k)
  <2>1. Ring(Ring(l + z) + k) = Ring(l + (z + k)) /\ Wrap(Wrap(rn + z) + k) = Wrap(rn + (z + k))
    BY <1>2, <1>6, Places
  <2> QED BY <1>1, <2>1 DEF Where, Num
<1>7. pipe'[i].wnum = Num(i, PIPE_SIZE(i))'
  <2>1. Num(i, z + c) = Wrap(wn + c)
    BY <1>2, <1>6
  <2>2. Num(i, PIPE_SIZE(i))' = Num(i, z + c)
    BY <1>3 DEF Num
  <2> QED BY <1>1, <2>1, <2>2
<1>8. ASSUME NEW k \in 0 .. c - 1
      PROVE  Where(i, z + k) = h + k /\ Num(i, z + k) = Wrap(wn + k) /\ h + k \in Piece(h, c)
  <2>1. k \in Nat /\ z + k < PAGE_SIZE /\ h + k \in Nat /\ h + k < PAGE_SIZE /\ h + k \in h .. h + c - 1
    BY <1>0, <1>2
  <2>2. Ring(h + k) = h + k
    BY <1>0, <2>1, RingOnce
  <2> QED BY <1>6, <2>1, <2>2 DEF Piece
<1>9. \A p \in Piece(h, c) : Pending(i, p, "copy")'
  BY <1>1 DEF Pending
<1>10. \A p : Pending(i, p, "copy") => Pending(i, p, "copy")'
  BY DEF Pending
<1>11. ASSUME NEW j \in 0 .. z + c - 1, ~pipe'[i].torn
       PROVE  Pending(i, Where(i, j), "copy")' \/ pipe'[i].bytes[Where(i, j)'] = Num(i, j)'
  <2>1. CASE j < z
    <3>1. j \in InPipe(i)
      BY <1>2, <1>4, <2>1
    <3>2. Pending(i, Where(i, j), "copy") \/ pipe[i].bytes[Where(i, j)] = Num(i, j)
      BY <1>11, <3>1 DEF Flow
    <3>3. Pending(i, Where(i, j), "copy") => Pending(i, Where(i, j), "copy")'
      <4>1. PICK p : p = Where(i, j)
        OBVIOUS
      <4>2. Pending(i, p, "copy")' => Pending(i, Where(i, j), "copy")'
        BY <1>5, <4>1 DEF Pending
      <4> QED BY <1>10, <4>1, <4>2
    <3> QED BY <1>5, <3>2, <3>3
  <2>2. CASE j >= z
    <3>1. j - z \in 0 .. c - 1 /\ z + (j - z) = j
      BY <1>2, <2>2
    <3>2. Where(i, j) = h + (j - z) /\ h + (j - z) \in Piece(h, c)
      BY <1>8, <3>1
    <3>3. PICK p \in Piece(h, c) : p = Where(i, j)
      BY <3>2
    <3>4. Pending(i, p, "copy")' => Pending(i, Where(i, j), "copy")'
      BY <1>5, <3>3 DEF Pending
    <3> QED BY <1>9, <3>3, <3>4
  <2> QED BY <1>2, <2>1, <2>2
<1>12. ASSUME ~pipe'[i].torn, NEW x \in Slot, task'[x].pc = "copy", task'[x].arg = i,
              NEW p \in Piece(task'[x].at, task'[x].chars)
       PROVE  \E j \in 0 .. z + c - 1 : p = Where(i, j)' /\ Wrap(task'[x].num + p - task'[x].at) = Num(i, j)'
  <2>1. CASE x = s
    <3>1. p \in Piece(h, c)
      BY <1>1, <1>12, <2>1
    <3>2. p - h \in 0 .. c - 1 /\ h + (p - h) = p /\ z + (p - h) \in 0 .. z + c - 1
      BY <1>2, <3>1 DEF Piece
    <3>3. Where(i, z + (p - h)) = p /\ Num(i, z + (p - h)) = Wrap(wn + (p - h))
      BY <1>8, <3>2
    <3>4. Wrap(task'[x].num + p - task'[x].at) = Wrap(wn + (p - h))
      BY <1>1, <2>1
    <3> QED BY <1>5, <3>2, <3>3, <3>4
  <2>2. CASE x # s
    <3>1. task'[x] = task[x]
      BY <2>2
    <3>2. PICK j \in InPipe(i) : p = Where(i, j) /\ Wrap(task[x].num + p - task[x].at) = Num(i, j)
      BY <1>12, <3>1 DEF Flow
    <3>3. j \in 0 .. z + c - 1
      BY <1>2, <1>4, <3>2
    <3> QED BY <1>5, <3>1, <3>2, <3>3
  <2> QED BY <2>1, <2>2
<1>13. ASSUME ~pipe'[i].torn, NEW x \in Slot, task'[x].pc = "rcopy", task'[x].arg = i,
              NEW p \in Piece(task'[x].at, task'[x].chars)
       PROVE  /\ p \in Pos /\ pipe'[i].bytes[p] = Wrap(task'[x].num + p - task'[x].at)
              /\ \A j \in 0 .. z + c - 1 : p # Where(i, j)'
  <2>1. task'[x] = task[x]
    BY <1>13
  <2>2. /\ p \in Pos /\ pipe[i].bytes[p] = Wrap(task[x].num + p - task[x].at)
        /\ \A j \in InPipe(i) : p # Where(i, j)
    BY <1>13, <2>1 DEF Flow
  <2>3. Pending(i, p, "rcopy")
    BY <1>13, <2>1 DEF Pending
  <2>4. p \notin Piece(h, c)
    BY <1>1, <1>13, <2>3
  <2>5. ASSUME NEW j \in 0 .. z + c - 1 PROVE p # Where(i, j)
    <3>1. CASE j < z
      BY <1>2, <1>4, <2>2, <3>1
    <3>2. CASE j >= z
      <4>1. j - z \in 0 .. c - 1 /\ z + (j - z) = j
        BY <1>2, <3>2
      <4>2. Where(i, j) = h + (j - z) /\ h + (j - z) \in Piece(h, c)
        BY <1>8, <4>1
      <4> QED BY <2>4, <4>2
    <3> QED BY <1>2, <3>1, <3>2
  <2> QED BY <1>5, <2>1, <2>2, <2>5
<1>14. ASSUME ~pipe'[i].torn
       PROVE  \A j \in InPipe(i)' : Pending(i, Where(i, j), "copy")' \/ pipe'[i].bytes[Where(i, j)'] = Num(i, j)'
  BY <1>4, <1>11, <1>14
<1>15. ASSUME ~pipe'[i].torn, NEW x \in Slot, task'[x].pc = "copy", task'[x].arg = i
       PROVE  \A p \in Piece(task'[x].at, task'[x].chars) : \E j \in InPipe(i)' :
                p = Where(i, j)' /\ Wrap(task'[x].num + p - task'[x].at) = Num(i, j)'
  BY <1>4, <1>12, <1>15
<1>16. ASSUME ~pipe'[i].torn, NEW x \in Slot, task'[x].pc = "rcopy", task'[x].arg = i
       PROVE  \A p \in Piece(task'[x].at, task'[x].chars) :
                /\ p \in Pos /\ pipe'[i].bytes[p] = Wrap(task'[x].num + p - task'[x].at)
                /\ \A j \in InPipe(i)' : p # Where(i, j)'
  BY <1>4, <1>13, <1>16
<1> QED BY <1>7, <1>14, <1>15, <1>16 DEF Flow

\* Task s stores its piece.
LEMMA FlowStore ==
  ASSUME Inv, NEW i \in Pipe, Flow(i), NEW s \in Slot, task[s].pc = "copy", task[s].arg = i,
         pipe'[i].head = pipe[i].head, pipe'[i].tail = pipe[i].tail, pipe'[i].wnum = pipe[i].wnum,
         pipe'[i].rnum = pipe[i].rnum, pipe'[i].torn = pipe[i].torn,
         \A p \in Pos : pipe'[i].bytes[p] =
           IF p \in Piece(task[s].at, task[s].chars) THEN Wrap(task[s].num + p - task[s].at)
           ELSE pipe[i].bytes[p],
         task'[s].pc \notin {"copy", "rcopy"},
         \A x \in Slot \ {s} : Still(task[x], task'[x])
  PROVE  Flow(i)'
<1>0. PAGE_SIZE \in Nat \ {0}
  BY ProcessAssumption
<1>1. /\ pipe[i].tail \in Pos /\ PIPE_SIZE(i) \in 0 .. PAGE_SIZE - 1
  BY PipeNumbers
<1>2. PIPE_SIZE(i)' = PIPE_SIZE(i) /\ InPipe(i)' = InPipe(i)
  BY DEF PIPE_SIZE, InPipe
<1>3. \A j : Where(i, j)' = Where(i, j) /\ Num(i, j)' = Num(i, j)
  BY DEF Where, Num
<1>4. \A j \in InPipe(i) : j \in Nat /\ j < PAGE_SIZE
  BY <1>0, <1>1 DEF InPipe
<1>5. \A j \in InPipe(i) : Where(i, j) \in Pos
  <2>1. \A j \in InPipe(i) : pipe[i].tail + j \in Nat
    BY <1>1, <1>4, Zeros DEF Pos
  <2> QED BY <2>1, Rings DEF Where
<1>6. \A j, k \in InPipe(i) : Where(i, j) = Where(i, k) => j = k
  BY <1>1, <1>4, TwoPlaces DEF Where
<1>7. pipe'[i].wnum = Num(i, PIPE_SIZE(i))'
  BY <1>2, <1>3 DEF Flow
<1>8. \A x \in Slot \ {s} : task[x].pc \in {"copy", "rcopy"} \/ task'[x].pc \in {"copy", "rcopy"} =>
        /\ task'[x].pc = task[x].pc /\ task'[x].arg = task[x].arg /\ task'[x].at = task[x].at
        /\ task'[x].chars = task[x].chars /\ task'[x].num = task[x].num
  BY DEF Still, OnPipe
<1>9. ASSUME NEW j \in InPipe(i), ~pipe[i].torn
      PROVE  Pending(i, Where(i, j), "copy")' \/ pipe'[i].bytes[Where(i, j)'] = Num(i, j)'
  <2>1. PICK p \in Pos : p = Where(i, j)
    BY <1>5
  <2>2. p = Where(i, j)'
    BY <1>3, <2>1
  <2>3. CASE p \in Piece(task[s].at, task[s].chars)
    <3>1. PICK k \in InPipe(i) : p = Where(i, k) /\ Wrap(task[s].num + p - task[s].at) = Num(i, k)
      BY <1>9, <2>3 DEF Flow
    <3>2. k = j
      BY <1>6, <2>1, <3>1
    <3>3. pipe'[i].bytes[p] = Num(i, j)
      BY <2>3, <3>1, <3>2
    <3> QED BY <1>3, <2>2, <3>3
  <2>4. CASE p \notin Piece(task[s].at, task[s].chars)
    <3>1. pipe'[i].bytes[p] = pipe[i].bytes[p]
      BY <2>4
    <3>2. CASE Pending(i, p, "copy")
      <4>1. PICK x \in Slot : task[x].pc = "copy" /\ task[x].arg = i /\ p \in Piece(task[x].at, task[x].chars)
        BY <3>2 DEF Pending
      <4>2. x # s
        BY <2>4, <4>1
      <4>3. Pending(i, p, "copy")'
        BY <1>8, <4>1, <4>2 DEF Pending
      <4>4. Pending(i, Where(i, j), "copy")'
        BY <2>2, <4>3 DEF Pending
      <4> QED BY <4>4
    <3>3. CASE ~Pending(i, p, "copy")
      <4>1. pipe[i].bytes[p] = Num(i, j)
        BY <1>9, <2>1, <3>3 DEF Flow
      <4> QED BY <1>3, <2>2, <3>1, <4>1
    <3> QED BY <3>2, <3>3
  <2> QED BY <2>3, <2>4
<1>10. ASSUME ~pipe[i].torn, NEW x \in Slot, task'[x].pc = "copy", task'[x].arg = i,
              NEW p \in Piece(task'[x].at, task'[x].chars)
       PROVE  \E j \in InPipe(i) : p = Where(i, j)' /\ Wrap(task'[x].num + p - task'[x].at) = Num(i, j)'
  <2>1. task[x].pc = "copy" /\ task[x].arg = i /\ task'[x].at = task[x].at
        /\ task'[x].chars = task[x].chars /\ task'[x].num = task[x].num
    BY <1>8, <1>10
  <2>2. PICK j \in InPipe(i) : p = Where(i, j) /\ Wrap(task[x].num + p - task[x].at) = Num(i, j)
    BY <1>10, <2>1 DEF Flow
  <2> QED BY <1>3, <2>1, <2>2
<1>11. ASSUME ~pipe[i].torn, NEW x \in Slot, task'[x].pc = "rcopy", task'[x].arg = i,
              NEW p \in Piece(task'[x].at, task'[x].chars)
       PROVE  /\ p \in Pos /\ pipe'[i].bytes[p] = Wrap(task'[x].num + p - task'[x].at)
              /\ \A j \in InPipe(i) : p # Where(i, j)'
  <2>1. task[x].pc = "rcopy" /\ task[x].arg = i /\ task'[x].at = task[x].at
        /\ task'[x].chars = task[x].chars /\ task'[x].num = task[x].num
    BY <1>8, <1>11
  <2>2. /\ p \in Pos /\ pipe[i].bytes[p] = Wrap(task[x].num + p - task[x].at)
        /\ \A j \in InPipe(i) : p # Where(i, j)
    BY <1>11, <2>1 DEF Flow
  <2>3. p \notin Piece(task[s].at, task[s].chars)
    <3>1. \A u \in Piece(task[s].at, task[s].chars) : \E j \in InPipe(i) : u = Where(i, j)
      BY <1>11 DEF Flow
    <3> QED BY <2>2, <3>1
  <2>4. pipe'[i].bytes[p] = pipe[i].bytes[p]
    BY <2>2, <2>3
  <2> QED BY <1>3, <2>1, <2>2, <2>4
<1> QED BY <1>2, <1>7, <1>9, <1>10, <1>11 DEF Flow

\* Task s wakes the top of the queue of pipe i and returns to user mode.
LEMMA LoopReturns ==
  ASSUME Inv, NEW s \in Slot, NEW i \in Pipe, NEW t, t \in [Slot -> Tasks], t[s].st = "run",
         \A x \in Slot \ {s} : t[x] = wake_up(task, i)[x], task' = Return(t, s)
  PROVE  /\ task'[s].pc = "user" /\ (pipe[i].wait = NULL \/ task'[pipe[i].wait].st # "unint")
         /\ \A x \in Slot \ {s} : Still(task[x], task'[x])
<1>1. task \in [Slot -> Tasks] /\ pipe[i].wait \in {NULL} \cup Slot
  BY AtFacts DEF Inv, TypeOK
<1>2. PICK w : w = Wake(task, pipe[i].wait)
  OBVIOUS
<1>3. /\ \A x \in Slot : Still(task[x], w[x])
      /\ pipe[i].wait # NULL => w[pipe[i].wait].st # "unint"
  BY <1>1, <1>2, WakeIs
<1> DEFINE n == [t[s] EXCEPT !.pc = "user", !.tmp = NULL, !.arg = 0, !.n = 0, !.at = 0, !.chars = 0, !.num = 0]
<1>4. n.pc = "user" /\ n.st = "run"
  BY DEF Tasks
<1>5. task' = [t EXCEPT ![s] = n]
  BY DEF Return
<1> HIDE DEF n
<1>6. task'[s] = n /\ \A x \in Slot \ {s} : task'[x] = w[x]
  BY <1>2, <1>5 DEF wake_up
<1> QED BY <1>1, <1>3, <1>4, <1>6

\* Task s does not begin a copy, nor end one to a pipe.
LEMMA SameCopies ==
  ASSUME NEW s \in Slot, \A x \in Slot \ {s} : Still(task[x], task'[x]), task[s].pc # "copy",
         task'[s].pc \notin {"copy", "rcopy"}
  PROVE  \A i \in Pipe, x \in Slot : SameCopy(task[x], task'[x], i)
BY DEF Still, OnPipe, SameCopy

\* The tail of a pipe moves.
LEMMA TailMoves ==
  ASSUME NEW r \in Pipes, NEW a, NEW k, NEW torn
  PROVE  LET q == [r EXCEPT !.tail = a, !.rnum = k, !.torn = torn]
         IN /\ q.wait = r.wait /\ q.head = r.head /\ q.bytes = r.bytes /\ q.wnum = r.wnum
            /\ q.tail = a /\ q.rnum = k /\ q.torn = torn /\ q.wrong = r.wrong
BY DEF Pipes

\* The task that moved it.
LEMMA CopyStarts ==
  ASSUME NEW r \in Tasks, NEW pc, NEW k, NEW a, NEW c, NEW u
  PROVE  LET n == [r EXCEPT !.pc = pc, !.n = k, !.at = a, !.chars = c, !.num = u]
         IN /\ n.st = r.st /\ n.arg = r.arg /\ n.filp = r.filp
            /\ n.pc = pc /\ n.at = a /\ n.chars = c /\ n.num = u
BY DEF Tasks

\* read_pipe.
LEMMA ReadPipes ==
  ASSUME Inv, Inv', PipesOK, NEW s \in Slot, read_pipe(s)
  PROVE  PipesOK'
<1>0. task[s].st = "run" /\ task[s].pc = "read" /\ UNCHANGED file
  BY DEF read_pipe, At
<1>1. PICK i \in Pipe : i = task[s].arg
  BY <1>0, AtFacts DEF OnPipe
<1> DEFINE size == PIPE_SIZE(i)
           chars == Min({PAGE_SIZE - pipe[i].tail, task[s].n, size})
           torn == pipe[i].torn \/ \E p \in Piece(pipe[i].tail, chars) : Pending(i, p, "copy")
           q == [pipe[i] EXCEPT !.tail = Ring(pipe[i].tail + chars), !.rnum = Wrap(pipe[i].rnum + chars),
                                !.torn = torn]
           m == [task[s] EXCEPT !.pc = "rcopy", !.n = task[s].n - chars, !.at = pipe[i].tail,
                                !.chars = chars, !.num = pipe[i].rnum]
           w == wake_up(task, i)
<1>2. \/ sleep_on(w, s, i, "rsleep") /\ pipe[i].count = 2 /\ PIPE_SIZE(i) = 0
      \/ task' = Return(w, s) /\ pipe' = pipe
      \/ pipe' = [pipe EXCEPT ![i] = q] /\ task' = [task EXCEPT ![s] = m]
  BY <1>1 DEF read_pipe, Claim, Done, BothEnds
<1>3. /\ task \in [Slot -> Tasks] /\ task[s] \in Tasks /\ pipe \in [Pipe -> Pipes] /\ pipe[i] \in Pipes
      /\ pipe[i].wait \in {NULL} \cup Slot /\ Flow(i) /\ ~pipe[i].wrong
  BY AtFacts DEF Inv, TypeOK, PipesOK, PipeFifo
<1>4. w \in [Slot -> Tasks] /\ w[s].st = "run"
  BY <1>0, <1>3, WakeIs DEF wake_up
<1>5. CASE sleep_on(w, s, i, "rsleep") /\ pipe[i].count = 2 /\ PIPE_SIZE(i) = 0
  BY <1>0, <1>1, <1>5, SleepOnPipes
<1>6. ASSUME task' = Return(w, s)
      PROVE  /\ task'[s].pc = "user" /\ (pipe[i].wait = NULL \/ task'[pipe[i].wait].st # "unint")
             /\ \A x \in Slot \ {s} : Still(task[x], task'[x])
  <2> HIDE DEF w
  <2>1. \A x \in Slot \ {s} : w[x] = wake_up(task, i)[x]
    BY DEF w
  <2> QED BY <1>4, <1>6, <2>1, LoopReturns
<1>7. CASE task' = Return(w, s) /\ pipe' = pipe
  <2>1. SameFlow(pipe[i], pipe'[i])
    BY <1>7 DEF SameFlow
  <2> HIDE DEF w
  <2>2. Flow(i)'
    BY <1>0, <1>3, <1>6, <1>7, <2>1, SameCopies, FlowSame
  <2> QED BY <1>0, <1>1, <1>3, <1>6, <1>7, <2>2, LoopStep
<1>8. CASE pipe' = [pipe EXCEPT ![i] = q] /\ task' = [task EXCEPT ![s] = m]
  <2>1. chars \in Nat /\ chars <= PAGE_SIZE - pipe[i].tail /\ chars <= PIPE_SIZE(i)
    <3>1. PAGE_SIZE - pipe[i].tail \in Nat /\ task[s].n \in Nat /\ size \in Nat
      <4>1. task[s].n \in 0 .. MaxCount /\ size \in 0 .. PAGE_SIZE - 1
        BY <1>3, PipeNumbers DEF Tasks
      <4> HIDE DEF size
      <4> QED BY <1>3, <4>1, Rings, ProcessAssumption
    <3> HIDE DEF size
    <3>2. chars \in Nat /\ chars <= PAGE_SIZE - pipe[i].tail /\ chars <= size
      BY <3>1, Least
    <3> QED BY <3>2 DEF size
  <2> HIDE DEF chars, w
  <2>2. torn <=> pipe[i].torn \/ \E p \in Piece(pipe[i].tail, chars) : Pending(i, p, "copy")
    OBVIOUS
  <2> HIDE DEF torn
  <2>3. /\ q.wait = pipe[i].wait /\ q.head = pipe[i].head /\ q.bytes = pipe[i].bytes /\ q.wnum = pipe[i].wnum
        /\ q.tail = Ring(pipe[i].tail + chars) /\ q.rnum = Wrap(pipe[i].rnum + chars)
        /\ q.torn = torn /\ q.wrong = pipe[i].wrong
    BY <1>3, TailMoves
  <2>4. /\ m.st = "run" /\ m.arg = i /\ m.filp = task[s].filp /\ m.pc = "rcopy" /\ m.at = pipe[i].tail
        /\ m.chars = chars /\ m.num = pipe[i].rnum
    BY <1>0, <1>1, <1>3, CopyStarts
  <2> HIDE DEF q, m
  <2>5. pipe'[i] = q /\ \A j \in Pipe \ {i} : pipe'[j] = pipe[j]
    BY <1>3, <1>8
  <2>6. task'[s] = m /\ \A x \in Slot \ {s} : task'[x] = task[x] /\ Still(task[x], task'[x])
    BY <1>3, <1>8, StillSame
  <2>7. Flow(i)'
    BY <1>0, <1>3, <2>1, <2>2, <2>3, <2>4, <2>5, <2>6, FlowTake
  <2>8. pipe'[i].wait = pipe[i].wait /\ ~pipe'[i].wrong
    BY <1>3, <2>3, <2>5
  <2> QED BY <1>0, <1>1, <2>4, <2>5, <2>6, <2>7, <2>8, LoopStep
<1> QED BY <1>2, <1>5, <1>7, <1>8

\* The head of a pipe moves.
LEMMA HeadMoves ==
  ASSUME NEW r \in Pipes, NEW a, NEW k, NEW torn
  PROVE  LET q == [r EXCEPT !.head = a, !.wnum = k, !.torn = torn]
         IN /\ q.wait = r.wait /\ q.tail = r.tail /\ q.bytes = r.bytes /\ q.rnum = r.rnum
            /\ q.torn = torn /\ q.wrong = r.wrong /\ q.head = a /\ q.wnum = k
BY DEF Pipes

\* write_pipe.
LEMMA WritePipes ==
  ASSUME Inv, Inv', PipesOK, NEW s \in Slot, write_pipe(s)
  PROVE  PipesOK'
<1>0. task[s].st = "run" /\ task[s].pc = "write" /\ UNCHANGED file
  BY DEF write_pipe, At
<1>1. PICK i \in Pipe : i = task[s].arg
  BY <1>0, AtFacts DEF OnPipe
<1> DEFINE room == Room(i)
           chars == Min({PAGE_SIZE - pipe[i].head, task[s].n, room})
           torn == pipe[i].torn \/ \E p \in Piece(pipe[i].head, chars) : Pending(i, p, "rcopy")
           q == [pipe[i] EXCEPT !.head = Ring(pipe[i].head + chars), !.wnum = Wrap(pipe[i].wnum + chars),
                                !.torn = torn]
           m == [task[s] EXCEPT !.pc = "copy", !.n = task[s].n - chars, !.at = pipe[i].head,
                                !.chars = chars, !.num = pipe[i].wnum]
           w == wake_up(task, i)
<1>2. \/ sleep_on(w, s, i, "wsleep") /\ pipe[i].count = 2 /\ Room(i) = 0
      \/ task' = Return([w EXCEPT ![s].sig = @ \cup {"SIGPIPE"}], s) /\ pipe' = pipe
      \/ /\ pipe' = [pipe EXCEPT ![i] = q]
         /\ task' = [task EXCEPT ![s] = m]
  BY <1>1 DEF write_pipe, Claim, Done, BothEnds
<1>3. /\ task \in [Slot -> Tasks] /\ task[s] \in Tasks /\ pipe \in [Pipe -> Pipes] /\ pipe[i] \in Pipes
      /\ pipe[i].wait \in {NULL} \cup Slot /\ Flow(i) /\ ~pipe[i].wrong
  BY AtFacts DEF Inv, TypeOK, PipesOK, PipeFifo
<1>4. w \in [Slot -> Tasks] /\ w[s] = task[s]
  BY <1>0, <1>3, WakeIs DEF wake_up
<1>5. CASE sleep_on(w, s, i, "wsleep") /\ pipe[i].count = 2 /\ Room(i) = 0
  BY <1>0, <1>1, <1>5, SleepOnPipes
<1>6. CASE task' = Return([w EXCEPT ![s].sig = @ \cup {"SIGPIPE"}], s) /\ pipe' = pipe
  <2> DEFINE g == w[s].sig \cup {"SIGPIPE"}
             n == [w[s] EXCEPT !.sig = g]
             t == [w EXCEPT ![s] = n]
  <2>1. g \in SUBSET Signal
    BY <1>3, <1>4 DEF Tasks, Signal
  <2> HIDE DEF g, w
  <2>2. n \in Tasks /\ n.st = "run"
    BY <1>0, <1>3, <1>4, <2>1 DEF Tasks
  <2>3. task' = Return(t, s)
    BY <1>6 DEF g
  <2> HIDE DEF n
  <2>4. t \in [Slot -> Tasks] /\ t[s].st = "run" /\ \A x \in Slot \ {s} : t[x] = wake_up(task, i)[x]
    BY <1>4, <2>2 DEF w
  <2> HIDE DEF t
  <2>5. /\ task'[s].pc = "user" /\ (pipe[i].wait = NULL \/ task'[pipe[i].wait].st # "unint")
        /\ \A x \in Slot \ {s} : Still(task[x], task'[x])
    BY <2>3, <2>4, LoopReturns
  <2>6. SameFlow(pipe[i], pipe'[i])
    BY <1>6 DEF SameFlow
  <2>7. Flow(i)'
    BY <1>0, <1>3, <2>5, <2>6, SameCopies, FlowSame
  <2> QED BY <1>0, <1>1, <1>3, <1>6, <2>5, <2>7, LoopStep
<1>7. CASE /\ pipe' = [pipe EXCEPT ![i] = q]
           /\ task' = [task EXCEPT ![s] = m]
  <2>1. chars \in Nat /\ chars <= PAGE_SIZE - pipe[i].head /\ chars <= Room(i)
    <3>1. PAGE_SIZE - pipe[i].head \in Nat /\ task[s].n \in Nat /\ room \in Nat
      <4>1. task[s].n \in 0 .. MaxCount /\ PIPE_SIZE(i) \in 0 .. PAGE_SIZE - 1
        BY <1>3, PipeNumbers DEF Tasks
      <4> QED BY <1>3, <4>1, Rings, ProcessAssumption DEF Room
    <3> HIDE DEF room
    <3>2. chars \in Nat /\ chars <= PAGE_SIZE - pipe[i].head /\ chars <= room
      BY <3>1, Least
    <3> QED BY <3>2 DEF room
  <2> HIDE DEF chars, w
  <2>2. torn <=> pipe[i].torn \/ \E p \in Piece(pipe[i].head, chars) : Pending(i, p, "rcopy")
    OBVIOUS
  <2> HIDE DEF torn
  <2>3. /\ q.wait = pipe[i].wait /\ q.tail = pipe[i].tail /\ q.bytes = pipe[i].bytes /\ q.rnum = pipe[i].rnum
        /\ q.torn = torn /\ q.wrong = pipe[i].wrong
        /\ q.head = Ring(pipe[i].head + chars) /\ q.wnum = Wrap(pipe[i].wnum + chars)
    BY <1>3, HeadMoves
  <2>4. /\ m.st = "run" /\ m.arg = i /\ m.filp = task[s].filp /\ m.pc = "copy" /\ m.at = pipe[i].head
        /\ m.chars = chars /\ m.num = pipe[i].wnum
    BY <1>0, <1>1, <1>3, CopyStarts
  <2> HIDE DEF q, m
  <2>5. pipe'[i] = q /\ \A j \in Pipe \ {i} : pipe'[j] = pipe[j]
    BY <1>3, <1>7
  <2>6. task'[s] = m /\ \A x \in Slot \ {s} : task'[x] = task[x] /\ Still(task[x], task'[x])
    BY <1>3, <1>7, StillSame
  <2>7. Flow(i)'
    BY <1>0, <1>3, <2>1, <2>2, <2>3, <2>4, <2>5, <2>6, FlowPut
  <2>8. pipe'[i].wait = pipe[i].wait /\ ~pipe'[i].wrong
    BY <1>3, <2>3, <2>5
  <2> QED BY <1>0, <1>1, <2>4, <2>5, <2>6, <2>7, <2>8, LoopStep
<1> QED BY <1>2, <1>5, <1>6, <1>7

\* Bytes of a pipe are stored.
LEMMA BytesStored ==
  ASSUME NEW r \in Pipes, NEW b
  PROVE  LET q == [r EXCEPT !.bytes = b]
         IN /\ q.wait = r.wait /\ q.head = r.head /\ q.tail = r.tail /\ q.wnum = r.wnum /\ q.rnum = r.rnum
            /\ q.torn = r.torn /\ q.wrong = r.wrong /\ q.bytes = b
BY DEF Pipes

\* The piece is stored after the head has moved.
LEMMA CopyPipes ==
  ASSUME Inv, Inv', PipesOK, NEW s \in Slot, Copy(s)
  PROVE  PipesOK'
<1>0. task[s].st = "run" /\ task[s].pc = "copy" /\ UNCHANGED file
  BY DEF Copy, Copied, At
<1>1. PICK i \in Pipe : i = task[s].arg
  BY <1>0, AtFacts DEF OnPipe
<1> DEFINE b == [p \in Pos |-> IF p \in Piece(task[s].at, task[s].chars)
                               THEN Wrap(task[s].num + p - task[s].at) ELSE pipe[i].bytes[p]]
           q == [pipe[i] EXCEPT !.bytes = b]
           w == wake_up(task, i)
           m == [task[s] EXCEPT !.pc = "write", !.n = task[s].n, !.at = 0, !.chars = 0, !.num = 0]
<1>2. /\ task \in [Slot -> Tasks] /\ task[s] \in Tasks /\ pipe \in [Pipe -> Pipes] /\ pipe[i] \in Pipes
      /\ pipe[i].wait \in {NULL} \cup Slot /\ Flow(i) /\ ~pipe[i].wrong
  BY AtFacts DEF Inv, TypeOK, PipesOK, PipeFifo
<1>3. pipe' = [pipe EXCEPT ![i] = q]
  BY <1>1, <1>2 DEF Copy
<1>4. [task[s] EXCEPT !.pc = "write", !.at = 0, !.chars = 0, !.num = 0] = m
  BY <1>2 DEF Tasks
<1>5. task' = Return(w, s) \/ task' = [task EXCEPT ![s] = m]
  BY <1>1, <1>4 DEF Copy, Copied, Done
<1>6. \A p \in Pos : b[p] = IF p \in Piece(task[s].at, task[s].chars)
                            THEN Wrap(task[s].num + p - task[s].at) ELSE pipe[i].bytes[p]
  OBVIOUS
<1> HIDE DEF b
<1>7. /\ q.wait = pipe[i].wait /\ q.head = pipe[i].head /\ q.tail = pipe[i].tail /\ q.wnum = pipe[i].wnum
      /\ q.rnum = pipe[i].rnum /\ q.torn = pipe[i].torn /\ q.wrong = pipe[i].wrong /\ q.bytes = b
  BY <1>2, BytesStored
<1>8. m.st = "run" /\ m.arg = i /\ m.filp = task[s].filp /\ m.pc = "write"
  BY <1>0, <1>1, <1>2, CopyStarts
<1> HIDE DEF q, m
<1>9. pipe'[i] = q /\ \A j \in Pipe \ {i} : pipe'[j] = pipe[j]
  BY <1>2, <1>3
<1>10. /\ \A x \in Slot \ {s} : Still(task[x], task'[x])
       /\ \/ task'[s].pc = "user" /\ (pipe[i].wait = NULL \/ task'[pipe[i].wait].st # "unint")
          \/ /\ task'[s].pc = "write" /\ task'[s].arg = i /\ task'[s].st = "run"
             /\ task'[s].filp = task[s].filp
  <2>1. CASE task' = Return(w, s)
    <3>1. w \in [Slot -> Tasks] /\ w[s].st = "run" /\ \A x \in Slot \ {s} : w[x] = wake_up(task, i)[x]
      BY <1>0, <1>2, WakeIs DEF wake_up
    <3> HIDE DEF w
    <3> QED BY <2>1, <3>1, LoopReturns
  <2>2. CASE task' = [task EXCEPT ![s] = m]
    BY <1>2, <1>8, <2>2, StillSame
  <2> QED BY <1>5, <2>1, <2>2
<1>11. Flow(i)'
  <2>1. task'[s].pc \notin {"copy", "rcopy"}
    BY <1>10
  <2>2. \A p \in Pos : pipe'[i].bytes[p] =
           IF p \in Piece(task[s].at, task[s].chars) THEN Wrap(task[s].num + p - task[s].at)
           ELSE pipe[i].bytes[p]
    BY <1>6, <1>7, <1>9
  <2> QED BY <1>0, <1>1, <1>2, <1>7, <1>9, <1>10, <2>1, <2>2, FlowStore
<1>12. pipe'[i].wait = pipe[i].wait /\ ~pipe'[i].wrong
  BY <1>2, <1>7, <1>9
<1> QED BY <1>0, <1>1, <1>9, <1>10, <1>11, <1>12, LoopStep

\* The piece is taken after the tail has moved.
LEMMA CopyOutPipes ==
  ASSUME Inv, Inv', PipesOK, NEW s \in Slot, CopyOut(s)
  PROVE  PipesOK'
<1>0. task[s].st = "run" /\ task[s].pc = "rcopy" /\ UNCHANGED file
  BY DEF CopyOut, Copied, At
<1>1. PICK i \in Pipe : i = task[s].arg
  BY <1>0, AtFacts DEF OnPipe
<1> DEFINE wrong == \E p \in Piece(task[s].at, task[s].chars) :
                      pipe[i].bytes[p] # Wrap(task[s].num + p - task[s].at)
           bad == pipe[i].wrong \/ (wrong /\ ~pipe[i].torn)
           q == [pipe[i] EXCEPT !.wrong = bad]
           w == wake_up(task, i)
           m == [task[s] EXCEPT !.pc = "read", !.n = task[s].n, !.at = 0, !.chars = 0, !.num = 0]
<1>2. /\ task \in [Slot -> Tasks] /\ task[s] \in Tasks /\ pipe \in [Pipe -> Pipes] /\ pipe[i] \in Pipes
      /\ pipe[i].wait \in {NULL} \cup Slot /\ Flow(i) /\ pipe[i].wrong = FALSE
  BY AtFacts DEF Inv, TypeOK, PipesOK, PipeFifo, Pipes
<1>3. pipe' = [pipe EXCEPT ![i] = q]
  BY <1>1, <1>2 DEF CopyOut
<1>4. [task[s] EXCEPT !.pc = "read", !.at = 0, !.chars = 0, !.num = 0] = m
  BY <1>2 DEF Tasks
<1>5. task' = Return(w, s) \/ task' = [task EXCEPT ![s] = m]
  BY <1>1, <1>4 DEF CopyOut, Copied, Done
<1>6. bad = FALSE
  <2>1. ~pipe[i].torn => ~wrong
    BY <1>0, <1>1, <1>2 DEF Flow
  <2> QED BY <1>2, <2>1
<1> HIDE DEF wrong, bad
<1>7. q = pipe[i]
  BY <1>2, <1>6 DEF Pipes
<1>8. m.st = "run" /\ m.arg = i /\ m.filp = task[s].filp /\ m.pc = "read"
  BY <1>0, <1>1, <1>2, CopyStarts
<1> HIDE DEF q, m
<1>9. pipe'[i] = pipe[i] /\ \A j \in Pipe \ {i} : pipe'[j] = pipe[j]
  BY <1>2, <1>3, <1>7
<1>10. /\ \A x \in Slot \ {s} : Still(task[x], task'[x])
       /\ \/ task'[s].pc = "user" /\ (pipe[i].wait = NULL \/ task'[pipe[i].wait].st # "unint")
          \/ /\ task'[s].pc = "read" /\ task'[s].arg = i /\ task'[s].st = "run"
             /\ task'[s].filp = task[s].filp
  <2>1. CASE task' = Return(w, s)
    <3>1. w \in [Slot -> Tasks] /\ w[s].st = "run" /\ \A x \in Slot \ {s} : w[x] = wake_up(task, i)[x]
      BY <1>0, <1>2, WakeIs DEF wake_up
    <3> HIDE DEF w
    <3> QED BY <2>1, <3>1, LoopReturns
  <2>2. CASE task' = [task EXCEPT ![s] = m]
    BY <1>2, <1>8, <2>2, StillSame
  <2> QED BY <1>5, <2>1, <2>2
<1>11. Flow(i)'
  <2>1. task'[s].pc \notin {"copy", "rcopy"} /\ task[s].pc # "copy"
    BY <1>0, <1>10
  <2>2. \A x \in Slot : SameCopy(task[x], task'[x], i)
    BY <1>10, <2>1, SameCopies
  <2>3. SameFlow(pipe[i], pipe'[i])
    BY <1>9 DEF SameFlow
  <2> QED BY <1>2, <2>2, <2>3, FlowSame
<1>12. pipe'[i].wait = pipe[i].wait /\ ~pipe'[i].wrong
  BY <1>2, <1>9
<1> QED BY <1>0, <1>1, <1>9, <1>10, <1>11, <1>12, LoopStep

-----------------------------------------------------------------------------
(* The theorems.                                                           *)

\* No pipe is in use, and only init is there, in user mode.
LEMMA InitPipes == Init => PipesOK
<1> SUFFICES ASSUME Init PROVE PipesOK
  OBVIOUS
<1> DEFINE r == [NoTask EXCEPT !.st = "run", !.pid = 1]
<1>1. r.pc = "user" /\ NoTask.pc = "user"
  BY DEF NoTask
<1> HIDE DEF r
<1>2. task = [x \in Slot |-> IF x = Init1 THEN r ELSE NoTask] /\ pipe = [i \in Pipe |-> NoPipe]
  BY DEF Init, r
<1>3. \A x \in Slot : task[x].pc = "user"
  BY <1>1, <1>2
<1>4. NewPipe(NoPipe)
  BY DEF NewPipe, NoPipe
<1>5. \A i \in Pipe : NewPipe(pipe[i])
  BY <1>2, <1>4
<1>6. \A i \in Pipe : Flow(i) /\ Chain(i) /\ Top(i)
  BY <1>3, <1>5, Quiet DEF OnPipe
<1>7. UsersOK
  BY <1>3 DEF UsersOK, OnPipe
<1>8. PipeFifo
  BY <1>5 DEF PipeFifo, NewPipe
<1> QED BY <1>6, <1>7, <1>8 DEF PipesOK

\* Every step keeps the invariant.
LEMMA NextPipes == Inv /\ Inv' /\ PipesOK /\ [Next]_vars => PipesOK'
<1> SUFFICES ASSUME Inv, Inv', PipesOK, [Next]_vars PROVE PipesOK'
  OBVIOUS
<1>1. CASE UNCHANGED vars
  <2>1. \A x \in Slot : task[x] \in Tasks /\ task'[x] = task[x]
    BY <1>1 DEF vars, Inv, TypeOK
  <2> QED BY <1>1, <2>1, StillSame, StillOnly DEF vars
<1>2. ASSUME NEW s \in Slot, sys_fork(s) PROVE PipesOK'
  BY <1>2, ForkPipes
<1>3. ASSUME NEW s \in Slot, sys_exit(s) PROVE PipesOK'
  BY <1>3, ExitPipes DEF sys_exit, At
<1>4. ASSUME NEW s \in Slot, BecomeZombie(s) PROVE PipesOK'
  BY <1>4, ZombiePipes
<1>5. ASSUME NEW s \in Slot, WaitReturn(s) \/ \E pid \in 0 .. MaxPid : sys_waitpid(s, pid) PROVE PipesOK'
  BY <1>5, WaitPipes
<1>6. ASSUME NEW s \in Slot, Signalled(s) \/ do_signal(s) PROVE PipesOK'
  BY <1>6, SignalledPipes, SignalPipes
<1>7. ASSUME NEW s \in Slot, NEW x \in Slot, sys_kill(s, x) PROVE PipesOK'
  BY <1>7, KillPipes
<1>8. ASSUME NEW s \in Slot, NEW mask \in {{}, {"SIGCHLD"}}, sys_ssetmask(s, mask) PROVE PipesOK'
  BY <1>8, MaskPipes
<1>9. ASSUME NEW s \in Slot, sys_pipe(s) PROVE PipesOK'
  BY <1>9, PipePipes
<1>10. ASSUME NEW s \in Slot, NEW d \in Fd, sys_close(s, d) PROVE PipesOK'
  BY <1>10, CloseOnePipes
<1>11. ASSUME NEW s \in Slot, NEW d \in Fd, NEW arg \in Fd, dupfd(s, d, arg) PROVE PipesOK'
  BY <1>11, DupPipes
<1>12. ASSUME NEW s \in Slot, NEW d \in Fd, NEW n \in 1 .. MaxCount, sys_read(s, d, n) \/ sys_write(s, d, n)
       PROVE  PipesOK'
  BY <1>12, StartPipes
<1>13. ASSUME NEW s \in Slot, read_pipe(s) \/ write_pipe(s) \/ CopyFault(s) \/ Copy(s) \/ CopyOut(s)
       PROVE  PipesOK'
  BY <1>13, ReadPipes, WritePipes, FaultPipes, CopyPipes, CopyOutPipes
<1>14. ASSUME NEW s \in Slot, SleepEnd(s, "rsleep", "read") \/ SleepEnd(s, "wsleep", "write") PROVE PipesOK'
  BY <1>14, SleepEndPipes
<1> QED BY <1>1, <1>2, <1>3, <1>4, <1>5, <1>6, <1>7, <1>8, <1>9, <1>10, <1>11, <1>12, <1>13, <1>14
        DEF Next

\* A task wakes the one in its tmp, and whom those it wakes will wake.
LEMMA BelowClosed ==
  ASSUME NEW x \in Slot, NEW z \in Slot
  PROVE  /\ task[x].tmp = z => z \in Below(x)
         /\ \A y \in Below(x) : task[y].tmp = z => z \in Below(x)
<1>1. z # NULL
  BY DEF Slot, NULL
<1>2. ASSUME task[x].tmp = z PROVE z \in Below(x)
  BY <1>1, <1>2 DEF Below
<1>3. ASSUME NEW y \in Below(x), task[y].tmp = z PROVE z \in Below(x)
  <2> SUFFICES ASSUME NEW S \in SUBSET Slot, task[x].tmp \in S \cup {NULL},
                      \A v \in S : task[v].tmp \in S \cup {NULL}
               PROVE  z \in S
    BY DEF Below
  <2>1. y \in S
    BY DEF Below
  <2> QED BY <1>1, <1>3, <2>1
<1> QED BY <1>2, <1>3

\* Whoever sleeps on a pipe is at the top of the queue, or below a task that
\* has been woken: otherwise take all who are neither, and see who wakes one.
LEMMA SleeperBelow == Inv /\ PipesOK => PipeSleeper
<1> SUFFICES ASSUME Inv, PipesOK, NEW s \in Slot, NEW i \in Pipe, Sleeps(s, i)
             PROVE  \/ Reason(s, i)
                    \/ \E x \in Slot : Active(x, i)
                    \/ \E x \in Slot : Member(x, i) /\ task[x].st = "run" /\ s \in Below(x)
  BY DEF PipeSleeper
<1>1. CASE s = pipe[i].wait
  <2>1. s # NULL
    BY DEF Slot, NULL
  <2> QED BY <1>1, <2>1 DEF PipesOK, Top
<1>2. CASE s # pipe[i].wait
  <2> DEFINE told(x) == \E v \in Slot : Member(v, i) /\ task[v].st = "run" /\ x \in Below(v)
             S == {x \in Slot : Sleeps(x, i) /\ x # pipe[i].wait /\ ~told(x)}
  <2> SUFFICES ASSUME ~told(s) PROVE FALSE
    OBVIOUS
  <2>1. s \in S /\ S \in SUBSET Slot /\ pipe[i].wait \notin S /\ \A x \in S : Sleeps(x, i)
    BY <1>2
  <2>2. PICK y \in Slot \ S : Member(y, i) /\ task[y].tmp \in S /\ ~(y = pipe[i].wait /\ Sleeps(y, i))
    <3> HIDE DEF S
    <3>1. Chain(i)
      BY DEF PipesOK
    <3> QED BY <2>1, <3>1 DEF Chain
  <2>3. PICK z \in S : z = task[y].tmp
    BY <2>2
  <2>4. CASE task[y].st = "run"
    BY <2>2, <2>3, <2>4, BelowClosed
  <2>5. CASE task[y].st = "unint"
    <3>1. Sleeps(y, i)
      BY <2>2, <2>5 DEF Sleeps
    <3>2. PICK v \in Slot : Member(v, i) /\ task[v].st = "run" /\ y \in Below(v)
      BY <2>2, <3>1
    <3>3. z \in Below(v)
      BY <2>3, <3>2, BelowClosed
    <3> QED BY <2>3, <3>2, <3>3
  <2>6. task[y].st \in {"run", "unint"}
    BY <2>2 DEF PipesOK, UsersOK, Member, OnPipe
  <2> QED BY <2>4, <2>5, <2>6
<1> QED BY <1>1, <1>2

\* The invariant of the pipes holds in every state.
THEOREM PipesInvariant == Spec => []PipesOK
<1> QED BY InitInv, NextInv, InitPipes, NextPipes, PTL DEF Spec

\* read_pipe gives out the bytes of write_pipe in the order they were written,
\* over the end of the page, with any number of readers and writers and after
\* any number of bytes, although tail and head move before the bytes are copied;
\* unless a task had a page fault in its copy and the other side claimed the
\* same bytes meanwhile.
THEOREM BytesInOrder == Spec => []PipeFifo
<1>1. PipesOK => PipeFifo
  BY DEF PipesOK
<1> QED BY <1>1, PipesInvariant, PTL

\* Nobody sleeps in read_pipe or write_pipe for nothing: the pipe is empty or
\* full and the other end open, or the chain of tmp pointers that sleep_on left
\* leads to the task from one that runs, though readers and writers share
\* i_wait and its pointer may be stale.
THEOREM PipeSleepersTold == Spec => []PipeSleeper
<1> QED BY SleeperBelow, ProcessInvariant, PipesInvariant, PTL

=============================================================================
