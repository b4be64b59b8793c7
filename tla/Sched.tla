------------------------------- MODULE Sched -------------------------------
(***************************************************************************)
(* Task states, the scheduler and the wait queues of kernel/sched.c, with  *)
(* the code that sleeps on them.                                           *)
(*                                                                         *)
(* A wait queue is one pointer, *p, to the task that slept last; the rest  *)
(* of the queue is threaded through `tmp', a local of sleep_on() on the    *)
(* kernel stack of every sleeper.  In this repository sleep_on() never     *)
(* writes *p back and wake_up() no longer clears it, so head[q] may name   *)
(* a task that left q long ago and sleeps somewhere else by now.           *)
(*                                                                         *)
(* The kernel is not preempted: a task runs until it calls schedule(), so  *)
(* one action is a stretch of kernel code from one call of schedule() to   *)
(* the next.  The sleep loops run under cli(); interrupts (Unlock, TtyIntr,*)
(* SendSignal) come between actions.                                       *)
(***************************************************************************)
EXTENDS Naturals, FiniteSets

CONSTANTS
  Task,       \* the tasks other than task 0
  Lock,       \* objects with a lock bit: buffer heads, inodes, super blocks
  Tty,        \* the `secondary' character queues of the terminals
  Idle,       \* task 0
  SigTask,    \* bound: the tasks that signals, alarms and masks are used on
  Signal,     \* the signals
  Blockable,  \* _BLOCKABLE: what the scheduler lets a task block
  SIGALRM,
  NULL

Queue == Lock \cup Tty

ASSUME SchedAssumption ==
  /\ Idle \notin Task /\ NULL \notin Task \cup Queue
  /\ Lock \cap Tty = {}
  /\ SigTask \subseteq Task
  /\ Blockable \subseteq Signal /\ SIGALRM \in Signal

RUNNING         == "RUNNING"
INTERRUPTIBLE   == "INTERRUPTIBLE"
UNINTERRUPTIBLE == "UNINTERRUPTIBLE"

VARIABLES
  state,    \* task_struct.state
  signal,   \* task_struct.signal, a set of signals
  blocked,  \* task_struct.blocked
  alarm,    \* task_struct.alarm # 0
  pc,       \* where the task's kernel stack is
  wq,       \* the queue the task sleeps on (NULL: none)
  tmp,      \* the local tmp of its sleep_on()
  head,     \* the wait queue pointer: b_wait, i_wait, s_wait, proc_list
  busy,     \* lock bit of a Lock; EMPTY(secondary) of a Tty
  current   \* the running task

vars == <<state, signal, blocked, alarm, pc, wq, tmp, head, busy, current>>

Waits == {"wait_on", "lock"}   \* inside sleep_on(), called by wait_on_x or lock_x

TypeOK ==
  /\ state \in [Task -> {RUNNING, INTERRUPTIBLE, UNINTERRUPTIBLE}]
  /\ signal \in [Task -> SUBSET Signal]
  /\ blocked \in [Task -> SUBSET Signal]
  /\ alarm \in [Task -> BOOLEAN]
  /\ pc \in [Task -> Waits \cup {"run", "read", "pause"}]
  /\ wq \in [Task -> Queue \cup {NULL}]
  /\ tmp \in [Task -> Task \cup {NULL}]
  /\ head \in [Queue -> Task \cup {NULL}]
  /\ busy \in [Queue -> BOOLEAN]
  /\ current \in Task \cup {Idle}

Init ==
  /\ state = [t \in Task |-> RUNNING]
  /\ signal = [t \in Task |-> {}]
  /\ blocked = [t \in Task |-> {}]
  /\ alarm = [t \in Task |-> FALSE]
  /\ pc = [t \in Task |-> "run"]
  /\ wq = [t \in Task |-> NULL]
  /\ tmp = [t \in Task |-> NULL]
  /\ head = [q \in Queue |-> NULL]
  /\ busy = [q \in Queue |-> q \in Tty]
  /\ current = Idle

-----------------------------------------------------------------------------
(* The scheduler.                                                          *)

\* if (p) p->state = 0, on the state function st.
Wake(st, t) == IF t = NULL THEN st ELSE [st EXCEPT ![t] = RUNNING]

\* Mutant: an interruptible sleeper is left asleep.
wake_up_uninterruptible(st, q) ==
  IF head[q] # NULL /\ st[head[q]] = UNINTERRUPTIBLE THEN Wake(st, head[q]) ELSE st

wake_up(st, q) == Wake(st, head[q])

\* signal & ~(_BLOCKABLE & blocked)
Deliverable(sig, t) == sig[t] \ (Blockable \cap blocked[t])

\* Mutant: next is not initialised to 0.
NextNone(runnable) == IF runnable = {} THEN {NULL} ELSE runnable

\* Whom switch_to() may be called for: any runnable task, task 0 when there is
\* none.  Which one has the largest counter is left open.
NextTask(runnable) == IF runnable = {} THEN {Idle} ELSE runnable

\* schedule() entered with the task states st: the alarms in E have run out,
\* signalled interruptible tasks become runnable, and the next task runs.
schedule(st) ==
  \E E \in SUBSET {t \in Task : alarm[t]} :
    /\ signal' = [t \in Task |-> signal[t] \cup (IF t \in E THEN {SIGALRM} ELSE {})]
    /\ alarm' = [t \in Task |-> alarm[t] /\ t \notin E]
    /\ state' = [t \in Task |->
         IF st[t] = INTERRUPTIBLE /\ Deliverable(signal', t) # {} THEN RUNNING ELSE st[t]]
    /\ current' \in NextTask({t \in Task : state'[t] = RUNNING})

Running(t, where) == current = t /\ pc[t] = where

-----------------------------------------------------------------------------
(* sleep_on() and the lock bits: wait_on_x is while (lock) sleep_on(wait), *)
(* lock_x then sets the bit.                                               *)

\* The part of sleep_on() before schedule() returns; st holds the states on
\* entry.
sleep_on(t, q, st) ==
  /\ tmp' = [tmp EXCEPT ![t] = head[q]]
  /\ head' = [head EXCEPT ![q] = t]
  /\ wq' = [wq EXCEPT ![t] = q]
  /\ schedule([st EXCEPT ![t] = UNINTERRUPTIBLE])

\* The loop of wait_on_x / lock_x is left: lock_x takes the lock.
Leave(t, l, how) ==
  /\ busy' = [busy EXCEPT ![l] = @ \/ how = "lock"]
  /\ pc' = [pc EXCEPT ![t] = "run"]
  /\ wq' = [wq EXCEPT ![t] = NULL]
  /\ tmp' = [tmp EXCEPT ![t] = NULL]
  /\ UNCHANGED <<signal, alarm, head, current>>

\* wait_on_x(l) or lock_x(l) finds the lock free.
Pass(t, l, how) ==
  /\ Running(t, "run") /\ ~busy[l]
  /\ Leave(t, l, how)
  /\ UNCHANGED <<state, blocked>>

\* It finds the lock taken.
Block(t, l, how) ==
  /\ Running(t, "run") /\ busy[l]
  /\ pc' = [pc EXCEPT ![t] = how]
  /\ sleep_on(t, l, state)
  /\ UNCHANGED <<busy, blocked>>

\* Mutant: the task below in the queue is forgotten.
sleep_on_forget(t) == state

\* The part of sleep_on() after schedule(): if (tmp) tmp->state = 0.
sleep_on_end(t) == Wake(state, tmp[t])

\* schedule() returned in sleep_on(): the task below is made runnable, and
\* the lock is tested again.
Resume(t) ==
  /\ current = t /\ pc[t] \in Waits
  /\ IF busy[wq[t]]
     THEN sleep_on(t, wq[t], sleep_on_end(t)) /\ UNCHANGED <<pc, busy>>
     ELSE Leave(t, wq[t], pc[t]) /\ state' = sleep_on_end(t)
  /\ UNCHANGED blocked

\* unlock_buffer, unlock_inode, free_super: from the disk interrupt or from
\* the running task.
Unlock(l) ==
  /\ busy[l]
  /\ busy' = [busy EXCEPT ![l] = FALSE]
  /\ state' = wake_up(state, l)
  /\ UNCHANGED <<signal, blocked, alarm, pc, wq, tmp, head, current>>

-----------------------------------------------------------------------------
(* interruptible_sleep_on(), as sleep_if_empty() of the terminals calls it.*)

\* tty_read leaves sleep_if_empty: it returns if a signal is pending, or
\* takes some or all of the characters.
ReadDone(t, q) ==
  /\ \E drained \in IF signal[t] = {} THEN BOOLEAN ELSE {busy[q]} :
       busy' = [busy EXCEPT ![q] = drained]
  /\ pc' = [pc EXCEPT ![t] = "run"]
  /\ wq' = [wq EXCEPT ![t] = NULL]
  /\ tmp' = [tmp EXCEPT ![t] = NULL]
  /\ UNCHANGED <<signal, alarm, current>>

MustSleep(t, q) == signal[t] = {} /\ busy[q]

ReadNow(t, q) ==
  /\ Running(t, "run") /\ ~MustSleep(t, q)
  /\ ReadDone(t, q)
  /\ UNCHANGED <<state, head, blocked>>

ReadSleep(t, q) ==
  /\ Running(t, "run") /\ MustSleep(t, q)
  /\ pc' = [pc EXCEPT ![t] = "read"]
  /\ tmp' = [tmp EXCEPT ![t] = head[q]]
  /\ head' = [head EXCEPT ![q] = t]
  /\ wq' = [wq EXCEPT ![t] = q]
  /\ schedule([state EXCEPT ![t] = INTERRUPTIBLE])
  /\ UNCHANGED <<busy, blocked>>

\* if (*p && *p != current): a later sleeper is woken first, and the task
\* sleeps again.
Overtaken(t) == head[wq[t]] # NULL /\ head[wq[t]] # t

ReadYield(t) ==
  /\ Running(t, "read") /\ Overtaken(t)
  /\ schedule([wake_up(state, wq[t]) EXCEPT ![t] = INTERRUPTIBLE])
  /\ UNCHANGED <<blocked, pc, wq, tmp, head, busy>>

\* Mutant: *p = NULL, the line the repository commented out.
PopNull(t) == NULL

\* *p = tmp
Pop(t) == tmp[t]

\* *p = tmp, tmp->state = 0, and back in the loop of sleep_if_empty: the task
\* pushes itself again, where *p has just become tmp ...
ReadAgain(t) ==
  /\ Running(t, "read") /\ ~Overtaken(t) /\ MustSleep(t, wq[t])
  /\ tmp' = [tmp EXCEPT ![t] = Pop(t)]
  /\ head' = [head EXCEPT ![wq[t]] = t]
  /\ schedule([Wake(state, tmp[t]) EXCEPT ![t] = INTERRUPTIBLE])
  /\ UNCHANGED <<blocked, pc, wq, busy>>

\* ... or leaves it.
ReadLeave(t) ==
  /\ Running(t, "read") /\ ~Overtaken(t) /\ ~MustSleep(t, wq[t])
  /\ head' = [head EXCEPT ![wq[t]] = Pop(t)]
  /\ state' = Wake(state, tmp[t])
  /\ ReadDone(t, wq[t])
  /\ UNCHANGED blocked

\* copy_to_cooked from the keyboard or serial interrupt: characters come, or
\* are erased, or only make a signal; wake_up in any case.
TtyIntr(q) ==
  /\ \E empty \in BOOLEAN : busy' = [busy EXCEPT ![q] = empty]
  /\ state' = wake_up(state, q)
  /\ UNCHANGED <<signal, blocked, alarm, pc, wq, tmp, head, current>>

-----------------------------------------------------------------------------
(* pause(), alarm(), signals, the timer and task 0.                        *)

sys_pause(t) ==
  /\ Running(t, "run")
  /\ pc' = [pc EXCEPT ![t] = "pause"]
  /\ schedule([state EXCEPT ![t] = INTERRUPTIBLE])
  /\ UNCHANGED <<blocked, wq, tmp, head, busy>>

\* schedule() returned in sys_pause.
PauseReturn(t) ==
  /\ Running(t, "pause")
  /\ pc' = [pc EXCEPT ![t] = "run"]
  /\ UNCHANGED <<state, signal, blocked, alarm, wq, tmp, head, busy, current>>

sys_alarm(t) ==
  /\ Running(t, "run") /\ t \in SigTask
  /\ \E on \in BOOLEAN : alarm' = [alarm EXCEPT ![t] = on]
  /\ UNCHANGED <<state, signal, blocked, pc, wq, tmp, head, busy, current>>

\* sys_ssetmask, and do_signal, which adds the handler's mask whatever is in
\* it: the scheduler alone takes SIGKILL and SIGSTOP out, by Blockable.
sys_ssetmask(t) ==
  /\ Running(t, "run") /\ t \in SigTask
  /\ \E mask \in SUBSET Signal : blocked' = [blocked EXCEPT ![t] = mask]
  /\ UNCHANGED <<state, signal, alarm, pc, wq, tmp, head, busy, current>>

\* tty_intr from the keyboard interrupt, or sys_kill by the running task: the
\* bit is set, nobody is made runnable before the next schedule().
SendSignal(t, s) ==
  /\ t \in SigTask
  /\ signal' = [signal EXCEPT ![t] = @ \cup {s}]
  /\ UNCHANGED <<state, blocked, alarm, pc, wq, tmp, head, busy, current>>

\* ret_from_sys_call: one signal that is not blocked is cleared and handed to
\* do_signal.
TakeSignal(t) ==
  /\ Running(t, "run")
  /\ \E s \in signal[t] \ blocked[t] : signal' = [signal EXCEPT ![t] = @ \ {s}]
  /\ UNCHANGED <<state, blocked, alarm, pc, wq, tmp, head, busy, current>>

\* do_timer finds the time slice used up in user mode.
Preempt(t) ==
  /\ Running(t, "run")
  /\ schedule(state)
  /\ UNCHANGED <<blocked, pc, wq, tmp, head, busy>>

\* Task 0 calls pause() for ever; its own state is never looked at.
IdlePause ==
  /\ current = Idle
  /\ schedule(state)
  /\ UNCHANGED <<blocked, pc, wq, tmp, head, busy>>

-----------------------------------------------------------------------------
\* The running task goes on.
Step(t) ==
  \/ \E l \in Lock, how \in Waits : Pass(t, l, how) \/ Block(t, l, how)
  \/ Resume(t)
  \/ \E q \in Tty : ReadNow(t, q) \/ ReadSleep(t, q)
  \/ ReadYield(t) \/ ReadAgain(t) \/ ReadLeave(t)
  \/ sys_pause(t) \/ PauseReturn(t) \/ sys_alarm(t) \/ sys_ssetmask(t)
  \/ TakeSignal(t) \/ Preempt(t)

Next ==
  \/ \E t \in Task : Step(t)
  \/ \E l \in Lock : Unlock(l)
  \/ \E q \in Tty : TtyIntr(q)
  \/ \E t \in Task, s \in Signal : SendSignal(t, s)
  \/ IdlePause

Spec == Init /\ [][Next]_vars

Continue(t) ==
  Resume(t) \/ ReadYield(t) \/ ReadAgain(t) \/ ReadLeave(t) \/ PauseReturn(t) \/ Preempt(t)

\* One of the calls of schedule() chooses t.
SwitchTo(t) == (IdlePause \/ \E u \in Task \ {t} : Continue(u)) /\ current' = t

\* The timer takes the processor from a task that keeps it, a runnable task
\* is chosen in the end (every counter of the tasks before it reaches 0, and
\* all are refilled), and whoever holds a lock gives it back.
Fairness ==
  /\ WF_vars(IdlePause)
  /\ \A t \in Task : WF_vars(Continue(t)) /\ SF_vars(SwitchTo(t))
  /\ \A l \in Lock : WF_vars(Unlock(l))

FairSpec == Spec /\ Fairness

-----------------------------------------------------------------------------
(* Properties.                                                             *)

InQueue(q) == {t \in Task : wq[t] = q}
Asleep(q) == {t \in InQueue(q) : state[t] # RUNNING}

\* A task never sleeps on a lock that is free (or on a terminal that has
\* characters) unless another sleeper of the same queue is runnable, and so
\* on its way to passing the wake-up down: wake_up() wakes one task only, and
\* through a head that may be stale.
NoLostWakeup ==
  \A q \in Queue : ~busy[q] /\ Asleep(q) # {} => \E t \in InQueue(q) : state[t] = RUNNING

\* The strengthening that is inductive.  Every set of sleepers of a lock is
\* entered by the queue's pointer or by the tmp of a task outside it ...
LockChain ==
  \A l \in Lock : \A S \in SUBSET Asleep(l) :
    S # {} => head[l] \in S \/ \E u \in InQueue(l) \ S : tmp[u] \in S

\* ... while the queue of a terminal, which is popped from the top only,
\* threads all its tasks, ...
TtyChain ==
  \A q \in Tty : \A S \in SUBSET InQueue(q) :
    S # {} => head[q] \in S \/ \E u \in InQueue(q) \ S : tmp[u] \in S

\* ... and what the pointer names is awake when there is nothing to wait for.
HeadAwake == \A q \in Queue : ~busy[q] => head[q] \notin Asleep(q)

WqOK ==
  \A t \in Task :
    /\ pc[t] \in Waits <=> wq[t] \in Lock
    /\ pc[t] = "read" <=> wq[t] \in Tty

Inv == TypeOK /\ WqOK /\ LockChain /\ TtyChain /\ HeadAwake

\* The sleepers of q that no wake-up is on its way to: none of them is the
\* tmp of a task that is awake, or that such a task will wake.
Stuck(q) ==
  UNION {S \in SUBSET Asleep(q) : \A u \in InQueue(q) \ S : tmp[u] \notin S}

\* The wait queues implement the broadcast condition of Monitor: a release
\* leaves nobody waiting, and a task starts to wait only while the object is
\* busy.
M == INSTANCE Monitor WITH waiting <- [q \in Queue |-> Stuck(q)]
MonitorSpec == M!Spec

\* Every sleeper of a lock is made runnable in the end.
SleeperWakes ==
  \A t \in Task : (pc[t] \in Waits /\ state[t] # RUNNING) ~> (state[t] = RUNNING)

\* kernel/sched.c: "wake up any interruptible tasks that have got a signal":
\* a reader of a terminal with a pending signal gets out of its sleep.
SignalledReaderReturns ==
  \A t \in Task : (pc[t] = "read" /\ Deliverable(signal, t) # {}) ~> (pc[t] # "read")
=============================================================================
