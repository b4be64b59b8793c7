---------------------------- MODULE SchedProofs ----------------------------
(***************************************************************************)
(* No wake-up is lost on a wait queue, for any number of tasks, locks and  *)
(* terminals.  Inv of Sched is the inductive invariant: TypeOK and WqOK    *)
(* tie pc to wq, LockChain and TtyChain say that a sleeper can be reached  *)
(* from the queue's pointer or from a task that is awake, HeadAwake that   *)
(* the pointer is of no use to a sleeper once the object is free.          *)
(***************************************************************************)
EXTENDS Sched, TLAPS

States == {RUNNING, INTERRUPTIBLE, UNINTERRUPTIBLE}

\* Waking a task keeps a state function well typed, and only makes tasks
\* runnable.
LEMMA WakeLemma ==
  ASSUME NEW st \in [Task -> States], NEW t \in Task \cup {NULL}
  PROVE  /\ Wake(st, t) \in [Task -> States]
         /\ \A u \in Task : Wake(st, t)[u] = (IF u = t THEN RUNNING ELSE st[u])
<1> USE SchedAssumption
<1>1. CASE t = NULL
  BY <1>1 DEF Wake
<1>2. CASE t # NULL
  BY <1>2 DEF Wake, States
<1> QED BY <1>1, <1>2

\* What schedule() does to the task states it is entered with: it makes tasks
\* runnable, and nothing else.
LEMMA ScheduleLemma ==
  ASSUME TypeOK, NEW st \in [Task -> States], schedule(st)
  PROVE  /\ signal' \in [Task -> SUBSET Signal]
         /\ alarm' \in [Task -> BOOLEAN]
         /\ state' \in [Task -> States]
         /\ current' \in Task \cup {Idle}
         /\ \A u \in Task : state'[u] = RUNNING \/ state'[u] = st[u]
<1>1. PICK E \in SUBSET {t \in Task : alarm[t]} :
    /\ signal' = [t \in Task |-> signal[t] \cup (IF t \in E THEN {SIGALRM} ELSE {})]
    /\ alarm' = [t \in Task |-> alarm[t] /\ t \notin E]
    /\ state' = [t \in Task |->
         IF st[t] = INTERRUPTIBLE /\ Deliverable(signal', t) # {} THEN RUNNING ELSE st[t]]
    /\ current' \in NextTask({t \in Task : state'[t] = RUNNING})
  BY DEF schedule
<1>2. signal' \in [Task -> SUBSET Signal]
  BY <1>1, SchedAssumption DEF TypeOK
<1>3. alarm' \in [Task -> BOOLEAN]
  BY <1>1
<1>4. state' \in [Task -> States] /\ \A u \in Task : state'[u] = RUNNING \/ state'[u] = st[u]
  BY <1>1 DEF States
<1>5. current' \in Task \cup {Idle}
  BY <1>1 DEF NextTask
<1> QED BY <1>2, <1>3, <1>4, <1>5

\* sched_init's state, with no sleeper and no queue, satisfies Inv.
LEMMA InitInv == Init => Inv
<1> SUFFICES ASSUME Init PROVE Inv
  OBVIOUS
<1> USE SchedAssumption DEF Init, Queue
<1>1. TypeOK
  BY DEF TypeOK
<1>2. \A q \in Queue : InQueue(q) = {}
  BY DEF InQueue
<1>3. WqOK
  BY DEF WqOK, Waits
<1>4. LockChain /\ TtyChain /\ HeadAwake
  BY <1>2 DEF LockChain, TtyChain, HeadAwake, Asleep
<1> QED BY <1>1, <1>3, <1>4 DEF Inv

-----------------------------------------------------------------------------
(* Type correctness, one step per action.                                  *)

\* Every step keeps the types, and the place of a task in the code agrees
\* with the queue it is in.
LEMMA TypeStep == TypeOK /\ WqOK /\ [Next]_vars => TypeOK' /\ WqOK'
<1> SUFFICES ASSUME TypeOK, WqOK, [Next]_vars PROVE TypeOK' /\ WqOK'
  OBVIOUS
<1> USE SchedAssumption
<1>0. state \in [Task -> States]
  BY DEF TypeOK, States
<1>s. ASSUME NEW st \in [Task -> States], schedule(st)
      PROVE  /\ signal' \in [Task -> SUBSET Signal]
             /\ alarm' \in [Task -> BOOLEAN]
             /\ state' \in [Task -> {RUNNING, INTERRUPTIBLE, UNINTERRUPTIBLE}]
             /\ current' \in Task \cup {Idle}
  BY <1>s, ScheduleLemma DEF States
<1>w. ASSUME NEW t \in Task \cup {NULL}
      PROVE  /\ Wake(state, t) \in [Task -> States]
             /\ Wake(state, t) \in [Task -> {RUNNING, INTERRUPTIBLE, UNINTERRUPTIBLE}]
  BY <1>0, WakeLemma DEF States
<1>1. ASSUME NEW t \in Task, NEW l \in Lock, NEW how \in Waits, Pass(t, l, how)
      PROVE  TypeOK' /\ WqOK'
  BY <1>1 DEF Pass, Leave, Running, TypeOK, WqOK, Waits, Queue
<1>2. ASSUME NEW t \in Task, NEW l \in Lock, NEW how \in Waits, Block(t, l, how)
      PROVE  TypeOK' /\ WqOK'
  <2>1. [state EXCEPT ![t] = UNINTERRUPTIBLE] \in [Task -> States]
    BY <1>0 DEF States
  <2> QED BY <1>2, <2>1, <1>s DEF Block, sleep_on, Running, TypeOK, WqOK, Waits, Queue
<1>3. ASSUME NEW t \in Task, Resume(t)
      PROVE  TypeOK' /\ WqOK'
  <2> DEFINE st == Wake(state, tmp[t])
  <2>1. st \in [Task -> States] /\ st \in [Task -> {RUNNING, INTERRUPTIBLE, UNINTERRUPTIBLE}]
    BY <1>w DEF TypeOK
  <2>2. [st EXCEPT ![t] = UNINTERRUPTIBLE] \in [Task -> States]
    BY <2>1 DEF States
  <2>3. wq[t] \in Lock
    BY <1>3 DEF Resume, WqOK
  <2> HIDE DEF st
  <2>4. CASE busy[wq[t]]
    <3>1. sleep_on(t, wq[t], st) /\ UNCHANGED <<pc, busy, blocked>>
      BY <1>3, <2>4 DEF Resume, sleep_on_end, st
    <3> QED BY <3>1, <2>2, <2>3, <1>s DEF sleep_on, TypeOK, WqOK, Waits, Queue
  <2>5. CASE ~busy[wq[t]]
    <3>1. Leave(t, wq[t], pc[t]) /\ state' = st /\ UNCHANGED blocked
      BY <1>3, <2>5 DEF Resume, sleep_on_end, st
    <3> QED BY <3>1, <2>1, <2>3 DEF Leave, TypeOK, WqOK, Waits, Queue
  <2> QED BY <2>4, <2>5
<1>4. ASSUME NEW t \in Task, NEW q \in Tty, ReadNow(t, q)
      PROVE  TypeOK' /\ WqOK'
  <2>1. busy' \in [Queue -> BOOLEAN]
    BY <1>4 DEF ReadNow, ReadDone, TypeOK, Queue
  <2> QED BY <1>4, <2>1 DEF ReadNow, ReadDone, Running, TypeOK, WqOK, Waits, Queue
<1>5. ASSUME NEW t \in Task, NEW q \in Tty, ReadSleep(t, q)
      PROVE  TypeOK' /\ WqOK'
  <2>1. [state EXCEPT ![t] = INTERRUPTIBLE] \in [Task -> States]
    BY <1>0 DEF States
  <2> QED BY <1>5, <2>1, <1>s DEF ReadSleep, Running, TypeOK, WqOK, Waits, Queue
<1>6. ASSUME NEW t \in Task, ReadYield(t)
      PROVE  TypeOK' /\ WqOK'
  <2> DEFINE st == Wake(state, head[wq[t]])
  <2>1. st \in [Task -> States]
    BY <1>6, <1>w DEF ReadYield, Running, WqOK, TypeOK, Queue
  <2>2. [st EXCEPT ![t] = INTERRUPTIBLE] \in [Task -> States]
    BY <2>1 DEF States
  <2> HIDE DEF st
  <2>3. schedule([st EXCEPT ![t] = INTERRUPTIBLE])
    BY <1>6 DEF ReadYield, wake_up, st
  <2> QED BY <1>6, <2>2, <2>3, <1>s DEF ReadYield, TypeOK, WqOK
<1>7. ASSUME NEW t \in Task, ReadAgain(t)
      PROVE  TypeOK' /\ WqOK'
  <2> DEFINE st == Wake(state, tmp[t])
  <2>1. st \in [Task -> States]
    BY <1>w DEF TypeOK
  <2>2. [st EXCEPT ![t] = INTERRUPTIBLE] \in [Task -> States]
    BY <2>1 DEF States
  <2> HIDE DEF st
  <2>3. schedule([st EXCEPT ![t] = INTERRUPTIBLE])
    BY <1>7 DEF ReadAgain, st
  <2> QED BY <1>7, <2>2, <2>3, <1>s DEF ReadAgain, Pop, TypeOK, WqOK
<1>8. ASSUME NEW t \in Task, ReadLeave(t)
      PROVE  TypeOK' /\ WqOK'
  <2>1. state' \in [Task -> {RUNNING, INTERRUPTIBLE, UNINTERRUPTIBLE}]
    BY <1>8, <1>w DEF ReadLeave, TypeOK
  <2>2. wq[t] \in Tty
    BY <1>8 DEF ReadLeave, Running, WqOK
  <2>3. busy' \in [Queue -> BOOLEAN]
    BY <1>8, <2>2 DEF ReadLeave, ReadDone, TypeOK, Queue
  <2> QED BY <1>8, <2>1, <2>2, <2>3 DEF ReadLeave, ReadDone, Pop, TypeOK, WqOK, Waits, Queue
<1>9. ASSUME NEW t \in Task, sys_pause(t)
      PROVE  TypeOK' /\ WqOK'
  <2>1. [state EXCEPT ![t] = INTERRUPTIBLE] \in [Task -> States]
    BY <1>0 DEF States
  <2> QED BY <1>9, <2>1, <1>s DEF sys_pause, Running, TypeOK, WqOK, Waits, Queue
<1>10. ASSUME NEW t \in Task,
              PauseReturn(t) \/ sys_alarm(t) \/ sys_ssetmask(t) \/ TakeSignal(t)
       PROVE  TypeOK' /\ WqOK'
  BY <1>10 DEF PauseReturn, sys_alarm, sys_ssetmask, TakeSignal, Running, TypeOK, WqOK, Waits
<1>11. ASSUME (\E t \in Task : Preempt(t)) \/ IdlePause
       PROVE  TypeOK' /\ WqOK'
  BY <1>11, <1>0, <1>s DEF Preempt, IdlePause, TypeOK, WqOK
<1>12. ASSUME NEW q \in Queue, Unlock(q) \/ TtyIntr(q)
       PROVE  TypeOK' /\ WqOK'
  <2>1. state' \in [Task -> {RUNNING, INTERRUPTIBLE, UNINTERRUPTIBLE}]
    <3>1. head[q] \in Task \cup {NULL}
      BY DEF TypeOK
    <3> QED BY <1>12, <3>1, <1>w DEF Unlock, TtyIntr, wake_up
  <2> QED BY <1>12, <2>1 DEF Unlock, TtyIntr, TypeOK, WqOK
<1>13. ASSUME NEW t \in Task, NEW s \in Signal, SendSignal(t, s)
       PROVE  TypeOK' /\ WqOK'
  BY <1>13 DEF SendSignal, TypeOK, WqOK
<1>14. CASE UNCHANGED vars
  BY <1>14 DEF vars, TypeOK, WqOK
<1> QED
  BY <1>1, <1>2, <1>3, <1>4, <1>5, <1>6, <1>7, <1>8, <1>9, <1>10, <1>11, <1>12, <1>13, <1>14
  DEF Next, Step, Queue
-----------------------------------------------------------------------------
(* The chains.                                                             *)

Chains == LockChain /\ TtyChain /\ HeadAwake

\* A step that leaves the queues alone, puts no queued task to sleep, and
\* frees an object only together with waking what its pointer names.
LEMMA QuietStep ==
  ASSUME Inv, wq' = wq, tmp' = tmp, head' = head,
         \A u \in Task : wq[u] \in Queue => state'[u] = RUNNING \/ state'[u] = state[u],
         \A q \in Queue : ~busy'[q] => \/ ~busy[q]
                                       \/ head[q] = NULL
                                       \/ state'[head[q]] = RUNNING
  PROVE  Chains'
<1> USE SchedAssumption
<1>1. \A q \in Queue : InQueue(q)' = InQueue(q)
  BY DEF InQueue
<1>2. \A q \in Queue : Asleep(q)' \subseteq Asleep(q)
  BY <1>1 DEF Asleep, InQueue
<1>3. LockChain'
  <2> SUFFICES ASSUME NEW l \in Lock, NEW S \in SUBSET Asleep(l)', S # {}
               PROVE  head[l] \in S \/ \E u \in InQueue(l) \ S : tmp[u] \in S
    BY <1>1 DEF LockChain, Queue
  <2>1. S \in SUBSET Asleep(l)
    BY <1>2 DEF Queue
  <2> QED BY <2>1 DEF Inv, LockChain
<1>4. TtyChain'
  BY <1>1 DEF Inv, TtyChain, Queue
<1>5. HeadAwake'
  <2> SUFFICES ASSUME NEW q \in Queue, ~busy'[q], head[q] \in Asleep(q)'
               PROVE  FALSE
    BY DEF HeadAwake
  <2>1. head[q] \in Asleep(q) /\ head[q] # NULL /\ state'[head[q]] # RUNNING
    BY <1>2 DEF Asleep, InQueue
  <2>2. busy[q]
    BY <2>1 DEF Inv, HeadAwake
  <2> QED BY <2>1, <2>2
<1> QED BY <1>3, <1>4, <1>5 DEF Chains

\* sleep_on() of a task t that is in no queue, or that is in q and has made
\* its own tmp runnable: st holds the states on entry.
LEMMA SleepOnStep ==
  ASSUME Inv, NEW t \in Task, NEW l \in Lock, NEW st \in [Task -> States],
         sleep_on(t, l, st), busy' = busy, busy[l],
         \A u \in Task : st[u] = RUNNING \/ st[u] = state[u],
         \/ wq[t] = NULL
         \/ wq[t] = l /\ (tmp[t] = NULL \/ st[tmp[t]] = RUNNING)
  PROVE  Chains'
<1> USE SchedAssumption
<1> DEFINE st1 == [st EXCEPT ![t] = UNINTERRUPTIBLE]
<1>1. st1 \in [Task -> States] /\ \A u \in Task \ {t} : st1[u] = st[u]
  BY DEF States
<1>2. schedule(st1)
  BY DEF sleep_on
<1> HIDE DEF st1
<1>3. \A u \in Task \ {t} : state'[u] = RUNNING \/ state'[u] = st[u]
  BY <1>1, <1>2, ScheduleLemma DEF Inv
<1>4. \A u \in Task \ {t} : state'[u] = RUNNING \/ state'[u] = state[u]
  BY <1>3
<1>5. /\ wq \in [Task -> Queue \cup {NULL}] /\ tmp \in [Task -> Task \cup {NULL}]
      /\ head \in [Queue -> Task \cup {NULL}]
  BY DEF Inv, TypeOK
<1>6. /\ wq' = [wq EXCEPT ![t] = l] /\ tmp' = [tmp EXCEPT ![t] = head[l]]
      /\ head' = [head EXCEPT ![l] = t]
  BY DEF sleep_on
<1>7. l \in Queue /\ \A q \in Queue \ {l} : /\ InQueue(q)' = InQueue(q)
                                           /\ Asleep(q)' \subseteq Asleep(q)
                                           /\ t \notin InQueue(q)
  BY <1>4, <1>5, <1>6 DEF InQueue, Asleep, Queue
<1>8. InQueue(l)' = InQueue(l) \cup {t} /\ Asleep(l)' \ {t} \subseteq Asleep(l)
  BY <1>4, <1>5, <1>6, <1>7 DEF InQueue, Asleep
<1>9. LockChain'
  <2> SUFFICES ASSUME NEW k \in Lock, NEW S \in SUBSET Asleep(k)', S # {}
               PROVE  head'[k] \in S \/ \E u \in InQueue(k)' \ S : tmp'[u] \in S
    BY DEF LockChain
  <2>1. CASE k # l
    <3>1. S \in SUBSET Asleep(k) /\ t \notin InQueue(k) /\ InQueue(k)' = InQueue(k)
      BY <2>1, <1>7 DEF Queue
    <3>2. head[k] \in S \/ \E u \in InQueue(k) \ S : tmp[u] \in S
      BY <3>1 DEF Inv, LockChain
    <3> QED BY <3>1, <3>2, <2>1, <1>5, <1>6 DEF InQueue, Queue
  <2>2. CASE k = l /\ t \in S
    BY <2>2, <1>5, <1>6, <1>7
  <2>3. CASE k = l /\ t \notin S
    <3>1. S \in SUBSET Asleep(l)
      BY <2>3, <1>8
    <3>2. head[l] \in S \/ \E u \in InQueue(l) \ S : tmp[u] \in S
      BY <3>1 DEF Inv, LockChain
    <3>3. CASE head[l] \in S
      BY <3>3, <2>3, <1>5, <1>6, <1>8
    <3>4. CASE \E u \in InQueue(l) \ S : tmp[u] \in S
      <4>1. PICK u \in InQueue(l) \ S : tmp[u] \in S
        BY <3>4
      <4>2. u # t
        <5> SUFFICES ASSUME u = t PROVE FALSE
          OBVIOUS
        <5>1. wq[t] = l
          BY <4>1 DEF InQueue
        <5>2. st[tmp[t]] = RUNNING /\ tmp[t] \in Task \ {t}
          BY <5>1, <4>1, <1>5, <2>3, <3>1, <1>7 DEF Asleep, InQueue
        <5>3. state'[tmp[t]] = RUNNING
          BY <5>2, <1>3
        <5> QED BY <5>3, <4>1, <2>3 DEF Asleep
      <4> QED BY <4>1, <4>2, <1>5, <1>6, <1>8, <2>3 DEF InQueue
    <3> QED BY <3>2, <3>3, <3>4
  <2> QED BY <2>1, <2>2, <2>3
<1>10. TtyChain'
  <2> SUFFICES ASSUME NEW q \in Tty, NEW S \in SUBSET InQueue(q)', S # {}
               PROVE  head'[q] \in S \/ \E u \in InQueue(q)' \ S : tmp'[u] \in S
    BY DEF TtyChain
  <2>1. InQueue(q)' = InQueue(q) /\ t \notin InQueue(q) /\ q # l
    BY <1>7 DEF Queue
  <2>2. head[q] \in S \/ \E u \in InQueue(q) \ S : tmp[u] \in S
    BY <2>1 DEF Inv, TtyChain
  <2> QED BY <2>1, <2>2, <1>5, <1>6 DEF InQueue, Queue
<1>11. HeadAwake'
  <2> SUFFICES ASSUME NEW q \in Queue, ~busy[q] PROVE head'[q] \notin Asleep(q)'
    BY DEF HeadAwake
  <2>1. head[q] \notin Asleep(q) /\ q # l
    BY DEF Inv, HeadAwake
  <2> QED BY <2>1, <1>5, <1>6, <1>7
<1> QED BY <1>9, <1>10, <1>11 DEF Chains

\* Every step keeps the sleepers of each queue reachable, one step per action.
LEMMA ChainStep == Inv /\ [Next]_vars => Chains'
<1> SUFFICES ASSUME Inv, [Next]_vars PROVE Chains'
  OBVIOUS
<1> USE SchedAssumption
<1>0. /\ state \in [Task -> States] /\ TypeOK /\ WqOK
      /\ wq \in [Task -> Queue \cup {NULL}] /\ tmp \in [Task -> Task \cup {NULL}]
      /\ head \in [Queue -> Task \cup {NULL}] /\ busy \in [Queue -> BOOLEAN]
      /\ signal \in [Task -> SUBSET Signal]
  BY DEF Inv, TypeOK, States
<1>n. \A t \in Task : pc[t] \in {"run", "pause"} => wq[t] = NULL
  BY <1>0 DEF WqOK, Queue, Waits
<1>w. ASSUME NEW t \in Task \cup {NULL}
      PROVE  /\ Wake(state, t) \in [Task -> States]
             /\ \A u \in Task : Wake(state, t)[u] = (IF u = t THEN RUNNING ELSE state[u])
  BY <1>0, WakeLemma
<1>1. ASSUME NEW t \in Task, NEW l \in Lock, NEW how \in Waits, Pass(t, l, how)
      PROVE  Chains'
  <2>1. head' = head /\ state' = state
    BY <1>1 DEF Pass, Leave
  <2>2. wq' = wq
    BY <1>1, <1>n, <1>0 DEF Pass, Leave, Running
  <2>3. \A q \in Queue : ~busy'[q] => ~busy[q]
    BY <1>1, <1>0 DEF Pass, Leave
  \* tmp'[t] is cleared, but t is in no queue.
  <2>4. \A q \in Queue : InQueue(q)' = InQueue(q) /\ Asleep(q)' = Asleep(q) /\ t \notin InQueue(q)
    BY <2>1, <2>2, <1>1, <1>n DEF InQueue, Asleep, Pass, Running
  <2>5. \A q \in Queue : \A u \in InQueue(q) : tmp'[u] = tmp[u]
    BY <2>4, <1>0, <1>1 DEF Pass, Leave, InQueue
  <2>6. LockChain' /\ TtyChain'
    BY <2>1, <2>4, <2>5 DEF Inv, LockChain, TtyChain, Queue
  <2>7. HeadAwake'
    BY <2>1, <2>3, <2>4 DEF Inv, HeadAwake
  <2> QED BY <2>6, <2>7 DEF Chains
<1>2. ASSUME NEW t \in Task, NEW l \in Lock, NEW how \in Waits, Block(t, l, how)
      PROVE  Chains'
  <2>1. wq[t] = NULL
    BY <1>2, <1>n DEF Block, Running
  <2> QED BY <1>2, <2>1, <1>0, SleepOnStep DEF Block
<1>3. ASSUME NEW t \in Task, Resume(t)
      PROVE  Chains'
  <2> DEFINE l == wq[t]
             st == Wake(state, tmp[t])
  <2>1. l \in Lock
    BY <1>3, <1>0 DEF Resume, WqOK
  <2>2. st \in [Task -> States] /\ \A u \in Task : st[u] = IF u = tmp[t] THEN RUNNING ELSE state[u]
    BY <1>w, <1>0
  <2>3. tmp[t] = NULL \/ st[tmp[t]] = RUNNING
    BY <2>2, <1>0
  <2> HIDE DEF st
  <2>4. CASE busy[l]
    <3>1. sleep_on(t, l, st) /\ busy' = busy
      BY <1>3, <2>4 DEF Resume, sleep_on_end, st
    <3> QED BY <3>1, <2>1, <2>2, <2>3, <2>4, SleepOnStep
  <2>5. CASE ~busy[l]
    <3>1. Leave(t, l, pc[t]) /\ state' = st
      BY <1>3, <2>5 DEF Resume, sleep_on_end, st
    <3>2. /\ head' = head /\ wq' = [wq EXCEPT ![t] = NULL] /\ tmp' = [tmp EXCEPT ![t] = NULL]
          /\ \A q \in Queue : ~busy'[q] => ~busy[q]
      BY <3>1, <1>0, <2>1 DEF Leave, Queue
    <3>3. \A q \in Queue : /\ InQueue(q)' = InQueue(q) \ {t}
                           /\ Asleep(q)' \subseteq Asleep(q)
                           /\ q # l => t \notin InQueue(q)
      BY <3>1, <3>2, <2>2, <1>0 DEF InQueue, Asleep
    <3>4. \A q \in Queue : \A u \in InQueue(q)' : tmp'[u] = tmp[u]
      BY <3>2, <3>3, <1>0 DEF InQueue
    <3>5. LockChain'
      <4> SUFFICES ASSUME NEW k \in Lock, NEW S \in SUBSET Asleep(k)', S # {}
                   PROVE  head'[k] \in S \/ \E u \in InQueue(k)' \ S : tmp'[u] \in S
        BY DEF LockChain
      <4>1. head[k] \in S \/ \E u \in InQueue(k) \ S : tmp[u] \in S
        BY <3>3 DEF Inv, LockChain, Queue
      <4>2. ASSUME NEW u \in InQueue(k) \ S, tmp[u] \in S PROVE u # t
        BY <4>2, <3>1, <2>2 DEF Asleep, InQueue
      <4> QED BY <4>1, <4>2, <3>2, <3>3, <3>4 DEF Queue
    <3>6. TtyChain'
      <4>1. \A q \in Tty : InQueue(q)' = InQueue(q)
        BY <3>3, <2>1 DEF Queue
      <4> QED BY <4>1, <3>2, <3>4 DEF Inv, TtyChain, Queue
    <3>7. HeadAwake'
      BY <3>2, <3>3 DEF Inv, HeadAwake
    <3> QED BY <3>5, <3>6, <3>7 DEF Chains
  <2> QED BY <2>4, <2>5
<1>4. ASSUME NEW t \in Task, NEW q \in Tty, ReadNow(t, q)
      PROVE  Chains'
  <2>1. head' = head /\ state' = state
    BY <1>4 DEF ReadNow
  <2>2. wq' = wq
    BY <1>4, <1>n, <1>0 DEF ReadNow, ReadDone, Running
  <2>3. \A r \in Queue : ~busy'[r] => ~busy[r]
    BY <1>4, <1>0 DEF ReadNow, ReadDone, MustSleep
  <2>4. \A r \in Queue : InQueue(r)' = InQueue(r) /\ Asleep(r)' = Asleep(r) /\ t \notin InQueue(r)
    BY <2>1, <2>2, <1>4, <1>n DEF InQueue, Asleep, ReadNow, Running
  <2>5. \A r \in Queue : \A u \in InQueue(r) : tmp'[u] = tmp[u]
    BY <2>4, <1>0, <1>4 DEF ReadNow, ReadDone, InQueue
  <2>6. LockChain' /\ TtyChain'
    BY <2>1, <2>4, <2>5 DEF Inv, LockChain, TtyChain, Queue
  <2>7. HeadAwake'
    BY <2>1, <2>3, <2>4 DEF Inv, HeadAwake
  <2> QED BY <2>6, <2>7 DEF Chains
<1>5. ASSUME NEW t \in Task, NEW q \in Tty, ReadSleep(t, q)
      PROVE  Chains'
  <2> DEFINE st == [state EXCEPT ![t] = INTERRUPTIBLE]
  <2>1. st \in [Task -> States] /\ \A u \in Task \ {t} : st[u] = state[u]
    BY <1>0 DEF States
  <2>2. schedule(st) /\ busy' = busy /\ busy[q] /\ wq[t] = NULL /\ q \in Queue
    BY <1>5, <1>n DEF ReadSleep, Running, MustSleep, Queue
  <2> HIDE DEF st
  <2>3. \A u \in Task \ {t} : state'[u] = RUNNING \/ state'[u] = state[u]
    BY <2>1, <2>2, <1>0, ScheduleLemma
  <2>4. /\ wq' = [wq EXCEPT ![t] = q] /\ tmp' = [tmp EXCEPT ![t] = head[q]]
        /\ head' = [head EXCEPT ![q] = t]
    BY <1>5 DEF ReadSleep
  <2>5. \A r \in Queue \ {q} : /\ InQueue(r)' = InQueue(r)
                               /\ Asleep(r)' \subseteq Asleep(r)
                               /\ t \notin InQueue(r)
    BY <2>2, <2>3, <2>4, <1>0 DEF InQueue, Asleep
  <2>6. InQueue(q)' = InQueue(q) \cup {t} /\ t \notin InQueue(q)
    BY <2>2, <2>4, <1>0 DEF InQueue
  <2>7. LockChain'
    <3> SUFFICES ASSUME NEW k \in Lock, NEW S \in SUBSET Asleep(k)', S # {}
                 PROVE  head'[k] \in S \/ \E u \in InQueue(k)' \ S : tmp'[u] \in S
      BY DEF LockChain
    <3>1. k \in Queue \ {q}
      BY DEF Queue
    <3>2. head[k] \in S \/ \E u \in InQueue(k) \ S : tmp[u] \in S
      BY <3>1, <2>5 DEF Inv, LockChain
    <3> QED BY <3>1, <3>2, <2>4, <2>5, <1>0 DEF InQueue
  <2>8. TtyChain'
    <3> SUFFICES ASSUME NEW r \in Tty, NEW S \in SUBSET InQueue(r)', S # {}
                 PROVE  head'[r] \in S \/ \E u \in InQueue(r)' \ S : tmp'[u] \in S
      BY DEF TtyChain
    <3>1. CASE r # q
      <4>1. r \in Queue \ {q}
        BY <3>1 DEF Queue
      <4>2. head[r] \in S \/ \E u \in InQueue(r) \ S : tmp[u] \in S
        BY <4>1, <2>5 DEF Inv, TtyChain
      <4> QED BY <4>1, <4>2, <2>4, <2>5, <1>0 DEF InQueue
    <3>2. CASE r = q /\ t \in S
      BY <3>2, <2>2, <2>4, <1>0
    <3>3. CASE r = q /\ t \notin S
      <4>1. head[q] \in S \/ \E u \in InQueue(q) \ S : tmp[u] \in S
        BY <3>3, <2>6 DEF Inv, TtyChain
      <4> QED BY <4>1, <3>3, <2>2, <2>4, <2>6, <1>0 DEF InQueue
    <3> QED BY <3>1, <3>2, <3>3
  <2>9. HeadAwake'
    <3> SUFFICES ASSUME NEW r \in Queue, ~busy[r] PROVE head'[r] \notin Asleep(r)'
      BY <2>2 DEF HeadAwake
    <3>1. head[r] \notin Asleep(r) /\ r # q
      BY <2>2 DEF Inv, HeadAwake
    <3> QED BY <3>1, <2>4, <2>5, <1>0
  <2> QED BY <2>7, <2>8, <2>9 DEF Chains
\* Below, t reads from q and its tmp, wq and place in the queue stay.
<1>r. ASSUME NEW t \in Task, pc[t] = "read"
      PROVE  /\ wq[t] \in Tty /\ wq[t] \in Queue /\ wq[t] \notin Lock
             /\ head[wq[t]] # NULL
  <2>1. wq[t] \in Tty /\ wq[t] \notin Lock /\ wq[t] \in Queue /\ t \in InQueue(wq[t])
    BY <1>r, <1>0 DEF WqOK, Queue, InQueue
  <2>2. head[wq[t]] \in InQueue(wq[t])
    BY <2>1 DEF Inv, TtyChain
  <2> QED BY <2>1, <2>2 DEF InQueue
<1>6. ASSUME NEW t \in Task, ReadYield(t)
      PROVE  Chains'
  <2> DEFINE q == wq[t]
             st == Wake(state, head[q])
             st1 == [st EXCEPT ![t] = INTERRUPTIBLE]
  <2>1. q \in Tty /\ q \in Queue /\ q \notin Lock /\ head[q] # NULL /\ head[q] # t
    BY <1>6, <1>r DEF ReadYield, Running, Overtaken
  <2>2. st \in [Task -> States] /\ \A u \in Task : st[u] = IF u = head[q] THEN RUNNING ELSE state[u]
    BY <2>1, <1>w, <1>0
  <2> HIDE DEF st
  <2>3. st1 \in [Task -> States] /\ \A u \in Task \ {t} : st1[u] = st[u]
    BY <2>2 DEF States
  <2>4. schedule(st1)
    BY <1>6 DEF ReadYield, wake_up, st
  <2> HIDE DEF st1
  <2>5. \A u \in Task : state'[u] = RUNNING \/ state'[u] = st1[u]
    BY <2>3, <2>4, <1>0, ScheduleLemma
  <2>6. wq' = wq /\ tmp' = tmp /\ head' = head /\ busy' = busy
    BY <1>6 DEF ReadYield
  <2>7. \A r \in Queue : InQueue(r)' = InQueue(r)
    BY <2>6 DEF InQueue
  <2>8. \A r \in Queue \ {q} : Asleep(r)' \subseteq Asleep(r)
    BY <2>2, <2>3, <2>5, <2>7 DEF Asleep, InQueue
  <2>9. LockChain'
    <3>1. \A k \in Lock : k \in Queue \ {q} /\ SUBSET Asleep(k)' \subseteq SUBSET Asleep(k)
      BY <2>1, <2>8 DEF Queue
    <3> QED BY <3>1, <2>6, <2>7 DEF Inv, LockChain
  <2>10. TtyChain'
    BY <2>6, <2>7 DEF Inv, TtyChain, Queue
  <2>11. HeadAwake'
    <3>1. head[q] \notin Asleep(q)'
      BY <2>1, <2>2, <2>3, <2>5, <2>7, <1>0 DEF Asleep
    <3> QED BY <3>1, <2>6, <2>8 DEF Inv, HeadAwake
  <2> QED BY <2>9, <2>10, <2>11 DEF Chains
<1>7. ASSUME NEW t \in Task, ReadAgain(t)
      PROVE  Chains'
  <2> DEFINE q == wq[t]
             st == Wake(state, tmp[t])
             st1 == [st EXCEPT ![t] = INTERRUPTIBLE]
  <2>1. q \in Tty /\ q \in Queue /\ q \notin Lock /\ head[q] = t /\ busy[q]
    BY <1>7, <1>r DEF ReadAgain, Running, Overtaken, MustSleep
  <2>2. st \in [Task -> States] /\ \A u \in Task : st[u] = IF u = tmp[t] THEN RUNNING ELSE state[u]
    BY <1>w, <1>0
  <2> HIDE DEF st
  <2>3. st1 \in [Task -> States] /\ \A u \in Task \ {t} : st1[u] = st[u]
    BY <2>2 DEF States
  <2>4. schedule(st1)
    BY <1>7 DEF ReadAgain, st
  <2> HIDE DEF st1
  <2>5. \A u \in Task : state'[u] = RUNNING \/ state'[u] = st1[u]
    BY <2>3, <2>4, <1>0, ScheduleLemma
  <2>6. wq' = wq /\ tmp' = tmp /\ head' = head /\ busy' = busy
    BY <1>7, <2>1, <1>0 DEF ReadAgain, Pop
  <2>7. \A r \in Queue : InQueue(r)' = InQueue(r)
    BY <2>6 DEF InQueue
  <2>8. \A r \in Queue \ {q} : Asleep(r)' \subseteq Asleep(r)
    BY <2>2, <2>3, <2>5, <2>7 DEF Asleep, InQueue
  <2>9. LockChain'
    <3>1. \A k \in Lock : k \in Queue \ {q} /\ SUBSET Asleep(k)' \subseteq SUBSET Asleep(k)
      BY <2>1, <2>8 DEF Queue
    <3> QED BY <3>1, <2>6, <2>7 DEF Inv, LockChain
  <2>10. TtyChain'
    BY <2>6, <2>7 DEF Inv, TtyChain, Queue
  <2>11. HeadAwake'
    BY <2>1, <2>6, <2>8 DEF Inv, HeadAwake
  <2> QED BY <2>9, <2>10, <2>11 DEF Chains
<1>8. ASSUME NEW t \in Task, ReadLeave(t)
      PROVE  Chains'
  <2> DEFINE q == wq[t]
  <2>1. q \in Tty /\ q \in Queue /\ q \notin Lock /\ head[q] = t
    BY <1>8, <1>r DEF ReadLeave, Running, Overtaken
  <2>2. \A u \in Task : state'[u] = IF u = tmp[t] THEN RUNNING ELSE state[u]
    BY <1>8, <1>w, <1>0 DEF ReadLeave
  <2>3. /\ wq' = [wq EXCEPT ![t] = NULL] /\ tmp' = [tmp EXCEPT ![t] = NULL]
        /\ head' = [head EXCEPT ![q] = tmp[t]]
    BY <1>8 DEF ReadLeave, ReadDone, Pop
  <2>4. \A r \in Queue \ {q} : ~busy'[r] => ~busy[r]
    BY <1>8, <1>0, <2>1 DEF ReadLeave, ReadDone
  <2>5. \A r \in Queue : /\ InQueue(r)' = InQueue(r) \ {t}
                         /\ Asleep(r)' \subseteq Asleep(r)
                         /\ r # q => t \notin InQueue(r)
    BY <2>2, <2>3, <1>0 DEF InQueue, Asleep
  <2>6. \A r \in Queue : \A u \in InQueue(r)' : tmp'[u] = tmp[u]
    BY <2>3, <2>5, <1>0 DEF InQueue
  <2>7. LockChain'
    <3> SUFFICES ASSUME NEW k \in Lock, NEW S \in SUBSET Asleep(k)', S # {}
                 PROVE  head'[k] \in S \/ \E u \in InQueue(k)' \ S : tmp'[u] \in S
      BY DEF LockChain
    <3>1. k \in Queue /\ k # q
      BY <2>1 DEF Queue
    <3>2. head[k] \in S \/ \E u \in InQueue(k) \ S : tmp[u] \in S
      BY <3>1, <2>5 DEF Inv, LockChain
    <3> QED BY <3>1, <3>2, <2>3, <2>5, <2>6, <1>0
  <2>8. TtyChain'
    <3> SUFFICES ASSUME NEW r \in Tty, NEW S \in SUBSET InQueue(r)', S # {}
                 PROVE  head'[r] \in S \/ \E u \in InQueue(r)' \ S : tmp'[u] \in S
      BY DEF TtyChain
    <3>1. r \in Queue
      BY DEF Queue
    <3>2. head[r] \in S \/ \E u \in InQueue(r) \ S : tmp[u] \in S
      BY <3>1, <2>5 DEF Inv, TtyChain
    <3>3. CASE r # q
      BY <3>1, <3>2, <3>3, <2>3, <2>5, <2>6, <1>0
    <3>4. CASE r = q
      <4>1. t \notin S
        BY <2>5, <3>1
      <4>2. PICK u \in InQueue(q) \ S : tmp[u] \in S
        BY <4>1, <3>2, <3>4, <2>1
      <4>3. CASE u = t
        BY <4>2, <4>3, <3>4, <2>1, <2>3, <1>0
      <4>4. CASE u # t
        BY <4>2, <4>4, <3>4, <2>1, <2>5, <2>6
      <4> QED BY <4>3, <4>4
    <3> QED BY <3>3, <3>4
  <2>9. HeadAwake'
    <3> SUFFICES ASSUME NEW r \in Queue, ~busy'[r] PROVE head'[r] \notin Asleep(r)'
      BY DEF HeadAwake
    <3>1. CASE r # q
      BY <3>1, <2>3, <2>4, <2>5, <1>0 DEF Inv, HeadAwake
    <3>2. CASE r = q
      BY <3>2, <2>2, <2>3, <2>5, <1>0 DEF Asleep, InQueue
    <3> QED BY <3>1, <3>2
  <2> QED BY <2>7, <2>8, <2>9 DEF Chains
<1>9. ASSUME NEW t \in Task, sys_pause(t)
      PROVE  Chains'
  <2> DEFINE st == [state EXCEPT ![t] = INTERRUPTIBLE]
  <2>1. st \in [Task -> States] /\ \A u \in Task \ {t} : st[u] = state[u]
    BY <1>0 DEF States
  <2>2. schedule(st) /\ wq[t] = NULL
    BY <1>9, <1>n DEF sys_pause, Running
  <2> HIDE DEF st
  <2>3. \A u \in Task \ {t} : state'[u] = RUNNING \/ state'[u] = state[u]
    BY <2>1, <2>2, <1>0, ScheduleLemma
  <2> QED BY <1>9, <2>2, <2>3, QuietStep DEF sys_pause
<1>10. ASSUME NEW t \in Task,
              PauseReturn(t) \/ sys_alarm(t) \/ sys_ssetmask(t) \/ TakeSignal(t)
       PROVE  Chains'
  BY <1>10, QuietStep DEF PauseReturn, sys_alarm, sys_ssetmask, TakeSignal
<1>11. ASSUME (\E t \in Task : Preempt(t)) \/ IdlePause
       PROVE  Chains'
  <2>1. schedule(state) /\ UNCHANGED <<wq, tmp, head, busy>>
    BY <1>11 DEF Preempt, IdlePause
  <2>2. \A u \in Task : state'[u] = RUNNING \/ state'[u] = state[u]
    BY <2>1, <1>0, ScheduleLemma
  <2> QED BY <2>1, <2>2, QuietStep
<1>12. ASSUME NEW q \in Queue, Unlock(q) \/ TtyIntr(q)
       PROVE  Chains'
  <2>1. /\ UNCHANGED <<wq, tmp, head>> /\ state' = Wake(state, head[q])
        /\ \E empty \in BOOLEAN : busy' = [busy EXCEPT ![q] = empty]
    BY <1>12 DEF Unlock, TtyIntr, wake_up
  <2>2. \A u \in Task : state'[u] = IF u = head[q] THEN RUNNING ELSE state[u]
    BY <2>1, <1>w, <1>0
  <2>3. \A r \in Queue : ~busy'[r] => ~busy[r] \/ head[r] = NULL \/ state'[head[r]] = RUNNING
    BY <2>1, <2>2, <1>0
  <2> QED BY <2>1, <2>2, <2>3, QuietStep
<1>13. ASSUME NEW t \in Task, NEW s \in Signal, SendSignal(t, s)
       PROVE  Chains'
  BY <1>13, QuietStep DEF SendSignal
<1>14. CASE UNCHANGED vars
  BY <1>14, QuietStep DEF vars
<1> QED
  BY <1>1, <1>2, <1>3, <1>4, <1>5, <1>6, <1>7, <1>8, <1>9, <1>10, <1>11, <1>12, <1>13, <1>14
  DEF Next, Step, Queue

-----------------------------------------------------------------------------
(* The theorems.                                                           *)

\* Every reachable state of the scheduler satisfies Inv.
THEOREM Invariance == Spec => []Inv
<1>1. Inv /\ [Next]_vars => Inv'
  BY TypeStep, ChainStep DEF Inv, Chains
<1> QED BY InitInv, <1>1, PTL DEF Spec

\* The variables keep their types.
THEOREM TypeCorrect == Spec => []TypeOK
<1>1. Inv => TypeOK
  BY DEF Inv
<1> QED BY Invariance, <1>1, PTL

\* The invariant excludes a lost wake-up: take all sleepers of a queue as S in
\* the chain conditions.
LEMMA InvNoLostWakeup == Inv => NoLostWakeup
<1> USE SchedAssumption
<1> SUFFICES ASSUME Inv, NEW q \in Queue, ~busy[q], Asleep(q) # {},
                    \A t \in InQueue(q) : state[t] # RUNNING
             PROVE  FALSE
  BY DEF NoLostWakeup
<1>1. Asleep(q) = InQueue(q)
  BY DEF Asleep
<1>2. head[q] \in Asleep(q)
  <2>1. CASE q \in Lock
    BY <1>1, <2>1 DEF Inv, LockChain
  <2>2. CASE q \in Tty
    BY <1>1, <2>2 DEF Inv, TtyChain
  <2> QED BY <2>1, <2>2 DEF Queue
<1> QED BY <1>2 DEF Inv, HeadAwake

\* No task sleeps on a free lock, or on a terminal with characters, with no
\* runnable sleeper of the same queue to wake it.
THEOREM WakeupSafety == Spec => []NoLostWakeup
BY Invariance, InvNoLostWakeup, PTL

-----------------------------------------------------------------------------
(* sleep_on and wake_up implement the monitor that the code relies on, for *)
(* any number of tasks, locks and terminals: every step of Sched maps to a *)
(* step of Monitor, with the stuck sleepers of a queue as its waiters.     *)

\* When the queue's pointer names no sleeper, the chains leave nobody stuck.
LEMMA NobodyStuck ==
  ASSUME Inv, NEW r \in Queue, head[r] \notin Asleep(r)
  PROVE  Stuck(r) = {}
<1> SUFFICES ASSUME NEW S \in SUBSET Asleep(r), S # {},
                    \A u \in InQueue(r) \ S : tmp[u] \notin S
             PROVE  FALSE
  BY DEF Stuck
<1>1. CASE r \in Lock
  BY <1>1 DEF Inv, LockChain
<1>2. CASE r \in Tty
  <2>1. S \in SUBSET InQueue(r)
    BY DEF Asleep
  <2> QED BY <1>2, <2>1 DEF Inv, TtyChain
<1> QED BY <1>1, <1>2 DEF Queue

\* The same after a step.
LEMMA NobodyStuckNext ==
  ASSUME Inv', NEW r \in Queue, head'[r] \notin Asleep(r)'
  PROVE  Stuck(r)' = {}
<1> SUFFICES ASSUME NEW S \in SUBSET Asleep(r)', S # {},
                    \A u \in InQueue(r)' \ S : tmp'[u] \notin S
             PROVE  FALSE
  BY DEF Stuck
<1>1. CASE r \in Lock
  BY <1>1 DEF Inv, LockChain
<1>2. CASE r \in Tty
  <2>1. S \in SUBSET InQueue(r)'
    BY DEF Asleep
  <2> QED BY <1>2, <2>1 DEF Inv, TtyChain
<1> QED BY <1>1, <1>2 DEF Queue

\* Nobody but X can get stuck when a task's tmp changes only after the task it
\* named was woken.
LEMMA StuckShrinks ==
  ASSUME NEW r, NEW X, Asleep(r)' \subseteq Asleep(r) \cup X,
         \A u \in InQueue(r) :
           \/ tmp[u] \notin Asleep(r)' \ X
           \/ u \notin X /\ u \in InQueue(r)' /\ tmp'[u] = tmp[u]
  PROVE  Stuck(r)' \subseteq Stuck(r) \cup X
<1> SUFFICES ASSUME NEW S \in SUBSET Asleep(r)', \A u \in InQueue(r)' \ S : tmp'[u] \notin S
             PROVE  S \subseteq Stuck(r) \cup X
  BY DEF Stuck
<1>1. S \ X \in SUBSET Asleep(r)
  OBVIOUS
<1>2. \A u \in InQueue(r) \ (S \ X) : tmp[u] \notin S \ X
  OBVIOUS
<1>3. S \ X \subseteq Stuck(r)
  BY <1>1, <1>2 DEF Stuck
<1> QED BY <1>3

\* A step that only wakes tasks frees sleepers, and makes nobody wait.
LEMMA OnlyWakes ==
  ASSUME wq' = wq, tmp' = tmp,
         \A u \in Task : wq[u] \in Queue => state'[u] = RUNNING \/ state'[u] = state[u]
  PROVE  \A r \in Queue : Stuck(r)' \subseteq Stuck(r)
<1> SUFFICES ASSUME NEW r \in Queue PROVE Stuck(r)' \subseteq Stuck(r) \cup {}
  OBVIOUS
<1>1. InQueue(r)' = InQueue(r)
  BY DEF InQueue
<1>2. Asleep(r)' \subseteq Asleep(r) \cup {}
  BY <1>1 DEF Asleep, InQueue
<1> QED BY <1>1, <1>2, StuckShrinks

\* A step that leaves the objects alone and makes nobody wait.
LEMMA MapSpurious ==
  ASSUME busy' = busy, \A r \in Queue : Stuck(r)' \subseteq Stuck(r)
  PROVE  M!Next
BY DEF M!Next, M!Spurious

\* A task begins to wait for a busy object.
LEMMA MapWait ==
  ASSUME NEW t \in Task, NEW q \in Queue, busy[q], busy' = busy,
         Stuck(q)' \subseteq Stuck(q) \cup {t},
         \A r \in Queue \ {q} : Stuck(r)' \subseteq Stuck(r)
  PROVE  M!Next
BY DEF M!Next, M!Wait, M!Others

\* An object is taken or released, and nobody waits for it.
LEMMA MapSet ==
  ASSUME TypeOK, NEW q \in Queue, NEW x \in BOOLEAN, busy' = [busy EXCEPT ![q] = x],
         Stuck(q)' = {}, \A r \in Queue \ {q} : Stuck(r)' \subseteq Stuck(r)
  PROVE  M!Next
<1>1. busy'[q] = x /\ \A r \in Queue \ {q} : busy'[r] = busy[r]
  BY DEF TypeOK
<1>2. M!Others(q)
  BY <1>1 DEF M!Others
<1>3. CASE ~x
  BY <1>1, <1>2, <1>3 DEF M!Next, M!Release
<1>4. CASE x /\ ~busy[q]
  BY <1>1, <1>2, <1>4 DEF M!Next, M!Acquire
<1>5. CASE x /\ busy[q]
  <2>1. busy' = busy
    BY <1>5 DEF TypeOK
  <2>2. \A r \in Queue : Stuck(r)' \subseteq Stuck(r)
    OBVIOUS
  <2> QED BY <2>1, <2>2, MapSpurious
<1> QED BY <1>3, <1>4, <1>5

\* The task t goes to sleep on q: it was in no queue, or in q with its tmp woken.
LEMMA PushMaps ==
  ASSUME TypeOK, NEW t \in Task, NEW q \in Queue, NEW x, busy[q], busy' = busy,
         wq' = [wq EXCEPT ![t] = q], tmp' = [tmp EXCEPT ![t] = x],
         \A u \in Task \ {t} : state'[u] = RUNNING \/ state'[u] = state[u],
         \/ wq[t] = NULL
         \/ wq[t] = q /\ (tmp[t] \in {NULL, t} \/ state'[tmp[t]] = RUNNING)
  PROVE  M!Next
<1> USE SchedAssumption
<1>0. wq \in [Task -> Queue \cup {NULL}] /\ tmp \in [Task -> Task \cup {NULL}]
  BY DEF TypeOK
<1>1. Stuck(q)' \subseteq Stuck(q) \cup {t}
  <2>1. Asleep(q)' \subseteq Asleep(q) \cup {t}
    BY <1>0 DEF Asleep, InQueue
  <2>2. \A u \in InQueue(q) \ {t} : u \in InQueue(q)' /\ tmp'[u] = tmp[u]
    BY <1>0 DEF InQueue
  <2>3. t \in InQueue(q) => tmp[t] \notin Asleep(q)' \ {t}
    BY <1>0 DEF Asleep, InQueue
  <2>4. \A u \in InQueue(q) :
          \/ tmp[u] \notin Asleep(q)' \ {t}
          \/ u \notin {t} /\ u \in InQueue(q)' /\ tmp'[u] = tmp[u]
    BY <2>2, <2>3
  <2> QED BY <2>1, <2>4, StuckShrinks
<1>2. ASSUME NEW r \in Queue \ {q} PROVE Stuck(r)' \subseteq Stuck(r) \cup {}
  <2>1. Asleep(r)' \subseteq Asleep(r) \cup {}
    BY <1>0 DEF Asleep, InQueue
  <2>2. \A u \in InQueue(r) : u \in InQueue(r)' /\ tmp'[u] = tmp[u]
    BY <1>0 DEF InQueue
  <2> QED BY <2>1, <2>2, StuckShrinks
<1> QED BY <1>1, <1>2, MapWait

\* The task t leaves its queue, if it is in one, after waking its tmp.
LEMMA PopMaps ==
  ASSUME TypeOK, NEW t \in Task,
         wq' = [wq EXCEPT ![t] = NULL], tmp' = [tmp EXCEPT ![t] = NULL],
         \A u \in Task : state'[u] = RUNNING \/ state'[u] = state[u],
         wq[t] = NULL \/ tmp[t] = NULL \/ state'[tmp[t]] = RUNNING
  PROVE  \A r \in Queue : Stuck(r)' \subseteq Stuck(r)
<1> USE SchedAssumption
<1> SUFFICES ASSUME NEW r \in Queue PROVE Stuck(r)' \subseteq Stuck(r) \cup {}
  OBVIOUS
<1>0. wq \in [Task -> Queue \cup {NULL}] /\ tmp \in [Task -> Task \cup {NULL}]
  BY DEF TypeOK
<1>1. Asleep(r)' \subseteq Asleep(r) \cup {}
  BY <1>0 DEF Asleep, InQueue
<1>2. \A u \in InQueue(r) \ {t} : u \in InQueue(r)' /\ tmp'[u] = tmp[u]
  BY <1>0 DEF InQueue
<1>3. t \in InQueue(r) => tmp[t] \notin Asleep(r)'
  BY <1>0 DEF Asleep, InQueue
<1> QED BY <1>1, <1>2, <1>3, StuckShrinks

-----------------------------------------------------------------------------
(* Every step of Sched is a step of Monitor, one case per action.          *)

\* Every step is a step of the monitor or leaves it alone.
LEMMA MonitorStep == Inv /\ Inv' /\ [Next]_vars => [M!Next]_<<busy, [q \in Queue |-> Stuck(q)]>>
<1> SUFFICES ASSUME Inv, Inv', [Next]_vars
             PROVE  M!Next \/ UNCHANGED <<busy, [q \in Queue |-> Stuck(q)]>>
  OBVIOUS
<1> USE SchedAssumption
<1>0. /\ state \in [Task -> States] /\ TypeOK /\ WqOK
      /\ wq \in [Task -> Queue \cup {NULL}] /\ tmp \in [Task -> Task \cup {NULL}]
      /\ head \in [Queue -> Task \cup {NULL}] /\ busy \in [Queue -> BOOLEAN]
  BY DEF Inv, TypeOK, States
<1>n. \A t \in Task : pc[t] \in {"run", "pause"} => wq[t] = NULL
  BY <1>0 DEF WqOK, Queue, Waits
<1>w. ASSUME NEW t \in Task \cup {NULL}
      PROVE  /\ Wake(state, t) \in [Task -> States]
             /\ \A u \in Task : Wake(state, t)[u] = (IF u = t THEN RUNNING ELSE state[u])
  BY <1>0, WakeLemma
\* A free object has nobody stuck.
<1>f. ASSUME NEW r \in Queue, ~busy[r] PROVE Stuck(r) = {}
  BY <1>f, NobodyStuck DEF Inv, HeadAwake
\* schedule() with t's state replaced wakes tasks other than t only.
<1>s. ASSUME NEW t \in Task, NEW st \in [Task -> States], NEW x \in States,
             schedule([st EXCEPT ![t] = x])
      PROVE  \A u \in Task \ {t} : state'[u] = RUNNING \/ state'[u] = st[u]
  <2> DEFINE st1 == [st EXCEPT ![t] = x]
  <2>1. st1 \in [Task -> States] /\ \A u \in Task \ {t} : st1[u] = st[u]
    OBVIOUS
  <2>2. schedule(st1)
    BY <1>s
  <2> HIDE DEF st1
  <2> QED BY <2>1, <2>2, <1>0, ScheduleLemma
<1>1. ASSUME NEW t \in Task, NEW l \in Lock, NEW how \in Waits, Pass(t, l, how)
      PROVE  M!Next
  <2>1. l \in Queue /\ ~busy[l] /\ wq[t] = NULL /\ state' = state
    BY <1>1, <1>n DEF Pass, Running, Queue
  <2>2. \A r \in Queue : Stuck(r)' \subseteq Stuck(r)
    BY <1>1, <2>1, <1>0, PopMaps DEF Pass, Leave
  <2>3. Stuck(l)' = {}
    BY <2>1, <2>2, <1>f
  <2>4. busy' = [busy EXCEPT ![l] = how = "lock"]
    BY <1>1, <2>1, <1>0 DEF Pass, Leave
  <2> QED BY <2>1, <2>2, <2>3, <2>4, <1>0, MapSet
<1>2. ASSUME NEW t \in Task, NEW l \in Lock, NEW how \in Waits, Block(t, l, how)
      PROVE  M!Next
  <2>1. l \in Queue /\ busy[l] /\ wq[t] = NULL /\ busy' = busy
    BY <1>2, <1>n DEF Block, Running, Queue
  <2>2. \A u \in Task \ {t} : state'[u] = RUNNING \/ state'[u] = state[u]
    BY <1>2, <1>0, <1>s DEF Block, sleep_on, States
  <2> QED BY <1>2, <2>1, <2>2, <1>0, PushMaps DEF Block, sleep_on
<1>3. ASSUME NEW t \in Task, Resume(t)
      PROVE  M!Next
  <2> DEFINE st == Wake(state, tmp[t])
  <2>1. PICK l \in Lock : l = wq[t] /\ l \in Queue
    BY <1>3, <1>0 DEF Resume, WqOK, Queue
  <2>2. st \in [Task -> States] /\ \A u \in Task : st[u] = IF u = tmp[t] THEN RUNNING ELSE state[u]
    BY <1>w, <1>0
  <2> HIDE DEF st
  <2>3. CASE busy[l]
    <3>1. sleep_on(t, l, st) /\ busy' = busy
      BY <1>3, <2>1, <2>3 DEF Resume, sleep_on_end, st
    <3>2. \A u \in Task \ {t} : state'[u] = RUNNING \/ state'[u] = st[u]
      BY <3>1, <2>2, <1>s DEF sleep_on, States
    <3>3. \A u \in Task \ {t} : state'[u] = RUNNING \/ state'[u] = state[u]
      BY <3>2, <2>2
    <3>4. tmp[t] \in {NULL, t} \/ state'[tmp[t]] = RUNNING
      BY <3>2, <2>2, <1>0
    <3> QED BY <3>1, <3>3, <3>4, <2>1, <2>3, <1>0, PushMaps DEF sleep_on
  <2>4. CASE ~busy[l]
    <3>1. Leave(t, l, pc[t]) /\ state' = st
      BY <1>3, <2>1, <2>4 DEF Resume, sleep_on_end, st
    <3>2. \A r \in Queue : Stuck(r)' \subseteq Stuck(r)
      BY <3>1, <2>2, <1>0, PopMaps DEF Leave
    <3>3. Stuck(l)' = {}
      BY <3>2, <2>1, <2>4, <1>f
    <3>4. busy' = [busy EXCEPT ![l] = pc[t] = "lock"]
      BY <3>1, <2>1, <2>4, <1>0 DEF Leave
    <3> QED BY <2>1, <3>2, <3>3, <3>4, <1>0, MapSet
  <2> QED BY <2>3, <2>4
\* A read that gets characters, or is interrupted, leaves nobody behind.
<1>d. ASSUME NEW t \in Task, NEW q \in Queue, ReadDone(t, q), ~MustSleep(t, q),
             \A r \in Queue : Stuck(r)' \subseteq Stuck(r)
      PROVE  M!Next
  <2>1. CASE signal[t] = {}
    <3>1. Stuck(q)' = {}
      BY <1>d, <2>1, <1>f DEF MustSleep
    <3>2. PICK x \in BOOLEAN : busy' = [busy EXCEPT ![q] = x]
      BY <1>d, <2>1 DEF ReadDone
    <3> QED BY <1>d, <3>1, <3>2, <1>0, MapSet
  <2>2. CASE signal[t] # {}
    <3>1. busy' = busy
      BY <1>d, <2>2, <1>0 DEF ReadDone
    <3> QED BY <1>d, <3>1, MapSpurious
  <2> QED BY <2>1, <2>2
<1>4. ASSUME NEW t \in Task, NEW q \in Tty, ReadNow(t, q)
      PROVE  M!Next
  <2>1. q \in Queue /\ wq[t] = NULL /\ state' = state
    BY <1>4, <1>n DEF ReadNow, Running, Queue
  <2>2. \A r \in Queue : Stuck(r)' \subseteq Stuck(r)
    BY <1>4, <2>1, <1>0, PopMaps DEF ReadNow, ReadDone
  <2> QED BY <1>4, <2>1, <2>2, <1>d DEF ReadNow
<1>5. ASSUME NEW t \in Task, NEW q \in Tty, ReadSleep(t, q)
      PROVE  M!Next
  <2>1. q \in Queue /\ busy[q] /\ wq[t] = NULL /\ busy' = busy
    BY <1>5, <1>n DEF ReadSleep, Running, MustSleep, Queue
  <2>2. \A u \in Task \ {t} : state'[u] = RUNNING \/ state'[u] = state[u]
    BY <1>5, <1>0, <1>s DEF ReadSleep, States
  <2> QED BY <1>5, <2>1, <2>2, <1>0, PushMaps DEF ReadSleep
<1>r. ASSUME NEW t \in Task, pc[t] = "read"
      PROVE  wq[t] \in Tty /\ wq[t] \in Queue
  BY <1>r, <1>0 DEF WqOK, Queue
\* The overtaken reader goes back to sleep, but the one on top is awake.
<1>6. ASSUME NEW t \in Task, ReadYield(t)
      PROVE  M!Next
  <2>1. PICK q \in Queue : q = wq[t] /\ head[q] # NULL /\ head[q] # t
    BY <1>6, <1>r DEF ReadYield, Running, Overtaken
  <2> DEFINE st == Wake(state, head[q])
  <2>2. st \in [Task -> States] /\ \A u \in Task : st[u] = IF u = head[q] THEN RUNNING ELSE state[u]
    BY <2>1, <1>w, <1>0
  <2> HIDE DEF st
  <2>3. schedule([st EXCEPT ![t] = INTERRUPTIBLE])
    BY <1>6, <2>1 DEF ReadYield, wake_up, st
  <2>4. \A u \in Task \ {t} : state'[u] = RUNNING \/ state'[u] = st[u]
    BY <2>2, <2>3, <1>s DEF States
  <2>5. wq' = wq /\ tmp' = tmp /\ head' = head /\ busy' = busy
    BY <1>6 DEF ReadYield
  <2>6. Stuck(q)' = {}
    <3>1. head'[q] \notin Asleep(q)'
      BY <2>1, <2>2, <2>4, <2>5, <1>0 DEF Asleep, InQueue
    <3> QED BY <3>1, <2>1, NobodyStuckNext
  <2>7. ASSUME NEW r \in Queue \ {q} PROVE Stuck(r)' \subseteq Stuck(r) \cup {}
    <3>1. InQueue(r)' = InQueue(r) /\ Asleep(r)' \subseteq Asleep(r) \cup {}
      BY <2>1, <2>2, <2>4, <2>5 DEF Asleep, InQueue
    <3> QED BY <3>1, <2>5, StuckShrinks
  <2> QED BY <2>5, <2>6, <2>7, MapSpurious
<1>7. ASSUME NEW t \in Task, ReadAgain(t)
      PROVE  M!Next
  <2> DEFINE q == wq[t]
             st == Wake(state, tmp[t])
  <2>1. q \in Queue /\ busy[q] /\ wq' = wq /\ busy' = busy /\ tmp' = [tmp EXCEPT ![t] = Pop(t)]
    BY <1>7, <1>r DEF ReadAgain, Running, MustSleep
  <2>2. st \in [Task -> States] /\ \A u \in Task : st[u] = IF u = tmp[t] THEN RUNNING ELSE state[u]
    BY <1>w, <1>0
  <2> HIDE DEF st
  <2>3. schedule([st EXCEPT ![t] = INTERRUPTIBLE])
    BY <1>7 DEF ReadAgain, st
  <2>4. \A u \in Task \ {t} : state'[u] = RUNNING \/ state'[u] = st[u]
    BY <2>2, <2>3, <1>s DEF States
  <2>5. \A u \in Task \ {t} : state'[u] = RUNNING \/ state'[u] = state[u]
    BY <2>2, <2>4
  <2>6. tmp[t] \in {NULL, t} \/ state'[tmp[t]] = RUNNING
    BY <2>2, <2>4, <1>0
  <2>7. wq' = [wq EXCEPT ![t] = q]
    BY <2>1, <1>0
  <2> QED BY <2>1, <2>5, <2>6, <2>7, <1>0, PushMaps
<1>8. ASSUME NEW t \in Task, ReadLeave(t)
      PROVE  M!Next
  <2>1. wq[t] \in Queue
    BY <1>8, <1>r DEF ReadLeave, Running
  <2>2. \A u \in Task : state'[u] = IF u = tmp[t] THEN RUNNING ELSE state[u]
    BY <1>8, <1>w, <1>0 DEF ReadLeave
  <2>3. \A r \in Queue : Stuck(r)' \subseteq Stuck(r)
    BY <1>8, <2>2, <1>0, PopMaps DEF ReadLeave, ReadDone
  <2> QED BY <1>8, <2>1, <2>3, <1>d DEF ReadLeave
<1>9. ASSUME NEW t \in Task, sys_pause(t)
      PROVE  M!Next
  <2>1. \A u \in Task \ {t} : state'[u] = RUNNING \/ state'[u] = state[u]
    BY <1>9, <1>0, <1>s DEF sys_pause, States
  <2>2. wq[t] = NULL
    BY <1>9, <1>n DEF sys_pause, Running
  <2> QED BY <1>9, <2>1, <2>2, OnlyWakes, MapSpurious DEF sys_pause
<1>10. ASSUME NEW t \in Task,
              PauseReturn(t) \/ sys_alarm(t) \/ sys_ssetmask(t) \/ TakeSignal(t)
       PROVE  M!Next
  BY <1>10, OnlyWakes, MapSpurious DEF PauseReturn, sys_alarm, sys_ssetmask, TakeSignal
<1>11. ASSUME (\E t \in Task : Preempt(t)) \/ IdlePause
       PROVE  M!Next
  <2>1. schedule(state) /\ UNCHANGED <<wq, tmp, busy>>
    BY <1>11 DEF Preempt, IdlePause
  <2>2. \A u \in Task : state'[u] = RUNNING \/ state'[u] = state[u]
    BY <2>1, <1>0, ScheduleLemma
  <2> QED BY <2>1, <2>2, OnlyWakes, MapSpurious
<1>12. ASSUME NEW q \in Queue, Unlock(q) \/ TtyIntr(q)
       PROVE  M!Next
  <2>1. UNCHANGED <<wq, tmp, head>> /\ state' = Wake(state, head[q])
    BY <1>12 DEF Unlock, TtyIntr, wake_up
  <2>2. PICK x \in BOOLEAN : busy' = [busy EXCEPT ![q] = x]
    BY <1>12 DEF Unlock, TtyIntr
  <2>3. \A u \in Task : state'[u] = IF u = head[q] THEN RUNNING ELSE state[u]
    BY <2>1, <1>w, <1>0
  <2>4. Stuck(q)' = {}
    <3>1. head'[q] \notin Asleep(q)'
      BY <2>1, <2>3, <1>0 DEF Asleep, InQueue
    <3> QED BY <3>1, NobodyStuckNext
  <2>5. \A r \in Queue : Stuck(r)' \subseteq Stuck(r)
    BY <2>1, <2>3, OnlyWakes
  <2> QED BY <2>2, <2>4, <2>5, <1>0, MapSet
<1>13. ASSUME NEW t \in Task, NEW s \in Signal, SendSignal(t, s)
       PROVE  M!Next
  BY <1>13, OnlyWakes, MapSpurious DEF SendSignal
<1>14. ASSUME UNCHANGED vars PROVE M!Next
  BY <1>14, OnlyWakes, MapSpurious DEF vars
<1> QED
  BY <1>1, <1>2, <1>3, <1>4, <1>5, <1>6, <1>7, <1>8, <1>9, <1>10, <1>11, <1>12, <1>13, <1>14
  DEF Next, Step, Queue

\* At the start every object has its monitor's initial state.
LEMMA MonitorInit == Init => M!Init
<1> SUFFICES ASSUME Init PROVE M!Init
  OBVIOUS
<1>1. \A q \in Queue : Stuck(q) = {}
  <2>1. \A q \in Queue : Asleep(q) = {}
    BY SchedAssumption DEF Init, Asleep, InQueue
  <2> QED BY <2>1 DEF Stuck
<1>2. busy \in [Queue -> BOOLEAN]
  BY DEF Init
<1> QED BY <1>1, <1>2 DEF M!Init

\* sleep_on(), interruptible_sleep_on() and wake_up() implement the monitor: a
\* release leaves nobody waiting, and a task begins to wait only while the
\* object is busy.
THEOREM MonitorImplemented == Spec => MonitorSpec
<1>1. Inv /\ [Next]_vars => Inv'
  BY TypeStep, ChainStep DEF Inv, Chains
<1> QED BY MonitorInit, MonitorStep, Invariance, <1>1, PTL DEF Spec, MonitorSpec, M!Spec

=============================================================================
