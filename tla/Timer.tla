------------------------------- MODULE Timer -------------------------------
(***************************************************************************)
(* The list of timers of kernel/sched.c: each keeps the ticks between the  *)
(* one before it and itself.  The floppy driver is its only user.          *)
(***************************************************************************)
EXTENDS Naturals, Sequences, FiniteSets, FiniteSetsExt, SequencesExt

\* An entry: jiffies as the code keeps them, the function, and, a history
\* variable, the ticks that are left of those asked for.
Entry(jiffies, fn, due) == [jiffies |-> jiffies, fn |-> fn, due |-> due]

\* The ticks until the k-th timer goes off.
Until(list, k) == FoldLeft(LAMBDA n, t : n + t.jiffies, 0, SubSeq(list, 1, k))

\* Mutant: the new timer goes off with the next tick.
InsertShort(list, jiffies, fn) == <<Entry(1, fn, jiffies)>> \o list

\* add_timer with jiffies > 0: the new timer moves behind those that have
\* fewer ticks, losing theirs; the one it stops before keeps its own, so that
\* timer and all behind it go off later than asked.
Insert(list, jiffies, fn) ==
  LET before == Min({k \in 0 .. Len(list) :
                       k = Len(list) \/ list[k + 1].jiffies >= jiffies - Until(list, k)})
  IN InsertAt(list, before + 1, Entry(jiffies - Until(list, before), fn, jiffies))

\* One tick of do_timer: the first timer counts down.
CountDown(list) ==
  [i \in DOMAIN list |->
     [list[i] EXCEPT !.jiffies = IF i = 1 THEN @ - 1 ELSE @,
                     !.due = IF @ = 0 THEN 0 ELSE @ - 1]]

\* It has reached 0 and is taken off the list.
Expired(list) == list # <<>> /\ list[1].jiffies = 0
=============================================================================
