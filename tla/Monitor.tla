------------------------------ MODULE Monitor ------------------------------
(***************************************************************************)
(* What a wait queue promises to the code that uses it: a set of waiters   *)
(* per object, emptied whenever the object is released.                    *)
(***************************************************************************)
CONSTANTS Task, Queue

VARIABLES busy, waiting

Init ==
  /\ busy \in [Queue -> BOOLEAN]
  /\ waiting = [q \in Queue |-> {}]

\* The other objects keep their waiters, or lose some to a spurious wake-up.
Others(q) ==
  \A r \in Queue \ {q} : busy'[r] = busy[r] /\ waiting'[r] \subseteq waiting[r]

\* A task waits only for an object that is busy.
Wait(t, q) ==
  /\ busy[q] /\ busy'[q]
  /\ waiting'[q] \subseteq waiting[q] \cup {t}
  /\ Others(q)

\* Taking a free object; nobody can be waiting for it.
Acquire(q) ==
  /\ ~busy[q] /\ busy'[q]
  /\ waiting'[q] = {}
  /\ Others(q)

\* A release wakes every waiter.
Release(q) ==
  /\ ~busy'[q]
  /\ waiting'[q] = {}
  /\ Others(q)

\* Tasks stop waiting for no reason the object knows of (a signal, a stale
\* pointer).
Spurious ==
  /\ busy' = busy
  /\ \A q \in Queue : waiting'[q] \subseteq waiting[q]

Next ==
  \/ \E q \in Queue : Acquire(q) \/ Release(q) \/ \E t \in Task : Wait(t, q)
  \/ Spurious

Spec == Init /\ [][Next]_<<busy, waiting>>
=============================================================================
