------------------------------ MODULE MCMemory ------------------------------
(* Memory for TLC.  The tasks that are not there at the start, and the     *)
(* files, are interchangeable, and so are the pages: View describes a      *)
(* state up to a renaming of the pages.  No step and no property depends   *)
(* on which free page get_free_page returns.                               *)
EXTENDS Memory, TLC

Symmetry == Permutations(Task \ {First}) \cup Permutations(File)

\* What a task finds at these addresses matters to no step and no property:
\* at the backed ones once raced, and at all of them while exec drops them.
Forgotten(t) ==
  IF pc[t] = "closing" THEN Addr ELSE IF raced THEN Backed ELSE {}

\* An entry and its page, without the number of the page: who shares it, and
\* what is in it and should be.  The page of the page table comes with its
\* count.
Count0(p) == IF p = 0 THEN 0 ELSE mem_map[p]
Look(t, a) ==
  LET e == pte[t][a] IN
  <<e.rw, e.dirty, Count0(dir[t][a]), Count0(e.page), {u \in Task : pte[u][a].page = e.page},
    IF e.page = 0 \/ a \in Forgotten(t) THEN << >> ELSE <<content[e.page], view[t][a]>> >>

\* Entries that may still be shared as they are.
Loose == {x \in loose : executable[x[1]] # NULL /\ x[2] \notin Forgotten(x[1])}

\* A page is mapped with contents of its own, so what else is in memory (in
\* page tables, free pages and pipes) and what a task should find at an absent
\* address are left out.  A page that is named in two other ways, or by nobody,
\* shows in its count or in the number of free pages.
View ==
  <<[t \in Task |-> [a \in Addr |-> Look(t, a)]],
    [t \in Task |-> <<executable[t], pc[t], at[t], file[t], Count0(task[t]), Count0(held[t]),
                      IF pc[t] \in {"exec", "closing"} THEN content[held[t]] ELSE << >> >>],
    Cardinality(pipes), Cardinality(Free(mem_map)), Loose, raced>>
=============================================================================
