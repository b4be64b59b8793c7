----------------------------- MODULE MCProcess -----------------------------
(***************************************************************************)
(* Instances of Process: three tasks beside the idle task; families        *)
(* without pipes, and a pipe between them.                                 *)
(***************************************************************************)
EXTENDS Process

Bound(fork, wait, kill, mask, pip, close, dup, rw) ==
  [c \in {"fork", "wait", "kill", "mask", "pipe", "close", "dup", "rw"} |->
     CASE c = "fork" -> fork [] c = "wait" -> wait [] c = "kill" -> kill [] c = "mask" -> mask
       [] c = "pipe" -> pip [] c = "close" -> close [] c = "dup" -> dup [] c = "rw" -> rw]

\* Children of children, pids that are used again, signals.
Family == Bound(4, 3, 1, 1, 0, 0, 0, 0)
\* Three readers and writers that come and go.
Pipeline == Bound(2, 0, 0, 0, 1, 1, 0, 3)
\* Descriptors that are copied before a fork.
Copies == Bound(1, 0, 0, 0, 1, 1, 2, 3)
\* One reader and one writer.
Reader == Bound(1, 0, 0, 0, 1, 1, 0, 2)

MCScenarios == {Family, Pipeline, Copies}
MCReader == {Reader}
=============================================================================
