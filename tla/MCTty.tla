------------------------------- MODULE MCTty -------------------------------
(***************************************************************************)
(* Instances of Tty.                                                       *)
(***************************************************************************)
EXTENDS Tty

CONSTANTS t1, t2

\* The modes of tty_table at boot, and what an editor sets.
Sane == [canon |-> TRUE, echo |-> TRUE, isig |-> TRUE, cr |-> "nl", onlcr |-> TRUE,
            min |-> 1, time |-> FALSE]
Raw     == [canon |-> FALSE, echo |-> FALSE, isig |-> FALSE, cr |-> "ignore", onlcr |-> FALSE,
            min |-> 1, time |-> FALSE]
Timed   == [Raw EXCEPT !.min = 0, !.time = TRUE]
Loud    == [Raw EXCEPT !.echo = TRUE]

Read(d, n)   == [op |-> "read", d |-> d, nr |-> n]
Write(d, s)  == [op |-> "write", d |-> d, chars |-> s]
Set(d, f, m) == [op |-> "ioctl", d |-> d, flush |-> f, termios |-> m]

\* A shell reads lines while another program writes.
Editing == [con |-> Sane, rs |-> Raw, pgrp |-> {t1, t2}, keys |-> 3, recv |-> 0, faults |-> 0,
            prog |-> (t1 :> <<Read("con", 3)>> @@ t2 :> <<Write("con", <<"a", "NL", "a">>)>>)]
\* Two readers of one terminal.
Readers == [con |-> Sane, rs |-> Raw, pgrp |-> {t1, t2}, keys |-> 3, recv |-> 0, faults |-> 0,
            prog |-> (t1 :> <<Read("con", 1)>> @@ t2 :> <<Read("con", 2)>>)]
\* A program asks the terminal what it is.
Asking  == [con |-> Sane, rs |-> Raw, pgrp |-> {}, keys |-> 1, recv |-> 0, faults |-> 0,
            prog |-> (t1 :> <<Write("con", <<"ID", "a">>), Read("con", 2)>> @@
                      t2 :> <<Write("con", <<"a">>)>>)]
\* Reads with a timeout, and a change of mode.
Timeout == [con |-> Timed, rs |-> Raw, pgrp |-> {}, keys |-> 2, recv |-> 0, faults |-> 0,
            prog |-> (t1 :> <<Read("con", 2), Read("con", 1)>> @@
                      t2 :> <<Set("con", {"read"}, [Timed EXCEPT !.canon = TRUE])>>)]
\* Two writers fill the queue of the serial line; it echoes what it receives.
Serial(m) == [con |-> Sane, rs |-> m, pgrp |-> {}, keys |-> 0, recv |-> 2, faults |-> 0,
            prog |-> (t1 :> <<Write("rs", <<"a", "NL", "a", "a", "a">>),
                              Set("rs", {"write", "read"}, m)>> @@
                      t2 :> <<Write("rs", <<"a", "a", "a", "NL">>), Read("rs", 2)>>)]

\* The same, with page faults.
Faulting == [Serial(Raw) EXCEPT !.faults = 2, !.recv = 0]

MCScenarios == {Editing, Readers, Asking, Timeout,
                Serial([Raw EXCEPT !.onlcr = TRUE, !.min = 2]), Serial(Loud), Faulting}
MCChar == Delim \cup Control \cup {"^", "DEL", "a", "nul", None, "ERASE", "ID"}
MCKeys == {"a", "CR", "EOF", "INTR", "STOP", "ERASE", "KILL"}
=============================================================================
