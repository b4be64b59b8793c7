-------------------------------- MODULE Tty --------------------------------
(***************************************************************************)
(* kernel/chr_drv: the terminals.  tty_io.c (read, write, line editing and *)
(* echo), tty_ioctl.c, the queues of tty.h, con_write's handling of its    *)
(* queue (console.c), the keyboard interrupt (keyboard.S) and a serial     *)
(* line (serial.c, rs_io.s).  What con_write paints is in Console.tla.     *)
(*                                                                         *)
(* The kernel is not preempted, so there is one stack of activations, with *)
(* the system call of a task at the bottom and interrupt handlers above    *)
(* it.  A step is one turn of a loop; between two steps interrupts come    *)
(* in.  The keyboard has a trap gate and is acknowledged before the line   *)
(* discipline runs, so that it may interrupt its own handler.              *)
(***************************************************************************)
EXTENDS Integers, Sequences, FiniteSets, SequencesExt, FiniteSetsExt

CONSTANTS
  Task, NoTask,
  TTY_BUF_SIZE,
  LOW,        \* room a writer waits for once the queue was full (128)
  PART,       \* room below which a read takes a line that has no end (20)
  STARTUP,    \* characters left at which a serial writer is woken (256)
  Char,       \* the characters, by their names
  Keys,       \* what is typed at the keyboard
  Received,   \* what arrives on the serial line
  NEST,       \* bound: keyboard interrupts on the stack
  Scenarios   \* [con, rs : Termios, prog : task -> calls, keys, recv, faults : Nat]

ASSUME TtyAssumption ==
  /\ NoTask \notin Task
  /\ TTY_BUF_SIZE \in Nat /\ TTY_BUF_SIZE > 2
  /\ {LOW, PART, STARTUP} \subseteq 0 .. TTY_BUF_SIZE - 1
  /\ NEST \in Nat \ {0}

VARIABLES
  tty,      \* tty_table: the console and one serial line
  task,     \* per task: state, signals, alarm, the call it is in, calls to come
  stack,    \* activations in the kernel, the innermost last
  tx,       \* the serial line's transmit interrupt is enabled
  cr_flag,  \* static in tty_write
  input,    \* bounds: what may still be typed and received, faults to come
  seen      \* what happened so far: see Mark

vars == <<tty, task, stack, tx, cr_flag, input, seen>>

Devices == {"con", "rs"}
None    == "none"
NoCall  == [f |-> None, at |-> None]
Delim   == {"NL", "EOF"}
Control == {"CR", "EOF", "INTR", "QUIT", "STOP", "START", "KILL"}

\* What a program asks of a terminal, and the modes it may set.
Termios == [canon : BOOLEAN, echo : BOOLEAN, isig : BOOLEAN, onlcr : BOOLEAN,
            time : BOOLEAN, cr : {"ignore", "nl", "keep"}, min : Nat]
Calls == [op : {"read"}, d : Devices, nr : Nat] \cup
         [op : {"write"}, d : Devices, chars : Seq(Char)] \cup
         [op : {"ioctl"}, d : Devices, flush : SUBSET {"read", "write"}, termios : Termios]

ASSUME CharAssumption ==
  /\ Keys \subseteq Char /\ Received \subseteq Char
  /\ Delim \cup Control \cup {"^", "DEL", "a", "nul", None} \subseteq Char

ASSUME ScenarioAssumption ==
  \A s \in Scenarios :
    /\ s.con \in Termios /\ s.rs \in Termios /\ s.pgrp \subseteq Task
    /\ s.prog \in [Task -> Seq(Calls)] /\ s.keys \in Nat /\ s.recv \in Nat
    /\ s.faults \in Nat

-----------------------------------------------------------------------------
(* tty.h: the rings.                                                       *)

Mod(n)   == n % TTY_BUF_SIZE
EMPTY(q) == q.head = q.tail
LEFT(q)  == Mod(q.tail - q.head - 1)
FULL(q)  == LEFT(q) = 0
CHARS(q) == Mod(q.head - q.tail)
LAST(q)  == q.buf[Mod(q.head - 1)]
First(q) == q.buf[q.tail]
GETCH(q) == [q EXCEPT !.tail = Mod(@ + 1)]
PUTCH(c, q)  == [q EXCEPT !.buf[q.head] = c, !.head = Mod(@ + 1)]
\* PUTCH for one character of s after the other; s is shorter than the ring.
PutAll(s, q) ==
  [q EXCEPT !.head = Mod(@ + Len(s)),
            !.buf = [i \in 0 .. TTY_BUF_SIZE - 1 |->
                       IF Mod(i - q.head) < Len(s) THEN s[Mod(i - q.head) + 1] ELSE q.buf[i]]]
DEC(q)       == [q EXCEPT !.head = Mod(@ - 1)]
flush(q)     == [q EXCEPT !.head = q.tail]

\* The line ends between tail and head, by their place in the ring.
LineEnds(q) ==
  {i \in 0 .. TTY_BUF_SIZE - 1 : Mod(i - q.tail) < CHARS(q) /\ q.buf[i] \in Delim}

\* Facts about the past that the properties refer to:
\*   "over"    a character was put into a full write queue
\*   "under"   a character was taken from an empty write queue
\*   "overlap" con_write was entered while another one was in its loop
\*   "nested"  copy_to_cooked was entered while another one was in its loop
\*   "erased"  a read took a character which ERASE or KILL had just taken away
\*   "eof"     a read with a timeout ended on an EOF character
\*   "stray"   a timeout ran out when its read had returned
\*   "faulted" a writer slept between its test for room and its PUTCH
Mark(b, m) == IF b THEN {m} ELSE {}

Running(f, d) == \E i \in DOMAIN stack : stack[i].f = f /\ stack[i].d = d

-----------------------------------------------------------------------------
(* Activations.                                                            *)

Top == Last(stack)
\* The innermost activation becomes fr.
Become(fr) == [stack EXCEPT ![Len(stack)] = fr]
\* Mutant: the room in the queue is subtracted from its size.
EnteredOne(d, q) ==
  IF d = "con" THEN <<[f |-> "con_write", d |-> d, nr |-> TTY_BUF_SIZE - LEFT(q)]>>
               ELSE << >>

\* tty->write(tty), called by an activation after the write queue became q:
\* con_write goes into its loop; rs_write enables the transmit interrupt.
Entered(d, q) == IF d = "con" THEN <<[f |-> "con_write", d |-> d, nr |-> CHARS(q)]>>
                              ELSE << >>

\* Mutant: a full queue is taken for an empty one.
EnabledUnlessFull(d, q) == tx \/ (d = "rs" /\ ~FULL(q))

Enabled(d, q) == tx \/ (d = "rs" /\ ~EMPTY(q))
Overlap(d)    == Mark(d = "con" /\ Running("con_write", d), "overlap")
Cooked(d, i)  == <<[f |-> "cooked", d |-> d, do |-> "loop", c |-> None, intr |-> i]>>
Nested(d)     == Mark(Running("cooked", d), "nested")

-----------------------------------------------------------------------------
(* Tasks: sched.c's wait queues, as the terminals use them.                *)

\* wake_up, and what rs_io.s does instead; the task stays on the queue.
Woken(ts, t) ==
  IF t \in Task /\ ts[t].st = "asleep" THEN [ts EXCEPT ![t].st = "ready"] ELSE ts

\* interruptible_sleep_on, up to schedule().  The task was the only one on the
\* stack: interrupt handlers do not sleep.
Sleep(d, k, fr) ==
  /\ tty' = [tty EXCEPT ![d][k].proc = fr.t]
  /\ task' = [task EXCEPT ![fr.t].st = "asleep",
                          ![fr.t].call = [fr EXCEPT !.at = "slept", !.tmp = tty[d][k].proc]]
  /\ stack' = << >>
  /\ UNCHANGED <<tx, cr_flag, input, seen>>

\* The part after schedule(): somebody who slept on the queue since goes first.
SleepEnd ==
  LET fr == Top
      k  == IF fr.f = "read" THEN "sec" ELSE "write"
      h  == tty[fr.d][k].proc
  IN /\ stack # << >> /\ fr.f \in {"read", "write"} /\ fr.at = "slept"
     /\ IF h \in Task /\ h # fr.t
        THEN /\ task' = [Woken(task, h) EXCEPT ![fr.t].st = "asleep", ![fr.t].call = fr]
             /\ stack' = << >>
             /\ UNCHANGED tty
        ELSE /\ tty' = [tty EXCEPT ![fr.d][k].proc = fr.tmp]
             /\ task' = Woken(task, fr.tmp)
             /\ stack' = Become([fr EXCEPT !.at = "again", !.tmp = NoTask])
     /\ UNCHANGED <<tx, cr_flag, input, seen>>

\* schedule(): a task that is ready, or asleep with a signal, goes on.
Switch(t) ==
  /\ stack = << >>
  /\ task[t].st = "ready" \/ (task[t].st = "asleep" /\ task[t].sig # {})
  /\ task' = [task EXCEPT ![t].st = "kernel", ![t].call = NoCall]
  /\ stack' = <<task[t].call>>
  /\ UNCHANGED <<tty, tx, cr_flag, input, seen>>

\* A signal stays pending while the task is in the kernel; in user mode
\* do_signal takes it at once.
Signalled(t, g) ==
  IF task[t].st = "user" THEN task[t] ELSE [task[t] EXCEPT !.sig = @ \cup {g}]

\* Mutant: the alarm of before the read is not restored.
ReturnArmed(t, alarm) ==
  /\ task' = [task EXCEPT ![t].st = "user", ![t].sig = {}]
  /\ stack' = << >>

\* The system call returns; do_signal takes the signals.
Return(t, alarm) ==
  /\ task' = [task EXCEPT ![t].st = "user", ![t].alarm = alarm, ![t].sig = {}]
  /\ stack' = << >>

\* A task calls read, write or ioctl.
Call(t) ==
  LET c  == Head(task[t].todo)
      tm == tty[c.d].termios
      timed == tm.time /\ tm.min = 0
      fr == IF c.op = "read"
            THEN [f |-> "read", t |-> t, d |-> c.d, nr |-> c.nr, got |-> 0, at |-> "loop",
                  flag |-> timed /\ ~task[t].alarm, old |-> task[t].alarm,
                  min |-> Min({c.nr, IF timed THEN 1 ELSE tm.min}), time |-> tm.time,
                  tmp |-> NoTask]
            ELSE [f |-> "write", t |-> t, d |-> c.d, left |-> c.chars, at |-> "loop",
                  tmp |-> NoTask]
  IN /\ stack = << >> /\ task[t].st = "user" /\ task[t].todo # << >>
     /\ c.op \in {"read", "write"}
     /\ task' = [task EXCEPT ![t].st = "kernel", ![t].todo = Tail(@),
                             ![t].alarm = @ \/ (c.op = "read" /\ timed)]
     /\ stack' = <<fr>>
     /\ UNCHANGED <<tty, tx, cr_flag, input, seen>>

\* tty_ioctl: TCSETS changes the mode, TCSETSF flushes the read queue as well,
\* TCFLSH flushes the queues it names.  Nothing of it sleeps.
tty_ioctl(t) ==
  LET c == Head(task[t].todo)
  IN /\ stack = << >> /\ task[t].st = "user" /\ task[t].todo # << >> /\ c.op = "ioctl"
     /\ tty' = [tty EXCEPT ![c.d].read = IF "read" \in c.flush THEN flush(@) ELSE @,
                           ![c.d].write = IF "write" \in c.flush THEN flush(@) ELSE @,
                           ![c.d].termios = c.termios]
     /\ task' = [task EXCEPT ![t].todo = Tail(@)]
     /\ UNCHANGED <<stack, tx, cr_flag, input, seen>>
-----------------------------------------------------------------------------
(* tty_io.c: the line discipline.                                          *)

\* tty_intr: a signal for the tasks of the terminal's process group.
tty_intr(d, g) ==
  [t \in Task |-> IF t \in tty[d].pgrp THEN Signalled(t, g) ELSE task[t]]

\* What is echoed for c, and the rubouts for a character c that goes.
Echo(c) == CASE c = "NL" -> <<"NL", "CR">> [] c \in Control -> <<"^", c>> [] OTHER -> <<c>>
Rub(c)  == IF c \in Control THEN <<"DEL", "DEL">> ELSE <<"DEL">>

\* Mutant: a line end is rubbed out like any other character.
ErasableAny(q) == ~EMPTY(q)

\* The last character of the secondary queue may be rubbed out.
Erasable(q) == ~EMPTY(q) /\ LAST(q) \notin Delim

\* The activation becomes fr after the terminal became T and, with ECHO, the
\* characters s were put on the write queue (nobody looks for room) and the
\* terminal's write was called.
Say(d, T, s, fr) ==
  LET e == T.termios.echo
      U == IF e THEN [T EXCEPT !.write = PutAll(s, @)] ELSE T
  IN /\ tty' = [tty EXCEPT ![d] = U]
     /\ stack' = Become(fr) \o (IF e THEN Entered(d, U.write) ELSE << >>)
     /\ tx' = IF e THEN Enabled(d, U.write) ELSE tx
     /\ seen' = seen \cup (IF e THEN Overlap(d) ELSE {})
                      \cup Mark(e /\ Len(s) > LEFT(T.write), "over")
     /\ UNCHANGED <<task, cr_flag, input>>

\* The front of the read queue after ICRNL.
Typed(T) == IF First(T.read) = "CR" /\ T.termios.cr = "nl" THEN "NL" ELSE First(T.read)

\* copy_to_cooked at the head of its loop takes a character.  With c = KILL it
\* goes into an inner loop; an erased or an ordinary character is dealt with
\* after the echo has been written.
Take ==
  LET d  == Top.d
      T  == [tty[d] EXCEPT !.read = GETCH(@)]
      tm == T.termios
      c  == Typed(tty[d])
      Go(do) == [Top EXCEPT !.do = do, !.c = c]
      Quiet(U) == tty' = [tty EXCEPT ![d] = U] /\ UNCHANGED <<tx, cr_flag, input, seen>>
  IN /\ ~EMPTY(tty[d].read) /\ ~FULL(T.sec)
     /\ \/ /\ c = "CR" /\ tm.cr = "ignore"
           /\ Quiet(T) /\ UNCHANGED <<task, stack>>
        \/ /\ c = "KILL" /\ tm.canon
           /\ Quiet(T) /\ stack' = Become(Go("kill")) /\ UNCHANGED task
        \/ /\ c = "ERASE" /\ tm.canon /\ ~Erasable(T.sec)
           /\ Quiet(T) /\ UNCHANGED <<task, stack>>
        \/ /\ c = "ERASE" /\ tm.canon /\ Erasable(T.sec)
           /\ Say(d, T, Rub(LAST(T.sec)), Go("erase"))
        \/ /\ c \in {"STOP", "START"} /\ tm.canon
           /\ Quiet([T EXCEPT !.stopped = (c = "STOP")]) /\ UNCHANGED <<task, stack>>
        \/ /\ c \in {"INTR", "QUIT"} /\ tm.isig
           /\ task' = tty_intr(d, c)
           /\ Quiet(T) /\ UNCHANGED stack
        \/ /\ ~(c = "CR" /\ tm.cr = "ignore")
           /\ ~(tm.canon /\ c \in {"KILL", "ERASE", "STOP", "START"})
           /\ ~(tm.isig /\ c \in {"INTR", "QUIT"})
           /\ Say(d, [T EXCEPT !.sec.data = @ + (IF c \in Delim THEN 1 ELSE 0)],
                  Echo(c), Go("put"))

\* copy_to_cooked, one turn of its loops.  At the end it wakes the readers.
copy_to_cooked ==
  LET d == Top.d
      Q(q) == tty' = [tty EXCEPT ![d].sec = q]
      Go(do) == stack' = Become([Top EXCEPT !.do = do])
  IN /\ stack # << >> /\ Top.f = "cooked"
     /\ \/ Top.do = "loop" /\ Take
        \/ /\ Top.do = "loop" /\ (EMPTY(tty[d].read) \/ FULL(tty[d].sec))
           /\ task' = Woken(task, tty[d].sec.proc)
           /\ stack' = Front(stack)
           /\ UNCHANGED <<tty, tx, cr_flag, input, seen>>
        \/ /\ Top.do = "put" /\ Q(PUTCH(Top.c, tty[d].sec)) /\ Go("loop")
           /\ UNCHANGED <<task, tx, cr_flag, input, seen>>
        \/ /\ Top.do = "erase" /\ Q(DEC(tty[d].sec)) /\ Go("loop")
           /\ UNCHANGED <<task, tx, cr_flag, input, seen>>
        \/ /\ Top.do = "kill" /\ Erasable(tty[d].sec)
           /\ Say(d, tty[d], Rub(LAST(tty[d].sec)), [Top EXCEPT !.do = "killed"])
        \/ /\ Top.do = "killed" /\ Q(DEC(tty[d].sec)) /\ Go("kill")
           /\ UNCHANGED <<task, tx, cr_flag, input, seen>>
        \/ /\ Top.do = "kill" /\ ~Erasable(tty[d].sec) /\ Go("loop")
           /\ UNCHANGED <<tty, task, tx, cr_flag, input, seen>>

-----------------------------------------------------------------------------
(* console.c: con_write and its queue.                                     *)

\* The answer to an identify request (ESC Z, here the character "ID").
RESPONSE == <<"a">>

\* One turn of con_write's loop, or its end.  nr was taken when it was entered.
con_write ==
  LET T == tty["con"]
      c == First(T.write)
      fr == [Top EXCEPT !.nr = @ - 1]
  IN /\ stack # << >> /\ Top.f = "con_write"
     /\ \/ /\ Top.nr = 0
           /\ stack' = Front(stack)
           /\ UNCHANGED <<tty, seen>>
        \/ /\ Top.nr > 0 /\ c # "ID"
           /\ tty' = [tty EXCEPT !.con.write = GETCH(@)]
           /\ stack' = Become(fr)
           /\ seen' = seen \cup Mark(EMPTY(T.write), "under")
        \/ /\ Top.nr > 0 /\ c = "ID"                                \* respond
           /\ tty' = [tty EXCEPT !.con.write = GETCH(@),
                                 !.con.read = PutAll(RESPONSE, @)]
           /\ stack' = Become(fr) \o Cooked("con", FALSE)
           /\ seen' = seen \cup Mark(EMPTY(T.write), "under") \cup Nested("con")
     /\ UNCHANGED <<task, tx, cr_flag, input>>
-----------------------------------------------------------------------------
(* Interrupts.                                                             *)

Handlers(d) == Cardinality({i \in DOMAIN stack :
                              stack[i].f = "cooked" /\ stack[i].d = d /\ stack[i].intr})

\* put_queue and read_char: a full read queue drops the character.
Arrive(d, c) ==
  /\ tty' = [tty EXCEPT ![d].read = IF FULL(@) THEN @ ELSE PUTCH(c, @)]
  /\ stack' = stack \o Cooked(d, TRUE)
  /\ seen' = seen \cup Nested(d)
  /\ UNCHANGED <<task, tx, cr_flag>>

keyboard_interrupt(c) ==
  /\ input.keys > 0 /\ Handlers("con") < NEST
  /\ input' = [input EXCEPT !.keys = @ - 1]
  /\ Arrive("con", c)

\* The serial line is acknowledged at the end of its handler.
read_char(c) ==
  /\ input.recv > 0 /\ Handlers("rs") = 0
  /\ input' = [input EXCEPT !.recv = @ - 1]
  /\ Arrive("rs", c)

\* write_char wakes the writer at STARTUP characters or fewer.
Startup(q) == CHARS(q) <= STARTUP

\* write_char sends a character; write_buffer_empty disables the interrupt.
write_char ==
  LET q == tty["rs"].write
      r == IF EMPTY(q) THEN q ELSE GETCH(q)
  IN /\ tx /\ Handlers("rs") = 0
     /\ tty' = [tty EXCEPT !.rs.write = r]
     /\ task' = IF Startup(q) \/ EMPTY(r) THEN Woken(task, q.proc) ELSE task
     /\ tx' = ~EMPTY(r)
     /\ UNCHANGED <<stack, cr_flag, input, seen>>

\* The timeout of a read runs out (sched.c: SIGALRM).
Alarm(t) ==
  /\ task[t].alarm
  /\ task' = [task EXCEPT ![t] = [Signalled(t, "ALRM") EXCEPT !.alarm = FALSE]]
  /\ seen' = seen \cup Mark(task[t].st = "user", "stray")
  /\ UNCHANGED <<tty, stack, tx, cr_flag, input>>

-----------------------------------------------------------------------------
(* tty_io.c: read and write.                                               *)

\* A read goes on waiting: nothing there, or no whole line yet.
MustWait(T) == EMPTY(T.sec) \/ (T.termios.canon /\ T.sec.data = 0 /\ LEFT(T.sec) > PART)

\* tty_read at the head of its loop.  sleep_if_empty does not sleep while a
\* part of a line is there: the task goes round and round.
ReadLoop ==
  LET t == Top.t
      T == tty[Top.d]
      sig == task[t].sig
  IN /\ stack # << >> /\ Top.f = "read" /\ Top.at \in {"loop", "again"}
     /\ \/ /\ Top.nr = 0 \/ sig # {}
           /\ Return(t, Top.old)
           /\ UNCHANGED <<tty, tx, cr_flag, input, seen>>
        \/ /\ Top.nr > 0 /\ sig = {} /\ EMPTY(T.sec)
           /\ Sleep(Top.d, "sec", Top)
        \/ /\ Top.nr > 0 /\ sig = {} /\ ~EMPTY(T.sec) /\ MustWait(T)
           /\ UNCHANGED vars
        \/ /\ Top.nr > 0 /\ sig = {} /\ ~MustWait(T)
           /\ stack' = Become([Top EXCEPT !.at = "take"])
           /\ UNCHANGED <<tty, task, tx, cr_flag, input, seen>>

\* One turn of the inner loop, which takes all there is, whole lines or not,
\* and with it what follows: the timeout is set again, or the read is done.
ReadTake ==
  LET t  == Top.t
      d  == Top.d
      T  == tty[d]
      c  == First(T.sec)
      tm == T.termios
      q  == [GETCH(T.sec) EXCEPT !.data = @ - (IF c \in Delim THEN 1 ELSE 0)]
      fr == [Top EXCEPT !.nr = @ - 1, !.got = @ + 1]
      gone == Mark(EMPTY(T.sec), "erased")
  IN /\ stack # << >> /\ Top.f = "read" /\ Top.at = "take"
     /\ tty' = [tty EXCEPT ![d].sec = q]
     /\ \/ /\ c = "EOF" /\ tm.canon                \* line 293 returns at once
           /\ Return(t, task[t].alarm)
           /\ seen' = seen \cup Mark(Top.flag, "eof") \cup gone
        \/ /\ ~(c = "EOF" /\ tm.canon)
           /\ fr.nr > 0 /\ ~EMPTY(q)
           /\ stack' = Become(fr)
           /\ seen' = seen \cup gone
           /\ UNCHANGED task
        \/ /\ ~(c = "EOF" /\ tm.canon)
           /\ fr.nr = 0 \/ EMPTY(q)
           /\ IF tm.canon \/ fr.got >= fr.min
              THEN Return(t, fr.old)
              ELSE /\ stack' = Become([fr EXCEPT !.at = "loop",
                                                 !.flag = IF fr.time THEN ~fr.old ELSE @])
                   /\ task' = [task EXCEPT ![t].alarm = @ \/ fr.time]
           /\ seen' = seen \cup gone
     /\ UNCHANGED <<tx, cr_flag, input>>

\* tty_write at the head of its loop: sleep_if_full, then the signals.
WriteLoop ==
  LET t == Top.t
      q == tty[Top.d].write
      sig == task[t].sig
      wait == sig = {} /\ (IF Top.at = "loop" THEN FULL(q) ELSE LEFT(q) < LOW)
  IN /\ stack # << >> /\ Top.f = "write" /\ Top.at \in {"loop", "again"}
     /\ \/ /\ Top.left = << >> \/ (~wait /\ sig # {})
           /\ Return(t, task[t].alarm)
           /\ UNCHANGED <<tty, tx, cr_flag, input, seen>>
        \/ /\ Top.left # << >> /\ wait
           /\ Sleep(Top.d, "write", Top)
        \/ /\ Top.left # << >> /\ ~wait /\ sig = {}
           /\ stack' = Become([Top EXCEPT !.at = "fill"])
           /\ UNCHANGED <<tty, task, tx, cr_flag, input, seen>>

\* tty_write has looked for room, and get_fs_byte faults: the page is read from
\* a file, and other tasks run.
WriteFault ==
  LET t == Top.t
  IN /\ stack # << >> /\ Top.f = "write" /\ Top.at = "fill"
     /\ Top.left # << >> /\ ~FULL(tty[Top.d].write) /\ input.faults > 0
     /\ task' = [task EXCEPT ![t].st = "ready", ![t].call = [Top EXCEPT !.at = "fetched"]]
     /\ stack' = << >>
     /\ input' = [input EXCEPT !.faults = @ - 1]
     /\ seen' = seen \cup {"faulted"}
     /\ UNCHANGED <<tty, tx, cr_flag>>

\* One turn of tty_write's inner loop, which looks for room before it fetches
\* the character and not afterwards; and the call of the terminal's write at
\* its end.
WriteFill ==
  LET d == Top.d
      T == tty[d]
      c == Head(Top.left)
      Fetched == Top.left # << >> /\ (Top.at = "fetched" \/ ~FULL(T.write))
      Put(x) == /\ tty' = [tty EXCEPT ![d].write = PUTCH(x, @)]
                /\ seen' = seen \cup Mark(FULL(T.write), "over")
  IN /\ stack # << >> /\ Top.f = "write" /\ Top.at \in {"fill", "fetched"}
     /\ \/ /\ Fetched /\ c = "NL" /\ ~cr_flag /\ T.termios.onlcr
           /\ Put("CR") /\ cr_flag' = TRUE
           /\ stack' = Become([Top EXCEPT !.at = "fill"])
           /\ UNCHANGED tx
        \/ /\ Fetched /\ ~(c = "NL" /\ ~cr_flag /\ T.termios.onlcr)
           /\ Put(c) /\ cr_flag' = FALSE
           /\ stack' = Become([Top EXCEPT !.at = "fill", !.left = Tail(@)])
           /\ UNCHANGED tx
        \/ /\ ~Fetched
           /\ stack' = Become([Top EXCEPT !.at = "written"]) \o Entered(d, T.write)
           /\ tx' = Enabled(d, T.write)
           /\ seen' = seen \cup Overlap(d)
           /\ UNCHANGED <<tty, cr_flag>>
     /\ UNCHANGED <<task, input>>

\* After the terminal's write: with characters left the task calls schedule.
WriteOn ==
  LET t == Top.t
  IN /\ stack # << >> /\ Top.f = "write" /\ Top.at = "written"
     /\ \/ /\ Top.left = << >>
           /\ Return(t, task[t].alarm)
        \/ /\ Top.left # << >>
           /\ task' = [task EXCEPT ![t].st = "ready", ![t].call = [Top EXCEPT !.at = "loop"]]
           /\ stack' = << >>
     /\ UNCHANGED <<tty, tx, cr_flag, input, seen>>

-----------------------------------------------------------------------------
\* tty_table at boot; a scenario gives the modes and what the tasks will do.
Ring == [head |-> 0, tail |-> 0, data |-> 0, proc |-> NoTask,
         buf |-> [i \in 0 .. TTY_BUF_SIZE - 1 |-> "nul"]]

Init ==
  \E s \in Scenarios :
    /\ tty = [d \in Devices |->
               [termios |-> s[d], pgrp |-> IF d = "con" THEN s.pgrp ELSE {},
                stopped |-> FALSE, read |-> Ring, write |-> Ring, sec |-> Ring]]
    /\ task = [t \in Task |-> [st |-> "user", sig |-> {}, alarm |-> FALSE,
                               call |-> NoCall, todo |-> s.prog[t]]]
    /\ stack = << >> /\ tx = FALSE /\ cr_flag = FALSE
    /\ input = [keys |-> s.keys, recv |-> s.recv, faults |-> s.faults] /\ seen = {}

Next ==
  \/ \E t \in Task : Call(t) \/ tty_ioctl(t) \/ Switch(t) \/ Alarm(t)
  \/ SleepEnd \/ ReadLoop \/ ReadTake \/ WriteLoop \/ WriteFault \/ WriteFill \/ WriteOn
  \/ copy_to_cooked \/ con_write
  \/ \E c \in Keys : keyboard_interrupt(c)
  \/ \E c \in Received : read_char(c)
  \/ write_char

Spec == Init /\ [][Next]_vars

-----------------------------------------------------------------------------
(* What the terminals promise.                                             *)

\* secondary.data counts the line ends in the secondary queue, which is what
\* a canonical read relies on to tell whether it may take anything; the two
\* are changed in different turns of interrupt and task.  Not promised once
\* copy_to_cooked has interrupted itself (the keyboard's gate lets it), or an
\* ERASE came between the test for a character and its taking.
LinesCounted ==
  seen \cap {"nested", "erased"} = {} =>
    \A d \in Devices :
      tty[d].sec.data =
        Cardinality(LineEnds(tty[d].sec)) +
        Cardinality({i \in DOMAIN stack : /\ stack[i].f = "cooked" /\ stack[i].d = d
                                          /\ stack[i].do = "put" /\ stack[i].c \in Delim})

\* What con_write is about to show is what is in the write queue: nothing is
\* shown twice and nothing is left.  It is not so once a con_write was entered
\* from inside another, or the echo, or a writer that had slept at its fetch,
\* put a character into a full queue.
OutputOnce ==
  seen \cap {"overlap", "over"} = {} =>
    \A i \in DOMAIN stack :
      stack[i].f = "con_write" => stack[i].nr = CHARS(tty["con"].write)

\* The activation of a task in a call.
Frame(t) == IF task[t].st = "kernel" THEN stack[1] ELSE task[t].call

\* A writer is putting characters into the queue of terminal d, or fetching one.
Filling(d) == /\ stack # << >> /\ stack[1].f = "write"
              /\ stack[1].d = d /\ stack[1].at = "fill"
Fetching(d) == \E t \in Task : /\ Frame(t).f = "write"
                               /\ Frame(t).d = d /\ Frame(t).at = "fetched"

\* Whoever sleeps will be woken.  A reader: nothing is there, or the line
\* discipline is still at work, or a task woken before it has it in tow.  A
\* writer to the serial line: the transmit interrupt is enabled; only after a
\* writer has slept at its fetch it may be that the next one to call rs_write
\* will enable it, or that an echo into the full queue has emptied it.  To the
\* console nobody waits (nobody would wake him), except after an "overlap" or
\* an "over" has spoilt the queue.
SleeperWoken ==
  \A t \in Task :
    task[t].st = "asleep" /\ task[t].sig = {} =>
      LET fr == task[t].call
          Tows(c) == c.f = fr.f /\ c.at = "slept" /\ c.d = fr.d
          awake == \/ \E u \in Task : Tows(task[u].call)
                                      /\ (task[u].st = "ready" \/ task[u].sig # {})
                   \/ stack # << >> /\ Tows(stack[1])
      IN CASE fr.f = "read" -> EMPTY(tty[fr.d].sec) \/ Running("cooked", fr.d) \/ awake
           [] fr.f = "write" /\ fr.d = "rs" ->
                \/ tx \/ awake
                \/ /\ "faulted" \in seen
                   /\ EMPTY(tty["rs"].write) \/ Filling("rs") \/ Fetching("rs")
           [] OTHER -> seen \cap {"overlap", "over"} # {}

\* A timeout that tty_read sets ends with the read, unless the read ended on an
\* EOF character (line 293 returns without restoring the alarm).
NoStrayAlarm == "stray" \in seen => "eof" \in seen

-----------------------------------------------------------------------------
(* The inductive invariant behind these properties.                        *)

\* The rings and the activations: tty_read, tty_write and the handlers.
Rings == [head : 0 .. TTY_BUF_SIZE - 1, tail : 0 .. TTY_BUF_SIZE - 1, data : Int,
          proc : Task \cup {NoTask}, buf : [0 .. TTY_BUF_SIZE - 1 -> Char]]
ReadFrames == [f : {"read"}, t : Task, d : Devices, nr : Int, got : Int,
               at : {"loop", "again", "slept", "take"}, flag : BOOLEAN, old : BOOLEAN,
               min : Int, time : BOOLEAN, tmp : Task \cup {NoTask}]
WriteFrames == [f : {"write"}, t : Task, d : Devices, left : Seq(Char),
                at : {"loop", "again", "slept", "fill", "fetched", "written"}, tmp : Task \cup {NoTask}]
Cookers == [f : {"cooked"}, d : Devices, intr : BOOLEAN, c : Char,
            do : {"loop", "put", "erase", "kill", "killed"}]
Showers == [f : {"con_write"}, d : {"con"}, nr : Nat]
CallFrames == ReadFrames \cup WriteFrames
Frames     == CallFrames \cup Cookers \cup Showers
Signals == {"INTR", "QUIT", "ALRM"}
Marks   == {"over", "under", "overlap", "nested", "erased", "eof", "stray", "faulted"}
Terminals == [termios : Termios, pgrp : SUBSET Task, stopped : BOOLEAN,
              read : Rings, write : Rings, sec : Rings]
Tasks == [st : {"user", "kernel", "ready", "asleep"}, sig : SUBSET Signals,
          alarm : BOOLEAN, call : CallFrames \cup {NoCall}, todo : Seq(Calls)]

TypeOK ==
  /\ tty \in [Devices -> Terminals] /\ task \in [Task -> Tasks] /\ stack \in Seq(Frames)
  /\ tx \in BOOLEAN /\ cr_flag \in BOOLEAN /\ input \in [keys : Nat, recv : Nat, faults : Nat]
  /\ seen \subseteq Marks

\* One task at most is in the kernel, at the bottom of the stack; a task that
\* waits has its activation put by.
Placed ==
  /\ \A i \in DOMAIN stack : stack[i].f \in {"read", "write"} =>
       i = 1 /\ task[stack[i].t].st = "kernel"
  /\ \A t \in Task :
       CASE task[t].st = "kernel" -> /\ stack # << >> /\ stack[1] \in CallFrames
                                     /\ stack[1].t = t /\ task[t].call = NoCall
         [] task[t].st = "user"   -> task[t].call = NoCall
         [] task[t].st = "asleep" -> /\ task[t].call \in CallFrames /\ task[t].call.t = t
                                     /\ task[t].call.at = "slept"
         [] OTHER                 -> /\ task[t].call \in CallFrames /\ task[t].call.t = t
                                     /\ task[t].call.at \in {"slept", "loop", "fetched"}

\* Until a timed read ended on an EOF only a read that armed it has an alarm.
AlarmsOwned ==
  "eof" \notin seen =>
    /\ "stray" \notin seen
    /\ \A t \in Task : task[t].alarm =>
         \/ task[t].st = "kernel" /\ stack[1].f = "read" /\ stack[1].flag
         \/ task[t].st \in {"ready", "asleep"} /\ task[t].call.f = "read" /\ task[t].call.flag
    /\ \A i \in DOMAIN stack : stack[i].f = "read" => ~stack[i].old
    /\ \A t \in Task : task[t].call.f = "read" => ~task[t].call.old

\* While the console's queue is not spoilt one con_write at most is at work and
\* the queue is not full without one, or a writer that will enter it.
ConsoleDrained ==
  seen \cap {"overlap", "over"} = {} =>
    /\ \A i, j \in DOMAIN stack :
         stack[i].f = "con_write" /\ stack[j].f = "con_write" => i = j
    /\ Running("con_write", "con") \/ ~FULL(tty["con"].write) \/ Filling("con")

\* The serial line is sending while there is something to send.
SerialSends ==
  \/ EMPTY(tty["rs"].write) \/ tx \/ Filling("rs")
  \/ "faulted" \in seen /\ Fetching("rs")

\* One copy_to_cooked at most is at work on a terminal, and what it found out
\* before the echo still holds when it goes on.
EditorAlone ==
  seen \cap {"nested", "erased"} = {} =>
    /\ \A i, j \in DOMAIN stack :
         stack[i].f = "cooked" /\ stack[j].f = "cooked" /\ stack[i].d = stack[j].d => i = j
    /\ \A i \in DOMAIN stack :
         stack[i].f = "cooked" =>
           /\ stack[i].do = "put" => ~FULL(tty[stack[i].d].sec)
           /\ stack[i].do \in {"erase", "killed"} => Erasable(tty[stack[i].d].sec)

\* Those asleep or on their way out of the sleep in f on terminal d.
Waiting(f, d) == {t \in Task : /\ Frame(t).f = f /\ Frame(t).d = d
                               /\ Frame(t).at = "slept"}
Sleepers(f, d) == {t \in Waiting(f, d) : task[t].st = "asleep" /\ task[t].sig = {}}
Proc(f, d) == IF f = "read" THEN tty[d].sec.proc ELSE tty[d].write.proc

\* The wait queue threads all that wait: every set of them is entered by the
\* queue's pointer or by the tmp of another one.
Threaded ==
  \A f \in {"read", "write"}, d \in Devices : \A S \in SUBSET Waiting(f, d) :
    S # {} => Proc(f, d) \in S \/ \E u \in Waiting(f, d) \ S : Frame(u).tmp \in S

\* Somebody who waits has been woken, or is about to go on.
Awake(f, d) == \E t \in Waiting(f, d) : task[t].st # "asleep" \/ task[t].sig # {}
Taking(d) == stack # << >> /\ stack[1].f = "read" /\ stack[1].d = d /\ stack[1].at = "take"

\* Why whoever sleeps will be woken.
ReaderWoken ==
  \A d \in Devices : Sleepers("read", d) # {} =>
    \/ Awake("read", d) \/ Running("cooked", d)
    \/ EMPTY(tty[d].sec) /\ ~Taking(d)
\* (A writer who has slept for room in the console's queue looks again.)
LooksAgain == /\ stack # << >> /\ stack[1].f = "write"
              /\ stack[1].d = "con" /\ stack[1].at = "again"
WriterWoken ==
  /\ "faulted" \notin seen => (Sleepers("write", "rs") # {} => tx \/ Awake("write", "rs"))
  /\ seen \cap {"overlap", "over"} = {} => Waiting("write", "con") = {} /\ ~LooksAgain

Inv == /\ TypeOK /\ Placed /\ AlarmsOwned /\ ConsoleDrained /\ SerialSends
       /\ EditorAlone /\ Threaded /\ ReaderWoken /\ WriterWoken
       /\ OutputOnce /\ LinesCounted

=============================================================================
