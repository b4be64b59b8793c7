------------------------------- MODULE Floppy -------------------------------
(***************************************************************************)
(* The floppy driver, kernel/blk_drv/floppy.c, with the motor timers of    *)
(* kernel/sched.c.                                                         *)
(*                                                                         *)
(* All the driver's globals are in the record fd.  Its functions call each *)
(* other (a request starts a timer or, if the motor is on, the transfer at *)
(* once; a byte the controller does not take sets reset and starts over),  *)
(* so they are operators from a value of fd to the set of the values it    *)
(* may have afterwards, the choices being the controller's.                *)
(*                                                                         *)
(* The controller is external: hw holds the commands it has accepted and   *)
(* not answered, pos the track each head stands on.  It takes no command   *)
(* during a transfer, may take one during a seek, answers within one tick  *)
(* (age counts it; a tick stands for many jiffies) and reports an error for*)
(* a transfer on a track other than the one the head is on.                *)
(***************************************************************************)
EXTENDS Request, Timer

CONSTANTS
  Drive,           \* floppy drives, a subset of 0 .. 3
  FdType,          \* floppy_type[]: functions with size, sect, head, stretch
  FD_MAX_ERRORS,   \* errors after which a request is given up
  MON,             \* HZ/2, ticks a motor needs
  MOFF,            \* 3*HZ, ticks until an unused motor is turned off
  BIG              \* 10000, "very big"

ASSUME FdAssumption ==
  /\ Drive \subseteq 0 .. 3 /\ 0 \in Drive
  /\ \A b \in Buf : b.major = FD =>
       /\ b.minor % 4 \in Drive
       /\ b.minor \div 4 \in DOMAIN FdType /\ FdType[b.minor \div 4].size \in Nat
  /\ FD_MAX_ERRORS \in Nat /\ MON \in Nat /\ MOFF \in Nat /\ BIG \in Nat
  /\ 2 <= MON /\ MON < MOFF /\ MOFF < BIG

VARIABLE fd

\* reset, recal, seek: the flags; drive: current_drive; track: current_track
\* (255: unknown); seek_track; lin: the sector that track, head and sector
\* stand for; cmd: command; handler: do_floppy; selected; dsel: current_DOR & 3;
\* motor: the motor bits of current_DOR; mon, moff: mon_timer and moff_timer;
\* wp: bit 1 of ST1 in reply_buffer; timers: the timer list;
\* faults: bound, failures of the controller still to come.  wild and overlap are
\* history variables: CURRENT was used although it is NULL, and a request came
\* to an empty queue while the controller still had a command to answer.
FdInit(faults) ==
  fd = [reset |-> FALSE, recal |-> FALSE, seek |-> FALSE, drive |-> 0, track |-> 255,
        seek_track |-> 0, lin |-> 0, cmd |-> READ, handler |-> "none",
        selected |-> FALSE, dsel |-> 0, motor |-> {},
        mon |-> [d \in Drive |-> 0], moff |-> [d \in Drive |-> 0],
        wp |-> FALSE, timers |-> <<>>, hw |-> <<>>,
        age |-> 0,
        pos |-> [d \in Drive |-> 0], faults |-> faults, wild |-> FALSE,
        overlap |-> FALSE]

Handlers == {"none", "rw_interrupt", "seek_interrupt", "recal_interrupt", "reset_interrupt"}

FdTypeOK ==
  /\ fd.drive \in Drive /\ fd.dsel \in Drive /\ fd.motor \subseteq Drive
  /\ fd.mon \in [Drive -> 0 .. MON] /\ fd.moff \in [Drive -> 0 .. BIG]
  /\ fd.handler \in Handlers
  /\ \A i \in DOMAIN fd.timers :
       fd.timers[i].jiffies > 0 /\ fd.timers[i].fn \in {"floppy_on_interrupt", "transfer"}
  /\ fd.faults \in Nat

TypeOf(rq) == FdType[rq.bh.minor \div 4]
FdDrive(rq) == rq.bh.minor % 4

-----------------------------------------------------------------------------
(* The motors: kernel/sched.c.                                             *)

\* The value of mon[nr] afterwards is what the function returns.
ticks_to_floppy_on(f, nr) ==
  LET dsel == IF f.selected THEN f.dsel ELSE nr
  IN [f EXCEPT !.moff[nr] = BIG,
               !.motor = @ \cup {nr},
               !.dsel = dsel,
               !.mon[nr] = IF nr \notin f.motor THEN MON
                           ELSE IF dsel # f.dsel /\ @ < 2 THEN 2 ELSE @]

floppy_off(f, nr) == [f EXCEPT !.moff[nr] = MOFF]

\* A motor that is not up to speed counts mon, one that is counts moff and is
\* turned off at the end.
do_floppy_timer(f) ==
  [f EXCEPT
     !.mon = [d \in Drive |-> IF d \in f.motor /\ @[d] > 0 THEN @[d] - 1 ELSE @[d]],
     !.moff = [d \in Drive |->
        IF d \in f.motor /\ f.mon[d] = 0 /\ @[d] > 0 THEN @[d] - 1 ELSE @[d]],
     !.motor = {d \in @ : f.mon[d] > 0 \/ f.moff[d] > 0}]

\* floppy_deselect, and its wake_up(&wait_on_floppy_select).
floppy_deselect(f) == [f EXCEPT !.selected = FALSE]
WakeSelect(pr) ==
  [p \in Proc |-> IF pr[p].pc = "select" THEN [pr[p] EXCEPT !.pc = "sel"] ELSE pr[p]]

-----------------------------------------------------------------------------
(* Commands.                                                               *)

Transferring(f) == \E i \in DOMAIN f.hw : f.hw[i].c = "rw"

\* output_byte for the bytes of a command: they are taken, or reset is set.
output_byte(f) ==
  LET stuck == [f EXCEPT !.reset = TRUE]
      busy == Transferring(f) \/ Len(f.hw) >= 2
  IN IF f.reset THEN {f}
     ELSE (IF busy THEN {stuck} ELSE {f})
          \cup (IF f.faults > 0 THEN {[stuck EXCEPT !.faults = @ - 1]} ELSE {})

issue(f, cmd) ==
  {IF g.reset THEN g ELSE [g EXCEPT !.hw = Append(@, cmd)] : g \in output_byte(f)}

\* The reset line stops whatever the controller does.
reset_floppy(f) ==
  [f EXCEPT !.reset = FALSE, !.recal = TRUE, !.seek = FALSE,
            !.handler = "reset_interrupt", !.hw = <<[c |-> "reset"]>>]

\* if (reset) do_fd_request(): the flag is tested first there.
OrReset(S) == {IF f.reset THEN reset_floppy(f) ELSE f : f \in S}

recalibrate_floppy(f) ==
  OrReset(issue([f EXCEPT !.recal = FALSE, !.track = 0, !.handler = "recal_interrupt"],
                [c |-> "seek", drive |-> f.drive, track |-> 0]))

\* setup_DMA reads CURRENT->buffer; bh is its buffer, <<>> when CURRENT is NULL.
setup_rw_floppy(f, bh) ==
  OrReset(issue([f EXCEPT !.handler = "rw_interrupt", !.wild = @ \/ bh = <<>>],
                [c |-> "rw", drive |-> f.drive, track |-> f.seek_track, lin |-> f.lin,
                 spinning |-> f.drive \in f.motor /\ f.mon[f.drive] <= 2,
                 chosen |-> f.dsel = f.drive, bh |-> bh]))

transfer(f, bh) ==
  UNION {IF g.reset THEN {reset_floppy(g)}
         ELSE IF ~g.seek THEN setup_rw_floppy(g, bh)
         ELSE OrReset(issue([g EXCEPT !.handler = "seek_interrupt"],
                            [c |-> "seek", drive |-> g.drive, track |-> g.seek_track]))
         : g \in output_byte(f)}

\* Mutant: the drive is not selected.
floppy_on_interrupt_noselect(f, bh) == transfer([f EXCEPT !.selected = TRUE], bh)

floppy_on_interrupt(f, bh) ==
  IF f.drive # f.dsel
  THEN {[f EXCEPT !.selected = TRUE, !.dsel = f.drive,
                  !.timers = Insert(@, 2, "transfer")]}
  ELSE transfer([f EXCEPT !.selected = TRUE], bh)

-----------------------------------------------------------------------------
(* do_fd_request.                                                          *)

TooBig(q, req) == {r \in Range(q) : req[r].sector + 2 > TypeOf(req[r]).size}

\* current_drive and seek after the requests of q up to the n-th were looked
\* at; those before the n-th end, and their motors may go off.
LookAt(f, q, req, n) ==
  [f EXCEPT !.seek = \E i \in 1 .. n :
                FdDrive(req[q[i]]) # (IF i = 1 THEN f.drive ELSE FdDrive(req[q[i - 1]])),
            !.drive = IF n = 0 THEN @ ELSE FdDrive(req[q[n]])]

NeedsSeek(g, to) == g.seek \/ g.track # to

\* The request rq is started: the timer calls floppy_on_interrupt when the
\* motor is up to speed, at once when it is already.
start(f, rq) ==
  LET t == TypeOf(rq)
      to == ((rq.sector \div t.sect) \div t.head) * 2 ^ t.stretch
      g == ticks_to_floppy_on([f EXCEPT !.seek_track = to, !.lin = rq.sector,
                                        !.seek = NeedsSeek(f, to), !.cmd = rq.cmd],
                              f.drive)
  IN IF g.mon[f.drive] = 0
     THEN floppy_on_interrupt(g, rq.bh)
     ELSE {[g EXCEPT !.timers = Insert(@, g.mon[f.drive], "floppy_on_interrupt")]}

\* How many requests do_fd_request ends for being outside the diskette.
FdRefused(f, q, req) ==
  IF f.reset \/ f.recal THEN 0 ELSE Refused(q, TooBig(q, req))

do_fd_request(f, q, req) ==
  LET n == Refused(q, TooBig(q, req))
      seen == LookAt(f, q, req, IF n = Len(q) THEN n ELSE n + 1)
      offs == {FdDrive(req[q[i]]) : i \in 1 .. n}
      g == [seen EXCEPT !.moff = [d \in Drive |-> IF d \in offs THEN MOFF ELSE @[d]]]
  IN IF f.reset THEN {reset_floppy(f)}
     ELSE IF f.recal THEN recalibrate_floppy([f EXCEPT !.seek = FALSE])
     ELSE IF n = Len(q) THEN {g}
     ELSE start(g, req[q[n + 1]])

-----------------------------------------------------------------------------
(* Interrupts.                                                             *)

\* The end of a handler: n requests of q end, the first with b_uptodate = up,
\* then do_fd_request with the driver's globals f.
FdNext(f, q, req, lk, pr, n, up) ==
  LET rest == SubSeq(q, n + 1, Len(q))
      drv == IF n = 0 THEN f ELSE floppy_off(f, FdDrive(req[q[1]]))
  IN /\ end_request(FD, q, req, lk, pr, n + FdRefused(drv, rest, req), up)
     /\ fd' \in do_fd_request(drv, rest, req)

bad_flags(f, errors) ==
  IF errors > FD_MAX_ERRORS \div 2 THEN [f EXCEPT !.reset = TRUE] ELSE [f EXCEPT !.recal = TRUE]

\* bad_flp_intr and do_fd_request.  After end_request the second test reads
\* the next request or, if there is none, pg_dir[2]: reset.  Called with no
\* request at all it changes pg_dir[2].
bad_flp_intr(f) ==
  LET q == queue[FD]
      req == [request EXCEPT ![Head(q)].errors = @ + 1]
      n == IF req[Head(q)].errors > FD_MAX_ERRORS THEN 1 ELSE 0
      g == IF n = 1 THEN floppy_deselect(f) ELSE f
      errors == IF Len(q) = n THEN FD_MAX_ERRORS ELSE req[q[n + 1]].errors
      pr == IF n = 1 THEN WakeSelect(proc) ELSE proc
  IN IF q = <<>>
     THEN /\ fd' = [f EXCEPT !.wild = TRUE]
          /\ UNCHANGED <<lock, uptodate, request, queue, proc>>
     ELSE FdNext(bad_flags(g, errors), q, req, lock, pr, n, FALSE)

\* The sectors of the transfer c, and the halves of the buffer.
Sectors(c) == [h \in Half |-> <<FD, c.drive, c.lin + h>>]

\* rw_interrupt.  Outcomes of the transfer c: done; an error; write protected;
\* or no answer in time, when ST1 is what an earlier command left there.
rw_interrupt(f, c) ==
  LET q == queue[FD]
      rq == request[Head(q)]
      good == c.c = "rw" /\ f.pos[c.drive] = c.track /\ c.spinning /\ c.chosen
      fail == f.faults > 0
      bad == [f EXCEPT !.faults = @ - 1]
      pr == WakeSelect(proc)
  IN \/ /\ good
        /\ IF rq.cmd = READ
           THEN data' = [data EXCEPT ![rq.bh] = [h \in Half |-> disk[Sectors(c)[h]]]]
                /\ UNCHANGED disk
           ELSE disk' = [l \in Loc |-> IF \E h \in Half : Sectors(c)[h] = l
                                       THEN data[rq.bh][CHOOSE h \in Half : Sectors(c)[h] = l]
                                       ELSE disk[l]]
                /\ UNCHANGED data
        /\ FdNext(floppy_deselect([f EXCEPT !.wp = FALSE]), q, request, lock, pr, 1, TRUE)
     \/ /\ good => fail
        /\ bad_flp_intr([(IF good THEN bad ELSE f) EXCEPT !.wp = FALSE])
        /\ UNCHANGED <<data, disk>>
     \/ /\ fail /\ rq.cmd = WRITE
        /\ FdNext(floppy_deselect([bad EXCEPT !.wp = TRUE]), q, request, lock, pr, 1, FALSE)
        /\ UNCHANGED <<data, disk>>
     \/ /\ fail
        /\ LET late == [bad EXCEPT !.reset = TRUE]
           IN IF f.wp THEN FdNext(floppy_deselect(late), q, request, lock, pr, 1, FALSE)
              ELSE bad_flp_intr(late)
        /\ UNCHANGED <<data, disk>>

\* seek_interrupt: the head is where it was sent, or it is an error.
seek_interrupt(f, c) ==
  LET q == queue[FD]
      bh == IF q = <<>> THEN <<>> ELSE request[Head(q)].bh
      at == f.pos[c.drive]
      there == c.c = "seek" /\ at = f.seek_track
  IN /\ UNCHANGED <<data, disk>>
     /\ \/ /\ there
           /\ fd' \in setup_rw_floppy([f EXCEPT !.track = at, !.wp = (at \div 2) % 2 = 1], bh)
           /\ UNCHANGED <<lock, uptodate, request, queue, proc>>
        \/ /\ ~there \/ f.faults > 0
           /\ bad_flp_intr([f EXCEPT !.faults = IF there THEN @ - 1 ELSE @])

\* recal_interrupt and reset_interrupt.
recal_interrupt(f) ==
  \E g \in {[f EXCEPT !.recal = FALSE]} \cup
           (IF f.faults > 0 THEN {[f EXCEPT !.reset = TRUE, !.faults = @ - 1]} ELSE {}) :
     FdNext(g, queue[FD], request, lock, proc, 0, FALSE) /\ UNCHANGED <<data, disk>>

reset_interrupt(f) ==
  \E g \in output_byte(f) :
     FdNext(g, queue[FD], request, lock, proc, 0, FALSE) /\ UNCHANGED <<data, disk>>

\* unexpected_floppy_interrupt only leaves a flag for the next request.
unexpected_floppy_interrupt(f) ==
  /\ fd' \in {[f EXCEPT !.recal = TRUE]} \cup
             (IF f.faults > 0 THEN {[f EXCEPT !.reset = TRUE, !.faults = @ - 1]} ELSE {})
  /\ UNCHANGED <<lock, uptodate, data, request, queue, proc, disk>>

\* floppy_interrupt: the controller has carried out its oldest command.
FdIntr ==
  /\ fd.hw # <<>> /\ ~fd.wild
  /\ LET c == Head(fd.hw)
         f == [fd EXCEPT !.hw = Tail(@), !.handler = "none",
                         !.age = 0,
                         !.pos = IF c.c = "seek" THEN [@ EXCEPT ![c.drive] = c.track] ELSE @]
     IN CASE fd.handler = "rw_interrupt" -> rw_interrupt(f, c)
          [] fd.handler = "seek_interrupt" -> seek_interrupt(f, c)
          [] fd.handler = "recal_interrupt" -> recal_interrupt(f)
          [] fd.handler = "reset_interrupt" -> reset_interrupt(f)
          [] fd.handler = "none" -> unexpected_floppy_interrupt(f)
  /\ UNCHANGED dirt
=============================================================================
