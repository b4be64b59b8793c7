------------------------------ MODULE BlockDev ------------------------------
(***************************************************************************)
(* The block devices together: kernel/blk_drv/ll_rw_blk.c on top of the    *)
(* hard disk, floppy and RAM disk drivers, which share the request slots   *)
(* and wait_for_request.                                                   *)
(*                                                                         *)
(* A process runs from its call to the end of make_request, or to its      *)
(* sleep, in one step, except that interrupts come between the scan of the *)
(* slots (or the look at the motor or at the selected drive) and the sleep:*)
(* "gap", "motorgap", "selgap".                                            *)
(***************************************************************************)
EXTENDS HardDisk, Floppy

CONSTANTS
  RdSize,  \* rd_length, in sectors
  Loads    \* bounds: the buffers used together, those written to, the commands of
           \* either controller that fail, floppy requests and calls of floppy_change

ASSUME BlockDevAssumption ==
  RdSize \in Nat /\
  Loads \subseteq [bufs : SUBSET Buf, mod : SUBSET Buf, hd : Nat, fd : Nat, rw : Nat, change : Nat]

VARIABLE load  \* the bounds of this behaviour, and what is left of rw and change

vars == <<reqvars, hdvars, fd, load>>

TypeOK == RequestTypeOK /\ HdTypeOK /\ FdTypeOK /\ load.bufs \in SUBSET Buf

Init ==
  \E l \in Loads :
    RequestInit /\ HdInit(l.hd) /\ FdInit(l.fd) /\ load = l

\* do_hd_request polls for DRQ: nothing else runs.
Settled == ctl.cmd # "nodrq" /\ ~fd.wild

-----------------------------------------------------------------------------
(* The RAM disk: do_rd_request ends every request before it returns.       *)

RdRefused(rq) == rq.bh.minor # 1 \/ rq.sector + rq.nr > RdSize

do_rd_request(r, req, lk, pr) ==
  LET rq == req[r]
      at == [h \in Half |-> <<RD, 0, rq.sector + h>>]
      ok == ~RdRefused(rq)
  IN /\ end_request(RD, <<r>>, req, lk, pr, 1, ok)
     /\ data' = IF ok /\ rq.cmd = READ
                THEN [data EXCEPT ![rq.bh] = [h \in Half |-> disk[at[h]]]] ELSE data
     /\ disk' = [l \in Loc |-> IF ok /\ rq.cmd = WRITE /\ \E h \in Half : at[h] = l
                               THEN data[rq.bh][CHOOSE h \in Half : at[h] = l] ELSE disk[l]]

-----------------------------------------------------------------------------
(* ll_rw_block.                                                            *)

\* "The last third of the requests are only for reads."
SlotsFor(cmd) == IF cmd = READ THEN Slot ELSE 1 .. (NR_REQUEST * 2) \div 3

\* request_fn of the hard disk and the floppy for the only request of a device.
start_hd(r, req, lk, pr) ==
  /\ UNCHANGED <<hdfaults, data, disk, fd>>
  /\ do_hd_request(<<r>>, req, lk, pr, 0, FALSE, reset, do_hd)
start_fd(r, req, lk, pr) ==
  /\ FdNext([fd EXCEPT !.overlap = @ \/ fd.hw # <<>>], <<r>>, req, lk, pr, 0, FALSE)
  /\ UNCHANGED <<data, disk, hdvars>>

\* add_request for slot r: the driver is called if the device was idle.
add_request(r, req, lk, pr) ==
  LET b == req[r].bh
      q == queue[b.major]
  IN /\ dirt' = [dirt EXCEPT ![b] = FALSE]
     /\ CASE q # <<>> ->
               /\ queue' = [queue EXCEPT ![b.major] = Enqueue(q, r, req)]
               /\ request' = req /\ lock' = lk /\ proc' = pr
               /\ UNCHANGED <<uptodate, data, disk, hdvars, fd>>
          [] q = <<>> /\ b.major = HD -> start_hd(r, req, lk, pr)
          [] q = <<>> /\ b.major = FD -> start_fd(r, req, lk, pr)
          [] q = <<>> /\ b.major = RD ->
               do_rd_request(r, req, lk, pr) /\ UNCHANGED <<hdvars, fd>>

\* From the label repeat in make_request: p holds the lock of b.
find_slot(p, cmd, ahead, b) ==
  LET free == {r \in SlotsFor(cmd) : request[r] = Free}
      lk == [lock EXCEPT ![b] = TRUE]
      idle == [proc EXCEPT ![p] = IdleProc]
  IN IF free # {}
     THEN LET r == Max(free)
          IN add_request(r, [request EXCEPT ![r] = NewRequest(b, cmd)], lk, idle)
     ELSE /\ lock' = [lock EXCEPT ![b] = ~ahead]
          /\ proc' = IF ahead THEN idle
                     ELSE [proc EXCEPT ![p] = [IdleProc EXCEPT !.pc = "gap", !.cmd = cmd, !.bh = b]]
          /\ UNCHANGED <<uptodate, dirt, data, request, queue, disk, hdvars, fd>>

Needed(cmd, b) == IF cmd = WRITE THEN dirt[b] ELSE ~uptodate[b]

\* make_request after lock_buffer.
make_request(p, cmd, ahead, b) ==
  IF Needed(cmd, b) THEN find_slot(p, cmd, ahead, b)
  ELSE /\ proc' = [proc EXCEPT ![p] = IdleProc]
       /\ UNCHANGED <<lock, uptodate, dirt, data, request, queue, disk, hdvars, fd>>

\* ll_rw_block(rw, b); READA and WRITEA of a locked buffer do nothing.
ll_rw_block(p, rw, b) ==
  LET cmd == rw % 2
  IN /\ proc[p].pc = "idle" /\ Quiet /\ Settled
     /\ IF lock[b]
        THEN /\ rw \in {READ, WRITE}
             /\ proc' = [proc EXCEPT ![p] = [IdleProc EXCEPT !.pc = "lock", !.cmd = cmd, !.bh = b]]
             /\ UNCHANGED <<lock, uptodate, dirt, data, request, queue, disk, hdvars, fd>>
        ELSE make_request(p, cmd, rw \in {READA, WRITEA}, b)
     /\ b.major = FD => load.rw > 0
     /\ load' = IF b.major = FD THEN [load EXCEPT !.rw = @ - 1] ELSE load

\* lock_buffer is woken and finds the lock free.
LockBuffer(p) ==
  /\ proc[p].pc = "lock" /\ ~lock[proc[p].bh] /\ Quiet /\ Settled
  /\ make_request(p, proc[p].cmd, FALSE, proc[p].bh)
  /\ UNCHANGED load

\* sleep_on(&wait_for_request), after the scan.
SleepOnRequest(p) ==
  /\ proc[p].pc = "gap" /\ Settled
  /\ proc' = [proc EXCEPT ![p].pc = "asleep"]
  /\ UNCHANGED <<lock, uptodate, dirt, data, request, queue, disk, hdvars, fd, load>>

\* sleep_on returned: goto repeat.
Rescan(p) ==
  /\ proc[p].pc = "scan" /\ Quiet /\ Settled
  /\ find_slot(p, proc[p].cmd, FALSE, proc[p].bh)
  /\ UNCHANGED load

\* A process fills the buffer with new contents (bound: once).
Modify(b) ==
  /\ b \in load.mod /\ uptodate[b] /\ data[b][0][2] = 0 /\ Quiet /\ Settled
  /\ dirt' = [dirt EXCEPT ![b] = TRUE]
  /\ data' = [data EXCEPT ![b] = [h \in Half |-> <<@[h][1], 1>>]]
  /\ UNCHANGED <<lock, uptodate, request, queue, proc, disk, hdvars, fd, load>>

\* getblk takes the buffer for another block, and later for this one again.
Reuse(b) ==
  /\ b \in load.bufs /\ uptodate[b] /\ ~dirt[b] /\ ~lock[b] /\ Quiet /\ Settled
  /\ uptodate' = [uptodate EXCEPT ![b] = FALSE]
  /\ data' = [data EXCEPT ![b] = [h \in Half |-> NoData]]
  /\ UNCHANGED <<lock, dirt, request, queue, proc, disk, hdvars, fd, load>>

-----------------------------------------------------------------------------
(* floppy_change and do_timer.                                             *)

Rest == <<lock, uptodate, dirt, data, request, queue, disk, hdvars, load>>

Goto(p, pc) == proc' = [proc EXCEPT ![p].pc = pc]

\* check_disk_change on open or mount of a floppy that is used.
floppy_change(p, nr) ==
  /\ proc[p].pc = "idle" /\ Quiet /\ Settled
  /\ load.change > 0 /\ load' = [load EXCEPT !.change = @ - 1]
  /\ nr \in {b.minor % 4 : b \in {x \in load.bufs : x.major = FD}}
  /\ proc' = [proc EXCEPT ![p] = [IdleProc EXCEPT !.pc = "on", !.nr = nr]]
  /\ UNCHANGED <<lock, uptodate, dirt, data, request, queue, disk, hdvars, fd>>

\* The loop of floppy_on.  ticks_to_floppy_on ends with sti(): the timer may
\* come before sleep_on.
FloppyOn(p) ==
  /\ proc[p].pc = "on" /\ Quiet /\ Settled
  /\ fd' = ticks_to_floppy_on(fd, proc[p].nr)
  /\ Goto(p, IF fd'.mon[proc[p].nr] > 0 THEN "motorgap" ELSE "sel")
  /\ UNCHANGED Rest

SleepOnMotor(p) ==
  /\ proc[p].pc = "motorgap" /\ Settled
  /\ Goto(p, "motor")
  /\ UNCHANGED <<Rest, fd>>

\* while (not selected ours, somebody uses another) sleep; if another: repeat.
FloppySelect(p) ==
  LET nr == proc[p].nr
  IN /\ proc[p].pc = "sel" /\ Quiet /\ Settled
     /\ CASE fd.dsel # nr /\ fd.selected -> Goto(p, "selgap") /\ UNCHANGED fd
          [] fd.dsel # nr /\ ~fd.selected -> Goto(p, "on") /\ UNCHANGED fd
          [] fd.dsel = nr ->
               proc' = [proc EXCEPT ![p] = IdleProc] /\ fd' = floppy_off(fd, nr)
     /\ UNCHANGED Rest

SleepOnSelect(p) ==
  /\ proc[p].pc = "selgap" /\ Settled
  /\ Goto(p, "select")
  /\ UNCHANGED <<Rest, fd>>

\* wake_up(i+wait_motor) for the motors that are now up to speed.
WakeMotor(pr, up) ==
  [p \in Proc |->
     CASE pr[p].pc = "motor" /\ pr[p].nr \in up -> [pr[p] EXCEPT !.pc = "on", !.raced = FALSE]
       [] pr[p].pc = "motorgap" /\ pr[p].nr \in up -> [pr[p] EXCEPT !.raced = TRUE]
       [] OTHER -> pr[p]]

\* do_timer: the timer list, then the motors.
do_timer ==
  /\ Settled /\ (fd.timers # <<>> \/ fd.motor # {})
  /\ fd.hw = <<>> \/ fd.age = 0
  /\ LET list == CountDown(fd.timers)
         bh == IF queue[FD] = <<>> THEN <<>> ELSE request[Head(queue[FD])].bh
         f == [fd EXCEPT !.timers = IF Expired(list) THEN Tail(list) ELSE list,
                         !.age = IF fd.hw = <<>> THEN 0 ELSE 1]
     IN fd' \in {do_floppy_timer(g) : g \in
                   IF ~Expired(list) THEN {f}
                   ELSE IF list[1].fn = "transfer" THEN transfer(f, bh)
                   ELSE floppy_on_interrupt(f, bh)}
  /\ proc' = WakeMotor(proc, {d \in Drive : fd.mon[d] = 1 /\ fd'.mon[d] = 0})
  /\ UNCHANGED Rest

-----------------------------------------------------------------------------
HdInterrupt ==
  /\ ~fd.wild
  /\ HdNoDrq \/ HdIntr \/ HdIntrBad
  /\ UNCHANGED <<fd, load>>

FdInterrupt == Settled /\ FdIntr /\ UNCHANGED <<hdvars, load>>

Continue(p) ==
  LockBuffer(p) \/ SleepOnRequest(p) \/ Rescan(p)
    \/ FloppyOn(p) \/ SleepOnMotor(p) \/ FloppySelect(p) \/ SleepOnSelect(p)

Next ==
  \/ \E p \in Proc, rw \in {READ, WRITE, READA, WRITEA}, b \in load.bufs : ll_rw_block(p, rw, b)
  \/ \E b \in Buf : Modify(b) \/ Reuse(b)
  \/ \E p \in Proc, nr \in Drive : floppy_change(p, nr)
  \/ \E p \in Proc : Continue(p)
  \/ HdInterrupt \/ FdInterrupt \/ do_timer

Spec == Init /\ [][Next]_vars

-----------------------------------------------------------------------------
(* Properties.                                                             *)

Waits(p) == proc[p].pc \in {"gap", "asleep", "scan"}

\* Every slot in use is in the queue of its device, once; its buffer is
\* locked; and a locked buffer is in exactly one slot or with one process that
\* waits for a slot: no lock is lost on the ways out of make_request, the
\* retries and the error paths ("request list destroyed", "block not locked").
LocksServed ==
  /\ \A m \in Major, i, j \in Slot :
       i \in DOMAIN queue[m] /\ j \in DOMAIN queue[m] /\ queue[m][i] = queue[m][j] => i = j
  /\ \A r \in Slot :
       IF request[r] = Free THEN \A m \in Major : r \notin Range(queue[m])
       ELSE \A m \in Major : r \in Range(queue[m]) <=> m = request[r].bh.major
  /\ \A b \in Buf :
       LET holders == {r \in Slot : request[r].bh = b}
                        \cup {<<p>> : p \in {x \in Proc : Waits(x) /\ proc[x].bh = b}}
       IN Cardinality(holders) = IF lock[b] THEN 1 ELSE 0

HomeOf(b, h) ==
  CASE b.major = HD -> Place(b, h, b.minor \div 5, HdStart(b.minor))
    [] b.major = FD -> Place(b, h, b.minor % 4, 0)
    [] OTHER -> Place(b, h, 0, 0)

\* A buffer that is up to date holds the two sectors of its block, and if it
\* is neither dirty nor in a transfer they are on the device as they are in
\* memory: retries in the middle of a block, resets, seeks and switched
\* drives never transfer another sector or half.
TransferRight ==
  \A b \in Buf, h \in Half : uptodate[b] =>
    /\ data[b][h][1] = HomeOf(b, h)
    /\ ~dirt[b] /\ ~lock[b] => disk[HomeOf(b, h)] = data[b][h]

\* A process sleeps on wait_for_request only while a request is under way
\* whose end will wake it, and on wait_motor only while the motor is getting
\* up to speed, unless that happened between its test and its sleep.
SleeperWoken ==
  \A p \in Proc : ~proc[p].raced =>
    /\ proc[p].pc = "asleep" => \E r \in SlotsFor(proc[p].cmd) : request[r] # Free
    /\ proc[p].pc = "motor" => fd.mon[proc[p].nr] > 0

\* The drivers' handlers run only when there is a request, and it is the one
\* the handler is for: do_hd and CURRENT never part, although each handler may
\* end the request, skip others and start the next.  For the floppy there is
\* an exception: if a request comes while the reset or recalibration that
\* follows the end of the last one is under way, do_fd_request runs twice for
\* it, and the second timer finds CURRENT = NULL.
HandlerHasRequest ==
  /\ Answered =>
       /\ queue[HD] # <<>>
       /\ do_hd = "read_intr" => request[Head(queue[HD])].cmd = READ
       /\ do_hd = "write_intr" => request[Head(queue[HD])].cmd = WRITE
       /\ do_hd # "none"
  /\ fd.wild => fd.overlap

\* The commands of the floppy controller are for a drive that is selected and
\* whose motor is up to speed ("everything should be correctly set up for the
\* transfer"), whatever floppy_change and the motor timers do meanwhile.
MotorReady ==
  \A i \in DOMAIN fd.hw : fd.hw[i].c = "rw" => fd.hw[i].spinning /\ fd.hw[i].chosen

\* A request ends with an error only if its block is not on the device, after
\* MAX_ERRORS errors, or, on a diskette, when ST1 says write protected (for a
\* read: an old ST1).  The hard disk has one exception: the range is tested
\* again for a retry, and the second sector of the last block of a partition
\* fails that test.
GivenUp(rq) ==
  CASE rq.bh.major = HD ->
         \/ rq.bh.minor >= 5 * NR_HD \/ 2 * rq.bh.block + 2 > HdSize(rq.bh.minor)
         \/ rq.errors + 1 >= MAX_ERRORS
         \/ rq.off = 1 /\ 2 * rq.bh.block + 2 = HdSize(rq.bh.minor)
    [] OTHER ->
         \/ 2 * rq.bh.block + 2 > TypeOf(rq).size
         \/ rq.errors + 1 > FD_MAX_ERRORS
         \/ rq.cmd = WRITE \/ fd.wp
GiveUp ==
  [][\A r \in Slot :
       request[r] # Free /\ request'[r] = Free /\ ~uptodate'[request[r].bh] => GivenUp(request[r])]_vars

\* A timer never goes off before the ticks it was asked for are over.
NeverEarly ==
  \A i \in DOMAIN fd.timers : Until(fd.timers, i) >= fd.timers[i].due

\* The elevator starves nobody: while a request waits in the queue, any other
\* buffer is read at most twice and written at most twice, once in the sweep
\* under way and once in the next, however often processes ask for it again.
NoStarvation == \A r \in Slot, w \in Work : request[r].passed[w] <= 2

-----------------------------------------------------------------------------
(* The inductive invariant.  Its parts are about queues qs, slots req,     *)
(* locks lk and processes pr that a driver is called with, which are those *)
(* of the state between two steps.                                         *)

Rq == [bh : Buf, cmd : {READ, WRITE}, errors : Nat, sector : Nat, nr : 1 .. 2, off : 0 .. 1,
       passed : [Work -> Nat]]

OnFloppy == {"on", "motorgap", "motor", "sel", "selgap", "select"}
OnRequest == {"gap", "asleep", "scan"}
ProcRec == [pc : {"idle", "lock"} \cup OnRequest \cup OnFloppy, cmd : {READ, WRITE},
            bh : Buf \cup {<<>>}, nr : Nat, raced : BOOLEAN]
ProcOK(s) ==
  /\ s.pc \in {"lock"} \cup OnRequest => s.bh \in Buf
  /\ s.pc \in OnFloppy => s.nr \in Drive

Used(req) == {r \in Slot : req[r] # Free}

\* The slots in use and the queues belong together.
Queued(qs, req) ==
  /\ qs \in [Major -> Seq(Slot)]
  /\ \A m \in Major : \A i, j \in DOMAIN qs[m] : qs[m][i] = qs[m][j] => i = j
  /\ \A m \in Major, r \in Slot :
       (\E i \in DOMAIN qs[m] : qs[m][i] = r) <=> r \in Used(req) /\ req[r].bh.major = m

\* A locked buffer has one holder, and what holds a buffer has locked it.
Held(req, lk, pr) ==
  /\ lk \in [Buf -> BOOLEAN]
  /\ \A r \in Used(req) : lk[req[r].bh]
  /\ \A p \in Proc : pr[p].pc \in OnRequest => lk[pr[p].bh]
  /\ \A r, s \in Used(req) : req[r].bh = req[s].bh => r = s
  /\ \A p, x \in Proc :
       pr[p].pc \in OnRequest /\ pr[x].pc \in OnRequest /\ pr[p].bh = pr[x].bh => p = x
  /\ \A r \in Used(req), p \in Proc : pr[p].pc \in OnRequest => req[r].bh # pr[p].bh
  /\ \A b \in Buf : lk[b] =>
       \/ \E r \in Used(req) : req[r].bh = b
       \/ \E p \in Proc : pr[p].pc \in OnRequest /\ pr[p].bh = b

\* The position in a request; the floppy driver moves whole blocks.
Positions(req) ==
  \A r \in Used(req) :
    /\ req[r].off = 2 - req[r].nr /\ req[r].sector = 2 * req[r].bh.block + req[r].off
    /\ req[r].bh.major = FD => req[r].off = 0

\* Who found no slot may count on the end of a request.
Slotless(req, pr) ==
  \A p \in Proc : pr[p].pc \in {"gap", "asleep"} /\ ~pr[p].raced =>
    \E r \in SlotsFor(pr[p].cmd) : req[r] # Free

\* The order of work in a sweep.
Before(v, w) ==
  \/ v[2] < w[2]
  \/ /\ v[2] = w[2]
     /\ \/ v[1].minor < w[1].minor
        \/ v[1].minor = w[1].minor /\ v[1].block < w[1].block

WorkOf(rq) == <<rq.bh, rq.cmd>>

\* A queue is the rest of a sweep, its first d requests, and the next sweep.
\* What is still to come in the sweep was done at most once while a request of
\* it waited, in the sweep before; for a request of the next sweep, the work
\* done so far is behind the head.
Sweeps(q, req, d) ==
  LET w(i) == WorkOf(req[q[i]])
  IN /\ \A i, j \in DOMAIN q : i < j /\ (j <= d \/ d < i) => Before(w(i), w(j))
     /\ d < Len(q) => Before(w(d + 1), w(d))
     /\ \A i \in DOMAIN q, v \in Work :
          LET n == req[q[i]].passed[v] + (IF Before(v, w(1)) THEN 0 ELSE 1)
          IN n <= IF i <= d THEN 2 ELSE 1
Elevator(q, req) == q # <<>> => \E d \in DOMAIN q : Sweeps(q, req, d)

RequestsOK(qs, req, lk, pr) ==
  /\ req \in [Slot -> Rq \cup {Free}]
  /\ pr \in [Proc -> ProcRec] /\ \A p \in Proc : ProcOK(pr[p])
  /\ Queued(qs, req) /\ Held(req, lk, pr) /\ Positions(req) /\ Slotless(req, pr)
  /\ \A m \in Major : Elevator(qs[m], req)

\* The controller of the hard disk has a command as long as there are requests,
\* and the handler is the one for the first.
HdBusy ==
  /\ ctl.cmd = "none" <=> queue[HD] = <<>>
  /\ queue[HD] # <<>> =>
       /\ do_hd # "none"
       /\ do_hd = "read_intr" => request[queue[HD][1]].cmd = READ
       /\ do_hd = "write_intr" => request[queue[HD][1]].cmd = WRITE

\* The globals of the floppy driver.
Fields == {"reset", "recal", "seek", "drive", "track", "seek_track", "lin", "cmd", "handler",
           "selected", "dsel", "motor", "mon", "moff", "wp", "timers", "hw", "age", "pos",
           "faults", "wild", "overlap"}
FdOK(f) ==
  /\ f = [x \in Fields |-> f[x]]
  /\ f.drive \in Drive /\ f.dsel \in Drive /\ f.handler \in Handlers
  /\ f.mon \in [Drive -> Nat] /\ f.moff \in [Drive -> Nat]
  /\ f.wild \in BOOLEAN /\ f.overlap \in BOOLEAN
  /\ f.hw \in Seq(Range(f.hw)) /\ f.timers \in Seq(Range(f.timers))

\* The floppy driver, with q to do, gives one command or starts one timer at a
\* time, as long as no request came during a reset that follows the last one.
FdBusy(f, q) ==
  /\ f.handler = "rw_interrupt" /\ ~f.wild => q # <<>>
  /\ ~f.overlap =>
       /\ ~f.wild /\ Len(f.hw) + Len(f.timers) <= 1
       /\ q # <<>> => Len(f.hw) + Len(f.timers) = 1
       /\ q = <<>> => f.timers = <<>>
       /\ f.hw # <<>> => f.handler # "none"
       /\ f.hw # <<>> /\ q = <<>> => f.handler \in {"reset_interrupt", "recal_interrupt"}

\* Who waits for a motor may count on its getting up to speed.
MotorAwaited(f, pr) ==
  \A p \in Proc : pr[p].pc \in {"motorgap", "motor"} /\ ~pr[p].raced => f.mon[pr[p].nr] > 0

LoadOK == "bufs" \in DOMAIN load /\ load.bufs \subseteq Buf
HdFlags == reset \in BOOLEAN /\ recalibrate \in BOOLEAN /\ "cmd" \in DOMAIN ctl

Inv ==
  /\ RequestsOK(queue, request, lock, proc) /\ queue[RD] = <<>> /\ LoadOK
  /\ HdBusy /\ HdFlags
  /\ FdOK(fd) /\ FdBusy(fd, queue[FD]) /\ MotorAwaited(fd, proc)
=============================================================================
