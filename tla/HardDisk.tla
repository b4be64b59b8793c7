------------------------------ MODULE HardDisk ------------------------------
(***************************************************************************)
(* The hard disk driver, kernel/blk_drv/hd.c: do_hd_request, the interrupt *)
(* handlers, retries, reset and recalibration.  One action is one hard     *)
(* disk interrupt with all the handler calls; interrupts are off in it.    *)
(*                                                                         *)
(* The controller is external.  A command carries a physical address       *)
(* (cylinder, head, sector) and a count; every command is answered by an   *)
(* interrupt, one for each sector, that reports success or failure.  A     *)
(* write command that does not raise DRQ raises no interrupt.              *)
(***************************************************************************)
EXTENDS Request

CONSTANTS
  NR_HD,          \* number of drives
  HdSect, HdHead, \* hd_info[].sect and .head, the same for all drives
  HdStart(_),     \* hd[minor].start_sect
  HdSize(_),      \* hd[minor].nr_sects
  MAX_ERRORS      \* errors after which a request is given up

ASSUME HdAssumption ==
  /\ NR_HD \in 1 .. 2 /\ HdSect \in Nat \ {0} /\ HdHead \in Nat \ {0}
  /\ MAX_ERRORS \in Nat \ {0}
  /\ \A b \in Buf : b.major = HD => HdStart(b.minor) \in Nat /\ HdSize(b.minor) \in Nat

VARIABLES
  do_hd,        \* the handler of the next interrupt
  reset,        \* the controller has to be reset
  recalibrate,  \* the heads have to be moved to track 0
  ctl,          \* the controller: command, next sector, data written to it
  hdfaults      \* bound: failures of the controller still to come

hdvars == <<do_hd, reset, recalibrate, ctl, hdfaults>>

NoCommand == [cmd |-> "none", drive |-> 0, lin |-> 0, buf |-> NoData]

HdTypeOK ==
  /\ do_hd \in {"none", "read_intr", "write_intr", "recal_intr"}
  /\ reset \in BOOLEAN /\ recalibrate \in BOOLEAN
  /\ ctl.cmd \in {"none", "read", "write", "nodrq", "specify", "restore"}
  /\ ctl.buf \in Token
  /\ hdfaults \in Nat

HdInit(faults) ==
  /\ do_hd = "none" /\ reset = TRUE /\ recalibrate = TRUE
  /\ ctl = NoCommand /\ hdfaults = faults

-----------------------------------------------------------------------------
(* Addresses.                                                              *)

\* DEVICE_NR
HdDrive(rq) == rq.bh.minor \div 5

\* dev >= 5*NR_HD || block+2 > hd[dev].nr_sects.  The test is made again for a
\* retry, when sector may be the second of the block.
OutOfRange(q, req) ==
  {r \in Range(q) : \/ req[r].bh.minor >= 5 * NR_HD
                    \/ req[r].sector + 2 > HdSize(req[r].bh.minor)}

\* Mutant: the head is not taken modulo the number of heads.
ChsWrong(block) == [sec |-> (block % HdSect) + 1, head |-> 0, cyl |-> (block \div HdSect) \div HdHead]

\* The two divisions in do_hd_request.
Chs(block) ==
  [sec |-> (block % HdSect) + 1, head |-> (block \div HdSect) % HdHead,
   cyl |-> (block \div HdSect) \div HdHead]

\* The sector a controller finds at a physical address.
Sector(a) == (a.cyl * HdHead + a.head) * HdSect + a.sec - 1

-----------------------------------------------------------------------------
(* do_hd_request.                                                          *)

\* hd_out: the command for the first request of q and the handler of its
\* interrupt.  For a write the first sector goes to the controller, unless it
\* does not ask for it (DRQ).
hd_out(rq) ==
  LET at == Sector(Chs(rq.sector + HdStart(rq.bh.minor)))
      order(c, buf) == [cmd |-> c, drive |-> HdDrive(rq), lin |-> at, buf |-> buf]
  IN IF rq.cmd = WRITE
     THEN /\ do_hd' = "write_intr"
          /\ \/ ctl' = order("write", data[rq.bh][rq.off])
             \/ hdfaults' > 0 /\ ctl' = order("nodrq", NoData)
     ELSE do_hd' = "read_intr" /\ ctl' = order("read", NoData)

\* What do_hd_request does for the queue q once the refused requests are
\* gone; rst is the flag reset, h what do_hd holds if no command is given.
hd_command(q, req, rst, h) ==
  CASE q = <<>> ->
         do_hd' = h /\ reset' = rst /\ ctl' = NoCommand /\ UNCHANGED recalibrate
    [] q # <<>> /\ rst ->
         /\ reset' = FALSE /\ recalibrate' = TRUE /\ do_hd' = "recal_intr"
         /\ ctl' = [NoCommand EXCEPT !.cmd = "specify"]
    [] q # <<>> /\ ~rst /\ recalibrate ->
         /\ reset' = FALSE /\ recalibrate' = FALSE /\ do_hd' = "recal_intr"
         /\ ctl' = [NoCommand EXCEPT !.cmd = "restore"]
    [] OTHER ->
         hd_out(req[Head(q)]) /\ reset' = FALSE /\ UNCHANGED recalibrate

\* end_request(up) for the first n of q, then do_hd_request.
do_hd_request(q, req, lk, pr, n, up, rst, h) ==
  LET rest == SubSeq(q, n + 1, Len(q))
      gone == n + Refused(rest, OutOfRange(rest, req))
  IN /\ end_request(HD, q, req, lk, pr, gone, up)
     /\ hd_command(SubSeq(q, gone + 1, Len(q)), req, rst, h)

-----------------------------------------------------------------------------
(* Interrupts.                                                             *)

\* ++CURRENT->errors
CountError(rq) == [rq EXCEPT !.errors = @ + 1]

\* Mutant: a request is given up one error too early.
WornOutEarly(rq) == rq.errors >= MAX_ERRORS - 1

\* CURRENT->errors >= MAX_ERRORS
WornOut(rq) == rq.errors >= MAX_ERRORS

\* bad_rw_intr, then do_hd_request.  After end_request the second test reads
\* the next request, or, if there is none, pg_dir[2], which is greater than
\* MAX_ERRORS/2: the controller is reset before the next request.
bad_rw_intr(h) ==
  LET q == queue[HD]
      req == [request EXCEPT ![Head(q)] = CountError(@)]
      n == IF WornOut(req[Head(q)]) THEN 1 ELSE 0
      worn == IF Len(q) = n THEN TRUE ELSE req[q[n + 1]].errors > MAX_ERRORS \div 2
  IN /\ hdfaults' = hdfaults - 1
     /\ do_hd_request(q, req, lock, proc, n, FALSE, reset \/ worn, h)
     /\ UNCHANGED <<dirt, data, disk>>

\* read_intr takes a sector.
Advance(rq) == [rq EXCEPT !.errors = 0, !.sector = @ + 1, !.nr = @ - 1, !.off = @ + 1]

\* CURRENT is done with one sector: rq is what becomes of it, or it ends.
SectorDone(rq, more) ==
  LET q == queue[HD]
  IN IF request[Head(q)].nr > 1
     THEN /\ request' = [request EXCEPT ![Head(q)] = rq]
          /\ more
          /\ UNCHANGED <<lock, uptodate, queue, proc, reset, recalibrate>>
     ELSE do_hd_request(q, request, lock, proc, 1, TRUE, reset, "none")

read_intr ==
  LET rq == request[Head(queue[HD])]
      at == <<HD, ctl.drive, ctl.lin>>
  IN /\ do_hd = "read_intr" /\ UNCHANGED hdfaults
     /\ data' = [data EXCEPT ![rq.bh][rq.off] = disk[at]]
     /\ SectorDone(Advance(rq), do_hd' = "read_intr" /\ ctl' = [ctl EXCEPT !.lin = @ + 1])
     /\ UNCHANGED <<dirt, disk>>

\* errors is kept from one sector of a write to the next.
write_intr ==
  LET rq == request[Head(queue[HD])]
      at == <<HD, ctl.drive, ctl.lin>>
  IN /\ do_hd = "write_intr" /\ UNCHANGED hdfaults
     /\ disk' = [disk EXCEPT ![at] = ctl.buf]
     /\ SectorDone([Advance(rq) EXCEPT !.errors = rq.errors],
                   /\ do_hd' = "write_intr"
                   /\ ctl' = [ctl EXCEPT !.lin = @ + 1, !.buf = data[rq.bh][rq.off + 1]])
     /\ UNCHANGED <<dirt, data>>

\* The answer to WIN_SPECIFY (reset_hd) or WIN_RESTORE.
recal_intr ==
  /\ do_hd = "recal_intr" /\ UNCHANGED hdfaults
  /\ do_hd_request(queue[HD], request, lock, proc, 0, FALSE, reset, "none")
  /\ UNCHANGED <<dirt, data, disk>>

Answered == ctl.cmd \notin {"none", "nodrq"}

\* hd_interrupt: the handler finds win_result() = 0 ...
HdIntr ==
  /\ Answered
  /\ read_intr \/ write_intr \/ recal_intr

\* ... or an error.
HdIntrBad ==
  /\ Answered /\ hdfaults > 0
  /\ bad_rw_intr("none")

\* In do_hd_request DRQ does not come: bad_rw_intr, goto repeat.  Nothing else
\* runs before it, and do_hd keeps its value.
HdNoDrq == ctl.cmd = "nodrq" /\ bad_rw_intr("write_intr")
=============================================================================
