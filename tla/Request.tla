------------------------------- MODULE Request -------------------------------
(***************************************************************************)
(* The request slots and the request queue of each block device, as        *)
(* kernel/blk_drv/blk.h gives them to the drivers: struct request,         *)
(* IN_ORDER, end_request and unlock_buffer.  HardDisk, Floppy and BlockDev *)
(* extend this module.                                                     *)
(*                                                                         *)
(* A buffer head is a record that says which block it is of; the buffer    *)
(* cache, which changes that, is BufferCache.  The two halves of its data  *)
(* are tokens that name the sector they are the contents of and a version  *)
(* 0 or 1, so that a transfer to the wrong place shows.                    *)
(***************************************************************************)
EXTENDS Naturals, Sequences, FiniteSets, FiniteSetsExt, SequencesExt

CONSTANTS
  Proc,        \* processes
  Buf,         \* buffer heads: records with major, minor and block
  NR_REQUEST,  \* number of request slots
  Loc          \* the sectors of all devices: <<major, drive, number>>

\* The block devices.
RD == 1
FD == 2
HD == 3
Major == {RD, FD, HD}

READ == 0
WRITE == 1
READA == 2
WRITEA == 3

Slot == 1 .. NR_REQUEST

ASSUME RequestAssumption ==
  /\ NR_REQUEST \in Nat /\ NR_REQUEST > 1
  /\ Buf \subseteq [major : Major, minor : Nat, block : Nat]

NoData == <<"none">>
Token == {NoData} \cup (Loc \X {0, 1})
Half == {0, 1}

\* struct request; off is buffer - bh->b_data, in sectors.  A free slot
\* (dev = -1) is Free.  passed is a history variable: how often each piece of
\* work, a buffer and a direction, was done while this request was in the queue.
Work == Buf \X {READ, WRITE}
Free == [bh |-> <<>>, cmd |-> 0, errors |-> 0, sector |-> 0, nr |-> 0, off |-> 0,
         passed |-> [w \in Work |-> 0]]
NewRequest(b, cmd) ==
  [bh |-> b, cmd |-> cmd, errors |-> 0, sector |-> 2 * b.block, nr |-> 2, off |-> 0,
   passed |-> Free.passed]

VARIABLES
  lock,      \* b_lock
  uptodate,  \* b_uptodate
  dirt,      \* b_dirt
  data,      \* b_data, by half
  request,   \* request[]
  queue,     \* blk_dev[major].current_request and what hangs on it by next
  proc,      \* per process: where it is in make_request
  disk       \* the contents of the devices

reqvars == <<lock, uptodate, dirt, data, request, queue, proc, disk>>

\* pc is "idle", "lock" (asleep on b_wait in lock_buffer), "gap" (no slot
\* found, not yet asleep), "asleep" (on wait_for_request), "scan" (woken), or
\* one of floppy_change's, for drive nr.  raced is a history variable: what the
\* process is about to wait for happened while it was in the gap.
IdleProc == [pc |-> "idle", cmd |-> READ, bh |-> <<>>, nr |-> 0, raced |-> FALSE]

RequestTypeOK ==
  /\ lock \in [Buf -> BOOLEAN] /\ uptodate \in [Buf -> BOOLEAN]
  /\ dirt \in [Buf -> BOOLEAN] /\ data \in [Buf -> [Half -> Token]]
  /\ \A r \in Slot : request[r] # Free =>
       /\ request[r].bh \in Buf /\ request[r].cmd \in {READ, WRITE}
       /\ request[r].nr \in 1 .. 2 /\ request[r].off = 2 - request[r].nr
  /\ queue \in [Major -> Seq(Slot)]
  /\ \A p \in Proc :
       proc[p].pc \in {"idle", "lock", "gap", "asleep", "scan",
                       "on", "motorgap", "motor", "sel", "selgap", "select"}
  /\ disk \in [Loc -> Token]

\* blk_dev_init
RequestInit ==
  /\ lock = [b \in Buf |-> FALSE]
  /\ uptodate = [b \in Buf |-> FALSE]
  /\ dirt = [b \in Buf |-> FALSE]
  /\ data = [b \in Buf |-> [h \in Half |-> NoData]]
  /\ request = [r \in Slot |-> Free]
  /\ queue = [m \in Major |-> <<>>]
  /\ proc = [p \in Proc |-> IdleProc]
  /\ disk = [l \in Loc |-> <<l, 0>>]

\* Where half h of block b belongs: the reference the drivers' arithmetic is
\* compared with.  Start is the first sector of the partition.
Place(b, h, drive, start) == <<b.major, drive, start + 2 * b.block + h>>

\* The kernel is not preempted: no process runs while another is between its
\* test and its sleep.
Quiet == \A p \in Proc : proc[p].pc \notin {"gap", "motorgap", "selgap"}

-----------------------------------------------------------------------------
(* The elevator.                                                           *)

IN_ORDER(s1, s2) ==
  \/ s1.cmd < s2.cmd
  \/ /\ s1.cmd = s2.cmd
     /\ \/ s1.bh.minor < s2.bh.minor
        \/ s1.bh.minor = s2.bh.minor /\ s1.sector < s2.sector

\* Mutants: the request is not linked; it goes before CURRENT; right behind it.
EnqueueLost(q, r, req) == q
EnqueueFront(q, r, req) == <<r>> \o q
EnqueueFirst(q, r, req) == InsertAt(q, 2, r)

\* add_request on a queue that is not empty: the request goes behind the first
\* element where it fits in the upward sweep, or at the end.
Enqueue(q, r, req) ==
  LET fits(i) == /\ \/ IN_ORDER(req[q[i]], req[r])
                    \/ ~IN_ORDER(req[q[i]], req[q[i + 1]])
                 /\ IN_ORDER(req[r], req[q[i + 1]])
      after == Min({i \in 1 .. Len(q) - 1 : fits(i)} \cup {Len(q)})
  IN InsertAt(q, after + 1, r)

-----------------------------------------------------------------------------
(* end_request.                                                            *)

\* Mutant: wait_for_request is not woken.
NoWake(pr) == pr

\* wake_up(&wait_for_request) and schedule(): the sleepers look again.  A
\* process in the gap is not on the queue yet.
WakeSlotWaiters(pr) ==
  [p \in Proc |->
     CASE pr[p].pc = "asleep" -> [pr[p] EXCEPT !.pc = "scan", !.raced = FALSE]
       [] pr[p].pc = "gap" -> [pr[p] EXCEPT !.raced = TRUE]
       [] OTHER -> pr[p]]

\* The requests for the work done ended while rq was in the queue.
Pass(rq, done) ==
  [rq EXCEPT !.passed = [w \in Work |-> IF w \in done THEN rq.passed[w] + 1 ELSE rq.passed[w]]]

\* end_request for the first n requests of q, the queue of a device: the first
\* one with b_uptodate = up, the others as errors.  req, lk and pr are the
\* slots, locks and processes before; whoever waits for b_lock goes on when it
\* is clear.
end_request(major, q, req, lk, pr, n, up) ==
  LET ended == {q[i] : i \in 1 .. n}
      bhs == {req[r].bh : r \in ended}
  IN /\ lock' = [b \in Buf |-> lk[b] /\ b \notin bhs]
     /\ uptodate' = [b \in Buf |->
          IF b \in bhs THEN up /\ b = req[q[1]].bh ELSE uptodate[b]]
     /\ request' = [r \in Slot |->
          CASE r \in ended -> Free
            [] r \in Range(q) \ ended -> Pass(req[r], {<<req[s].bh, req[s].cmd>> : s \in ended})
            [] OTHER -> req[r]]
     /\ queue' = [queue EXCEPT ![major] = SubSeq(q, n + 1, Len(q))]
     /\ proc' = IF n = 0 THEN pr ELSE WakeSlotWaiters(pr)

\* The length of the first part of q whose requests a driver refuses for being
\* bad: they end with an error, one after the other (goto repeat).
Refused(q, bad) ==
  Min({i - 1 : i \in {j \in DOMAIN q : q[j] \notin bad}} \cup {Len(q)})
=============================================================================
