------------------------- MODULE BufferCacheProofs -------------------------
(***************************************************************************)
(* The buffer cache keeps its promises for any numbers of blocks, buffers, *)
(* requests and processes.  Inv of BufferCache is the inductive invariant. *)
(* Most steps touch one buffer and one process: the lemmas of the first    *)
(* part say what such steps keep, then there is a lemma for every action.  *)
(* The last part is about getblk's waiters and sys_sync.                   *)
(***************************************************************************)
EXTENDS BufferCache, FiniteSetTheorems, TLAPS

\* Process p's locals become n, and the other processes keep theirs.
Moves(p, n) == n \in Locals /\ LocalsOK(n) /\ proc' = [proc EXCEPT ![p] = n]

\* Only p's locals change.
LEMMA MovesLemma ==
  ASSUME TypeOK, LocalsInv, NEW p \in Proc, NEW n, Moves(p, n)
  PROVE  /\ proc' \in [Proc -> Locals] /\ LocalsInv'
         /\ proc'[p] = n /\ \A q \in Proc \ {p} : proc'[q] = proc[q]
BY DEF TypeOK, LocalsInv, Moves

\* What a step that leaves the contents of the buffers and the requests alone
\* does to the locals of a process.
Calm(s, n) ==
  /\ n.bh # 0 => blk[n.bh] = n.want
  /\ n.first # 0 => blk[n.first] \in Block
  /\ (s.pc # "slot" /\ n.pc # "slot") \/ n = s
  /\ n.pc \in {"hold", "copy"} /\ n.op # "full_write" =>
       \/ s.pc \in {"hold", "copy"} /\ s.op # "full_write" /\ n.bh = s.bh
       \/ uptodate[n.bh]
  /\ n.op = "sync" =>
       \/ s.op = "sync" /\ n.snap = s.snap /\ (n.i = s.i \/ (n.i = s.i + 1 /\ ~dirt[s.i]))
       \/ n.i = 1 /\ n.snap = latest

\* Such a step keeps the invariant if the use counts stay right.
LEMMA CalmStep ==
  ASSUME Inv, proc' \in [Proc -> Locals], LocalsInv', \A q \in Proc : Calm(proc[q], proc'[q]),
         count' \in [Buffer -> Nat], CountOK', current' \in Proc \cup {None},
         UNCHANGED <<blk, dirt, uptodate, lock, data, request, disk, history>>
  PROVE  Inv'
<1> USE DEF Inv
<1>0. latest' = latest /\ lost' = lost /\ errors' = errors
  BY DEF history
<1>2. TypeOK'
  BY <1>0 DEF TypeOK
<1>3. UniqueBlock'
  BY <1>0 DEF UniqueBlock
<1>5. BlocksOK'
  BY <1>0 DEF BlocksOK, Calm
<1>6. \A q \in Proc, b \in Buffer : Locking(q, b)' <=> Locking(q, b)
  BY DEF Locking, Calm, ReqBuf
<1>7. OwnerOK'
  BY <1>0, <1>6 DEF OwnerOK, TypeOK, Free
<1>8. RequestOK'
  BY <1>0 DEF RequestOK, Calm
<1>9. GoodOK'
  <2>1. \A b : Good(b)' <=> Good(b)
    BY <1>0 DEF Good
  <2>2. \A q \in Proc : proc'[q].pc \in {"hold", "copy"} => proc'[q].bh \in Buffer
    BY DEF Locals, LocalsOK, AnyBuffer, LocalsInv
  <2>3. \A q \in Proc : proc'[q].pc \in {"hold", "copy"} /\ proc'[q].op # "full_write" => Good(proc'[q].bh)
    BY <2>2 DEF Calm, GoodOK
  <2> QED BY <1>0, <2>1, <2>3 DEF GoodOK
<1>10. DurableOK'
  BY <1>0 DEF DurableOK, Unwritten, find_buffer
<1>11. SyncOK'
  <2>0. \A k, v, i : Flushed(k, v, i)' <=> Flushed(k, v, i)
    BY <1>0 DEF Flushed, find_buffer, Unwritten
  <2> SUFFICES ASSUME NEW q \in Proc, proc'[q].op = "sync", NEW k \in Block
               PROVE  /\ proc'[q].snap[k] <= latest[k]
                      /\ k \in lost \/ Flushed(k, proc'[q].snap[k], proc'[q].i)
    BY <1>0, <2>0 DEF SyncOK
  <2> DEFINE s == proc[q]
             n == proc'[q]
  <2>2. CASE s.op = "sync" /\ n.snap = s.snap /\ n.i = s.i
    BY <2>2 DEF SyncOK
  <2>3. CASE s.op = "sync" /\ n.snap = s.snap /\ n.i = s.i + 1 /\ ~dirt[s.i]
    <3>1. s.i \in Nat
      BY DEF TypeOK, Locals
    <3>2. \A b \in find_buffer(k) : dirt[b] /\ b >= s.i => b >= n.i
      BY <2>3, <3>1, BufferAssumption DEF find_buffer, Buffer
    <3> QED BY <2>3, <3>2 DEF SyncOK, Flushed
  <2>4. CASE n.i = 1 /\ n.snap = latest
    <3>1. latest[k] \in Nat /\ disk[k] \in Nat /\ \A b \in Buffer : data[b] \in Nat
      BY DEF TypeOK
    <3>3. \A b \in Buffer : b >= 1
      BY DEF Buffer
    <3>2. k \in lost \/ Flushed(k, latest[k], 1)
      BY <3>1, <3>3 DEF DurableOK, find_buffer, Flushed
    <3> QED BY <2>4, <3>1, <3>2
  <2> QED BY <2>2, <2>3, <2>4 DEF Calm
<1> QED BY <1>2, <1>3, <1>5, <1>7, <1>8, <1>9, <1>10, <1>11

\* A process that does not ask for a request has nothing to fear from a step
\* of another one.
LEMMA CalmOther ==
  ASSUME Inv, NEW q \in Proc
  PROVE  Calm(proc[q], proc[q])
BY DEF Inv, BlocksOK, Calm

\* What a process holds has the right block.
LEMMA HeldBlocks ==
  ASSUME Inv, NEW p \in Proc
  PROVE  /\ proc[p] \in Locals /\ LocalsOK(proc[p])
         /\ proc[p].bh # 0 => blk[proc[p].bh] = proc[p].want
         /\ proc[p].first # 0 => blk[proc[p].first] \in Block
BY DEF Inv, TypeOK, LocalsInv, BlocksOK

\* What a step that leaves the use counts alone too does to them.
Silent(s, n) ==
  /\ n.bh = s.bh /\ n.first = s.first
  /\ n.bh # 0 => n.want = s.want
  /\ s.pc # "slot" /\ n.pc # "slot"
  /\ n.pc \in {"hold", "copy"} /\ n.op # "full_write" =>
       \/ s.pc \in {"hold", "copy"} /\ s.op # "full_write"
       \/ uptodate[n.bh]
  /\ n.op = "sync" =>
       \/ s.op = "sync" /\ n.snap = s.snap /\ (n.i = s.i \/ (n.i = s.i + 1 /\ ~dirt[s.i]))
       \/ n.i = 1 /\ n.snap = latest

\* A step of p that changes no count.
LEMMA QuietStep ==
  ASSUME Inv, NEW p \in Proc, NEW n, Moves(p, n), Silent(proc[p], n),
         current' \in Proc \cup {None},
         UNCHANGED <<buffers, request, disk, history>>
  PROVE  Inv'
<1>0. UNCHANGED <<blk, dirt, uptodate, lock, data>> /\ count' = count
  BY DEF buffers
<1>1. proc' \in [Proc -> Locals] /\ LocalsInv'
         /\ proc'[p] = n /\ \A q \in Proc \ {p} : proc'[q] = proc[q]
  BY MovesLemma DEF Inv
<1>2. CountOK'
  <2>1. ASSUME NEW b \in Buffer
        PROVE  /\ {q \in Proc : proc'[q].bh = b} = {q \in Proc : proc[q].bh = b}
               /\ {q \in Proc : proc'[q].first = b} = {q \in Proc : proc[q].first = b}
    BY <1>1 DEF Silent
  <2> QED BY <1>0, <2>1 DEF CountOK, Inv
<1>4. Calm(proc[p], n)
  BY HeldBlocks DEF Silent, Calm
<1>3. \A q \in Proc : Calm(proc[q], proc'[q])
  BY <1>1, <1>4, CalmOther
<1> QED BY <1>0, <1>1, <1>2, <1>3, CalmStep DEF Inv, TypeOK

-----------------------------------------------------------------------------
(* The records that the steps of a process leave in its locals.            *)

\* The fields of the locals n that matter.
Fields(n, pc, op, want, bh, victim, first, i, pass, dev, snap) ==
  /\ n \in Locals
  /\ n.pc = pc /\ n.op = op /\ n.want = want /\ n.bh = bh /\ n.victim = victim
  /\ n.first = first /\ n.i = i /\ n.pass = pass /\ n.dev = dev /\ n.snap = snap

\* The locals of a process in user mode.
LEMMA IdleLocals == IdleProc \in Locals /\ LocalsOK(IdleProc)
BY DEF IdleProc, Locals, LocalsOK, Pc, SysCall, Asking, Breada, AnyBlock, AnyBuffer, Pass, Device, Versions

\* Only pc changes.
LEMMA PcFields ==
  ASSUME NEW s \in Locals, NEW x \in Pc
  PROVE  Fields([s EXCEPT !.pc = x], x, s.op, s.want, s.bh, s.victim, s.first, s.i, s.pass, s.dev, s.snap)
BY DEF Fields, Locals

\* Only the sync loop's buffer changes.
LEMMA IFields ==
  ASSUME NEW s \in Locals, NEW x \in Nat
  PROVE  Fields([s EXCEPT !.i = x], s.pc, s.op, s.want, s.bh, s.victim, s.first, x, s.pass, s.dev, s.snap)
BY DEF Fields, Locals

\* ll_rw_block returns to the sync loop.
LEMMA PcIFields ==
  ASSUME NEW s \in Locals, NEW x \in Pc, NEW y \in Nat
  PROVE  Fields([s EXCEPT !.pc = x, !.i = y],
                x, s.op, s.want, s.bh, s.victim, s.first, y, s.pass, s.dev, s.snap)
BY DEF Fields, Locals

\* The second pass of sync_dev.
LEMMA IPassFields ==
  ASSUME NEW s \in Locals, NEW x \in Nat, NEW y \in Pass
  PROVE  Fields([s EXCEPT !.i = x, !.pass = y],
                s.pc, s.op, s.want, s.bh, s.victim, s.first, x, y, s.dev, s.snap)
BY DEF Fields, Locals

\* getblk calls sync_dev, and sync_dev returns.
LEMMA LoopFields ==
  ASSUME NEW s \in Locals, NEW x \in Pc, NEW y \in Nat, NEW z \in Pass, NEW d \in Device
  PROVE  Fields([s EXCEPT !.pc = x, !.i = y, !.pass = z, !.dev = d],
                x, s.op, s.want, s.bh, s.victim, s.first, y, z, d, s.snap)
BY DEF Fields, Locals

\* getblk chooses a victim, or starts over.
LEMMA VictimFields ==
  ASSUME NEW s \in Locals, NEW x \in Pc, NEW v \in AnyBuffer
  PROVE  Fields([s EXCEPT !.pc = x, !.victim = v],
                x, s.op, s.want, s.bh, v, s.first, s.i, s.pass, s.dev, s.snap)
BY DEF Fields, Locals

\* get_hash_table finds a buffer.
LEMMA HitFields ==
  ASSUME NEW s \in Locals, NEW x \in Pc, NEW b \in AnyBuffer
  PROVE  Fields([s EXCEPT !.pc = x, !.bh = b],
                x, s.op, s.want, b, s.victim, s.first, s.i, s.pass, s.dev, s.snap)
BY DEF Fields, Locals

\* getblk returns b.
LEMMA GotFields ==
  ASSUME NEW s \in Locals, NEW b \in AnyBuffer, NEW fresh
  PROVE  Fields(Got(s, b, fresh), GotPc(s, fresh), s.op, s.want, b, 0, s.first, s.i, s.pass, s.dev, s.snap)
<1>1. GotPc(s, fresh) \in Pc /\ 0 \in AnyBuffer
  BY DEF GotPc, Pc, AnyBuffer
<1>2. \A x \in Pc, v \in AnyBuffer :
        Fields([s EXCEPT !.bh = b, !.victim = v, !.pc = x],
               x, s.op, s.want, b, v, s.first, s.i, s.pass, s.dev, s.snap)
  BY DEF Fields, Locals
<1> QED BY <1>1, <1>2 DEF Got

\* breada calls getblk for the next block.
LEMMA AheadFields ==
  ASSUME NEW s \in Locals, NEW x \in Pc, NEW w \in AnyBlock, NEW a \in Seq(Block),
         NEW f \in AnyBuffer, NEW b \in AnyBuffer
  PROVE  Fields([s EXCEPT !.pc = x, !.want = w, !.ahead = a, !.first = f, !.bh = b],
                x, s.op, w, b, s.victim, f, s.i, s.pass, s.dev, s.snap)
BY DEF Fields, Locals

\* breada goes on with its first block.
LEMMA TmpFields ==
  ASSUME NEW s \in Locals, NEW x \in Pc, NEW w \in AnyBlock, NEW f \in AnyBuffer, NEW b \in AnyBuffer
  PROVE  Fields([s EXCEPT !.pc = x, !.bh = b, !.first = f, !.want = w],
                x, s.op, w, b, s.victim, f, s.i, s.pass, s.dev, s.snap)
BY DEF Fields, Locals

\* A system call begins.
LEMMA StartFields ==
  ASSUME NEW x \in Pc, NEW op \in SysCall, NEW k \in AnyBlock, NEW a \in Seq(Block)
  PROVE  Fields([IdleProc EXCEPT !.pc = x, !.op = op, !.want = k, !.ahead = a],
                x, op, k, 0, 0, 0, 0, 0, "none", <<>>)
<1>1. \A s \in Locals :
        Fields([s EXCEPT !.pc = x, !.op = op, !.want = k, !.ahead = a],
                x, op, k, s.bh, s.victim, s.first, s.i, s.pass, s.dev, s.snap)
  BY DEF Fields, Locals
<1>2. /\ IdleProc.bh = 0 /\ IdleProc.victim = 0 /\ IdleProc.first = 0 /\ IdleProc.i = 0
      /\ IdleProc.pass = 0 /\ IdleProc.dev = "none" /\ IdleProc.snap = <<>>
  BY DEF IdleProc
<1> QED BY <1>1, <1>2, IdleLocals

\* sys_sync begins.
LEMMA SyncFields ==
  ASSUME NEW x \in Pc, NEW op \in SysCall, NEW y \in Nat, NEW d \in Device, NEW v \in Versions
  PROVE  Fields([IdleProc EXCEPT !.pc = x, !.op = op, !.i = y, !.dev = d, !.snap = v],
                x, op, NoBlock, 0, 0, 0, y, 0, d, v)
<1>1. \A s \in Locals :
        Fields([s EXCEPT !.pc = x, !.op = op, !.i = y, !.dev = d, !.snap = v],
                x, op, s.want, s.bh, s.victim, s.first, y, s.pass, d, v)
  BY DEF Fields, Locals
<1>2. /\ IdleProc.bh = 0 /\ IdleProc.victim = 0 /\ IdleProc.first = 0
      /\ IdleProc.want = NoBlock /\ IdleProc.pass = 0
  BY DEF IdleProc
<1> QED BY <1>1, <1>2, IdleLocals

-----------------------------------------------------------------------------
(* The steps that leave the buffers alone.                                 *)

\* What a process knows when it goes on: the buffer it waited for is unlocked.
LEMMA AtFacts ==
  ASSUME TypeOK, NEW p \in Proc, NEW pc \in Pc, At(p, pc)
  PROVE  /\ proc[p] \in Locals /\ proc[p].pc = pc
         /\ pc \in {"hashwait", "readwait", "brelse"} => ~lock[proc[p].bh]
         /\ pc = "victim" => ~lock[proc[p].victim]
         /\ pc = "ll_rw" => ~lock[ReqBuf(proc[p])]
<1>1. proc[p] \in Locals /\ proc[p].pc = pc
  BY DEF TypeOK, At
<1>2. \A b \in WaitsFor(proc[p]) : ~lock[b]
  BY DEF At, MustSleep
<1>3. pc \in {"hashwait", "readwait", "brelse"} => ~lock[proc[p].bh]
  BY <1>1, <1>2 DEF WaitsFor
<1>4. pc = "victim" => ~lock[proc[p].victim]
  BY <1>1, <1>2 DEF WaitsFor
<1>5. pc = "ll_rw" => ~lock[ReqBuf(proc[p])]
  BY <1>1, <1>2 DEF WaitsFor
<1> QED BY <1>1, <1>3, <1>4, <1>5

\* Sleep and Fault change nothing but current.
LEMMA IdleStep ==
  ASSUME Inv, proc' = proc, current' \in Proc \cup {None},
         UNCHANGED <<buffers, request, disk, history>>
  PROVE  Inv'
<1>0. /\ blk' = blk /\ count' = count /\ dirt' = dirt /\ uptodate' = uptodate
      /\ lock' = lock /\ data' = data /\ request' = request /\ disk' = disk
      /\ latest' = latest /\ lost' = lost /\ errors' = errors
  BY DEF buffers, history
<1>1. TypeOK' /\ LocalsInv' /\ UniqueBlock' /\ CountOK' /\ BlocksOK'
  BY <1>0 DEF Inv, TypeOK, LocalsInv, UniqueBlock, CountOK, BlocksOK
<1>2. OwnerOK' /\ RequestOK'
  BY <1>0 DEF Inv, OwnerOK, Locking, RequestOK
<1>3. GoodOK' /\ DurableOK' /\ SyncOK'
  BY <1>0 DEF Inv, GoodOK, Good, DurableOK, SyncOK, Flushed, Unwritten, find_buffer
<1> QED BY <1>1, <1>2, <1>3 DEF Inv

\* A system call begins.
LEMMA StartInv ==
  ASSUME Inv, NEW p \in Proc, NEW op \in Calls(p), NEW k \in Block, Start(p, op, k)
  PROVE  Inv'
<1> DEFINE a == IF op \in Breada THEN Ahead(k) ELSE <<>>
           n == [IdleProc EXCEPT !.pc = "getblk", !.op = op, !.want = k, !.ahead = a]
<1>1. /\ a \in Seq(Block) /\ op \in SysCall \ {"sync", "none"} /\ "getblk" \in Pc
      /\ k \in AnyBlock /\ TypeOK /\ LocalsInv
  BY BufferAssumption DEF Start, SysCall, Pc, AnyBlock, Inv
<1>2. proc' = [proc EXCEPT ![p] = n] /\ current' = p
  BY DEF Start, Become
<1>3. Fields(n, "getblk", op, k, 0, 0, 0, 0, 0, "none", <<>>)
  <2> HIDE DEF a
  <2> QED BY <1>1, StartFields
<1> HIDE DEF n
<1>4. LocalsOK(n)
  BY <1>1, <1>3 DEF LocalsOK, Fields, Asking
<1>5. proc[p] \in Locals /\ proc[p].pc = "idle" /\ LocalsOK(proc[p])
  BY <1>1 DEF Start, At, TypeOK, LocalsInv
<1>6. Silent(proc[p], n)
  BY <1>1, <1>3, <1>5 DEF Silent, Fields, LocalsOK, Asking
<1> QED BY <1>1, <1>2, <1>3, <1>4, <1>6, QuietStep DEF Moves, Fields, Start

\* sys_sync begins: what is to be flushed is flushed or in a dirty buffer ahead.
LEMMA SyncStartInv ==
  ASSUME Inv, NEW p \in Proc, SyncStart(p)
  PROVE  Inv'
<1> DEFINE n == [IdleProc EXCEPT !.pc = "sync", !.op = "sync", !.i = 1, !.dev = "all", !.snap = latest]
<1>1. /\ "sync" \in Pc /\ "sync" \in SysCall /\ "all" \in Device /\ latest \in Versions
      /\ TypeOK /\ LocalsInv /\ latest \in [Block -> Nat]
  BY DEF Inv, TypeOK, Pc, SysCall, Device, Versions
<1>2. proc' = [proc EXCEPT ![p] = n] /\ current' = p
  BY DEF SyncStart, Become
<1>3. Fields(n, "sync", "sync", NoBlock, 0, 0, 0, 1, 0, "all", latest)
  BY <1>1, SyncFields
<1> HIDE DEF n
<1>4. LocalsOK(n)
  BY <1>1, <1>3 DEF LocalsOK, Fields, Asking
<1>5. proc[p] \in Locals /\ proc[p].pc = "idle" /\ LocalsOK(proc[p])
  BY <1>1 DEF SyncStart, At, TypeOK, LocalsInv
<1>6. Silent(proc[p], n)
  BY <1>3, <1>5 DEF Silent, Fields, LocalsOK, Asking
<1> QED BY <1>1, <1>2, <1>3, <1>4, <1>6, QuietStep DEF Moves, Fields, SyncStart

\* One turn of the sync loop.
LEMMA SyncStepInv ==
  ASSUME Inv, NEW p \in Proc, SyncStep(p)
  PROVE  Inv'
<1> DEFINE s == proc[p]
<1>1. TypeOK /\ s \in Locals /\ LocalsOK(s) /\ s.pc = "sync" /\ s.i \in Nat /\ s.i \in Buffer
  BY DEF Inv, TypeOK, LocalsInv, SyncStep, At, Locals
<1>2. CASE Flushes(s.i, s)
  <2> DEFINE n == [s EXCEPT !.pc = "ll_rw"]
  <2>1. proc' = [proc EXCEPT ![p] = n] /\ current' = p
    BY <1>2 DEF SyncStep, Goto, Become
  <2>2. Fields(n, "ll_rw", s.op, s.want, s.bh, s.victim, s.first, s.i, s.pass, s.dev, s.snap)
    BY <1>1, PcFields DEF Pc
  <2> HIDE DEF n
  <2>3. LocalsOK(n) /\ Silent(s, n)
    BY <1>1, <2>2 DEF LocalsOK, Fields, Asking, Silent
  <2> QED BY <2>1, <2>2, <2>3, QuietStep DEF Moves, Fields, SyncStep
<1>3. CASE ~Flushes(s.i, s)
  <2> DEFINE n == [s EXCEPT !.i = s.i + 1]
  <2>1. proc' = [proc EXCEPT ![p] = n] /\ current' = p
    BY <1>3 DEF SyncStep, Become
  <2>2. Fields(n, s.pc, s.op, s.want, s.bh, s.victim, s.first, s.i + 1, s.pass, s.dev, s.snap)
    <3>1. s.i + 1 \in Nat
      BY <1>1
    <3> QED BY <1>1, <3>1, IFields
  <2>3. s.op = "sync" => ~dirt[s.i]
    BY <1>1, <1>3 DEF Flushes, OnDev, LocalsOK
  <2>4. s.i + 1 # 0 /\ s.i # 0
    BY <1>1 DEF Buffer
  <2> HIDE DEF n
  <2>5. LocalsOK(n)
    BY <1>1, <2>2, <2>4 DEF LocalsOK, Fields, Asking
  <2>6. Silent(s, n)
    BY <1>1, <2>2, <2>3 DEF Fields, Silent
  <2> QED BY <2>1, <2>2, <2>5, <2>6, QuietStep DEF Moves, Fields, SyncStep
<1> QED BY <1>2, <1>3

\* The end of a sync loop.
LEMMA SyncEndInv ==
  ASSUME Inv, NEW p \in Proc, SyncEnd(p)
  PROVE  Inv'
<1> DEFINE s == proc[p]
<1>1. /\ TypeOK /\ s \in Locals /\ LocalsOK(s) /\ s.pc = "sync" /\ s.pass \in Pass
      /\ 1 \in Nat /\ 0 \in Nat /\ 2 \in Pass /\ 0 \in Pass /\ "none" \in Device /\ "victim" \in Pc
  BY DEF Inv, TypeOK, LocalsInv, SyncEnd, At, Locals, Pass, Device, Pc
<1>2. CASE s.pass = 1
  <2> DEFINE n == [s EXCEPT !.i = 1, !.pass = 2]
  <2>1. proc' = [proc EXCEPT ![p] = n] /\ current' = p
    BY <1>2 DEF SyncEnd, Become
  <2>2. Fields(n, s.pc, s.op, s.want, s.bh, s.victim, s.first, 1, 2, s.dev, s.snap)
    BY <1>1, IPassFields
  <2> HIDE DEF n
  <2>3. LocalsOK(n) /\ Silent(s, n)
    BY <1>1, <1>2, <2>2 DEF LocalsOK, Fields, Asking, Silent
  <2> QED BY <2>1, <2>2, <2>3, QuietStep DEF Moves, Fields, SyncEnd
<1>3. CASE s.pass = 2
  <2> DEFINE n == [s EXCEPT !.pc = "victim", !.i = 0, !.pass = 0, !.dev = "none"]
  <2>1. proc' = [proc EXCEPT ![p] = n] /\ current' = p
    BY <1>3 DEF SyncEnd, Become
  <2>2. Fields(n, "victim", s.op, s.want, s.bh, s.victim, s.first, 0, 0, "none", s.snap)
    BY <1>1, LoopFields
  <2> HIDE DEF n
  <2>3. LocalsOK(n) /\ Silent(s, n)
    BY <1>1, <1>3, <2>2 DEF LocalsOK, Fields, Asking, Silent
  <2> QED BY <2>1, <2>2, <2>3, QuietStep DEF Moves, Fields, SyncEnd
<1>4. CASE s.pass # 1 /\ s.pass # 2
  <2>1. proc' = [proc EXCEPT ![p] = IdleProc] /\ current' = None
    BY <1>4 DEF SyncEnd
  <2>2. s.pass = 0
    BY <1>1, <1>4 DEF Pass
  <2>3. /\ IdleProc.bh = 0 /\ IdleProc.first = 0 /\ IdleProc.pc = "idle" /\ IdleProc.op = "none"
    BY DEF IdleProc
  <2>4. Silent(s, IdleProc)
    BY <1>1, <2>2, <2>3 DEF LocalsOK, Asking, Silent, Breada
  <2> QED BY <2>1, <2>4, IdleLocals, QuietStep DEF Moves, SyncEnd
<1> QED BY <1>2, <1>3, <1>4

\* getblk chooses a victim.
LEMMA GetblkMissInv ==
  ASSUME Inv, NEW p \in Proc, GetblkMiss(p)
  PROVE  Inv'
<1> DEFINE s == proc[p]
<1>1. TypeOK /\ s \in Locals /\ LocalsOK(s) /\ s.pc = "getblk" /\ "victim" \in Pc
  BY DEF Inv, TypeOK, LocalsInv, GetblkMiss, At, Pc
<1>2. PICK v \in Buffer : Become(p, [s EXCEPT !.pc = "victim", !.victim = v])
  BY DEF GetblkMiss, Victims
<1> DEFINE n == [s EXCEPT !.pc = "victim", !.victim = v]
<1>3. v \in AnyBuffer /\ v # 0
  BY DEF AnyBuffer, Buffer
<1>4. Fields(n, "victim", s.op, s.want, s.bh, v, s.first, s.i, s.pass, s.dev, s.snap)
  BY <1>1, <1>3, VictimFields
<1>5. proc' = [proc EXCEPT ![p] = n] /\ current' = p
  BY <1>2 DEF Become
<1> HIDE DEF n
<1>6. LocalsOK(n) /\ Silent(s, n)
  BY <1>1, <1>3, <1>4 DEF LocalsOK, Fields, Asking, Silent
<1> QED BY <1>4, <1>5, <1>6, QuietStep DEF Moves, Fields, GetblkMiss

\* getblk sleeps on buffer_wait.
LEMMA GetblkFullInv ==
  ASSUME Inv, NEW p \in Proc, GetblkFull(p)
  PROVE  Inv'
<1> DEFINE s == proc[p]
           n == [s EXCEPT !.pc = "bufwait"]
<1>1. TypeOK /\ s \in Locals /\ LocalsOK(s) /\ s.pc = "getblk" /\ "bufwait" \in Pc
  BY DEF Inv, TypeOK, LocalsInv, GetblkFull, At, Pc
<1>2. Fields(n, "bufwait", s.op, s.want, s.bh, s.victim, s.first, s.i, s.pass, s.dev, s.snap)
  BY <1>1, PcFields
<1>3. proc' = [proc EXCEPT ![p] = n] /\ current' = None
  BY DEF GetblkFull
<1> HIDE DEF n
<1>4. LocalsOK(n) /\ Silent(s, n)
  BY <1>1, <1>2 DEF LocalsOK, Fields, Asking, Silent
<1> QED BY <1>2, <1>3, <1>4, QuietStep DEF Moves, Fields, GetblkFull

\* getblk starts over.
LEMMA VictimRepeatInv ==
  ASSUME Inv, NEW p \in Proc, VictimRepeat(p)
  PROVE  Inv'
<1> DEFINE s == proc[p]
           n == [s EXCEPT !.pc = "getblk", !.victim = 0]
<1>1. TypeOK /\ s \in Locals /\ LocalsOK(s) /\ s.pc = "victim" /\ "getblk" \in Pc /\ 0 \in AnyBuffer
  BY DEF Inv, TypeOK, LocalsInv, VictimRepeat, At, Pc, AnyBuffer
<1>2. Fields(n, "getblk", s.op, s.want, s.bh, 0, s.first, s.i, s.pass, s.dev, s.snap)
  BY <1>1, VictimFields
<1>3. proc' = [proc EXCEPT ![p] = n] /\ current' = p
  BY DEF VictimRepeat, Become
<1> HIDE DEF n
<1>4. LocalsOK(n) /\ Silent(s, n)
  BY <1>1, <1>2 DEF LocalsOK, Fields, Asking, Silent
<1> QED BY <1>2, <1>3, <1>4, QuietStep DEF Moves, Fields, VictimRepeat

\* getblk calls sync_dev.
LEMMA VictimSyncInv ==
  ASSUME Inv, NEW p \in Proc, VictimSync(p)
  PROVE  Inv'
<1> DEFINE s == proc[p]
           n == [s EXCEPT !.pc = "sync", !.i = 1, !.pass = 1, !.dev = DevOf(blk[s.victim])]
<1>1. /\ TypeOK /\ BlocksOK /\ s \in Locals /\ LocalsOK(s) /\ s.pc = "victim"
      /\ "sync" \in Pc /\ 1 \in Pass /\ 1 \in Nat
  BY DEF Inv, TypeOK, LocalsInv, VictimSync, At, Pc, Pass
<1>2. s.victim \in Buffer /\ dirt[s.victim]
  BY <1>1 DEF LocalsOK, Locals, AnyBuffer, VictimSync
<1>3. DevOf(blk[s.victim]) \in Device
  BY <1>1, <1>2 DEF BlocksOK, Device
<1>4. Fields(n, "sync", s.op, s.want, s.bh, s.victim, s.first, 1, 1, DevOf(blk[s.victim]), s.snap)
  BY <1>1, <1>3, LoopFields
<1>5. proc' = [proc EXCEPT ![p] = n] /\ current' = p
  BY DEF VictimSync, Become
<1> HIDE DEF n
<1>6. LocalsOK(n) /\ Silent(s, n)
  BY <1>1, <1>4 DEF LocalsOK, Fields, Asking, Silent
<1> QED BY <1>4, <1>5, <1>6, QuietStep DEF Moves, Fields, VictimSync

\* getblk returns the buffer it has found: while it waited the count kept the
\* buffer from being taken, so that the test never fails.
LEMMA HashWaitInv ==
  ASSUME Inv, NEW p \in Proc, HashWait(p)
  PROVE  Inv'
<1> DEFINE s == proc[p]
           n == Got(s, s.bh, uptodate[s.bh])
<1>1. TypeOK /\ BlocksOK /\ s \in Locals /\ LocalsOK(s) /\ s.pc = "hashwait" /\ s.bh # 0
  BY DEF Inv, TypeOK, LocalsInv, HashWait, At, LocalsOK
<1>2. blk[s.bh] = s.want /\ s.bh \in AnyBuffer
  BY <1>1 DEF BlocksOK, Locals
<1>3. proc' = [proc EXCEPT ![p] = n] /\ current' = p /\ count' = count
  BY <1>2 DEF HashWait, Become
<1>4. Fields(n, GotPc(s, uptodate[s.bh]), s.op, s.want, s.bh, 0, s.first, s.i, s.pass, s.dev, s.snap)
  BY <1>1, <1>2, GotFields
<1> HIDE DEF n
<1>5. LocalsOK(n)
  <2>1. s.i = 0 /\ s.pass = 0 /\ s.op # "sync" /\ s.want \in Block
    BY <1>1 DEF LocalsOK, Asking
  <2>2. GotPc(s, uptodate[s.bh]) \in {"tmp", "hold", "ll_rw", "ahead"}
    BY DEF GotPc
  <2>3. GotPc(s, uptodate[s.bh]) = "tmp" <=> s.first # 0
    BY DEF GotPc
  <2>4. GotPc(s, uptodate[s.bh]) \in {"ahead", "tmp"} \/ s.first # 0 => s.op \in Breada
    BY <1>1 DEF GotPc, LocalsOK
  <2> QED BY <1>1, <1>4, <2>1, <2>2, <2>3, <2>4 DEF LocalsOK, Fields, Asking
<1>6. Silent(s, n)
  BY <1>1, <1>4, <1>5 DEF LocalsOK, Fields, Silent, GotPc
<1>7. UNCHANGED <<buffers, request, disk, history>>
  BY <1>3 DEF HashWait, buffers
<1> QED BY <1>3, <1>4, <1>5, <1>6, <1>7, QuietStep DEF Moves, Fields

\* bread has waited for the buffer.
LEMMA ReadWaitInv ==
  ASSUME Inv, NEW p \in Proc, ReadWait(p)
  PROVE  Inv'
<1> DEFINE s == proc[p]
           x == IF uptodate[s.bh] THEN "hold" ELSE "brelse"
           n == [s EXCEPT !.pc = x]
<1>1. TypeOK /\ s \in Locals /\ LocalsOK(s) /\ s.pc = "readwait" /\ x \in Pc
  BY DEF Inv, TypeOK, LocalsInv, ReadWait, At, Pc
<1>2. proc' = [proc EXCEPT ![p] = n] /\ current' = p
  BY DEF ReadWait, Goto, Become
<1>3. Fields(n, x, s.op, s.want, s.bh, s.victim, s.first, s.i, s.pass, s.dev, s.snap)
  <2> HIDE DEF x
  <2> QED BY <1>1, PcFields
<1> HIDE DEF n
<1>4. LocalsOK(n) /\ Silent(s, n)
  BY <1>1, <1>3 DEF LocalsOK, Fields, Asking, Silent
<1> QED BY <1>2, <1>3, <1>4, QuietStep DEF Moves, Fields, ReadWait

\* The reader has copied the block.
LEMMA ReadInv ==
  ASSUME Inv, NEW p \in Proc, Read(p)
  PROVE  Inv'
<1> DEFINE s == proc[p]
           n == [s EXCEPT !.pc = "brelse"]
<1>1. TypeOK /\ s \in Locals /\ LocalsOK(s) /\ s.pc = "hold" /\ "brelse" \in Pc
  BY DEF Inv, TypeOK, LocalsInv, Read, At, Pc
<1>2. proc' = [proc EXCEPT ![p] = n] /\ current' = p
  BY DEF Read, Goto, Become
<1>3. Fields(n, "brelse", s.op, s.want, s.bh, s.victim, s.first, s.i, s.pass, s.dev, s.snap)
  BY <1>1, PcFields
<1> HIDE DEF n
<1>4. LocalsOK(n) /\ Silent(s, n)
  BY <1>1, <1>3 DEF LocalsOK, Fields, Asking, Silent
<1> QED BY <1>2, <1>3, <1>4, QuietStep DEF Moves, Fields, Read

-----------------------------------------------------------------------------
(* The use counts.                                                         *)

\* The size of a set of processes when one of them comes or goes.
LEMMA OneChanges ==
  ASSUME NEW S \in SUBSET Proc, NEW T \in SUBSET Proc, NEW p, S \ {p} = T \ {p}
  PROVE  /\ Cardinality(S) \in Nat /\ Cardinality(T) \in Nat
         /\ p \in S => Cardinality(S) # 0
         /\ (p \in S <=> p \in T) => Cardinality(T) = Cardinality(S)
         /\ p \notin S /\ p \in T => Cardinality(T) = Cardinality(S) + 1
         /\ p \in S /\ p \notin T => Cardinality(T) = Cardinality(S) - 1
<1>1. IsFiniteSet(S) /\ IsFiniteSet(T)
  BY BufferAssumption, FS_Subset
<1>2. Cardinality(S) \in Nat /\ Cardinality(T) \in Nat
  BY <1>1, FS_CardinalityType
<1>3. p \in S => Cardinality(S) # 0
  BY <1>1, FS_EmptySet
<1>4. CASE p \in S <=> p \in T
  <2>1. S = T
    BY <1>4
  <2> QED BY <1>2, <1>3, <1>4, <2>1
<1>5. CASE p \notin S /\ p \in T
  <2>1. T = S \cup {p}
    BY <1>5
  <2> QED BY <1>1, <1>2, <1>5, <2>1, FS_AddElement
<1>6. CASE p \in S /\ p \notin T
  <2>1. T = S \ {p}
    BY <1>6
  <2> QED BY <1>1, <1>2, <1>3, <1>6, <2>1, FS_RemoveElement
<1> QED BY <1>4, <1>5, <1>6

\* A buffer in a process's hands is in use.
LEMMA Counted ==
  ASSUME Inv, NEW p \in Proc, NEW b \in Buffer, proc[p].bh = b \/ proc[p].first = b
  PROVE  count[b] \in Nat \ {0}
<1> DEFINE B == {q \in Proc : proc[q].bh = b}
           F == {q \in Proc : proc[q].first = b}
<1>1. /\ Cardinality(B) \in Nat /\ Cardinality(F) \in Nat
      /\ p \in B => Cardinality(B) # 0
      /\ p \in F => Cardinality(F) # 0
  BY OneChanges
<1>2. p \in B \/ p \in F
  OBVIOUS
<1>3. count[b] = Cardinality(B) + Cardinality(F)
  BY DEF Inv, CountOK
<1> HIDE DEF B, F
<1> QED BY <1>1, <1>2, <1>3

\* p gets, gives back or passes on a buffer.
LEMMA Recount ==
  ASSUME Inv, NEW p \in Proc, NEW b \in Buffer,
         \A q \in Proc \ {p} : proc'[q].bh = proc[q].bh /\ proc'[q].first = proc[q].first
  PROVE  LET one(x) == IF x = b THEN 1 ELSE 0
             total == Cardinality({q \in Proc : proc[q].bh = b})'
                        + Cardinality({q \in Proc : proc[q].first = b})'
         IN  total = count[b] + one(proc'[p].bh) + one(proc'[p].first)
                              - one(proc[p].bh) - one(proc[p].first)
<1> DEFINE B == {q \in Proc : proc[q].bh = b}
           F == {q \in Proc : proc[q].first = b}
           C == {q \in Proc : proc'[q].bh = b}
           G == {q \in Proc : proc'[q].first = b}
<1>1. B \ {p} = C \ {p} /\ F \ {p} = G \ {p}
  OBVIOUS
<1>2. /\ p \in B <=> proc[p].bh = b
      /\ p \in F <=> proc[p].first = b
      /\ p \in C <=> proc'[p].bh = b
      /\ p \in G <=> proc'[p].first = b
  OBVIOUS
<1>3. B \in SUBSET Proc /\ F \in SUBSET Proc /\ C \in SUBSET Proc /\ G \in SUBSET Proc
  OBVIOUS
<1>4. count[b] = Cardinality(B) + Cardinality(F)
  BY DEF Inv, CountOK
<1> HIDE DEF B, C, F, G
<1>5. /\ Cardinality(B) \in Nat /\ Cardinality(C) \in Nat
      /\ (p \in B <=> p \in C) => Cardinality(C) = Cardinality(B)
      /\ p \notin B /\ p \in C => Cardinality(C) = Cardinality(B) + 1
      /\ p \in B /\ p \notin C => Cardinality(C) = Cardinality(B) - 1
  BY <1>1, <1>3, OneChanges
<1>6. /\ Cardinality(F) \in Nat /\ Cardinality(G) \in Nat
      /\ (p \in F <=> p \in G) => Cardinality(G) = Cardinality(F)
      /\ p \notin F /\ p \in G => Cardinality(G) = Cardinality(F) + 1
      /\ p \in F /\ p \notin G => Cardinality(G) = Cardinality(F) - 1
  BY <1>1, <1>3, OneChanges
<1>7. Cardinality(C) + Cardinality(G) =
        count[b] + (IF proc'[p].bh = b THEN 1 ELSE 0) + (IF proc'[p].first = b THEN 1 ELSE 0)
                 - (IF proc[p].bh = b THEN 1 ELSE 0) - (IF proc[p].first = b THEN 1 ELSE 0)
  BY <1>2, <1>4, <1>5, <1>6
<1> QED BY <1>7 DEF C, G

\* A buffer has a number and a count.
LEMMA BufferNat ==
  ASSUME TypeOK
  PROVE  \A c \in Buffer : c \in Nat /\ c # 0 /\ count[c] \in Nat
<1>1. \A c \in Buffer : c \in Nat /\ c # 0
  BY DEF Buffer
<1>2. \A c \in Buffer : count[c] \in Nat
  BY DEF TypeOK
<1> QED BY <1>1, <1>2

\* The counts follow what p does.
LEMMA CountStep ==
  ASSUME Inv, NEW p \in Proc,
         \A q \in Proc \ {p} : proc'[q].bh = proc[q].bh /\ proc'[q].first = proc[q].first,
         \A b \in Buffer :
           count'[b] = count[b] + (IF proc'[p].bh = b THEN 1 ELSE 0) + (IF proc'[p].first = b THEN 1 ELSE 0)
                        - (IF proc[p].bh = b THEN 1 ELSE 0) - (IF proc[p].first = b THEN 1 ELSE 0)
  PROVE  CountOK'
<1> SUFFICES ASSUME NEW b \in Buffer
             PROVE  count'[b] = Cardinality({q \in Proc : proc[q].bh = b})'
                                  + Cardinality({q \in Proc : proc[q].first = b})'
  BY DEF CountOK
<1> QED BY Recount

\* get_hash_table finds the block.
LEMMA GetblkHitInv ==
  ASSUME Inv, NEW p \in Proc, GetblkHit(p)
  PROVE  Inv'
<1> DEFINE s == proc[p]
<1>1. TypeOK /\ s \in Locals /\ LocalsOK(s) /\ s.pc = "getblk" /\ "hashwait" \in Pc
  BY DEF Inv, TypeOK, LocalsInv, GetblkHit, At, Pc
<1>2. PICK b \in find_buffer(s.want) :
        /\ count' = [count EXCEPT ![b] = @ + 1]
        /\ Become(p, [s EXCEPT !.pc = "hashwait", !.bh = b])
  BY DEF GetblkHit
<1> DEFINE n == [s EXCEPT !.pc = "hashwait", !.bh = b]
<1>3. b \in Buffer /\ b \in AnyBuffer /\ b # 0 /\ blk[b] = s.want
  BY DEF find_buffer, AnyBuffer, Buffer
<1>4. proc' = [proc EXCEPT ![p] = n] /\ current' = p
  BY <1>2 DEF Become
<1>5. Fields(n, "hashwait", s.op, s.want, b, s.victim, s.first, s.i, s.pass, s.dev, s.snap)
  BY <1>1, <1>3, HitFields
<1> HIDE DEF n
<1>6. LocalsOK(n) /\ s.bh = 0
  BY <1>1, <1>3, <1>5 DEF LocalsOK, Fields, Asking
<1>7. proc' \in [Proc -> Locals] /\ LocalsInv' /\ proc'[p] = n /\ \A q \in Proc \ {p} : proc'[q] = proc[q]
  BY <1>4, <1>5, <1>6, MovesLemma DEF Moves, Fields, Inv
<1>8. CountOK' /\ count' \in [Buffer -> Nat]
  <2>1. count' \in [Buffer -> Nat] /\ \A c \in Buffer : count'[c] = IF c = b THEN count[c] + 1 ELSE count[c]
    BY <1>1, <1>2, <1>3 DEF TypeOK
  <2>2. \A c \in Buffer : count[c] \in Nat /\ c # 0
    BY <1>1, BufferNat
  <2>3. n.bh = b /\ n.first = s.first
    BY <1>5 DEF Fields
  <2>4. \A c \in Buffer :
          count'[c] = count[c] + (IF n.bh = c THEN 1 ELSE 0) + (IF n.first = c THEN 1 ELSE 0)
                        - (IF s.bh = c THEN 1 ELSE 0) - (IF s.first = c THEN 1 ELSE 0)
    BY <1>6, <2>1, <2>2, <2>3
  <2> QED BY <1>7, <2>1, <2>4, CountStep
<1>9. Calm(s, n)
  BY <1>1, <1>3, <1>5, HeldBlocks DEF Calm, Fields, LocalsOK
<1>10. \A q \in Proc : Calm(proc[q], proc'[q])
  BY <1>7, <1>9, CalmOther
<1> QED BY <1>4, <1>7, <1>8, <1>10, CalmStep DEF GetblkHit

\* breada keeps its buffer in first and calls getblk, or waits.
LEMMA AheadNextInv ==
  ASSUME Inv, NEW p \in Proc, AheadNext(p)
  PROVE  Inv'
<1> DEFINE s == proc[p]
<1>1. /\ TypeOK /\ s \in Locals /\ LocalsOK(s) /\ s.pc = "ahead" /\ "readwait" \in Pc /\ "getblk" \in Pc
      /\ 0 \in AnyBuffer
  BY DEF Inv, TypeOK, LocalsInv, AheadNext, At, Pc, AnyBuffer
<1>2. CASE s.ahead = <<>>
  <2> DEFINE n == [s EXCEPT !.pc = "readwait"]
  <2>1. proc' = [proc EXCEPT ![p] = n] /\ current' = p
    BY <1>2 DEF AheadNext, Goto, Become
  <2>2. Fields(n, "readwait", s.op, s.want, s.bh, s.victim, s.first, s.i, s.pass, s.dev, s.snap)
    BY <1>1, PcFields
  <2> HIDE DEF n
  <2>3. LocalsOK(n) /\ Silent(s, n)
    BY <1>1, <2>2 DEF LocalsOK, Fields, Asking, Silent
  <2> QED BY <2>1, <2>2, <2>3, QuietStep DEF Moves, Fields, AheadNext
<1>3. CASE s.ahead # <<>>
  <2> DEFINE w == Head(s.ahead)
             a == Tail(s.ahead)
             n == [s EXCEPT !.pc = "getblk", !.want = w, !.ahead = a, !.first = s.bh, !.bh = 0]
  <2>0. w \in Block /\ w \in AnyBlock /\ a \in Seq(Block) /\ s.bh \in AnyBuffer
    BY <1>1, <1>3 DEF Locals, AnyBlock
  <2>1. proc' = [proc EXCEPT ![p] = n] /\ current' = p
    BY <1>3 DEF AheadNext, Become
  <2>2. Fields(n, "getblk", s.op, w, 0, s.victim, s.bh, s.i, s.pass, s.dev, s.snap)
    <3> HIDE DEF w, a
    <3> QED BY <1>1, <2>0, AheadFields
  <2> HIDE DEF n, w, a
  <2>3. LocalsOK(n) /\ s.first = 0 /\ s.bh # 0
    BY <1>1, <2>0, <2>2 DEF LocalsOK, Fields, Asking
  <2>4. proc' \in [Proc -> Locals] /\ LocalsInv' /\ proc'[p] = n /\ \A q \in Proc \ {p} : proc'[q] = proc[q]
    BY <2>1, <2>2, <2>3, MovesLemma DEF Moves, Fields, Inv
  <2>5. CountOK' /\ count' = count
    <3>1. \A c \in Buffer : count[c] \in Nat /\ c # 0
      BY <1>1, BufferNat
    <3>2. n.bh = 0 /\ n.first = s.bh
      BY <2>2 DEF Fields
    <3>3. count' = count
      BY DEF AheadNext, buffers
    <3>4. \A c \in Buffer :
            count'[c] = count[c] + (IF n.bh = c THEN 1 ELSE 0) + (IF n.first = c THEN 1 ELSE 0)
                          - (IF s.bh = c THEN 1 ELSE 0) - (IF s.first = c THEN 1 ELSE 0)
      BY <2>3, <3>1, <3>2, <3>3
    <3> QED BY <2>4, <3>3, <3>4, CountStep
  <2>6. Calm(s, n)
    <3>1. blk[s.bh] \in Block
      BY <1>1, <2>3, HeldBlocks DEF LocalsOK, Asking, Breada
    <3> QED BY <1>1, <2>2, <2>3, <3>1 DEF Calm, Fields, LocalsOK
  <2>7. \A q \in Proc : Calm(proc[q], proc'[q])
    BY <2>4, <2>6, CalmOther
  <2> QED BY <1>1, <2>1, <2>4, <2>5, <2>7, CalmStep DEF AheadNext, buffers, TypeOK
<1> QED BY <1>2, <1>3

\* A process that sleeps on buffer_wait and starts over.
LEMMA WokenLocals ==
  ASSUME Inv, NEW q \in Proc
  PROVE  LET n == WakeBufferWait(proc[q]) IN
         /\ n \in Locals /\ LocalsOK(n) /\ n.bh = proc[q].bh /\ n.first = proc[q].first
         /\ Calm(proc[q], n)
<1> DEFINE s == proc[q]
           n == [s EXCEPT !.pc = "getblk"]
<1>1. CASE s.pc = "bufwait"
  <2>1. s \in Locals /\ LocalsOK(s) /\ "getblk" \in Pc
    BY HeldBlocks DEF Pc
  <2>2. Fields(n, "getblk", s.op, s.want, s.bh, s.victim, s.first, s.i, s.pass, s.dev, s.snap)
    BY <2>1, PcFields
  <2>3. WakeBufferWait(s) = n
    BY <1>1 DEF WakeBufferWait
  <2> HIDE DEF n
  <2>4. LocalsOK(n)
    BY <1>1, <2>1, <2>2 DEF LocalsOK, Fields, Asking
  <2>5. Calm(s, n)
    BY <1>1, <2>1, <2>2, HeldBlocks DEF Calm, Fields
  <2> QED BY <2>2, <2>3, <2>4, <2>5 DEF Fields
<1>2. CASE s.pc # "bufwait"
  BY <1>2, HeldBlocks, CalmOther DEF WakeBufferWait
<1> QED BY <1>1, <1>2

\* brelse.
LEMMA BrelseInv ==
  ASSUME Inv, NEW p \in Proc, Brelse(p)
  PROVE  Inv'
<1> DEFINE s == proc[p]
<1>1. TypeOK /\ s \in Locals /\ LocalsOK(s) /\ s.pc = "brelse"
  BY DEF Inv, TypeOK, LocalsInv, Brelse, At
<1>2. s.bh \in Buffer /\ s.first = 0
  BY <1>1 DEF Locals, LocalsOK, AnyBuffer, Asking
<1>3. /\ proc'[p] = IdleProc
      /\ \A q \in Proc \ {p} : proc'[q] = WakeBufferWait(proc[q])
      /\ current' = None /\ count' = [count EXCEPT ![s.bh] = @ - 1]
  BY DEF Brelse
<1>4. proc' \in [Proc -> Locals]
  <2>1. proc' = [q \in Proc |-> proc'[q]]
    BY DEF Brelse
  <2>2. \A q \in Proc : proc'[q] \in Locals
    BY <1>3, IdleLocals, WokenLocals
  <2> QED BY <2>1, <2>2
<1>5. LocalsInv'
  BY <1>3, IdleLocals, WokenLocals DEF LocalsInv
<1>6. IdleProc.bh = 0 /\ IdleProc.first = 0 /\ IdleProc.pc = "idle" /\ IdleProc.op = "none"
  BY DEF IdleProc
<1>7. \A q \in Proc : Calm(proc[q], proc'[q])
  <2>1. Calm(s, IdleProc)
    BY <1>1, <1>6 DEF Calm
  <2> QED BY <1>3, <2>1, WokenLocals
<1>8. CountOK' /\ count' \in [Buffer -> Nat]
  <2>1. count[s.bh] \in Nat \ {0}
    BY <1>2, Counted
  <2>2. \A c \in Buffer : count[c] \in Nat /\ c # 0
    BY <1>1, BufferNat
  <2>3. count' \in [Buffer -> Nat] /\ \A c \in Buffer : count'[c] = IF c = s.bh THEN count[c] - 1 ELSE count[c]
    BY <1>1, <1>2, <1>3, <2>1 DEF TypeOK
  <2>4. \A q \in Proc \ {p} : proc'[q].bh = proc[q].bh /\ proc'[q].first = proc[q].first
    BY <1>3, WokenLocals
  <2>5. \A c \in Buffer :
          count'[c] = count[c] + (IF IdleProc.bh = c THEN 1 ELSE 0) + (IF IdleProc.first = c THEN 1 ELSE 0)
                        - (IF s.bh = c THEN 1 ELSE 0) - (IF s.first = c THEN 1 ELSE 0)
    BY <1>2, <1>6, <2>2, <2>3
  <2> QED BY <1>3, <2>3, <2>4, <2>5, CountStep
<1> QED BY <1>3, <1>4, <1>5, <1>7, <1>8, CalmStep DEF Brelse

-----------------------------------------------------------------------------
(* Requests.                                                               *)

\* Where ll_rw_block returns to.
LEMMA AfterFields ==
  ASSUME NEW s \in Locals, LocalsOK(s), s.pc \in Asking
  PROVE  LET n == AfterRequest(s) IN
         /\ n \in Locals /\ LocalsOK(n) /\ n.bh = s.bh /\ n.first = s.first /\ n.want = s.want
         /\ n.op = s.op /\ n.snap = s.snap
         /\ n.pc \in {"sync", "ahead", "readwait"}
         /\ n.i = IF s.i = 0 THEN 0 ELSE s.i + 1
<1>1. CASE s.i # 0
  <2> DEFINE n == [s EXCEPT !.pc = "sync", !.i = s.i + 1]
  <2>0. s.i + 1 \in Nat /\ s.i + 1 # 0 /\ "sync" \in Pc
    BY <1>1 DEF Locals, Pc
  <2>1. AfterRequest(s) = n
    BY <1>1 DEF AfterRequest
  <2>2. Fields(n, "sync", s.op, s.want, s.bh, s.victim, s.first, s.i + 1, s.pass, s.dev, s.snap)
    <3>1. \A y \in Nat :
            Fields([s EXCEPT !.pc = "sync", !.i = y],
                   "sync", s.op, s.want, s.bh, s.victim, s.first, y, s.pass, s.dev, s.snap)
      BY <2>0, PcIFields
    <3> QED BY <2>0, <3>1
  <2> HIDE DEF n
  <2>3. LocalsOK(n)
    BY <1>1, <2>0, <2>2 DEF LocalsOK, Fields, Asking
  <2> QED BY <1>1, <2>1, <2>2, <2>3 DEF Fields
<1>2. CASE s.i = 0
  <2> DEFINE x == IF s.op \in Breada THEN "ahead" ELSE "readwait"
             n == [s EXCEPT !.pc = x]
  <2>0. x \in Pc /\ x \in {"ahead", "readwait"}
    BY DEF Pc
  <2>1. AfterRequest(s) = n
    BY <1>2 DEF AfterRequest
  <2>2. Fields(n, x, s.op, s.want, s.bh, s.victim, s.first, s.i, s.pass, s.dev, s.snap)
    <3> HIDE DEF x
    <3> QED BY <2>0, PcFields
  <2> HIDE DEF n
  <2>3. LocalsOK(n)
    BY <1>2, <2>2 DEF LocalsOK, Fields, Asking
  <2> QED BY <1>2, <2>0, <2>1, <2>2, <2>3 DEF Fields
<1> QED BY <1>1, <1>2

\* The buffer a process asks for.
LEMMA AskedFor ==
  ASSUME Inv, NEW p \in Proc, proc[p].pc \in Asking
  PROVE  /\ ReqBuf(proc[p]) \in Buffer
         /\ proc[p].i # 0 => ReqBuf(proc[p]) = proc[p].i /\ ReqCmd(proc[p]) = WRITE
         /\ proc[p].i = 0 => /\ ReqBuf(proc[p]) = proc[p].bh /\ ReqCmd(proc[p]) = READ
                             /\ blk[proc[p].bh] \in Block
<1> DEFINE s == proc[p]
<1>1. s \in Locals /\ LocalsOK(s)
  BY HeldBlocks
<1>2. CASE s.i # 0
  BY <1>1, <1>2 DEF LocalsOK, ReqBuf, ReqCmd
<1>3. CASE s.i = 0
  <2>1. s.bh \in Buffer /\ s.want \in Block
    BY <1>1, <1>3 DEF LocalsOK, Locals, AnyBuffer, Asking
  <2> QED BY <1>3, <2>1, HeldBlocks DEF ReqBuf, ReqCmd, Buffer
<1> QED BY <1>2, <1>3

\* lock_buffer.
LEMMA LockStep ==
  ASSUME Inv, NEW p \in Proc, LlRw(p), ~NothingToDo(proc[p])
  PROVE  Inv'
<1> DEFINE s == proc[p]
           b == ReqBuf(s)
           n == [s EXCEPT !.pc = "slot"]
<1>1. /\ TypeOK /\ s \in Locals /\ LocalsOK(s) /\ s.pc = "ll_rw" /\ ~lock[b] /\ "slot" \in Pc /\ "ll_rw" \in Pc
      /\ s.pc \in Asking
  BY HeldBlocks, AtFacts DEF LlRw, Pc, Inv, Asking
<1>2. b \in Buffer
  BY <1>1, AskedFor
<1>3. proc' = [proc EXCEPT ![p] = n] /\ current' = p /\ lock' = [lock EXCEPT ![b] = TRUE]
  BY DEF LlRw, Goto, Become
<1>4. Fields(n, "slot", s.op, s.want, s.bh, s.victim, s.first, s.i, s.pass, s.dev, s.snap)
  BY <1>1, PcFields
<1>5. /\ blk' = blk /\ count' = count /\ dirt' = dirt /\ uptodate' = uptodate
      /\ data' = data /\ request' = request /\ disk' = disk
      /\ latest' = latest /\ lost' = lost /\ errors' = errors
  BY DEF LlRw, history
<1> HIDE DEF n
<1>6. LocalsOK(n)
  BY <1>1, <1>4 DEF LocalsOK, Fields, Asking
<1>7. proc' \in [Proc -> Locals] /\ LocalsInv' /\ proc'[p] = n /\ \A q \in Proc \ {p} : proc'[q] = proc[q]
  BY <1>3, <1>4, <1>6, MovesLemma DEF Moves, Fields, Inv
<1>8. IF s.i = 0 THEN ~uptodate[s.bh] ELSE dirt[s.i]
  BY <1>1, AskedFor DEF NothingToDo, READ, WRITE
<1>9. blk[b] \in Block
  BY <1>1, <1>2, <1>8, AskedFor DEF Inv, BlocksOK
<1>10. lock' \in [Buffer -> BOOLEAN] /\ lock'[b] /\ \A c \in Buffer \ {b} : lock'[c] = lock[c]
  BY <1>1, <1>2, <1>3 DEF TypeOK
<1>11. TypeOK'
  BY <1>1, <1>3, <1>5, <1>7, <1>10 DEF TypeOK
<1>12. UniqueBlock'
  BY <1>5 DEF Inv, UniqueBlock
<1>13. CountOK'
  <2>1. ASSUME NEW c \in Buffer
        PROVE  /\ {q \in Proc : proc'[q].bh = c} = {q \in Proc : proc[q].bh = c}
               /\ {q \in Proc : proc'[q].first = c} = {q \in Proc : proc[q].first = c}
    BY <1>4, <1>7 DEF Fields
  <2> QED BY <1>5, <2>1 DEF CountOK, Inv
<1>14. BlocksOK'
  BY <1>4, <1>5, <1>7, <1>9, <1>10 DEF Inv, BlocksOK, Fields
<1>15. \A q \in Proc, c \in Buffer : Locking(q, c)' <=> Locking(q, c) \/ (q = p /\ c = b)
  BY <1>1, <1>4, <1>7 DEF Locking, Fields, ReqBuf
<1>16. OwnerOK'
  <2>1. \A r \in Slot : request[r].bh # b
    BY <1>1, <1>2, BufferNat DEF Inv, OwnerOK
  <2>2. \A q \in Proc : ~Locking(q, b)
    BY <1>1, <1>2 DEF Inv, OwnerOK
  <2>3. \A r \in Slot : request[r].bh # 0 => request[r].bh \in Buffer
    BY <1>1 DEF TypeOK, Free
  <2> QED BY <1>2, <1>5, <1>10, <1>15, <2>1, <2>2, <2>3 DEF Inv, OwnerOK
<1>17. RequestOK'
  BY <1>1, <1>4, <1>5, <1>7, <1>8 DEF Inv, RequestOK, Fields
<1>18. GoodOK'
  <2>1. \A c : Good(c)' <=> Good(c)
    BY <1>5 DEF Good
  <2> QED BY <1>4, <1>5, <1>7, <2>1 DEF Inv, GoodOK, Fields
<1>19. DurableOK'
  BY <1>5 DEF Inv, DurableOK, Unwritten, find_buffer
<1>20. SyncOK'
  <2>0. \A k, v, i : Flushed(k, v, i)' <=> Flushed(k, v, i)
    BY <1>5 DEF Flushed, find_buffer, Unwritten
  <2>1. \A q \in Proc : proc'[q].op = proc[q].op /\ proc'[q].snap = proc[q].snap /\ proc'[q].i = proc[q].i
    BY <1>4, <1>7 DEF Fields
  <2> QED BY <1>5, <2>0, <2>1 DEF Inv, SyncOK
<1> QED BY <1>7, <1>11, <1>12, <1>13, <1>14, <1>16, <1>17, <1>18, <1>19, <1>20 DEF Inv

\* ll_rw_block.
LEMMA LlRwInv ==
  ASSUME Inv, NEW p \in Proc, LlRw(p)
  PROVE  Inv'
<1> DEFINE s == proc[p]
           n == AfterRequest(s)
<1>1. CASE NothingToDo(s)
  <2>1. s \in Locals /\ LocalsOK(s) /\ s.pc = "ll_rw" /\ s.pc \in Asking
    BY HeldBlocks DEF LlRw, At, Asking
  <2>2. proc' = [proc EXCEPT ![p] = n] /\ current' = p /\ lock' = lock
    BY <1>1 DEF LlRw, Become
  <2>3. /\ n \in Locals /\ LocalsOK(n) /\ n.bh = s.bh /\ n.first = s.first /\ n.want = s.want
        /\ n.op = s.op /\ n.snap = s.snap /\ n.pc \in {"sync", "ahead", "readwait"}
        /\ n.i = IF s.i = 0 THEN 0 ELSE s.i + 1
    BY <2>1, AfterFields
  <2> HIDE DEF n
  <2>4. s.i # 0 => ~dirt[s.i]
    BY <1>1, <2>1, AskedFor DEF NothingToDo
  <2>5. Silent(s, n)
    BY <2>1, <2>3, <2>4 DEF Silent
  <2>6. UNCHANGED <<buffers, request, disk, history>>
    BY <2>2 DEF LlRw, buffers
  <2> QED BY <2>2, <2>3, <2>5, <2>6, QuietStep DEF Moves
<1>2. CASE ~NothingToDo(s)
  BY <1>2, LockStep
<1> QED BY <1>1, <1>2

\* add_request for buffer b in slot r, by process p that has locked it or locks
\* it now; n is what becomes of p.
Issues(p, n, b, cmd, r) ==
  /\ request[r] = Free
  /\ request' = [request EXCEPT ![r] = [bh |-> b, cmd |-> cmd, moved |-> FALSE]]
  /\ lock' = [lock EXCEPT ![b] = TRUE]
  /\ dirt' = [dirt EXCEPT ![b] = FALSE]
  /\ lost' = lost \cup (IF cmd = READ THEN ReadOver(b) ELSE {})
  /\ Moves(p, n)
  /\ UNCHANGED <<blk, uptodate, data, disk, latest, errors>>

\* What p must know of b for this, and do to its locals.
MayIssue(p, n, b, cmd) ==
  /\ blk[b] \in Block
  /\ IF cmd = READ THEN ~uptodate[b] ELSE dirt[b]
  /\ \A r \in Slot : request[r].bh # b
  /\ \A q \in Proc \ {p} : ~Locking(q, b)
  /\ \A c \in Buffer \ {b} : ~Locking(p, c)
  /\ n.pc \in {"sync", "ahead", "readwait"}
  /\ n.bh # 0 => blk[n.bh] = n.want
  /\ n.first # 0 => blk[n.first] \in Block
  /\ n.op = proc[p].op /\ n.snap = proc[p].snap
  /\ n.op = "sync" => cmd = WRITE /\ proc[p].i = b /\ n.i = b + 1

\* A request keeps the invariant.
LEMMA IssueStep ==
  ASSUME Inv, NEW p \in Proc, NEW n, NEW b \in Buffer, NEW cmd \in {READ, WRITE}, NEW r \in Slot,
         Issues(p, n, b, cmd, r), MayIssue(p, n, b, cmd),
         count' \in [Buffer -> Nat], CountOK', current' \in Proc \cup {None}
  PROVE  Inv'
<1> DEFINE rq == [bh |-> b, cmd |-> cmd, moved |-> FALSE]
<1>1. TypeOK /\ LocalsInv /\ UniqueBlock /\ BlocksOK /\ OwnerOK /\ RequestOK /\ GoodOK /\ DurableOK /\ SyncOK
  BY DEF Inv
<1>2. proc' \in [Proc -> Locals] /\ LocalsInv' /\ proc'[p] = n /\ \A q \in Proc \ {p} : proc'[q] = proc[q]
  BY <1>1, MovesLemma DEF Issues
<1>3. /\ blk' = blk /\ uptodate' = uptodate /\ data' = data /\ disk' = disk
      /\ latest' = latest /\ errors' = errors
  BY DEF Issues
<1>4. lock' \in [Buffer -> BOOLEAN] /\ lock'[b] /\ \A c \in Buffer \ {b} : lock'[c] = lock[c]
  BY <1>1 DEF TypeOK, Issues
<1>5. dirt' \in [Buffer -> BOOLEAN] /\ ~dirt'[b] /\ \A c \in Buffer \ {b} : dirt'[c] = dirt[c]
  BY <1>1 DEF TypeOK, Issues
<1>6. rq.bh = b /\ rq.cmd = cmd /\ rq.moved = FALSE
  OBVIOUS
<1>7. /\ request' \in [Slot -> {Free} \cup [bh : Buffer, cmd : {READ, WRITE}, moved : BOOLEAN]]
      /\ request'[r] = rq /\ \A t \in Slot \ {r} : request'[t] = request[t]
  <2>1. rq \in [bh : Buffer, cmd : {READ, WRITE}, moved : BOOLEAN]
    OBVIOUS
  <2>2. request \in [Slot -> {Free} \cup [bh : Buffer, cmd : {READ, WRITE}, moved : BOOLEAN]]
    BY <1>1 DEF TypeOK
  <2>3. request' = [request EXCEPT ![r] = rq]
    BY DEF Issues
  <2> HIDE DEF rq
  <2> QED BY <2>1, <2>2, <2>3
<1>8. lost' \in SUBSET Block /\ lost \subseteq lost' /\ (cmd = READ /\ dirt[b] => blk[b] \in lost')
      /\ \A k \in lost' \ lost : k = blk[b] /\ cmd = READ
  BY <1>1 DEF TypeOK, Issues, MayIssue, ReadOver
<1>9. request[r].bh = 0 /\ request[r].cmd = "none" /\ request[r].moved = FALSE
  BY DEF Issues, Free
<1> HIDE DEF rq
<1>10. b # 0 /\ \A c \in Buffer : c # 0 /\ c \in Nat
  BY <1>1, BufferNat
<1>11. TypeOK'
  BY <1>1, <1>2, <1>3, <1>4, <1>5, <1>7, <1>8 DEF TypeOK
<1>12. UniqueBlock'
  BY <1>1, <1>3 DEF UniqueBlock
<1>13. BlocksOK'
  BY <1>1, <1>2, <1>3, <1>4, <1>5 DEF BlocksOK, MayIssue
<1>14. \A q \in Proc, c \in Buffer : Locking(q, c)' <=> Locking(q, c) /\ c # b
  BY <1>2 DEF MayIssue, Locking
<1>15. \A t \in Slot : request[t].bh # 0 => request[t].bh \in Buffer
  BY <1>1 DEF TypeOK, Free
<1>16. OwnerOK'
  <2>1. \A t \in Slot : request'[t].bh # 0 => lock'[request'[t].bh]
    BY <1>1, <1>4, <1>6, <1>7, <1>15 DEF OwnerOK
  <2>2. \A q \in Proc, c \in Buffer : Locking(q, c)' => lock'[c]
    BY <1>1, <1>4, <1>14 DEF OwnerOK
  <2>3. \A c \in Buffer : lock'[c] => (\E t \in Slot : request'[t].bh = c) \/ (\E q \in Proc : Locking(q, c)')
    BY <1>1, <1>4, <1>6, <1>7, <1>9, <1>10, <1>14 DEF OwnerOK
  <2>4. \A t, u \in Slot : request'[t].bh # 0 /\ request'[t].bh = request'[u].bh => t = u
    BY <1>1, <1>6, <1>7 DEF OwnerOK, MayIssue
  <2>5. \A c \in Buffer, o, q \in Proc : Locking(o, c)' /\ Locking(q, c)' => o = q
    BY <1>1, <1>14 DEF OwnerOK
  <2>6. \A t \in Slot, q \in Proc : request'[t].bh # 0 => ~(proc'[q].pc = "slot" /\ ReqBuf(proc'[q]) = request'[t].bh)
    <3> SUFFICES ASSUME NEW t \in Slot, NEW q \in Proc, NEW c, c = request'[t].bh, c # 0
                 PROVE  ~Locking(q, c)'
      BY DEF Locking
    <3>1. CASE t = r
      BY <1>6, <1>7, <1>14, <3>1
    <3>2. CASE t # r
      <4>1. c = request[t].bh /\ c \in Buffer
        BY <1>7, <1>15, <3>2
      <4>2. ~Locking(q, c)
        BY <1>1, <4>1 DEF OwnerOK
      <4> QED BY <1>14, <4>1, <4>2
    <3> QED BY <3>1, <3>2
  <2> QED BY <2>1, <2>2, <2>3, <2>4, <2>5, <2>6 DEF OwnerOK, Locking
<1>17. RequestOK'
  <2>1. ASSUME NEW q \in Proc, proc'[q].pc = "slot"
        PROVE  IF proc'[q].i = 0 THEN ~uptodate'[proc'[q].bh] ELSE dirt'[proc'[q].i]
    <3>1. q # p /\ proc'[q] = proc[q]
      BY <1>2, <2>1 DEF MayIssue
    <3>2. IF proc[q].i = 0 THEN ~uptodate[proc[q].bh] ELSE dirt[proc[q].i]
      BY <1>1, <2>1, <3>1 DEF RequestOK
    <3>3. proc[q].i # 0 => proc[q].i \in Buffer /\ proc[q].i # b
      BY <1>1, <2>1, <3>1, AskedFor DEF MayIssue, Locking, Asking, Inv
    <3> QED BY <1>3, <1>5, <3>1, <3>2, <3>3
  <2>2. \A t \in Slot : request'[t].cmd = READ => ~uptodate'[request'[t].bh]
    BY <1>1, <1>3, <1>6, <1>7 DEF RequestOK, MayIssue
  <2> QED BY <2>1, <2>2 DEF RequestOK
<1>18. \A c \in Buffer : Good(c) => Good(c)'
  BY <1>3, <1>8 DEF Good
<1>19. GoodOK'
  <2>1. \A c \in Buffer : uptodate'[c] \/ dirt'[c] => Good(c)'
    BY <1>1, <1>3, <1>5, <1>18 DEF GoodOK
  <2>2. ASSUME NEW t \in Slot, request'[t].cmd = WRITE \/ request'[t].moved
        PROVE  \E c \in Buffer : c = request'[t].bh /\ Good(c)'
    <3>1. CASE t = r
      <4>1. cmd = WRITE
        BY <1>6, <1>7, <2>2, <3>1
      <4>2. dirt[b]
        BY <4>1 DEF MayIssue, READ, WRITE
      <4> QED BY <1>1, <1>6, <1>7, <1>18, <3>1, <4>2 DEF GoodOK
    <3>2. CASE t # r
      <4>1. request[t].bh \in Buffer /\ Good(request[t].bh)
        <5>1. request[t].cmd = WRITE \/ request[t].moved
          BY <1>7, <2>2, <3>2
        <5>2. request[t] # Free
          BY <5>1 DEF Free, WRITE
        <5> QED BY <1>1, <5>1, <5>2 DEF TypeOK, GoodOK
      <4> QED BY <1>7, <1>18, <3>2, <4>1
    <3> QED BY <3>1, <3>2
  <2>3. ASSUME NEW q \in Proc, proc'[q].pc \in {"hold", "copy"}, proc'[q].op # "full_write"
        PROVE  \E c \in Buffer : c = proc'[q].bh /\ Good(c)'
    <3>1. q # p /\ proc'[q] = proc[q]
      BY <1>2, <2>3 DEF MayIssue
    <3>2. proc[q].bh \in Buffer
      BY <1>1, <2>3, <3>1 DEF LocalsInv, LocalsOK, TypeOK, Locals, AnyBuffer
    <3> QED BY <1>1, <1>18, <2>3, <3>1, <3>2 DEF GoodOK
  <2> QED BY <2>1, <2>2, <2>3 DEF GoodOK, Good
<1>20. /\ \A c \in Buffer : Unwritten(c) => Unwritten(c)'
       /\ cmd = WRITE => Unwritten(b)'
  BY <1>6, <1>7, <1>9, <1>10 DEF Unwritten
<1>21. \A k \in Block \ lost' : \A c \in find_buffer(k) :
          dirt[c] => dirt'[c] \/ (c = b /\ Unwritten(c)')
  BY <1>5, <1>8, <1>20 DEF find_buffer
<1>22. DurableOK'
  <2>1. \A k \in Block \ lost' : k \in Block \ lost
    BY <1>8
  <2> QED BY <1>1, <1>3, <1>20, <1>21, <2>1 DEF DurableOK, find_buffer
<1>23. SyncOK'
  <2> SUFFICES ASSUME NEW q \in Proc, proc'[q].op = "sync", NEW k \in Block,
                      NEW i, i = proc'[q].i, NEW v, v = proc'[q].snap[k]
               PROVE  v <= latest[k] /\ (k \notin lost' => Flushed(k, v, i)')
    BY <1>3 DEF SyncOK, Flushed
  <2>1. proc[q].op = "sync" /\ v = proc[q].snap[k]
    BY <1>2 DEF MayIssue
  <2>2. \A c \in Buffer : c >= proc[q].i => c >= i \/ c = b
    BY <1>2, <1>10 DEF MayIssue
  <2>3. \A c \in find_buffer(k) : k \notin lost' /\ (Unwritten(c) \/ (dirt[c] /\ c >= proc[q].i)) =>
          Unwritten(c)' \/ (dirt'[c] /\ c >= i)
    <3> SUFFICES ASSUME NEW c \in find_buffer(k), k \notin lost', Unwritten(c) \/ (dirt[c] /\ c >= proc[q].i)
                 PROVE  Unwritten(c)' \/ (dirt'[c] /\ c >= i)
      OBVIOUS
    <3>1. c \in Buffer
      BY DEF find_buffer
    <3>2. CASE Unwritten(c)
      BY <1>20, <3>1, <3>2
    <3>3. CASE dirt[c] /\ c >= proc[q].i
      <4>1. CASE c = b
        BY <1>5, <1>21, <3>3, <4>1
      <4>2. CASE c # b
        BY <1>5, <2>2, <3>1, <3>3, <4>2
      <4> QED BY <4>1, <4>2
    <3> QED BY <3>2, <3>3
  <2>4. k \notin lost' => Flushed(k, v, proc[q].i)
    BY <1>1, <1>8, <2>1 DEF SyncOK
  <2>5. k \notin lost' => Flushed(k, v, i)'
    BY <1>3, <2>1, <2>3, <2>4 DEF Flushed, find_buffer
  <2> QED BY <1>1, <2>1, <2>5 DEF SyncOK
<1> QED BY <1>2, <1>11, <1>12, <1>13, <1>16, <1>17, <1>19, <1>22, <1>23 DEF Inv

\* make_request's slot.
LEMMA MakeRequestInv ==
  ASSUME Inv, NEW p \in Proc, MakeRequest(p)
  PROVE  Inv'
<1> DEFINE s == proc[p]
           b == ReqBuf(s)
           cmd == ReqCmd(s)
           n == AfterRequest(s)
<1>1. TypeOK /\ s \in Locals /\ LocalsOK(s) /\ s.pc = "slot" /\ s.pc \in Asking
  BY HeldBlocks DEF MakeRequest, At, Inv, Asking
<1>2. /\ b \in Buffer /\ cmd \in {READ, WRITE}
      /\ s.i # 0 => b = s.i /\ cmd = WRITE
      /\ s.i = 0 => b = s.bh /\ cmd = READ /\ blk[b] \in Block
  BY <1>1, AskedFor DEF ReqCmd
<1>3. /\ n \in Locals /\ LocalsOK(n) /\ n.bh = s.bh /\ n.first = s.first /\ n.want = s.want
      /\ n.op = s.op /\ n.snap = s.snap /\ n.pc \in {"sync", "ahead", "readwait"}
      /\ n.i = IF s.i = 0 THEN 0 ELSE s.i + 1
  BY <1>1, AfterFields
<1>4. PICK r \in Slot : /\ request[r] = Free
                        /\ request' = [request EXCEPT ![r] = [bh |-> b, cmd |-> cmd, moved |-> FALSE]]
  <2>1. PICK r \in FreeSlots(s) : request' = [request EXCEPT ![r] = [bh |-> b, cmd |-> cmd, moved |-> FALSE]]
    BY DEF MakeRequest
  <2>2. (NR_REQUEST * 2) \div 3 <= NR_REQUEST
    BY BufferAssumption
  <2>3. r \in Slot /\ request[r] = Free
    BY <2>2, BufferAssumption DEF FreeSlots, SlotsFor, Slot
  <2> QED BY <2>1, <2>3
<1>5. Locking(p, b) /\ \A c \in Buffer \ {b} : ~Locking(p, c)
  BY <1>1 DEF Locking
<1>6. lock[b] /\ lock' = [lock EXCEPT ![b] = TRUE]
  BY <1>1, <1>2, <1>5 DEF Inv, OwnerOK, TypeOK, MakeRequest
<1>7. Issues(p, n, b, cmd, r)
  BY <1>3, <1>4, <1>6 DEF Issues, Moves, MakeRequest, Become
<1>8. MayIssue(p, n, b, cmd)
  <2>1. IF cmd = READ THEN ~uptodate[b] ELSE dirt[b]
    BY <1>1, <1>2 DEF Inv, RequestOK, READ, WRITE
  <2>2. blk[b] \in Block
    BY <1>2, <1>6 DEF Inv, BlocksOK
  <2>3. \A t \in Slot : request[t].bh # b
    BY <1>1, <1>2, <1>5, BufferNat DEF Inv, OwnerOK
  <2>4. \A q \in Proc \ {p} : ~Locking(q, b)
    BY <1>2, <1>5 DEF Inv, OwnerOK
  <2>5. n.op = "sync" => s.i # 0
    BY <1>1, <1>3 DEF LocalsOK
  <2> HIDE DEF n
  <2>6. n.bh # 0 => blk[n.bh] = n.want
    BY <1>3, HeldBlocks
  <2>7. n.first # 0 => blk[n.first] \in Block
    BY <1>3, HeldBlocks
  <2> QED BY <1>2, <1>3, <1>5, <2>1, <2>2, <2>3, <2>4, <2>5, <2>6, <2>7 DEF MayIssue
<1>9. proc' = [proc EXCEPT ![p] = n] /\ current' = p /\ count' = count
  BY DEF MakeRequest, Become
<1> HIDE DEF n
<1>10. CountOK'
  <2>1. proc'[p] = n /\ \A q \in Proc \ {p} : proc'[q] = proc[q]
    BY <1>1, <1>9 DEF TypeOK
  <2>2. ASSUME NEW c \in Buffer
        PROVE  /\ {q \in Proc : proc'[q].bh = c} = {q \in Proc : proc[q].bh = c}
               /\ {q \in Proc : proc'[q].first = c} = {q \in Proc : proc[q].first = c}
    BY <1>3, <2>1
  <2> QED BY <1>9, <2>2 DEF CountOK, Inv
<1>11. count' \in [Buffer -> Nat]
  BY <1>1, <1>9 DEF TypeOK
<1> HIDE DEF b, cmd
<1> QED BY <1>2, <1>4, <1>7, <1>8, <1>9, <1>10, <1>11, IssueStep

\* breada's read-ahead.
LEMMA ReadAheadInv ==
  ASSUME Inv, NEW p \in Proc, ReadAhead(p)
  PROVE  Inv'
<1> DEFINE s == proc[p]
           b == s.first
           n == [s EXCEPT !.pc = "ahead", !.bh = b, !.first = 0, !.want = blk[b]]
           idle == uptodate[s.bh] \/ lock[b] \/ uptodate[b] \/ {r \in SlotsFor(READ) : request[r] = Free} = {}
<1>1. TypeOK /\ s \in Locals /\ LocalsOK(s) /\ s.pc = "tmp" /\ "ahead" \in Pc /\ 0 \in AnyBuffer
  BY HeldBlocks DEF ReadAhead, At, Inv, Pc, AnyBuffer
<1>2. /\ s.bh \in Buffer /\ b \in Buffer /\ b \in AnyBuffer /\ s.op \in Breada /\ s.i = 0
      /\ blk[b] \in Block /\ blk[b] \in AnyBlock
  <2>1. s.bh \in Buffer /\ b \in Buffer /\ s.op \in Breada /\ s.i = 0
    BY <1>1 DEF LocalsOK, Locals, AnyBuffer, Asking
  <2> QED BY <1>1, <2>1, HeldBlocks, BufferNat DEF AnyBlock, AnyBuffer
<1>3. Fields(n, "ahead", s.op, blk[b], b, s.victim, 0, s.i, s.pass, s.dev, s.snap)
  BY <1>1, <1>2, TmpFields
<1>4. /\ proc' = [proc EXCEPT ![p] = n] /\ current' = p
      /\ count' = [count EXCEPT ![s.bh] = @ - 1]
  BY DEF ReadAhead, Become
<1> HIDE DEF n
<1>5. LocalsOK(n)
  BY <1>1, <1>2, <1>3, BufferNat DEF LocalsOK, Fields, Asking, Breada
<1>6. proc' \in [Proc -> Locals] /\ LocalsInv' /\ proc'[p] = n /\ \A q \in Proc \ {p} : proc'[q] = proc[q]
  BY <1>3, <1>4, <1>5, MovesLemma DEF Moves, Fields, Inv
<1>7. CountOK' /\ count' \in [Buffer -> Nat]
  <2>1. count[s.bh] \in Nat \ {0}
    BY <1>2, Counted
  <2>2. \A c \in Buffer : count[c] \in Nat /\ c # 0
    BY <1>1, BufferNat
  <2>3. count' \in [Buffer -> Nat] /\ \A c \in Buffer : count'[c] = IF c = s.bh THEN count[c] - 1 ELSE count[c]
    BY <1>1, <1>2, <1>4, <2>1 DEF TypeOK
  <2>4. n.bh = b /\ n.first = 0
    BY <1>3 DEF Fields
  <2>5. \A c \in Buffer :
          count'[c] = count[c] + (IF n.bh = c THEN 1 ELSE 0) + (IF n.first = c THEN 1 ELSE 0)
                        - (IF s.bh = c THEN 1 ELSE 0) - (IF s.first = c THEN 1 ELSE 0)
    BY <1>2, <2>2, <2>3, <2>4
  <2> QED BY <1>6, <2>3, <2>5, CountStep
<1>8. CASE idle
  <2>1. UNCHANGED <<lock, dirt, request, lost>>
    BY <1>8 DEF ReadAhead
  <2>2. Calm(s, n)
    BY <1>1, <1>2, <1>3 DEF Calm, Fields, Breada
  <2>3. \A q \in Proc : Calm(proc[q], proc'[q])
    BY <1>6, <2>2, CalmOther
  <2>4. UNCHANGED <<blk, dirt, uptodate, lock, data, request, disk, history>>
    BY <2>1 DEF ReadAhead, history
  <2> QED BY <1>4, <1>6, <1>7, <2>3, <2>4, CalmStep
<1>9. CASE ~idle
  <2>1. PICK r \in SlotsFor(READ) :
          /\ request[r] = Free
          /\ request' = [request EXCEPT ![r] = [bh |-> b, cmd |-> READ, moved |-> FALSE]]
    BY <1>9 DEF ReadAhead
  <2>2. r \in Slot
    BY DEF SlotsFor
  <2>3. /\ lock' = [lock EXCEPT ![b] = TRUE]
        /\ dirt' = [dirt EXCEPT ![b] = FALSE]
        /\ lost' = lost \cup ReadOver(b)
    BY <1>9 DEF ReadAhead
  <2>4. Issues(p, n, b, READ, r)
    BY <1>3, <1>4, <1>5, <2>1, <2>3 DEF Issues, ReadAhead, Moves, Fields
  <2>5. ~uptodate[b] /\ ~lock[b]
    BY <1>9
  <2>6. \A t \in Slot : request[t].bh # b
    BY <1>1, <1>2, <2>5, BufferNat DEF Inv, OwnerOK
  <2>7. \A q \in Proc : ~Locking(q, b)
    BY <1>2, <2>5 DEF Inv, OwnerOK
  <2>8. \A c : ~Locking(p, c)
    BY <1>1 DEF Locking
  <2>9. MayIssue(p, n, b, READ)
    BY <1>2, <1>3, <2>5, <2>6, <2>7, <2>8 DEF MayIssue, Fields, Breada
  <2> QED BY <1>2, <1>4, <1>7, <2>2, <2>4, <2>9, IssueStep
<1> QED BY <1>8, <1>9

-----------------------------------------------------------------------------
(* A buffer changes its block, or its contents.                            *)

\* getblk takes an unused, clean, unlocked buffer for a block that no buffer
\* has.
LEMMA VictimTakeInv ==
  ASSUME Inv, NEW p \in Proc, VictimTake(p)
  PROVE  Inv'
<1> DEFINE s == proc[p]
           v == s.victim
           n == Got(s, v, FALSE)
<1>1. TypeOK /\ s \in Locals /\ LocalsOK(s) /\ s.pc = "victim" /\ ~lock[v] /\ "victim" \in Pc
  BY HeldBlocks, AtFacts DEF VictimTake, Inv, Pc
<1>2. v \in Buffer /\ v \in AnyBuffer /\ v # 0 /\ s.bh = 0 /\ s.i = 0 /\ s.want \in Block
  BY <1>1, BufferNat DEF LocalsOK, Locals, AnyBuffer, Asking
<1>3. count[v] = 0 /\ ~dirt[v] /\ \A b \in Buffer : blk[b] # s.want
  BY DEF VictimTake, Unused, StillMissing, find_buffer
<1>4. /\ proc' = [proc EXCEPT ![p] = n] /\ current' = p
      /\ count' = [count EXCEPT ![v] = 1]
      /\ dirt' = [dirt EXCEPT ![v] = FALSE]
      /\ uptodate' = [uptodate EXCEPT ![v] = FALSE]
      /\ blk' = [blk EXCEPT ![v] = s.want]
  BY DEF VictimTake, Become, Reset
<1>5. /\ lock' = lock /\ data' = data /\ request' = request /\ disk' = disk
      /\ latest' = latest /\ lost' = lost /\ errors' = errors
  BY DEF VictimTake, history
<1>6. Fields(n, GotPc(s, FALSE), s.op, s.want, v, 0, s.first, s.i, s.pass, s.dev, s.snap)
  BY <1>1, <1>2, GotFields
<1>7. /\ GotPc(s, FALSE) \in {"tmp", "hold", "ll_rw"}
      /\ GotPc(s, FALSE) = "tmp" <=> s.first # 0
      /\ GotPc(s, FALSE) = "hold" => s.op = "full_write"
  BY DEF GotPc
<1> HIDE DEF n
<1>8. LocalsOK(n) /\ n.op # "sync" /\ s.op # "sync"
  BY <1>1, <1>2, <1>6, <1>7 DEF LocalsOK, Fields, Asking
<1>9. proc' \in [Proc -> Locals] /\ LocalsInv' /\ proc'[p] = n /\ \A q \in Proc \ {p} : proc'[q] = proc[q]
  BY <1>4, <1>6, <1>8, MovesLemma DEF Moves, Fields, Inv
<1>10. /\ \A q \in Proc : proc[q].bh # v /\ proc[q].first # v
       /\ \A r \in Slot : request[r].bh # v
       /\ \A q \in Proc : ~Locking(q, v)
  BY <1>1, <1>2, <1>3, Counted DEF Inv, OwnerOK
<1>11. /\ blk' \in [Buffer -> Block \cup {NoBlock}] /\ dirt' \in [Buffer -> BOOLEAN] /\ uptodate' \in [Buffer -> BOOLEAN]
       /\ blk'[v] = s.want /\ dirt' = dirt /\ ~uptodate'[v]
       /\ \A c \in Buffer \ {v} : blk'[c] = blk[c] /\ uptodate'[c] = uptodate[c]
  BY <1>1, <1>2, <1>3, <1>4 DEF TypeOK
<1>12. count' \in [Buffer -> Nat] /\ count'[v] = 1 /\ \A c \in Buffer \ {v} : count'[c] = count[c]
  BY <1>1, <1>2, <1>4 DEF TypeOK
<1>13. TypeOK'
  BY <1>1, <1>4, <1>5, <1>9, <1>11, <1>12 DEF TypeOK
<1>14. UniqueBlock'
  BY <1>3, <1>11 DEF Inv, UniqueBlock
<1>15. CountOK'
  <2>1. \A c \in Buffer : count[c] \in Nat /\ c # 0
    BY <1>1, BufferNat
  <2>2. n.bh = v /\ n.first = s.first /\ s.first # v
    BY <1>6, <1>10 DEF Fields
  <2>3. \A c \in Buffer :
          count'[c] = count[c] + (IF n.bh = c THEN 1 ELSE 0) + (IF n.first = c THEN 1 ELSE 0)
                        - (IF s.bh = c THEN 1 ELSE 0) - (IF s.first = c THEN 1 ELSE 0)
    BY <1>2, <1>3, <1>12, <2>1, <2>2
  <2> QED BY <1>9, <2>3, CountStep
<1>16. \A q \in Proc : (proc[q].bh # 0 => proc[q].bh \in Buffer) /\ (proc[q].first # 0 => proc[q].first \in Buffer)
  BY <1>1 DEF TypeOK, Locals, AnyBuffer
<1>17. BlocksOK'
  <2>1. n.bh = v /\ n.first = s.first /\ n.want = s.want
    BY <1>6 DEF Fields
  <2>2. \A b \in Buffer : lock'[b] \/ dirt'[b] \/ uptodate'[b] => blk'[b] \in Block
    BY <1>2, <1>5, <1>11 DEF Inv, BlocksOK
  <2>3. \A q \in Proc : proc'[q].bh # 0 => blk'[proc'[q].bh] = proc'[q].want
    BY <1>9, <1>10, <1>11, <1>16, <2>1 DEF Inv, BlocksOK
  <2>4. \A q \in Proc : proc'[q].first # 0 => blk'[proc'[q].first] \in Block
    BY <1>9, <1>10, <1>11, <1>16, <2>1 DEF Inv, BlocksOK
  <2> QED BY <2>2, <2>3, <2>4 DEF BlocksOK
<1>18. \A q \in Proc : \A b : Locking(q, b)' <=> Locking(q, b)
  BY <1>1, <1>6, <1>7, <1>9 DEF Locking, Fields, ReqBuf
<1>19. OwnerOK'
  BY <1>1, <1>5, <1>18 DEF Inv, OwnerOK, TypeOK, Free
<1>20. RequestOK'
  <2>1. \A q \in Proc : proc'[q].pc = "slot" => q # p /\ proc'[q] = proc[q]
    BY <1>6, <1>7, <1>9 DEF Fields
  <2>2. \A c \in Buffer : uptodate'[c] => uptodate[c]
    BY <1>11
  <2>3. \A q \in Proc : proc[q].pc = "slot" /\ proc[q].i = 0 => proc[q].bh \in Buffer
    BY <1>16 DEF Inv, LocalsInv, LocalsOK, Asking
  <2>4. \A r \in Slot : request[r].cmd = READ => request[r].bh \in Buffer
    BY <1>1 DEF TypeOK, Free, READ
  <2> QED BY <1>5, <1>11, <2>1, <2>2, <2>3, <2>4 DEF Inv, RequestOK
<1>21. \A c \in Buffer \ {v} : Good(c) => Good(c)'
  BY <1>5, <1>11 DEF Good
<1>22. GoodOK'
  <2>1. \A c \in Buffer : uptodate'[c] \/ dirt'[c] => Good(c)'
    BY <1>3, <1>11, <1>21 DEF Inv, GoodOK
  <2>2. ASSUME NEW t \in Slot, request[t].cmd = WRITE \/ request[t].moved
        PROVE  \E c \in Buffer : c = request[t].bh /\ Good(c)'
    <3>1. request[t] # Free
      BY <2>2 DEF Free, WRITE
    <3>2. request[t].bh \in Buffer \ {v}
      BY <1>1, <1>10, <3>1 DEF TypeOK
    <3> QED BY <1>21, <2>2, <3>2 DEF Inv, GoodOK
  <2>3. ASSUME NEW q \in Proc, proc'[q].pc \in {"hold", "copy"}, proc'[q].op # "full_write"
        PROVE  \E c \in Buffer : c = proc'[q].bh /\ Good(c)'
    <3>1. q # p /\ proc'[q] = proc[q]
      BY <1>6, <1>7, <1>9, <2>3 DEF Fields
    <3>2. proc[q].bh \in Buffer \ {v}
      BY <1>10, <1>16, <2>3, <3>1 DEF Inv, LocalsInv, LocalsOK
    <3> QED BY <1>21, <2>3, <3>1, <3>2 DEF Inv, GoodOK
  <2> QED BY <1>5, <2>1, <2>2, <2>3 DEF GoodOK, Good
<1>23. \A c \in Buffer : (Unwritten(c)' <=> Unwritten(c)) /\ (Unwritten(c) \/ dirt[c] => c # v)
  BY <1>3, <1>5, <1>10 DEF Unwritten
<1>24. DurableOK'
  BY <1>5, <1>11, <1>23 DEF Inv, DurableOK, find_buffer
<1>25. SyncOK'
  <2> SUFFICES ASSUME NEW q \in Proc, proc'[q].op = "sync", NEW k \in Block,
                      NEW i, i = proc'[q].i, NEW x, x = proc'[q].snap[k]
               PROVE  x <= latest[k] /\ (k \in lost \/ Flushed(k, x, i)')
    BY <1>5 DEF SyncOK, Flushed
  <2>1. proc[q].op = "sync" /\ x = proc[q].snap[k] /\ i = proc[q].i
    BY <1>8, <1>9
  <2>2. x <= latest[k] /\ (k \in lost \/ Flushed(k, x, i))
    BY <2>1 DEF Inv, SyncOK
  <2>3. Flushed(k, x, i) => Flushed(k, x, i)'
    BY <1>5, <1>11, <1>23 DEF Flushed, find_buffer
  <2> QED BY <2>2, <2>3
<1> QED BY <1>9, <1>13, <1>14, <1>15, <1>17, <1>19, <1>20, <1>22, <1>24, <1>25 DEF Inv

\* A process with a buffer in hand goes from hold or copy to x.
LEMMA HolderGoto ==
  ASSUME Inv, NEW p \in Proc, NEW x \in {"copy", "brelse"}, Goto(p, x),
         proc[p].pc \in {"hold", "copy"},
         x = "copy" => proc[p].op = "file_write"
  PROVE  LET s == proc[p]
             n == proc'[p]
         IN  /\ proc' \in [Proc -> Locals] /\ LocalsInv' /\ current' = p
             /\ \A q \in Proc \ {p} : proc'[q] = proc[q]
             /\ n.pc = x /\ n.op = s.op /\ n.op # "sync" /\ n.bh = s.bh /\ n.first = s.first /\ n.want = s.want
             /\ s.bh \in Buffer /\ s.want \in Block /\ blk[s.bh] = s.want
             /\ CountOK' \/ count' # count
<1> DEFINE s == proc[p]
           n == [s EXCEPT !.pc = x]
<1>1. s \in Locals /\ LocalsOK(s) /\ x \in Pc
  BY HeldBlocks DEF Pc
<1>2. Fields(n, x, s.op, s.want, s.bh, s.victim, s.first, s.i, s.pass, s.dev, s.snap)
  BY <1>1, PcFields
<1>3. proc' = [proc EXCEPT ![p] = n] /\ current' = p
  BY DEF Goto, Become
<1> HIDE DEF n
<1>4. LocalsOK(n) /\ s.op # "sync"
  BY <1>1, <1>2 DEF LocalsOK, Fields, Asking
<1>5. proc' \in [Proc -> Locals] /\ LocalsInv' /\ proc'[p] = n /\ \A q \in Proc \ {p} : proc'[q] = proc[q]
  BY <1>2, <1>3, <1>4, MovesLemma DEF Moves, Fields, Inv
<1>6. s.bh \in Buffer /\ s.want \in Block /\ s.bh # 0
  BY <1>1, <1>4 DEF LocalsOK, Locals, AnyBuffer
<1>7. count' = count => CountOK'
  <2>1. ASSUME NEW c \in Buffer
        PROVE  /\ {q \in Proc : proc'[q].bh = c} = {q \in Proc : proc[q].bh = c}
               /\ {q \in Proc : proc'[q].first = c} = {q \in Proc : proc[q].first = c}
    BY <1>2, <1>5 DEF Fields
  <2> QED BY <2>1 DEF CountOK, Inv
<1> QED BY <1>2, <1>3, <1>4, <1>5, <1>6, <1>7, HeldBlocks DEF Fields

\* file_write and block_write: the buffer of p gets a new version of its block,
\* or, before the copy, is only marked dirty (new is FALSE).
Writes(p, new, x) ==
  LET b == proc[p].bh
      k == proc[p].want
  IN  /\ proc[p].pc \in {"hold", "copy"} /\ Goto(p, x)
      /\ dirt' \in [Buffer -> BOOLEAN] /\ \A c \in Buffer \ {b} : dirt'[c] = dirt[c]
      /\ dirt[b] => dirt'[b]
      /\ IF new THEN Modify(p) ELSE UNCHANGED <<data, latest>>
      /\ lost' = lost \cup (IF new /\ ~dirt'[b] THEN {k} ELSE {})
      /\ new \/ Good(b)
      /\ UNCHANGED <<blk, count, uptodate, lock, request, disk, errors>>

\* A write keeps the invariant.
LEMMA WriteStep ==
  ASSUME Inv, NEW p \in Proc, NEW new \in BOOLEAN, NEW x \in {"copy", "brelse"},
         x = "copy" => proc[p].op = "file_write", Writes(p, new, x)
  PROVE  Inv'
<1> DEFINE s == proc[p]
           b == s.bh
           k == s.want
<1>1. TypeOK /\ LocalsInv /\ UniqueBlock /\ BlocksOK /\ OwnerOK /\ RequestOK /\ GoodOK /\ DurableOK /\ SyncOK
  BY DEF Inv
<1>2. /\ proc' \in [Proc -> Locals] /\ LocalsInv' /\ current' = p
      /\ \A q \in Proc \ {p} : proc'[q] = proc[q]
      /\ proc'[p].pc = x /\ proc'[p].op = s.op /\ proc'[p].op # "sync" /\ proc'[p].bh = b
      /\ proc'[p].first = s.first /\ proc'[p].want = k
      /\ b \in Buffer /\ k \in Block /\ blk[b] = k
      /\ CountOK' \/ count' # count
  BY HolderGoto DEF Writes
<1>3. /\ blk' = blk /\ count' = count /\ uptodate' = uptodate /\ lock' = lock
      /\ request' = request /\ disk' = disk /\ errors' = errors
  BY DEF Writes
<1>4. /\ data' \in [Buffer -> Nat] /\ latest' \in [Block -> Nat]
      /\ \A c \in Buffer \ {b} : data'[c] = data[c]
      /\ \A j \in Block \ {k} : latest'[j] = latest[j]
      /\ IF new THEN data'[b] = latest[k] + 1 /\ latest'[k] = latest[k] + 1
         ELSE data'[b] = data[b] /\ latest'[k] = latest[k]
  BY <1>1, <1>2 DEF TypeOK, Writes, Modify
<1>5. dirt' \in [Buffer -> BOOLEAN] /\ \A c \in Buffer : (dirt[c] => dirt'[c]) /\ (c # b => dirt'[c] = dirt[c])
  BY DEF Writes
<1>6. lost' \in SUBSET Block /\ lost \subseteq lost' /\ (new /\ k \notin lost' => dirt'[b])
  BY <1>1, <1>2 DEF TypeOK, Writes
<1>7. \A c \in Buffer \ {b} : blk[c] # k
  BY <1>1, <1>2, BufferAssumption DEF UniqueBlock
<1>8. latest[k] \in Nat /\ \A c \in Buffer : blk[c] \in Block => latest[blk[c]] \in Nat
  BY <1>1, <1>2 DEF TypeOK
<1>9. TypeOK'
  BY <1>1, <1>2, <1>3, <1>4, <1>5, <1>6 DEF TypeOK
<1>10. UniqueBlock'
  BY <1>1, <1>3 DEF UniqueBlock
<1>11. BlocksOK'
  BY <1>1, <1>2, <1>3, <1>5 DEF BlocksOK
<1>12. \A q \in Proc : \A c : Locking(q, c)' <=> Locking(q, c)
  BY <1>2 DEF Locking, Writes
<1>13. OwnerOK'
  BY <1>1, <1>3, <1>12 DEF OwnerOK, TypeOK, Free
<1>14. RequestOK'
  <2>1. \A q \in Proc : proc'[q].pc = "slot" => q # p /\ proc'[q] = proc[q]
    BY <1>2
  <2>2. \A q \in Proc : proc[q].pc = "slot" /\ proc[q].i # 0 => proc[q].i \in Buffer
    BY AskedFor DEF Asking
  <2> QED BY <1>1, <1>3, <1>5, <2>1, <2>2 DEF RequestOK
<1>15. \A c \in Buffer : c = b => Good(c)'
  BY <1>2, <1>3, <1>4, <1>6 DEF Good, Writes
<1>16. \A c \in Buffer : blk[c] \in Block /\ Good(c) => Good(c)'
  <2>1. ASSUME NEW c \in Buffer \ {b}, blk[c] \in Block, Good(c)
        PROVE  Good(c)'
    BY <1>3, <1>4, <1>6, <1>7, <2>1 DEF Good
  <2> QED BY <1>15, <2>1
<1>17. GoodOK'
  <2>1. \A c \in Buffer : uptodate'[c] \/ dirt'[c] => Good(c)'
    BY <1>1, <1>3, <1>5, <1>15, <1>16 DEF GoodOK, BlocksOK
  <2>2. ASSUME NEW t \in Slot, request[t].cmd = WRITE \/ request[t].moved
        PROVE  \E c \in Buffer : c = request[t].bh /\ Good(c)'
    <3>1. request[t] # Free
      BY <2>2 DEF Free, WRITE
    <3>2. request[t].bh \in Buffer
      BY <1>1, <3>1 DEF TypeOK
    <3>3. blk[request[t].bh] \in Block
      BY <1>1, <3>2, BufferNat DEF OwnerOK, BlocksOK
    <3> QED BY <1>1, <1>16, <2>2, <3>2, <3>3 DEF GoodOK
  <2>3. ASSUME NEW q \in Proc, proc'[q].pc \in {"hold", "copy"}, proc'[q].op # "full_write"
        PROVE  \E c \in Buffer : c = proc'[q].bh /\ Good(c)'
    <3>1. CASE q = p
      BY <1>2, <1>15, <3>1
    <3>2. CASE q # p
      <4>1. proc'[q] = proc[q]
        BY <1>2, <3>2
      <4>2. proc[q].bh \in Buffer /\ proc[q].bh # 0 /\ proc[q].want \in Block
        BY <1>1, <2>3, <4>1 DEF LocalsInv, LocalsOK, TypeOK, Locals, AnyBuffer, Asking
      <4>3. blk[proc[q].bh] \in Block
        BY <1>1, <4>2 DEF BlocksOK
      <4> QED BY <1>1, <1>16, <2>3, <4>1, <4>2, <4>3 DEF GoodOK
    <3> QED BY <3>1, <3>2
  <2> QED BY <1>3, <2>1, <2>2, <2>3 DEF GoodOK, Good
<1>18. \A c \in Buffer : Unwritten(c)' <=> Unwritten(c)
  BY <1>3 DEF Unwritten
<1>19. DurableOK'
  <2> SUFFICES ASSUME NEW j \in Block \ lost'
               PROVE  \/ disk[j] = latest'[j]
                      \/ \E c \in find_buffer(j) : data'[c] = latest'[j] /\ (dirt'[c] \/ Unwritten(c))
    BY <1>3, <1>18 DEF DurableOK, find_buffer
  <2>1. CASE j = k /\ new
    BY <1>2, <1>4, <1>6, <2>1 DEF find_buffer
  <2>2. CASE j # k \/ ~new
    <3>1. latest'[j] = latest[j] /\ j \notin lost
      BY <1>4, <1>6, <2>2
    <3>2. \A c \in find_buffer(j) : data'[c] = data[c]
      BY <1>2, <1>4, <2>2 DEF find_buffer
    <3>3. \A c \in find_buffer(j) : dirt[c] => dirt'[c]
      BY <1>5 DEF find_buffer
    <3> QED BY <1>1, <3>1, <3>2, <3>3 DEF DurableOK
  <2> QED BY <2>1, <2>2
<1>20. SyncOK'
  <2> SUFFICES ASSUME NEW q \in Proc, proc'[q].op = "sync", NEW j \in Block,
                      NEW i, i = proc'[q].i, NEW v, v = proc'[q].snap[j]
               PROVE  v <= latest'[j] /\ (j \in lost' \/ Flushed(j, v, i)')
    BY DEF SyncOK, Flushed
  <2>1. proc[q].op = "sync" /\ v = proc[q].snap[j] /\ i = proc[q].i
    BY <1>2
  <2>2. v <= latest[j] /\ (j \in lost \/ Flushed(j, v, i))
    BY <1>1, <2>1 DEF SyncOK
  <2>3. v \in Nat /\ latest[j] \in Nat
    BY <1>1, <2>1 DEF LocalsInv, LocalsOK, TypeOK
  <2>4. v <= latest'[j]
    BY <1>4, <2>2, <2>3
  <2>5. Flushed(j, v, i) => Flushed(j, v, i)'
    <3>1. \A c \in find_buffer(j) : data[c] >= v => data'[c] >= v
      BY <1>2, <1>4, <2>2, <2>3 DEF find_buffer
    <3>2. \A c \in find_buffer(j) : (dirt[c] => dirt'[c]) /\ (Unwritten(c)' <=> Unwritten(c))
      BY <1>5, <1>18 DEF find_buffer
    <3> QED BY <1>3, <3>1, <3>2 DEF Flushed, find_buffer
  <2> QED BY <1>6, <2>2, <2>4, <2>5
<1> QED BY <1>2, <1>3, <1>9, <1>10, <1>11, <1>13, <1>14, <1>17, <1>19, <1>20 DEF Inv

\* file_write marks the buffer.
LEMMA FileWriteDirtInv ==
  ASSUME Inv, NEW p \in Proc, FileWriteDirt(p)
  PROVE  Inv'
<1>1. proc[p].pc = "hold" /\ proc[p].op = "file_write" /\ TypeOK
  BY DEF FileWriteDirt, At, Inv
<1>2. proc[p].bh \in Buffer
  BY <1>1, HeldBlocks DEF LocalsOK, Locals, AnyBuffer
<1>3. Good(proc[p].bh)
  BY <1>1 DEF Inv, GoodOK
<1>4. Writes(p, FALSE, "copy")
  BY <1>1, <1>2, <1>3 DEF Writes, FileWriteDirt, TypeOK, history
<1> QED BY <1>1, <1>4, WriteStep

\* file_write copies.
LEMMA FileWriteCopyInv ==
  ASSUME Inv, NEW p \in Proc, FileWriteCopy(p)
  PROVE  Inv'
<1>1. proc[p].pc = "copy" /\ TypeOK
  BY DEF FileWriteCopy, At, Inv
<1>2. proc[p].bh \in Buffer
  BY <1>1, HeldBlocks DEF LocalsOK, Locals, AnyBuffer
<1>4. Writes(p, TRUE, "brelse")
  BY <1>1, <1>2 DEF Writes, FileWriteCopy, TypeOK
<1> QED BY <1>1, <1>4, WriteStep

\* block_write.
LEMMA BlockWriteInv ==
  ASSUME Inv, NEW p \in Proc, BlockWrite(p)
  PROVE  Inv'
<1>1. proc[p].pc = "hold" /\ TypeOK
  BY DEF BlockWrite, At, Inv
<1>2. proc[p].bh \in Buffer
  BY <1>1, HeldBlocks DEF LocalsOK, Locals, AnyBuffer
<1>4. Writes(p, TRUE, "brelse")
  BY <1>1, <1>2 DEF Writes, BlockWrite, Marked, TypeOK
<1> QED BY <1>1, <1>4, WriteStep

-----------------------------------------------------------------------------
(* The device.                                                             *)

\* A request is for a locked buffer that has a block.
LEMMA RequestBuffer ==
  ASSUME Inv, NEW r \in Slot, request[r] # Free
  PROVE  /\ request[r].bh \in Buffer /\ request[r].cmd \in {READ, WRITE} /\ request[r].moved \in BOOLEAN
         /\ lock[request[r].bh] /\ blk[request[r].bh] \in Block
         /\ \A t \in Slot \ {r} : request[t].bh # request[r].bh
         /\ \A q \in Proc : ~Locking(q, request[r].bh)
<1>1. request[r].bh \in Buffer /\ request[r].cmd \in {READ, WRITE} /\ request[r].moved \in BOOLEAN
  BY DEF Inv, TypeOK
<1>2. request[r].bh # 0
  BY <1>1, BufferNat DEF Inv
<1> QED BY <1>1, <1>2 DEF Inv, OwnerOK, BlocksOK

\* Nobody has asked for writing the buffer of a read request.
LEMMA NotUnwritten ==
  ASSUME Inv, NEW r \in Slot, request[r] # Free, request[r].cmd = READ \/ request[r].moved
  PROVE  ~Unwritten(request[r].bh)
BY RequestBuffer DEF Unwritten, READ, WRITE

\* The sectors move.
LEMMA TransferInv ==
  ASSUME Inv, NEW r \in Slot, Transfer(r)
  PROVE  Inv'
<1>0. PICK b : b = request[r].bh
  OBVIOUS
<1>1. TypeOK /\ LocalsInv /\ UniqueBlock /\ BlocksOK /\ OwnerOK /\ RequestOK /\ GoodOK /\ DurableOK /\ SyncOK
  BY DEF Inv
<1>2. /\ b \in Buffer /\ request[r].cmd \in {READ, WRITE} /\ request[r].moved = FALSE
      /\ lock[b] /\ blk[b] \in Block /\ request[r] # Free
      /\ \A t \in Slot \ {r} : request[t].bh # b
  BY <1>0, RequestBuffer DEF Transfer
<1>3. /\ blk' = blk /\ count' = count /\ dirt' = dirt /\ uptodate' = uptodate /\ lock' = lock
      /\ proc' = proc /\ current' = current /\ latest' = latest /\ errors' = errors
  BY DEF Transfer
<1>4. /\ request' \in [Slot -> {Free} \cup [bh : Buffer, cmd : {READ, WRITE}, moved : BOOLEAN]]
      /\ request'[r].bh = b /\ request'[r].cmd = request[r].cmd /\ request'[r].moved = TRUE
      /\ \A t \in Slot \ {r} : request'[t] = request[t]
  <2>1. request \in [Slot -> {Free} \cup [bh : Buffer, cmd : {READ, WRITE}, moved : BOOLEAN]]
        /\ request[r] \in [bh : Buffer, cmd : {READ, WRITE}, moved : BOOLEAN]
    BY <1>1, <1>2 DEF TypeOK
  <2>2. request' = [request EXCEPT ![r] = [request[r] EXCEPT !.moved = TRUE]]
    BY DEF Transfer
  <2> DEFINE m == [request[r] EXCEPT !.moved = TRUE]
  <2>3. m \in [bh : Buffer, cmd : {READ, WRITE}, moved : BOOLEAN]
        /\ m.bh = request[r].bh /\ m.cmd = request[r].cmd /\ m.moved = TRUE
    BY <2>1
  <2> HIDE DEF m
  <2>4. request' = [request EXCEPT ![r] = m]
    BY <2>2 DEF m
  <2> QED BY <1>0, <2>1, <2>3, <2>4
<1>5. \A t \in Slot : request'[t].bh = request[t].bh /\ request'[t].cmd = request[t].cmd
  BY <1>0, <1>4
<1>6. /\ data' \in [Buffer -> Nat] /\ disk' \in [Block -> Nat] /\ lost' \in SUBSET Block /\ lost \subseteq lost'
      /\ \A c \in Buffer \ {b} : data'[c] = data[c]
      /\ \A k \in Block \ {blk[b]} : disk'[k] = disk[k]
  BY <1>0, <1>1, <1>2 DEF TypeOK, Transfer, ReadOver
<1>7. ASSUME request[r].cmd = READ
      PROVE  DurableOK' /\ SyncOK' /\ \A c \in Buffer : c = b \/ Good(c) => Good(c)'
  <2>1. disk' = disk /\ data'[b] = disk[blk[b]] /\ (dirt[b] => blk[b] \in lost')
    BY <1>0, <1>1, <1>2, <1>7 DEF TypeOK, Transfer, ReadOver
  <2>2. ~Unwritten(b)
    BY <1>0, <1>2, <1>7, NotUnwritten
  <2>3. blk[b] \notin lost' => disk[blk[b]] = latest[blk[b]]
    BY <1>1, <1>2, <1>6, <2>1, <2>2, BufferAssumption DEF DurableOK, find_buffer, UniqueBlock
  <2>4. \A c \in Buffer : c = b \/ Good(c) => Good(c)'
    BY <1>3, <1>6, <2>1, <2>3 DEF Good
  <2>5. \A c \in Buffer : Unwritten(c) <=> Unwritten(c)'
    BY <1>4, <1>7 DEF Unwritten, READ, WRITE
  <2>6. DurableOK'
    <3>1. \A k \in Block \ lost' : \A c \in find_buffer(k) : dirt[c] \/ Unwritten(c) => data'[c] = data[c]
      BY <1>6, <2>1, <2>2 DEF find_buffer
    <3>2. \A k \in Block \ lost' : k \notin lost
      BY <1>6
    <3>3. \A k : find_buffer(k)' = find_buffer(k) /\ find_buffer(k) \subseteq Buffer
      BY <1>3 DEF find_buffer
    <3> QED BY <1>1, <1>3, <2>1, <2>5, <3>1, <3>2, <3>3 DEF DurableOK
  <2>7. SyncOK'
    <3>1. \A k \in Block \ lost' : \A v, i : Flushed(k, v, i) => Flushed(k, v, i)'
      <4>1. \A k \in Block \ lost' : \A c \in find_buffer(k) : dirt[c] \/ Unwritten(c) => data'[c] = data[c]
        BY <1>6, <2>1, <2>2 DEF find_buffer
      <4> QED BY <1>3, <2>1, <2>5, <4>1 DEF Flushed, find_buffer
    <3> QED BY <1>1, <1>3, <1>6, <3>1 DEF SyncOK
  <2> QED BY <2>4, <2>6, <2>7
<1>8. ASSUME request[r].cmd = WRITE
      PROVE  DurableOK' /\ SyncOK' /\ \A c \in Buffer : c = b \/ Good(c) => Good(c)'
  <2>1. data' = data /\ lost' = lost /\ disk'[blk[b]] = data[b]
    BY <1>0, <1>1, <1>2, <1>8 DEF TypeOK, Transfer, READ, WRITE
  <2>2. Good(b)
    BY <1>0, <1>1, <1>8 DEF GoodOK
  <2>3. \A c \in Buffer : Good(c) => Good(c)'
    BY <1>3, <2>1 DEF Good
  <2>4. \A c \in Buffer \ {b} : Unwritten(c) => Unwritten(c)'
    BY <1>0, <1>4 DEF Unwritten
  <2>5. \A k \in Block \ {blk[b]} : \A c \in find_buffer(k) : c # b
    BY DEF find_buffer
  <2>6. DurableOK'
    <3> SUFFICES ASSUME NEW k \in Block \ lost
                 PROVE  \/ disk'[k] = latest[k]
                        \/ \E c \in find_buffer(k) : data[c] = latest[k] /\ (dirt[c] \/ Unwritten(c)')
      BY <1>3, <2>1 DEF DurableOK, find_buffer
    <3>1. CASE k = blk[b]
      BY <2>1, <2>2, <3>1 DEF Good
    <3>2. CASE k # blk[b]
      BY <1>1, <1>6, <2>4, <2>5, <3>2 DEF DurableOK, find_buffer
    <3> QED BY <3>1, <3>2
  <2>7. SyncOK'
    <3> SUFFICES ASSUME NEW q \in Proc, proc[q].op = "sync", NEW k \in Block \ lost,
                        NEW v, v = proc[q].snap[k], NEW i, i = proc[q].i
                 PROVE  Flushed(k, v, i)'
      BY <1>1, <1>3, <2>1 DEF SyncOK, Flushed
    <3>1. v <= latest[k] /\ Flushed(k, v, i)
      BY <1>1 DEF SyncOK
    <3>2. v \in Nat /\ latest[k] \in Nat
      BY <1>1 DEF LocalsInv, LocalsOK, TypeOK
    <3>3. CASE k = blk[b]
      BY <2>1, <2>2, <3>1, <3>2, <3>3 DEF Good, Flushed
    <3>4. CASE k # blk[b]
      BY <1>3, <1>6, <2>1, <2>4, <2>5, <3>1, <3>4 DEF Flushed, find_buffer
    <3> QED BY <3>3, <3>4
  <2> QED BY <2>2, <2>3, <2>6, <2>7
<1>9. DurableOK' /\ SyncOK'
  BY <1>2, <1>7, <1>8
<1>10. \A c \in Buffer : c = b \/ Good(c) => Good(c)'
  BY <1>2, <1>7, <1>8
<1>11. TypeOK'
  BY <1>1, <1>3, <1>4, <1>6 DEF TypeOK
<1>12. LocalsInv' /\ UniqueBlock' /\ CountOK' /\ BlocksOK'
  BY <1>3 DEF Inv, LocalsInv, UniqueBlock, CountOK, BlocksOK
<1>13. \A q \in Proc : \A c : Locking(q, c)' <=> Locking(q, c)
  BY <1>3 DEF Locking
<1>14. OwnerOK' /\ RequestOK'
  BY <1>1, <1>3, <1>5 DEF OwnerOK, RequestOK, Locking
<1>15. GoodOK'
  <2>1. \A c \in Buffer : uptodate'[c] \/ dirt'[c] => Good(c)'
    BY <1>1, <1>3, <1>10 DEF GoodOK
  <2>2. ASSUME NEW t \in Slot, request'[t].cmd = WRITE \/ request'[t].moved
        PROVE  \E c \in Buffer : c = request'[t].bh /\ Good(c)'
    <3>1. CASE t = r
      BY <1>2, <1>4, <1>10, <3>1
    <3>2. CASE t # r
      <4>1. request'[t] = request[t]
        BY <1>4, <3>2
      <4>2. request[t] # Free
        BY <2>2, <4>1 DEF Free, WRITE
      <4>3. request[t].bh \in Buffer
        BY <1>1, <4>2 DEF TypeOK
      <4> QED BY <1>1, <1>10, <2>2, <4>1, <4>3 DEF GoodOK
    <3> QED BY <3>1, <3>2
  <2>3. ASSUME NEW q \in Proc, proc[q].pc \in {"hold", "copy"}, proc[q].op # "full_write"
        PROVE  \E c \in Buffer : c = proc[q].bh /\ Good(c)'
    <3>1. proc[q].bh \in Buffer
      BY <2>3, HeldBlocks DEF LocalsOK, Locals, AnyBuffer
    <3> QED BY <1>1, <1>10, <2>3, <3>1 DEF GoodOK
  <2> QED BY <1>3, <2>1, <2>2, <2>3 DEF GoodOK, Good
<1> QED BY <1>9, <1>11, <1>12, <1>14, <1>15 DEF Inv

\* end_request: a transfer that went well has made the buffer good; the block
\* of a write that failed is lost.
LEMMA EndStep ==
  ASSUME Inv, NEW r \in Slot, NEW ok \in BOOLEAN, request[r] # Free, end_request(r, ok),
         ok => request[r].moved,
         lost' = lost \cup (IF ~ok /\ request[r].cmd = WRITE THEN {blk[request[r].bh]} ELSE {}),
         errors' \in Nat
  PROVE  Inv'
<1>0. PICK b : b = request[r].bh
  OBVIOUS
<1>1. TypeOK /\ LocalsInv /\ UniqueBlock /\ BlocksOK /\ OwnerOK /\ RequestOK /\ GoodOK /\ DurableOK /\ SyncOK
  BY DEF Inv
<1>2. /\ b \in Buffer /\ request[r].cmd \in {READ, WRITE}
      /\ lock[b] /\ blk[b] \in Block /\ b # 0
      /\ \A t \in Slot \ {r} : request[t].bh # b
      /\ \A q \in Proc : ~Locking(q, b)
  BY <1>0, <1>1, RequestBuffer, BufferNat
<1>3. /\ blk' = blk /\ count' = count /\ dirt' = dirt /\ data' = data /\ disk' = disk
      /\ proc' = proc /\ current' = current /\ latest' = latest
  BY DEF end_request
<1>4. /\ uptodate' \in [Buffer -> BOOLEAN] /\ uptodate'[b] = ok /\ lock' \in [Buffer -> BOOLEAN] /\ ~lock'[b]
      /\ \A c \in Buffer \ {b} : uptodate'[c] = uptodate[c] /\ lock'[c] = lock[c]
  BY <1>0, <1>1, <1>2 DEF TypeOK, end_request, Unlocked
<1>5. /\ request' \in [Slot -> {Free} \cup [bh : Buffer, cmd : {READ, WRITE}, moved : BOOLEAN]]
      /\ request'[r] = Free /\ \A t \in Slot \ {r} : request'[t] = request[t]
  BY <1>1 DEF TypeOK, end_request
<1>6. Free.bh = 0 /\ Free.cmd = "none" /\ Free.moved = FALSE
  BY DEF Free
<1>7. /\ lost' \in SUBSET Block /\ lost \subseteq lost'
      /\ ~ok /\ request[r].cmd = WRITE => blk[b] \in lost'
  BY <1>0, <1>1, <1>2 DEF TypeOK
<1>8. \A c \in Buffer : Good(c) => Good(c)'
  BY <1>3, <1>7 DEF Good
<1>9. ok => Good(b)
  BY <1>0, <1>1 DEF GoodOK
<1>10. TypeOK'
  BY <1>1, <1>3, <1>4, <1>5, <1>7 DEF TypeOK
<1>11. LocalsInv' /\ UniqueBlock' /\ CountOK'
  BY <1>3 DEF Inv, LocalsInv, UniqueBlock, CountOK
<1>12. BlocksOK'
  BY <1>1, <1>2, <1>3, <1>4 DEF BlocksOK
<1>13. \A q \in Proc, c \in Buffer : Locking(q, c)' <=> Locking(q, c)
  BY <1>3 DEF Locking
<1>14. \A t \in Slot : request'[t].bh = IF t = r THEN 0 ELSE request[t].bh
  BY <1>5, <1>6
<1>15. \A t \in Slot : request[t].bh # 0 => request[t].bh \in Buffer
  BY <1>1 DEF TypeOK, Free
<1>16. OwnerOK'
  <2>1. \A t \in Slot : request'[t].bh # 0 => lock'[request'[t].bh]
    BY <1>1, <1>2, <1>4, <1>14, <1>15 DEF OwnerOK
  <2>2. \A q \in Proc, c \in Buffer : Locking(q, c)' => lock'[c]
    BY <1>1, <1>2, <1>4, <1>13 DEF OwnerOK
  <2>3. \A c \in Buffer : lock'[c] => (\E t \in Slot : request'[t].bh = c) \/ (\E q \in Proc : Locking(q, c)')
    BY <1>0, <1>1, <1>4, <1>13, <1>14 DEF OwnerOK
  <2>4. \A t, u \in Slot : request'[t].bh # 0 /\ request'[t].bh = request'[u].bh => t = u
    BY <1>1, <1>14 DEF OwnerOK
  <2>5. \A c \in Buffer, o, q \in Proc : Locking(o, c)' /\ Locking(q, c)' => o = q
    BY <1>1, <1>13 DEF OwnerOK
  <2>6. \A t \in Slot, q \in Proc : request'[t].bh # 0 => ~(proc'[q].pc = "slot" /\ ReqBuf(proc'[q]) = request'[t].bh)
    BY <1>1, <1>3, <1>14 DEF OwnerOK, Locking
  <2> QED BY <2>1, <2>2, <2>3, <2>4, <2>5, <2>6 DEF OwnerOK, Locking
<1>17. RequestOK'
  <2>1. ASSUME NEW q \in Proc, proc[q].pc = "slot", proc[q].i = 0
        PROVE  ~uptodate'[proc[q].bh]
    <3>1. proc[q].bh \in Buffer /\ proc[q].bh # b
      BY <1>2, <2>1, AskedFor DEF Locking, Asking
    <3> QED BY <1>1, <1>4, <2>1, <3>1 DEF RequestOK
  <2>2. ASSUME NEW t \in Slot, request'[t].cmd = READ
        PROVE  ~uptodate'[request'[t].bh]
    <3>1. t # r /\ request'[t] = request[t]
      BY <1>5, <1>6, <2>2 DEF READ
    <3>2. request[t] # Free
      BY <2>2, <3>1 DEF Free, READ
    <3>3. request[t].bh \in Buffer \ {b}
      BY <1>1, <1>2, <3>1, <3>2 DEF TypeOK
    <3> QED BY <1>1, <1>4, <2>2, <3>1, <3>3 DEF RequestOK
  <2> QED BY <1>1, <1>3, <2>1, <2>2 DEF RequestOK
<1>18. GoodOK'
  <2>1. \A c \in Buffer : uptodate'[c] \/ dirt'[c] => Good(c)'
    BY <1>1, <1>3, <1>4, <1>8, <1>9 DEF GoodOK
  <2>2. ASSUME NEW t \in Slot, request'[t].cmd = WRITE \/ request'[t].moved
        PROVE  \E c \in Buffer : c = request'[t].bh /\ Good(c)'
    <3>1. t # r /\ request'[t] = request[t]
      BY <1>5, <1>6, <2>2 DEF WRITE
    <3>2. request[t] # Free
      BY <2>2, <3>1 DEF Free, WRITE
    <3>3. request[t].bh \in Buffer
      BY <1>1, <3>2 DEF TypeOK
    <3> QED BY <1>1, <1>8, <2>2, <3>1, <3>3 DEF GoodOK
  <2>3. ASSUME NEW q \in Proc, proc[q].pc \in {"hold", "copy"}, proc[q].op # "full_write"
        PROVE  \E c \in Buffer : c = proc[q].bh /\ Good(c)'
    <3>1. proc[q].bh \in Buffer
      BY <2>3, HeldBlocks DEF LocalsOK, Locals, AnyBuffer
    <3> QED BY <1>1, <1>8, <2>3, <3>1 DEF GoodOK
  <2> QED BY <1>3, <2>1, <2>2, <2>3 DEF GoodOK, Good
<1>19. \A k \in Block \ lost' : \A c \in find_buffer(k) : Unwritten(c) => Unwritten(c)'
  <2> SUFFICES ASSUME NEW k \in Block \ lost', NEW c \in Buffer, blk[c] = k, Unwritten(c)
               PROVE  Unwritten(c)'
    BY DEF find_buffer
  <2>1. PICK t \in Slot : request[t].bh = c /\ request[t].cmd = WRITE /\ ~request[t].moved
    BY DEF Unwritten
  <2>2. t # r
    BY <1>0, <1>7, <2>1
  <2> QED BY <1>5, <2>1, <2>2 DEF Unwritten
<1>20. DurableOK'
  <2>1. \A k \in Block \ lost' : k \notin lost
    BY <1>7
  <2>2. \A k : find_buffer(k)' = find_buffer(k)
    BY <1>3 DEF find_buffer
  <2> QED BY <1>1, <1>3, <1>19, <2>1, <2>2 DEF DurableOK
<1>21. SyncOK'
  <2>1. \A k \in Block \ lost' : \A v, i : Flushed(k, v, i) => Flushed(k, v, i)'
    BY <1>3, <1>19 DEF Flushed, find_buffer
  <2> QED BY <1>1, <1>3, <1>7, <2>1 DEF SyncOK
<1> QED BY <1>10, <1>11, <1>12, <1>16, <1>17, <1>18, <1>20, <1>21 DEF Inv

\* A request ends.
LEMMA EndInv ==
  ASSUME Inv, NEW r \in Slot, Complete(r) \/ Fail(r)
  PROVE  Inv'
<1>1. CASE Complete(r)
  <2>1. request[r] # Free /\ errors' \in Nat
    BY <1>1 DEF Complete, Free, Inv, TypeOK
  <2>2. lost' = lost \cup {}
    BY <1>1 DEF Complete
  <2> QED BY <1>1, <2>1, <2>2, EndStep DEF Complete
<1>2. CASE Fail(r)
  <2>1. errors' \in Nat
    BY <1>2 DEF Fail, Inv, TypeOK
  <2> QED BY <1>2, <2>1, EndStep DEF Fail
<1> QED BY <1>1, <1>2

-----------------------------------------------------------------------------
(* The theorems.                                                           *)

\* buffer_init leaves a good cache.
LEMMA InitInv == Init => Inv
<1> SUFFICES ASSUME Init PROVE Inv
  OBVIOUS
<1>1. /\ IdleProc.bh = 0 /\ IdleProc.first = 0 /\ IdleProc.pc = "idle" /\ IdleProc.op = "none"
  BY DEF IdleProc
<1>2. \A p \in Proc : proc[p] = IdleProc
  BY DEF Init
<1>3. \A r \in Slot : request[r].bh = 0 /\ request[r].cmd = "none" /\ ~request[r].moved
  BY DEF Init, Free
<1>4. TypeOK
  BY IdleLocals, BufferAssumption DEF Init, TypeOK
<1>5. LocalsInv
  BY <1>2, IdleLocals DEF LocalsInv
<1>6. UniqueBlock
  BY DEF Init, UniqueBlock
<1>7. CountOK
  <2>1. ASSUME NEW b \in Buffer
        PROVE  {p \in Proc : proc[p].bh = b} = {} /\ {p \in Proc : proc[p].first = b} = {}
    BY <1>1, <1>2, <1>4, BufferNat
  <2>2. \A b \in Buffer : count[b] = 0
    BY DEF Init
  <2>3. 0 = 0 + 0 /\ Cardinality({}) = 0
    BY FS_EmptySet
  <2> SUFFICES ASSUME NEW b \in Buffer
               PROVE  count[b] = Cardinality({p \in Proc : proc[p].bh = b})
                                   + Cardinality({p \in Proc : proc[p].first = b})
    BY DEF CountOK
  <2> QED BY <2>1, <2>2, <2>3
<1>8. BlocksOK
  BY <1>1, <1>2 DEF Init, BlocksOK
<1>9. OwnerOK
  BY <1>1, <1>2, <1>3 DEF Init, OwnerOK, Locking
<1>10. RequestOK
  BY <1>1, <1>2, <1>3 DEF RequestOK, READ
<1>11. GoodOK
  BY <1>1, <1>2, <1>3 DEF Init, GoodOK, WRITE
<1>12. DurableOK /\ SyncOK
  BY <1>1, <1>2 DEF Init, DurableOK, SyncOK
<1> QED BY <1>4, <1>5, <1>6, <1>7, <1>8, <1>9, <1>10, <1>11, <1>12 DEF Inv

\* A process's step keeps the invariant.
LEMMA StepInv ==
  ASSUME Inv, NEW p \in Proc, Step(p)
  PROVE  Inv'
<1>1. ASSUME Sleep(p) \/ Fault(p)
      PROVE  Inv'
  <2>1. proc' = proc /\ current' \in Proc \cup {None} /\ UNCHANGED <<buffers, request, disk, history>>
    BY <1>1 DEF Sleep, Fault
  <2> QED BY <2>1, IdleStep
<1>2. ASSUME NEW op \in Calls(p), NEW k \in Block, Start(p, op, k)
      PROVE  Inv'
  BY <1>2, StartInv
<1>3. SyncStart(p) \/ SyncStep(p) \/ SyncEnd(p) => Inv'
  BY SyncStartInv, SyncStepInv, SyncEndInv
<1>4. GetblkHit(p) \/ HashWait(p) \/ GetblkMiss(p) \/ GetblkFull(p) => Inv'
  BY GetblkHitInv, HashWaitInv, GetblkMissInv, GetblkFullInv
<1>5. VictimRepeat(p) \/ VictimSync(p) \/ VictimTake(p) => Inv'
  BY VictimRepeatInv, VictimSyncInv, VictimTakeInv
<1>6. LlRw(p) \/ MakeRequest(p) \/ AheadNext(p) \/ ReadAhead(p) \/ ReadWait(p) => Inv'
  BY LlRwInv, MakeRequestInv, AheadNextInv, ReadAheadInv, ReadWaitInv
<1>7. Read(p) \/ FileWriteDirt(p) \/ FileWriteCopy(p) \/ BlockWrite(p) \/ Brelse(p) => Inv'
  BY ReadInv, FileWriteDirtInv, FileWriteCopyInv, BlockWriteInv, BrelseInv
<1> QED BY <1>1, <1>2, <1>3, <1>4, <1>5, <1>6, <1>7 DEF Step

\* Every step keeps the invariant.
LEMMA NextInv == Inv /\ [Next]_vars => Inv'
<1> SUFFICES ASSUME Inv, [Next]_vars PROVE Inv'
  OBVIOUS
<1>1. CASE UNCHANGED vars
  <2>1. proc' = proc /\ current' \in Proc \cup {None} /\ UNCHANGED <<buffers, request, disk, history>>
    BY <1>1 DEF vars, Inv, TypeOK
  <2> QED BY <2>1, IdleStep
<1>2. CASE \E p \in Proc : Step(p)
  BY <1>2, StepInv
<1>3. CASE \E r \in Slot : Transfer(r) \/ Complete(r) \/ Fail(r)
  BY <1>3, TransferInv, EndInv
<1> QED BY <1>1, <1>2, <1>3 DEF Next

\* The inductive invariant of the buffer cache.
THEOREM CacheInvariant == Spec => []Inv
BY InitInv, NextInv, PTL DEF Spec

\* The state of the cache is always well formed.
THEOREM CacheTypes == Spec => []TypeOK
<1>1. Inv => TypeOK
  BY DEF Inv
<1> QED BY <1>1, CacheInvariant, PTL

\* getblk never puts a block into two buffers, however its sleeps interleave.
THEOREM NoAliases == Spec => []UniqueBlock
<1>1. Inv => UniqueBlock
  BY DEF Inv
<1> QED BY <1>1, CacheInvariant, PTL

\* b_count counts the holders of a buffer, and what they hold is what they
\* asked for.
THEOREM CountsRight == Spec => []HeldBuffers
<1>1. Inv => HeldBuffers
  <2> SUFFICES ASSUME Inv PROVE HeldBuffers
    OBVIOUS
  <2>1. ASSUME NEW p \in Proc, HasBuffer(p)
        PROVE  blk[proc[p].bh] = proc[p].want
    BY <2>1, HeldBlocks DEF HasBuffer, LocalsOK
  <2> QED BY <2>1 DEF HeldBuffers, Inv
<1> QED BY <1>1, CacheInvariant, PTL

\* b_lock is set if and only if one request or one process looking for a slot
\* will clear it.
THEOREM OneOwner == Spec => []LockOwner
<1>1. Inv => LockOwner
  <2> SUFFICES ASSUME Inv, NEW b \in Buffer
               PROVE  Cardinality({r \in Slot : request[r].bh = b})
                        + Cardinality({p \in Proc : proc[p].pc = "slot" /\ ReqBuf(proc[p]) = b})
                        = IF lock[b] THEN 1 ELSE 0
    BY DEF LockOwner
  <2> DEFINE R == {r \in Slot : request[r].bh = b}
             P == {p \in Proc : Locking(p, b)}
  <2>0. P = {p \in Proc : proc[p].pc = "slot" /\ ReqBuf(proc[p]) = b}
    BY DEF Locking
  <2>1. b # 0 /\ OwnerOK
    BY BufferNat DEF Inv
  <2>2. CASE \E r \in Slot : request[r].bh = b
    <3>1. PICK r \in Slot : request[r].bh = b
      BY <2>2
    <3>2. R = {r} /\ P = {} /\ lock[b]
      BY <2>1, <3>1 DEF OwnerOK
    <3>3. Cardinality(R) = 1 /\ Cardinality(P) = 0
      BY <3>2, FS_Singleton, FS_EmptySet
    <3> HIDE DEF R, P
    <3> QED BY <2>0, <3>2, <3>3 DEF R
  <2>3. CASE \E p \in Proc : Locking(p, b)
    <3>1. PICK p \in Proc : Locking(p, b)
      BY <2>3
    <3>2. R = {} /\ P = {p} /\ lock[b]
      BY <2>1, <3>1 DEF OwnerOK
    <3>3. Cardinality(R) = 0 /\ Cardinality(P) = 1
      BY <3>2, FS_Singleton, FS_EmptySet
    <3> HIDE DEF R, P
    <3> QED BY <2>0, <3>2, <3>3 DEF R
  <2>4. CASE ~(\E r \in Slot : request[r].bh = b) /\ ~(\E p \in Proc : Locking(p, b))
    <3>1. R = {} /\ P = {} /\ ~lock[b]
      BY <2>1, <2>4 DEF OwnerOK
    <3>2. Cardinality(R) = 0 /\ Cardinality(P) = 0
      BY <3>1, FS_EmptySet
    <3> HIDE DEF R, P
    <3> QED BY <2>0, <3>1, <3>2 DEF R
  <2> QED BY <2>2, <2>3, <2>4
<1> QED BY <1>1, CacheInvariant, PTL

\* What bread returns as up to date is the last version written, but for the
\* three ways in which the code loses one.
THEOREM ReadsLatest == Spec => []Coherent
<1>1. Inv => Coherent
  BY DEF Inv, GoodOK, Good, Coherent
<1> QED BY <1>1, CacheInvariant, PTL

\* No write is forgotten by the cache, but for these three ways.
THEOREM WritesKept == Spec => []Durable
<1>1. Inv => Durable
  <2>1. ASSUME NEW b, Unwritten(b)
        PROVE  \E r \in Slot : request[r].bh = b /\ request[r].cmd = WRITE
    BY <2>1 DEF Unwritten
  <2> QED BY <2>1 DEF Inv, DurableOK, Durable
<1> QED BY <1>1, CacheInvariant, PTL

-----------------------------------------------------------------------------
(* The waiters, and sys_sync.                                              *)

\* What p may be doing, and a process that holds no buffer.
Call(p) == Calls(p) \cup {"none"}
Empty(s) == s.bh = 0 /\ s.first = 0

\* What a step does to the call of process p, to its sleep on buffer_wait and
\* to its buffers.
Effect(p, s, n) ==
  /\ n.op = s.op \/ n.op \in Call(p)
  /\ s.op = "sync" /\ n.op # "sync" => s.i \in Nat \ Buffer /\ s.i # 0
  /\ n.pc = "bufwait" => s.pc = "bufwait" \/ (Victims = {} /\ s.bh = 0)
  /\ Empty(n) => Empty(s)

\* Every step but brelse is of this kind, and leaves the other processes alone.
LEMMA StepEffect ==
  ASSUME Inv, NEW p \in Proc, Step(p), ~Brelse(p)
  PROVE  Effect(p, proc[p], proc'[p]) /\ \A q \in Proc \ {p} : proc'[q] = proc[q]
<1> DEFINE s == proc[p]
           n == proc'[p]
           Goal == Effect(p, proc[p], proc'[p]) /\ \A q \in Proc \ {p} : proc'[q] = proc[q]
<1>1. proc \in [Proc -> Locals] /\ s \in Locals /\ LocalsOK(s)
  BY HeldBlocks DEF Inv, TypeOK
<1>2. s.pc \notin Asking \cup {"sync"} => s.op # "sync"
  BY <1>1 DEF LocalsOK
<1>3. ASSUME proc' = proc
      PROVE  Goal
  BY <1>3 DEF Effect
<1>4. ASSUME NEW op \in Calls(p), NEW k \in Block, Start(p, op, k)
      PROVE  Goal
  <2>1. PICK a : proc' = [proc EXCEPT ![p] = [IdleProc EXCEPT !.pc = "getblk", !.op = op, !.want = k, !.ahead = a]]
    BY <1>4 DEF Start, Become
  <2>2. n.op = op /\ n.pc = "getblk" /\ \A q \in Proc \ {p} : proc'[q] = proc[q]
    BY <1>1, <2>1 DEF IdleProc
  <2>3. s.pc = "idle"
    BY <1>4 DEF Start, At
  <2>4. Empty(s) /\ s.op # "sync"
    BY <1>1, <2>3 DEF Empty, LocalsOK, Asking
  <2> QED BY <2>2, <2>4 DEF Effect, Call
<1>5. ASSUME SyncStart(p)
      PROVE  Goal
  <2>1. proc' = [proc EXCEPT ![p] = [IdleProc EXCEPT !.pc = "sync", !.op = "sync", !.i = 1, !.dev = "all", !.snap = latest]]
    BY <1>5 DEF SyncStart, Become
  <2>2. n.op = "sync" /\ n.pc = "sync" /\ \A q \in Proc \ {p} : proc'[q] = proc[q]
    BY <1>1, <2>1 DEF IdleProc
  <2>3. s.pc = "idle" /\ "sync" \in Calls(p)
    BY <1>5 DEF SyncStart, At
  <2>4. Empty(s)
    BY <1>1, <2>3 DEF Empty, LocalsOK, Asking
  <2> QED BY <2>2, <2>3, <2>4 DEF Effect, Call
<1>6. ASSUME NEW x \in Pc \ {"bufwait"}, Goto(p, x)
      PROVE  Goal
  <2>1. n.op = s.op /\ n.pc = x /\ n.bh = s.bh /\ n.first = s.first /\ \A q \in Proc \ {p} : proc'[q] = proc[q]
    BY <1>1, <1>6, PcFields DEF Goto, Become, Fields
  <2> QED BY <2>1 DEF Effect, Empty
<1>7. ASSUME SyncStep(p)
      PROVE  Goal
  <2>1. CASE Flushes(s.i, s)
    BY <1>6, <1>7, <2>1 DEF SyncStep, Pc
  <2>2. CASE ~Flushes(s.i, s)
    <3>1. proc' = [proc EXCEPT ![p] = [s EXCEPT !.i = s.i + 1]] /\ s.pc = "sync"
      BY <1>7, <2>2 DEF SyncStep, Become, At
    <3>2. n.op = s.op /\ n.pc = s.pc /\ n.bh = s.bh /\ n.first = s.first /\ \A q \in Proc \ {p} : proc'[q] = proc[q]
      BY <1>1, <3>1 DEF Locals
    <3> QED BY <3>1, <3>2 DEF Effect, Empty
  <2> QED BY <2>1, <2>2
<1>8. ASSUME SyncEnd(p)
      PROVE  Goal
  <2>1. s.pc = "sync" /\ s.i \in Nat \ Buffer /\ s.i # 0 /\ s.pass \in Pass
    BY <1>1, <1>8 DEF SyncEnd, At, Locals, LocalsOK
  <2>2. CASE s.pass = 1
    <3>1. proc' = [proc EXCEPT ![p] = [s EXCEPT !.i = 1, !.pass = 2]]
      BY <1>8, <2>2 DEF SyncEnd, Become
    <3>2. n.op = s.op /\ n.pc = s.pc /\ n.bh = s.bh /\ n.first = s.first /\ \A q \in Proc \ {p} : proc'[q] = proc[q]
      BY <1>1, <3>1 DEF Locals
    <3> QED BY <2>1, <3>2 DEF Effect, Empty
  <2>3. CASE s.pass = 2
    <3>1. proc' = [proc EXCEPT ![p] = [s EXCEPT !.pc = "victim", !.i = 0, !.pass = 0, !.dev = "none"]]
      BY <1>8, <2>3 DEF SyncEnd, Become
    <3>2. n.op = s.op /\ n.pc = "victim" /\ n.bh = s.bh /\ n.first = s.first /\ \A q \in Proc \ {p} : proc'[q] = proc[q]
      BY <1>1, <3>1 DEF Locals
    <3> QED BY <2>1, <3>2 DEF Effect, Empty
  <2>4. CASE s.pass # 1 /\ s.pass # 2
    <3>1. proc' = [proc EXCEPT ![p] = IdleProc]
      BY <1>8, <2>4 DEF SyncEnd
    <3>2. n.op = "none" /\ n.pc = "idle" /\ \A q \in Proc \ {p} : proc'[q] = proc[q]
      BY <1>1, <3>1 DEF IdleProc
    <3>3. s.pass = 0
      BY <2>1, <2>4 DEF Pass
    <3>4. Empty(s)
      BY <1>1, <2>1, <3>3 DEF LocalsOK, Empty, Asking, Breada
    <3> QED BY <2>1, <3>2, <3>4 DEF Effect, Call
  <2> QED BY <2>2, <2>3, <2>4
<1>9. ASSUME GetblkHit(p)
      PROVE  Goal
  <2>1. PICK b \in find_buffer(s.want) : proc' = [proc EXCEPT ![p] = [s EXCEPT !.pc = "hashwait", !.bh = b]]
    BY <1>9 DEF GetblkHit, Become
  <2>2. n.op = s.op /\ n.pc = "hashwait" /\ n.bh = b /\ \A q \in Proc \ {p} : proc'[q] = proc[q]
    BY <1>1, <2>1 DEF Locals
  <2>3. b # 0
    BY BufferNat DEF find_buffer, Inv
  <2> QED BY <2>2, <2>3 DEF Effect, Empty
<1>10. ASSUME NEW b \in Buffer, NEW fresh, Become(p, Got(s, b, fresh))
       PROVE  Goal
  <2>1. b \in AnyBuffer /\ b # 0
    BY BufferNat DEF AnyBuffer, Inv
  <2>2. n = Got(s, b, fresh) /\ \A q \in Proc \ {p} : proc'[q] = proc[q]
    BY <1>1, <1>10 DEF Become
  <2>3. n.op = s.op /\ n.pc = GotPc(s, fresh) /\ n.bh = b
    BY <1>1, <2>1, <2>2, GotFields DEF Fields
  <2> QED BY <2>1, <2>2, <2>3 DEF Effect, Empty, GotPc
<1>11. ASSUME HashWait(p)
       PROVE  Goal
  <2>1. s.bh \in Buffer /\ s.bh # 0
    BY <1>1, <1>11 DEF HashWait, At, LocalsOK, Locals, AnyBuffer
  <2>2. blk[s.bh] = s.want
    BY <2>1, HeldBlocks
  <2> QED BY <1>10, <1>11, <2>1, <2>2 DEF HashWait
<1>12. ASSUME NEW x \in Pc \ {"bufwait"}, NEW v, proc' = [proc EXCEPT ![p] = [s EXCEPT !.pc = x, !.victim = v]]
       PROVE  Goal
  <2>1. n.op = s.op /\ n.pc = x /\ n.bh = s.bh /\ n.first = s.first /\ \A q \in Proc \ {p} : proc'[q] = proc[q]
    BY <1>1, <1>12 DEF Locals
  <2> QED BY <2>1 DEF Effect, Empty
<1>13. GetblkMiss(p) \/ VictimRepeat(p) => Goal
  BY <1>12 DEF GetblkMiss, VictimRepeat, Become, Pc
<1>14. ASSUME GetblkFull(p)
       PROVE  Goal
  <2>1. proc' = [proc EXCEPT ![p] = [s EXCEPT !.pc = "bufwait"]] /\ Victims = {}
    BY <1>14 DEF GetblkFull
  <2>2. n.op = s.op /\ n.bh = s.bh /\ n.first = s.first /\ \A q \in Proc \ {p} : proc'[q] = proc[q]
    BY <1>1, <2>1 DEF Locals
  <2>3. s.bh = 0
    BY <1>1, <1>14 DEF GetblkFull, At, LocalsOK, Asking
  <2> QED BY <2>1, <2>2, <2>3 DEF Effect, Empty
<1>15. ASSUME VictimSync(p)
       PROVE  Goal
  <2>1. PICK d : proc' = [proc EXCEPT ![p] = [s EXCEPT !.pc = "sync", !.i = 1, !.pass = 1, !.dev = d]]
    BY <1>15 DEF VictimSync, Become
  <2>2. n.op = s.op /\ n.pc = "sync" /\ n.bh = s.bh /\ n.first = s.first /\ \A q \in Proc \ {p} : proc'[q] = proc[q]
    BY <1>1, <2>1 DEF Locals
  <2> QED BY <2>2 DEF Effect, Empty
<1>16. ASSUME VictimTake(p)
       PROVE  Goal
  <2>1. s.victim \in Buffer
    BY <1>1, <1>16 DEF VictimTake, At, LocalsOK, Locals, AnyBuffer
  <2> QED BY <1>10, <1>16, <2>1 DEF VictimTake
<1>17. ASSUME Become(p, AfterRequest(s)), s.pc \in Asking
       PROVE  Goal
  <2>1. n = AfterRequest(s) /\ \A q \in Proc \ {p} : proc'[q] = proc[q]
    BY <1>1, <1>17 DEF Become
  <2>2. n.op = s.op /\ n.bh = s.bh /\ n.first = s.first /\ n.pc \in {"sync", "ahead", "readwait"}
    BY <1>1, <1>17, <2>1, AfterFields
  <2> QED BY <2>1, <2>2 DEF Effect, Empty
<1>18. LlRw(p) \/ MakeRequest(p) => Goal
  BY <1>6, <1>17 DEF LlRw, MakeRequest, At, Asking, Pc
<1>19. ASSUME AheadNext(p)
       PROVE  Goal
  <2>1. CASE s.ahead = <<>>
    BY <1>6, <1>19, <2>1 DEF AheadNext, Pc
  <2>2. CASE s.ahead # <<>>
    <3>1. PICK w, a : proc' = [proc EXCEPT ![p] = [s EXCEPT !.pc = "getblk", !.want = w, !.ahead = a, !.first = s.bh, !.bh = 0]]
      BY <1>19, <2>2 DEF AheadNext, Become
    <3>2. n.op = s.op /\ n.pc = "getblk" /\ n.first = s.bh /\ \A q \in Proc \ {p} : proc'[q] = proc[q]
      BY <1>1, <3>1 DEF Locals
    <3>3. s.bh # 0
      BY <1>1, <1>19 DEF AheadNext, At, LocalsOK
    <3> QED BY <3>2, <3>3 DEF Effect, Empty
  <2> QED BY <2>1, <2>2
<1>20. ASSUME ReadAhead(p)
       PROVE  Goal
  <2>1. PICK w : proc' = [proc EXCEPT ![p] = [s EXCEPT !.pc = "ahead", !.bh = s.first, !.first = 0, !.want = w]]
    BY <1>20 DEF ReadAhead, Become
  <2>2. n.op = s.op /\ n.pc = "ahead" /\ n.bh = s.first /\ \A q \in Proc \ {p} : proc'[q] = proc[q]
    BY <1>1, <2>1 DEF Locals
  <2>3. s.first # 0
    BY <1>1, <1>20 DEF ReadAhead, At, LocalsOK
  <2> QED BY <2>2, <2>3 DEF Effect, Empty
<1>21. ReadWait(p) \/ Read(p) \/ FileWriteDirt(p) \/ FileWriteCopy(p) \/ BlockWrite(p) => Goal
  BY <1>6 DEF ReadWait, Read, FileWriteDirt, FileWriteCopy, BlockWrite, Pc
<1>22. Sleep(p) \/ Fault(p) => Goal
  BY <1>3 DEF Sleep, Fault
<1> HIDE DEF Goal
<1>23. Goal
  BY <1>4, <1>5, <1>7, <1>8, <1>9, <1>11, <1>13, <1>14, <1>15, <1>16, <1>18, <1>19, <1>20, <1>21, <1>22 DEF Step
<1> QED BY <1>23 DEF Goal

\* The step of brelse: everybody who slept on buffer_wait is awake.
LEMMA BrelseEffect ==
  ASSUME Inv, NEW p \in Proc, Brelse(p), NEW q \in Proc
  PROVE  /\ proc'[q].pc # "bufwait"
         /\ proc'[q].op = proc[q].op \/ proc'[q].op \in Call(q)
         /\ proc[q].op = "sync" => proc'[q].op = "sync"
<1>1. CASE q = p
  <2>1. proc'[p] = IdleProc /\ proc[p].pc = "brelse"
    BY DEF Brelse, At
  <2>2. IdleProc.op = "none" /\ IdleProc.pc = "idle"
    BY DEF IdleProc
  <2>3. proc[p].op # "sync"
    BY <2>1, HeldBlocks DEF LocalsOK, Asking
  <2> QED BY <1>1, <2>1, <2>2, <2>3 DEF Call
<1>2. CASE q # p
  <2>1. proc'[q] = WakeBufferWait(proc[q]) /\ proc[q] \in Locals /\ "getblk" \in Pc
    BY <1>2, HeldBlocks DEF Brelse, Pc
  <2>2. CASE proc[q].pc = "bufwait"
    BY <2>1, <2>2, PcFields DEF WakeBufferWait, Fields
  <2>3. CASE proc[q].pc # "bufwait"
    BY <2>1, <2>3 DEF WakeBufferWait
  <2> QED BY <2>2, <2>3
<1> QED BY <1>1, <1>2

\* sys_sync returns when all it had to write is on its way.
THEOREM SyncWrites == Spec => SyncFlushes
<1>1. Inv /\ [Next]_vars => [\A p \in Proc : ReturnsFlushed(p)]_vars
  <2> SUFFICES ASSUME Inv, Next, NEW p \in Proc, proc[p].op = "sync", proc'[p].op # "sync"
               PROVE  ReturnsFlushed(p)
    BY DEF ReturnsFlushed
  <2>1. \E q \in Proc : Step(q)
    <3>1. (\E r \in Slot : Transfer(r) \/ Complete(r) \/ Fail(r)) => proc' = proc
      BY DEF Transfer, Complete, Fail, end_request
    <3> QED BY <3>1 DEF Next
  <2>2. proc[p].i \in Nat \ Buffer /\ proc[p].i # 0
    BY <2>1, StepEffect, BrelseEffect DEF Effect
  <2>3. \A b \in Buffer : ~(b >= proc[p].i)
    BY <2>2, BufferAssumption DEF Buffer
  <2>4. \A k \in Block \ lost : Flushed(k, proc[p].snap[k], proc[p].i)
    BY DEF Inv, SyncOK
  <2>5. \A k \in Block \ lost :
          \/ disk[k] >= proc[p].snap[k]
          \/ \E b \in find_buffer(k) : data[b] >= proc[p].snap[k] /\ Unwritten(b)
    BY <2>3, <2>4 DEF Flushed, find_buffer
  <2> QED BY <2>5 DEF ReturnsFlushed, Unwritten
<1> QED BY <1>1, CacheInvariant, PTL DEF Spec, SyncFlushes

\* The scan of free_list finds a buffer unless all are in use.
LEMMA NoVictims ==
  ASSUME TypeOK, Victims = {}, NEW b \in Buffer
  PROVE  count[b] # 0
<1> SUFFICES ASSUME count[b] = 0 PROVE FALSE
  OBVIOUS
<1> DEFINE U == {c \in Buffer : count[c] = 0}
<1>1. \A c \in U : BADNESS(c) \in 0 .. 3
  BY DEF BADNESS
<1>2. \A c \in U : \E d \in U : ~(BADNESS(c) <= BADNESS(d))
  BY DEF Victims
<1>3. b \in U
  OBVIOUS
<1> HIDE DEF U
<1>4. PICK b1 \in U : BADNESS(b1) < BADNESS(b)
  BY <1>1, <1>2, <1>3
<1>5. PICK b2 \in U : BADNESS(b2) < BADNESS(b1)
  BY <1>1, <1>2
<1>6. PICK b3 \in U : BADNESS(b3) < BADNESS(b2)
  BY <1>1, <1>2
<1>7. PICK b4 \in U : BADNESS(b4) < BADNESS(b3)
  BY <1>1, <1>2
<1> QED BY <1>1, <1>3, <1>4, <1>5, <1>6, <1>7

\* The calls that a process is in are calls that it makes.
CallsOK == \A p \in Proc : proc[p].op \in Call(p)

\* When all buffers are in use, one is the buffer of a process that does not
\* ask for another: there are not enough processes to keep all in first.
LEMMA SomebodyHolds ==
  ASSUME Inv, CallsOK, Victims = {}
  PROVE  \E h \in Proc : proc[h].bh # 0
<1> SUFFICES ASSUME \A h \in Proc : proc[h].bh = 0 PROVE FALSE
  OBVIOUS
<1> DEFINE T == {p \in Proc : Calls(p) \cap Breada # {}}
           f == [b \in Buffer |-> CHOOSE h \in T : proc[h].first = b]
<1>1. \A b \in Buffer : \E h \in T : proc[h].first = b
  <2> SUFFICES ASSUME NEW b \in Buffer PROVE \E h \in T : proc[h].first = b
    OBVIOUS
  <2>0. b # 0 /\ TypeOK
    BY BufferNat DEF Inv
  <2>1. count[b] # 0
    BY <2>0, NoVictims
  <2>2. {p \in Proc : proc[p].bh = b} = {}
    BY <2>0
  <2>3. Cardinality({p \in Proc : proc[p].first = b}) # 0
    <3> DEFINE B == {p \in Proc : proc[p].bh = b}
               F == {p \in Proc : proc[p].first = b}
    <3>1. count[b] = Cardinality(B) + Cardinality(F)
      BY DEF Inv, CountOK
    <3>2. Cardinality(B) = 0
      BY <2>2, FS_EmptySet
    <3>3. Cardinality(F) \in Nat
      BY OneChanges
    <3> HIDE DEF B, F
    <3>4. Cardinality(F) # 0
      BY <2>1, <3>1, <3>2, <3>3
    <3> QED BY <3>4 DEF F
  <2>4. PICK h \in Proc : proc[h].first = b
    BY <2>3, FS_EmptySet
  <2>5. proc[h].op \in Breada /\ proc[h].op \in Calls(h)
    BY <2>0, <2>4, HeldBlocks DEF LocalsOK, CallsOK, Call, Breada
  <2> QED BY <2>4, <2>5
<1>2. f \in [Buffer -> T] /\ \A b \in Buffer : proc[f[b]].first = b
  BY <1>1
<1>3. IsFiniteSet(T)
  BY BufferAssumption, FS_Subset
<1>4. IsFiniteSet(Buffer) /\ Cardinality(Buffer) = NR_BUFFERS
  <2>1. NR_BUFFERS \in Int /\ 1 \in Int /\ ~(1 > NR_BUFFERS) /\ NR_BUFFERS - 1 + 1 = NR_BUFFERS
    BY BufferAssumption
  <2> QED BY <2>1, FS_Interval DEF Buffer
<1>5. Cardinality(T) < Cardinality(Buffer)
  BY <1>4, BreadaAssumption
<1> HIDE DEF T, f
<1>6. \E b, c \in Buffer : b # c /\ f[b] = f[c]
  BY <1>2, <1>3, <1>4, <1>5, FS_PigeonHole
<1> QED BY <1>2, <1>6

\* Who sleeps on buffer_wait will be woken by somebody's brelse: the last one
\* to fall asleep finds a process that has its buffer and asks for no other.
THEOREM WaiterHasWaker == Spec => []BufferWaiter
<1>0. \A p \in Proc : {proc[p].bh, proc[p].first} # {0} <=> ~Empty(proc[p])
  BY DEF Empty
<1>1. Init => CallsOK /\ BufferWaiter
  <2>1. Init => \A p \in Proc : proc[p] = IdleProc
    BY DEF Init
  <2>2. IdleProc.op = "none" /\ IdleProc.pc = "idle"
    BY DEF IdleProc
  <2> QED BY <2>1, <2>2 DEF CallsOK, Call, BufferWaiter
<1>2. Inv /\ CallsOK /\ BufferWaiter /\ [Next]_vars => CallsOK' /\ BufferWaiter'
  <2> SUFFICES ASSUME Inv, CallsOK, BufferWaiter, [Next]_vars
               PROVE  CallsOK' /\ BufferWaiter'
    OBVIOUS
  <2>1. CASE proc' = proc
    BY <2>1 DEF CallsOK, BufferWaiter
  <2>2. ASSUME NEW p \in Proc, Brelse(p)
        PROVE  CallsOK' /\ BufferWaiter'
    BY <2>2, BrelseEffect DEF CallsOK, BufferWaiter, Call
  <2>3. ASSUME NEW p \in Proc, Step(p), ~Brelse(p)
        PROVE  CallsOK' /\ BufferWaiter'
    <3>1. Effect(p, proc[p], proc'[p]) /\ \A q \in Proc \ {p} : proc'[q] = proc[q]
      BY <2>3, StepEffect
    <3>2. CallsOK'
      BY <3>1 DEF CallsOK, Call, Effect
    <3>3. ASSUME NEW q \in Proc, proc'[q].pc = "bufwait"
          PROVE  \E h \in Proc : proc'[h].pc # "bufwait" /\ ~Empty(proc'[h])
      <4>1. CASE \E o \in Proc : proc[o].pc = "bufwait"
        <5>1. PICK h \in Proc : proc[h].pc # "bufwait" /\ ~Empty(proc[h])
          BY <1>0, <4>1 DEF BufferWaiter
        <5>2. CASE h = p /\ proc'[p].pc = "bufwait"
          <6>1. Victims = {} /\ proc[p].bh = 0
            BY <3>1, <5>1, <5>2 DEF Effect
          <6>2. PICK g \in Proc : proc[g].bh # 0
            BY <6>1, SomebodyHolds
          <6>3. proc[g].pc # "bufwait"
            BY <6>2, HeldBlocks DEF LocalsOK, Asking
          <6> QED BY <3>1, <6>1, <6>2, <6>3 DEF Empty
        <5>3. CASE ~(h = p /\ proc'[p].pc = "bufwait")
          BY <3>1, <5>1, <5>3 DEF Effect
        <5> QED BY <5>2, <5>3
      <4>2. CASE ~\E o \in Proc : proc[o].pc = "bufwait"
        <5>1. q = p /\ Victims = {} /\ proc[p].bh = 0
          BY <3>1, <3>3, <4>2 DEF Effect
        <5>2. PICK g \in Proc : proc[g].bh # 0
          BY <5>1, SomebodyHolds
        <5> QED BY <3>1, <4>2, <5>1, <5>2 DEF Empty
      <4> QED BY <4>1, <4>2
    <3>4. BufferWaiter'
      BY <3>3 DEF BufferWaiter, Empty
    <3> QED BY <3>2, <3>4
  <2>4. (\E r \in Slot : Transfer(r) \/ Complete(r) \/ Fail(r)) => proc' = proc
    BY DEF Transfer, Complete, Fail, end_request
  <2> QED BY <2>1, <2>2, <2>3, <2>4 DEF Next, vars
<1> QED BY <1>1, <1>2, CacheInvariant, PTL DEF Spec
=============================================================================
