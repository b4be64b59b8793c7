--------------------------- MODULE BlockDevProofs ---------------------------
(***************************************************************************)
(* The block devices: Inv of BlockDev is inductive, and the safety          *)
(* properties follow from it.                                              *)
(*                                                                         *)
(* The proof goes from the data to the steps.  First the request table and  *)
(* the queues: what add_request's search, SubSeq at end_request and the     *)
(* drivers' refusals do to a queue, its elevator order (Sweeps), the        *)
(* requests each one has let pass and the slots.  Then the processes: who   *)
(* waits for a buffer or for a slot, and that ending requests wakes them.   *)
(* Then the drivers, which hold their one command or timer for the head of  *)
(* their queue (HdBusy, FdBusy) until the floppy's two timers overlap.      *)
(* Last, one lemma per action, the induction, and the theorems.             *)
(***************************************************************************)
EXTENDS BlockDev, SetLemmas, SequenceTheorems

-----------------------------------------------------------------------------
(* Slots.                                                                  *)

\* No buffer is the NULL of a free slot.
LEMMA NoBuffer == <<>> \notin Buf
<1> SUFFICES ASSUME <<>> \in Buf PROVE FALSE
  OBVIOUS
<1>1. << >> \in [major : Major, minor : Nat, block : Nat]
  BY RequestAssumption
<1>2. DOMAIN << >> = {"major", "minor", "block"}
  BY <1>1
<1>3. DOMAIN << >> = {}
  OBVIOUS
<1> QED BY <1>2, <1>3

\* A slot is free or holds a request.
LEMMA FreeOrUsed ==
  /\ Free.bh = <<>> /\ Free \notin Rq
  /\ \A req \in [Slot -> Rq \cup {Free}], r \in Slot : r \in Used(req) <=> req[r] \in Rq
<1>1. Free.bh = <<>>
  BY DEF Free
<1>2. Free \notin Rq
  BY <1>1, NoBuffer DEF Rq
<1> QED BY <1>1, <1>2 DEF Used

\* A request that was just made.
LEMMA NewRequestType ==
  ASSUME NEW b \in Buf, NEW cmd \in {READ, WRITE}
  PROVE  LET n == NewRequest(b, cmd)
         IN /\ n \in Rq /\ n # Free /\ n.bh = b /\ n.cmd = cmd /\ n.nr = 2 /\ n.off = 0
            /\ n.sector = 2 * b.block /\ \A w \in Work : n.passed[w] = 0
<1>1. b.block \in Nat
  BY RequestAssumption
<1> DEFINE n == NewRequest(b, cmd)
<1>2. /\ n.bh = b /\ n.cmd = cmd /\ n.nr = 2 /\ n.off = 0
      /\ n.sector = 2 * b.block /\ \A w \in Work : n.passed[w] = 0
  BY DEF NewRequest, Free
<1>3. NewRequest(b, cmd) \in Rq
  BY <1>1 DEF Rq, NewRequest, Free
<1> QED BY <1>2, <1>3, FreeOrUsed

-----------------------------------------------------------------------------
(* Sequences.                                                              *)

\* s is q, of length n, with r behind the a-th element.
PutBehind(s, q, n, r, a) ==
  \A i \in 1 .. n + 1 : s[i] = IF i <= a THEN q[i] ELSE IF i = a + 1 THEN r ELSE q[i - 1]

LEMMA Inserted ==
  ASSUME NEW S, NEW q \in Seq(S), NEW a \in 1 .. Len(q), NEW r \in S
  PROVE  /\ InsertAt(q, a + 1, r) \in Seq(S) /\ Len(InsertAt(q, a + 1, r)) = Len(q) + 1
         /\ PutBehind(InsertAt(q, a + 1, r), q, Len(q), r, a)
<1> DEFINE s == InsertAt(q, a + 1, r)
<1> DEFINE x == SubSeq(q, 1, a)
           y == SubSeq(q, a + 1, Len(q))
<1>0. Len(q) \in Nat /\ a \in Nat /\ a <= Len(q) /\ \A i \in 1 .. Len(q) : q[i] \in S
  BY LenProperties
<1>1. /\ x \in Seq(S) /\ Len(x) = a /\ \A i \in 1 .. a : x[i] = q[i]
  <2>1. /\ x \in Seq(S) /\ Len(x) = (IF 1 <= a THEN a - 1 + 1 ELSE 0)
        /\ \A i \in 1 .. a - 1 + 1 : x[i] = q[1 + i - 1]
    BY <1>0, SubSeqProperties
  <2> HIDE DEF x
  <2> QED BY <1>0, <2>1
<1>2. /\ y \in Seq(S) /\ Len(y) = Len(q) - a /\ \A i \in 1 .. Len(q) - a : y[i] = q[a + i]
  <2>1. /\ y \in Seq(S) /\ Len(y) = (IF a + 1 <= Len(q) THEN Len(q) - (a + 1) + 1 ELSE 0)
        /\ \A i \in 1 .. Len(q) - (a + 1) + 1 : y[i] = q[a + 1 + i - 1]
    BY <1>0, SubSeqProperties
  <2> HIDE DEF y
  <2> QED BY <1>0, <2>1
<1>3. s = (x \o <<r>>) \o y
  <2>1. (a + 1) - 1 = a
    BY <1>0
  <2>2. s = (SubSeq(q, 1, (a + 1) - 1) \o <<r>>) \o SubSeq(q, a + 1, Len(q))
    BY DEF InsertAt
  <2> QED BY <2>1, <2>2
<1> HIDE DEF x, y
<1> HIDE DEF s
<1>4. <<r>> \in Seq(S) /\ Len(<<r>>) = 1 /\ <<r>>[1] = r
  OBVIOUS
<1>5. PICK z : z = x \o <<r>>
  OBVIOUS
<1>6. /\ z \in Seq(S) /\ Len(z) = a + 1
      /\ \A i \in 1 .. a + 1 : z[i] = IF i <= a THEN x[i] ELSE <<r>>[i - a]
  BY <1>1, <1>4, <1>5, ConcatProperties
<1>7. \A i \in 1 .. a + 1 : z[i] = IF i <= a THEN q[i] ELSE r
  BY <1>0, <1>1, <1>4, <1>6
<1>8. /\ s \in Seq(S) /\ Len(s) = (a + 1) + (Len(q) - a)
      /\ \A i \in 1 .. (a + 1) + (Len(q) - a) : s[i] = IF i <= a + 1 THEN z[i] ELSE y[i - (a + 1)]
  <2>1. s = z \o y
    BY <1>3, <1>5
  <2>2. z \in Seq(S) /\ y \in Seq(S)
    BY <1>2, <1>6
  <2>3. /\ s \in Seq(S) /\ Len(s) = Len(z) + Len(y)
        /\ \A i \in 1 .. Len(z) + Len(y) : s[i] = IF i <= Len(z) THEN z[i] ELSE y[i - Len(z)]
    BY <2>1, <2>2, ConcatProperties
  <2> QED BY <2>3, <1>2, <1>6
<1>9. (a + 1) + (Len(q) - a) = Len(q) + 1
  BY <1>0
<1>10. ASSUME NEW i \in 1 .. Len(q) + 1
       PROVE  s[i] = IF i <= a THEN q[i] ELSE IF i = a + 1 THEN r ELSE q[i - 1]
  <2>1. s[i] = IF i <= a + 1 THEN z[i] ELSE y[i - (a + 1)]
    BY <1>8, <1>9
  <2>2. CASE i <= a + 1
    BY <2>1, <2>2, <1>0, <1>7
  <2>3. CASE i > a + 1
    <3>1. i - (a + 1) \in 1 .. Len(q) - a /\ a + (i - (a + 1)) = i - 1
      BY <2>3, <1>0
    <3>2. y[i - (a + 1)] = q[a + (i - (a + 1))]
      BY <3>1, <1>2
    <3> QED BY <2>1, <2>3, <3>1, <3>2, <1>0
  <2> QED BY <2>2, <2>3, <1>0
<1> QED BY <1>8, <1>9, <1>10 DEF PutBehind, s

\* The first n elements of q are taken off.
LeftOf(s, q, n) == Len(s) = Len(q) - n /\ \A i \in 1 .. Len(q) - n : s[i] = q[n + i]

LEMMA CutOff ==
  ASSUME NEW S, NEW q \in Seq(S), NEW n \in 0 .. Len(q)
  PROVE  SubSeq(q, n + 1, Len(q)) \in Seq(S) /\ LeftOf(SubSeq(q, n + 1, Len(q)), q, n)
<1> DEFINE s == SubSeq(q, n + 1, Len(q))
<1>0. Len(q) \in Nat /\ n \in Nat /\ n <= Len(q) /\ \A i \in 1 .. Len(q) : q[i] \in S
  BY LenProperties
<1>1. /\ s \in Seq(S) /\ Len(s) = (IF n + 1 <= Len(q) THEN Len(q) - (n + 1) + 1 ELSE 0)
      /\ \A i \in 1 .. Len(q) - (n + 1) + 1 : s[i] = q[n + 1 + i - 1]
  BY <1>0, SubSeqProperties
<1> HIDE DEF s
<1>2. s \in Seq(S) /\ LeftOf(s, q, n)
  BY <1>0, <1>1 DEF LeftOf
<1> QED BY <1>2 DEF s

-----------------------------------------------------------------------------
(* The order of work.                                                      *)

\* Before is an order.
LEMMA BeforeOrder ==
  /\ \A u, v, w \in Work : Before(u, v) /\ Before(v, w) => Before(u, w)
  /\ \A u, v \in Work : Before(u, v) => ~Before(v, u)
<1>1. \A w \in Work : w[2] \in Nat /\ w[1].minor \in Nat /\ w[1].block \in Nat
  BY RequestAssumption DEF Work, READ, WRITE
<1> QED BY <1>1 DEF Before

\* It is total on the buffers of a device.
LEMMA BeforeTotal ==
  ASSUME NEW u \in Work, NEW v \in Work, u[1].major = v[1].major, u[1] # v[1]
  PROVE  Before(u, v) \/ Before(v, u)
<1>1. u[2] \in Nat /\ u[1] \in [major : Major, minor : Nat, block : Nat]
  BY RequestAssumption DEF Work, READ, WRITE
<1>2. v[2] \in Nat /\ v[1] \in [major : Major, minor : Nat, block : Nat]
  BY RequestAssumption DEF Work, READ, WRITE
<1>3. u[1].minor # v[1].minor \/ u[1].block # v[1].block
  BY <1>1, <1>2
<1> QED BY <1>1, <1>2, <1>3 DEF Before

\* IN_ORDER compares the work, wherever the drivers stand in it.
LEMMA InOrder ==
  ASSUME NEW a \in Rq, NEW b \in Rq, a.bh.major = b.bh.major, a.bh # b.bh,
         a.sector = 2 * a.bh.block + a.off, b.sector = 2 * b.bh.block + b.off
  PROVE  /\ IN_ORDER(a, b) <=> Before(WorkOf(a), WorkOf(b))
         /\ WorkOf(a) \in Work /\ WorkOf(b) \in Work
         /\ Before(WorkOf(a), WorkOf(b)) \/ Before(WorkOf(b), WorkOf(a))
<1>1. /\ a.bh \in Buf /\ a.off \in 0 .. 1 /\ a.cmd \in {READ, WRITE}
      /\ a.bh \in [major : Major, minor : Nat, block : Nat]
  BY RequestAssumption DEF Rq
<1>2. /\ b.bh \in Buf /\ b.off \in 0 .. 1 /\ b.cmd \in {READ, WRITE}
      /\ b.bh \in [major : Major, minor : Nat, block : Nat]
  BY RequestAssumption DEF Rq
<1>3. WorkOf(a) \in Work /\ WorkOf(b) \in Work /\ WorkOf(a)[1] = a.bh /\ WorkOf(a)[2] = a.cmd
      /\ WorkOf(b)[1] = b.bh /\ WorkOf(b)[2] = b.cmd
  BY <1>1, <1>2 DEF WorkOf, Work
<1>4. Before(WorkOf(a), WorkOf(b)) \/ Before(WorkOf(b), WorkOf(a))
  BY <1>3, BeforeTotal
<1>5. a.bh.minor = b.bh.minor => a.bh.block # b.bh.block
  BY <1>1, <1>2
<1>6. a.bh.minor = b.bh.minor => (a.sector < b.sector <=> a.bh.block < b.bh.block)
  BY <1>1, <1>2, <1>5
<1> QED BY <1>3, <1>4, <1>6 DEF IN_ORDER, Before

-----------------------------------------------------------------------------
(* The elevator.                                                           *)

\* The first n pieces of work in k: one sweep up to the d-th, then another.
Rising(k, n, d) ==
  /\ \A i, j \in 1 .. n : i < j /\ (j <= d \/ d < i) => Before(k[i], k[j])
  /\ d < n => Before(k[d + 1], k[d])

\* The place add_request finds behind the i-th piece of work in k for v.
Fits(k, v, i) == (Before(k[i], v) \/ ~Before(k[i], k[i + 1])) /\ Before(v, k[i + 1])

\* The a-th of the first n pieces is the first that v fits behind, or the last.
FirstFit(k, n, v, a) ==
  (a < n => Fits(k, v, a)) /\ \A i \in 1 .. n - 1 : i < a => ~Fits(k, v, i)

Comparable(k, n, v) == \A i \in 1 .. n : Before(v, k[i]) \/ Before(k[i], v)

\* v is put where it fits first, or at the end: there are still two sweeps, and
\* v is in one of them.
LEMMA RisingInsert ==
  ASSUME NEW n \in Nat \ {0}, NEW k \in [1 .. n -> Work], NEW d \in 1 .. n, Rising(k, n, d),
         NEW v \in Work, Comparable(k, n, v), NEW a \in 1 .. n, FirstFit(k, n, v, a),
         NEW m \in [1 .. n + 1 -> Work], PutBehind(m, k, n, v, a)
  PROVE  \E e \in 1 .. n + 1 :
           Rising(m, n + 1, e) /\ ((e = d /\ d <= a) \/ (e = d + 1 /\ a <= d))
<1>0. /\ n \in Nat /\ d \in Nat /\ a \in Nat /\ 1 <= d /\ d <= n /\ 1 <= a /\ a <= n
      /\ \A i \in 1 .. n : Before(v, k[i]) \/ Before(k[i], v)
      /\ a < n => Fits(k, v, a)
      /\ \A i \in 1 .. n - 1 : i < a => ~Fits(k, v, i)
      /\ \A i \in 1 .. n + 1 : m[i] = IF i <= a THEN k[i] ELSE IF i = a + 1 THEN v ELSE k[i - 1]
  BY DEF Comparable, FirstFit, PutBehind
<1>1. ASSUME NEW e \in {d, d + 1}, e = d => d <= a, e = d + 1 => a <= d,
             1 < a + 1 /\ (a + 1 <= e \/ e < a) => Before(k[a], v),
             a < n /\ (a + 2 <= e \/ e < a + 1) => Before(v, k[a + 1]),
             e < n + 1 => Before(m[e + 1], m[e])
      PROVE  Rising(m, n + 1, e)
  <2> SUFFICES ASSUME NEW i \in 1 .. n + 1, NEW j \in 1 .. n + 1, i < j, j <= e \/ e < i
               PROVE  Before(m[i], m[j])
    BY <1>1 DEF Rising
  <2>1. \A x, y \in 1 .. n : x < y /\ (y <= d \/ d < x) => Before(k[x], k[y])
    BY DEF Rising
  <2>2. CASE i # a + 1 /\ j # a + 1
    <3> DEFINE x == IF i <= a THEN i ELSE i - 1
               y == IF j <= a THEN j ELSE j - 1
    <3>1. x \in 1 .. n /\ y \in 1 .. n /\ x < y /\ (y <= d \/ d < x)
      BY <1>0, <1>1, <2>2
    <3>2. m[i] = k[x] /\ m[j] = k[y]
      BY <2>2, <1>0
    <3> QED BY <2>1, <3>1, <3>2
  <2>3. CASE j = a + 1
    <3>1. i <= a /\ m[i] = k[i] /\ m[j] = v /\ i \in 1 .. n
      BY <2>3, <1>0
    <3>2. Before(k[a], v)
      BY <1>0, <1>1, <2>3, <3>1
    <3>3. CASE i = a
      BY <3>1, <3>2, <3>3
    <3>4. CASE i < a
      <4>1. Before(k[i], k[a])
        BY <2>1, <2>3, <3>1, <3>4, <1>0, <1>1
      <4> QED BY <3>1, <3>2, <4>1, BeforeOrder, <1>0
    <3> QED BY <3>1, <3>3, <3>4, <1>0
  <2>4. CASE i = a + 1
    <3>1. j - 1 \in 1 .. n /\ j - 1 >= a + 1 /\ m[i] = v /\ m[j] = k[j - 1] /\ a < n
      BY <2>4, <1>0
    <3>2. Before(v, k[a + 1])
      BY <1>0, <1>1, <2>4, <3>1
    <3>3. CASE j - 1 = a + 1
      BY <3>1, <3>2, <3>3
    <3>4. CASE a + 1 < j - 1
      <4>1. a + 1 \in 1 .. n /\ Before(k[a + 1], k[j - 1])
        BY <2>1, <2>4, <3>1, <3>4, <1>0, <1>1
      <4> QED BY <3>1, <3>2, <4>1, BeforeOrder, <1>0
    <3> QED BY <3>1, <3>3, <3>4, <1>0
  <2> QED BY <2>2, <2>3, <2>4
<1>r. /\ \A x, y \in 1 .. n : x < y /\ (y <= d \/ d < x) => Before(k[x], k[y])
      /\ d < n => Before(k[d + 1], k[d])
  BY DEF Rising
<1>2. CASE a < d
  <2>1. Before(k[a], k[a + 1]) /\ a + 1 \in 1 .. n
    BY <1>r, <1>2, <1>0
  <2>2. Before(k[a], v) /\ Before(v, k[a + 1])
    BY <1>0, <1>2, <2>1 DEF Fits
  <2>3. d + 1 < n + 1 => m[d + 2] = k[d + 1] /\ m[d + 1] = k[d]
    BY <1>0, <1>2
  <2>4. Rising(m, n + 1, d + 1)
    BY <1>0, <1>1, <1>2, <1>r, <2>2, <2>3
  <2> QED BY <2>4, <1>2, <1>0
<1>3. CASE d <= a /\ a < n
  <2>1. CASE a = d
    <3>1. Before(v, k[d + 1]) /\ Before(k[d + 1], k[d]) /\ d + 1 \in 1 .. n
      BY <1>0, <1>3, <1>r, <2>1 DEF Fits
    <3>2. Before(v, k[d])
      BY <3>1, BeforeOrder, <1>0
    <3>3. m[d + 1] = v /\ m[d] = k[d]
      BY <1>0, <2>1
    <3>4. Rising(m, n + 1, d)
      BY <1>0, <1>1, <2>1, <3>1, <3>2, <3>3
    <3> QED BY <3>4, <2>1, <1>0
  <2>2. CASE d < a
    <3>1. Before(k[a], k[a + 1]) /\ a + 1 \in 1 .. n
      BY <1>r, <1>3, <2>2, <1>0
    <3>2. Before(k[a], v) /\ Before(v, k[a + 1])
      BY <1>0, <1>3, <3>1 DEF Fits
    <3>3. m[d + 1] = k[d + 1] /\ m[d] = k[d]
      BY <1>0, <2>2
    <3>4. Rising(m, n + 1, d)
      BY <1>0, <1>1, <1>3, <1>r, <2>2, <3>2, <3>3
    <3>5. d \in 1 .. n + 1 /\ d <= a
      BY <2>2, <1>0
    <3> QED BY <3>4, <3>5
  <2> QED BY <1>3, <2>1, <2>2, <1>0
<1>4. CASE a = n /\ d = n
  <2>1. CASE Before(k[n], v)
    <3>1. Rising(m, n + 1, d + 1)
      BY <1>0, <1>1, <1>4, <2>1
    <3> QED BY <3>1, <1>4, <1>0
  <2>2. CASE Before(v, k[n])
    <3>1. m[d + 1] = v /\ m[d] = k[d]
      BY <1>0, <1>4
    <3>2. Rising(m, n + 1, d)
      BY <1>0, <1>1, <1>4, <2>2, <3>1
    <3> QED BY <3>2, <1>4, <1>0
  <2> QED BY <2>1, <2>2, <1>0
<1>5. CASE a = n /\ d < n
  <2>1. Before(k[n], v)
    <3> SUFFICES ASSUME Before(v, k[n]) PROVE FALSE
      BY <1>0
    <3> DEFINE B == {j \in d + 1 .. n : Before(v, k[j])}
    <3>1. B \in SUBSET Nat /\ n \in B
      BY <1>0, <1>5
    <3>d. \A j : j \in B <=> j \in d + 1 .. n /\ Before(v, k[j])
      OBVIOUS
    <3> HIDE DEF B
    <3>2. PICK j \in B : \A y \in B : j <= y
      BY <3>1, MinNat
    <3>3. j \in d + 1 .. n /\ Before(v, k[j])
      BY <3>d
    <3>4. CASE j = d + 1
      <4>1. Before(k[d + 1], k[d]) /\ d \in 1 .. n - 1 /\ d + 1 \in 1 .. n
        BY <1>0, <1>5, <1>r
      <4>2. ~Before(k[d], k[d + 1])
        BY <4>1, BeforeOrder, <1>0
      <4> QED BY <3>3, <3>4, <4>1, <4>2, <1>5, <1>0 DEF Fits
    <3>5. CASE j > d + 1
      <4>1. j - 1 \in d + 1 .. n /\ j - 1 \in 1 .. n - 1 /\ (j - 1) + 1 = j
        BY <1>0, <3>3, <3>5
      <4>2. j - 1 \notin B
        BY <3>2, <4>1, <3>3
      <4>3. Before(k[j - 1], v)
        BY <3>d, <4>1, <4>2, <1>0
      <4> QED BY <4>1, <4>3, <3>3, <1>5, <1>0 DEF Fits
    <3> QED BY <3>3, <3>4, <3>5, <1>0
  <2>2. m[d + 1] = k[d + 1] /\ m[d] = k[d]
    BY <1>0, <1>5
  <2>3. Rising(m, n + 1, d)
    BY <1>0, <1>1, <1>5, <1>r, <2>1, <2>2
  <2>4. d \in 1 .. n + 1 /\ d <= a
    BY <1>5, <1>0
  <2> QED BY <2>3, <2>4
<1> QED BY <1>0, <1>2, <1>3, <1>4, <1>5

\* The work of the requests of q, in its order.
Works(q, req) == [i \in 1 .. Len(q) |-> WorkOf(req[q[i]])]

\* How often v may have been done while the request x waited, in the rest of a
\* sweep that stands at the work h or, if next, in the one after it.
Share(x, h, v, next) ==
  x.passed[v] + (IF Before(v, h) THEN 0 ELSE 1) <= IF next THEN 1 ELSE 2

\* The two parts of Sweeps.
LEMMA SweepsParts ==
  ASSUME NEW q \in Seq(Slot), NEW req, NEW d \in Nat \ {0}
  PROVE  Sweeps(q, req, d) <=>
           /\ Rising(Works(q, req), Len(q), d)
           /\ \A i \in 1 .. Len(q), v \in Work : Share(req[q[i]], WorkOf(req[q[1]]), v, d < i)
<1>0. Len(q) \in Nat /\ DOMAIN q = 1 .. Len(q)
  BY LenProperties
<1>1. \A i \in 1 .. Len(q) : Works(q, req)[i] = WorkOf(req[q[i]])
  BY DEF Works
<1>3. \A i \in 1 .. Len(q) : i <= d <=> ~(d < i)
  BY <1>0
<1> DEFINE P == /\ \A i, j \in DOMAIN q :
                     i < j /\ (j <= d \/ d < i) => Before(WorkOf(req[q[i]]), WorkOf(req[q[j]]))
                /\ d < Len(q) => Before(WorkOf(req[q[d + 1]]), WorkOf(req[q[d]]))
           Q == \A i \in DOMAIN q, v \in Work :
                  req[q[i]].passed[v] + (IF Before(v, WorkOf(req[q[1]])) THEN 0 ELSE 1)
                    <= IF i <= d THEN 2 ELSE 1
<1>4. Sweeps(q, req, d) <=> P /\ Q
  BY DEF Sweeps
<1>5. Q <=> \A i \in 1 .. Len(q), v \in Work : Share(req[q[i]], WorkOf(req[q[1]]), v, d < i)
  BY <1>0, <1>3 DEF Share
<1>6. P <=> Rising(Works(q, req), Len(q), d)
  BY <1>0, <1>1 DEF Rising
<1> QED BY <1>4, <1>5, <1>6

\* The request in r fits behind the i-th of q.
FitsBehind(q, r, req, i) ==
  /\ \/ IN_ORDER(req[q[i]], req[r])
     \/ ~IN_ORDER(req[q[i]], req[q[i + 1]])
  /\ IN_ORDER(req[r], req[q[i + 1]])

\* It is the first such, or the last of q.
FirstPlace(q, r, req, a) ==
  /\ a < Len(q) => FitsBehind(q, r, req, a)
  /\ \A i \in 1 .. Len(q) - 1 : i < a => ~FitsBehind(q, r, req, i)

Behind(q, a, r) == InsertAt(q, a + 1, r)

\* add_request puts a request behind the first place it fits, or at the end.
LEMMA EnqueuePlace ==
  ASSUME NEW q \in Seq(Slot), q # <<>>, NEW r \in Slot, NEW req
  PROVE  \E a \in 1 .. Len(q) :
           Enqueue(q, r, req) = Behind(q, a, r) /\ FirstPlace(q, r, req, a)
<1> DEFINE fits(i) == FitsBehind(q, r, req, i)
           A == {i \in 1 .. Len(q) - 1 : fits(i)} \cup {Len(q)}
           a == Min(A)
<1>0. Len(q) \in Nat /\ Len(q) > 0
  BY EmptySeq, LenProperties
<1>1. Enqueue(q, r, req) = Behind(q, a, r)
  BY DEF Enqueue, FitsBehind, Behind
<1>2. \A i : i \in A <=> (i \in 1 .. Len(q) - 1 /\ fits(i)) \/ i = Len(q)
  OBVIOUS
<1>3. A \in SUBSET Nat /\ A # {}
  BY <1>0
<1> HIDE DEF A
<1>4. a \in A /\ \A y \in A : a <= y
  BY <1>3, MinNat
<1> HIDE DEF a
<1>5. a \in 1 .. Len(q) /\ (a < Len(q) => fits(a))
  BY <1>0, <1>2, <1>4
<1>6. \A i \in 1 .. Len(q) - 1 : i < a => ~fits(i)
  <2> SUFFICES ASSUME NEW i \in 1 .. Len(q) - 1, i < a, fits(i) PROVE FALSE
    OBVIOUS
  <2>1. i \in A
    BY <1>2
  <2> HIDE DEF fits
  <2> QED BY <2>1, <1>4, <1>5, <1>0
<1> QED BY <1>1, <1>5, <1>6 DEF FirstPlace

\* The requests of a queue: in use, for the same device and other buffers.
Apart(q, req) ==
  /\ \A i \in 1 .. Len(q) : q[i] \in Used(req)
  /\ \A i, j \in 1 .. Len(q) : i # j =>
       req[q[i]].bh # req[q[j]].bh /\ req[q[i]].bh.major = req[q[j]].bh.major

Fresh(x) == \A v \in Work : x.passed[v] = 0

\* Adding a request that nothing has passed yet keeps the sweeps.
LEMMA ElevatorAdd ==
  ASSUME NEW req \in [Slot -> Rq \cup {Free}], Positions(req),
         NEW q \in Seq(Slot), q # <<>>, NEW r \in Slot, NEW a \in 1 .. Len(q),
         FirstPlace(q, r, req, a), NEW s, s = Behind(q, a, r), Apart(s, req),
         Fresh(req[r]), Elevator(q, req)
  PROVE  Elevator(s, req)
<1>0. Len(q) \in Nat \ {0} /\ DOMAIN q = 1 .. Len(q) /\ a \in Nat
  <2>1. Len(q) \in Nat /\ DOMAIN q = 1 .. Len(q)
    BY LenProperties
  <2> QED BY <2>1
<1>1. /\ s \in Seq(Slot) /\ Len(s) = Len(q) + 1
      /\ \A i \in 1 .. Len(q) + 1 :
           s[i] = IF i <= a THEN q[i] ELSE IF i = a + 1 THEN r ELSE q[i - 1]
  <2>1. /\ s \in Seq(Slot) /\ Len(s) = Len(q) + 1 /\ PutBehind(s, q, Len(q), r, a)
    BY Inserted DEF Behind
  <2> QED BY <2>1 DEF PutBehind
<1> DEFINE n == Len(q)
           k == Works(q, req)
           m == Works(s, req)
           v == WorkOf(req[r])
           at(i) == IF i <= a THEN i ELSE i + 1
<1>2. \A i \in 1 .. n : at(i) \in 1 .. n + 1 /\ s[at(i)] = q[i] /\ at(i) # a + 1
  BY <1>0, <1>1
<1>3. s[a + 1] = r /\ a + 1 \in 1 .. n + 1
  BY <1>0, <1>1
<1>4. \A i \in 1 .. n : q[i] \in Slot /\ q[i] \in Used(req)
  BY <1>0, <1>1, <1>2 DEF Apart, Used
<1>5. \A i, j \in 1 .. n : i # j => at(i) # at(j)
  BY <1>0
<1>6. \A x \in Used(req) : /\ req[x] \in Rq
                           /\ req[x].sector = 2 * req[x].bh.block + req[x].off
  BY FreeOrUsed DEF Positions, Used
<1> HIDE DEF at
<1>7. \A i, j \in 1 .. n : i # j =>
        /\ IN_ORDER(req[q[i]], req[q[j]]) <=> Before(WorkOf(req[q[i]]), WorkOf(req[q[j]]))
        /\ WorkOf(req[q[i]]) \in Work
  <2> SUFFICES ASSUME NEW i \in 1 .. n, NEW j \in 1 .. n, i # j
               PROVE  /\ IN_ORDER(req[q[i]], req[q[j]]) <=> Before(WorkOf(req[q[i]]), WorkOf(req[q[j]]))
                      /\ WorkOf(req[q[i]]) \in Work
    OBVIOUS
  <2>1. req[q[i]].bh # req[q[j]].bh /\ req[q[i]].bh.major = req[q[j]].bh.major
    <3>1. at(i) \in 1 .. Len(s) /\ at(j) \in 1 .. Len(s) /\ at(i) # at(j)
      BY <1>1, <1>2, <1>5
    <3>2. req[s[at(i)]].bh # req[s[at(j)]].bh /\ req[s[at(i)]].bh.major = req[s[at(j)]].bh.major
      BY <3>1 DEF Apart
    <3> QED BY <3>2, <1>2
  <2> QED BY <2>1, <1>4, <1>6, InOrder
<1>8. \A i \in 1 .. n :
        /\ IN_ORDER(req[q[i]], req[r]) <=> Before(WorkOf(req[q[i]]), v)
        /\ IN_ORDER(req[r], req[q[i]]) <=> Before(v, WorkOf(req[q[i]]))
        /\ WorkOf(req[q[i]]) \in Work /\ v \in Work
        /\ Before(v, WorkOf(req[q[i]])) \/ Before(WorkOf(req[q[i]]), v)
  <2> SUFFICES ASSUME NEW i \in 1 .. n
               PROVE  /\ IN_ORDER(req[q[i]], req[r]) <=> Before(WorkOf(req[q[i]]), v)
                      /\ IN_ORDER(req[r], req[q[i]]) <=> Before(v, WorkOf(req[q[i]]))
                      /\ WorkOf(req[q[i]]) \in Work /\ v \in Work
                      /\ Before(v, WorkOf(req[q[i]])) \/ Before(WorkOf(req[q[i]]), v)
    OBVIOUS
  <2>1. /\ req[q[i]].bh # req[r].bh /\ req[q[i]].bh.major = req[r].bh.major
        /\ r \in Used(req)
    <3>1. at(i) \in 1 .. Len(s) /\ a + 1 \in 1 .. Len(s) /\ at(i) # a + 1
      BY <1>1, <1>2, <1>3
    <3>2. req[s[at(i)]].bh # req[s[a + 1]].bh /\ req[s[at(i)]].bh.major = req[s[a + 1]].bh.major
          /\ s[a + 1] \in Used(req)
      BY <3>1 DEF Apart
    <3> QED BY <3>2, <1>2, <1>3
  <2> QED BY <2>1, <1>4, <1>6, InOrder
<1>9. PICK d \in 1 .. n : Sweeps(q, req, d)
  BY <1>0 DEF Elevator
<1>10. /\ Rising(k, n, d)
       /\ \A i \in 1 .. n, w \in Work : Share(req[q[i]], WorkOf(req[q[1]]), w, d < i)
  BY <1>0, <1>9, SweepsParts
<1>11. /\ k \in [1 .. n -> Work] /\ \A i \in 1 .. n : k[i] = WorkOf(req[q[i]])
  BY <1>8 DEF Works
<1>12. /\ m \in [1 .. n + 1 -> Work]
       /\ \A i \in 1 .. n + 1 : m[i] = IF i <= a THEN k[i] ELSE IF i = a + 1 THEN v ELSE k[i - 1]
  <2>1. \A i \in 1 .. n + 1 : m[i] = WorkOf(req[s[i]])
    BY <1>1 DEF Works
  <2>2. \A i \in 1 .. n + 1 : m[i] = IF i <= a THEN k[i] ELSE IF i = a + 1 THEN v ELSE k[i - 1]
    <3> TAKE i \in 1 .. n + 1
    <3>1. CASE i <= a
      BY <3>1, <2>1, <1>0, <1>1, <1>11
    <3>2. CASE i = a + 1
      BY <3>2, <2>1, <1>3, <1>0
    <3>3. CASE i > a + 1
      <4>1. i - 1 \in 1 .. n /\ s[i] = q[i - 1]
        BY <3>3, <1>0, <1>1
      <4> QED BY <4>1, <3>3, <2>1, <1>0, <1>11
    <3> QED BY <3>1, <3>2, <3>3, <1>0
  <2>3. v \in Work
    BY <1>8, <1>0
  <2>4. \A i \in 1 .. n + 1 : m[i] \in Work
    <3> TAKE i \in 1 .. n + 1
    <3>1. i <= a \/ i = a + 1 \/ i - 1 \in 1 .. n
      BY <1>0
    <3>2. \A j \in 1 .. n : k[j] \in Work
      BY <1>11
    <3> HIDE DEF v, k, m
    <3> QED BY <2>2, <2>3, <3>1, <3>2, <1>0
  <2>5. m = [i \in 1 .. n + 1 |-> m[i]]
    BY <1>1 DEF Works
  <2> HIDE DEF m
  <2> QED BY <2>2, <2>4, <2>5
<1> HIDE DEF k, m
<1>13. a < n => Fits(k, v, a)
  <2> SUFFICES ASSUME a < n PROVE Fits(k, v, a)
    OBVIOUS
  <2>1. a \in 1 .. n /\ a + 1 \in 1 .. n /\ a # a + 1
    BY <1>0
  <2>2. k[a] = WorkOf(req[q[a]]) /\ k[a + 1] = WorkOf(req[q[a + 1]])
    BY <2>1, <1>11
  <2>3. IN_ORDER(req[q[a]], req[q[a + 1]]) <=> Before(k[a], k[a + 1])
    BY <2>1, <2>2, <1>7
  <2>4. /\ IN_ORDER(req[q[a]], req[r]) <=> Before(k[a], v)
        /\ IN_ORDER(req[r], req[q[a + 1]]) <=> Before(v, k[a + 1])
    BY <2>1, <2>2, <1>8
  <2>5. FitsBehind(q, r, req, a)
    BY DEF FirstPlace
  <2> QED BY <2>3, <2>4, <2>5 DEF Fits, FitsBehind
<1>14. \A i \in 1 .. n - 1 : i < a => ~Fits(k, v, i)
  <2> SUFFICES ASSUME NEW i \in 1 .. n - 1, i < a PROVE ~Fits(k, v, i)
    OBVIOUS
  <2>1. i \in 1 .. n /\ i + 1 \in 1 .. n /\ i # i + 1
    BY <1>0
  <2>2. k[i] = WorkOf(req[q[i]]) /\ k[i + 1] = WorkOf(req[q[i + 1]])
    BY <2>1, <1>11
  <2>3. IN_ORDER(req[q[i]], req[q[i + 1]]) <=> Before(k[i], k[i + 1])
    BY <2>1, <2>2, <1>7
  <2>4. /\ IN_ORDER(req[q[i]], req[r]) <=> Before(k[i], v)
        /\ IN_ORDER(req[r], req[q[i + 1]]) <=> Before(v, k[i + 1])
    BY <2>1, <2>2, <1>8
  <2>5. ~FitsBehind(q, r, req, i)
    BY DEF FirstPlace
  <2> QED BY <2>3, <2>4, <2>5 DEF Fits, FitsBehind
<1>15. v \in Work /\ Comparable(k, n, v)
  BY <1>0, <1>8, <1>11 DEF Comparable
<1>16. PICK e \in 1 .. n + 1 :
         Rising(m, n + 1, e) /\ ((e = d /\ d <= a) \/ (e = d + 1 /\ a <= d))
  <2>0. n \in Nat \ {0} /\ a \in 1 .. n /\ d \in 1 .. n
    BY <1>0
  <2>1. FirstFit(k, n, v, a) /\ PutBehind(m, k, n, v, a)
    BY <1>12, <1>13, <1>14 DEF FirstFit, PutBehind
  <2>2. k \in [1 .. n -> Work] /\ m \in [1 .. n + 1 -> Work]
    BY <1>11, <1>12
  <2>3. Rising(k, n, d)
    BY <1>10
  <2> HIDE DEF v, n
  <2> QED BY <2>0, <2>1, <2>2, <2>3, <1>15, RisingInsert
<1>17. \A i \in 1 .. n + 1, w \in Work : Share(req[s[i]], WorkOf(req[s[1]]), w, e < i)
  <2> SUFFICES ASSUME NEW i \in 1 .. n + 1, NEW w \in Work
               PROVE  Share(req[s[i]], WorkOf(req[s[1]]), w, e < i)
    OBVIOUS
  <2>1. s[1] = q[1]
    BY <1>0, <1>1
  <2>2. CASE i = a + 1
    BY <2>1, <2>2, <1>3 DEF Share, Fresh
  <2>3. CASE i # a + 1
    <3> DEFINE j == IF i <= a THEN i ELSE i - 1
    <3>1. j \in 1 .. n /\ s[i] = q[j] /\ (e < i <=> d < j)
      BY <1>0, <1>1, <1>16, <2>3
    <3> HIDE DEF j
    <3> QED BY <3>1, <2>1, <1>10
  <2> QED BY <2>2, <2>3
<1>18. Sweeps(s, req, e)
  <2>1. e \in Nat \ {0}
    BY <1>0
  <2> QED BY <2>1, <1>1, <1>16, <1>17, SweepsParts DEF m
<1> QED BY <1>1, <1>18, LenProperties DEF Elevator

\* The requests that stay have seen those that end.
LEMMA PassType ==
  ASSUME NEW x \in Rq, NEW done
  PROVE  LET y == Pass(x, done)
         IN /\ y \in Rq /\ WorkOf(y) = WorkOf(x)
            /\ y.bh = x.bh /\ y.cmd = x.cmd /\ y.errors = x.errors
            /\ y.sector = x.sector /\ y.nr = x.nr /\ y.off = x.off
            /\ \A v \in Work : y.passed[v] = IF v \in done THEN x.passed[v] + 1 ELSE x.passed[v]
<1>1. x.passed \in [Work -> Nat]
  BY DEF Rq
<1>2. [w \in Work |-> IF w \in done THEN x.passed[w] + 1 ELSE x.passed[w]] \in [Work -> Nat]
  BY <1>1
<1>3. PICK f : f = [w \in Work |-> IF w \in done THEN x.passed[w] + 1 ELSE x.passed[w]]
  OBVIOUS
<1>4. Pass(x, done) = [x EXCEPT !.passed = f]
  BY <1>3 DEF Pass
<1>5. f \in [Work -> Nat]
  BY <1>2, <1>3
<1>6. \A v \in Work : f[v] = IF v \in done THEN x.passed[v] + 1 ELSE x.passed[v]
  BY <1>3
<1>7. [x EXCEPT !.passed = f] \in Rq
  BY <1>5 DEF Rq
<1>8. /\ [x EXCEPT !.passed = f].bh = x.bh /\ [x EXCEPT !.passed = f].cmd = x.cmd
      /\ [x EXCEPT !.passed = f].errors = x.errors /\ [x EXCEPT !.passed = f].sector = x.sector
      /\ [x EXCEPT !.passed = f].nr = x.nr /\ [x EXCEPT !.passed = f].off = x.off
      /\ [x EXCEPT !.passed = f].passed = f
  BY DEF Rq
<1> QED BY <1>4, <1>6, <1>7, <1>8 DEF WorkOf

\* What ends with the first n requests of q.
Done(q, req, n) == {WorkOf(req[q[i]]) : i \in 1 .. n}

\* The other requests of q have seen it.
Seen(q, req, n, new) ==
  \A i \in n + 1 .. Len(q) : new[q[i]] = Pass(req[q[i]], Done(q, req, n))

\* Taking the first n requests off keeps the sweeps.
LEMMA ElevatorCut ==
  ASSUME NEW req \in [Slot -> Rq \cup {Free}], NEW q \in Seq(Slot), Apart(q, req), Elevator(q, req),
         NEW n \in 0 .. Len(q), NEW s \in Seq(Slot), LeftOf(s, q, n), NEW new, Seen(q, req, n, new)
  PROVE  Elevator(s, new)
<1>0. Len(q) \in Nat /\ DOMAIN q = 1 .. Len(q) /\ n \in Nat /\ n <= Len(q)
  BY LenProperties
<1>1. /\ s \in Seq(Slot) /\ Len(s) = Len(q) - n
      /\ \A i \in 1 .. Len(q) - n : s[i] = q[n + i]
  BY DEF LeftOf
<1> SUFFICES ASSUME s # <<>> PROVE \E d \in DOMAIN s : Sweeps(s, new, d)
  BY DEF Elevator
<1>2. n < Len(q) /\ DOMAIN s = 1 .. Len(q) - n /\ q # <<>>
  <2>1. Len(s) # 0
    BY <1>1, EmptySeq
  <2>2. DOMAIN s = 1 .. Len(q) - n
    <3>1. s \in Seq(Slot) /\ Len(s) = Len(q) - n
      BY <1>1
    <3>2. DOMAIN s = 1 .. Len(s)
      BY <3>1, LenProperties
    <3> QED BY <3>1, <3>2
  <2>3. n < Len(q)
    <3>1. Len(q) \in Nat /\ n \in Nat /\ n <= Len(q) /\ Len(s) = Len(q) - n
      BY <1>0, <1>1
    <3> QED BY <2>1, <3>1
  <2> QED BY <2>2, <2>3, <1>0, EmptySeq
<1>3. PICK d \in 1 .. Len(q) : Sweeps(q, req, d)
  BY <1>0, <1>2 DEF Elevator
<1> DEFINE k == Works(q, req)
           w(i) == WorkOf(req[q[i]])
           l == Len(q)
<1>4. /\ \A i, j \in 1 .. l : i < j /\ (j <= d \/ d < i) => Before(w(i), w(j))
      /\ d < l => Before(w(d + 1), w(d))
      /\ \A i \in 1 .. l, v \in Work : Share(req[q[i]], w(1), v, d < i)
  <2>1. /\ Rising(k, l, d)
        /\ \A i \in 1 .. l, v \in Work : Share(req[q[i]], w(1), v, d < i)
    BY <1>0, <1>3, SweepsParts
  <2>2. \A i \in 1 .. l : k[i] = w(i)
    BY DEF Works
  <2>3. d \in 1 .. l /\ (d < l => d + 1 \in 1 .. l)
    BY <1>0
  <2> HIDE DEF k, w, l
  <2> QED BY <2>1, <2>2, <2>3 DEF Rising
<1>5. \A i \in 1 .. l : req[q[i]] \in Rq /\ w(i) \in Work
  <2>1. \A i \in 1 .. l : q[i] \in Slot /\ q[i] \in Used(req)
    BY DEF Apart, Used
  <2> QED BY <2>1, FreeOrUsed DEF Rq, WorkOf, Work
<1>6. \A i \in 1 .. l - n : /\ WorkOf(new[s[i]]) = w(n + i) /\ n + i \in 1 .. l
                            /\ \A v \in Work : new[s[i]].passed[v] =
                                 IF v \in Done(q, req, n) THEN req[q[n + i]].passed[v] + 1
                                 ELSE req[q[n + i]].passed[v]
  <2> TAKE i \in 1 .. l - n
  <2>1. n + i \in n + 1 .. l /\ n + i \in 1 .. l
    BY <1>0
  <2>2. new[s[i]] = Pass(req[q[n + i]], Done(q, req, n))
    BY <2>1, <1>1 DEF Seen
  <2>3. req[q[n + i]] \in Rq
    BY <2>1, <1>5
  <2> QED BY <2>1, <2>2, <2>3, PassType
<1>7. \A v : v \in Done(q, req, n) <=> \E x \in 1 .. n : v = w(x)
  BY DEF Done
<1>8. \A i \in 1 .. l : \A v \in Work : req[q[i]].passed[v] \in Nat
  BY <1>5 DEF Rq
<1> DEFINE e == IF n < d THEN d - n ELSE l - n
<1>9. e \in 1 .. l - n /\ e \in Nat \ {0} /\ l - n \in Nat /\ l \in Nat
  <2>1. l \in Nat /\ n < l /\ d \in 1 .. l
    BY <1>0, <1>2, <1>3
  <2> HIDE DEF l
  <2> QED BY <2>1, <1>0
<1>10. Rising(Works(s, new), l - n, e)
  <2>1. \A i \in 1 .. l - n : Works(s, new)[i] = w(n + i)
    BY <1>1, <1>6 DEF Works
  <2> HIDE DEF w
  <2>2. ASSUME NEW i \in 1 .. l - n, NEW j \in 1 .. l - n, i < j, j <= e \/ e < i
        PROVE  Before(w(n + i), w(n + j))
    <3>1. n + i \in 1 .. l /\ n + j \in 1 .. l /\ n + i < n + j /\ (n + j <= d \/ d < n + i)
      BY <1>0, <2>2
    <3> QED BY <3>1, <1>4
  <2>3. ASSUME e < l - n PROVE Before(w(n + (e + 1)), w(n + e)) /\ e + 1 \in 1 .. l - n
    <3>1. n + (e + 1) = d + 1 /\ n + e = d /\ d < l
      <4>1. l \in Nat /\ n < l /\ d \in 1 .. l
        BY <1>0, <1>2, <1>3
      <4> HIDE DEF l
      <4> QED BY <4>1, <1>0, <2>3
    <3>2. e + 1 \in 1 .. l - n
      <4> HIDE DEF e, l
      <4> QED BY <1>9, <2>3
    <3>3. Before(w(d + 1), w(d))
      BY <3>1, <1>4
    <3> HIDE DEF e, l
    <3> QED BY <3>1, <3>2, <3>3
  <2> HIDE DEF e
  <2> QED BY <2>1, <2>2, <2>3, <1>9 DEF Rising
<1>11. ASSUME NEW i \in 1 .. l - n, NEW v \in Work
       PROVE  Share(new[s[i]], WorkOf(new[s[1]]), v, e < i)
  <2> DEFINE p == req[q[n + i]].passed[v]
             pp == new[s[i]].passed[v]
  <2>1. n + i \in 1 .. l /\ p \in Nat /\ pp = IF v \in Done(q, req, n) THEN p + 1 ELSE p
    BY <1>6, <1>8
  <2>2. WorkOf(new[s[1]]) = w(n + 1) /\ n + 1 \in 1 .. l /\ 1 \in 1 .. l
    <3>1. 1 \in 1 .. l - n /\ n + 1 \in 1 .. l /\ 1 \in 1 .. l
      BY <1>0, <1>2
    <3> QED BY <3>1, <1>6
  <2>3. p + (IF Before(v, w(1)) THEN 0 ELSE 1) <= IF d < n + i THEN 1 ELSE 2
    BY <1>4, <2>1 DEF Share
  <2> SUFFICES pp + (IF Before(v, w(n + 1)) THEN 0 ELSE 1) <= IF e < i THEN 1 ELSE 2
    BY <2>2 DEF Share
  <2> HIDE DEF p, pp, w, e
  <2>4. CASE v \in Done(q, req, n)
    <3>1. PICK x \in 1 .. n : v = w(x)
      BY <2>4, <1>7
    <3>2. x \in 1 .. l /\ x < n + 1
      BY <1>0
    <3>3. x <= d => ~Before(v, w(1))
      <4> SUFFICES ASSUME x <= d PROVE ~Before(v, w(1))
        OBVIOUS
      <4>1. CASE x = 1
        BY <4>1, <3>1, <2>2, <1>5, BeforeOrder
      <4>2. CASE x > 1
        <5>1. Before(w(1), v)
          BY <4>2, <3>1, <3>2, <2>2, <1>4
        <5> QED BY <5>1, <2>2, <1>5, BeforeOrder
      <4> QED BY <4>1, <4>2, <1>0
    <3>4. (n + 1 <= d \/ d < x) => Before(v, w(n + 1))
      BY <3>1, <3>2, <2>2, <1>4
    <3> QED BY <2>1, <2>3, <2>4, <3>2, <3>3, <3>4, <1>0, <1>3 DEF e
  <2>5. CASE v \notin Done(q, req, n)
    <3>1. CASE n >= d
      BY <2>1, <2>3, <2>5, <3>1, <1>0, <1>3 DEF e
    <3>2. CASE n < d
      <4>1. n = 0 \/ Before(w(1), w(n + 1))
        BY <3>2, <2>2, <1>0, <1>4
      <4>2. Before(v, w(1)) => Before(v, w(n + 1))
        BY <4>1, <2>2, <1>5, BeforeOrder, <1>0
      <4> QED BY <2>1, <2>3, <2>5, <3>2, <4>2, <1>0, <1>3 DEF e
    <3> QED BY <3>1, <3>2, <1>0
  <2> QED BY <2>4, <2>5
<1>12. Sweeps(s, new, e)
  BY <1>1, <1>9, <1>10, <1>11, SweepsParts
<1> QED BY <1>2, <1>9, <1>12

\* The sweeps are about the work of the requests and what has passed them.
LEMMA ElevatorSame ==
  ASSUME NEW q \in Seq(Slot), NEW req, NEW new, Elevator(q, req),
         \A i \in 1 .. Len(q) : /\ WorkOf(new[q[i]]) = WorkOf(req[q[i]])
                                /\ new[q[i]].passed = req[q[i]].passed
  PROVE  Elevator(q, new)
<1> SUFFICES ASSUME q # <<>> PROVE \E d \in DOMAIN q : Sweeps(q, new, d)
  BY DEF Elevator
<1>1. PICK d \in DOMAIN q : Sweeps(q, req, d)
  BY DEF Elevator
<1>2. Len(q) \in Nat /\ DOMAIN q = 1 .. Len(q)
  BY LenProperties
<1>3. d \in Nat \ {0} /\ d \in 1 .. Len(q)
  BY <1>2
<1>4. /\ Rising(Works(q, req), Len(q), d)
      /\ \A i \in 1 .. Len(q), v \in Work : Share(req[q[i]], WorkOf(req[q[1]]), v, d < i)
  BY <1>1, <1>3, SweepsParts
<1>5. Works(q, new) = Works(q, req)
  BY DEF Works
<1>6. 1 \in 1 .. Len(q)
  BY <1>2, <1>3
<1>7. WorkOf(new[q[1]]) = WorkOf(req[q[1]])
  BY <1>6
<1>8. \A i \in 1 .. Len(q), v \in Work : Share(new[q[i]], WorkOf(new[q[1]]), v, d < i)
  BY <1>4, <1>7 DEF Share
<1>9. Sweeps(q, new, d)
  BY <1>3, <1>4, <1>5, <1>8, SweepsParts
<1> QED BY <1>9

-----------------------------------------------------------------------------
(* A request is added.                                                     *)

\* p holds the lock of b, or nobody does and p waits for nothing.
Owns(lk, pr, p, b) ==
  IF pr[p].pc \in OnRequest THEN pr[p].bh = b ELSE ~lk[b]

\* The queue of the device that b is on after add_request.
NewQueue(q, r, req) == IF q = <<>> THEN <<r>> ELSE Enqueue(q, r, req)

\* A slot that is free is in no queue, and the buffers in a queue are different.
LEMMA QueueFacts ==
  ASSUME NEW qs, NEW req \in [Slot -> Rq \cup {Free}], NEW lk, NEW pr,
         Queued(qs, req), Held(req, lk, pr), NEW m \in Major
  PROVE  /\ qs[m] \in Seq(Slot) /\ Len(qs[m]) \in Nat /\ DOMAIN qs[m] = 1 .. Len(qs[m])
         /\ \A i \in 1 .. Len(qs[m]) :
              /\ qs[m][i] \in Slot /\ qs[m][i] \in Used(req) /\ req[qs[m][i]] \in Rq
              /\ req[qs[m][i]].bh.major = m
         /\ \A i, j \in 1 .. Len(qs[m]) : qs[m][i] = qs[m][j] => i = j
         /\ Apart(qs[m], req)
<1>1. qs[m] \in Seq(Slot)
  BY DEF Queued
<1>2. Len(qs[m]) \in Nat /\ DOMAIN qs[m] = 1 .. Len(qs[m]) /\ \A i \in 1 .. Len(qs[m]) : qs[m][i] \in Slot
  BY <1>1, LenProperties
<1>3. \A i \in 1 .. Len(qs[m]) : qs[m][i] \in Used(req) /\ req[qs[m][i]].bh.major = m
  BY <1>2 DEF Queued
<1>4. \A i, j \in 1 .. Len(qs[m]) : qs[m][i] = qs[m][j] => i = j
  BY <1>2 DEF Queued
<1>5. Apart(qs[m], req)
  BY <1>3, <1>4 DEF Apart, Held
<1> QED BY <1>1, <1>2, <1>3, <1>4, <1>5, FreeOrUsed

\* What adding r does to the slots and the queue of its device.
LEMMA AddQueued ==
  ASSUME NEW qs, NEW req \in [Slot -> Rq \cup {Free}], NEW lk, NEW pr,
         Queued(qs, req), Held(req, lk, pr), NEW m \in Major,
         NEW r \in Slot, req[r] = Free, NEW new \in [Slot -> Rq \cup {Free}],
         \A s \in Slot : s # r => new[s] = req[s],
         new[r] \in Rq, new[r].bh.major = m
  PROVE  /\ Queued([qs EXCEPT ![m] = NewQueue(qs[m], r, new)], new)
         /\ qs[m] # <<>> => \E a \in 1 .. Len(qs[m]) :
              /\ NewQueue(qs[m], r, new) = Behind(qs[m], a, r)
              /\ FirstPlace(qs[m], r, new, a)
<1> DEFINE q == qs[m]
           s == NewQueue(q, r, new)
<1>1. /\ q \in Seq(Slot) /\ Len(q) \in Nat /\ DOMAIN q = 1 .. Len(q)
      /\ \A i \in 1 .. Len(q) :
              /\ q[i] \in Slot /\ q[i] \in Used(req) /\ req[q[i]] \in Rq
              /\ req[q[i]].bh.major = m
      /\ \A i, j \in 1 .. Len(q) : q[i] = q[j] => i = j
  BY QueueFacts
<1>2. Used(new) = Used(req) \cup {r} /\ r \notin Used(req)
  BY FreeOrUsed DEF Used
<1>3. q # <<>> => \E a \in 1 .. Len(q) : s = Behind(q, a, r) /\ FirstPlace(q, r, new, a)
  BY <1>1, EnqueuePlace DEF NewQueue
<1>4. \E a \in 0 .. Len(q) : s \in Seq(Slot) /\ Len(s) = Len(q) + 1 /\ PutBehind(s, q, Len(q), r, a)
  <2>1. CASE q # <<>>
    <3> HIDE DEF q, s
    <3>1. PICK a \in 1 .. Len(q) : s = Behind(q, a, r)
      BY <2>1, <1>3
    <3>2. s \in Seq(Slot) /\ Len(s) = Len(q) + 1 /\ PutBehind(s, q, Len(q), r, a)
      BY <1>1, <3>1, Inserted DEF Behind
    <3>3. a \in 0 .. Len(q)
      BY <1>1
    <3> QED BY <3>2, <3>3
  <2>2. CASE q = <<>>
    <3>1. Len(q) = 0 /\ s = <<r>>
      BY <2>2, EmptySeq DEF NewQueue
    <3>2. s \in Seq(Slot) /\ Len(s) = 1 /\ s[1] = r
      BY <3>1
    <3> HIDE DEF q, s
    <3>3. PutBehind(s, q, Len(q), r, 0)
      BY <3>1, <3>2 DEF PutBehind
    <3> QED BY <3>1, <3>2, <3>3
  <2> QED BY <2>1, <2>2
<1> HIDE DEF s, q
<1>5. PICK a \in 0 .. Len(q) :
        s \in Seq(Slot) /\ Len(s) = Len(q) + 1 /\ PutBehind(s, q, Len(q), r, a)
  BY <1>4
<1>6. DOMAIN s = 1 .. Len(q) + 1
  BY <1>5, LenProperties
<1>7. \A i \in 1 .. Len(q) + 1 : s[i] = IF i <= a THEN q[i] ELSE IF i = a + 1 THEN r ELSE q[i - 1]
  BY <1>5 DEF PutBehind
<1>8. \A i \in 1 .. Len(q) : q[i] # r
  BY <1>1, <1>2
<1>9. \A i, j \in 1 .. Len(q) + 1 : s[i] = s[j] => i = j
  BY <1>1, <1>7, <1>8
<1>10. \A x \in Slot : (\E i \in 1 .. Len(q) + 1 : s[i] = x) <=> (\E i \in 1 .. Len(q) : q[i] = x) \/ x = r
  <2> TAKE x \in Slot
  <2>1. ASSUME NEW i \in 1 .. Len(q) + 1, s[i] = x, x # r PROVE \E j \in 1 .. Len(q) : q[j] = x
    <3>1. CASE i <= a
      BY <3>1, <2>1, <1>1, <1>7
    <3>2. CASE i > a
      <4>1. i - 1 \in 1 .. Len(q) /\ q[i - 1] = x
        BY <3>2, <2>1, <1>1, <1>7
      <4> QED BY <4>1
    <3> QED BY <3>1, <3>2, <1>1
  <2>2. ASSUME NEW j \in 1 .. Len(q), q[j] = x PROVE \E i \in 1 .. Len(q) + 1 : s[i] = x
    <3>1. CASE j <= a
      <4>1. j \in 1 .. Len(q) + 1 /\ s[j] = x
        BY <3>1, <2>2, <1>1, <1>7
      <4> QED BY <4>1
    <3>2. CASE j > a
      <4>1. j + 1 \in 1 .. Len(q) + 1 /\ (j + 1) - 1 = j /\ j + 1 > a + 1
        BY <3>2, <1>1
      <4>2. s[j + 1] = x
        BY <4>1, <2>2, <1>1, <1>7
      <4> QED BY <4>1, <4>2
    <3> QED BY <3>1, <3>2, <1>1
  <2>3. \E i \in 1 .. Len(q) + 1 : s[i] = r
    <3>1. a + 1 \in 1 .. Len(q) + 1 /\ s[a + 1] = r
      BY <1>1, <1>7
    <3> QED BY <3>1
  <2> QED BY <2>1, <2>2, <2>3
<1> DEFINE nq == [qs EXCEPT ![m] = s]
<1>11. qs \in [Major -> Seq(Slot)]
  BY DEF Queued
<1>12. nq \in [Major -> Seq(Slot)] /\ nq[m] = s /\ \A x \in Major : x # m => nq[x] = qs[x]
  BY <1>5, <1>11
<1> HIDE DEF nq
<1>13. \A x \in Major : \A i, j \in DOMAIN nq[x] : nq[x][i] = nq[x][j] => i = j
  <2> TAKE x \in Major
  <2>1. CASE x = m
    <3>1. nq[x] = s
      BY <2>1, <1>12
    <3> QED BY <3>1, <1>6, <1>9
  <2>2. CASE x # m
    <3>1. nq[x] = qs[x]
      BY <2>2, <1>12
    <3> QED BY <3>1 DEF Queued
  <2> QED BY <2>1, <2>2
<1>14. ASSUME NEW x \in Major, NEW t \in Slot
       PROVE  (\E i \in DOMAIN nq[x] : nq[x][i] = t) <=> t \in Used(new) /\ new[t].bh.major = x
  <2>0. (\E i \in DOMAIN qs[x] : qs[x][i] = t) <=> t \in Used(req) /\ req[t].bh.major = x
    BY DEF Queued
  <2>1. CASE x = m
    <3>1. (\E i \in DOMAIN s : s[i] = t) <=> (\E i \in DOMAIN q : q[i] = t) \/ t = r
      BY <1>1, <1>6, <1>10
    <3>2. (\E i \in DOMAIN q : q[i] = t) <=> t \in Used(req) /\ req[t].bh.major = x
      BY <2>0, <2>1 DEF q
    <3> QED BY <2>1, <3>1, <3>2, <1>2, <1>12
  <2>2. CASE x # m
    BY <2>0, <2>2, <1>2, <1>12
  <2> QED BY <2>1, <2>2
<1>15. Queued(nq, new)
  BY <1>12, <1>13, <1>14 DEF Queued
<1> QED BY <1>3, <1>15 DEF nq, s, q

\* make_request fills a slot for the buffer b that p owns, and is done.
LEMMA AddSlot ==
  ASSUME NEW qs, NEW req, NEW lk, NEW pr, RequestsOK(qs, req, lk, pr),
         NEW b \in Buf, NEW cmd \in {READ, WRITE}, NEW p \in Proc, Owns(lk, pr, p, b),
         NEW r \in Slot, req[r] = Free,
         NEW new, new = [req EXCEPT ![r] = NewRequest(b, cmd)]
  PROVE  RequestsOK([qs EXCEPT ![b.major] = NewQueue(qs[b.major], r, new)], new,
                    [lk EXCEPT ![b] = TRUE], [pr EXCEPT ![p] = IdleProc])
<1> DEFINE n == NewRequest(b, cmd)
           m == b.major
           nq == [qs EXCEPT ![m] = NewQueue(qs[m], r, new)]
           nlk == [lk EXCEPT ![b] = TRUE]
           npr == [pr EXCEPT ![p] = IdleProc]
<1>0. /\ req \in [Slot -> Rq \cup {Free}] /\ pr \in [Proc -> ProcRec] /\ lk \in [Buf -> BOOLEAN]
      /\ \A x \in Proc : ProcOK(pr[x])
      /\ Queued(qs, req) /\ Held(req, lk, pr) /\ Positions(req) /\ Slotless(req, pr)
      /\ \A x \in Major : Elevator(qs[x], req)
  BY DEF RequestsOK, Held
<1>1. /\ n \in Rq /\ n.bh = b /\ n.cmd = cmd /\ n.nr = 2 /\ n.off = 0
      /\ n.sector = 2 * b.block /\ \A w \in Work : n.passed[w] = 0
  BY NewRequestType
<1>2. m \in Major /\ b.block \in Nat
  BY RequestAssumption
<1> HIDE DEF n
<1>3. /\ new \in [Slot -> Rq \cup {Free}] /\ new[r] = n
      /\ \A s \in Slot : s # r => new[s] = req[s]
  BY <1>0, <1>1 DEF n
<1>4. Used(new) = Used(req) \cup {r} /\ r \notin Used(req)
  BY <1>0, <1>1, <1>3, FreeOrUsed DEF Used
<1>5. /\ Queued(nq, new)
      /\ qs[m] # <<>> => \E a \in 1 .. Len(qs[m]) :
           NewQueue(qs[m], r, new) = Behind(qs[m], a, r) /\ FirstPlace(qs[m], r, new, a)
  <2>1. new[r] \in Rq /\ new[r].bh.major = m
    BY <1>1, <1>3
  <2> QED BY <2>1, <1>0, <1>2, <1>3, AddQueued
<1>6. nlk \in [Buf -> BOOLEAN] /\ nlk[b] /\ \A x \in Buf : x # b => nlk[x] = lk[x]
  BY <1>0
<1>7. /\ IdleProc \in ProcRec /\ IdleProc.pc = "idle" /\ ProcOK(IdleProc)
  BY DEF IdleProc, ProcRec, ProcOK, OnRequest, OnFloppy
<1>8. npr \in [Proc -> ProcRec] /\ npr[p].pc = "idle" /\ \A x \in Proc : x # p => npr[x] = pr[x]
  BY <1>0, <1>7
<1>9. \A x \in Proc : ProcOK(npr[x])
  BY <1>0, <1>7
<1> HIDE DEF nq, nlk, npr
<1>10. \A x \in Proc : pr[x].pc \in OnRequest => pr[x].bh \in Buf
  BY <1>0 DEF ProcOK
<1>11. \A s \in Used(req) : s \in Slot /\ s # r /\ new[s] = req[s] /\ req[s].bh \in Buf /\ req[s] \in Rq
  BY <1>0, <1>3, <1>4, FreeOrUsed DEF Rq, Used
<1>12. "idle" \notin OnRequest
  BY DEF OnRequest
\* b is with p or with nobody
<1>13. /\ \A s \in Used(req) : req[s].bh # b
       /\ \A x \in Proc : pr[x].pc \in OnRequest /\ x # p => pr[x].bh # b
  <2>1. CASE pr[p].pc \in OnRequest
    BY <2>1, <1>0 DEF Held, Owns
  <2>2. CASE pr[p].pc \notin OnRequest
    BY <2>2, <1>0 DEF Held, Owns
  <2> QED BY <2>1, <2>2
<1>14. Held(new, nlk, npr)
  <2>1. \A s \in Used(new) : nlk[new[s].bh]
    BY <1>0, <1>1, <1>3, <1>4, <1>6, <1>11 DEF Held
  <2>2. \A x \in Proc : npr[x].pc \in OnRequest => nlk[npr[x].bh]
    BY <1>0, <1>6, <1>8, <1>10, <1>12 DEF Held
  <2>3. \A s, t \in Used(new) : new[s].bh = new[t].bh => s = t
    BY <1>0, <1>1, <1>3, <1>4, <1>11, <1>13 DEF Held
  <2>4. \A x, y \in Proc :
          npr[x].pc \in OnRequest /\ npr[y].pc \in OnRequest /\ npr[x].bh = npr[y].bh => x = y
    BY <1>0, <1>8, <1>12 DEF Held
  <2>5. \A s \in Used(new), x \in Proc : npr[x].pc \in OnRequest => new[s].bh # npr[x].bh
    BY <1>0, <1>1, <1>3, <1>4, <1>8, <1>11, <1>12, <1>13 DEF Held
  <2>6. ASSUME NEW c \in Buf, nlk[c]
        PROVE  \/ \E s \in Used(new) : new[s].bh = c
               \/ \E x \in Proc : npr[x].pc \in OnRequest /\ npr[x].bh = c
    <3>1. CASE c = b
      BY <3>1, <1>1, <1>3, <1>4
    <3>2. CASE c # b
      <4>1. lk[c]
        BY <3>2, <2>6, <1>6
      <4>2. CASE \E s \in Used(req) : req[s].bh = c
        BY <4>2, <1>4, <1>11
      <4>3. CASE \E x \in Proc : pr[x].pc \in OnRequest /\ pr[x].bh = c
        <5>1. PICK x \in Proc : pr[x].pc \in OnRequest /\ pr[x].bh = c
          BY <4>3
        <5>2. x # p
          BY <5>1, <3>2 DEF Owns
        <5> QED BY <5>1, <5>2, <1>8
      <4> QED BY <4>1, <4>2, <4>3, <1>0 DEF Held
    <3> QED BY <3>1, <3>2
  <2> QED BY <2>1, <2>2, <2>3, <2>4, <2>5, <2>6, <1>6 DEF Held
<1>15. Positions(new)
  <2> SUFFICES ASSUME NEW s \in Used(new)
               PROVE  /\ new[s].off = 2 - new[s].nr /\ new[s].sector = 2 * new[s].bh.block + new[s].off
                      /\ new[s].bh.major = FD => new[s].off = 0
    BY DEF Positions
  <2>1. CASE s = r
    BY <2>1, <1>1, <1>2, <1>3
  <2>2. CASE s # r
    BY <2>2, <1>0, <1>3, <1>4, <1>11 DEF Positions
  <2> QED BY <2>1, <2>2
<1>16. Slotless(new, npr)
  <2> SUFFICES ASSUME NEW x \in Proc, npr[x].pc \in {"gap", "asleep"}, ~npr[x].raced
               PROVE  \E s \in SlotsFor(npr[x].cmd) : new[s] # Free
    BY DEF Slotless
  <2>1. x # p /\ npr[x] = pr[x]
    BY <1>8
  <2>2. PICK s \in SlotsFor(pr[x].cmd) : req[s] # Free
    BY <2>1, <1>0 DEF Slotless
  <2>3. s \in Slot
    <3>1. s \in Slot \/ s \in 1 .. (NR_REQUEST * 2) \div 3
      BY DEF SlotsFor
    <3>2. (NR_REQUEST * 2) \div 3 <= NR_REQUEST /\ (NR_REQUEST * 2) \div 3 \in Nat
      BY RequestAssumption
    <3> QED BY <3>1, <3>2, RequestAssumption DEF Slot
  <2>4. s # r
    BY <2>2
  <2> QED BY <2>1, <2>2, <2>3, <2>4, <1>3
<1>17. ASSUME NEW x \in Major PROVE Elevator(nq[x], new)
  <2>1. /\ qs[x] \in Seq(Slot) /\ Len(qs[x]) \in Nat
        /\ \A i \in 1 .. Len(qs[x]) : qs[x][i] \in Slot /\ qs[x][i] \in Used(req)
    BY <1>0, QueueFacts
  <2>2. \A i \in 1 .. Len(qs[x]) : new[qs[x][i]] = req[qs[x][i]]
    BY <2>1, <1>11
  <2>3. Elevator(qs[x], new)
    BY <1>0, <2>1, <2>2, ElevatorSame
  <2>4. CASE x # m
    <3>1. nq[x] = qs[x]
      BY <2>4, <1>0, <1>2 DEF nq, Queued
    <3> QED BY <2>3, <3>1
  <2>5. CASE x = m
    <3>1. nq[m] = NewQueue(qs[m], r, new)
      BY <1>0, <1>2 DEF nq, Queued
    <3>2. CASE qs[m] # <<>>
      <4>1. PICK a \in 1 .. Len(qs[m]) :
              NewQueue(qs[m], r, new) = Behind(qs[m], a, r) /\ FirstPlace(qs[m], r, new, a)
        BY <3>2, <1>5
      <4>2. Apart(nq[m], new)
        BY <1>2, <1>3, <1>5, <1>14, QueueFacts
      <4>3. Fresh(new[r])
        BY <1>1, <1>3 DEF Fresh
      <4>4. PICK s : s = nq[m]
        OBVIOUS
      <4>5. PICK q : q = qs[m]
        OBVIOUS
      <4>6. s = Behind(q, a, r) /\ FirstPlace(q, r, new, a) /\ a \in 1 .. Len(q) /\ Apart(s, new)
        BY <3>1, <4>1, <4>2, <4>4, <4>5
      <4>7. q \in Seq(Slot) /\ q # <<>> /\ Elevator(q, new)
        BY <2>1, <2>3, <2>5, <3>2, <4>5
      <4>8. Elevator(s, new)
        <5>1. new \in [Slot -> Rq \cup {Free}]
          BY <1>3
        <5> HIDE DEF n, m
        <5> QED BY <5>1, <4>3, <4>6, <4>7, <1>15, ElevatorAdd
      <4> QED BY <4>4, <4>8, <2>5
    <3>3. CASE qs[m] = <<>>
      <4>1. PICK s : s = nq[m]
        OBVIOUS
      <4>2. s = <<r>>
        BY <4>1, <3>1, <3>3 DEF NewQueue
      <4>3. s \in Seq(Slot) /\ Len(s) = 1 /\ DOMAIN s = {1} /\ s[1] = r
        BY <4>2
      <4>4. Rising(Works(s, new), Len(s), 1)
        BY <4>3 DEF Rising
      <4>5. \A i \in 1 .. Len(s), v \in Work : Share(new[s[i]], WorkOf(new[s[1]]), v, 1 < i)
        <5> TAKE i \in 1 .. Len(s), v \in Work
        <5>1. i = 1
          BY <4>3
        <5>2. new[r].passed[v] = 0
          BY <1>1, <1>3
        <5> QED BY <5>1, <5>2, <4>3 DEF Share
      <4>d. PICK d \in Nat \ {0} : d = 1
        OBVIOUS
      <4>6. Sweeps(s, new, d)
        <5>1. Rising(Works(s, new), Len(s), d)
          BY <4>4, <4>d
        <5>2. \A i \in 1 .. Len(s), v \in Work : Share(new[s[i]], WorkOf(new[s[1]]), v, d < i)
          BY <4>5, <4>d
        <5>3. s \in Seq(Slot)
          BY <4>3
        <5> QED BY <5>1, <5>2, <5>3, SweepsParts
      <4>7. d \in DOMAIN s
        BY <4>3, <4>d
      <4> QED BY <4>1, <4>6, <4>7, <2>5 DEF Elevator
    <3> QED BY <3>2, <3>3
  <2> QED BY <2>4, <2>5
<1>18. RequestsOK(nq, new, nlk, npr)
  BY <1>3, <1>5, <1>8, <1>9, <1>14, <1>15, <1>16, <1>17 DEF RequestsOK
<1> QED BY <1>18 DEF nq, nlk, npr

-----------------------------------------------------------------------------
(* Requests end.                                                           *)

Ended(q, n) == {q[i] : i \in 1 .. n}

\* The slots, locks and processes that end_request leaves.
SlotsLeft(q, req, n) ==
  [r \in Slot |-> CASE r \in Ended(q, n) -> Free
                    [] r \in Range(q) \ Ended(q, n) -> Pass(req[r], Done(q, req, n))
                    [] OTHER -> req[r]]
LocksLeft(q, req, lk, n) == [b \in Buf |-> lk[b] /\ b \notin {req[r].bh : r \in Ended(q, n)}]
ProcsLeft(pr, n) == IF n = 0 THEN pr ELSE WakeSlotWaiters(pr)

\* A slot after end_request.
LEMMA SlotLeft ==
  ASSUME NEW qs, NEW req \in [Slot -> Rq \cup {Free}], NEW lk, NEW pr,
         Queued(qs, req), Held(req, lk, pr), NEW m \in Major, NEW q, q = qs[m], NEW n \in 0 .. Len(q)
  PROVE  LET new == SlotsLeft(q, req, n)
             ended == Ended(q, n)
         IN /\ new \in [Slot -> Rq \cup {Free}]
            /\ ended \subseteq Used(req) /\ Used(new) = Used(req) \ ended
            /\ \A r \in Used(new) :
                 /\ req[r] \in Rq /\ WorkOf(new[r]) = WorkOf(req[r])
                 /\ new[r].bh = req[r].bh /\ new[r].cmd = req[r].cmd /\ new[r].errors = req[r].errors
                 /\ new[r].sector = req[r].sector /\ new[r].nr = req[r].nr /\ new[r].off = req[r].off
                 /\ req[r].bh.major # m => new[r] = req[r]
            /\ \A i \in n + 1 .. Len(q) : q[i] \in Used(new)
            /\ Seen(q, req, n, new)
<1> DEFINE new == SlotsLeft(q, req, n)
           ended == Ended(q, n)
           rest == Range(q) \ ended
<1>1. /\ q \in Seq(Slot) /\ Len(q) \in Nat /\ DOMAIN q = 1 .. Len(q)
      /\ \A i \in 1 .. Len(q) :
              /\ q[i] \in Slot /\ q[i] \in Used(req) /\ req[q[i]] \in Rq
              /\ req[q[i]].bh.major = m
      /\ \A i, j \in 1 .. Len(q) : q[i] = q[j] => i = j
  BY QueueFacts
<1>2. \A r : r \in ended <=> \E i \in 1 .. n : r = q[i]
  BY DEF Ended
<1>3. n \in Nat /\ n <= Len(q)
  BY <1>1
<1>4. \A r : r \in Range(q) <=> \E i \in 1 .. Len(q) : r = q[i]
  BY <1>1 DEF Range
<1>5. \A r : r \in rest <=> \E i \in n + 1 .. Len(q) : r = q[i]
  <2> TAKE r
  <2>1. ASSUME NEW i \in n + 1 .. Len(q), r = q[i] PROVE r \in rest
    <3>1. i \in 1 .. Len(q)
      BY <1>1, <1>3
    <3>2. ASSUME NEW j \in 1 .. n, r = q[j] PROVE FALSE
      <4>1. j \in 1 .. Len(q) /\ j # i
        BY <1>1, <1>3
      <4> QED BY <4>1, <3>1, <3>2, <2>1, <1>1
    <3> QED BY <3>1, <3>2, <2>1, <1>2, <1>4
  <2>2. ASSUME r \in rest PROVE \E i \in n + 1 .. Len(q) : r = q[i]
    <3>1. PICK i \in 1 .. Len(q) : r = q[i]
      BY <2>2, <1>4
    <3>2. ~(i \in 1 .. n)
      BY <3>1, <2>2, <1>2
    <3>3. i \in n + 1 .. Len(q)
      BY <3>2, <1>1, <1>3
    <3> QED BY <3>1, <3>3
  <2> QED BY <2>1, <2>2
<1>6. ended \subseteq Used(req) /\ rest \subseteq Used(req) /\ Used(req) \subseteq Slot
  <2>1. \A i \in 1 .. n : i \in 1 .. Len(q)
    BY <1>1, <1>3
  <2>2. \A i \in n + 1 .. Len(q) : i \in 1 .. Len(q)
    BY <1>1, <1>3
  <2> HIDE DEF ended, rest
  <2> QED BY <1>1, <1>2, <1>5, <2>1, <2>2 DEF Used
<1>7. \A r \in Slot : /\ r \in ended => new[r] = Free
                      /\ r \in rest => new[r] = Pass(req[r], Done(q, req, n))
                      /\ r \notin ended /\ r \notin rest => new[r] = req[r]
  BY DEF SlotsLeft
<1>8. \A r \in Used(req) : req[r] \in Rq /\ r \in Slot
  BY FreeOrUsed DEF Used
<1>9. \A r \in rest : r \in Slot /\ req[r].bh.major = m
  <2> HIDE DEF rest
  <2>1. \A i \in n + 1 .. Len(q) : i \in 1 .. Len(q)
    BY <1>1, <1>3
  <2> QED BY <1>1, <1>5, <2>1
<1>10. new = [r \in Slot |-> new[r]]
  BY DEF SlotsLeft
<1>11. rest \cap ended = {}
  OBVIOUS
<1> HIDE DEF new, ended, rest
<1>12. ASSUME NEW r \in Slot PROVE new[r] \in Rq \cup {Free} /\ (new[r] # Free <=> r \in Used(req) \ ended)
  <2>1. CASE r \in ended
    BY <2>1, <1>7
  <2>2. CASE r \in rest
    <3>1. req[r] \in Rq
      BY <2>2, <1>6, <1>8
    <3>2. new[r] = Pass(req[r], Done(q, req, n))
      BY <2>2, <1>7
    <3>3. new[r] \in Rq
      BY <3>1, <3>2, PassType
    <3> QED BY <3>3, <2>2, <1>6, <1>11, FreeOrUsed
  <2>3. CASE r \notin ended /\ r \notin rest
    <3>1. new[r] = req[r]
      BY <2>3, <1>7
    <3> QED BY <3>1, <2>3 DEF Used
  <2> QED BY <2>1, <2>2, <2>3
<1>13. new \in [Slot -> Rq \cup {Free}] /\ Used(new) = Used(req) \ ended
  BY <1>6, <1>10, <1>12 DEF Used
<1>14. ASSUME NEW r \in Used(new)
       PROVE  /\ req[r] \in Rq /\ WorkOf(new[r]) = WorkOf(req[r])
              /\ new[r].bh = req[r].bh /\ new[r].cmd = req[r].cmd /\ new[r].errors = req[r].errors
              /\ new[r].sector = req[r].sector /\ new[r].nr = req[r].nr /\ new[r].off = req[r].off
              /\ req[r].bh.major # m => new[r] = req[r]
  <2>1. req[r] \in Rq /\ r \in Slot /\ r \notin ended
    BY <1>8, <1>13
  <2>2. CASE r \in rest
    <3>1. new[r] = Pass(req[r], Done(q, req, n)) /\ req[r].bh.major = m
      BY <2>1, <2>2, <1>7, <1>9
    <3> QED BY <2>1, <3>1, PassType
  <2>3. CASE r \notin rest
    BY <2>1, <2>3, <1>7
  <2> QED BY <2>2, <2>3
<1>15. \A i \in n + 1 .. Len(q) : q[i] \in rest
  BY <1>5
<1>16. \A i \in n + 1 .. Len(q) : q[i] \in Used(new)
  BY <1>6, <1>11, <1>13, <1>15
<1>17. Seen(q, req, n, new)
  BY <1>7, <1>9, <1>15 DEF Seen
<1> QED BY <1>6, <1>13, <1>14, <1>16, <1>17 DEF new, ended

\* The waiting processes still hold their buffers, and those that slept look again.
LEMMA ProcLeft ==
  ASSUME NEW pr \in [Proc -> ProcRec], \A p \in Proc : ProcOK(pr[p]), NEW n \in Nat
  PROVE  LET new == ProcsLeft(pr, n)
         IN /\ new \in [Proc -> ProcRec]
            /\ \A p \in Proc :
                 /\ ProcOK(new[p]) /\ new[p].bh = pr[p].bh /\ new[p].cmd = pr[p].cmd /\ new[p].nr = pr[p].nr
                 /\ new[p].pc \in OnRequest <=> pr[p].pc \in OnRequest
                 /\ n # 0 => new[p].pc # "asleep" /\ (new[p].pc = "gap" => new[p].raced)
                 /\ pr[p].pc \notin OnRequest => new[p] = pr[p]
<1>1. CASE n = 0
  BY <1>1 DEF ProcsLeft
<1>2. CASE n # 0
  <2> DEFINE new == ProcsLeft(pr, n)
  <2>1. new = [p \in Proc |-> new[p]]
    BY <1>2 DEF ProcsLeft, WakeSlotWaiters
  <2>2. ASSUME NEW p \in Proc
        PROVE  /\ new[p] \in ProcRec
               /\ ProcOK(new[p]) /\ new[p].bh = pr[p].bh /\ new[p].cmd = pr[p].cmd /\ new[p].nr = pr[p].nr
               /\ new[p].pc \in OnRequest <=> pr[p].pc \in OnRequest
               /\ new[p].pc # "asleep" /\ (new[p].pc = "gap" => new[p].raced)
               /\ pr[p].pc \notin OnRequest => new[p] = pr[p]
    <3>1. pr[p] \in ProcRec /\ ProcOK(pr[p])
      OBVIOUS
    <3>2. CASE pr[p].pc = "asleep"
      <4>1. new[p] = [pr[p] EXCEPT !.pc = "scan", !.raced = FALSE]
        BY <1>2, <3>2 DEF ProcsLeft, WakeSlotWaiters
      <4>2. PICK x : x = pr[p]
        OBVIOUS
      <4> HIDE DEF new
      <4> QED BY <3>1, <3>2, <4>1, <4>2 DEF ProcRec, ProcOK, OnRequest, OnFloppy
    <3>3. CASE pr[p].pc = "gap"
      <4>1. new[p] = [pr[p] EXCEPT !.raced = TRUE]
        BY <1>2, <3>3 DEF ProcsLeft, WakeSlotWaiters
      <4> HIDE DEF new
      <4> QED BY <3>1, <3>3, <4>1 DEF ProcRec, ProcOK, OnRequest, OnFloppy
    <3>4. CASE pr[p].pc \notin {"asleep", "gap"}
      <4>1. new[p] = pr[p]
        BY <1>2, <3>4 DEF ProcsLeft, WakeSlotWaiters
      <4> QED BY <3>1, <3>4, <4>1
    <3> QED BY <3>2, <3>3, <3>4
  <2> HIDE DEF new
  <2>3. new \in [Proc -> ProcRec]
    BY <2>1, <2>2
  <2> QED BY <2>2, <2>3, <1>2 DEF new
<1> QED BY <1>1, <1>2

\* end_request keeps the queues, the locks and the processes in step.
LEMMA EndSlots ==
  ASSUME NEW qs, NEW req, NEW lk, NEW pr, RequestsOK(qs, req, lk, pr),
         NEW m \in Major, NEW q, q = qs[m], NEW n \in 0 .. Len(q),
         NEW s, s = SubSeq(q, n + 1, Len(q))
  PROVE  RequestsOK([qs EXCEPT ![m] = s], SlotsLeft(q, req, n), LocksLeft(q, req, lk, n), ProcsLeft(pr, n))
<1> DEFINE new == SlotsLeft(q, req, n)
           ended == Ended(q, n)
           nlk == LocksLeft(q, req, lk, n)
           npr == ProcsLeft(pr, n)
           nq == [qs EXCEPT ![m] = s]
<1>0. /\ req \in [Slot -> Rq \cup {Free}] /\ pr \in [Proc -> ProcRec] /\ lk \in [Buf -> BOOLEAN]
      /\ \A x \in Proc : ProcOK(pr[x])
      /\ Queued(qs, req) /\ Held(req, lk, pr) /\ Positions(req) /\ Slotless(req, pr)
      /\ \A x \in Major : Elevator(qs[x], req)
  BY DEF RequestsOK, Held
<1>1. /\ q \in Seq(Slot) /\ Len(q) \in Nat /\ DOMAIN q = 1 .. Len(q)
      /\ \A i \in 1 .. Len(q) :
              /\ q[i] \in Slot /\ q[i] \in Used(req) /\ req[q[i]] \in Rq
              /\ req[q[i]].bh.major = m
      /\ \A i, j \in 1 .. Len(q) : q[i] = q[j] => i = j
      /\ Apart(q, req)
  BY <1>0, QueueFacts
<1>2. n \in Nat /\ n <= Len(q)
  BY <1>1
<1>3. /\ new \in [Slot -> Rq \cup {Free}]
      /\ ended \subseteq Used(req) /\ Used(new) = Used(req) \ ended
      /\ \A r \in Used(new) :
           /\ req[r] \in Rq /\ WorkOf(new[r]) = WorkOf(req[r])
           /\ new[r].bh = req[r].bh /\ new[r].cmd = req[r].cmd /\ new[r].errors = req[r].errors
           /\ new[r].sector = req[r].sector /\ new[r].nr = req[r].nr /\ new[r].off = req[r].off
           /\ req[r].bh.major # m => new[r] = req[r]
      /\ \A i \in n + 1 .. Len(q) : q[i] \in Used(new)
      /\ Seen(q, req, n, new)
  BY <1>0, SlotLeft
<1>4. /\ npr \in [Proc -> ProcRec]
      /\ \A p \in Proc :
           /\ ProcOK(npr[p]) /\ npr[p].bh = pr[p].bh /\ npr[p].cmd = pr[p].cmd
           /\ npr[p].pc \in OnRequest <=> pr[p].pc \in OnRequest
           /\ n # 0 => npr[p].pc # "asleep" /\ (npr[p].pc = "gap" => npr[p].raced)
  BY <1>0, <1>2, ProcLeft
<1>5. s \in Seq(Slot) /\ LeftOf(s, q, n)
  BY <1>1, CutOff
<1>6. /\ nq \in [Major -> Seq(Slot)] /\ nq[m] = s /\ \A x \in Major : x # m => nq[x] = qs[x]
  BY <1>0, <1>5 DEF Queued
<1>7. \A b \in Buf : nlk[b] <=> lk[b] /\ \A r \in ended : req[r].bh # b
  BY DEF LocksLeft
<1>8. nlk \in [Buf -> BOOLEAN]
  <2>1. \A b \in Buf : nlk[b] \in BOOLEAN
    BY DEF LocksLeft
  <2> QED BY <2>1 DEF LocksLeft
<1>9. \A r : r \in ended <=> \E i \in 1 .. n : r = q[i]
  BY DEF Ended
<1>10. n = 0 => npr = pr /\ ended = {}
  BY <1>9 DEF ProcsLeft
<1> HIDE DEF new, ended, nlk, npr, nq
<1>11. \A r \in Used(req) : req[r].bh \in Buf /\ r \in Slot
  BY <1>0, FreeOrUsed DEF Rq, Used
<1>12. \A p \in Proc : pr[p].pc \in OnRequest => pr[p].bh \in Buf
  BY <1>0 DEF ProcOK
<1>13. Held(new, nlk, npr)
  <2>1. ASSUME NEW r \in Used(new) PROVE nlk[new[r].bh]
    <3>1. r \in Used(req) /\ r \notin ended /\ new[r].bh = req[r].bh
      BY <1>3
    <3>2. lk[req[r].bh] /\ \A t \in ended : req[t].bh # req[r].bh
      BY <3>1, <1>0, <1>3 DEF Held
    <3> QED BY <3>1, <3>2, <1>7, <1>11
  <2>2. ASSUME NEW p \in Proc, npr[p].pc \in OnRequest PROVE nlk[npr[p].bh]
    <3>1. pr[p].pc \in OnRequest /\ npr[p].bh = pr[p].bh
      BY <2>2, <1>4
    <3>2. lk[pr[p].bh] /\ \A t \in ended : req[t].bh # pr[p].bh
      BY <3>1, <1>0, <1>3 DEF Held
    <3> QED BY <3>1, <3>2, <1>7, <1>12
  <2>3. \A r, t \in Used(new) : new[r].bh = new[t].bh => r = t
    BY <1>0, <1>3 DEF Held
  <2>4. \A p, x \in Proc :
          npr[p].pc \in OnRequest /\ npr[x].pc \in OnRequest /\ npr[p].bh = npr[x].bh => p = x
    BY <1>0, <1>4 DEF Held
  <2>5. \A r \in Used(new), p \in Proc : npr[p].pc \in OnRequest => new[r].bh # npr[p].bh
    BY <1>0, <1>3, <1>4 DEF Held
  <2>6. ASSUME NEW b \in Buf, nlk[b]
        PROVE  \/ \E r \in Used(new) : new[r].bh = b
               \/ \E p \in Proc : npr[p].pc \in OnRequest /\ npr[p].bh = b
    <3>1. lk[b] /\ \A r \in ended : req[r].bh # b
      BY <2>6, <1>7
    <3>2. CASE \E r \in Used(req) : req[r].bh = b
      <4>1. PICK r \in Used(req) : req[r].bh = b
        BY <3>2
      <4>2. r \in Used(new)
        BY <4>1, <3>1, <1>3
      <4> QED BY <4>1, <4>2, <1>3
    <3>3. CASE \E p \in Proc : pr[p].pc \in OnRequest /\ pr[p].bh = b
      BY <3>3, <1>4
    <3> QED BY <3>1, <3>2, <3>3, <1>0 DEF Held
  <2> QED BY <2>1, <2>2, <2>3, <2>4, <2>5, <2>6, <1>8 DEF Held
<1>14. Positions(new)
  BY <1>0, <1>3 DEF Positions
<1>15. Slotless(new, npr)
  <2>1. CASE n = 0
    <3>1. Used(new) = Used(req) /\ npr = pr
      BY <2>1, <1>3, <1>10
    <3>2. \A c : SlotsFor(c) \subseteq Slot
      <4>1. (NR_REQUEST * 2) \div 3 <= NR_REQUEST /\ (NR_REQUEST * 2) \div 3 \in Nat
        BY RequestAssumption
      <4> QED BY <4>1, RequestAssumption DEF SlotsFor, Slot
    <3>3. \A r \in Slot : req[r] # Free <=> new[r] # Free
      BY <3>1 DEF Used
    <3> QED BY <3>1, <3>2, <3>3, <1>0 DEF Slotless
  <2>2. CASE n # 0
    BY <2>2, <1>4 DEF Slotless
  <2> QED BY <2>1, <2>2
<1>16. Len(s) = Len(q) - n /\ \A i \in 1 .. Len(q) - n : s[i] = q[n + i]
  BY <1>5 DEF LeftOf
<1>17. DOMAIN s = 1 .. Len(q) - n
  <2>1. DOMAIN s = 1 .. Len(s)
    BY <1>5, LenProperties
  <2> QED BY <2>1, <1>16
<1>18. Queued(nq, new)
  <2>1. \A x \in Major : \A i, j \in DOMAIN nq[x] : nq[x][i] = nq[x][j] => i = j
    <3> TAKE x \in Major
    <3>1. CASE x = m
      <4>1. nq[x] = s
        BY <3>1, <1>6
      <4>2. ASSUME NEW i \in 1 .. Len(q) - n, NEW j \in 1 .. Len(q) - n, s[i] = s[j] PROVE i = j
        <5>1. n + i \in 1 .. Len(q) /\ n + j \in 1 .. Len(q)
          BY <1>1, <1>2
        <5>2. q[n + i] = q[n + j]
          BY <4>2, <1>16
        <5>3. n + i = n + j
          BY <5>1, <5>2, <1>1
        <5> QED BY <5>3, <1>1, <1>2
      <4> QED BY <4>1, <4>2, <1>17
    <3>2. CASE x # m
      <4>1. nq[x] = qs[x]
        BY <3>2, <1>6
      <4> QED BY <4>1, <1>0 DEF Queued
    <3> QED BY <3>1, <3>2
  <2>2. ASSUME NEW x \in Major, NEW t \in Slot
        PROVE  (\E i \in DOMAIN nq[x] : nq[x][i] = t) <=> t \in Used(new) /\ new[t].bh.major = x
    <3>0. (\E i \in DOMAIN qs[x] : qs[x][i] = t) <=> t \in Used(req) /\ req[t].bh.major = x
      BY <1>0 DEF Queued
    <3>1. CASE x # m
      <4>1. nq[x] = qs[x]
        BY <3>1, <1>6
      <4>2. t \in ended => req[t].bh.major = m
        <5>1. \A i \in 1 .. n : i \in 1 .. Len(q)
          BY <1>1, <1>2
        <5> QED BY <5>1, <1>1, <1>9
      <4> QED BY <3>0, <3>1, <4>1, <4>2, <1>3
    <3>2. CASE x = m
      <4>1. nq[x] = s
        BY <3>2, <1>6
      <4>2. ASSUME NEW i \in 1 .. Len(q) - n, s[i] = t PROVE t \in Used(new) /\ new[t].bh.major = m
        <5>1. n + i \in n + 1 .. Len(q) /\ n + i \in 1 .. Len(q)
          BY <1>1, <1>2
        <5>2. t = q[n + i]
          BY <4>2, <1>16
        <5>3. t \in Used(new) /\ req[t].bh.major = m
          BY <5>1, <5>2, <1>1, <1>3
        <5> QED BY <5>3, <1>3
      <4>3. ASSUME t \in Used(new), new[t].bh.major = m PROVE \E i \in 1 .. Len(q) - n : s[i] = t
        <5>1. t \in Used(req) /\ t \notin ended /\ req[t].bh.major = m
          BY <4>3, <1>3
        <5>2. PICK j \in 1 .. Len(q) : q[j] = t
          BY <5>1, <3>0, <3>2, <1>1
        <5>3. ~(j \in 1 .. n)
          BY <5>1, <5>2, <1>9
        <5>4. j - n \in 1 .. Len(q) - n /\ n + (j - n) = j
          BY <5>3, <1>1, <1>2
        <5> QED BY <5>2, <5>4, <1>16
      <4> QED BY <3>2, <4>1, <4>2, <4>3, <1>17
    <3> QED BY <3>1, <3>2
  <2> QED BY <2>1, <2>2, <1>6 DEF Queued
<1>19. ASSUME NEW x \in Major PROVE Elevator(nq[x], new)
  <2>1. CASE x = m
    <3>1. Elevator(q, req)
      BY <1>0
    <3>2. Elevator(s, new)
      BY <3>1, <1>0, <1>1, <1>3, <1>5, ElevatorCut
    <3> QED BY <3>2, <2>1, <1>6
  <2>2. CASE x # m
    <3>1. /\ qs[x] \in Seq(Slot)
          /\ \A i \in 1 .. Len(qs[x]) : qs[x][i] \in Used(req) /\ req[qs[x][i]].bh.major = x
      BY <1>0, QueueFacts
    <3>2. \A t \in ended : req[t].bh.major = m
      <4>1. \A i \in 1 .. n : i \in 1 .. Len(q)
        BY <1>1, <1>2
      <4> QED BY <4>1, <1>1, <1>9
    <3>3. \A i \in 1 .. Len(qs[x]) : new[qs[x][i]] = req[qs[x][i]]
      BY <3>1, <3>2, <2>2, <1>3
    <3>4. Elevator(qs[x], new)
      BY <3>1, <3>3, <1>0, ElevatorSame
    <3> QED BY <3>4, <2>2, <1>6
  <2> QED BY <2>1, <2>2
<1>20. RequestsOK(nq, new, nlk, npr)
  BY <1>3, <1>4, <1>13, <1>14, <1>15, <1>18, <1>19 DEF RequestsOK
<1> QED BY <1>20 DEF nq, new, nlk, npr

\* The queues when q hangs on the device m, and what end_request for the first
\* n requests of q leaves.
With(m, q) == [queue EXCEPT ![m] = q]
Leaves(m, q, req, lk, pr, n, up) ==
  /\ RequestsOK(queue', request', lock', proc')
  /\ queue' = [queue EXCEPT ![m] = SubSeq(q, n + 1, Len(q))]
  /\ request' = SlotsLeft(q, req, n) /\ lock' = LocksLeft(q, req, lk, n) /\ proc' = ProcsLeft(pr, n)
  /\ \A i \in 1 .. n : uptodate'[req[q[i]].bh] <=> up /\ req[q[i]].bh = req[q[1]].bh

LEMMA EndRequest ==
  ASSUME queue \in [Major -> Seq(Slot)], NEW m \in Major, NEW q, NEW req, NEW lk, NEW pr,
         RequestsOK(With(m, q), req, lk, pr), NEW n \in 0 .. Len(q), NEW up,
         end_request(m, q, req, lk, pr, n, up)
  PROVE  Leaves(m, q, req, lk, pr, n, up)
<1> DEFINE qs == [queue EXCEPT ![m] = q]
           s == SubSeq(q, n + 1, Len(q))
<1>1. qs[m] = q /\ queue' = [qs EXCEPT ![m] = s]
  BY DEF end_request
<1>2. request' = SlotsLeft(q, req, n)
  <2>1. Done(q, req, n) = {<<req[x].bh, req[x].cmd>> : x \in Ended(q, n)}
    BY DEF Done, Ended, WorkOf
  <2> QED BY <2>1 DEF end_request, SlotsLeft, Ended
<1>3. lock' = LocksLeft(q, req, lk, n)
  BY DEF end_request, LocksLeft, Ended
<1>4. proc' = ProcsLeft(pr, n)
  BY DEF end_request, ProcsLeft
<1>5. \A i \in 1 .. n : uptodate'[req[q[i]].bh] <=> up /\ req[q[i]].bh = req[q[1]].bh
  <2> TAKE i \in 1 .. n
  <2>1. req \in [Slot -> Rq \cup {Free}] /\ Queued(qs, req) /\ Held(req, lk, pr)
    BY DEF RequestsOK, With
  <2>2. Len(q) \in Nat /\ \A j \in 1 .. Len(q) : req[q[j]] \in Rq
    BY <2>1, <1>1, QueueFacts
  <2>3. req[q[i]].bh \in Buf
    BY <2>2 DEF Rq
  <2>4. req[q[i]].bh \in {req[x].bh : x \in Ended(q, n)}
    BY DEF Ended
  <2> QED BY <2>3, <2>4 DEF end_request, Ended
<1> HIDE DEF qs, s
<1>6. RequestsOK([qs EXCEPT ![m] = s], SlotsLeft(q, req, n), LocksLeft(q, req, lk, n), ProcsLeft(pr, n))
  <2>1. RequestsOK(qs, req, lk, pr) /\ s = SubSeq(q, n + 1, Len(q))
    BY DEF qs, s, With
  <2> QED BY <2>1, <1>1, EndSlots
<1>7. RequestsOK(queue', request', lock', proc')
  BY <1>1, <1>2, <1>3, <1>4, <1>6
<1>8. queue' = [queue EXCEPT ![m] = SubSeq(q, n + 1, Len(q))]
  BY DEF end_request
<1> QED BY <1>2, <1>3, <1>4, <1>5, <1>7, <1>8 DEF Leaves

\* The requests a driver refuses are the first of the queue that are bad.
LEMMA RefusedLemma ==
  ASSUME NEW q \in Seq(Slot), NEW bad
  PROVE  /\ Refused(q, bad) \in 0 .. Len(q)
         /\ \A i \in 1 .. Refused(q, bad) : q[i] \in bad
<1> DEFINE T == {i - 1 : i \in {j \in DOMAIN q : q[j] \notin bad}} \cup {Len(q)}
           n == Refused(q, bad)
<1>0. Len(q) \in Nat /\ DOMAIN q = 1 .. Len(q)
  BY LenProperties
<1>1. \A x : x \in T <=> x = Len(q) \/ \E i \in 1 .. Len(q) : q[i] \notin bad /\ x = i - 1
  BY <1>0
<1>2. n = Min(T)
  BY DEF Refused
<1> HIDE DEF T, n
<1>3. T \in SUBSET Nat /\ T # {}
  BY <1>0, <1>1
<1>4. n \in T /\ \A y \in T : n <= y
  BY <1>2, <1>3, MinNat
<1>5. n \in 0 .. Len(q)
  BY <1>0, <1>1, <1>4
<1>6. ASSUME NEW i \in 1 .. n, q[i] \notin bad PROVE FALSE
  <2>1. i \in 1 .. Len(q) /\ i - 1 \in Nat /\ i - 1 < n
    BY <1>0, <1>5
  <2>2. i - 1 \in T
    BY <2>1, <1>6, <1>1
  <2> QED BY <2>1, <2>2, <1>4, <1>5
<1> QED BY <1>5, <1>6 DEF n

-----------------------------------------------------------------------------
(* The hard disk.                                                          *)

\* The commands of hd_out are for the request and its handler.
LEMMA HdOut ==
  ASSUME NEW rq \in Rq, hd_out(rq)
  PROVE  /\ ctl'.cmd # "none" /\ do_hd' # "none" /\ "cmd" \in DOMAIN ctl'
         /\ do_hd' = "read_intr" => rq.cmd = READ
         /\ do_hd' = "write_intr" => rq.cmd = WRITE
<1>1. rq.cmd \in {READ, WRITE}
  BY DEF Rq
<1>2. CASE rq.cmd = WRITE
  BY <1>2 DEF hd_out
<1>3. CASE rq.cmd # WRITE
  BY <1>1, <1>3 DEF hd_out
<1> QED BY <1>2, <1>3

\* hd_command leaves the controller busy if and only if there is a request.
LEMMA HdCommand ==
  ASSUME NEW q \in Seq(Slot), NEW req, q # <<>> => req[q[1]] \in Rq, NEW rst \in BOOLEAN, NEW h,
         hd_command(q, req, rst, h), recalibrate \in BOOLEAN
  PROVE  /\ ctl'.cmd = "none" <=> q = <<>>
         /\ q # <<>> => /\ do_hd' # "none"
                        /\ do_hd' = "read_intr" => req[q[1]].cmd = READ
                        /\ do_hd' = "write_intr" => req[q[1]].cmd = WRITE
         /\ reset' \in BOOLEAN /\ recalibrate' \in BOOLEAN /\ "cmd" \in DOMAIN ctl'
<1>1. CASE q = <<>>
  BY <1>1 DEF hd_command, NoCommand
<1>2. CASE q # <<>> /\ rst
  BY <1>2 DEF hd_command, NoCommand
<1>3. CASE q # <<>> /\ ~rst /\ recalibrate
  BY <1>3 DEF hd_command, NoCommand
<1>4. CASE q # <<>> /\ ~rst /\ ~recalibrate
  <2>1. hd_out(req[Head(q)]) /\ reset' = FALSE /\ UNCHANGED recalibrate
    BY <1>4 DEF hd_command
  <2>2. Head(q) = q[1]
    BY <1>4
  <2> QED BY <1>4, <2>1, <2>2, HdOut
<1> QED BY <1>1, <1>2, <1>3, <1>4

\* What do_hd_request does: the first n requests end as they were told to, more
\* end because they are out of range, and the controller goes on with the next.
HdRan(q, req, n, up) ==
  \E gone \in n .. Len(q) :
    /\ request' = SlotsLeft(q, req, gone)
    /\ \A i \in 1 .. gone : uptodate'[req[q[i]].bh] <=> up /\ req[q[i]].bh = req[q[1]].bh
    /\ \A i \in n + 1 .. gone : \/ req[q[i]].bh.minor >= 5 * NR_HD
                                \/ req[q[i]].sector + 2 > HdSize(req[q[i]].bh.minor)

LEMMA LeftSlot ==
  ASSUME NEW qs, NEW req \in [Slot -> Rq \cup {Free}], NEW lk, NEW pr,
         Queued(qs, req), Held(req, lk, pr), NEW m \in Major, NEW q, qs[m] = q, NEW n \in 0 .. Len(q)
  PROVE  /\ \A i \in n + 1 .. Len(q) : q[i] \in Used(SlotsLeft(q, req, n))
         /\ \A r \in Used(SlotsLeft(q, req, n)) : SlotsLeft(q, req, n)[r].cmd = req[r].cmd
         /\ Used(SlotsLeft(q, req, n)) = Used(req) \ Ended(q, n)
BY SlotLeft

LEMMA DoHdRequest ==
  ASSUME queue \in [Major -> Seq(Slot)], HdFlags, NEW q, NEW req, NEW lk, NEW pr,
         RequestsOK(With(HD, q), req, lk, pr), NEW n \in 0 .. Len(q), NEW up,
         NEW rst \in BOOLEAN, NEW h, do_hd_request(q, req, lk, pr, n, up, rst, h)
  PROVE  /\ RequestsOK(queue', request', lock', proc') /\ HdBusy' /\ HdFlags'
         /\ \A x \in Major : x # HD => queue'[x] = queue[x]
         /\ HdRan(q, req, n, up)
         /\ \E k \in Nat : proc' = ProcsLeft(pr, k)
<1> DEFINE qs == With(HD, q)
           rest == SubSeq(q, n + 1, Len(q))
           k == Refused(rest, OutOfRange(rest, req))
           gone == n + k
           s == SubSeq(q, gone + 1, Len(q))
<1>0. HD \in Major
  BY DEF Major
<1>1. req \in [Slot -> Rq \cup {Free}] /\ Queued(qs, req) /\ Held(req, lk, pr) /\ qs[HD] = q
  BY <1>0 DEF RequestsOK, With
<1>2. /\ q \in Seq(Slot) /\ Len(q) \in Nat
      /\ \A i \in 1 .. Len(q) : q[i] \in Slot /\ req[q[i]] \in Rq
  BY <1>0, <1>1, QueueFacts
<1>3. n \in Nat /\ n <= Len(q)
  BY <1>2
<1>4. rest \in Seq(Slot) /\ LeftOf(rest, q, n)
  BY <1>2, CutOff
<1>e. end_request(HD, q, req, lk, pr, gone, up) /\ hd_command(s, req, rst, h)
  BY DEF do_hd_request
<1> HIDE DEF rest
<1>5. k \in 0 .. Len(rest) /\ \A i \in 1 .. k : rest[i] \in OutOfRange(rest, req)
  BY <1>4, RefusedLemma
<1> HIDE DEF k
<1>6. gone \in n .. Len(q) /\ gone \in 0 .. Len(q) /\ k \in 0 .. Len(q) - n
  BY <1>2, <1>3, <1>4, <1>5 DEF LeftOf
<1>7. ASSUME NEW i \in n + 1 .. gone
      PROVE  \/ req[q[i]].bh.minor >= 5 * NR_HD
             \/ req[q[i]].sector + 2 > HdSize(req[q[i]].bh.minor)
  <2>1. i - n \in 1 .. k /\ n + (i - n) = i /\ i - n \in 1 .. Len(q) - n
    BY <1>3, <1>6, <1>2
  <2>2. rest[i - n] = q[i]
    BY <2>1, <1>4 DEF LeftOf
  <2>3. q[i] \in OutOfRange(rest, req)
    BY <2>1, <2>2, <1>5
  <2> QED BY <2>3 DEF OutOfRange
<1> HIDE DEF gone
<1>8. /\ RequestsOK(queue', request', lock', proc')
      /\ queue' = [queue EXCEPT ![HD] = s]
      /\ request' = SlotsLeft(q, req, gone) /\ proc' = ProcsLeft(pr, gone)
      /\ \A i \in 1 .. gone : uptodate'[req[q[i]].bh] <=> up /\ req[q[i]].bh = req[q[1]].bh
  <2>1. Leaves(HD, q, req, lk, pr, gone, up)
    BY <1>0, <1>6, <1>e, EndRequest
  <2> QED BY <2>1 DEF Leaves
<1>9. s \in Seq(Slot) /\ LeftOf(s, q, gone)
  BY <1>2, <1>6, CutOff
<1> HIDE DEF s, qs
<1>10. queue'[HD] = s /\ \A x \in Major : x # HD => queue'[x] = queue[x]
  BY <1>0, <1>8
<1>11. s # <<>> => /\ s[1] = q[gone + 1] /\ req[s[1]] \in Rq
                   /\ request'[s[1]].cmd = req[s[1]].cmd
  <2> SUFFICES ASSUME s # <<>> PROVE /\ s[1] = q[gone + 1] /\ req[s[1]] \in Rq
                                     /\ request'[s[1]].cmd = req[s[1]].cmd
    OBVIOUS
  <2>1. Len(s) \in Nat /\ Len(s) # 0
    BY <1>9, EmptySeq, LenProperties
  <2>2. Len(s) = Len(q) - gone /\ \A i \in 1 .. Len(q) - gone : s[i] = q[gone + i]
    BY <1>9 DEF LeftOf
  <2>3. gone \in Nat /\ gone <= Len(q)
    BY <1>6, <1>3
  <2>4. 1 \in 1 .. Len(q) - gone /\ gone + 1 \in 1 .. Len(q) /\ gone + 1 \in gone + 1 .. Len(q)
    BY <2>1, <2>2, <2>3, <1>2
  <2>5. s[1] = q[gone + 1] /\ req[s[1]] \in Rq
    BY <2>2, <2>4, <1>2
  <2>6. /\ q[gone + 1] \in Used(SlotsLeft(q, req, gone))
        /\ \A r \in Used(SlotsLeft(q, req, gone)) : SlotsLeft(q, req, gone)[r].cmd = req[r].cmd
    BY <2>4, <1>0, <1>1, <1>6, LeftSlot
  <2> QED BY <2>5, <2>6, <1>8
<1>12. /\ ctl'.cmd = "none" <=> s = <<>>
       /\ s # <<>> => /\ do_hd' # "none"
                      /\ do_hd' = "read_intr" => req[s[1]].cmd = READ
                      /\ do_hd' = "write_intr" => req[s[1]].cmd = WRITE
       /\ reset' \in BOOLEAN /\ recalibrate' \in BOOLEAN /\ "cmd" \in DOMAIN ctl'
  BY <1>e, <1>9, <1>11, HdCommand DEF HdFlags
<1>13. HdBusy' /\ HdFlags'
  BY <1>10, <1>11, <1>12 DEF HdBusy, HdFlags
<1>14. gone \in Nat
  BY <1>6, <1>3
<1>15. HdRan(q, req, n, up)
  BY <1>6, <1>7, <1>8 DEF HdRan
<1> QED BY <1>8, <1>10, <1>13, <1>14, <1>15

\* The slots a command may take.
LEMMA SlotsForSlots == \A cmd : SlotsFor(cmd) \subseteq Slot /\ SlotsFor(cmd) # {}
<1> TAKE cmd
<1>1. (NR_REQUEST * 2) \div 3 <= NR_REQUEST /\ (NR_REQUEST * 2) \div 3 \in Nat
      /\ (NR_REQUEST * 2) \div 3 >= 1
  BY RequestAssumption
<1> QED BY <1>1, RequestAssumption DEF Slot, SlotsFor

\* The same slots are in use for the same buffers.
LEMMA SameHolders ==
  ASSUME NEW qs, NEW req, NEW lk, NEW pr, NEW new, Queued(qs, req), Held(req, lk, pr),
         \A s \in Slot : (s \in Used(new) <=> s \in Used(req)) /\ new[s].bh = req[s].bh
  PROVE  Queued(qs, new) /\ Held(new, lk, pr)
<1>1. Used(req) \subseteq Slot /\ Used(new) \subseteq Slot
  BY DEF Used
<1>2. Queued(qs, new)
  BY <1>1 DEF Queued
<1>3. /\ lk \in [Buf -> BOOLEAN]
      /\ \A p \in Proc : pr[p].pc \in OnRequest => lk[pr[p].bh]
      /\ \A p, y \in Proc :
           pr[p].pc \in OnRequest /\ pr[y].pc \in OnRequest /\ pr[p].bh = pr[y].bh => p = y
  BY DEF Held
<1>4. \A s \in Used(new) : lk[new[s].bh]
  BY <1>1 DEF Held
<1>5. \A s, y \in Used(new) : new[s].bh = new[y].bh => s = y
  BY <1>1 DEF Held
<1>6. \A s \in Used(new), p \in Proc : pr[p].pc \in OnRequest => new[s].bh # pr[p].bh
  BY <1>1 DEF Held
<1>7. ASSUME NEW b \in Buf, lk[b]
      PROVE  \/ \E s \in Used(new) : new[s].bh = b
             \/ \E p \in Proc : pr[p].pc \in OnRequest /\ pr[p].bh = b
  <2>1. \/ \E s \in Used(req) : req[s].bh = b
        \/ \E p \in Proc : pr[p].pc \in OnRequest /\ pr[p].bh = b
    BY <1>7 DEF Held
  <2> QED BY <2>1, <1>1
<1> QED BY <1>2, <1>3, <1>4, <1>5, <1>6, <1>7 DEF Held

\* A request that got on: the same work, at another position.
MovedOn(x, y) ==
  /\ x \in Rq /\ x.bh = y.bh /\ x.cmd = y.cmd /\ x.passed = y.passed
  /\ x.off = 2 - x.nr /\ x.sector = 2 * x.bh.block + x.off
  /\ x.bh.major = FD => x.off = 0

LEMMA SlotChanged ==
  ASSUME NEW qs, NEW req, NEW lk, NEW pr, RequestsOK(qs, req, lk, pr),
         NEW r \in Used(req), NEW x, MovedOn(x, req[r]),
         NEW new, new = [req EXCEPT ![r] = x]
  PROVE  RequestsOK(qs, new, lk, pr) /\ new \in [Slot -> Rq \cup {Free}]
<1>0. /\ req \in [Slot -> Rq \cup {Free}] /\ Queued(qs, req) /\ Held(req, lk, pr)
      /\ Positions(req) /\ Slotless(req, pr) /\ \A m \in Major : Elevator(qs[m], req)
      /\ pr \in [Proc -> ProcRec] /\ \A p \in Proc : ProcOK(pr[p])
  BY DEF RequestsOK
<1>1. r \in Slot
  BY DEF Used
<1>2. x \in Rq /\ x.bh = req[r].bh /\ x.cmd = req[r].cmd /\ x.passed = req[r].passed /\ x # Free
  BY FreeOrUsed DEF MovedOn
<1>3. /\ new \in [Slot -> Rq \cup {Free}] /\ new[r] = x
      /\ \A s \in Slot : s # r => new[s] = req[s]
  BY <1>0, <1>1, <1>2
<1>4. Used(new) = Used(req)
  BY <1>1, <1>2, <1>3 DEF Used
<1>5. \A s \in Slot : /\ new[s].bh = req[s].bh /\ new[s].cmd = req[s].cmd
                      /\ new[s].passed = req[s].passed /\ (new[s] = Free <=> req[s] = Free)
  BY <1>2, <1>3 DEF Used
<1>6. Used(req) \subseteq Slot
  BY DEF Used
<1>7. Queued(qs, new) /\ Held(new, lk, pr)
  <2>1. \A s \in Slot : (s \in Used(new) <=> s \in Used(req)) /\ new[s].bh = req[s].bh
    BY <1>4, <1>5
  <2> QED BY <2>1, <1>0, SameHolders
<1>9. Positions(new)
  <2> SUFFICES ASSUME NEW s \in Used(new)
               PROVE  /\ new[s].off = 2 - new[s].nr /\ new[s].sector = 2 * new[s].bh.block + new[s].off
                      /\ new[s].bh.major = FD => new[s].off = 0
    BY DEF Positions
  <2>1. CASE s = r
    BY <2>1, <1>3 DEF MovedOn
  <2>2. CASE s # r
    <3>1. new[s] = req[s]
      BY <2>2, <1>3, <1>4, <1>6
    <3> QED BY <3>1, <1>0, <1>4 DEF Positions
  <2> QED BY <2>1, <2>2
<1>10. \A cmd : SlotsFor(cmd) \subseteq Slot
  BY SlotsForSlots
<1>11. Slotless(new, pr)
  BY <1>0, <1>5, <1>10 DEF Slotless
<1>12. ASSUME NEW m \in Major PROVE Elevator(qs[m], new)
  <2>1. /\ qs[m] \in Seq(Slot)
        /\ \A i \in 1 .. Len(qs[m]) : qs[m][i] \in Slot
    BY <1>0, QueueFacts
  <2>2. \A i \in 1 .. Len(qs[m]) : /\ WorkOf(new[qs[m][i]]) = WorkOf(req[qs[m][i]])
                                  /\ new[qs[m][i]].passed = req[qs[m][i]].passed
    BY <2>1, <1>5 DEF WorkOf
  <2> QED BY <2>1, <2>2, <1>0, ElevatorSame
<1> QED BY <1>0, <1>3, <1>7, <1>9, <1>11, <1>12 DEF RequestsOK

\* What the hard disk driver leaves alone, and that no request is given up
\* without a reason.
Motors(pr, new) == \A p \in Proc : new[p] = pr[p] \/ new[p].pc \notin {"motorgap", "motor"}
Justified ==
  \A r \in Slot :
    request[r] # Free /\ request'[r] = Free /\ ~uptodate'[request[r].bh] => GivenUp(request[r])
HdKept ==
  /\ RequestsOK(queue', request', lock', proc') /\ HdBusy' /\ HdFlags'
  /\ (\A x \in Major : x # HD => queue'[x] = queue[x]) /\ Motors(proc, proc')

\* The same requests, whatever their errors.
SameButErrors(req) ==
  \A r \in Slot : /\ req[r] = Free <=> request[r] = Free
                  /\ req[r].bh = request[r].bh /\ req[r].sector = request[r].sector
                  /\ req[r].off = request[r].off /\ req[r].cmd = request[r].cmd

LEMMA MotorsLeft ==
  ASSUME NEW pr \in [Proc -> ProcRec], \A p \in Proc : ProcOK(pr[p]), NEW n \in Nat
  PROVE  Motors(pr, ProcsLeft(pr, n))
BY ProcLeft DEF Motors, OnRequest

\* The hard disk driver gives up a request only with a reason.
LEMMA HdGivenUp ==
  ASSUME NEW req, NEW lk, NEW pr, RequestsOK(queue, req, lk, pr), SameButErrors(req),
         NEW q, q = queue[HD], NEW n \in 0 .. 1, NEW up \in BOOLEAN, HdRan(q, req, n, up),
         n = 1 => up \/ request[q[1]].errors + 1 >= MAX_ERRORS
  PROVE  Justified
<1>0. HD \in Major /\ HD = 3
  BY DEF Major, HD
<1>1. req \in [Slot -> Rq \cup {Free}] /\ Queued(queue, req) /\ Held(req, lk, pr) /\ Positions(req)
  BY DEF RequestsOK
<1>2. PICK gone \in n .. Len(q) :
        /\ request' = SlotsLeft(q, req, gone)
        /\ \A i \in 1 .. gone : uptodate'[req[q[i]].bh] <=> up /\ req[q[i]].bh = req[q[1]].bh
        /\ \A i \in n + 1 .. gone : \/ req[q[i]].bh.minor >= 5 * NR_HD
                                    \/ req[q[i]].sector + 2 > HdSize(req[q[i]].bh.minor)
  BY DEF HdRan
<1>3. /\ q \in Seq(Slot) /\ Len(q) \in Nat
      /\ \A i \in 1 .. Len(q) : q[i] \in Slot /\ q[i] \in Used(req) /\ req[q[i]] \in Rq /\ req[q[i]].bh.major = HD
  BY <1>0, <1>1, QueueFacts
<1>4. gone \in Nat /\ gone <= Len(q) /\ n <= gone /\ gone \in 0 .. Len(q)
  BY <1>2, <1>3
<1>5. Used(SlotsLeft(q, req, gone)) = Used(req) \ Ended(q, gone)
  BY <1>0, <1>1, <1>4, SlotLeft
<1>6. SUFFICES ASSUME NEW r \in Slot, request[r] # Free, request'[r] = Free, ~uptodate'[request[r].bh]
               PROVE  GivenUp(request[r])
  BY DEF Justified
<1>7. r \in Used(req) /\ r \notin Used(SlotsLeft(q, req, gone))
  BY <1>2, <1>6 DEF Used, SameButErrors
<1>8. PICK i \in 1 .. gone : r = q[i]
  BY <1>5, <1>7 DEF Ended
<1>9. i \in 1 .. Len(q) /\ i \in Nat
  BY <1>3, <1>4
<1>10. /\ req[r] \in Rq /\ req[r].bh.major = HD /\ req[r].bh = request[r].bh
       /\ req[r].sector = request[r].sector /\ req[r].off = request[r].off
  BY <1>3, <1>8, <1>9 DEF SameButErrors
<1>11. CASE i <= n
  <2>1. i = 1 /\ n = 1
    BY <1>11, <1>9, <1>8
  <2>2. uptodate'[req[r].bh] <=> up
    BY <2>1, <1>2, <1>8
  <2>3. request[r].errors + 1 >= MAX_ERRORS
    BY <2>1, <2>2, <1>6, <1>8, <1>10
  <2> QED BY <2>3, <1>10 DEF GivenUp
<1>12. CASE ~(i <= n)
  <2>1. i \in n + 1 .. gone
    BY <1>12, <1>8, <1>4, <1>9
  <2>2. \/ req[r].bh.minor >= 5 * NR_HD
        \/ req[r].sector + 2 > HdSize(req[r].bh.minor)
    BY <2>1, <1>2, <1>8
  <2>3. /\ req[r].bh \in Buf /\ req[r].off \in 0 .. 1
        /\ req[r].sector = 2 * req[r].bh.block + req[r].off
    BY <1>7, <1>10, <1>1 DEF Positions, Rq
  <2>4. req[r].bh.block \in Nat /\ HdSize(req[r].bh.minor) \in Nat
    BY <2>3, <1>10, HdAssumption, RequestAssumption
  <2>5. \/ req[r].bh.minor >= 5 * NR_HD \/ 2 * req[r].bh.block + 2 > HdSize(req[r].bh.minor)
        \/ req[r].off = 1 /\ 2 * req[r].bh.block + 2 = HdSize(req[r].bh.minor)
    <3>1. PICK b \in Nat, z \in Nat, o \in 0 .. 1 :
            b = req[r].bh.block /\ z = HdSize(req[r].bh.minor) /\ o = req[r].off
      BY <2>3, <2>4
    <3>2. req[r].sector = 2 * b + o
      BY <3>1, <2>3
    <3>3. 2 * b + o + 2 > z => 2 * b + 2 > z \/ (o = 1 /\ 2 * b + 2 = z)
      OBVIOUS
    <3> QED BY <3>1, <3>2, <3>3, <2>2
  <2> QED BY <2>5, <1>10 DEF GivenUp
<1> QED BY <1>11, <1>12

\* The device whose queue is not changed yet.
LEMMA WithSame ==
  ASSUME queue \in [Major -> Seq(Slot)], NEW m \in Major
  PROVE  With(m, queue[m]) = queue
BY DEF With

\* The hard disk driver goes on with the queue it has.
LEMMA HdGoesOn ==
  ASSUME Inv, NEW req, RequestsOK(queue, req, lock, proc), SameButErrors(req), NEW n \in 0 .. Len(queue[HD]),
         NEW up \in BOOLEAN, NEW rst \in BOOLEAN, NEW h,
         do_hd_request(queue[HD], req, lock, proc, n, up, rst, h),
         n <= 1, n = 1 => up \/ request[queue[HD][1]].errors + 1 >= MAX_ERRORS
  PROVE  HdKept /\ Justified
<1>0. HD \in Major
  BY DEF Major
<1>1. queue \in [Major -> Seq(Slot)] /\ HdFlags /\ proc \in [Proc -> ProcRec] /\ \A p \in Proc : ProcOK(proc[p])
  BY DEF Inv, RequestsOK, Queued
<1>2. With(HD, queue[HD]) = queue
  BY <1>0, <1>1, WithSame
<1>3. RequestsOK(With(HD, queue[HD]), req, lock, proc)
  BY <1>2
<1>4. /\ RequestsOK(queue', request', lock', proc') /\ HdBusy' /\ HdFlags'
      /\ \A x \in Major : x # HD => queue'[x] = queue[x]
      /\ HdRan(queue[HD], req, n, up)
      /\ \E k \in Nat : proc' = ProcsLeft(proc, k)
  BY <1>1, <1>3, DoHdRequest
<1>5. n \in 0 .. 1
  <2>1. Len(queue[HD]) \in Nat
    BY <1>0, <1>1, LenProperties
  <2> QED BY <2>1
<1>6. Justified
  BY <1>4, <1>5, HdGivenUp
<1>7. Motors(proc, proc')
  BY <1>1, <1>4, MotorsLeft
<1> QED BY <1>4, <1>6, <1>7 DEF HdKept

\* The first request of the hard disk.
LEMMA HdFirst ==
  ASSUME Inv, queue[HD] # <<>>
  PROVE  /\ Head(queue[HD]) = queue[HD][1] /\ Len(queue[HD]) \in Nat /\ Len(queue[HD]) >= 1
         /\ \A i \in 1 .. Len(queue[HD]) : queue[HD][i] \in Slot /\ request[queue[HD][i]] \in Rq
         /\ queue[HD][1] \in Used(request) /\ queue[HD][1] \in Slot
         /\ request[queue[HD][1]] \in Rq /\ request[queue[HD][1]].bh.major = HD
         /\ request \in [Slot -> Rq \cup {Free}]
<1>0. HD \in Major
  BY DEF Major
<1>1. request \in [Slot -> Rq \cup {Free}] /\ Queued(queue, request) /\ Held(request, lock, proc)
  BY DEF Inv, RequestsOK
<1>2. /\ queue[HD] \in Seq(Slot) /\ Len(queue[HD]) \in Nat
      /\ \A i \in 1 .. Len(queue[HD]) :
           /\ queue[HD][i] \in Slot /\ queue[HD][i] \in Used(request) /\ request[queue[HD][i]] \in Rq
           /\ request[queue[HD][i]].bh.major = HD
  BY <1>0, <1>1, QueueFacts
<1>3. Len(queue[HD]) # 0
  BY <1>2, EmptySeq
<1>4. 1 \in 1 .. Len(queue[HD])
  BY <1>2, <1>3
<1>5. Head(queue[HD]) = queue[HD][1]
  BY <1>2
<1> QED BY <1>1, <1>2, <1>3, <1>4, <1>5

\* ++CURRENT->errors
LEMMA CountErrorKeeps ==
  ASSUME NEW rq \in Rq, rq.off = 2 - rq.nr, rq.sector = 2 * rq.bh.block + rq.off, rq.bh.major = FD => rq.off = 0,
         NEW x, x = CountError(rq)
  PROVE  MovedOn(x, rq) /\ x.errors = rq.errors + 1 /\ x.sector = rq.sector /\ x.off = rq.off
<1>1. /\ x.bh = rq.bh /\ x.cmd = rq.cmd /\ x.passed = rq.passed /\ x.off = rq.off /\ x.nr = rq.nr
      /\ x.sector = rq.sector /\ x.errors = rq.errors + 1
  BY DEF CountError, Rq
<1>2. x \in Rq
  BY DEF CountError, Rq
<1> QED BY <1>1, <1>2 DEF MovedOn

LEMMA ErrorCounted ==
  ASSUME NEW qs, NEW lk, NEW pr, RequestsOK(qs, request, lk, pr), NEW r \in Used(request),
         NEW req, req = [request EXCEPT ![r] = CountError(request[r])]
  PROVE  /\ RequestsOK(qs, req, lk, pr) /\ SameButErrors(req)
         /\ req[r].errors = request[r].errors + 1 /\ \A s \in Slot : s # r => req[s] = request[s]
<1>0. request \in [Slot -> Rq \cup {Free}] /\ Positions(request)
  BY DEF RequestsOK
<1>1. r \in Slot /\ request[r] \in Rq /\ request[r] # Free
  BY <1>0, FreeOrUsed DEF Used
<1>2. PICK x : x = CountError(request[r])
  OBVIOUS
<1>3. MovedOn(x, request[r]) /\ x.errors = request[r].errors + 1 /\ x.sector = request[r].sector /\ x.off = request[r].off
  BY <1>0, <1>1, <1>2, CountErrorKeeps DEF Positions
<1>4. req = [request EXCEPT ![r] = x]
  BY <1>2
<1>5. RequestsOK(qs, req, lk, pr)
  BY <1>3, <1>4, SlotChanged
<1>6. req[r] = x /\ \A s \in Slot : s # r => req[s] = request[s]
  BY <1>0, <1>1, <1>4
<1>7. x # Free /\ x.bh = request[r].bh /\ x.cmd = request[r].cmd
  BY <1>3, FreeOrUsed DEF MovedOn
<1>8. SameButErrors(req)
  BY <1>1, <1>3, <1>6, <1>7 DEF SameButErrors
<1> QED BY <1>3, <1>5, <1>6, <1>8

\* bad_rw_intr: a retry, or the end of the request.
LEMMA BadRwIntr ==
  ASSUME Inv, queue[HD] # <<>>, NEW h, bad_rw_intr(h)
  PROVE  HdKept /\ Justified
<1> DEFINE q == queue[HD]
           req == [request EXCEPT ![Head(q)] = CountError(@)]
           n == IF WornOut(req[Head(q)]) THEN 1 ELSE 0
           worn == IF Len(q) = n THEN TRUE ELSE req[q[n + 1]].errors > MAX_ERRORS \div 2
<1>1. /\ Head(q) = q[1] /\ Len(q) \in Nat /\ Len(q) >= 1 /\ q[1] \in Used(request) /\ q[1] \in Slot
      /\ request \in [Slot -> Rq \cup {Free}]
  BY HdFirst
<1>2. do_hd_request(q, req, lock, proc, n, FALSE, reset \/ worn, h)
  BY DEF bad_rw_intr
<1>3. req = [request EXCEPT ![q[1]] = CountError(request[q[1]])]
  BY <1>1
<1> HIDE DEF q, req
<1>4. RequestsOK(queue, request, lock, proc)
  BY DEF Inv
<1>5. /\ RequestsOK(queue, req, lock, proc) /\ SameButErrors(req)
      /\ req[q[1]].errors = request[q[1]].errors + 1
  BY <1>1, <1>3, <1>4, ErrorCounted
<1>6. n = 1 => request[q[1]].errors + 1 >= MAX_ERRORS
  BY <1>1, <1>5 DEF WornOut
<1>7. n \in 0 .. Len(q) /\ n <= 1
  BY <1>1
<1>8. (reset \/ worn) \in BOOLEAN
  OBVIOUS
<1> HIDE DEF n, worn
<1>9. PICK rst \in BOOLEAN : rst = (reset \/ worn)
  BY <1>8
<1>10. do_hd_request(q, req, lock, proc, n, FALSE, rst, h)
  BY <1>2, <1>9
<1>11. /\ do_hd_request(queue[HD], req, lock, proc, n, FALSE, rst, h) /\ n \in 0 .. Len(queue[HD])
       /\ n = 1 => request[queue[HD][1]].errors + 1 >= MAX_ERRORS
  BY <1>6, <1>7, <1>10 DEF q
<1> QED BY <1>5, <1>7, <1>11, HdGoesOn

\* A sector was read or written.
Advanced(x, rq) == x = Advance(rq) \/ x = [Advance(rq) EXCEPT !.errors = rq.errors]

LEMMA AdvanceType ==
  ASSUME NEW rq \in Rq, rq.nr = 2, rq.off = 0, NEW a, a = Advance(rq)
  PROVE  a \in Rq /\ a.bh = rq.bh /\ a.cmd = rq.cmd /\ a.passed = rq.passed /\ a.off = 1 /\ a.nr = 1
         /\ a.sector = rq.sector + 1
<1>1. PICK b : b = [rq EXCEPT !.errors = 0]
  OBVIOUS
<1>2. /\ b \in Rq /\ b.bh = rq.bh /\ b.cmd = rq.cmd /\ b.passed = rq.passed /\ b.off = 0 /\ b.nr = 2
      /\ b.sector = rq.sector
  BY <1>1 DEF Rq
<1>3. PICK c : c = [b EXCEPT !.sector = @ + 1]
  OBVIOUS
<1>4. /\ c \in Rq /\ c.bh = rq.bh /\ c.cmd = rq.cmd /\ c.passed = rq.passed /\ c.off = 0 /\ c.nr = 2
      /\ c.sector = rq.sector + 1
  BY <1>2, <1>3 DEF Rq
<1>5. PICK d : d = [c EXCEPT !.nr = @ - 1]
  OBVIOUS
<1>6. /\ d \in Rq /\ d.bh = rq.bh /\ d.cmd = rq.cmd /\ d.passed = rq.passed /\ d.off = 0 /\ d.nr = 1
      /\ d.sector = rq.sector + 1
  BY <1>4, <1>5 DEF Rq
<1>7. a = [d EXCEPT !.off = @ + 1]
  BY <1>1, <1>3, <1>5 DEF Advance
<1> QED BY <1>6, <1>7 DEF Rq

LEMMA AdvanceMoves ==
  ASSUME NEW rq \in Rq, rq.off = 2 - rq.nr, rq.sector = 2 * rq.bh.block + rq.off, rq.nr > 1,
         rq.bh.major = HD, NEW x, Advanced(x, rq)
  PROVE  MovedOn(x, rq)
<1>0. HD # FD
  BY DEF HD, FD
<1>1. rq.nr = 2 /\ rq.off = 0 /\ rq.bh \in Buf /\ rq.errors \in Nat
  BY DEF Rq
<1>2. rq.bh.block \in Nat
  BY <1>1, RequestAssumption
<1>3. PICK a : a = Advance(rq)
  OBVIOUS
<1>4. a \in Rq /\ a.bh = rq.bh /\ a.cmd = rq.cmd /\ a.passed = rq.passed /\ a.off = 1 /\ a.nr = 1
      /\ a.sector = rq.sector + 1
  BY <1>1, <1>3, AdvanceType
<1>5. x = a \/ x = [a EXCEPT !.errors = rq.errors]
  BY <1>3 DEF Advanced
<1>6. /\ x.bh = rq.bh /\ x.cmd = rq.cmd /\ x.passed = rq.passed /\ x.off = 1 /\ x.nr = 1
      /\ x.sector = rq.sector + 1
  BY <1>4, <1>5 DEF Rq
<1>7. x \in Rq
  BY <1>1, <1>4, <1>5 DEF Rq
<1> QED BY <1>0, <1>1, <1>2, <1>6, <1>7 DEF MovedOn

\* No request ends.
LEMMA NobodyEnds ==
  ASSUME \A r \in Slot : request[r] # Free => request'[r] # Free
  PROVE  Justified
BY DEF Justified

\* The command goes on.
SameCommand == do_hd' = do_hd /\ ctl'.cmd = ctl.cmd /\ "cmd" \in DOMAIN ctl'

LEMMA SectorDoneKeeps ==
  ASSUME Inv, queue[HD] # <<>>, NEW rq, Advanced(rq, request[Head(queue[HD])]),
         SectorDone(rq, SameCommand)
  PROVE  HdKept /\ Justified
<1> DEFINE q == queue[HD]
<1>1. /\ Head(q) = q[1] /\ Len(q) \in Nat /\ Len(q) >= 1 /\ q[1] \in Used(request) /\ q[1] \in Slot
      /\ request \in [Slot -> Rq \cup {Free}] /\ request[q[1]] \in Rq /\ request[q[1]].bh.major = HD
  BY HdFirst
<1>2. RequestsOK(queue, request, lock, proc) /\ Positions(request) /\ HdFlags /\ HdBusy
  BY DEF Inv, RequestsOK
<1> HIDE DEF q
<1>3. CASE request[q[1]].nr > 1
  <2>1. /\ request' = [request EXCEPT ![q[1]] = rq] /\ SameCommand
        /\ UNCHANGED <<lock, uptodate, queue, proc, reset, recalibrate>>
    BY <1>1, <1>3 DEF SectorDone, q
  <2>2. MovedOn(rq, request[q[1]])
    <3>1. /\ request[q[1]].off = 2 - request[q[1]].nr
          /\ request[q[1]].sector = 2 * request[q[1]].bh.block + request[q[1]].off
      BY <1>1, <1>2 DEF Positions
    <3> QED BY <3>1, <1>1, <1>3, AdvanceMoves DEF q
  <2>3. RequestsOK(queue, request', lock, proc)
    BY <2>1, <2>2, <1>1, <1>2, SlotChanged
  <2>4. RequestsOK(queue', request', lock', proc')
    BY <2>1, <2>3
  <2>5. request'[q[1]] = rq /\ \A r \in Slot : r # q[1] => request'[r] = request[r]
    BY <2>1, <1>1
  <2>6. rq.cmd = request[q[1]].cmd /\ rq # Free
    BY <2>2, FreeOrUsed DEF MovedOn
  <2>7. HdBusy' /\ HdFlags'
    BY <2>1, <2>5, <2>6, <1>2 DEF HdBusy, HdFlags, SameCommand, q
  <2>8. Justified
    BY <2>5, <2>6, NobodyEnds
  <2> QED BY <2>1, <2>4, <2>7, <2>8 DEF HdKept, Motors
<1>4. CASE ~(request[q[1]].nr > 1)
  <2>1. do_hd_request(queue[HD], request, lock, proc, 1, TRUE, reset, "none")
    BY <1>1, <1>4 DEF SectorDone, q
  <2>2. SameButErrors(request)
    BY DEF SameButErrors
  <2>3. 1 \in 0 .. Len(queue[HD]) /\ reset \in BOOLEAN
    BY <1>1, <1>2 DEF q, HdFlags
  <2>4. PICK n \in 0 .. Len(queue[HD]) : n = 1
    BY <2>3
  <2>5. do_hd_request(queue[HD], request, lock, proc, n, TRUE, reset, "none")
    BY <2>1, <2>4, Zenon
  <2>6. n <= 1
    BY <2>4
  <2> HIDE DEF q
  <2> QED BY <2>2, <2>3, <2>5, <2>6, <1>2, HdGoesOn
<1> QED BY <1>3, <1>4

\* Every interrupt of the hard disk, with all that its handler does.
LEMMA HdHandlers ==
  ASSUME Inv, HdNoDrq \/ HdIntr \/ HdIntrBad
  PROVE  HdKept /\ Justified
<1>0. HdBusy /\ HdFlags /\ RequestsOK(queue, request, lock, proc)
  BY DEF Inv
<1>1. queue[HD] # <<>>
  BY <1>0 DEF HdBusy, HdNoDrq, HdIntr, HdIntrBad, Answered
<1> DEFINE rq == request[Head(queue[HD])]
<1>2. CASE HdNoDrq
  BY <1>1, <1>2, BadRwIntr DEF HdNoDrq
<1>3. CASE HdIntrBad
  BY <1>1, <1>3, BadRwIntr DEF HdIntrBad
<1>4. CASE HdIntr /\ read_intr
  <2>1. SectorDone(Advance(rq), SameCommand)
    <3>1. /\ do_hd = "read_intr"
          /\ SectorDone(Advance(rq), do_hd' = "read_intr" /\ ctl' = [ctl EXCEPT !.lin = @ + 1])
      BY <1>4 DEF read_intr
    <3>2. do_hd' = "read_intr" /\ ctl' = [ctl EXCEPT !.lin = @ + 1] => SameCommand
      BY <3>1, <1>0 DEF SameCommand, HdFlags
    <3> QED BY <3>1, <3>2 DEF SectorDone
  <2>2. Advanced(Advance(rq), rq)
    BY DEF Advanced
  <2> QED BY <2>1, <2>2, <1>1, SectorDoneKeeps
<1>5. CASE HdIntr /\ write_intr
  <2> DEFINE x == [Advance(rq) EXCEPT !.errors = rq.errors]
  <2>1. SectorDone(x, SameCommand)
    <3>1. /\ do_hd = "write_intr"
          /\ SectorDone(x, /\ do_hd' = "write_intr"
                           /\ ctl' = [ctl EXCEPT !.lin = @ + 1, !.buf = data[rq.bh][rq.off + 1]])
      BY <1>5 DEF write_intr
    <3>2. /\ do_hd' = "write_intr"
          /\ ctl' = [ctl EXCEPT !.lin = @ + 1, !.buf = data[rq.bh][rq.off + 1]]
          => SameCommand
      BY <3>1, <1>0 DEF SameCommand, HdFlags
    <3> HIDE DEF x
    <3> QED BY <3>1, <3>2 DEF SectorDone
  <2>2. Advanced(x, rq)
    BY DEF Advanced
  <2> HIDE DEF x
  <2> QED BY <2>1, <2>2, <1>1, SectorDoneKeeps
<1>6. CASE HdIntr /\ recal_intr
  <2>1. do_hd_request(queue[HD], request, lock, proc, 0, FALSE, reset, "none")
    BY <1>6 DEF recal_intr
  <2>2. SameButErrors(request) /\ reset \in BOOLEAN
    BY <1>0 DEF SameButErrors, HdFlags
  <2>3. PICK n \in 0 .. Len(queue[HD]) : n = 0
    BY <1>1, HdFirst
  <2>4. do_hd_request(queue[HD], request, lock, proc, n, FALSE, reset, "none")
    BY <2>1, <2>3, Zenon
  <2>5. n <= 1 /\ n # 1
    BY <2>3
  <2> QED BY <2>2, <2>4, <2>5, <1>0, HdGoesOn
<1> QED BY <1>2, <1>3, <1>4, <1>5, <1>6 DEF HdIntr

\* MotorAwaited does not depend on who waits for a slot.
LEMMA SameMotors ==
  ASSUME NEW f, NEW g, NEW pr, NEW new, MotorAwaited(f, pr), Motors(pr, new),
         \A d \in Drive : f.mon[d] > 0 => g.mon[d] > 0, \A p \in Proc : ProcOK(pr[p])
  PROVE  MotorAwaited(g, new)
<1> SUFFICES ASSUME NEW p \in Proc, new[p].pc \in {"motorgap", "motor"}, ~new[p].raced
             PROVE  g.mon[new[p].nr] > 0
  BY DEF MotorAwaited
<1>2. new[p] = pr[p]
  BY DEF Motors
<1>3. pr[p].nr \in Drive
  BY <1>2 DEF ProcOK, OnFloppy
<1> QED BY <1>2, <1>3 DEF MotorAwaited

LEMMA HdInterruptKeeps ==
  ASSUME Inv, HdInterrupt
  PROVE  Inv' /\ Justified
<1>1. HdKept /\ Justified /\ UNCHANGED <<fd, load>>
  BY HdHandlers DEF HdInterrupt
<1>2. /\ RequestsOK(queue', request', lock', proc') /\ HdBusy' /\ HdFlags'
      /\ (\A x \in Major : x # HD => queue'[x] = queue[x]) /\ Motors(proc, proc')
  BY <1>1 DEF HdKept
<1>3. queue'[RD] = <<>> /\ queue'[FD] = queue[FD]
  BY <1>2 DEF Inv, Major, RD, FD, HD
<1>4. MotorAwaited(fd, proc')
  BY <1>2, SameMotors DEF Inv, RequestsOK
<1>5. FdOK(fd) /\ FdBusy(fd, queue'[FD]) /\ LoadOK
  BY <1>3 DEF Inv
<1>6. FdOK(fd') /\ FdBusy(fd', queue'[FD]) /\ MotorAwaited(fd', proc') /\ LoadOK'
  BY <1>1, <1>4, <1>5 DEF LoadOK
<1> QED BY <1>1, <1>2, <1>3, <1>6 DEF Inv

-----------------------------------------------------------------------------
(* The floppy.                                                             *)

\* A sequence, whatever its elements.
IsSeq(s) == s \in Seq(Range(s))

LEMMA SeqRange ==
  ASSUME NEW S, NEW s \in Seq(S)
  PROVE  IsSeq(s) /\ Len(s) \in Nat /\ (s = <<>> <=> Len(s) = 0)
<1>1. Len(s) \in Nat /\ DOMAIN s = 1 .. Len(s) /\ s = [i \in 1 .. Len(s) |-> s[i]]
  BY LenProperties
<1>2. \A i \in 1 .. Len(s) : s[i] \in Range(s)
  BY <1>1 DEF Range
<1>3. [i \in 1 .. Len(s) |-> s[i]] \in Seq(Range(s))
  BY <1>1, <1>2
<1>4. s = <<>> <=> Len(s) = 0
  BY EmptySeq
<1> QED BY <1>1, <1>3, <1>4 DEF IsSeq

LEMMA InsertedAt ==
  ASSUME NEW S, NEW s \in Seq(S), NEW a \in 0 .. Len(s), NEW e \in S
  PROVE  InsertAt(s, a + 1, e) \in Seq(S) /\ Len(InsertAt(s, a + 1, e)) = Len(s) + 1
<1> DEFINE x == SubSeq(s, 1, a)
           y == SubSeq(s, a + 1, Len(s))
<1>0. Len(s) \in Nat /\ a \in Nat /\ a <= Len(s) /\ \A i \in 1 .. Len(s) : s[i] \in S
  BY LenProperties
<1>1. x \in Seq(S) /\ Len(x) = a
  <2>1. x \in Seq(S) /\ Len(x) = (IF 1 <= a THEN a - 1 + 1 ELSE 0)
    BY <1>0, SubSeqProperties
  <2> HIDE DEF x
  <2> QED BY <1>0, <2>1
<1>2. y \in Seq(S) /\ Len(y) = Len(s) - a
  <2>1. y \in Seq(S) /\ Len(y) = (IF a + 1 <= Len(s) THEN Len(s) - (a + 1) + 1 ELSE 0)
    BY <1>0, SubSeqProperties
  <2> HIDE DEF y
  <2> QED BY <1>0, <2>1
<1>3. InsertAt(s, a + 1, e) = (x \o <<e>>) \o y
  <2>1. (a + 1) - 1 = a
    BY <1>0
  <2> QED BY <2>1 DEF InsertAt
<1> HIDE DEF x, y
<1>4. <<e>> \in Seq(S) /\ Len(<<e>>) = 1
  OBVIOUS
<1>5. x \o <<e>> \in Seq(S) /\ Len(x \o <<e>>) = a + 1
  BY <1>1, <1>4, ConcatProperties
<1>6. PICK u : u = x \o <<e>>
  OBVIOUS
<1>7. u \in Seq(S) /\ Len(u) = a + 1 /\ InsertAt(s, a + 1, e) = u \o y
  BY <1>3, <1>5, <1>6
<1>8. u \o y \in Seq(S) /\ Len(u \o y) = Len(u) + Len(y)
  BY <1>2, <1>7, ConcatProperties
<1>9. PICK v : v = u \o y
  OBVIOUS
<1>10. v \in Seq(S) /\ Len(v) = (a + 1) + (Len(s) - a) /\ InsertAt(s, a + 1, e) = v
  BY <1>2, <1>7, <1>8, <1>9
<1>11. Len(v) = Len(s) + 1
  BY <1>0, <1>10
<1> QED BY <1>10, <1>11

LEMMA AppendSeq ==
  ASSUME NEW s, IsSeq(s), NEW e
  PROVE  IsSeq(Append(s, e)) /\ Len(Append(s, e)) = Len(s) + 1 /\ Append(s, e) # <<>>
<1>1. s \in Seq(Range(s) \cup {e})
  <2>1. s \in Seq(Range(s)) /\ Range(s) \subseteq Range(s) \cup {e}
    BY DEF IsSeq
  <2> QED BY <2>1
<1>2. Append(s, e) \in Seq(Range(s) \cup {e}) /\ Len(Append(s, e)) = Len(s) + 1 /\ Len(s) \in Nat
  BY <1>1, AppendProperties, LenProperties
<1>3. PICK t : t = Append(s, e)
  OBVIOUS
<1>4. t \in Seq(Range(s) \cup {e}) /\ Len(t) = Len(s) + 1 /\ Len(t) # 0
  BY <1>2, <1>3
<1>5. IsSeq(t) /\ t # <<>>
  BY <1>4, SeqRange
<1> QED BY <1>3, <1>4, <1>5

LEMMA OneSeq ==
  ASSUME NEW e
  PROVE  IsSeq(<<e>>) /\ Len(<<e>>) = 1 /\ <<e>> # <<>>
<1>1. <<e>> \in Seq({e}) /\ Len(<<e>>) = 1
  OBVIOUS
<1> QED BY <1>1, SeqRange

LEMMA TailSeq ==
  ASSUME NEW s, IsSeq(s), s # <<>>
  PROVE  IsSeq(Tail(s)) /\ Len(Tail(s)) = Len(s) - 1 /\ Len(s) \in Nat /\ Len(s) > 0
<1>1. s \in Seq(Range(s))
  BY DEF IsSeq
<1>2. Tail(s) \in Seq(Range(s)) /\ Len(Tail(s)) = Len(s) - 1
  BY <1>1, HeadTailProperties
<1>3. Len(s) \in Nat /\ Len(s) # 0
  BY <1>1, SeqRange
<1>4. PICK t : t = Tail(s)
  OBVIOUS
<1>5. t \in Seq(Range(s)) /\ Len(t) = Len(s) - 1
  BY <1>2, <1>4
<1>6. IsSeq(t)
  BY <1>5, SeqRange
<1> QED BY <1>3, <1>4, <1>5, <1>6

LEMMA CountDownSeq ==
  ASSUME NEW s, IsSeq(s)
  PROVE  IsSeq(CountDown(s)) /\ Len(CountDown(s)) = Len(s) /\ (CountDown(s) = <<>> <=> s = <<>>)
<1>1. s \in Seq(Range(s)) /\ Len(s) \in Nat /\ DOMAIN s = 1 .. Len(s) /\ (s = <<>> <=> Len(s) = 0)
  BY SeqRange, LenProperties DEF IsSeq
<1> DEFINE e(i) == [s[i] EXCEPT !.jiffies = IF i = 1 THEN @ - 1 ELSE @, !.due = IF @ = 0 THEN 0 ELSE @ - 1]
           S == {e(i) : i \in 1 .. Len(s)}
<1>2. CountDown(s) = [i \in 1 .. Len(s) |-> e(i)]
  BY <1>1 DEF CountDown
<1>3. \A i \in 1 .. Len(s) : e(i) \in S
  OBVIOUS
<1> HIDE DEF S, e
<1>4. PICK n, c : n \in Nat /\ n = Len(s) /\ c = CountDown(s)
  BY <1>1
<1>5. c = [i \in 1 .. n |-> e(i)] /\ \A i \in 1 .. n : e(i) \in S
  BY <1>2, <1>3, <1>4
<1>6. c = [i \in 1 .. n |-> c[i]] /\ \A i \in 1 .. n : c[i] \in S
  BY <1>5
<1>7. [i \in 1 .. n |-> c[i]] \in Seq(S) /\ Len([i \in 1 .. n |-> c[i]]) = n
  BY <1>4, <1>6
<1>8. c \in Seq(S) /\ Len(c) = n
  BY <1>6, <1>7
<1> QED BY <1>1, <1>4, <1>8, SeqRange

\* add_timer makes the list longer by one.
LEMMA InsertSeq ==
  ASSUME NEW s, IsSeq(s), NEW jiffies, NEW fn
  PROVE  IsSeq(Insert(s, jiffies, fn)) /\ Len(Insert(s, jiffies, fn)) = Len(s) + 1
<1> DEFINE T == {k \in 0 .. Len(s) : k = Len(s) \/ s[k + 1].jiffies >= jiffies - Until(s, k)}
           a == Min(T)
           e == Entry(jiffies - Until(s, a), fn, jiffies)
           S == Range(s) \cup {e}
<1>1. s \in Seq(Range(s)) /\ Len(s) \in Nat
  BY SeqRange DEF IsSeq
<1>2. T \subseteq 0 .. Len(s) /\ Len(s) \in T
  BY <1>1
<1>3. T \in SUBSET Nat /\ T # {}
  BY <1>1, <1>2
<1>4. Insert(s, jiffies, fn) = InsertAt(s, a + 1, e)
  BY DEF Insert
<1> HIDE DEF T
<1>5. a \in 0 .. Len(s)
  BY <1>2, <1>3, MinNat
<1> HIDE DEF a, e
<1>6. s \in Seq(S)
  BY <1>1, SeqMonotonic
<1>7. e \in S
  OBVIOUS
<1> HIDE DEF S
<1>8. InsertAt(s, a + 1, e) \in Seq(S) /\ Len(InsertAt(s, a + 1, e)) = Len(s) + 1
  BY <1>5, <1>6, <1>7, InsertedAt
<1> QED BY <1>4, <1>8, SeqRange

\* A value of fd is a function on its fields.
FdFn(f) == f = [x \in Fields |-> f[x]]

LEMMA FdParts ==
  \A f : FdOK(f) <=>
    /\ FdFn(f) /\ f.drive \in Drive /\ f.dsel \in Drive /\ f.handler \in Handlers
    /\ f.mon \in [Drive -> Nat] /\ f.moff \in [Drive -> Nat]
    /\ f.wild \in BOOLEAN /\ f.overlap \in BOOLEAN /\ IsSeq(f.hw) /\ IsSeq(f.timers)
BY DEF FdOK, FdFn, IsSeq

\* g has the motors and timers of f, drives and selection.
Alike(f, g) ==
  /\ g.drive = f.drive /\ g.dsel = f.dsel /\ g.mon = f.mon /\ g.moff = f.moff
  /\ g.overlap = f.overlap /\ g.timers = f.timers /\ g.wp = f.wp

LEMMA AlikeOK ==
  ASSUME NEW f, NEW g, FdOK(f), FdFn(g), Alike(f, g), g.handler \in Handlers, g.wild \in BOOLEAN, IsSeq(g.hw)
  PROVE  FdOK(g)
BY FdParts DEF Alike

LEMMA OutputByte ==
  ASSUME NEW f, FdOK(f), NEW g \in output_byte(f)
  PROVE  FdOK(g) /\ Alike(f, g) /\ g.hw = f.hw /\ g.handler = f.handler /\ g.wild = f.wild
<1>1. FdFn(f) /\ f.handler \in Handlers /\ f.wild \in BOOLEAN /\ IsSeq(f.hw)
  BY FdParts
<1>2. PICK s : s = [f EXCEPT !.reset = TRUE]
  OBVIOUS
<1>3. FdFn(s) /\ Alike(f, s) /\ s.hw = f.hw /\ s.handler = f.handler /\ s.wild = f.wild /\ s.faults = f.faults
  BY <1>1, <1>2 DEF FdFn, Fields, Alike
<1>4. PICK n : n = s.faults - 1
  OBVIOUS
<1>5. PICK t : t = [s EXCEPT !.faults = n]
  OBVIOUS
<1>6. FdFn(t) /\ Alike(f, t) /\ t.hw = f.hw /\ t.handler = f.handler /\ t.wild = f.wild
  BY <1>3, <1>5 DEF FdFn, Fields, Alike
<1>7. g = f \/ g = s \/ g = t
  <2>1. t = [s EXCEPT !.faults = @ - 1]
    BY <1>4, <1>5
  <2> QED BY <2>1, <1>2 DEF output_byte
<1>8. FdFn(g) /\ Alike(f, g) /\ g.hw = f.hw /\ g.handler = f.handler /\ g.wild = f.wild
  BY <1>1, <1>3, <1>6, <1>7 DEF Alike
<1> QED BY <1>1, <1>8, AlikeOK

LEMMA ResetFloppy ==
  ASSUME NEW f, FdOK(f), NEW g, g = reset_floppy(f)
  PROVE  /\ FdOK(g) /\ Alike(f, g) /\ g.handler = "reset_interrupt" /\ g.wild = f.wild
         /\ Len(g.hw) = 1 /\ g.hw # <<>>
<1>1. FdFn(f) /\ f.wild \in BOOLEAN
  BY FdParts
<1>2. PICK h : h = <<[c |-> "reset"]>>
  OBVIOUS
<1>3. g = [f EXCEPT !.reset = FALSE, !.recal = TRUE, !.seek = FALSE, !.handler = "reset_interrupt", !.hw = h]
  BY <1>2 DEF reset_floppy
<1>4. IsSeq(h) /\ Len(h) = 1 /\ h # <<>>
  BY <1>2, OneSeq
<1>5. FdFn(g) /\ Alike(f, g) /\ g.handler = "reset_interrupt" /\ g.wild = f.wild /\ g.hw = h
  BY <1>1, <1>3 DEF FdFn, Fields, Alike
<1>6. g.handler \in Handlers
  BY <1>5 DEF Handlers
<1> QED BY <1>1, <1>4, <1>5, <1>6, AlikeOK

\* A command is given, or the controller is reset.
Given(f, g) ==
  /\ FdOK(g) /\ Alike(f, g) /\ g.wild = f.wild
  /\ g.handler \in {f.handler, "reset_interrupt"} /\ g.hw # <<>> /\ (f.hw = <<>> => Len(g.hw) = 1)

LEMMA GiveCommand ==
  ASSUME NEW f, FdOK(f), NEW cmd, NEW g \in OrReset(issue(f, cmd))
  PROVE  Given(f, g)
<1>1. PICK o, i : /\ o \in output_byte(f)
                  /\ i = (IF o.reset THEN o ELSE [o EXCEPT !.hw = Append(@, cmd)])
                  /\ g = (IF i.reset THEN reset_floppy(i) ELSE i)
  BY DEF OrReset, issue
<1>2. FdOK(o) /\ Alike(f, o) /\ o.hw = f.hw /\ o.handler = f.handler /\ o.wild = f.wild
  BY <1>1, OutputByte
<1>3. CASE o.reset
  <2>1. i = o /\ g = reset_floppy(o)
    BY <1>1, <1>3
  <2>2. /\ FdOK(g) /\ Alike(o, g) /\ g.handler = "reset_interrupt" /\ g.wild = o.wild
        /\ Len(g.hw) = 1 /\ g.hw # <<>>
    BY <2>1, <1>2, ResetFloppy
  <2> QED BY <2>2, <1>2 DEF Given, Alike
<1>4. CASE ~o.reset
  <2>1. PICK a : a = Append(o.hw, cmd)
    OBVIOUS
  <2>2. i = [o EXCEPT !.hw = a]
    BY <2>1, <1>1, <1>4
  <2>3. FdFn(o) /\ o.handler \in Handlers /\ o.wild \in BOOLEAN /\ IsSeq(o.hw)
    BY <1>2, FdParts
  <2>4. FdFn(i) /\ Alike(o, i) /\ i.handler = o.handler /\ i.wild = o.wild /\ i.hw = a /\ i.reset = o.reset
    BY <2>2, <2>3 DEF FdFn, Fields, Alike
  <2>5. IsSeq(a) /\ Len(a) = Len(o.hw) + 1 /\ a # <<>>
    BY <2>1, <2>3, AppendSeq
  <2>6. g = i /\ FdOK(i)
    BY <2>3, <2>4, <2>5, <1>1, <1>2, <1>4, AlikeOK
  <2>7. o.hw = <<>> => Len(a) = 1
    BY <2>5
  <2> QED BY <2>4, <2>5, <2>6, <2>7, <1>2 DEF Given, Alike
<1> QED BY <1>3, <1>4

LEMMA RecalibrateFloppy ==
  ASSUME NEW f, FdOK(f), NEW g \in recalibrate_floppy(f)
  PROVE  /\ FdOK(g) /\ Alike(f, g) /\ g.wild = f.wild /\ g.hw # <<>> /\ (f.hw = <<>> => Len(g.hw) = 1)
         /\ g.handler \in {"recal_interrupt", "reset_interrupt"}
<1>1. FdFn(f) /\ f.wild \in BOOLEAN /\ IsSeq(f.hw)
  BY FdParts
<1>2. PICK h : h = [f EXCEPT !.recal = FALSE, !.track = 0, !.handler = "recal_interrupt"]
  OBVIOUS
<1>3. FdFn(h) /\ Alike(f, h) /\ h.handler = "recal_interrupt" /\ h.wild = f.wild /\ h.hw = f.hw
  BY <1>1, <1>2 DEF FdFn, Fields, Alike
<1>4. h.handler \in Handlers
  BY <1>3 DEF Handlers
<1>5. FdOK(h)
  BY <1>1, <1>3, <1>4, AlikeOK
<1>6. PICK cmd : g \in OrReset(issue(h, cmd))
  BY <1>2 DEF recalibrate_floppy
<1>7. Given(h, g)
  BY <1>5, <1>6, GiveCommand
<1> QED BY <1>3, <1>7 DEF Given, Alike

\* A command for the buffer bh (<<>> when CURRENT is NULL).
Sent(f, g, bh) ==
  /\ FdOK(g) /\ Alike(f, g) /\ g.hw # <<>> /\ (f.hw = <<>> => Len(g.hw) = 1) /\ g.handler # "none"
  /\ (bh # <<>> => g.wild = f.wild) /\ (g.handler = "rw_interrupt" => bh # <<>> \/ g.wild)

LEMMA SetupRwFloppy ==
  ASSUME NEW f, FdOK(f), NEW bh, NEW g \in setup_rw_floppy(f, bh)
  PROVE  Sent(f, g, bh)
<1>1. FdFn(f) /\ f.wild \in BOOLEAN /\ IsSeq(f.hw)
  BY FdParts
<1>2. PICK w \in BOOLEAN : w = (f.wild \/ bh = <<>>)
  OBVIOUS
<1>3. PICK h : h = [f EXCEPT !.handler = "rw_interrupt", !.wild = w]
  OBVIOUS
<1>4. FdFn(h) /\ Alike(f, h) /\ h.handler = "rw_interrupt" /\ h.wild = w /\ h.hw = f.hw
  BY <1>1, <1>3 DEF FdFn, Fields, Alike
<1>5. h.handler \in Handlers
  BY <1>4 DEF Handlers
<1>6. FdOK(h)
  BY <1>1, <1>2, <1>4, <1>5, AlikeOK
<1>7. h = [f EXCEPT !.handler = "rw_interrupt", !.wild = @ \/ bh = <<>>]
  BY <1>1, <1>2, <1>3 DEF FdFn, Fields
<1>8. PICK cmd : g \in OrReset(issue(h, cmd))
  BY <1>7 DEF setup_rw_floppy
<1>9. Given(h, g)
  BY <1>6, <1>8, GiveCommand
<1>10. bh # <<>> => w = f.wild
  BY <1>1, <1>2
<1>11. bh = <<>> => w
  BY <1>2
<1> QED BY <1>4, <1>9, <1>10, <1>11 DEF Given, Alike, Sent

LEMMA Transfer ==
  ASSUME NEW f, FdOK(f), NEW bh, NEW g \in transfer(f, bh)
  PROVE  Sent(f, g, bh)
<1>1. PICK o \in output_byte(f) :
        g \in (IF o.reset THEN {reset_floppy(o)}
               ELSE IF ~o.seek THEN setup_rw_floppy(o, bh)
               ELSE OrReset(issue([o EXCEPT !.handler = "seek_interrupt"],
                            [c |-> "seek", drive |-> o.drive, track |-> o.seek_track])))
  BY DEF transfer
<1>2. FdOK(o) /\ Alike(f, o) /\ o.hw = f.hw /\ o.handler = f.handler /\ o.wild = f.wild
  BY OutputByte
<1>3. CASE o.reset
  <2>1. g = reset_floppy(o)
    BY <1>1, <1>3
  <2> QED BY <2>1, <1>2, ResetFloppy DEF Sent, Alike
<1>4. CASE ~o.reset /\ ~o.seek
  <2>1. Sent(o, g, bh)
    BY <1>1, <1>2, <1>4, SetupRwFloppy
  <2> QED BY <2>1, <1>2 DEF Sent, Alike
<1>5. CASE ~o.reset /\ o.seek
  <2>1. PICK h : h = [o EXCEPT !.handler = "seek_interrupt"]
    OBVIOUS
  <2>2. PICK cmd : g \in OrReset(issue(h, cmd))
    BY <2>1, <1>1, <1>5
  <2>3. FdFn(o) /\ o.wild \in BOOLEAN /\ IsSeq(o.hw)
    BY <1>2, FdParts
  <2>4. FdFn(h) /\ Alike(o, h) /\ h.handler = "seek_interrupt" /\ h.wild = o.wild /\ h.hw = o.hw
    BY <2>1, <2>3 DEF FdFn, Fields, Alike
  <2>5. h.handler \in Handlers
    BY <2>4 DEF Handlers
  <2>6. FdOK(h)
    BY <1>2, <2>3, <2>4, <2>5, AlikeOK
  <2>7. Given(h, g)
    BY <2>2, <2>6, GiveCommand
  <2> QED BY <2>4, <2>7, <1>2 DEF Given, Alike, Sent
<1> QED BY <1>3, <1>4, <1>5

LEMMA DriveNat == Drive \subseteq Nat /\ 0 \in Drive
BY FdAssumption

\* What a request leaves of the timers and commands once it is started.
UnderWay(f, g, bh) ==
  /\ f.hw = <<>> /\ f.timers = <<>> => Len(g.hw) + Len(g.timers) = 1
  /\ f.hw = <<>> /\ g.hw # <<>> => g.handler # "none"
  /\ bh # <<>> => g.wild = f.wild
  /\ g.handler = "rw_interrupt" =>
       \/ bh # <<>> \/ g.wild
       \/ f.handler = "rw_interrupt" /\ g.wild = f.wild

LEMMA OnInterrupt ==
  ASSUME NEW f, FdOK(f), NEW bh, NEW g \in floppy_on_interrupt(f, bh)
  PROVE  FdOK(g) /\ g.mon = f.mon /\ g.overlap = f.overlap /\ UnderWay(f, g, bh)
<1>1. /\ FdFn(f) /\ f.wild \in BOOLEAN /\ IsSeq(f.hw) /\ IsSeq(f.timers) /\ f.drive \in Drive
      /\ f.handler \in Handlers /\ f.mon \in [Drive -> Nat] /\ f.moff \in [Drive -> Nat] /\ f.overlap \in BOOLEAN
      /\ f.dsel \in Drive
  BY FdParts
<1>0. Len(<<>>) = 0
  OBVIOUS
<1>2. CASE f.drive # f.dsel
  <2>1. PICK t : t = Insert(f.timers, 2, "transfer")
    OBVIOUS
  <2>2. IsSeq(t) /\ Len(t) = Len(f.timers) + 1
    BY <2>1, <1>1, InsertSeq
  <2>3. g = [f EXCEPT !.selected = TRUE, !.dsel = f.drive, !.timers = t]
    BY <2>1, <1>2 DEF floppy_on_interrupt
  <2>4. /\ FdFn(g) /\ g.drive = f.drive /\ g.dsel = f.drive /\ g.handler = f.handler /\ g.mon = f.mon
        /\ g.moff = f.moff /\ g.wild = f.wild /\ g.overlap = f.overlap /\ g.hw = f.hw /\ g.timers = t
    BY <2>3, <1>1 DEF FdFn, Fields
  <2>5. FdOK(g)
    BY <2>2, <2>4, <1>1, FdParts
  <2>6. f.timers = <<>> => Len(t) = 1
    BY <2>2, <1>0
  <2>7. f.hw = <<>> /\ f.timers = <<>> => Len(g.hw) + Len(g.timers) = 1
    BY <2>4, <2>6, <1>0
  <2> QED BY <2>4, <2>5, <2>7 DEF UnderWay
<1>3. CASE f.drive = f.dsel
  <2>1. PICK h : h = [f EXCEPT !.selected = TRUE]
    OBVIOUS
  <2>2. FdFn(h) /\ Alike(f, h) /\ h.handler = f.handler /\ h.wild = f.wild /\ h.hw = f.hw
    BY <2>1, <1>1 DEF FdFn, Fields, Alike
  <2>3. FdOK(h)
    BY <2>2, <1>1, AlikeOK
  <2>4. g \in transfer(h, bh)
    BY <2>1, <1>3 DEF floppy_on_interrupt
  <2>5. Sent(h, g, bh)
    BY <2>3, <2>4, Transfer
  <2>6. /\ FdOK(g) /\ g.mon = f.mon /\ g.overlap = f.overlap /\ g.timers = f.timers /\ g.hw # <<>>
        /\ (f.hw = <<>> => Len(g.hw) = 1) /\ g.handler # "none"
        /\ (bh # <<>> => g.wild = f.wild) /\ (g.handler = "rw_interrupt" => bh # <<>> \/ g.wild)
    BY <2>2, <2>5 DEF Sent, Alike
  <2>7. f.hw = <<>> /\ f.timers = <<>> => Len(g.hw) + Len(g.timers) = 1
    BY <2>6, <1>0
  <2> QED BY <2>6, <2>7 DEF UnderWay
<1> QED BY <1>2, <1>3

\* A motor that is awaited stays so.
Running(f, g) == \A d \in Drive : f.mon[d] > 0 => g.mon[d] > 0

LEMMA TicksToFloppyOn ==
  ASSUME NEW f, FdOK(f), NEW nr \in Drive, NEW g, g = ticks_to_floppy_on(f, nr)
  PROVE  /\ FdOK(g) /\ Running(f, g) /\ g.overlap = f.overlap /\ g.hw = f.hw /\ g.timers = f.timers
         /\ g.handler = f.handler /\ g.wild = f.wild /\ g.drive = f.drive
<1>1. /\ FdFn(f) /\ f.wild \in BOOLEAN /\ IsSeq(f.hw) /\ IsSeq(f.timers) /\ f.drive \in Drive
      /\ f.handler \in Handlers /\ f.mon \in [Drive -> Nat] /\ f.moff \in [Drive -> Nat] /\ f.overlap \in BOOLEAN
      /\ f.dsel \in Drive
  BY FdParts
<1>2. PICK ds : ds = (IF f.selected THEN f.dsel ELSE nr)
  OBVIOUS
<1>3. PICK v : v = (IF nr \notin f.motor THEN MON ELSE IF ds # f.dsel /\ f.mon[nr] < 2 THEN 2 ELSE f.mon[nr])
  OBVIOUS
<1>4. MON \in Nat /\ BIG \in Nat /\ MON >= 2
  BY FdAssumption
<1>5. v \in Nat /\ (f.mon[nr] > 0 => v > 0) /\ ds \in Drive
  BY <1>1, <1>2, <1>3, <1>4
<1>6. PICK m, o, mt : m = [f.mon EXCEPT ![nr] = v] /\ o = [f.moff EXCEPT ![nr] = BIG] /\ mt = f.motor \cup {nr}
  OBVIOUS
<1>7. g = [f EXCEPT !.moff = o, !.motor = mt, !.dsel = ds, !.mon = m]
  BY <1>1, <1>2, <1>3, <1>6 DEF ticks_to_floppy_on, FdFn, Fields
<1>8. /\ FdFn(g) /\ g.drive = f.drive /\ g.dsel = ds /\ g.handler = f.handler /\ g.mon = m
      /\ g.moff = o /\ g.wild = f.wild /\ g.overlap = f.overlap /\ g.hw = f.hw /\ g.timers = f.timers
  BY <1>7, <1>1 DEF FdFn, Fields
<1>9. m \in [Drive -> Nat] /\ o \in [Drive -> Nat] /\ m[nr] = v /\ \A d \in Drive : d # nr => m[d] = f.mon[d]
  BY <1>1, <1>4, <1>5, <1>6
<1>10. FdOK(g)
  BY <1>1, <1>5, <1>8, <1>9, FdParts
<1>11. Running(f, g)
  BY <1>5, <1>8, <1>9 DEF Running
<1> QED BY <1>8, <1>10, <1>11

LEMMA Start ==
  ASSUME NEW f, FdOK(f), NEW rq, NEW g \in start(f, rq)
  PROVE  FdOK(g) /\ Running(f, g) /\ g.overlap = f.overlap /\ UnderWay(f, g, rq.bh)
<1>0. Len(<<>>) = 0
  OBVIOUS
<1>1. /\ FdFn(f) /\ f.wild \in BOOLEAN /\ IsSeq(f.hw) /\ IsSeq(f.timers) /\ f.drive \in Drive
      /\ f.handler \in Handlers /\ f.mon \in [Drive -> Nat]
  BY FdParts
<1>2. PICK to, h, k : /\ h = [f EXCEPT !.seek_track = to, !.lin = rq.sector,
                                      !.seek = NeedsSeek(f, to), !.cmd = rq.cmd]
                      /\ k = ticks_to_floppy_on(h, f.drive)
                      /\ g \in (IF k.mon[f.drive] = 0
                                THEN floppy_on_interrupt(k, rq.bh)
                                ELSE {[k EXCEPT !.timers = Insert(@, k.mon[f.drive], "floppy_on_interrupt")]})
  BY DEF start
<1>3. PICK sk, l, c : sk = NeedsSeek(f, to) /\ l = rq.sector /\ c = rq.cmd
  OBVIOUS
<1>4. h = [f EXCEPT !.seek_track = to, !.lin = l, !.seek = sk, !.cmd = c]
  BY <1>2, <1>3
<1>5. FdFn(h) /\ Alike(f, h) /\ h.handler = f.handler /\ h.wild = f.wild /\ h.hw = f.hw
  BY <1>4, <1>1 DEF FdFn, Fields, Alike
<1>6. FdOK(h)
  BY <1>5, <1>1, AlikeOK
<1>7. /\ FdOK(k) /\ Running(h, k) /\ k.overlap = h.overlap /\ k.hw = h.hw /\ k.timers = h.timers
      /\ k.handler = h.handler /\ k.wild = h.wild /\ k.drive = h.drive
  <2>1. k = ticks_to_floppy_on(h, f.drive) /\ f.drive \in Drive
    BY <1>1, <1>2
  <2> QED BY <2>1, <1>6, TicksToFloppyOn
<1>8. /\ Running(f, k) /\ k.overlap = f.overlap /\ k.hw = f.hw /\ k.timers = f.timers
      /\ k.handler = f.handler /\ k.wild = f.wild
  BY <1>5, <1>7 DEF Alike, Running
<1>9. CASE k.mon[f.drive] = 0
  <2>1. FdOK(g) /\ g.mon = k.mon /\ g.overlap = k.overlap /\ UnderWay(k, g, rq.bh)
    BY <1>2, <1>7, <1>9, OnInterrupt
  <2> QED BY <2>1, <1>8 DEF UnderWay, Running
<1>10. CASE k.mon[f.drive] # 0
  <2>1. PICK j, t : j = k.mon[f.drive] /\ t = Insert(k.timers, j, "floppy_on_interrupt")
    OBVIOUS
  <2>2. g = [k EXCEPT !.timers = t]
    BY <2>1, <1>2, <1>10
  <2>3. /\ FdFn(k) /\ IsSeq(k.timers) /\ IsSeq(k.hw) /\ k.drive \in Drive /\ k.dsel \in Drive
        /\ k.handler \in Handlers /\ k.mon \in [Drive -> Nat] /\ k.moff \in [Drive -> Nat]
        /\ k.wild \in BOOLEAN /\ k.overlap \in BOOLEAN
    BY <1>7, FdParts
  <2>4. IsSeq(t) /\ Len(t) = Len(k.timers) + 1
    BY <2>1, <2>3, InsertSeq
  <2>5. /\ FdFn(g) /\ g.drive = k.drive /\ g.dsel = k.dsel /\ g.handler = k.handler /\ g.mon = k.mon
        /\ g.moff = k.moff /\ g.wild = k.wild /\ g.overlap = k.overlap /\ g.hw = k.hw /\ g.timers = t
    BY <2>2, <2>3 DEF FdFn, Fields
  <2>6. FdOK(g)
    BY <2>3, <2>4, <2>5, FdParts
  <2>7. f.hw = <<>> /\ f.timers = <<>> => Len(g.hw) + Len(g.timers) = 1
    BY <2>4, <2>5, <1>8, <1>0
  <2> QED BY <2>5, <2>6, <2>7, <1>8 DEF UnderWay, Running
<1> QED BY <1>9, <1>10

\* The requests of q are for diskettes.
OnDiskettes(q, req) ==
  \A i \in 1 .. Len(q) : req[q[i]].bh \in Buf /\ req[q[i]].bh.major = FD

LEMMA LookAtKeeps ==
  ASSUME NEW f, FdOK(f), NEW q, NEW req, OnDiskettes(q, req), NEW n \in 0 .. Len(q), NEW g, g = LookAt(f, q, req, n)
  PROVE  /\ FdOK(g) /\ g.mon = f.mon /\ g.overlap = f.overlap /\ g.hw = f.hw /\ g.timers = f.timers
         /\ g.handler = f.handler /\ g.wild = f.wild /\ g.moff = f.moff
<1>1. /\ FdFn(f) /\ f.wild \in BOOLEAN /\ IsSeq(f.hw) /\ IsSeq(f.timers) /\ f.drive \in Drive /\ f.dsel \in Drive
      /\ f.handler \in Handlers /\ f.mon \in [Drive -> Nat] /\ f.moff \in [Drive -> Nat] /\ f.overlap \in BOOLEAN
  BY FdParts
<1>2. PICK sk, d : /\ sk = (\E i \in 1 .. n : FdDrive(req[q[i]]) # (IF i = 1 THEN f.drive ELSE FdDrive(req[q[i - 1]])))
                   /\ d = (IF n = 0 THEN f.drive ELSE FdDrive(req[q[n]]))
  OBVIOUS
<1>3. d \in Drive
  <2>1. CASE n = 0
    BY <2>1, <1>1, <1>2
  <2>2. CASE n # 0
    <3>1. n \in 1 .. Len(q)
      BY <2>2
    <3>2. req[q[n]].bh \in Buf /\ req[q[n]].bh.major = FD
      BY <3>1 DEF OnDiskettes
    <3>3. FdDrive(req[q[n]]) \in Drive
      BY <3>2, FdAssumption DEF FdDrive
    <3> QED BY <3>3, <2>2, <1>2
  <2> QED BY <2>1, <2>2
<1>4. g = [f EXCEPT !.seek = sk, !.drive = d]
  BY <1>1, <1>2 DEF LookAt, FdFn, Fields
<1>5. /\ FdFn(g) /\ g.drive = d /\ g.dsel = f.dsel /\ g.handler = f.handler /\ g.mon = f.mon
      /\ g.moff = f.moff /\ g.wild = f.wild /\ g.overlap = f.overlap /\ g.hw = f.hw /\ g.timers = f.timers
  BY <1>4, <1>1 DEF FdFn, Fields
<1> QED BY <1>1, <1>3, <1>5, FdParts

\* The floppy driver has nothing under way, unless a request came too early.
AtRest(f) ==
  /\ f.handler = "rw_interrupt" => f.wild
  /\ f.overlap \/ (f.hw = <<>> /\ f.timers = <<>> /\ ~f.wild)

\* How many commands and timers are under way.
Orders(f) == Len(f.hw) + Len(f.timers)

LEMMA EmptyLen == \A s : s = <<>> => Len(s) = 0
OBVIOUS

LEMMA OrdersSum ==
  ASSUME NEW f, NEW x \in Nat, NEW y \in Nat, Len(f.hw) = x, Len(f.timers) = y
  PROVE  Orders(f) = x + y
BY DEF Orders

LEMMA FewOrders ==
  \A f : /\ Len(f.hw) = 1 /\ Len(f.timers) = 0 => Orders(f) = 1
         /\ Len(f.hw) = 0 /\ Len(f.timers) = 1 => Orders(f) = 1
         /\ Len(f.hw) = 0 /\ Len(f.timers) = 0 => Orders(f) = 0
<1> TAKE f
<1>1. PICK x, y : x = Len(f.hw) /\ y = Len(f.timers)
  OBVIOUS
<1>2. Orders(f) = x + y
  BY <1>1 DEF Orders
<1>3. (x = 1 /\ y = 0 => x + y = 1) /\ (x = 0 /\ y = 1 => x + y = 1) /\ (x = 0 /\ y = 0 => x + y = 0)
  OBVIOUS
<1> QED BY <1>1, <1>2, <1>3, Zenon

LEMMA OrdersLemma ==
  ASSUME NEW f, FdOK(f)
  PROVE  /\ Orders(f) \in Nat /\ Len(f.hw) \in Nat /\ Len(f.timers) \in Nat
         /\ (f.hw = <<>> <=> Len(f.hw) = 0) /\ (f.timers = <<>> <=> Len(f.timers) = 0)
<1>1. IsSeq(f.hw) /\ IsSeq(f.timers)
  BY FdParts
<1>2. PICK x, y : x = f.hw /\ y = f.timers
  OBVIOUS
<1>3. x \in Seq(Range(x)) /\ y \in Seq(Range(y))
  BY <1>1, <1>2 DEF IsSeq
<1>4. Len(x) \in Nat /\ Len(y) \in Nat /\ (x = <<>> <=> Len(x) = 0) /\ (y = <<>> <=> Len(y) = 0)
  BY <1>3, SeqRange
<1>5. PICK m \in Nat, n \in Nat : m = Len(f.hw) /\ n = Len(f.timers)
  BY <1>2, <1>4
<1>6. Orders(f) = m + n
  BY <1>5, OrdersSum
<1> QED BY <1>2, <1>4, <1>6

LEMMA OneOrder ==
  ASSUME NEW g, NEW s, g.handler = "rw_interrupt" /\ ~g.wild => s # <<>>,
         ~g.overlap => /\ ~g.wild /\ Orders(g) = 1 /\ (s = <<>> => g.timers = <<>>)
                       /\ (g.hw # <<>> => g.handler # "none")
                       /\ (g.hw # <<>> /\ s = <<>> => g.handler \in {"reset_interrupt", "recal_interrupt"})
  PROVE  FdBusy(g, s)
<1>1. PICK k : k = Orders(g)
  OBVIOUS
<1>2. k = 1 => k <= 1
  OBVIOUS
<1> QED BY <1>1, <1>2 DEF FdBusy, Orders

LEMMA DoFdRequest ==
  ASSUME NEW f, FdOK(f), AtRest(f), NEW q \in Seq(Slot), NEW req, OnDiskettes(q, req),
         NEW g \in do_fd_request(f, q, req), NEW n, n = FdRefused(f, q, req),
         NEW s \in Seq(Slot), LeftOf(s, q, n)
  PROVE  FdOK(g) /\ Running(f, g) /\ g.overlap = f.overlap /\ FdBusy(g, s)
<1>0. Len(<<>>) = 0 /\ Len(q) \in Nat
  BY LenProperties
<1>1. /\ FdFn(f) /\ f.wild \in BOOLEAN /\ IsSeq(f.hw) /\ IsSeq(f.timers) /\ f.drive \in Drive /\ f.dsel \in Drive
      /\ f.handler \in Handlers /\ f.mon \in [Drive -> Nat] /\ f.moff \in [Drive -> Nat] /\ f.overlap \in BOOLEAN
  BY FdParts
<1>2. CASE f.reset
  <2>1. g = reset_floppy(f)
    BY <1>2 DEF do_fd_request
  <2>2. /\ FdOK(g) /\ Alike(f, g) /\ g.handler = "reset_interrupt" /\ g.wild = f.wild
        /\ Len(g.hw) = 1 /\ g.hw # <<>>
    BY <2>1, ResetFloppy
  <2>3. ~f.overlap => g.timers = <<>> /\ ~g.wild /\ Len(g.hw) + Len(g.timers) = 1
    BY <2>2, <1>0 DEF Alike, AtRest
  <2> QED BY <2>2, <2>3 DEF FdBusy, Alike, Running
<1>3. CASE ~f.reset /\ f.recal
  <2>1. PICK h : h = [f EXCEPT !.seek = FALSE]
    OBVIOUS
  <2>2. g \in recalibrate_floppy(h)
    BY <2>1, <1>3 DEF do_fd_request
  <2>3. FdFn(h) /\ Alike(f, h) /\ h.handler = f.handler /\ h.wild = f.wild /\ h.hw = f.hw
    BY <2>1, <1>1 DEF FdFn, Fields, Alike
  <2>4. FdOK(h)
    BY <2>3, <1>1, AlikeOK
  <2>5. /\ FdOK(g) /\ Alike(h, g) /\ g.wild = h.wild /\ g.hw # <<>> /\ (h.hw = <<>> => Len(g.hw) = 1)
        /\ g.handler \in {"recal_interrupt", "reset_interrupt"}
    BY <2>2, <2>4, RecalibrateFloppy
  <2>6. g.overlap = f.overlap /\ g.mon = f.mon /\ g.timers = f.timers /\ g.wild = f.wild
    BY <2>3, <2>5 DEF Alike
  <2>7. ~f.overlap => g.timers = <<>> /\ ~g.wild /\ Len(g.hw) = 1
    BY <2>3, <2>5, <2>6 DEF AtRest
  <2>8. ~f.overlap => Orders(g) = 1
    <3> SUFFICES ASSUME ~f.overlap PROVE Orders(g) = 1
      OBVIOUS
    <3>1. Len(g.hw) = 1 /\ Len(g.timers) = 0
      <4>1. Len(g.hw) = 1 /\ g.timers = <<>>
        BY <2>7, Zenon
      <4>2. g.timers = <<>> <=> Len(g.timers) = 0
        BY <2>5, OrdersLemma, Zenon
      <4> QED BY <4>1, <4>2, Zenon
    <3> QED BY <3>1, FewOrders, Zenon
  <2>9. Running(f, g)
    BY <2>6 DEF Running
  <2>10. FdBusy(g, s)
    BY <2>5, <2>6, <2>7, <2>8, OneOrder
  <2> QED BY <2>5, <2>6, <2>9, <2>10
<1>4. CASE ~f.reset /\ ~f.recal
  <2>1. n = Refused(q, TooBig(q, req))
    BY <1>4 DEF FdRefused
  <2>2. n \in 0 .. Len(q)
    BY <2>1, RefusedLemma
  <2>3. PICK k : k = (IF n = Len(q) THEN n ELSE n + 1)
    OBVIOUS
  <2>4. k \in 0 .. Len(q)
    BY <2>2, <2>3, <1>0
  <2>5. PICK seen : seen = LookAt(f, q, req, k)
    OBVIOUS
  <2>6. /\ FdOK(seen) /\ seen.mon = f.mon /\ seen.overlap = f.overlap /\ seen.hw = f.hw /\ seen.timers = f.timers
        /\ seen.handler = f.handler /\ seen.wild = f.wild /\ seen.moff = f.moff
    BY <2>4, <2>5, LookAtKeeps
  <2>7. PICK offs : offs = {FdDrive(req[q[i]]) : i \in 1 .. n}
    OBVIOUS
  <2>8. PICK o : o = [d \in Drive |-> IF d \in offs THEN MOFF ELSE seen.moff[d]]
    OBVIOUS
  <2>9. PICK h : h = [seen EXCEPT !.moff = o]
    OBVIOUS
  <2>10. FdFn(seen) /\ IsSeq(seen.hw) /\ IsSeq(seen.timers) /\ seen.drive \in Drive /\ seen.dsel \in Drive
    BY <2>6, FdParts
  <2>11. g \in (IF n = Len(q) THEN {h} ELSE start(h, req[q[n + 1]]))
    <3>1. h = [seen EXCEPT !.moff = [d \in Drive |-> IF d \in offs THEN MOFF ELSE @[d]]]
      BY <2>8, <2>9, <2>10 DEF FdFn, Fields
    <3> QED BY <3>1, <2>1, <2>3, <2>5, <2>7, <1>4 DEF do_fd_request
  <2>12. /\ FdFn(h) /\ h.drive = seen.drive /\ h.dsel = seen.dsel /\ h.handler = f.handler /\ h.mon = f.mon
         /\ h.moff = o /\ h.wild = f.wild /\ h.overlap = f.overlap /\ h.hw = f.hw /\ h.timers = f.timers
    BY <2>6, <2>9, <2>10 DEF FdFn, Fields
  <2>13. o \in [Drive -> Nat]
    BY <2>6, <2>8, <1>1, FdAssumption
  <2>14. FdOK(h)
    BY <2>10, <2>12, <2>13, <1>1, FdParts
  <2>15. CASE n = Len(q)
    <3>1. g = h
      BY <2>11, <2>15
    <3>2. s = <<>>
      BY <2>15, <1>0, EmptySeq DEF LeftOf
    <3>3. Running(f, h)
      BY <2>12 DEF Running
    <3>4. ~h.overlap => h.hw = <<>> /\ h.timers = <<>> /\ ~h.wild
      BY <2>12 DEF AtRest
    <3>5. ~h.overlap => Orders(h) = 0
      <4> SUFFICES ASSUME ~h.overlap PROVE Orders(h) = 0
        OBVIOUS
      <4>1. Len(h.hw) = 0 /\ Len(h.timers) = 0
        BY <3>4, EmptyLen
      <4> QED BY <4>1, FewOrders, Zenon
    <3>6. FdBusy(h, s)
      <4>1. PICK few : few = Orders(h)
        OBVIOUS
      <4>2. few = 0 => few <= 1
        OBVIOUS
      <4>3. h.handler = "rw_interrupt" => h.wild
        BY <2>12 DEF AtRest
      <4> QED BY <3>2, <3>4, <3>5, <4>1, <4>2, <4>3 DEF FdBusy, Orders
    <3> QED BY <3>1, <3>3, <3>6, <2>12, <2>14
  <2>16. CASE n # Len(q)
    <3>1. PICK rq : rq = req[q[n + 1]]
      OBVIOUS
    <3>2. g \in start(h, rq)
      BY <2>11, <2>16, <3>1
    <3>3. n + 1 \in 1 .. Len(q)
      BY <2>2, <2>16, <1>0
    <3>4. rq.bh # <<>>
      BY <3>1, <3>3, NoBuffer DEF OnDiskettes
    <3>5. FdOK(g) /\ Running(h, g) /\ g.overlap = h.overlap /\ UnderWay(h, g, rq.bh)
      BY <3>2, <2>14, Start
    <3>6. Len(s) = Len(q) - n /\ Len(s) # 0
      BY <2>2, <2>16, <1>0 DEF LeftOf
    <3>7. s # <<>>
      BY <3>6, <1>0
    <3>8. ~f.overlap => ~g.wild /\ Orders(g) = 1 /\ (g.hw # <<>> => g.handler # "none")
      BY <3>4, <3>5, <2>12 DEF UnderWay, AtRest, Orders
    <3>9. Running(f, g)
      BY <3>5, <2>12 DEF Running
    <3>10. FdBusy(g, s)
      BY <3>5, <3>7, <3>8, <2>12, OneOrder
    <3> QED BY <3>5, <3>9, <3>10, <2>12
  <2> QED BY <2>15, <2>16
<1> QED BY <1>2, <1>3, <1>4

\* Cutting off twice.
LEMMA LeftTwice ==
  ASSUME NEW q, NEW rest, NEW s, Len(q) \in Nat, NEW n \in Nat, NEW k \in Nat, n + k <= Len(q),
         LeftOf(rest, q, n), LeftOf(s, q, n + k)
  PROVE  LeftOf(s, rest, k)
<1>1. Len(rest) = Len(q) - n /\ Len(s) = Len(q) - (n + k)
  BY DEF LeftOf
<1>2. Len(s) = Len(rest) - k
  BY <1>1
<1>3. ASSUME NEW i \in 1 .. Len(rest) - k PROVE s[i] = rest[k + i]
  <2>1. i \in 1 .. Len(q) - (n + k) /\ k + i \in 1 .. Len(q) - n /\ (n + k) + i = n + (k + i)
    BY <1>1, <1>3
  <2>2. s[i] = q[(n + k) + i]
    BY <2>1 DEF LeftOf
  <2>3. rest[k + i] = q[n + (k + i)]
    BY <2>1 DEF LeftOf
  <2> QED BY <2>1, <2>2, <2>3
<1> QED BY <1>2, <1>3 DEF LeftOf

\* What do_fd_request does: the first n requests end as they were told to, and
\* more because they are not on the diskette.
FdRan(q, req, n, up) ==
  \E gone \in n .. Len(q) :
    /\ request' = SlotsLeft(q, req, gone)
    /\ \A i \in 1 .. gone : uptodate'[req[q[i]].bh] <=> up /\ req[q[i]].bh = req[q[1]].bh
    /\ \A i \in n + 1 .. gone : req[q[i]].sector + 2 > TypeOf(req[q[i]]).size

LEMMA FloppyOff ==
  ASSUME NEW f, FdOK(f), NEW nr, NEW g, g = floppy_off(f, nr)
  PROVE  /\ FdOK(g) /\ g.mon = f.mon /\ g.overlap = f.overlap /\ g.hw = f.hw /\ g.timers = f.timers
         /\ g.handler = f.handler /\ g.wild = f.wild
<1>1. /\ FdFn(f) /\ f.wild \in BOOLEAN /\ IsSeq(f.hw) /\ IsSeq(f.timers) /\ f.drive \in Drive /\ f.dsel \in Drive
      /\ f.handler \in Handlers /\ f.mon \in [Drive -> Nat] /\ f.moff \in [Drive -> Nat] /\ f.overlap \in BOOLEAN
  BY FdParts
<1>2. PICK o : o = [f.moff EXCEPT ![nr] = MOFF]
  OBVIOUS
<1>3. g = [f EXCEPT !.moff = o]
  BY <1>1, <1>2 DEF floppy_off, FdFn, Fields
<1>4. o \in [Drive -> Nat]
  BY <1>1, <1>2, FdAssumption
<1>5. /\ FdFn(g) /\ g.drive = f.drive /\ g.dsel = f.dsel /\ g.handler = f.handler /\ g.mon = f.mon
      /\ g.moff = o /\ g.wild = f.wild /\ g.overlap = f.overlap /\ g.hw = f.hw /\ g.timers = f.timers
  BY <1>3, <1>1 DEF FdFn, Fields
<1> QED BY <1>1, <1>4, <1>5, FdParts

\* The end of a handler of the floppy driver, or the first request.
FdKept(f, pr) ==
  /\ RequestsOK(queue', request', lock', proc')
  /\ FdOK(fd') /\ Running(f, fd') /\ fd'.overlap = f.overlap /\ FdBusy(fd', queue'[FD])
  /\ (\A x \in Major : x # FD => queue'[x] = queue[x])
  /\ \E k \in Nat : proc' = ProcsLeft(pr, k)

LEMMA FdNextKeeps ==
  ASSUME queue \in [Major -> Seq(Slot)], NEW q, NEW req, NEW lk, NEW pr,
         RequestsOK(With(FD, q), req, lk, pr), NEW n \in 0 .. Len(q), NEW up,
         NEW f, FdOK(f), AtRest(f), FdNext(f, q, req, lk, pr, n, up)
  PROVE  FdKept(f, pr) /\ FdRan(q, req, n, up)
<1> DEFINE qs == With(FD, q)
           rest == SubSeq(q, n + 1, Len(q))
           drv == IF n = 0 THEN f ELSE floppy_off(f, FdDrive(req[q[1]]))
           k == FdRefused(drv, rest, req)
           gone == n + k
           s == SubSeq(q, gone + 1, Len(q))
<1>0. FD \in Major
  BY DEF Major
<1>1. req \in [Slot -> Rq \cup {Free}] /\ Queued(qs, req) /\ Held(req, lk, pr) /\ qs[FD] = q
  BY <1>0 DEF RequestsOK, With
<1>2. /\ q \in Seq(Slot) /\ Len(q) \in Nat
      /\ \A i \in 1 .. Len(q) : q[i] \in Slot /\ req[q[i]] \in Rq /\ req[q[i]].bh.major = FD
  BY <1>0, <1>1, QueueFacts
<1>3. n \in Nat /\ n <= Len(q)
  BY <1>2
<1>4. rest \in Seq(Slot) /\ LeftOf(rest, q, n)
  BY <1>2, CutOff
<1>e. end_request(FD, q, req, lk, pr, gone, up) /\ fd' \in do_fd_request(drv, rest, req)
  BY DEF FdNext
<1> HIDE DEF qs, rest
<1>5. /\ FdOK(drv) /\ drv.mon = f.mon /\ drv.overlap = f.overlap /\ drv.hw = f.hw /\ drv.timers = f.timers
      /\ drv.handler = f.handler /\ drv.wild = f.wild
  BY FloppyOff
<1> HIDE DEF drv
<1>6. k \in 0 .. Len(rest) /\ \A i \in 1 .. k : rest[i] \in TooBig(rest, req)
  <2>1. CASE drv.reset \/ drv.recal
    <3>1. k = 0 /\ Len(rest) \in Nat
      BY <2>1, <1>4, LenProperties DEF FdRefused
    <3> QED BY <3>1
  <2>2. CASE ~(drv.reset \/ drv.recal)
    <3>1. k = Refused(rest, TooBig(rest, req))
      BY <2>2 DEF FdRefused
    <3> HIDE DEF k
    <3> QED BY <3>1, <1>4, RefusedLemma
  <2> QED BY <2>1, <2>2
<1>k. k = FdRefused(drv, rest, req)
  OBVIOUS
<1> HIDE DEF k
<1>7. gone \in n .. Len(q) /\ gone \in 0 .. Len(q) /\ k \in 0 .. Len(q) - n /\ k \in Nat
  BY <1>2, <1>3, <1>4, <1>6 DEF LeftOf
<1>8. ASSUME NEW i \in n + 1 .. gone
      PROVE  req[q[i]].sector + 2 > TypeOf(req[q[i]]).size
  <2>1. i - n \in 1 .. k /\ n + (i - n) = i /\ i - n \in 1 .. Len(q) - n
    BY <1>3, <1>7, <1>2
  <2>2. rest[i - n] = q[i]
    BY <2>1, <1>4 DEF LeftOf
  <2>3. q[i] \in TooBig(rest, req)
    BY <2>1, <2>2, <1>6
  <2> QED BY <2>3 DEF TooBig
<1>9. LeftOf(s, q, n + k) /\ s \in Seq(Slot) /\ n + k <= Len(q)
  BY <1>2, <1>3, <1>7, CutOff
<1>10. LeftOf(s, rest, k)
  BY <1>2, <1>3, <1>4, <1>7, <1>9, LeftTwice
<1> HIDE DEF gone
<1>11. Leaves(FD, q, req, lk, pr, gone, up)
  BY <1>0, <1>7, <1>e, EndRequest
<1>12. /\ RequestsOK(queue', request', lock', proc') /\ queue' = [queue EXCEPT ![FD] = s]
       /\ request' = SlotsLeft(q, req, gone) /\ proc' = ProcsLeft(pr, gone)
       /\ \A i \in 1 .. gone : uptodate'[req[q[i]].bh] <=> up /\ req[q[i]].bh = req[q[1]].bh
  BY <1>11 DEF Leaves
<1> HIDE DEF s
<1>13. queue'[FD] = s /\ \A x \in Major : x # FD => queue'[x] = queue[x]
  BY <1>0, <1>12
<1>14. FdRan(q, req, n, up)
  BY <1>7, <1>8, <1>12 DEF FdRan
<1>15. OnDiskettes(rest, req)
  <2> SUFFICES ASSUME NEW i \in 1 .. Len(rest) PROVE req[rest[i]].bh \in Buf /\ req[rest[i]].bh.major = FD
    BY DEF OnDiskettes
  <2>1. i \in 1 .. Len(q) - n /\ n + i \in 1 .. Len(q)
    BY <1>2, <1>3, <1>4 DEF LeftOf
  <2>2. rest[i] = q[n + i]
    BY <2>1, <1>4 DEF LeftOf
  <2> QED BY <2>1, <2>2, <1>2 DEF Rq
<1>16. AtRest(drv)
  BY <1>5 DEF AtRest
<1>17. FdOK(fd') /\ Running(drv, fd') /\ fd'.overlap = drv.overlap /\ FdBusy(fd', s)
  BY <1>e, <1>k, <1>4, <1>5, <1>9, <1>10, <1>15, <1>16, DoFdRequest
<1>18. Running(f, fd') /\ fd'.overlap = f.overlap
  BY <1>5, <1>17 DEF Running
<1>19. gone \in Nat
  BY <1>7, <1>3
<1> QED BY <1>12, <1>13, <1>14, <1>17, <1>18, <1>19 DEF FdKept

\* The floppy driver gives up a request only with a reason.
LEMMA FdGivenUp ==
  ASSUME NEW req, NEW lk, NEW pr, RequestsOK(queue, req, lk, pr), SameButErrors(req),
         NEW q, q = queue[FD], NEW n \in 0 .. 1, NEW up \in BOOLEAN, FdRan(q, req, n, up),
         n = 1 => \/ up \/ request[q[1]].errors + 1 > FD_MAX_ERRORS
                  \/ request[q[1]].cmd = WRITE \/ fd.wp
  PROVE  Justified
<1>0. FD \in Major /\ FD # HD
  BY DEF Major, HD, FD
<1>1. req \in [Slot -> Rq \cup {Free}] /\ Queued(queue, req) /\ Held(req, lk, pr) /\ Positions(req)
  BY DEF RequestsOK
<1>2. PICK gone \in n .. Len(q) :
        /\ request' = SlotsLeft(q, req, gone)
        /\ \A i \in 1 .. gone : uptodate'[req[q[i]].bh] <=> up /\ req[q[i]].bh = req[q[1]].bh
        /\ \A i \in n + 1 .. gone : req[q[i]].sector + 2 > TypeOf(req[q[i]]).size
  BY DEF FdRan
<1>3. /\ q \in Seq(Slot) /\ Len(q) \in Nat
      /\ \A i \in 1 .. Len(q) : q[i] \in Slot /\ q[i] \in Used(req) /\ req[q[i]] \in Rq /\ req[q[i]].bh.major = FD
  BY <1>0, <1>1, QueueFacts
<1>4. gone \in Nat /\ gone <= Len(q) /\ n <= gone /\ gone \in 0 .. Len(q)
  BY <1>2, <1>3
<1>5. Used(SlotsLeft(q, req, gone)) = Used(req) \ Ended(q, gone)
  BY <1>0, <1>1, <1>4, SlotLeft
<1>6. SUFFICES ASSUME NEW r \in Slot, request[r] # Free, request'[r] = Free, ~uptodate'[request[r].bh]
               PROVE  GivenUp(request[r])
  BY DEF Justified
<1>7. r \in Used(req) /\ r \notin Used(SlotsLeft(q, req, gone))
  BY <1>2, <1>6 DEF Used, SameButErrors
<1>8. PICK i \in 1 .. gone : r = q[i]
  BY <1>5, <1>7 DEF Ended
<1>9. i \in 1 .. Len(q) /\ i \in Nat
  BY <1>3, <1>4
<1>10. /\ req[r] \in Rq /\ req[r].bh.major = FD /\ req[r].bh = request[r].bh
       /\ req[r].sector = request[r].sector /\ req[r].off = request[r].off
  BY <1>3, <1>8, <1>9 DEF SameButErrors
<1>11. CASE i <= n
  <2>1. i = 1 /\ n = 1
    BY <1>11, <1>9, <1>8
  <2>2. uptodate'[req[r].bh] <=> up
    BY <2>1, <1>2, <1>8
  <2>3. request[r].errors + 1 > FD_MAX_ERRORS \/ request[r].cmd = WRITE \/ fd.wp
    BY <2>1, <2>2, <1>6, <1>8, <1>10
  <2>4. request[r].bh.major # HD
    BY <1>0, <1>10
  <2> QED BY <2>3, <2>4 DEF GivenUp
<1>12. CASE ~(i <= n)
  <2>1. i \in n + 1 .. gone
    BY <1>12, <1>8, <1>4, <1>9
  <2>2. req[r].sector + 2 > TypeOf(req[r]).size
    BY <2>1, <1>2, <1>8
  <2>3. /\ req[r].bh \in Buf /\ req[r].off = 0
        /\ req[r].sector = 2 * req[r].bh.block + req[r].off
    BY <1>7, <1>10, <1>1 DEF Positions, Rq
  <2>4. req[r].bh.block \in Nat
    BY <2>3, RequestAssumption
  <2>5. 2 * req[r].bh.block + 2 > TypeOf(req[r]).size
    <3>1. req[r].sector = 2 * req[r].bh.block
      BY <2>3, <2>4
    <3> QED BY <2>2, <3>1
  <2>6. TypeOf(req[r]) = TypeOf(request[r])
    BY <1>10 DEF TypeOf
  <2>7. request[r].bh.major # HD /\ 2 * request[r].bh.block + 2 > TypeOf(request[r]).size
    BY <1>0, <1>10, <2>5, <2>6
  <2> QED BY <2>7 DEF GivenUp
<1> QED BY <1>11, <1>12

\* The same processes wait for a slot with the same buffers.
LEMMA HeldBySame ==
  ASSUME NEW req, NEW lk, NEW pr, NEW new, Held(req, lk, pr),
         \A p \in Proc : /\ new[p].pc \in OnRequest <=> pr[p].pc \in OnRequest
                         /\ new[p].pc \in OnRequest => new[p].bh = pr[p].bh
  PROVE  Held(req, lk, new)
<1>1. /\ lk \in [Buf -> BOOLEAN] /\ \A r \in Used(req) : lk[req[r].bh]
      /\ \A r, s \in Used(req) : req[r].bh = req[s].bh => r = s
  BY DEF Held
<1>2. \A p \in Proc : new[p].pc \in OnRequest => lk[new[p].bh]
  BY DEF Held
<1>3. \A p, x \in Proc :
        new[p].pc \in OnRequest /\ new[x].pc \in OnRequest /\ new[p].bh = new[x].bh => p = x
  BY DEF Held
<1>4. \A r \in Used(req), p \in Proc : new[p].pc \in OnRequest => req[r].bh # new[p].bh
  BY DEF Held
<1>5. \A b \in Buf : lk[b] => \/ \E r \in Used(req) : req[r].bh = b
                              \/ \E p \in Proc : new[p].pc \in OnRequest /\ new[p].bh = b
  BY DEF Held
<1> QED BY <1>1, <1>2, <1>3, <1>4, <1>5 DEF Held

\* floppy_deselect wakes nobody who holds or waits for a request.
LEMMA WakeSelectKeeps ==
  ASSUME NEW qs, NEW req, NEW lk, NEW pr, RequestsOK(qs, req, lk, pr), NEW new, new = WakeSelect(pr)
  PROVE  RequestsOK(qs, req, lk, new) /\ Motors(pr, new)
<1>0. /\ req \in [Slot -> Rq \cup {Free}] /\ Queued(qs, req) /\ Held(req, lk, pr)
      /\ Positions(req) /\ Slotless(req, pr) /\ \A m \in Major : Elevator(qs[m], req)
      /\ pr \in [Proc -> ProcRec] /\ \A p \in Proc : ProcOK(pr[p])
  BY DEF RequestsOK
<1>1. ASSUME NEW p \in Proc
      PROVE  /\ new[p] \in ProcRec /\ ProcOK(new[p]) /\ new[p].bh = pr[p].bh /\ new[p].cmd = pr[p].cmd
             /\ new[p].raced = pr[p].raced
             /\ \A x \in OnRequest : new[p].pc = x <=> pr[p].pc = x
             /\ new[p] = pr[p] \/ new[p].pc = "sel"
  <2>1. new[p] = (IF pr[p].pc = "select" THEN [pr[p] EXCEPT !.pc = "sel"] ELSE pr[p])
    BY DEF WakeSelect
  <2>2. pr[p] \in ProcRec /\ ProcOK(pr[p])
    BY <1>0
  <2>3. CASE pr[p].pc # "select"
    BY <2>1, <2>2, <2>3
  <2>4. CASE pr[p].pc = "select"
    <3>1. new[p] = [pr[p] EXCEPT !.pc = "sel"]
      BY <2>1, <2>4
    <3>2. /\ new[p] \in ProcRec /\ new[p].pc = "sel" /\ new[p].nr = pr[p].nr
          /\ new[p].bh = pr[p].bh /\ new[p].cmd = pr[p].cmd /\ new[p].raced = pr[p].raced
      BY <3>1, <2>2 DEF ProcRec, OnFloppy
    <3>3. pr[p].nr \in Drive
      BY <2>2, <2>4 DEF ProcOK, OnFloppy
    <3>4. ProcOK(new[p])
      BY <3>2, <3>3 DEF ProcOK, OnFloppy, OnRequest
    <3> QED BY <2>4, <3>2, <3>4 DEF OnRequest
  <2> QED BY <2>3, <2>4
<1>2. new \in [Proc -> ProcRec]
  <2>1. new = [p \in Proc |-> new[p]]
    BY DEF WakeSelect
  <2> QED BY <2>1, <1>1
<1>3. \A p \in Proc : new[p].pc \in OnRequest <=> pr[p].pc \in OnRequest
  BY <1>1
<1>4. Held(req, lk, new)
  BY <1>0, <1>1, <1>3, HeldBySame
<1>5. Slotless(req, new)
  <2>1. \A p \in Proc : new[p].pc \in {"gap", "asleep"} => pr[p].pc \in {"gap", "asleep"}
    BY <1>1 DEF OnRequest
  <2> QED BY <2>1, <1>0, <1>1 DEF Slotless
<1>6. Motors(pr, new)
  BY <1>1 DEF Motors
<1> QED BY <1>0, <1>1, <1>2, <1>4, <1>5, <1>6 DEF RequestsOK

\* The hard disk works for the same request.
HdFirstSame == queue[HD] # <<>> => request'[queue[HD][1]].cmd = request[queue[HD][1]].cmd

LEMMA OtherSlots ==
  ASSUME queue \in [Major -> Seq(Slot)], NEW q, NEW req, NEW lk, NEW pr, RequestsOK(With(FD, q), req, lk, pr),
         NEW n \in Nat, NEW up, FdRan(q, req, n, up)
  PROVE  \A r \in Used(request') : request'[r].cmd = req[r].cmd
<1> DEFINE qs == With(FD, q)
<1>0. FD \in Major
  BY DEF Major
<1>1. req \in [Slot -> Rq \cup {Free}] /\ Queued(qs, req) /\ Held(req, lk, pr) /\ qs[FD] = q
  BY <1>0 DEF RequestsOK, With
<1>2. q \in Seq(Slot) /\ Len(q) \in Nat
  BY <1>0, <1>1, QueueFacts
<1>3. PICK gone \in n .. Len(q) : request' = SlotsLeft(q, req, gone)
  BY DEF FdRan
<1>4. gone \in 0 .. Len(q)
  BY <1>2
<1> HIDE DEF qs
<1>5. \A r \in Used(SlotsLeft(q, req, gone)) : SlotsLeft(q, req, gone)[r].cmd = req[r].cmd
  BY <1>0, <1>1, <1>4, LeftSlot
<1> QED BY <1>3, <1>5

LEMMA HdFirstKept ==
  ASSUME Inv, RequestsOK(queue', request', lock', proc'), queue'[HD] = queue[HD], NEW req,
         \A r \in Used(request') : request'[r].cmd = req[r].cmd,
         \A r \in Used(request) : req[r].cmd = request[r].cmd
  PROVE  HdFirstSame
<1> SUFFICES ASSUME queue[HD] # <<>> PROVE request'[queue[HD][1]].cmd = request[queue[HD][1]].cmd
  BY DEF HdFirstSame
<1>0. HD \in Major
  BY DEF Major
<1>1. queue[HD][1] \in Used(request) /\ Len(queue[HD]) \in Nat /\ Len(queue[HD]) >= 1
  BY HdFirst
<1>2. request' \in [Slot -> Rq \cup {Free}] /\ Queued(queue', request') /\ Held(request', lock', proc')
  BY DEF RequestsOK
<1>3. \A i \in 1 .. Len(queue'[HD]) : queue'[HD][i] \in Used(request')
  BY <1>0, <1>2, QueueFacts
<1>4. queue[HD][1] \in Used(request')
  BY <1>1, <1>3
<1> QED BY <1>1, <1>4

\* What the floppy driver keeps in a step from fd.
FdDone ==
  /\ HdFirstSame
  /\ RequestsOK(queue', request', lock', proc')
  /\ FdOK(fd') /\ Running(fd, fd') /\ FdBusy(fd', queue'[FD])
  /\ (\A x \in Major : x # FD => queue'[x] = queue[x]) /\ Motors(proc, proc')

\* The controller's answer was taken: the motors are as before and nothing is
\* under way.
Taken(f) == FdOK(f) /\ f.mon = fd.mon /\ f.overlap = fd.overlap /\ AtRest(f) /\ f.handler = "none" /\ ~f.wild

\* The flags of the driver do not matter for that.
Core(f, g) ==
  /\ FdFn(g) /\ g.drive = f.drive /\ g.dsel = f.dsel /\ g.mon = f.mon /\ g.moff = f.moff
  /\ g.overlap = f.overlap /\ g.timers = f.timers /\ g.hw = f.hw /\ g.handler = f.handler /\ g.wild = f.wild

LEMMA CoreTaken ==
  ASSUME NEW f, NEW g, Taken(f), Core(f, g)
  PROVE  Taken(g)
<1>1. FdOK(g)
  BY FdParts DEF Taken, Core
<1> QED BY <1>1 DEF Taken, Core, AtRest

LEMMA FlagsTaken ==
  ASSUME NEW f, Taken(f), NEW v
  PROVE  /\ Taken([f EXCEPT !.reset = v]) /\ Taken([f EXCEPT !.recal = v]) /\ Taken([f EXCEPT !.wp = v])
         /\ Taken([f EXCEPT !.faults = v]) /\ Taken([f EXCEPT !.selected = v]) /\ Taken([f EXCEPT !.track = v])
<1>0. FdFn(f)
  BY FdParts DEF Taken
<1>1. Core(f, [f EXCEPT !.reset = v])
  BY <1>0 DEF Core, FdFn, Fields
<1>2. Core(f, [f EXCEPT !.recal = v])
  BY <1>0 DEF Core, FdFn, Fields
<1>3. Core(f, [f EXCEPT !.wp = v])
  BY <1>0 DEF Core, FdFn, Fields
<1>4. Core(f, [f EXCEPT !.faults = v])
  BY <1>0 DEF Core, FdFn, Fields
<1>5. Core(f, [f EXCEPT !.selected = v])
  BY <1>0 DEF Core, FdFn, Fields
<1>6. Core(f, [f EXCEPT !.track = v])
  BY <1>0 DEF Core, FdFn, Fields
<1> QED BY <1>1, <1>2, <1>3, <1>4, <1>5, <1>6, CoreTaken

\* The driver goes on with the queue it has: n requests end and the next starts.
LEMMA FdGoesOn ==
  ASSUME Inv, NEW f, Taken(f), NEW req, NEW pr, RequestsOK(queue, req, lock, pr), Motors(proc, pr),
         SameButErrors(req), NEW n \in 0 .. Len(queue[FD]), n <= 1, NEW up \in BOOLEAN,
         FdNext(f, queue[FD], req, lock, pr, n, up),
         n = 1 => \/ up \/ request[queue[FD][1]].errors + 1 > FD_MAX_ERRORS
                  \/ request[queue[FD][1]].cmd = WRITE \/ fd.wp
  PROVE  FdDone /\ Justified
<1>0. FD \in Major
  BY DEF Major
<1>1. queue \in [Major -> Seq(Slot)]
  BY DEF Inv, RequestsOK, Queued
<1>2. With(FD, queue[FD]) = queue
  BY <1>0, <1>1, WithSame
<1>3. RequestsOK(With(FD, queue[FD]), req, lock, pr)
  BY <1>2
<1>4. FdOK(f) /\ AtRest(f) /\ f.mon = fd.mon /\ f.overlap = fd.overlap
  BY DEF Taken
<1>5. FdKept(f, pr) /\ FdRan(queue[FD], req, n, up)
  BY <1>1, <1>3, <1>4, FdNextKeeps
<1>6. n \in 0 .. 1
  <2>1. Len(queue[FD]) \in Nat
    BY <1>0, <1>1, LenProperties
  <2> QED BY <2>1
<1>7. Justified
  BY <1>5, <1>6, FdGivenUp
<1>8. pr \in [Proc -> ProcRec] /\ \A p \in Proc : ProcOK(pr[p])
  BY DEF RequestsOK
<1>9. Motors(pr, proc')
  BY <1>5, <1>8, MotorsLeft DEF FdKept
<1>10. Motors(proc, proc')
  BY <1>9 DEF Motors
<1>11. Running(fd, fd')
  BY <1>4, <1>5 DEF FdKept, Running
<1>12. \A r \in Used(request') : request'[r].cmd = req[r].cmd
  BY <1>1, <1>3, <1>5, <1>6, OtherSlots
<1>13. \A r \in Used(request) : req[r].cmd = request[r].cmd
  BY DEF SameButErrors, Used
<1>14. RequestsOK(queue', request', lock', proc') /\ queue'[HD] = queue[HD]
  BY <1>5 DEF FdKept, Major, HD, FD
<1>15. HdFirstSame
  BY <1>12, <1>13, <1>14, HdFirstKept
<1> QED BY <1>5, <1>7, <1>10, <1>11, <1>15 DEF FdKept, FdDone

LEMMA FdFirst ==
  ASSUME Inv, queue[FD] # <<>>
  PROVE  /\ Head(queue[FD]) = queue[FD][1] /\ Len(queue[FD]) \in Nat /\ Len(queue[FD]) >= 1
         /\ queue[FD][1] \in Used(request) /\ queue[FD][1] \in Slot
         /\ request[queue[FD][1]] \in Rq /\ request[queue[FD][1]].bh \in Buf
         /\ request \in [Slot -> Rq \cup {Free}]
<1>0. FD \in Major
  BY DEF Major
<1>1. request \in [Slot -> Rq \cup {Free}] /\ Queued(queue, request) /\ Held(request, lock, proc)
  BY DEF Inv, RequestsOK
<1>2. /\ queue[FD] \in Seq(Slot) /\ Len(queue[FD]) \in Nat
      /\ \A i \in 1 .. Len(queue[FD]) :
           /\ queue[FD][i] \in Slot /\ queue[FD][i] \in Used(request) /\ request[queue[FD][i]] \in Rq
  BY <1>0, <1>1, QueueFacts
<1>3. Len(queue[FD]) # 0
  BY <1>2, EmptySeq
<1>4. 1 \in 1 .. Len(queue[FD])
  BY <1>2, <1>3
<1>5. Head(queue[FD]) = queue[FD][1]
  BY <1>2
<1>6. request[queue[FD][1]].bh \in Buf
  BY <1>2, <1>4 DEF Rq
<1> QED BY <1>1, <1>2, <1>3, <1>4, <1>5, <1>6

\* bad_flp_intr: a retry, or the end of the request.
LEMMA BadFlpIntr ==
  ASSUME Inv, NEW f, Taken(f), queue[FD] = <<>> => fd.overlap, bad_flp_intr(f)
  PROVE  FdDone /\ Justified
<1> DEFINE q == queue[FD]
           req == [request EXCEPT ![Head(q)].errors = @ + 1]
           n == IF req[Head(q)].errors > FD_MAX_ERRORS THEN 1 ELSE 0
           g == IF n = 1 THEN floppy_deselect(f) ELSE f
           errors == IF Len(q) = n THEN FD_MAX_ERRORS ELSE req[q[n + 1]].errors
           pr == IF n = 1 THEN WakeSelect(proc) ELSE proc
<1>0. RequestsOK(queue, request, lock, proc)
  BY DEF Inv
<1>1. CASE q = <<>>
  <2>1. fd' = [f EXCEPT !.wild = TRUE] /\ UNCHANGED <<lock, uptodate, request, queue, proc>>
    BY <1>1 DEF bad_flp_intr
  <2>2. PICK h : h = [f EXCEPT !.wild = TRUE]
    OBVIOUS
  <2>3. FdOK(f) /\ FdFn(f) /\ f.overlap = fd.overlap /\ f.mon = fd.mon /\ IsSeq(f.hw) /\ f.handler = "none"
        /\ f.handler \in Handlers
    BY FdParts DEF Taken
  <2>4. FdFn(h) /\ Alike(f, h) /\ h.handler = f.handler /\ h.wild = TRUE /\ h.hw = f.hw
    BY <2>2, <2>3 DEF FdFn, Fields, Alike
  <2>5. FdOK(h)
    BY <2>3, <2>4, AlikeOK
  <2>6. h.overlap /\ h.mon = fd.mon
    BY <2>3, <2>4, <1>1 DEF Alike
  <2>7. FdBusy(h, queue[FD]) /\ Running(fd, h)
    BY <2>4, <2>6 DEF FdBusy, Running
  <2>8. FdOK(fd') /\ Running(fd, fd') /\ FdBusy(fd', queue'[FD])
    BY <2>1, <2>2, <2>5, <2>7
  <2>9. RequestsOK(queue', request', lock', proc')
    BY <2>1, <1>0
  <2>10. Justified
    BY <2>1, NobodyEnds
  <2>11. HdFirstSame
    BY <2>1 DEF HdFirstSame
  <2> QED BY <2>1, <2>8, <2>9, <2>10, <2>11 DEF FdDone, Motors
<1>2. CASE q # <<>>
  <2>1. /\ Head(q) = q[1] /\ Len(q) \in Nat /\ Len(q) >= 1 /\ q[1] \in Used(request) /\ q[1] \in Slot
        /\ request \in [Slot -> Rq \cup {Free}]
    BY <1>2, FdFirst
  <2>2. FdNext(bad_flags(g, errors), q, req, lock, pr, n, FALSE)
    BY <1>2 DEF bad_flp_intr
  <2>3. req = [request EXCEPT ![q[1]] = CountError(request[q[1]])]
    BY <2>1 DEF CountError
  <2>4. n \in {0, 1} /\ (n = 1 => req[q[1]].errors > FD_MAX_ERRORS)
    BY <2>1
  <2> HIDE DEF q, req
  <2>5. /\ RequestsOK(queue, req, lock, proc) /\ SameButErrors(req)
        /\ req[q[1]].errors = request[q[1]].errors + 1
    BY <2>1, <2>3, <1>0, ErrorCounted
  <2>6. PICK k : k = errors
    OBVIOUS
  <2>7. pr = proc \/ pr = WakeSelect(proc)
    OBVIOUS
  <2>8. RequestsOK(queue, req, lock, pr) /\ Motors(proc, pr)
    <3>1. CASE pr = proc
      BY <2>5, <3>1 DEF Motors
    <3>2. CASE pr = WakeSelect(proc)
      BY <2>5, <3>2, WakeSelectKeeps
    <3> QED BY <2>7, <3>1, <3>2
  <2>9. Taken(g)
    BY FlagsTaken DEF floppy_deselect
  <2> HIDE DEF g, pr, n, errors
  <2>10. Taken(bad_flags(g, k))
    BY <2>9, FlagsTaken DEF bad_flags
  <2>11. PICK h : h = bad_flags(g, k)
    OBVIOUS
  <2>12. Taken(h) /\ FdNext(h, queue[FD], req, lock, pr, n, FALSE)
    BY <2>2, <2>6, <2>10, <2>11 DEF q
  <2>13. n \in 0 .. Len(queue[FD]) /\ n <= 1
    BY <2>1, <2>4 DEF q
  <2>14. n = 1 => request[queue[FD][1]].errors + 1 > FD_MAX_ERRORS
    BY <2>4, <2>5 DEF q
  <2> QED BY <2>5, <2>8, <2>12, <2>13, <2>14, FdGoesOn
<1> QED BY <1>1, <1>2

\* One request ends after a transfer.
LEMMA FdEnds ==
  ASSUME Inv, queue[FD] # <<>>, NEW f, Taken(f), NEW up \in BOOLEAN,
         FdNext(f, queue[FD], request, lock, WakeSelect(proc), 1, up),
         up \/ request[Head(queue[FD])].cmd = WRITE \/ fd.wp
  PROVE  FdDone /\ Justified
<1>1. /\ Head(queue[FD]) = queue[FD][1] /\ Len(queue[FD]) \in Nat /\ Len(queue[FD]) >= 1
  BY FdFirst
<1>2. PICK n \in 0 .. Len(queue[FD]) : n = 1
  BY <1>1
<1>3. PICK pr : pr = WakeSelect(proc)
  OBVIOUS
<1>4. FdNext(f, queue[FD], request, lock, pr, n, up)
  BY <1>2, <1>3, Zenon
<1>5. RequestsOK(queue, request, lock, proc)
  BY DEF Inv
<1>6. RequestsOK(queue, request, lock, pr) /\ Motors(proc, pr)
  BY <1>3, <1>5, WakeSelectKeeps
<1>7. SameButErrors(request)
  BY DEF SameButErrors
<1>8. n <= 1
  BY <1>2
<1>9. up \/ request[queue[FD][1]].cmd = WRITE \/ fd.wp
  BY <1>1
<1> QED BY <1>4, <1>6, <1>7, <1>8, <1>9, FdGoesOn

LEMMA RwInterrupt ==
  ASSUME Inv, queue[FD] # <<>>, NEW f, Taken(f), f.wp = fd.wp, NEW c, rw_interrupt(f, c)
  PROVE  FdDone /\ Justified
<1> DEFINE q == queue[FD]
           good == c.c = "rw" /\ f.pos[c.drive] = c.track /\ c.spinning /\ c.chosen
           bad == [f EXCEPT !.faults = @ - 1]
           late == [bad EXCEPT !.reset = TRUE]
           pr == WakeSelect(proc)
<1>1. Taken(bad)
  <2>1. PICK v : v = f.faults - 1
    OBVIOUS
  <2>2. bad = [f EXCEPT !.faults = v]
    BY <2>1
  <2> QED BY <2>2, FlagsTaken
<1>2. /\ Taken(floppy_deselect([f EXCEPT !.wp = FALSE]))
      /\ Taken([(IF good THEN bad ELSE f) EXCEPT !.wp = FALSE])
      /\ Taken(floppy_deselect([bad EXCEPT !.wp = TRUE]))
      /\ Taken(late) /\ Taken(floppy_deselect(late))
  <2> HIDE DEF bad, good
  <2>1. PICK h : h = (IF good THEN bad ELSE f)
    OBVIOUS
  <2>2. Taken(h)
    BY <2>1, <1>1
  <2>3. /\ Taken([h EXCEPT !.wp = FALSE]) /\ Taken([f EXCEPT !.wp = FALSE])
        /\ Taken([bad EXCEPT !.wp = TRUE]) /\ Taken(late)
    BY <2>2, <1>1, FlagsTaken
  <2> HIDE DEF late
  <2> QED BY <2>1, <2>3, FlagsTaken DEF floppy_deselect
<1>3. \/ FdNext(floppy_deselect([f EXCEPT !.wp = FALSE]), q, request, lock, pr, 1, TRUE)
      \/ bad_flp_intr([(IF good THEN bad ELSE f) EXCEPT !.wp = FALSE])
      \/ request[Head(q)].cmd = WRITE
         /\ FdNext(floppy_deselect([bad EXCEPT !.wp = TRUE]), q, request, lock, pr, 1, FALSE)
      \/ f.wp /\ FdNext(floppy_deselect(late), q, request, lock, pr, 1, FALSE)
      \/ bad_flp_intr(late)
  BY DEF rw_interrupt
<1> HIDE DEF bad, late, good
<1>4. CASE FdNext(floppy_deselect([f EXCEPT !.wp = FALSE]), q, request, lock, pr, 1, TRUE)
  <2>1. PICK h : h = floppy_deselect([f EXCEPT !.wp = FALSE])
    OBVIOUS
  <2> QED BY <1>2, <1>4, <2>1, FdEnds
<1>5. CASE bad_flp_intr([(IF good THEN bad ELSE f) EXCEPT !.wp = FALSE])
  <2>1. PICK h : h = [(IF good THEN bad ELSE f) EXCEPT !.wp = FALSE]
    OBVIOUS
  <2> QED BY <1>2, <1>5, <2>1, BadFlpIntr
<1>6. CASE request[Head(q)].cmd = WRITE
           /\ FdNext(floppy_deselect([bad EXCEPT !.wp = TRUE]), q, request, lock, pr, 1, FALSE)
  <2>1. PICK h : h = floppy_deselect([bad EXCEPT !.wp = TRUE])
    OBVIOUS
  <2> QED BY <1>2, <1>6, <2>1, FdEnds
<1>7. CASE f.wp /\ FdNext(floppy_deselect(late), q, request, lock, pr, 1, FALSE)
  <2>1. fd.wp
    BY <1>7
  <2> QED BY <1>2, <1>7, <2>1, FdEnds
<1>8. CASE bad_flp_intr(late)
  BY <1>2, <1>8, BadFlpIntr
<1> QED BY <1>3, <1>4, <1>5, <1>6, <1>7, <1>8

LEMMA SeekInterrupt ==
  ASSUME Inv, queue[FD] = <<>> => fd.overlap, NEW f, Taken(f), NEW c, seek_interrupt(f, c)
  PROVE  FdDone /\ Justified
<1> DEFINE q == queue[FD]
           bh == IF q = <<>> THEN <<>> ELSE request[Head(q)].bh
           at == f.pos[c.drive]
           there == c.c = "seek" /\ at = f.seek_track
           g == [f EXCEPT !.track = at, !.wp = (at \div 2) % 2 = 1]
           h == [f EXCEPT !.faults = IF there THEN @ - 1 ELSE @]
<1>0. RequestsOK(queue, request, lock, proc)
  BY DEF Inv
<1>1. \/ /\ fd' \in setup_rw_floppy(g, bh)
         /\ UNCHANGED <<lock, uptodate, request, queue, proc>>
      \/ bad_flp_intr(h)
  BY DEF seek_interrupt
<1>2. Taken(g)
  <2>1. PICK v, w, k : v = at /\ w = ((at \div 2) % 2 = 1) /\ k = [f EXCEPT !.track = v]
    OBVIOUS
  <2>2. g = [k EXCEPT !.wp = w] /\ k = [f EXCEPT !.track = v]
    BY <2>1
  <2> HIDE DEF g
  <2>3. Taken(k)
    BY <2>2, FlagsTaken
  <2> QED BY <2>2, <2>3, FlagsTaken
<1>3. Taken(h)
  <2>1. PICK v : v = (IF there THEN f.faults - 1 ELSE f.faults)
    OBVIOUS
  <2>2. h = [f EXCEPT !.faults = v]
    BY <2>1
  <2> QED BY <2>2, FlagsTaken
<1> HIDE DEF g, h
<1>4. CASE bad_flp_intr(h)
  BY <1>3, <1>4, BadFlpIntr
<1>5. CASE /\ fd' \in setup_rw_floppy(g, bh)
           /\ UNCHANGED <<lock, uptodate, request, queue, proc>>
  <2>1. PICK b : b = bh
    OBVIOUS
  <2>2. FdOK(g) /\ g.mon = fd.mon /\ g.overlap = fd.overlap /\ AtRest(g) /\ g.handler = "none" /\ ~g.wild
    BY <1>2 DEF Taken
  <2>3. Sent(g, fd', b)
    BY <2>1, <2>2, <1>5, SetupRwFloppy
  <2>4. /\ FdOK(fd') /\ fd'.mon = fd.mon /\ fd'.overlap = fd.overlap /\ fd'.timers = g.timers
        /\ fd'.hw # <<>> /\ (g.hw = <<>> => Len(fd'.hw) = 1) /\ fd'.handler # "none"
        /\ (b # <<>> => fd'.wild = g.wild) /\ (fd'.handler = "rw_interrupt" => b # <<>> \/ fd'.wild)
    BY <2>2, <2>3 DEF Sent, Alike
  <2>5. q # <<>> => b # <<>>
    BY <2>1, FdFirst, NoBuffer
  <2>6. q = <<>> => b = <<>>
    BY <2>1
  <2>7. ~fd'.overlap => /\ q # <<>> /\ b # <<>> /\ ~fd'.wild
                        /\ Len(fd'.hw) = 1 /\ fd'.timers = <<>>
    BY <2>2, <2>4, <2>5 DEF AtRest
  <2>8. ~fd'.overlap => Orders(fd') = 1
    <3> SUFFICES ASSUME ~fd'.overlap PROVE Orders(fd') = 1
      OBVIOUS
    <3>1. Len(fd'.timers) = 0
      BY <2>4, <2>7, OrdersLemma, Zenon
    <3> QED BY <2>7, <3>1, FewOrders, Zenon
  <2>9. FdBusy(fd', q)
    BY <2>4, <2>6, <2>7, <2>8, OneOrder
  <2>10. Running(fd, fd')
    BY <2>4 DEF Running
  <2>11. RequestsOK(queue', request', lock', proc') /\ queue' = queue /\ FdBusy(fd', queue'[FD])
    BY <2>9, <1>0, <1>5
  <2>12. Justified
    BY <1>5, NobodyEnds
  <2>13. HdFirstSame
    BY <1>5 DEF HdFirstSame
  <2> QED BY <2>4, <2>10, <2>11, <2>12, <2>13, <1>5 DEF FdDone, Motors
<1> QED BY <1>1, <1>4, <1>5

\* No request ends after a reset or a recalibration.
LEMMA FdRetry ==
  ASSUME Inv, NEW g, Taken(g), FdNext(g, queue[FD], request, lock, proc, 0, FALSE)
  PROVE  FdDone /\ Justified
<1>0. FD \in Major
  BY DEF Major
<1>1. RequestsOK(queue, request, lock, proc) /\ queue \in [Major -> Seq(Slot)]
  BY DEF Inv, RequestsOK, Queued
<1>2. Len(queue[FD]) \in Nat
  BY <1>0, <1>1, LenProperties
<1>3. PICK n \in 0 .. Len(queue[FD]) : n = 0
  BY <1>2
<1>4. FdNext(g, queue[FD], request, lock, proc, n, FALSE)
  BY <1>3, Zenon
<1>5. n <= 1 /\ n # 1
  BY <1>3
<1>6. SameButErrors(request) /\ Motors(proc, proc)
  BY DEF SameButErrors, Motors
<1> QED BY <1>1, <1>4, <1>5, <1>6, FdGoesOn

\* floppy_interrupt takes the answer to the only command.
LEMMA AnswerTaken ==
  ASSUME Inv, fd.hw # <<>>, ~fd.wild, NEW p, NEW f,
         f = [fd EXCEPT !.hw = Tail(fd.hw), !.handler = "none", !.age = 0, !.pos = p]
  PROVE  Taken(f) /\ f.wp = fd.wp
<1>0. FdOK(fd) /\ FdBusy(fd, queue[FD])
  BY DEF Inv
<1>1. /\ FdFn(fd) /\ fd.drive \in Drive /\ fd.dsel \in Drive /\ fd.mon \in [Drive -> Nat] /\ fd.moff \in [Drive -> Nat]
      /\ fd.wild \in BOOLEAN /\ fd.overlap \in BOOLEAN /\ IsSeq(fd.hw) /\ IsSeq(fd.timers)
  BY <1>0, FdParts
<1>2. PICK t : t = Tail(fd.hw)
  OBVIOUS
<1>3. IsSeq(t) /\ Len(t) = Len(fd.hw) - 1 /\ Len(fd.hw) \in Nat /\ Len(fd.hw) > 0
  BY <1>1, <1>2, TailSeq
<1>4. f = [fd EXCEPT !.hw = t, !.handler = "none", !.age = 0, !.pos = p]
  BY <1>2, Zenon
<1>5. /\ FdFn(f) /\ f.drive = fd.drive /\ f.dsel = fd.dsel /\ f.handler = "none" /\ f.mon = fd.mon
      /\ f.moff = fd.moff /\ f.wild = fd.wild /\ f.overlap = fd.overlap /\ f.hw = t /\ f.timers = fd.timers
      /\ f.wp = fd.wp
  BY <1>4, <1>1 DEF FdFn, Fields
<1>6. "none" \in Handlers
  BY DEF Handlers
<1>7. FdOK(f)
  BY <1>1, <1>3, <1>5, <1>6, FdParts
<1>8. ~fd.overlap => t = <<>> /\ fd.timers = <<>>
  <2> SUFFICES ASSUME ~fd.overlap PROVE t = <<>> /\ fd.timers = <<>>
    OBVIOUS
  <2>1. Len(fd.hw) + Len(fd.timers) <= 1
    BY <1>0 DEF FdBusy
  <2>2. Len(fd.timers) \in Nat /\ (fd.timers = <<>> <=> Len(fd.timers) = 0)
    BY <1>0, OrdersLemma
  <2>3. Len(t) = 0 /\ Len(fd.timers) = 0
    <3>1. PICK x \in Nat, y \in Nat : x = Len(fd.hw) /\ y = Len(fd.timers)
      BY <2>2, <1>3
    <3>2. x + y <= 1 /\ x > 0 /\ Len(t) = x - 1
      BY <3>1, <2>1, <1>3, Zenon
    <3>3. x - 1 = 0 /\ y = 0
      BY <3>2
    <3> QED BY <3>1, <3>2, <3>3, Zenon
  <2>4. t \in Seq(Range(t))
    BY <1>3 DEF IsSeq
  <2>5. t = <<>> <=> Len(t) = 0
    BY <2>4, SeqRange
  <2> QED BY <2>2, <2>3, <2>5, Zenon
<1>9. AtRest(f)
  BY <1>5, <1>8, <1>1 DEF AtRest
<1> QED BY <1>5, <1>7, <1>9 DEF Taken

LEMMA RecalInterrupt ==
  ASSUME Inv, NEW f, Taken(f), recal_interrupt(f)
  PROVE  FdDone /\ Justified
<1>1. PICK g \in {[f EXCEPT !.recal = FALSE]} \cup
                 (IF f.faults > 0 THEN {[f EXCEPT !.reset = TRUE, !.faults = @ - 1]} ELSE {}) :
        FdNext(g, queue[FD], request, lock, proc, 0, FALSE)
  BY DEF recal_interrupt
<1>2. CASE g = [f EXCEPT !.recal = FALSE]
  <2>1. Taken(g)
    BY <1>2, FlagsTaken
  <2> QED BY <2>1, <1>1, FdRetry
<1>3. CASE g = [f EXCEPT !.reset = TRUE, !.faults = @ - 1]
  <2>1. PICK v : v = f.faults - 1
    OBVIOUS
  <2>2. PICK h : h = [f EXCEPT !.reset = TRUE]
    OBVIOUS
  <2>3. FdFn(f)
    BY FdParts DEF Taken
  <2>4. g = [h EXCEPT !.faults = v]
    BY <1>3, <2>1, <2>2, <2>3 DEF FdFn, Fields
  <2>5. Taken(h)
    BY <2>2, FlagsTaken
  <2>6. Taken(g)
    BY <2>4, <2>5, FlagsTaken
  <2> QED BY <2>6, <1>1, FdRetry
<1> QED BY <1>1, <1>2, <1>3

LEMMA ResetInterrupt ==
  ASSUME Inv, NEW f, Taken(f), reset_interrupt(f)
  PROVE  FdDone /\ Justified
<1>1. PICK g \in output_byte(f) : FdNext(g, queue[FD], request, lock, proc, 0, FALSE)
  BY DEF reset_interrupt
<1>2. FdOK(g) /\ Alike(f, g) /\ g.hw = f.hw /\ g.handler = f.handler /\ g.wild = f.wild
  BY OutputByte DEF Taken
<1>3. FdFn(g)
  BY <1>2, FdParts
<1>4. Core(f, g)
  BY <1>2, <1>3 DEF Core, Alike
<1>5. Taken(g)
  BY <1>4, CoreTaken
<1> QED BY <1>1, <1>5, FdRetry

LEMMA UnexpectedInterrupt ==
  ASSUME Inv, NEW f, Taken(f), fd.overlap, unexpected_floppy_interrupt(f)
  PROVE  FdDone /\ Justified
<1>1. /\ fd' \in {[f EXCEPT !.recal = TRUE]} \cup
                 (IF f.faults > 0 THEN {[f EXCEPT !.reset = TRUE, !.faults = @ - 1]} ELSE {})
      /\ UNCHANGED <<lock, uptodate, data, request, queue, proc, disk>>
  BY DEF unexpected_floppy_interrupt
<1>2. Taken(fd')
  <2>1. CASE fd' = [f EXCEPT !.recal = TRUE]
    <3>1. PICK g : g = [f EXCEPT !.recal = TRUE]
      OBVIOUS
    <3>2. Taken(g)
      BY <3>1, FlagsTaken
    <3> QED BY <2>1, <3>1, <3>2
  <2>2. CASE fd' = [f EXCEPT !.reset = TRUE, !.faults = @ - 1]
    <3>1. PICK v : v = f.faults - 1
      OBVIOUS
    <3>2. PICK h : h = [f EXCEPT !.reset = TRUE]
      OBVIOUS
    <3>3. PICK g : g = [h EXCEPT !.faults = v]
      OBVIOUS
    <3>4. FdFn(f)
      BY FdParts DEF Taken
    <3>5. fd' = g
      BY <2>2, <3>1, <3>2, <3>3, <3>4 DEF FdFn, Fields
    <3>6. Taken(h)
      BY <3>2, FlagsTaken
    <3>7. Taken(g)
      BY <3>3, <3>6, FlagsTaken
    <3> QED BY <3>5, <3>7
  <2> QED BY <1>1, <2>1, <2>2
<1>3. FdOK(fd') /\ fd'.mon = fd.mon /\ fd'.overlap /\ fd'.handler = "none"
  BY <1>2 DEF Taken
<1>4. FdBusy(fd', queue'[FD]) /\ Running(fd, fd')
  BY <1>3 DEF FdBusy, Running
<1>5. RequestsOK(queue', request', lock', proc')
  BY <1>1 DEF Inv
<1>6. HdFirstSame /\ Justified
  BY <1>1, NobodyEnds DEF HdFirstSame
<1>7. (\A x \in Major : x # FD => queue'[x] = queue[x]) /\ Motors(proc, proc')
  BY <1>1 DEF Motors
<1> QED BY <1>3, <1>4, <1>5, <1>6, <1>7 DEF FdDone

LEMMA FdIntrDone ==
  ASSUME Inv, FdIntr
  PROVE  FdDone /\ Justified
<1> DEFINE c == Head(fd.hw)
           p == IF c.c = "seek" THEN [fd.pos EXCEPT ![c.drive] = c.track] ELSE fd.pos
           f == [fd EXCEPT !.hw = Tail(@), !.handler = "none", !.age = 0,
                           !.pos = IF c.c = "seek" THEN [@ EXCEPT ![c.drive] = c.track] ELSE @]
<1>0. FdOK(fd) /\ FdBusy(fd, queue[FD]) /\ FdFn(fd) /\ fd.handler \in Handlers
  BY FdParts DEF Inv
<1>1. fd.hw # <<>> /\ ~fd.wild
  BY DEF FdIntr
<1>2. Taken(f) /\ f.wp = fd.wp
  <2>1. PICK k : k = p
    OBVIOUS
  <2>2. f = [fd EXCEPT !.hw = Tail(fd.hw), !.handler = "none", !.age = 0, !.pos = k]
    BY <2>1, Zenon
  <2> HIDE DEF f
  <2> QED BY <1>1, <2>2, AnswerTaken
<1>3. /\ fd.handler = "rw_interrupt" => rw_interrupt(f, c)
      /\ fd.handler = "seek_interrupt" => seek_interrupt(f, c)
      /\ fd.handler = "recal_interrupt" => recal_interrupt(f)
      /\ fd.handler = "reset_interrupt" => reset_interrupt(f)
      /\ fd.handler = "none" => unexpected_floppy_interrupt(f)
  <2> SUFFICES ASSUME NEW x, x = fd.handler
               PROVE  /\ x = "rw_interrupt" => rw_interrupt(f, c)
                      /\ x = "seek_interrupt" => seek_interrupt(f, c)
                      /\ x = "recal_interrupt" => recal_interrupt(f)
                      /\ x = "reset_interrupt" => reset_interrupt(f)
                      /\ x = "none" => unexpected_floppy_interrupt(f)
    OBVIOUS
  <2> HIDE DEF f, c
  <2>1. CASE x = "rw_interrupt"
    BY <2>1 DEF FdIntr, f, c
  <2>2. CASE x = "seek_interrupt"
    BY <2>2 DEF FdIntr, f, c
  <2>3. CASE x = "recal_interrupt"
    BY <2>3 DEF FdIntr, f, c
  <2>4. CASE x = "reset_interrupt"
    BY <2>4 DEF FdIntr, f, c
  <2>5. CASE x = "none"
    BY <2>5 DEF FdIntr, f, c
  <2> QED BY <2>1, <2>2, <2>3, <2>4, <2>5
<1> HIDE DEF f, c
<1>4. CASE fd.handler = "rw_interrupt"
  <2>1. queue[FD] # <<>>
    BY <1>0, <1>1, <1>4 DEF FdBusy
  <2> QED BY <2>1, <1>2, <1>3, <1>4, RwInterrupt
<1>5. CASE fd.handler = "seek_interrupt"
  <2>1. queue[FD] = <<>> => fd.overlap
    BY <1>0, <1>1, <1>5 DEF FdBusy
  <2> QED BY <2>1, <1>2, <1>3, <1>5, SeekInterrupt
<1>6. CASE fd.handler = "recal_interrupt"
  BY <1>2, <1>3, <1>6, RecalInterrupt
<1>7. CASE fd.handler = "reset_interrupt"
  BY <1>2, <1>3, <1>7, ResetInterrupt
<1>8. CASE fd.handler = "none"
  <2>1. fd.overlap
    BY <1>0, <1>1, <1>8 DEF FdBusy
  <2> QED BY <2>1, <1>2, <1>3, <1>8, UnexpectedInterrupt
<1> QED BY <1>0, <1>4, <1>5, <1>6, <1>7, <1>8 DEF Handlers

\* The hard disk does not notice what the floppy does.
LEMMA HdBusySame ==
  ASSUME Inv, HdFirstSame, queue'[HD] = queue[HD], UNCHANGED hdvars
  PROVE  HdBusy' /\ HdFlags'
<1>1. HdBusy /\ HdFlags
  BY DEF Inv
<1>2. UNCHANGED <<do_hd, reset, recalibrate, ctl>>
  BY DEF hdvars
<1>3. HdFlags'
  BY <1>1, <1>2 DEF HdFlags
<1>4. ctl'.cmd = "none" <=> queue'[HD] = <<>>
  BY <1>1, <1>2 DEF HdBusy
<1>5. ASSUME queue'[HD] # <<>>
      PROVE  /\ do_hd' # "none"
             /\ do_hd' = "read_intr" => request'[queue'[HD][1]].cmd = READ
             /\ do_hd' = "write_intr" => request'[queue'[HD][1]].cmd = WRITE
  <2>1. request'[queue'[HD][1]].cmd = request[queue[HD][1]].cmd
    BY <1>5 DEF HdFirstSame
  <2> QED BY <2>1, <1>1, <1>2, <1>5 DEF HdBusy
<1> QED BY <1>3, <1>4, <1>5 DEF HdBusy

LEMMA FdInterruptKeeps ==
  ASSUME Inv, FdInterrupt
  PROVE  Inv' /\ Justified
<1>1. FdDone /\ Justified /\ UNCHANGED <<hdvars, load>>
  BY FdIntrDone DEF FdInterrupt
<1>2. /\ RequestsOK(queue', request', lock', proc') /\ FdOK(fd') /\ Running(fd, fd') /\ FdBusy(fd', queue'[FD])
      /\ (\A x \in Major : x # FD => queue'[x] = queue[x]) /\ Motors(proc, proc') /\ HdFirstSame
  BY <1>1 DEF FdDone
<1>3. queue'[RD] = <<>> /\ queue'[HD] = queue[HD]
  BY <1>2 DEF Inv, Major, RD, FD, HD
<1>4. MotorAwaited(fd', proc')
  BY <1>2, SameMotors DEF Inv, RequestsOK, Running
<1>5. HdBusy' /\ HdFlags'
  BY <1>1, <1>2, <1>3, HdBusySame
<1>6. LoadOK'
  BY <1>1 DEF Inv, LoadOK
<1> QED BY <1>1, <1>2, <1>3, <1>4, <1>5, <1>6 DEF Inv

-----------------------------------------------------------------------------
(* add_request.                                                            *)

\* p puts its request for b into the free slot r: the queues with it fit the
\* slots, locks and processes that add_request is called with.
Adding(p, b, r, new, lk, idle) ==
  /\ RequestsOK(With(b.major, NewQueue(queue[b.major], r, new)), new, lk, idle)
  /\ b \in Buf /\ r \in Slot /\ request[r] = Free /\ new[r].bh = b /\ new[r] # Free
  /\ \A s \in Slot : s # r => new[s] = request[s]
  /\ Motors(proc, idle)

LEMMA AddingLemma ==
  ASSUME Inv, NEW b \in Buf, NEW cmd \in {READ, WRITE}, NEW p \in Proc, Owns(lock, proc, p, b),
         NEW r \in Slot, request[r] = Free, NEW new, new = [request EXCEPT ![r] = NewRequest(b, cmd)],
         NEW lk, lk = [lock EXCEPT ![b] = TRUE], NEW idle, idle = [proc EXCEPT ![p] = IdleProc]
  PROVE  Adding(p, b, r, new, lk, idle)
<1>0. RequestsOK(queue, request, lock, proc)
  BY DEF Inv
<1>1. request \in [Slot -> Rq \cup {Free}] /\ proc \in [Proc -> ProcRec]
  BY <1>0 DEF RequestsOK
<1>2. PICK rq : rq = NewRequest(b, cmd)
  OBVIOUS
<1>3. rq.bh = b /\ rq # Free
  BY <1>2, NewRequestType
<1>4. new[r] = rq /\ \A s \in Slot : s # r => new[s] = request[s]
  BY <1>1, <1>2
<1>5. Motors(proc, idle)
  <2>1. IdleProc.pc = "idle"
    BY DEF IdleProc
  <2>2. \A x \in Proc : idle[x] = proc[x] \/ idle[x] = IdleProc
    BY <1>1
  <2> QED BY <2>1, <2>2 DEF Motors
<1>6. RequestsOK(With(b.major, NewQueue(queue[b.major], r, new)), new, lk, idle)
  <2>1. RequestsOK([queue EXCEPT ![b.major] = NewQueue(queue[b.major], r, new)], new,
                   [lock EXCEPT ![b] = TRUE], [proc EXCEPT ![p] = IdleProc])
    BY <1>0, AddSlot
  <2> QED BY <2>1 DEF With
<1> QED BY <1>3, <1>4, <1>5, <1>6 DEF Adding

\* What is to be shown of add_request.
Added ==
  /\ RequestsOK(queue', request', lock', proc') /\ queue'[RD] = <<>>
  /\ HdBusy' /\ HdFlags' /\ FdOK(fd') /\ Running(fd, fd') /\ FdBusy(fd', queue'[FD])
  /\ Motors(proc, proc') /\ Justified

LEMMA FdBusySame ==
  ASSUME NEW f, NEW q, NEW s, FdBusy(f, q), q = <<>> <=> s = <<>>
  PROVE  FdBusy(f, s)
BY Zenon DEF FdBusy

\* The first request of a queue stays the first.
LEMMA EnqueueHead ==
  ASSUME NEW q \in Seq(Slot), q # <<>>, NEW r \in Slot, NEW req
  PROVE  Enqueue(q, r, req) # <<>> /\ Enqueue(q, r, req)[1] = q[1]
<1>1. PICK a \in 1 .. Len(q) : Enqueue(q, r, req) = Behind(q, a, r)
  BY EnqueuePlace
<1>2. PICK s : s = InsertAt(q, a + 1, r)
  OBVIOUS
<1>3. s \in Seq(Slot) /\ Len(s) = Len(q) + 1 /\ PutBehind(s, q, Len(q), r, a)
  BY <1>2, Inserted
<1>4. Len(q) \in Nat /\ Len(q) >= 1 /\ 1 \in 1 .. Len(q) + 1 /\ a \in Nat /\ a >= 1
  BY LenProperties
<1>5. s[1] = q[1]
  BY <1>3, <1>4 DEF PutBehind
<1>6. Len(s) # 0
  BY <1>3, <1>4
<1>7. s # <<>>
  BY <1>6, EmptyLen
<1> QED BY <1>1, <1>2, <1>5, <1>7 DEF Behind

LEMMA AddToQueue ==
  ASSUME Inv, NEW p, NEW b, NEW r, NEW new, NEW lk, NEW idle, Adding(p, b, r, new, lk, idle),
         queue[b.major] # <<>>, queue' = [queue EXCEPT ![b.major] = Enqueue(queue[b.major], r, new)],
         request' = new, lock' = lk, proc' = idle, UNCHANGED <<hdvars, fd>>
  PROVE  Added
<1>0. /\ queue \in [Major -> Seq(Slot)] /\ request \in [Slot -> Rq \cup {Free}] /\ queue[RD] = <<>>
      /\ FdOK(fd) /\ FdBusy(fd, queue[FD])
  BY DEF Inv, RequestsOK, Queued
<1>1. b.major \in Major /\ RD \in Major /\ HD \in Major /\ FD \in Major /\ b.major # RD
  BY <1>0, RequestAssumption DEF Adding, Major
<1>2. PICK m \in Major : m = b.major
  BY <1>1
<1>3. PICK e : e = Enqueue(queue[m], r, new)
  OBVIOUS
<1>4. e # <<>> /\ e[1] = queue[m][1]
  BY <1>0, <1>2, <1>3, EnqueueHead DEF Adding
<1>5. queue' = [queue EXCEPT ![m] = e] /\ queue' = With(m, NewQueue(queue[m], r, new))
  BY <1>2, <1>3 DEF With, NewQueue
<1>6. RequestsOK(queue', request', lock', proc')
  BY <1>2, <1>5 DEF Adding
<1>7. /\ \A x \in Major : queue'[x] = (IF x = m THEN e ELSE queue[x])
      /\ queue[m] # <<>> /\ m # RD
  BY <1>0, <1>1, <1>2, <1>5
<1>8. queue'[RD] = <<>> /\ (queue[FD] = <<>> <=> queue'[FD] = <<>>)
  BY <1>0, <1>1, <1>4, <1>7
<1>9. (queue[HD] = <<>> <=> queue'[HD] = <<>>) /\ (queue[HD] # <<>> => queue'[HD][1] = queue[HD][1])
  BY <1>1, <1>4, <1>7
<1>10. FdBusy(fd', queue'[FD]) /\ FdOK(fd') /\ Running(fd, fd')
  <2>1. FdBusy(fd, queue'[FD])
    BY <1>0, <1>8, FdBusySame
  <2> QED BY <2>1, <1>0 DEF Running
<1>11. \A s \in Slot : request[s] # Free => request'[s] = request[s]
  BY DEF Adding
<1>12. Justified
  <2>1. \A s \in Slot : request[s] # Free => request'[s] # Free
    BY <1>11
  <2> QED BY <2>1, NobodyEnds
<1>13. HdBusy' /\ HdFlags'
  <2>1. HdBusy /\ HdFlags /\ UNCHANGED <<do_hd, reset, recalibrate, ctl>>
    BY DEF Inv, hdvars
  <2>2. HdFlags'
    BY <2>1 DEF HdFlags
  <2>3. queue[HD] # <<>> => request'[queue'[HD][1]] = request[queue[HD][1]]
    BY <1>9, <1>11, HdFirst DEF Used
  <2>4. ctl'.cmd = "none" <=> queue'[HD] = <<>>
    BY <2>1, <1>9 DEF HdBusy
  <2>5. ASSUME queue'[HD] # <<>>
        PROVE  /\ do_hd' # "none"
               /\ do_hd' = "read_intr" => request'[queue'[HD][1]].cmd = READ
               /\ do_hd' = "write_intr" => request'[queue'[HD][1]].cmd = WRITE
    BY <2>1, <2>3, <2>5, <1>9 DEF HdBusy
  <2> QED BY <2>2, <2>4, <2>5 DEF HdBusy
<1>14. Motors(proc, proc')
  BY DEF Adding
<1> QED BY <1>6, <1>8, <1>10, <1>12, <1>13, <1>14 DEF Added

\* The device was idle: only the new request can end at once.
Sole(b, r, new, q) ==
  queue[b.major] = <<>> /\ q = <<r>> /\ \E p, lk, idle : Adding(p, b, r, new, lk, idle)

LEMMA OnlyNewEnds ==
  ASSUME Inv, NEW b, NEW r, NEW new, NEW q, Sole(b, r, new, q), NEW gone \in 0 .. Len(q),
         request' = SlotsLeft(q, new, gone)
  PROVE  /\ Justified /\ \A s \in Used(request') : request'[s].cmd = new[s].cmd
         /\ \A s \in Used(request) : new[s].cmd = request[s].cmd
<1>a. PICK p, lk, idle : Adding(p, b, r, new, lk, idle)
  BY DEF Sole
<1>b. queue[b.major] = <<>> /\ q = <<r>>
  BY DEF Sole
<1>0. queue \in [Major -> Seq(Slot)] /\ b.major \in Major
  BY <1>a, RequestAssumption DEF Inv, RequestsOK, Queued, Adding
<1>1. PICK m \in Major : m = b.major
  BY <1>0
<1>2. PICK qs : qs = With(m, q)
  OBVIOUS
<1>3. NewQueue(queue[m], r, new) = q
  BY <1>1, <1>b DEF NewQueue
<1>4. RequestsOK(qs, new, lk, idle)
  BY <1>a, <1>1, <1>2, <1>3 DEF Adding
<1>5. qs[m] = q
  BY <1>0, <1>2 DEF With
<1>6. new \in [Slot -> Rq \cup {Free}] /\ Queued(qs, new) /\ Held(new, lk, idle)
  BY <1>4 DEF RequestsOK
<1>7. /\ Used(SlotsLeft(q, new, gone)) = Used(new) \ Ended(q, gone)
      /\ \A s \in Used(SlotsLeft(q, new, gone)) : SlotsLeft(q, new, gone)[s].cmd = new[s].cmd
  BY <1>5, <1>6, LeftSlot
<1>8. Ended(q, gone) \subseteq {r}
  <2>1. Len(q) = 1 /\ q[1] = r
    BY <1>b
  <2>2. \A i \in 1 .. gone : i = 1
    BY <2>1
  <2> QED BY <2>1, <2>2 DEF Ended
<1>9. \A s \in Slot : request[s] # Free => s # r /\ new[s] = request[s]
  BY <1>a DEF Adding
<1>10. \A s \in Slot : request[s] # Free => request'[s] # Free
  <2> SUFFICES ASSUME NEW s \in Slot, request[s] # Free PROVE request'[s] # Free
    OBVIOUS
  <2>1. s \in Used(new) /\ s \notin Ended(q, gone)
    BY <1>8, <1>9 DEF Used
  <2>2. s \in Used(SlotsLeft(q, new, gone))
    BY <2>1, <1>7
  <2> QED BY <2>2 DEF Used
<1>11. Justified
  BY <1>10, NobodyEnds
<1>12. \A s \in Used(request') : request'[s].cmd = new[s].cmd
  BY <1>7
<1>13. \A s \in Used(request) : new[s].cmd = request[s].cmd
  BY <1>9 DEF Used
<1> QED BY <1>11, <1>12, <1>13

\* The process that asked, and those that end_request wakes.
LEMMA MotorsAdded ==
  ASSUME NEW qs, NEW req, NEW lk, NEW idle, RequestsOK(qs, req, lk, idle), Motors(proc, idle), NEW k \in Nat,
         proc' = ProcsLeft(idle, k)
  PROVE  Motors(proc, proc')
<1>1. idle \in [Proc -> ProcRec] /\ \A p \in Proc : ProcOK(idle[p])
  BY DEF RequestsOK
<1>2. Motors(idle, ProcsLeft(idle, k))
  BY <1>1, MotorsLeft
<1> QED BY <1>2 DEF Motors

LEMMA StartHd ==
  ASSUME Inv, NEW p, NEW b, NEW r, NEW new, NEW lk, NEW idle, Adding(p, b, r, new, lk, idle),
         b.major = HD, queue[HD] = <<>>, UNCHANGED fd,
         do_hd_request(<<r>>, new, lk, idle, 0, FALSE, reset, do_hd)
  PROVE  Added
<1>0. /\ queue \in [Major -> Seq(Slot)] /\ queue[RD] = <<>> /\ HdFlags /\ reset \in BOOLEAN
      /\ FdOK(fd) /\ FdBusy(fd, queue[FD])
  BY DEF Inv, RequestsOK, Queued, HdFlags
<1>1. PICK q : q = <<r>>
  OBVIOUS
<1>2. RequestsOK(With(HD, q), new, lk, idle)
  BY <1>1 DEF Adding, NewQueue
<1>3. Len(q) = 1
  BY <1>1
<1>4. PICK n \in 0 .. Len(q) : n = 0
  BY <1>3
<1>5. PICK rst \in BOOLEAN : rst = reset
  BY <1>0
<1>5a. PICK h, up : h = do_hd /\ up = FALSE
  OBVIOUS
<1>6. do_hd_request(q, new, lk, idle, n, up, rst, h)
  BY <1>1, <1>4, <1>5, <1>5a, Zenon
<1>7. /\ RequestsOK(queue', request', lock', proc') /\ HdBusy' /\ HdFlags'
      /\ \A x \in Major : x # HD => queue'[x] = queue[x]
      /\ HdRan(q, new, n, up)
      /\ \E k \in Nat : proc' = ProcsLeft(idle, k)
  BY <1>0, <1>2, <1>6, DoHdRequest
<1>8. PICK gone \in n .. Len(q) : request' = SlotsLeft(q, new, gone)
  BY <1>7 DEF HdRan
<1>9. gone \in 0 .. Len(q)
  BY <1>3, <1>4
<1>10. Justified
  <2>1. Sole(b, r, new, q)
    BY <1>1 DEF Sole
  <2> QED BY <2>1, <1>8, <1>9, OnlyNewEnds
<1>11. queue'[RD] = <<>> /\ queue'[FD] = queue[FD]
  BY <1>0, <1>7 DEF Major, RD, FD, HD
<1>12. FdOK(fd') /\ Running(fd, fd') /\ FdBusy(fd', queue'[FD])
  BY <1>0, <1>11 DEF Running
<1>13. Motors(proc, proc')
  BY <1>2, <1>7, MotorsAdded DEF Adding
<1> QED BY <1>7, <1>10, <1>11, <1>12, <1>13 DEF Added

\* A request that comes while a command is under way.
LEMMA Overlapped ==
  ASSUME Inv, queue[FD] = <<>>, NEW f, f = [fd EXCEPT !.overlap = @ \/ fd.hw # <<>>]
  PROVE  FdOK(f) /\ AtRest(f) /\ f.mon = fd.mon
<1>0. FdOK(fd) /\ FdBusy(fd, queue[FD])
  BY DEF Inv
<1>1. /\ FdFn(fd) /\ fd.drive \in Drive /\ fd.dsel \in Drive /\ fd.handler \in Handlers
      /\ fd.mon \in [Drive -> Nat] /\ fd.moff \in [Drive -> Nat]
      /\ fd.wild \in BOOLEAN /\ fd.overlap \in BOOLEAN /\ IsSeq(fd.hw) /\ IsSeq(fd.timers)
  BY <1>0, FdParts
<1>2. PICK v \in BOOLEAN : v = (fd.overlap \/ fd.hw # <<>>)
  BY <1>1
<1>3. f = [fd EXCEPT !.overlap = v]
  BY <1>2, Zenon
<1>4. /\ FdFn(f) /\ f.drive = fd.drive /\ f.dsel = fd.dsel /\ f.handler = fd.handler /\ f.mon = fd.mon
      /\ f.moff = fd.moff /\ f.wild = fd.wild /\ f.overlap = v /\ f.hw = fd.hw /\ f.timers = fd.timers
  BY <1>3, <1>1 DEF FdFn, Fields
<1>5. FdOK(f)
  BY <1>1, <1>4, FdParts
<1>6. fd.handler = "rw_interrupt" => fd.wild
  BY <1>0 DEF FdBusy
<1>7. ~v => fd.hw = <<>> /\ fd.timers = <<>> /\ ~fd.wild
  BY <1>0, <1>2 DEF FdBusy
<1>8. AtRest(f)
  BY <1>4, <1>6, <1>7 DEF AtRest
<1> QED BY <1>4, <1>5, <1>8

LEMMA StartFd ==
  ASSUME Inv, NEW p, NEW b, NEW r, NEW new, NEW lk, NEW idle, Adding(p, b, r, new, lk, idle),
         b.major = FD, queue[FD] = <<>>, UNCHANGED hdvars, NEW f, FdOK(f), AtRest(f), f.mon = fd.mon,
         FdNext(f, <<r>>, new, lk, idle, 0, FALSE)
  PROVE  Added
<1>0. queue \in [Major -> Seq(Slot)] /\ queue[RD] = <<>>
  BY DEF Inv, RequestsOK, Queued
<1>1. PICK q : q = <<r>>
  OBVIOUS
<1>2. RequestsOK(With(FD, q), new, lk, idle)
  BY <1>1 DEF Adding, NewQueue
<1>3. Len(q) = 1
  BY <1>1
<1>4. PICK n \in 0 .. Len(q) : n = 0
  BY <1>3
<1>5. FdNext(f, q, new, lk, idle, n, FALSE)
  BY <1>1, <1>4, Zenon
<1>7. FdKept(f, idle) /\ FdRan(q, new, n, FALSE)
  BY <1>0, <1>2, <1>5, FdNextKeeps
<1>8. PICK gone \in n .. Len(q) : request' = SlotsLeft(q, new, gone)
  BY <1>7 DEF FdRan
<1>9. gone \in 0 .. Len(q)
  BY <1>3, <1>4
<1>10. /\ Justified /\ \A s \in Used(request') : request'[s].cmd = new[s].cmd
       /\ \A s \in Used(request) : new[s].cmd = request[s].cmd
  <2>1. Sole(b, r, new, q)
    BY <1>1 DEF Sole
  <2> QED BY <2>1, <1>8, <1>9, OnlyNewEnds
<1>11. /\ RequestsOK(queue', request', lock', proc') /\ FdOK(fd') /\ Running(f, fd') /\ FdBusy(fd', queue'[FD])
       /\ (\A x \in Major : x # FD => queue'[x] = queue[x])
       /\ \E k \in Nat : proc' = ProcsLeft(idle, k)
  BY <1>7 DEF FdKept
<1>12. queue'[RD] = <<>> /\ queue'[HD] = queue[HD]
  BY <1>0, <1>11 DEF Major, RD, FD, HD
<1>13. HdFirstSame
  BY <1>10, <1>11, <1>12, HdFirstKept
<1>14. HdBusy' /\ HdFlags'
  BY <1>12, <1>13, HdBusySame
<1>15. Running(fd, fd')
  BY <1>11 DEF Running
<1>16. Motors(proc, proc')
  BY <1>2, <1>11, MotorsAdded DEF Adding
<1> QED BY <1>10, <1>11, <1>12, <1>14, <1>15, <1>16 DEF Added

LEMMA RunRd ==
  ASSUME Inv, NEW p, NEW b, NEW r, NEW new, NEW lk, NEW idle, Adding(p, b, r, new, lk, idle),
         b.major = RD, UNCHANGED <<hdvars, fd>>, do_rd_request(r, new, lk, idle)
  PROVE  Added
<1>0. /\ queue \in [Major -> Seq(Slot)] /\ queue[RD] = <<>> /\ RD \in Major
      /\ FdOK(fd) /\ FdBusy(fd, queue[FD])
  BY DEF Inv, RequestsOK, Queued, Major
<1>1. PICK q : q = <<r>>
  OBVIOUS
<1>2. RequestsOK(With(RD, q), new, lk, idle)
  BY <1>0, <1>1 DEF Adding, NewQueue
<1>3. Len(q) = 1
  BY <1>1
<1>4. PICK n \in 0 .. Len(q) : n = 1
  BY <1>3
<1>5. PICK up : end_request(RD, <<r>>, new, lk, idle, 1, up)
  BY DEF do_rd_request
<1>6. end_request(RD, q, new, lk, idle, n, up)
  BY <1>1, <1>4, <1>5, Zenon
<1>7. Leaves(RD, q, new, lk, idle, n, up)
  BY <1>0, <1>2, <1>6, EndRequest
<1>8. PICK s : s = SubSeq(q, n + 1, Len(q))
  OBVIOUS
<1>9. /\ RequestsOK(queue', request', lock', proc') /\ queue' = [queue EXCEPT ![RD] = s]
      /\ request' = SlotsLeft(q, new, n) /\ proc' = ProcsLeft(idle, n)
  BY <1>7, <1>8 DEF Leaves
<1>10. q \in Seq(Slot)
  BY <1>1 DEF Adding
<1>11. s \in Seq(Slot) /\ LeftOf(s, q, n)
  BY <1>8, <1>10, CutOff
<1>12. s = <<>>
  <2>1. Len(s) = 0
    BY <1>3, <1>4, <1>11 DEF LeftOf
  <2> QED BY <2>1, <1>11, EmptySeq
<1>13. queue'[RD] = <<>> /\ queue'[HD] = queue[HD] /\ queue'[FD] = queue[FD]
  BY <1>0, <1>9, <1>12 DEF Major, RD, HD, FD
<1>14. /\ Justified /\ \A x \in Used(request') : request'[x].cmd = new[x].cmd
       /\ \A x \in Used(request) : new[x].cmd = request[x].cmd
  <2>1. Sole(b, r, new, q)
    BY <1>0, <1>1 DEF Sole
  <2> QED BY <2>1, <1>9, OnlyNewEnds
<1>15. HdFirstSame
  BY <1>9, <1>13, <1>14, HdFirstKept
<1>16. HdBusy' /\ HdFlags'
  BY <1>13, <1>15, HdBusySame
<1>17. FdOK(fd') /\ Running(fd, fd') /\ FdBusy(fd', queue'[FD])
  BY <1>0, <1>13 DEF Running
<1>18. Motors(proc, proc')
  <2>1. n \in Nat
    BY <1>4
  <2> QED BY <2>1, <1>2, <1>9, MotorsAdded DEF Adding
<1> QED BY <1>9, <1>13, <1>14, <1>16, <1>17, <1>18 DEF Added

LEMMA AddRequest ==
  ASSUME Inv, NEW p, NEW b, NEW r, NEW new, NEW lk, NEW idle, Adding(p, b, r, new, lk, idle),
         add_request(r, new, lk, idle)
  PROVE  Added
<1>1. new[r].bh = b /\ b.major \in Major
  BY RequestAssumption DEF Adding
<1>2. PICK m \in Major : m = b.major
  BY <1>1
<1>3. CASE queue[m] # <<>>
  <2>1. /\ queue' = [queue EXCEPT ![b.major] = Enqueue(queue[b.major], r, new)]
        /\ request' = new /\ lock' = lk /\ proc' = idle /\ UNCHANGED <<hdvars, fd>>
    BY <1>1, <1>2, <1>3 DEF add_request
  <2> QED BY <2>1, <1>2, <1>3, AddToQueue
<1>4. CASE queue[m] = <<>> /\ m = HD
  <2>1. UNCHANGED fd /\ do_hd_request(<<r>>, new, lk, idle, 0, FALSE, reset, do_hd)
    <3>1. start_hd(r, new, lk, idle)
      BY <1>1, <1>2, <1>4 DEF add_request, HD, FD, RD
    <3> QED BY <3>1 DEF start_hd
  <2> QED BY <2>1, <1>2, <1>4, StartHd
<1>5. CASE queue[m] = <<>> /\ m = FD
  <2>1. /\ FdNext([fd EXCEPT !.overlap = @ \/ fd.hw # <<>>], <<r>>, new, lk, idle, 0, FALSE)
        /\ UNCHANGED hdvars
    <3>1. start_fd(r, new, lk, idle)
      BY <1>1, <1>2, <1>5 DEF add_request, HD, FD, RD
    <3> QED BY <3>1 DEF start_fd
  <2>2. PICK f : f = [fd EXCEPT !.overlap = @ \/ fd.hw # <<>>]
    OBVIOUS
  <2>3. FdNext(f, <<r>>, new, lk, idle, 0, FALSE)
    BY <2>1, <2>2, Zenon
  <2>4. FdOK(f) /\ AtRest(f) /\ f.mon = fd.mon
    BY <2>2, <1>5, Overlapped
  <2>5. b.major = FD /\ queue[FD] = <<>> /\ UNCHANGED hdvars
    BY <1>2, <1>5, <2>1
  <2> QED BY <2>3, <2>4, <2>5, StartFd
<1>6. CASE queue[m] = <<>> /\ m = RD
  <2>1. do_rd_request(r, new, lk, idle) /\ UNCHANGED <<hdvars, fd>>
    BY <1>1, <1>2, <1>6 DEF add_request, HD, FD, RD
  <2> QED BY <2>1, <1>2, <1>6, RunRd
<1> QED BY <1>3, <1>4, <1>5, <1>6 DEF Major

-----------------------------------------------------------------------------
(* Processes.                                                              *)

\* One process goes on, with the lock it had or without one.
LEMMA ProcMoves ==
  ASSUME NEW qs, NEW req, NEW lk, NEW pr, RequestsOK(qs, req, lk, pr), NEW p \in Proc, NEW x \in ProcRec, ProcOK(x),
         x.pc \in OnRequest <=> pr[p].pc \in OnRequest, x.pc \in OnRequest => x.bh = pr[p].bh,
         x.pc \in {"gap", "asleep"} /\ ~x.raced => \E r \in SlotsFor(x.cmd) : req[r] # Free,
         NEW new, new = [pr EXCEPT ![p] = x]
  PROVE  RequestsOK(qs, req, lk, new)
<1>0. /\ req \in [Slot -> Rq \cup {Free}] /\ Queued(qs, req) /\ Held(req, lk, pr)
      /\ Positions(req) /\ Slotless(req, pr) /\ \A m \in Major : Elevator(qs[m], req)
      /\ pr \in [Proc -> ProcRec] /\ \A y \in Proc : ProcOK(pr[y])
  BY DEF RequestsOK
<1>1. new \in [Proc -> ProcRec] /\ new[p] = x /\ \A y \in Proc : y # p => new[y] = pr[y]
  BY <1>0
<1>2. \A y \in Proc : ProcOK(new[y])
  BY <1>0, <1>1
<1>3. \A y \in Proc : /\ new[y].pc \in OnRequest <=> pr[y].pc \in OnRequest
                      /\ new[y].pc \in OnRequest => new[y].bh = pr[y].bh
  BY <1>1
<1>4. Held(req, lk, new)
  BY <1>0, <1>3, HeldBySame
<1>5. Slotless(req, new)
  BY <1>0, <1>1 DEF Slotless
<1> QED BY <1>0, <1>1, <1>2, <1>4, <1>5 DEF RequestsOK

\* A process takes the lock of b, or has it, and waits for a slot.
LEMMA TakeLock ==
  ASSUME NEW qs, NEW req, NEW lk, NEW pr, RequestsOK(qs, req, lk, pr), NEW p \in Proc, NEW b \in Buf, Owns(lk, pr, p, b),
         NEW x \in ProcRec, ProcOK(x), x.pc \in OnRequest, x.bh = b,
         \E r \in SlotsFor(x.cmd) : req[r] # Free,
         NEW lk2, lk2 = [lk EXCEPT ![b] = TRUE], NEW new, new = [pr EXCEPT ![p] = x]
  PROVE  RequestsOK(qs, req, lk2, new)
<1>0. /\ req \in [Slot -> Rq \cup {Free}] /\ Queued(qs, req) /\ Held(req, lk, pr)
      /\ Positions(req) /\ Slotless(req, pr) /\ \A m \in Major : Elevator(qs[m], req)
      /\ pr \in [Proc -> ProcRec] /\ \A y \in Proc : ProcOK(pr[y])
  BY DEF RequestsOK
<1>1. CASE pr[p].pc \in OnRequest
  <2>1. pr[p].bh = b /\ lk[b] /\ lk \in [Buf -> BOOLEAN]
    BY <1>0, <1>1 DEF Owns, Held
  <2>2. lk2 = lk
    BY <2>1
  <2>3. RequestsOK(qs, req, lk, new)
    BY <1>1, <2>1, ProcMoves
  <2> QED BY <2>2, <2>3
<1>2. CASE pr[p].pc \notin OnRequest
  <2>1. ~lk[b] /\ lk \in [Buf -> BOOLEAN]
    BY <1>0, <1>2 DEF Owns, Held
  <2>2. lk2 \in [Buf -> BOOLEAN] /\ lk2[b] /\ \A c \in Buf : c # b => lk2[c] = lk[c]
    BY <2>1
  <2>3. new \in [Proc -> ProcRec] /\ new[p] = x /\ \A y \in Proc : y # p => new[y] = pr[y]
    BY <1>0
  <2>4. \A r \in Used(req) : req[r].bh # b
    BY <1>0, <2>1 DEF Held
  <2>5. \A y \in Proc : pr[y].pc \in OnRequest => y # p /\ pr[y].bh # b /\ pr[y].bh \in Buf
    BY <1>0, <1>2, <2>1 DEF Held, ProcOK
  <2>6. \A r \in Used(req) : req[r].bh \in Buf
    BY <1>0, FreeOrUsed DEF Used, Rq
  <2>7. /\ \A r \in Used(req) : lk2[req[r].bh]
        /\ \A y \in Proc : new[y].pc \in OnRequest => lk2[new[y].bh]
        /\ \A r, s \in Used(req) : req[r].bh = req[s].bh => r = s
    BY <1>0, <2>2, <2>3, <2>4, <2>5, <2>6 DEF Held
  <2>8. /\ \A y, z \in Proc :
             new[y].pc \in OnRequest /\ new[z].pc \in OnRequest /\ new[y].bh = new[z].bh => y = z
        /\ \A r \in Used(req), y \in Proc : new[y].pc \in OnRequest => req[r].bh # new[y].bh
    BY <1>0, <2>3, <2>4, <2>5 DEF Held
  <2>9. \A c \in Buf : lk2[c] => \/ \E r \in Used(req) : req[r].bh = c
                                 \/ \E y \in Proc : new[y].pc \in OnRequest /\ new[y].bh = c
    <3> SUFFICES ASSUME NEW c \in Buf, lk2[c]
                 PROVE  \/ \E r \in Used(req) : req[r].bh = c
                        \/ \E y \in Proc : new[y].pc \in OnRequest /\ new[y].bh = c
      OBVIOUS
    <3>1. CASE c = b
      BY <3>1, <2>3
    <3>2. CASE c # b
      <4>1. lk[c]
        BY <3>2, <2>2
      <4>2. \/ \E r \in Used(req) : req[r].bh = c
            \/ \E y \in Proc : pr[y].pc \in OnRequest /\ pr[y].bh = c
        BY <4>1, <1>0 DEF Held
      <4> QED BY <4>2, <2>3, <2>5
    <3> QED BY <3>1, <3>2
  <2>10. Held(req, lk2, new)
    BY <2>2, <2>7, <2>8, <2>9 DEF Held
  <2>11. Slotless(req, new)
    BY <1>0, <2>3 DEF Slotless
  <2>12. \A y \in Proc : ProcOK(new[y])
    BY <1>0, <2>3
  <2> QED BY <1>0, <2>3, <2>10, <2>11, <2>12 DEF RequestsOK
<1> QED BY <1>1, <1>2

\* A step that leaves the requests, the queues and the hard disk alone.
LEMMA StillAdded ==
  ASSUME Inv, RequestsOK(queue, request, lock', proc'), UNCHANGED <<request, queue, hdvars>>,
         FdOK(fd'), FdBusy(fd', queue[FD]), Running(fd, fd'), Motors(proc, proc')
  PROVE  Added
<1>1. RequestsOK(queue', request', lock', proc') /\ FdBusy(fd', queue'[FD]) /\ queue'[RD] = <<>>
  BY DEF Inv
<1>2. HdFirstSame /\ Justified
  BY NobodyEnds DEF HdFirstSame
<1>3. HdBusy' /\ HdFlags'
  BY <1>2, HdBusySame
<1> QED BY <1>1, <1>2, <1>3 DEF Added

LEMMA IdleType == IdleProc \in ProcRec /\ IdleProc.pc = "idle" /\ ProcOK(IdleProc)
BY DEF IdleProc, ProcRec, ProcOK, OnRequest, OnFloppy, READ, WRITE

\* A process that holds nothing is done.
LEMMA GoesIdle ==
  ASSUME Inv, NEW p \in Proc, proc[p].pc \notin OnRequest, UNCHANGED <<lock, request, queue, hdvars, fd>>,
         proc' = [proc EXCEPT ![p] = IdleProc]
  PROVE  Added
<1>0. /\ RequestsOK(queue, request, lock, proc) /\ FdOK(fd) /\ FdBusy(fd, queue[FD])
      /\ proc \in [Proc -> ProcRec]
  BY DEF Inv, RequestsOK
<1>1. PICK x \in ProcRec : x = IdleProc /\ x.pc = "idle" /\ ProcOK(x)
  BY IdleType
<1>2. "idle" \notin OnRequest /\ "idle" \notin {"gap", "asleep"}
  BY DEF OnRequest
<1>3. PICK new : new = [proc EXCEPT ![p] = x]
  OBVIOUS
<1>4. RequestsOK(queue, request, lock, new)
  BY <1>0, <1>1, <1>2, <1>3, ProcMoves
<1>5. proc' = new
  BY <1>1, <1>3
<1>6. Motors(proc, proc')
  BY <1>0, <1>1, <1>3, <1>5 DEF Motors
<1>7. RequestsOK(queue, request, lock', proc') /\ FdOK(fd') /\ FdBusy(fd', queue[FD]) /\ Running(fd, fd')
  BY <1>0, <1>4, <1>5 DEF Running
<1> QED BY <1>6, <1>7, StillAdded

\* What a process in make_request waits for.
Gap(cmd, b) == [IdleProc EXCEPT !.pc = "gap", !.cmd = cmd, !.bh = b]

LEMMA GapType ==
  ASSUME NEW cmd \in {READ, WRITE}, NEW b \in Buf, NEW x, x = Gap(cmd, b)
  PROVE  x \in ProcRec /\ ProcOK(x) /\ x.pc = "gap" /\ x.bh = b /\ x.cmd = cmd
BY DEF Gap, IdleProc, ProcRec, ProcOK, OnRequest, OnFloppy, READ

LEMMA NoSlot ==
  ASSUME Inv, NEW p \in Proc, NEW b \in Buf, NEW cmd \in {READ, WRITE}, Owns(lock, proc, p, b),
         {r \in SlotsFor(cmd) : request[r] = Free} = {}, UNCHANGED <<request, queue, hdvars, fd>>,
         lock' = [lock EXCEPT ![b] = TRUE], proc' = [proc EXCEPT ![p] = Gap(cmd, b)]
  PROVE  Added
<1>0. /\ RequestsOK(queue, request, lock, proc) /\ FdOK(fd) /\ FdBusy(fd, queue[FD])
      /\ proc \in [Proc -> ProcRec]
  BY DEF Inv, RequestsOK
<1>1. PICK x : x = Gap(cmd, b)
  OBVIOUS
<1>2. x \in ProcRec /\ ProcOK(x) /\ x.pc = "gap" /\ x.bh = b /\ x.cmd = cmd
  BY <1>1, GapType
<1>3. \E r \in SlotsFor(x.cmd) : request[r] # Free
  BY <1>2, SlotsForSlots
<1>4. PICK lk, new : lk = [lock EXCEPT ![b] = TRUE] /\ new = [proc EXCEPT ![p] = x]
  OBVIOUS
<1>5. x.pc \in OnRequest
  BY <1>2 DEF OnRequest
<1>6. RequestsOK(queue, request, lk, new)
  BY <1>0, <1>2, <1>3, <1>4, <1>5, TakeLock
<1>7. lock' = lk /\ proc' = new
  BY <1>1, <1>4
<1>8. Motors(proc, proc')
  BY <1>0, <1>2, <1>4, <1>7 DEF Motors
<1>9. RequestsOK(queue, request, lock', proc') /\ FdOK(fd') /\ FdBusy(fd', queue[FD]) /\ Running(fd, fd')
  BY <1>0, <1>6, <1>7 DEF Running
<1> QED BY <1>8, <1>9, StillAdded

\* From the label repeat in make_request.
LEMMA FindSlot ==
  ASSUME Inv, NEW p \in Proc, NEW b \in Buf, NEW cmd \in {READ, WRITE}, NEW ahead \in BOOLEAN,
         Owns(lock, proc, p, b), ahead => proc[p].pc \notin OnRequest, find_slot(p, cmd, ahead, b)
  PROVE  Added
<1> DEFINE free == {r \in SlotsFor(cmd) : request[r] = Free}
           lk == [lock EXCEPT ![b] = TRUE]
           idle == [proc EXCEPT ![p] = IdleProc]
<1>1. CASE free # {}
  <2>1. free \subseteq Slot
    BY SlotsForSlots
  <2>2. Max(free) \in free
    <3>1. free \subseteq 1 .. NR_REQUEST /\ NR_REQUEST \in Nat
      BY <2>1, RequestAssumption DEF Slot
    <3> HIDE DEF free
    <3>2. free \in SUBSET Nat /\ \A x \in free : x <= NR_REQUEST
      BY <3>1
    <3> QED BY <3>1, <3>2, <1>1, MaxNat
  <2>3. PICK r \in Slot : r = Max(free) /\ request[r] = Free
    BY <2>1, <2>2
  <2>4. PICK new : new = [request EXCEPT ![r] = NewRequest(b, cmd)]
    OBVIOUS
  <2>5. add_request(r, new, lk, idle)
    BY <1>1, <2>3, <2>4 DEF find_slot
  <2> HIDE DEF free
  <2>6. PICK l, i : l = lk /\ i = idle
    OBVIOUS
  <2>7. Adding(p, b, r, new, l, i)
    BY <2>3, <2>4, <2>6, AddingLemma
  <2>8. add_request(r, new, l, i)
    BY <2>5, <2>6, Zenon
  <2> QED BY <2>7, <2>8, AddRequest
<1>2. CASE free = {} /\ ahead
  <2>1. lock' = [lock EXCEPT ![b] = ~ahead] /\ proc' = idle /\ UNCHANGED <<request, queue, hdvars, fd>>
    BY <1>2 DEF find_slot
  <2>2. proc[p].pc \notin OnRequest /\ ~lock[b] /\ lock \in [Buf -> BOOLEAN]
    BY <1>2 DEF Owns, Inv, RequestsOK, Held
  <2>3. lock' = lock
    <3>1. lock' = [lock EXCEPT ![b] = FALSE]
      BY <2>1, <1>2
    <3> QED BY <3>1, <2>2
  <2> QED BY <2>1, <2>2, <2>3, GoesIdle
<1>3. CASE free = {} /\ ~ahead
  <2>1. /\ lock' = [lock EXCEPT ![b] = ~ahead] /\ UNCHANGED <<request, queue, hdvars, fd>>
        /\ proc' = [proc EXCEPT ![p] = [IdleProc EXCEPT !.pc = "gap", !.cmd = cmd, !.bh = b]]
    BY <1>3 DEF find_slot
  <2>2. lock' = [lock EXCEPT ![b] = TRUE] /\ proc' = [proc EXCEPT ![p] = Gap(cmd, b)]
    BY <2>1, <1>3 DEF Gap
  <2> QED BY <2>1, <2>2, <1>3, NoSlot
<1> QED BY <1>1, <1>2, <1>3

LEMMA MakeRequest ==
  ASSUME Inv, NEW p \in Proc, NEW b \in Buf, NEW cmd \in {READ, WRITE}, NEW ahead \in BOOLEAN,
         ~lock[b], proc[p].pc \notin OnRequest, make_request(p, cmd, ahead, b)
  PROVE  Added
<1>1. Owns(lock, proc, p, b)
  BY DEF Owns
<1>2. CASE Needed(cmd, b)
  <2>1. find_slot(p, cmd, ahead, b)
    BY <1>2 DEF make_request
  <2> QED BY <2>1, <1>1, FindSlot
<1>3. CASE ~Needed(cmd, b)
  <2>1. proc' = [proc EXCEPT ![p] = IdleProc] /\ UNCHANGED <<lock, request, queue, hdvars, fd>>
    BY <1>3 DEF make_request
  <2> QED BY <2>1, GoesIdle
<1> QED BY <1>2, <1>3

LEMMA AddedInv ==
  ASSUME Inv, Added, LoadOK'
  PROVE  Inv' /\ Justified
<1>1. /\ RequestsOK(queue', request', lock', proc') /\ queue'[RD] = <<>>
      /\ HdBusy' /\ HdFlags' /\ FdOK(fd') /\ Running(fd, fd') /\ FdBusy(fd', queue'[FD])
      /\ Motors(proc, proc') /\ Justified
  BY DEF Added
<1>2. MotorAwaited(fd', proc')
  BY <1>1, SameMotors DEF Inv, RequestsOK, Running
<1> QED BY <1>1, <1>2 DEF Inv

\* One process goes on to another place, with all else it has.
MayGo(from, to) ==
  /\ to \in OnRequest \cup OnFloppy /\ (to \in OnRequest <=> from \in OnRequest)
  /\ to \in OnFloppy => from \in OnFloppy
  /\ to \in {"gap", "asleep"} => from \in {"gap", "asleep"}
Gone(pr, p, c) == [pr EXCEPT ![p].pc = c]

LEMMA PcMoves ==
  ASSUME Inv, NEW p \in Proc, NEW c, MayGo(proc[p].pc, c), NEW new, new = Gone(proc, p, c)
  PROVE  /\ RequestsOK(queue, request, lock, new)
         /\ new[p].pc = c /\ new[p].nr = proc[p].nr /\ new[p].raced = proc[p].raced
         /\ \A y \in Proc : y # p => new[y] = proc[y]
<1>0. /\ RequestsOK(queue, request, lock, proc) /\ proc \in [Proc -> ProcRec] /\ Slotless(request, proc)
      /\ \A y \in Proc : ProcOK(proc[y])
  BY DEF Inv, RequestsOK
<1>1. PICK x : x = [proc[p] EXCEPT !.pc = c]
  OBVIOUS
<1>2. proc[p] \in ProcRec /\ ProcOK(proc[p])
  BY <1>0
<1>3. /\ x \in ProcRec /\ x.pc = c /\ x.cmd = proc[p].cmd /\ x.bh = proc[p].bh /\ x.nr = proc[p].nr
      /\ x.raced = proc[p].raced
  BY <1>1, <1>2 DEF ProcRec, MayGo
<1>4. new = [proc EXCEPT ![p] = x]
  BY <1>1, <1>0 DEF Gone
<1>5. ProcOK(x)
  <2>1. c = "lock" => FALSE
    BY DEF OnRequest, OnFloppy, MayGo
  <2> QED BY <2>1, <1>2, <1>3 DEF ProcOK, MayGo
<1>6. /\ x.pc \in {"gap", "asleep"} /\ ~x.raced => \E r \in SlotsFor(x.cmd) : request[r] # Free
      /\ x.pc \in OnRequest <=> proc[p].pc \in OnRequest
      /\ x.pc \in OnRequest => x.bh = proc[p].bh
  BY <1>0, <1>3 DEF Slotless, MayGo
<1>7. RequestsOK(queue, request, lock, new)
  BY <1>0, <1>3, <1>4, <1>5, <1>6, ProcMoves
<1>8. new[p] = x /\ \A y \in Proc : y # p => new[y] = proc[y]
  BY <1>0, <1>4
<1> QED BY <1>3, <1>7, <1>8

LEMMA LlRwBlock ==
  ASSUME Inv, NEW p \in Proc, NEW rw \in {READ, WRITE, READA, WRITEA}, NEW b \in load.bufs, ll_rw_block(p, rw, b)
  PROVE  Inv' /\ Justified
<1>0. /\ RequestsOK(queue, request, lock, proc) /\ FdOK(fd) /\ FdBusy(fd, queue[FD])
      /\ proc \in [Proc -> ProcRec] /\ LoadOK /\ lock \in [Buf -> BOOLEAN] /\ b \in Buf
  BY DEF Inv, RequestsOK, Held, LoadOK
<1>1. LoadOK'
  <2>1. load' = load \/ load' = [load EXCEPT !.rw = @ - 1]
    BY DEF ll_rw_block
  <2>2. CASE load' = load
    BY <2>2, <1>0 DEF LoadOK
  <2>3. CASE load' = [load EXCEPT !.rw = @ - 1]
    <3>1. PICK v : v = load.rw - 1
      OBVIOUS
    <3>2. load' = [load EXCEPT !.rw = v]
      BY <2>3, <3>1
    <3>3. "bufs" \in DOMAIN load' /\ load'.bufs = load.bufs
      BY <3>2, <1>0 DEF LoadOK
    <3> QED BY <3>3, <1>0 DEF LoadOK
  <2> QED BY <2>1, <2>2, <2>3
<1>2. PICK cmd \in {READ, WRITE} : cmd = rw % 2
  BY DEF READ, WRITE, READA, WRITEA
<1>3. proc[p].pc = "idle" /\ proc[p].pc \notin OnRequest
  BY DEF ll_rw_block, OnRequest
<1>4. Added
  <2>1. CASE lock[b]
    <3>1. PICK x : x = [IdleProc EXCEPT !.pc = "lock", !.cmd = cmd, !.bh = b]
      OBVIOUS
    <3>2. proc' = [proc EXCEPT ![p] = x] /\ UNCHANGED <<lock, request, queue, hdvars, fd>>
      BY <2>1, <3>1, <1>2 DEF ll_rw_block
    <3>3. x \in ProcRec /\ ProcOK(x) /\ x.pc = "lock"
      BY <3>1, <1>0 DEF IdleProc, ProcRec, ProcOK, OnRequest, OnFloppy
    <3>4. x.pc \notin OnRequest /\ x.pc \notin {"gap", "asleep"}
      BY <3>3 DEF OnRequest
    <3>5. PICK new : new = [proc EXCEPT ![p] = x]
      OBVIOUS
    <3>6. RequestsOK(queue, request, lock, new)
      BY <1>0, <1>3, <3>3, <3>4, <3>5, ProcMoves
    <3>7. Motors(proc, proc')
      BY <1>0, <3>2, <3>3 DEF Motors
    <3>8. RequestsOK(queue, request, lock', proc') /\ FdOK(fd') /\ FdBusy(fd', queue[FD]) /\ Running(fd, fd')
      BY <1>0, <3>2, <3>5, <3>6 DEF Running
    <3> QED BY <3>2, <3>7, <3>8, StillAdded
  <2>2. CASE ~lock[b]
    <3>1. PICK ahead \in BOOLEAN : ahead = (rw \in {READA, WRITEA})
      <4>1. (rw \in {READA, WRITEA}) \in BOOLEAN
        OBVIOUS
      <4> QED BY <4>1, Zenon
    <3>2. make_request(p, cmd, ahead, b)
      BY <2>2, <3>1, <1>2 DEF ll_rw_block
    <3> QED BY <2>2, <3>2, <1>0, <1>3, MakeRequest
  <2> QED BY <2>1, <2>2
<1> QED BY <1>1, <1>4, AddedInv

LEMMA LockBufferKeeps ==
  ASSUME Inv, NEW p \in Proc, LockBuffer(p)
  PROVE  Inv' /\ Justified
<1>1. proc[p].pc = "lock" /\ ~lock[proc[p].bh] /\ make_request(p, proc[p].cmd, FALSE, proc[p].bh) /\ UNCHANGED load
  BY DEF LockBuffer
<1>2. proc[p] \in ProcRec /\ ProcOK(proc[p])
  BY DEF Inv, RequestsOK
<1>3. PICK b \in Buf, cmd \in {READ, WRITE}, ahead \in BOOLEAN : b = proc[p].bh /\ cmd = proc[p].cmd /\ ahead = FALSE
  BY <1>1, <1>2 DEF ProcRec, ProcOK
<1>4. make_request(p, cmd, ahead, b) /\ ~lock[b]
  BY <1>1, <1>3, Zenon
<1>5. proc[p].pc \notin OnRequest
  BY <1>1 DEF OnRequest
<1>6. Added
  BY <1>4, <1>5, MakeRequest
<1>7. LoadOK'
  BY <1>1 DEF Inv, LoadOK
<1> QED BY <1>6, <1>7, AddedInv

LEMMA RescanKeeps ==
  ASSUME Inv, NEW p \in Proc, Rescan(p)
  PROVE  Inv' /\ Justified
<1>1. proc[p].pc = "scan" /\ find_slot(p, proc[p].cmd, FALSE, proc[p].bh) /\ UNCHANGED load
  BY DEF Rescan
<1>2. proc[p] \in ProcRec /\ ProcOK(proc[p])
  BY DEF Inv, RequestsOK
<1>3. proc[p].pc \in OnRequest
  BY <1>1 DEF OnRequest
<1>4. PICK b \in Buf, cmd \in {READ, WRITE}, ahead \in BOOLEAN : b = proc[p].bh /\ cmd = proc[p].cmd /\ ahead = FALSE
  BY <1>2, <1>3 DEF ProcRec, ProcOK
<1>5. find_slot(p, cmd, ahead, b) /\ Owns(lock, proc, p, b)
  <2>1. find_slot(p, cmd, ahead, b)
    BY <1>1, <1>4, Zenon
  <2>2. Owns(lock, proc, p, b)
    BY <1>3, <1>4 DEF Owns
  <2> QED BY <2>1, <2>2
<1>6. ~ahead
  BY <1>4
<1>7. Added
  BY <1>5, <1>6, FindSlot
<1>8. LoadOK'
  BY <1>1 DEF Inv, LoadOK
<1> QED BY <1>7, <1>8, AddedInv

LEMMA SleepOnRequestKeeps ==
  ASSUME Inv, NEW p \in Proc, SleepOnRequest(p)
  PROVE  Inv' /\ Justified
<1>1. /\ proc[p].pc = "gap" /\ proc' = [proc EXCEPT ![p].pc = "asleep"]
      /\ UNCHANGED <<lock, request, queue, hdvars, fd, load>>
  BY DEF SleepOnRequest
<1>2. PICK c, new : c = "asleep" /\ new = Gone(proc, p, c)
  OBVIOUS
<1>3. MayGo(proc[p].pc, c)
  BY <1>1, <1>2 DEF OnRequest, OnFloppy, MayGo
<1>4. /\ RequestsOK(queue, request, lock, new)
      /\ new[p].pc = c /\ new[p].nr = proc[p].nr /\ new[p].raced = proc[p].raced
      /\ \A y \in Proc : y # p => new[y] = proc[y]
  BY <1>2, <1>3, PcMoves
<1>5. proc' = new
  BY <1>1, <1>2 DEF Gone
<1>6. Motors(proc, proc')
  BY <1>2, <1>4, <1>5 DEF Motors
<1>7. RequestsOK(queue, request, lock', proc') /\ FdOK(fd') /\ FdBusy(fd', queue[FD]) /\ Running(fd, fd')
  BY <1>1, <1>4, <1>5 DEF Inv, Running
<1>8. Added
  BY <1>1, <1>6, <1>7, StillAdded
<1>9. LoadOK'
  BY <1>1 DEF Inv, LoadOK
<1> QED BY <1>8, <1>9, AddedInv

LEMMA FloppyChange ==
  ASSUME Inv, NEW p \in Proc, NEW nr \in Drive, floppy_change(p, nr)
  PROVE  Inv' /\ Justified
<1>0. /\ RequestsOK(queue, request, lock, proc) /\ FdOK(fd) /\ FdBusy(fd, queue[FD])
      /\ proc \in [Proc -> ProcRec] /\ LoadOK
  BY DEF Inv, RequestsOK
<1>1. /\ proc[p].pc = "idle" /\ load' = [load EXCEPT !.change = @ - 1]
      /\ proc' = [proc EXCEPT ![p] = [IdleProc EXCEPT !.pc = "on", !.nr = nr]]
      /\ UNCHANGED <<lock, request, queue, hdvars, fd>>
  BY DEF floppy_change
<1>2. LoadOK'
  <2>1. PICK v : v = load.change - 1
    OBVIOUS
  <2>2. load' = [load EXCEPT !.change = v]
    BY <1>1, <2>1
  <2>3. "bufs" \in DOMAIN load' /\ load'.bufs = load.bufs
    BY <2>2, <1>0 DEF LoadOK
  <2> QED BY <2>3, <1>0 DEF LoadOK
<1>3. PICK x : x = [IdleProc EXCEPT !.pc = "on", !.nr = nr]
  OBVIOUS
<1>4. x \in ProcRec /\ ProcOK(x) /\ x.pc = "on"
  BY <1>3, DriveNat DEF IdleProc, ProcRec, ProcOK, OnRequest, OnFloppy, READ, WRITE
<1>5. x.pc \notin OnRequest /\ x.pc \notin {"gap", "asleep"} /\ proc[p].pc \notin OnRequest
  BY <1>1, <1>4 DEF OnRequest
<1>6. PICK new : new = [proc EXCEPT ![p] = x]
  OBVIOUS
<1>7. RequestsOK(queue, request, lock, new)
  BY <1>0, <1>4, <1>5, <1>6, ProcMoves
<1>8. proc' = new
  BY <1>1, <1>3, <1>6
<1>9. Motors(proc, proc')
  BY <1>0, <1>4, <1>6, <1>8 DEF Motors
<1>10. RequestsOK(queue, request, lock', proc') /\ FdOK(fd') /\ FdBusy(fd', queue[FD]) /\ Running(fd, fd')
  BY <1>0, <1>1, <1>7, <1>8 DEF Running
<1>11. Added
  BY <1>1, <1>9, <1>10, StillAdded
<1> QED BY <1>2, <1>11, AddedInv

LEMMA StillInv ==
  ASSUME Inv, RequestsOK(queue, request, lock', proc'), UNCHANGED <<request, queue, hdvars, load>>,
         FdOK(fd'), FdBusy(fd', queue[FD]), MotorAwaited(fd', proc')
  PROVE  Inv' /\ Justified
<1>1. RequestsOK(queue', request', lock', proc') /\ FdBusy(fd', queue'[FD]) /\ queue'[RD] = <<>>
  BY DEF Inv
<1>2. HdFirstSame /\ Justified
  BY NobodyEnds DEF HdFirstSame
<1>3. HdBusy' /\ HdFlags'
  BY <1>2, HdBusySame
<1>4. LoadOK'
  BY DEF Inv, LoadOK
<1> QED BY <1>1, <1>2, <1>3, <1>4 DEF Inv

\* The buffers' contents do not matter.
LEMMA ContentsChange ==
  ASSUME Inv, UNCHANGED <<lock, request, queue, proc, hdvars, fd, load>>
  PROVE  Inv' /\ Justified
<1>1. RequestsOK(queue, request, lock, proc) /\ FdOK(fd) /\ FdBusy(fd, queue[FD]) /\ MotorAwaited(fd, proc)
  BY DEF Inv
<1>2. RequestsOK(queue, request, lock', proc') /\ FdOK(fd') /\ FdBusy(fd', queue[FD]) /\ MotorAwaited(fd', proc')
  BY <1>1
<1> QED BY <1>2, StillInv

\* FdBusy is about what is under way.
LEMMA SameOrders ==
  ASSUME NEW f, NEW g, NEW q, FdBusy(f, q), g.handler = f.handler, g.wild = f.wild, g.overlap = f.overlap,
         g.hw = f.hw, g.timers = f.timers
  PROVE  FdBusy(g, q)
BY Zenon DEF FdBusy

LEMMA FloppyOnKeeps ==
  ASSUME Inv, NEW p \in Proc, FloppyOn(p)
  PROVE  Inv' /\ Justified
<1>0. /\ RequestsOK(queue, request, lock, proc) /\ FdOK(fd) /\ FdBusy(fd, queue[FD]) /\ MotorAwaited(fd, proc)
      /\ \A y \in Proc : ProcOK(proc[y])
  BY DEF Inv, RequestsOK
<1>1. /\ proc[p].pc = "on" /\ fd' = ticks_to_floppy_on(fd, proc[p].nr) /\ UNCHANGED Rest
      /\ Goto(p, IF fd'.mon[proc[p].nr] > 0 THEN "motorgap" ELSE "sel")
  BY DEF FloppyOn
<1>2. proc[p].nr \in Drive
  BY <1>0, <1>1 DEF ProcOK, OnFloppy
<1>3. /\ FdOK(fd') /\ Running(fd, fd') /\ fd'.overlap = fd.overlap /\ fd'.hw = fd.hw /\ fd'.timers = fd.timers
      /\ fd'.handler = fd.handler /\ fd'.wild = fd.wild
  BY <1>0, <1>1, <1>2, TicksToFloppyOn
<1>4. PICK c : c = (IF fd'.mon[proc[p].nr] > 0 THEN "motorgap" ELSE "sel")
  OBVIOUS
<1>5. PICK new : new = Gone(proc, p, c)
  OBVIOUS
<1>6. MayGo(proc[p].pc, c)
  BY <1>1, <1>4 DEF MayGo, OnRequest, OnFloppy
<1>7. /\ RequestsOK(queue, request, lock, new)
      /\ new[p].pc = c /\ new[p].nr = proc[p].nr /\ new[p].raced = proc[p].raced
      /\ \A y \in Proc : y # p => new[y] = proc[y]
  BY <1>5, <1>6, PcMoves
<1>8. proc' = new /\ UNCHANGED <<lock, request, queue, hdvars, load>>
  BY <1>1, <1>4, <1>5 DEF Goto, Gone, Rest
<1>9. FdBusy(fd', queue[FD])
  BY <1>0, <1>3, SameOrders
<1>10. MotorAwaited(fd', new)
  <2> SUFFICES ASSUME NEW y \in Proc, new[y].pc \in {"motorgap", "motor"}, ~new[y].raced
               PROVE  fd'.mon[new[y].nr] > 0
    BY DEF MotorAwaited
  <2>1. CASE y = p
    BY <2>1, <1>4, <1>7
  <2>2. CASE y # p
    <3>1. new[y] = proc[y]
      BY <2>2, <1>7
    <3>2. fd.mon[proc[y].nr] > 0 /\ proc[y].nr \in Drive
      BY <3>1, <1>0 DEF MotorAwaited, ProcOK, OnFloppy
    <3> QED BY <3>1, <3>2, <1>3 DEF Running
  <2> QED BY <2>1, <2>2
<1>11. RequestsOK(queue, request, lock', proc') /\ MotorAwaited(fd', proc')
  BY <1>7, <1>8, <1>10
<1> QED BY <1>3, <1>8, <1>9, <1>11, StillInv

LEMMA SleepOnMotorKeeps ==
  ASSUME Inv, NEW p \in Proc, SleepOnMotor(p)
  PROVE  Inv' /\ Justified
<1>0. FdOK(fd) /\ FdBusy(fd, queue[FD]) /\ MotorAwaited(fd, proc)
  BY DEF Inv
<1>1. proc[p].pc = "motorgap" /\ Goto(p, "motor") /\ UNCHANGED <<Rest, fd>>
  BY DEF SleepOnMotor
<1>2. PICK c, new : c = "motor" /\ new = Gone(proc, p, c)
  OBVIOUS
<1>3. MayGo(proc[p].pc, c)
  BY <1>1, <1>2 DEF MayGo, OnRequest, OnFloppy
<1>4. /\ RequestsOK(queue, request, lock, new)
      /\ new[p].pc = c /\ new[p].nr = proc[p].nr /\ new[p].raced = proc[p].raced
      /\ \A y \in Proc : y # p => new[y] = proc[y]
  BY <1>2, <1>3, PcMoves
<1>5. proc' = new /\ UNCHANGED <<lock, request, queue, hdvars, load, fd>>
  BY <1>1, <1>2 DEF Goto, Gone, Rest
<1>6. MotorAwaited(fd, new)
  <2> SUFFICES ASSUME NEW y \in Proc, new[y].pc \in {"motorgap", "motor"}, ~new[y].raced
               PROVE  fd.mon[new[y].nr] > 0
    BY DEF MotorAwaited
  <2>1. CASE y = p
    BY <2>1, <1>0, <1>1, <1>4 DEF MotorAwaited
  <2>2. CASE y # p
    BY <2>2, <1>0, <1>4 DEF MotorAwaited
  <2> QED BY <2>1, <2>2
<1>7. RequestsOK(queue, request, lock', proc') /\ MotorAwaited(fd', proc') /\ FdOK(fd') /\ FdBusy(fd', queue[FD])
  BY <1>0, <1>4, <1>5, <1>6
<1> QED BY <1>5, <1>7, StillInv

LEMMA FloppySelectKeeps ==
  ASSUME Inv, NEW p \in Proc, FloppySelect(p)
  PROVE  Inv' /\ Justified
<1>0. /\ FdOK(fd) /\ FdBusy(fd, queue[FD]) /\ RequestsOK(queue, request, lock, proc)
      /\ proc \in [Proc -> ProcRec]
  BY DEF Inv, RequestsOK
<1>1. proc[p].pc = "sel" /\ UNCHANGED <<lock, request, queue, hdvars, load>>
  BY DEF FloppySelect, Rest
<1>2. \/ \E c \in {"selgap", "on"} : Goto(p, c) /\ UNCHANGED fd
      \/ proc' = [proc EXCEPT ![p] = IdleProc] /\ fd' = floppy_off(fd, proc[p].nr)
  BY DEF FloppySelect
<1>3. LoadOK'
  BY <1>1 DEF Inv, LoadOK
<1>4. ASSUME NEW c \in {"selgap", "on"}, Goto(p, c), UNCHANGED fd
      PROVE  Added
  <2>1. PICK new : new = Gone(proc, p, c)
    OBVIOUS
  <2>2. MayGo(proc[p].pc, c)
    BY <1>1 DEF MayGo, OnRequest, OnFloppy
  <2>3. /\ RequestsOK(queue, request, lock, new)
        /\ new[p].pc = c /\ new[p].nr = proc[p].nr /\ new[p].raced = proc[p].raced
        /\ \A y \in Proc : y # p => new[y] = proc[y]
    BY <2>1, <2>2, PcMoves
  <2>4. proc' = new
    BY <1>4, <2>1 DEF Goto, Gone
  <2>5. Motors(proc, proc')
    BY <2>3, <2>4 DEF Motors
  <2>6. RequestsOK(queue, request, lock', proc') /\ FdOK(fd') /\ FdBusy(fd', queue[FD]) /\ Running(fd, fd')
    BY <1>0, <1>1, <1>4, <2>3, <2>4 DEF Running
  <2> QED BY <1>1, <2>5, <2>6, StillAdded
<1>5. ASSUME proc' = [proc EXCEPT ![p] = IdleProc], fd' = floppy_off(fd, proc[p].nr)
      PROVE  Added
  <2>1. PICK x \in ProcRec : x = IdleProc /\ x.pc = "idle" /\ ProcOK(x)
    BY IdleType
  <2>2. x.pc \notin OnRequest /\ x.pc \notin {"gap", "asleep"} /\ proc[p].pc \notin OnRequest
    BY <1>1, <2>1 DEF OnRequest
  <2>3. PICK new : new = [proc EXCEPT ![p] = x]
    OBVIOUS
  <2>4. RequestsOK(queue, request, lock, new)
    BY <1>0, <2>1, <2>2, <2>3, ProcMoves
  <2>5. proc' = new
    BY <1>5, <2>1, <2>3
  <2>6. Motors(proc, proc')
    BY <1>0, <2>1, <2>3, <2>5 DEF Motors
  <2>7. /\ FdOK(fd') /\ fd'.mon = fd.mon /\ fd'.overlap = fd.overlap /\ fd'.hw = fd.hw /\ fd'.timers = fd.timers
        /\ fd'.handler = fd.handler /\ fd'.wild = fd.wild
    BY <1>0, <1>5, FloppyOff
  <2>8. FdBusy(fd', queue[FD]) /\ Running(fd, fd')
    BY <1>0, <2>7, SameOrders DEF Running
  <2>9. RequestsOK(queue, request, lock', proc')
    BY <1>1, <2>4, <2>5
  <2> QED BY <1>1, <2>6, <2>7, <2>8, <2>9, StillAdded
<1>6. Added
  BY <1>2, <1>4, <1>5
<1> QED BY <1>3, <1>6, AddedInv

-----------------------------------------------------------------------------
(* do_timer.                                                               *)

\* The motors: nothing but their counters changes.
LEMMA SleepOnSelectKeeps ==
  ASSUME Inv, NEW p \in Proc, SleepOnSelect(p)
  PROVE  Inv' /\ Justified
<1>0. FdOK(fd) /\ FdBusy(fd, queue[FD])
  BY DEF Inv
<1>1. proc[p].pc = "selgap" /\ Goto(p, "select") /\ UNCHANGED <<Rest, fd>>
  BY DEF SleepOnSelect
<1>2. PICK c, new : c = "select" /\ new = Gone(proc, p, c)
  OBVIOUS
<1>3. MayGo(proc[p].pc, c)
  BY <1>1, <1>2 DEF MayGo, OnRequest, OnFloppy
<1>4. /\ RequestsOK(queue, request, lock, new) /\ new[p].pc = c
      /\ \A y \in Proc : y # p => new[y] = proc[y]
  BY <1>2, <1>3, PcMoves
<1>5. proc' = new /\ UNCHANGED <<lock, request, queue, hdvars, load, fd>>
  BY <1>1, <1>2 DEF Goto, Gone, Rest
<1>6. MotorAwaited(fd, proc)
  BY DEF Inv
<1>7. MotorAwaited(fd, new)
  BY <1>2, <1>4, <1>6 DEF MotorAwaited
<1>8. RequestsOK(queue, request, lock', proc') /\ MotorAwaited(fd', proc') /\ FdOK(fd') /\ FdBusy(fd', queue[FD])
  BY <1>0, <1>4, <1>5, <1>7
<1> QED BY <1>5, <1>8, StillInv

LEMMA FloppyTimer ==
  ASSUME NEW f, FdOK(f), NEW g, g = do_floppy_timer(f)
  PROVE  /\ FdOK(g) /\ g.overlap = f.overlap /\ g.hw = f.hw /\ g.timers = f.timers
         /\ g.handler = f.handler /\ g.wild = f.wild
         /\ \A d \in Drive : g.mon[d] \in Nat /\ f.mon[d] \in Nat /\ (g.mon[d] = f.mon[d] \/ g.mon[d] = f.mon[d] - 1)
<1>1. /\ FdFn(f) /\ f.wild \in BOOLEAN /\ IsSeq(f.hw) /\ IsSeq(f.timers) /\ f.drive \in Drive /\ f.dsel \in Drive
      /\ f.handler \in Handlers /\ f.mon \in [Drive -> Nat] /\ f.moff \in [Drive -> Nat] /\ f.overlap \in BOOLEAN
  BY FdParts
<1>2. PICK m, o, s :
        /\ m = [d \in Drive |-> IF d \in f.motor /\ f.mon[d] > 0 THEN f.mon[d] - 1 ELSE f.mon[d]]
        /\ o = [d \in Drive |-> IF d \in f.motor /\ f.mon[d] = 0 /\ f.moff[d] > 0 THEN f.moff[d] - 1 ELSE f.moff[d]]
        /\ s = {d \in f.motor : f.mon[d] > 0 \/ f.moff[d] > 0}
  OBVIOUS
<1>3. g = [f EXCEPT !.mon = m, !.moff = o, !.motor = s]
  BY <1>1, <1>2 DEF do_floppy_timer, FdFn, Fields
<1>4. /\ FdFn(g) /\ g.drive = f.drive /\ g.dsel = f.dsel /\ g.handler = f.handler /\ g.mon = m
      /\ g.moff = o /\ g.wild = f.wild /\ g.overlap = f.overlap /\ g.hw = f.hw /\ g.timers = f.timers
  BY <1>3, <1>1 DEF FdFn, Fields
<1>5. m \in [Drive -> Nat] /\ o \in [Drive -> Nat]
  BY <1>1, <1>2
<1>6. \A d \in Drive : m[d] = f.mon[d] \/ m[d] = f.mon[d] - 1
  BY <1>2
<1>7. FdOK(g)
  BY <1>1, <1>4, <1>5, FdParts
<1> QED BY <1>1, <1>4, <1>5, <1>6, <1>7

\* wake_up(i+wait_motor).
LEMMA WakeMotorKeeps ==
  ASSUME NEW qs, NEW req, NEW lk, NEW pr, RequestsOK(qs, req, lk, pr), NEW up, NEW new, new = WakeMotor(pr, up)
  PROVE  /\ RequestsOK(qs, req, lk, new)
         /\ \A p \in Proc : new[p].pc \in {"motorgap", "motor"} /\ ~new[p].raced => new[p] = pr[p] /\ pr[p].nr \notin up
<1>0. /\ req \in [Slot -> Rq \cup {Free}] /\ Queued(qs, req) /\ Held(req, lk, pr)
      /\ Positions(req) /\ Slotless(req, pr) /\ \A m \in Major : Elevator(qs[m], req)
      /\ pr \in [Proc -> ProcRec] /\ \A p \in Proc : ProcOK(pr[p])
  BY DEF RequestsOK
<1>1. ASSUME NEW p \in Proc
      PROVE  /\ new[p] \in ProcRec /\ ProcOK(new[p])
             /\ new[p] = pr[p] \/ (new[p].pc \notin OnRequest /\ pr[p].pc \notin OnRequest)
             /\ new[p].pc \in {"motorgap", "motor"} /\ ~new[p].raced => new[p] = pr[p] /\ pr[p].nr \notin up
  <2>1. new[p] = (CASE pr[p].pc = "motor" /\ pr[p].nr \in up -> [pr[p] EXCEPT !.pc = "on", !.raced = FALSE]
                    [] pr[p].pc = "motorgap" /\ pr[p].nr \in up -> [pr[p] EXCEPT !.raced = TRUE]
                    [] OTHER -> pr[p])
    BY DEF WakeMotor
  <2>2. pr[p] \in ProcRec /\ ProcOK(pr[p])
    BY <1>0
  <2>3. CASE pr[p].pc = "motor" /\ pr[p].nr \in up
    <3>1. new[p] = [pr[p] EXCEPT !.pc = "on", !.raced = FALSE]
      BY <2>1, <2>3
    <3>2. new[p] \in ProcRec /\ new[p].pc = "on" /\ new[p].nr = pr[p].nr
      BY <3>1, <2>2 DEF ProcRec, OnFloppy
    <3>3. pr[p].nr \in Drive
      BY <2>2, <2>3 DEF ProcOK, OnFloppy
    <3>4. ProcOK(new[p])
      BY <3>2, <3>3 DEF ProcOK, OnFloppy, OnRequest
    <3> QED BY <2>3, <3>2, <3>4 DEF OnRequest
  <2>4. CASE pr[p].pc = "motorgap" /\ pr[p].nr \in up
    <3>1. new[p] = [pr[p] EXCEPT !.raced = TRUE]
      BY <2>1, <2>4
    <3>2. new[p] \in ProcRec /\ new[p].pc = "motorgap" /\ new[p].nr = pr[p].nr /\ new[p].raced = TRUE
      BY <3>1, <2>2, <2>4 DEF ProcRec, OnFloppy
    <3>3. pr[p].nr \in Drive
      BY <2>2, <2>4 DEF ProcOK, OnFloppy
    <3>4. ProcOK(new[p])
      BY <3>2, <3>3 DEF ProcOK, OnFloppy, OnRequest
    <3> QED BY <2>4, <3>2, <3>4 DEF OnRequest
  <2>5. CASE ~(pr[p].pc = "motor" /\ pr[p].nr \in up) /\ ~(pr[p].pc = "motorgap" /\ pr[p].nr \in up)
    <3>1. new[p] = pr[p]
      BY <2>1, <2>5
    <3> QED BY <2>2, <2>5, <3>1
  <2> QED BY <2>3, <2>4, <2>5
<1>2. new \in [Proc -> ProcRec]
  <2>1. new = [p \in Proc |-> new[p]]
    BY DEF WakeMotor
  <2> QED BY <2>1, <1>1
<1>3. \A p \in Proc : /\ new[p].pc \in OnRequest <=> pr[p].pc \in OnRequest
                      /\ new[p].pc \in OnRequest => new[p].bh = pr[p].bh
  BY <1>1
<1>4. Held(req, lk, new)
  BY <1>0, <1>3, HeldBySame
<1>5. Slotless(req, new)
  <2>1. \A p \in Proc : new[p].pc \in {"gap", "asleep"} => new[p] = pr[p]
    BY <1>1 DEF OnRequest
  <2> QED BY <2>1, <1>0 DEF Slotless
<1> QED BY <1>0, <1>1, <1>2, <1>4, <1>5 DEF RequestsOK

\* The timer list after a tick.
Ticked(f, age) ==
  LET list == CountDown(f.timers)
  IN [f EXCEPT !.timers = IF Expired(list) THEN Tail(list) ELSE list, !.age = age]

LEMMA TickedKeeps ==
  ASSUME NEW f, FdOK(f), NEW age, NEW g, g = Ticked(f, age)
  PROVE  /\ FdOK(g) /\ g.mon = f.mon /\ g.overlap = f.overlap /\ g.hw = f.hw
         /\ g.handler = f.handler /\ g.wild = f.wild
         /\ IF Expired(CountDown(f.timers)) THEN Len(g.timers) = Len(f.timers) - 1 /\ f.timers # <<>>
            ELSE Len(g.timers) = Len(f.timers)
<1>1. /\ FdFn(f) /\ f.wild \in BOOLEAN /\ IsSeq(f.hw) /\ IsSeq(f.timers) /\ f.drive \in Drive /\ f.dsel \in Drive
      /\ f.handler \in Handlers /\ f.mon \in [Drive -> Nat] /\ f.moff \in [Drive -> Nat] /\ f.overlap \in BOOLEAN
  BY FdParts
<1>2. PICK list : list = CountDown(f.timers)
  OBVIOUS
<1>3. IsSeq(list) /\ Len(list) = Len(f.timers) /\ (list = <<>> <=> f.timers = <<>>)
  BY <1>1, <1>2, CountDownSeq
<1>4. PICK l : l = (IF Expired(list) THEN Tail(list) ELSE list)
  OBVIOUS
<1>5. Expired(list) => list # <<>>
  BY DEF Expired
<1>6. IsSeq(l) /\ (IF Expired(list) THEN Len(l) = Len(f.timers) - 1 /\ f.timers # <<>> ELSE Len(l) = Len(f.timers))
  BY <1>3, <1>4, <1>5, TailSeq
<1>7. g = [f EXCEPT !.timers = l, !.age = age]
  BY <1>2, <1>4 DEF Ticked
<1>8. /\ FdFn(g) /\ g.drive = f.drive /\ g.dsel = f.dsel /\ g.handler = f.handler /\ g.mon = f.mon
      /\ g.moff = f.moff /\ g.wild = f.wild /\ g.overlap = f.overlap /\ g.hw = f.hw /\ g.timers = l
  BY <1>7, <1>1 DEF FdFn, Fields
<1>9. FdOK(g)
  BY <1>1, <1>6, <1>8, FdParts
<1> QED BY <1>2, <1>6, <1>8, <1>9

LEMMA SentUnderWay ==
  ASSUME NEW f, FdOK(f), NEW g, NEW bh, Sent(f, g, bh)
  PROVE  FdOK(g) /\ g.mon = f.mon /\ g.overlap = f.overlap /\ UnderWay(f, g, bh)
<1>1. /\ FdOK(g) /\ g.mon = f.mon /\ g.overlap = f.overlap /\ g.timers = f.timers
      /\ g.hw # <<>> /\ (f.hw = <<>> => Len(g.hw) = 1) /\ g.handler # "none"
      /\ (bh # <<>> => g.wild = f.wild) /\ (g.handler = "rw_interrupt" => bh # <<>> \/ g.wild)
  BY DEF Sent, Alike
<1>2. f.hw = <<>> /\ f.timers = <<>> => Orders(g) = 1
  <2> SUFFICES ASSUME f.hw = <<>>, f.timers = <<>> PROVE Orders(g) = 1
    OBVIOUS
  <2>1. Len(g.hw) = 1 /\ Len(g.timers) = 0
    BY <1>1, EmptyLen, Zenon
  <2> QED BY <2>1, FewOrders, Zenon
<1>3. f.hw = <<>> /\ f.timers = <<>> => Len(g.hw) + Len(g.timers) = 1
  BY <1>2 DEF Orders
<1> QED BY <1>1, <1>3 DEF UnderWay

\* Nothing went off: as many timers as before.
LEMMA OrdersStay ==
  ASSUME NEW f, NEW g, NEW q, FdOK(f), FdOK(g), FdBusy(f, q), g.handler = f.handler, g.wild = f.wild,
         g.overlap = f.overlap, g.hw = f.hw, Len(g.timers) = Len(f.timers)
  PROVE  FdBusy(g, q)
<1>1. f.timers = <<>> <=> g.timers = <<>>
  <2>1. f.timers = <<>> <=> Len(f.timers) = 0
    BY OrdersLemma
  <2>2. g.timers = <<>> <=> Len(g.timers) = 0
    BY OrdersLemma
  <2> QED BY <2>1, <2>2, Zenon
<1> QED BY <1>1, Zenon DEF FdBusy

\* The first timer went off, and its function gave g from f.
LEMMA TimerWentOff ==
  ASSUME Inv, NEW f, FdOK(f), f.overlap = fd.overlap, f.hw = fd.hw, f.handler = fd.handler, f.wild = fd.wild,
         fd.timers # <<>>, Len(f.timers) = Len(fd.timers) - 1, NEW bh, bh # <<>> <=> queue[FD] # <<>>,
         NEW g, FdOK(g), g.overlap = f.overlap, UnderWay(f, g, bh)
  PROVE  FdBusy(g, queue[FD])
<1>0. FdOK(fd) /\ FdBusy(fd, queue[FD])
  BY DEF Inv
<1>1. g.handler = "rw_interrupt" /\ ~g.wild => queue[FD] # <<>>
  BY <1>0 DEF UnderWay, FdBusy
<1>2. ~fd.overlap => /\ queue[FD] # <<>> /\ bh # <<>> /\ ~g.wild /\ Orders(g) = 1
                     /\ (g.hw # <<>> => g.handler # "none")
  <2> SUFFICES ASSUME ~fd.overlap
               PROVE  /\ queue[FD] # <<>> /\ bh # <<>> /\ ~g.wild /\ Orders(g) = 1
                      /\ (g.hw # <<>> => g.handler # "none")
    OBVIOUS
  <2>1. queue[FD] # <<>> /\ ~fd.wild /\ Len(fd.hw) + Len(fd.timers) <= 1
    BY <1>0 DEF FdBusy
  <2>2. /\ Len(fd.hw) \in Nat /\ Len(fd.timers) \in Nat /\ (fd.hw = <<>> <=> Len(fd.hw) = 0)
        /\ (fd.timers = <<>> <=> Len(fd.timers) = 0)
    BY <1>0, OrdersLemma
  <2>3. PICK x \in Nat, y \in Nat : x = Len(fd.hw) /\ y = Len(fd.timers)
    BY <2>2
  <2>4. x + y <= 1 /\ y # 0 /\ Len(f.timers) = y - 1
    BY <2>1, <2>2, <2>3, Zenon
  <2>5. x = 0 /\ y - 1 = 0
    BY <2>4
  <2>6. fd.hw = <<>> /\ Len(f.timers) = 0
    BY <2>2, <2>3, <2>4, <2>5, Zenon
  <2>7. f.timers = <<>>
    BY <2>6, OrdersLemma, Zenon
  <2>8. f.hw = <<>> /\ ~f.wild
    BY <2>1, <2>6
  <2> QED BY <2>1, <2>7, <2>8 DEF UnderWay, Orders
<1> QED BY <1>1, <1>2, OneOrder

LEMMA DoTimerFd ==
  ASSUME Inv, do_timer
  PROVE  /\ FdOK(fd') /\ FdBusy(fd', queue[FD])
         /\ \A d \in Drive : /\ fd'.mon[d] \in Nat /\ fd.mon[d] \in Nat
                             /\ fd'.mon[d] = fd.mon[d] \/ fd'.mon[d] = fd.mon[d] - 1
<1> DEFINE list == CountDown(fd.timers)
           bh == IF queue[FD] = <<>> THEN <<>> ELSE request[Head(queue[FD])].bh
           age == IF fd.hw = <<>> THEN 0 ELSE 1
           f == Ticked(fd, age)
<1>0. FdOK(fd) /\ FdBusy(fd, queue[FD])
  BY DEF Inv
<1>1. PICK g \in (IF ~Expired(list) THEN {f}
                  ELSE IF list[1].fn = "transfer" THEN transfer(f, bh)
                  ELSE floppy_on_interrupt(f, bh)) : fd' = do_floppy_timer(g)
  BY DEF do_timer, Ticked
<1>2. bh # <<>> <=> queue[FD] # <<>>
  BY FdFirst, NoBuffer
<1>3. PICK b : b = bh
  OBVIOUS
<1>4. /\ FdOK(f) /\ f.mon = fd.mon /\ f.overlap = fd.overlap /\ f.hw = fd.hw
      /\ f.handler = fd.handler /\ f.wild = fd.wild
      /\ IF Expired(list) THEN Len(f.timers) = Len(fd.timers) - 1 /\ fd.timers # <<>>
         ELSE Len(f.timers) = Len(fd.timers)
  BY <1>0, TickedKeeps
<1> HIDE DEF f, bh, age, list
<1>5. FdOK(g) /\ g.mon = fd.mon /\ FdBusy(g, queue[FD])
  <2>1. CASE ~Expired(list)
    <3>1. g = f
      BY <1>1, <2>1
    <3>2. FdBusy(f, queue[FD])
      BY <1>0, <1>4, <2>1, OrdersStay
    <3> QED BY <1>4, <3>1, <3>2
  <2>2. CASE Expired(list)
    <3>1. FdOK(g) /\ g.mon = f.mon /\ g.overlap = f.overlap /\ UnderWay(f, g, b)
      <4>1. CASE list[1].fn = "transfer"
        <5>1. g \in transfer(f, b)
          BY <1>1, <1>3, <2>2, <4>1
        <5>2. Sent(f, g, b)
          BY <1>4, <5>1, Transfer
        <5> QED BY <1>4, <5>2, SentUnderWay
      <4>2. CASE list[1].fn # "transfer"
        <5>1. g \in floppy_on_interrupt(f, b)
          BY <1>1, <1>3, <2>2, <4>2
        <5> QED BY <1>4, <5>1, OnInterrupt
      <4> QED BY <4>1, <4>2
    <3>2. Len(f.timers) = Len(fd.timers) - 1 /\ fd.timers # <<>>
      BY <1>4, <2>2
    <3>3. b # <<>> <=> queue[FD] # <<>>
      BY <1>2, <1>3
    <3>4. FdBusy(g, queue[FD])
      BY <1>4, <3>1, <3>2, <3>3, TimerWentOff
    <3> QED BY <1>4, <3>1, <3>4
  <2> QED BY <2>1, <2>2
<1>6. /\ FdOK(fd') /\ fd'.overlap = g.overlap /\ fd'.hw = g.hw /\ fd'.timers = g.timers
      /\ fd'.handler = g.handler /\ fd'.wild = g.wild
      /\ \A d \in Drive : /\ fd'.mon[d] \in Nat /\ g.mon[d] \in Nat
                          /\ fd'.mon[d] = g.mon[d] \/ fd'.mon[d] = g.mon[d] - 1
  BY <1>1, <1>5, FloppyTimer
<1>7. FdBusy(fd', queue[FD])
  BY <1>5, <1>6, SameOrders
<1> QED BY <1>5, <1>6, <1>7

LEMMA DoTimerKeeps ==
  ASSUME Inv, do_timer
  PROVE  Inv' /\ Justified
<1>0. RequestsOK(queue, request, lock, proc) /\ MotorAwaited(fd, proc) /\ \A p \in Proc : ProcOK(proc[p])
  BY DEF Inv, RequestsOK
<1>1. /\ FdOK(fd') /\ FdBusy(fd', queue[FD])
      /\ \A d \in Drive : /\ fd'.mon[d] \in Nat /\ fd.mon[d] \in Nat
                          /\ fd'.mon[d] = fd.mon[d] \/ fd'.mon[d] = fd.mon[d] - 1
  BY DoTimerFd
<1>2. PICK up : up = {d \in Drive : fd.mon[d] = 1 /\ fd'.mon[d] = 0}
  OBVIOUS
<1>3. proc' = WakeMotor(proc, up) /\ UNCHANGED <<lock, request, queue, hdvars, load>>
  BY <1>2 DEF do_timer, Rest
<1>4. PICK new : new = WakeMotor(proc, up)
  OBVIOUS
<1>5. /\ RequestsOK(queue, request, lock, new)
      /\ \A p \in Proc : new[p].pc \in {"motorgap", "motor"} /\ ~new[p].raced => new[p] = proc[p] /\ proc[p].nr \notin up
  BY <1>0, <1>4, WakeMotorKeeps
<1>6. MotorAwaited(fd', new)
  <2> SUFFICES ASSUME NEW p \in Proc, new[p].pc \in {"motorgap", "motor"}, ~new[p].raced
               PROVE  fd'.mon[new[p].nr] > 0
    BY DEF MotorAwaited
  <2>1. new[p] = proc[p] /\ proc[p].nr \notin up
    BY <1>5
  <2>2. PICK d \in Drive : d = proc[p].nr
    BY <2>1, <1>0 DEF ProcOK, OnFloppy
  <2>3. fd.mon[d] > 0
    BY <2>1, <2>2, <1>0 DEF MotorAwaited
  <2>4. ~(fd.mon[d] = 1 /\ fd'.mon[d] = 0)
    BY <2>1, <2>2, <1>2
  <2>5. fd'.mon[d] > 0
    BY <2>3, <2>4, <1>1
  <2> QED BY <2>1, <2>2, <2>5
<1>7. RequestsOK(queue, request, lock', proc') /\ MotorAwaited(fd', proc')
  BY <1>3, <1>4, <1>5, <1>6
<1> QED BY <1>1, <1>3, <1>7, StillInv

-----------------------------------------------------------------------------
(* The invariant holds.                                                    *)

LEMMA InitInv ==
  ASSUME Init
  PROVE  Inv
<1>1. PICK l \in Loads : RequestInit /\ HdInit(l.hd) /\ FdInit(l.fd) /\ load = l
  BY DEF Init
<1>2. LoadOK
  <2>1. l \in [bufs : SUBSET Buf, mod : SUBSET Buf, hd : Nat, fd : Nat, rw : Nat, change : Nat]
    BY BlockDevAssumption
  <2>2. "bufs" \in DOMAIN l /\ l.bufs \subseteq Buf
    BY <2>1
  <2> QED BY <1>1, <2>2 DEF LoadOK
<1>3. HdBusy /\ HdFlags
  <2>1. do_hd = "none" /\ reset = TRUE /\ recalibrate = TRUE /\ ctl = NoCommand
    BY <1>1 DEF HdInit
  <2>2. queue[HD] = <<>>
    BY <1>1 DEF RequestInit, Major
  <2>3. ctl.cmd = "none" /\ "cmd" \in DOMAIN ctl
    BY <2>1 DEF NoCommand
  <2> QED BY <2>1, <2>2, <2>3 DEF HdBusy, HdFlags
<1>4. /\ queue = [m \in Major |-> <<>>] /\ request = [r \in Slot |-> Free]
      /\ lock = [b \in Buf |-> FALSE] /\ proc = [p \in Proc |-> IdleProc]
  BY <1>1 DEF RequestInit
<1>5. Used(request) = {} /\ \A m \in Major : queue[m] = <<>> /\ DOMAIN queue[m] = {}
  BY <1>4 DEF Used
<1>6. IdleProc \in ProcRec /\ IdleProc.pc = "idle" /\ ProcOK(IdleProc) /\ "idle" \notin OnRequest
  BY IdleType DEF OnRequest
<1>7. RequestsOK(queue, request, lock, proc) /\ queue[RD] = <<>>
  <2>1. request \in [Slot -> Rq \cup {Free}] /\ proc \in [Proc -> ProcRec] /\ \A p \in Proc : ProcOK(proc[p])
    BY <1>4, <1>6
  <2>2. Queued(queue, request)
    <3>1. queue \in [Major -> Seq(Slot)]
      BY <1>4
    <3> QED BY <3>1, <1>5 DEF Queued
  <2>3. Held(request, lock, proc)
    BY <1>4, <1>5, <1>6 DEF Held
  <2>4. Positions(request) /\ Slotless(request, proc)
    BY <1>4, <1>5, <1>6 DEF Positions, Slotless
  <2>5. \A m \in Major : Elevator(queue[m], request)
    BY <1>5 DEF Elevator
  <2>6. queue[RD] = <<>>
    BY <1>5 DEF Major
  <2> QED BY <2>1, <2>2, <2>3, <2>4, <2>5, <2>6 DEF RequestsOK
<1>8. /\ FdFn(fd) /\ fd.drive = 0 /\ fd.dsel = 0 /\ fd.handler = "none" /\ fd.mon = [d \in Drive |-> 0]
      /\ fd.moff = [d \in Drive |-> 0] /\ fd.wild = FALSE /\ fd.overlap = FALSE /\ fd.hw = <<>> /\ fd.timers = <<>>
  BY <1>1 DEF FdInit, FdFn, Fields
<1>9. IsSeq(<<>>) /\ Len(<<>>) = 0
  <2>1. <<>> \in Seq({})
    OBVIOUS
  <2>2. PICK s \in Seq({}) : s = <<>>
    BY <2>1
  <2>3. IsSeq(s)
    BY SeqRange
  <2> QED BY <2>2, <2>3, EmptyLen, Zenon
<1>10. FdOK(fd)
  <2>1. "none" \in Handlers /\ 0 \in Drive
    BY DriveNat DEF Handlers
  <2>2. fd.mon \in [Drive -> Nat] /\ fd.moff \in [Drive -> Nat]
    BY <1>8
  <2> QED BY <1>8, <1>9, <2>1, <2>2, FdParts
<1>11. FdBusy(fd, queue[FD])
  <2>1. queue[FD] = <<>>
    BY <1>5 DEF Major
  <2>2. Orders(fd) = 0
    BY <1>8, <1>9, FewOrders, Zenon
  <2>3. PICK k : k = Len(fd.hw) + Len(fd.timers)
    OBVIOUS
  <2>4. k = 0
    BY <2>2, <2>3, Zenon DEF Orders
  <2>5. k <= 1
    BY <2>4
  <2> QED BY <1>8, <2>1, <2>3, <2>5 DEF FdBusy
<1>12. MotorAwaited(fd, proc)
  BY <1>4, <1>6 DEF MotorAwaited
<1> QED BY <1>2, <1>3, <1>7, <1>10, <1>11, <1>12 DEF Inv

LEMMA NextInv ==
  ASSUME Inv, [Next]_vars
  PROVE  Inv' /\ Justified
<1>1. CASE UNCHANGED vars
  <2>1. UNCHANGED <<lock, request, queue, proc, hdvars, fd, load>>
    BY <1>1 DEF vars, reqvars
  <2> QED BY <2>1, ContentsChange
<1>2. ASSUME NEW p \in Proc, NEW rw \in {READ, WRITE, READA, WRITEA}, NEW b \in load.bufs, ll_rw_block(p, rw, b)
      PROVE  Inv' /\ Justified
  BY <1>2, LlRwBlock
<1>3. ASSUME NEW b \in Buf, Modify(b) \/ Reuse(b)
      PROVE  Inv' /\ Justified
  <2>1. UNCHANGED <<lock, request, queue, proc, hdvars, fd, load>>
    BY <1>3 DEF Modify, Reuse
  <2> QED BY <2>1, ContentsChange
<1>4. ASSUME NEW p \in Proc, NEW nr \in Drive, floppy_change(p, nr)
      PROVE  Inv' /\ Justified
  BY <1>4, FloppyChange
<1>5. ASSUME NEW p \in Proc, Continue(p)
      PROVE  Inv' /\ Justified
  BY <1>5, LockBufferKeeps, SleepOnRequestKeeps, RescanKeeps, FloppyOnKeeps, SleepOnMotorKeeps, FloppySelectKeeps,
     SleepOnSelectKeeps DEF Continue
<1>6. CASE HdInterrupt
  BY <1>6, HdInterruptKeeps
<1>7. CASE FdInterrupt
  BY <1>7, FdInterruptKeeps
<1>8. CASE do_timer
  BY <1>8, DoTimerKeeps
<1> QED BY <1>1, <1>2, <1>3, <1>4, <1>5, <1>6, <1>7, <1>8 DEF Next

\* The invariant of the block devices.  Interrupts of the two controllers, the
\* clock and any number of processes keep the queues, the slots, the locks, the
\* processes and what the drivers have under way together.
THEOREM BlockInvariant == Spec => []Inv
<1>1. Init => Inv
  BY InitInv
<1>2. Inv /\ [Next]_vars => Inv'
  BY NextInv
<1> QED BY <1>1, <1>2, PTL DEF Spec

\* A request is given up only when its block is not on the device, after
\* MAX_ERRORS errors, or for the reasons GivenUp names: no other way through
\* bad_rw_intr, bad_flp_intr and the range tests ends a request as an error.
THEOREM GiveUpHolds == Spec => GiveUp
<1>1. Inv /\ [Next]_vars => [Justified]_vars
  BY NextInv
<1>2. Spec => [][Justified]_vars
  BY <1>1, BlockInvariant, PTL DEF Spec
<1>3. [Justified]_vars <=>
        [\A r \in Slot :
           request[r] # Free /\ request'[r] = Free /\ ~uptodate'[request[r].bh] => GivenUp(request[r])]_vars
  BY DEF Justified
<1> QED BY <1>2, <1>3, PTL DEF GiveUp

-----------------------------------------------------------------------------
(* What follows from it.                                                   *)

LEMMA HoldersCounted ==
  ASSUME Inv, NEW b \in Buf
  PROVE  Cardinality({r \in Slot : request[r].bh = b}
                       \cup {<<p>> : p \in {x \in Proc : Waits(x) /\ proc[x].bh = b}}) = IF lock[b] THEN 1 ELSE 0
<1> DEFINE S == {r \in Slot : request[r].bh = b}
           P == {x \in Proc : Waits(x) /\ proc[x].bh = b}
           T == {<<p>> : p \in P}
<1>0. /\ request \in [Slot -> Rq \cup {Free}] /\ lock \in [Buf -> BOOLEAN]
      /\ \A r \in Used(request) : lock[request[r].bh]
      /\ \A p \in Proc : proc[p].pc \in OnRequest => lock[proc[p].bh]
      /\ \A r, s \in Used(request) : request[r].bh = request[s].bh => r = s
      /\ \A p, x \in Proc :
           proc[p].pc \in OnRequest /\ proc[x].pc \in OnRequest /\ proc[p].bh = proc[x].bh => p = x
      /\ \A r \in Used(request), p \in Proc : proc[p].pc \in OnRequest => request[r].bh # proc[p].bh
      /\ lock[b] => \/ \E r \in Used(request) : request[r].bh = b
                    \/ \E p \in Proc : proc[p].pc \in OnRequest /\ proc[p].bh = b
  BY DEF Inv, RequestsOK, Held
<1>1. S = {r \in Used(request) : request[r].bh = b}
  BY <1>0, FreeOrUsed, NoBuffer DEF Used
<1>2. P = {x \in Proc : proc[x].pc \in OnRequest /\ proc[x].bh = b}
  BY DEF Waits, OnRequest
<1>3. CASE ~lock[b]
  <2>1. S = {} /\ P = {}
    BY <1>0, <1>1, <1>2, <1>3
  <2>2. S \cup T = {}
    BY <2>1
  <2> HIDE DEF S, T
  <2>3. Cardinality(S \cup T) = 0
    BY <2>2, FS_EmptySet
  <2> QED BY <2>3, <1>3 DEF S, T
<1>4. CASE lock[b]
  <2>1. \E e : S \cup T = {e}
    <3>1. CASE \E r \in Used(request) : request[r].bh = b
      <4>1. PICK r \in Used(request) : request[r].bh = b
        BY <3>1
      <4>2. S = {r}
        BY <4>1, <1>0, <1>1
      <4>3. P = {}
        BY <4>1, <1>0, <1>2
      <4>4. S \cup T = {r}
        BY <4>2, <4>3
      <4> QED BY <4>4
    <3>2. CASE \E p \in Proc : proc[p].pc \in OnRequest /\ proc[p].bh = b
      <4>1. PICK p \in Proc : proc[p].pc \in OnRequest /\ proc[p].bh = b
        BY <3>2
      <4>2. P = {p}
        BY <4>1, <1>0, <1>2
      <4>3. S = {}
        BY <4>1, <1>0, <1>1
      <4>4. S \cup T = {<<p>>}
        BY <4>2, <4>3
      <4> QED BY <4>4
    <3> QED BY <3>1, <3>2, <1>0, <1>4
  <2> HIDE DEF S, T
  <2>2. PICK e : S \cup T = {e}
    BY <2>1
  <2>3. Cardinality(S \cup T) = 1
    BY <2>2, FS_Singleton
  <2> QED BY <2>3, <1>4 DEF S, T
<1> QED BY <1>3, <1>4

\* No request is lost or queued twice, and no lock is lost: every slot in use is
\* in the queue of its device once, and a locked buffer has exactly one holder,
\* on every way out of make_request, the handlers, the retries and the error paths.
THEOREM LocksServedHolds == Spec => []LocksServed
<1>1. Inv => LocksServed
  <2> SUFFICES ASSUME Inv PROVE LocksServed
    OBVIOUS
  <2>0. request \in [Slot -> Rq \cup {Free}] /\ Queued(queue, request)
    BY DEF Inv, RequestsOK
  <2>1. \A m \in Major, i, j \in Slot :
          i \in DOMAIN queue[m] /\ j \in DOMAIN queue[m] /\ queue[m][i] = queue[m][j] => i = j
    BY <2>0 DEF Queued
  <2>2. \A m \in Major, r \in Slot : r \in Range(queue[m]) <=> \E i \in DOMAIN queue[m] : queue[m][i] = r
    BY DEF Range
  <2>3. \A r \in Slot :
          IF request[r] = Free THEN \A m \in Major : r \notin Range(queue[m])
          ELSE \A m \in Major : r \in Range(queue[m]) <=> m = request[r].bh.major
    BY <2>0, <2>2 DEF Queued, Used
  <2>4. \A b \in Buf :
          LET holders == {r \in Slot : request[r].bh = b}
                           \cup {<<p>> : p \in {x \in Proc : Waits(x) /\ proc[x].bh = b}}
          IN Cardinality(holders) = IF lock[b] THEN 1 ELSE 0
    BY HoldersCounted
  <2> QED BY <2>1, <2>3, <2>4 DEF LocksServed
<1> QED BY <1>1, BlockInvariant, PTL

\* Who sleeps for a slot or a motor, and was not raced between its test and its
\* sleep, has a request or a motor under way that will wake it.
THEOREM SleeperWokenHolds == Spec => []SleeperWoken
<1>1. Inv => SleeperWoken
  BY DEF Inv, RequestsOK, Slotless, MotorAwaited, SleeperWoken
<1> QED BY <1>1, BlockInvariant, PTL

\* The hard disk's handler always finds a request, the one it is for; the floppy
\* driver uses CURRENT = NULL only after a request came during a late reset.
THEOREM HandlerHasRequestHolds == Spec => []HandlerHasRequest
<1>1. Inv => HandlerHasRequest
  <2> SUFFICES ASSUME Inv PROVE HandlerHasRequest
    OBVIOUS
  <2>1. ASSUME Answered
        PROVE  /\ queue[HD] # <<>>
               /\ do_hd = "read_intr" => request[Head(queue[HD])].cmd = READ
               /\ do_hd = "write_intr" => request[Head(queue[HD])].cmd = WRITE
               /\ do_hd # "none"
    <3>1. queue[HD] # <<>>
      BY <2>1 DEF Inv, HdBusy, Answered
    <3>2. Head(queue[HD]) = queue[HD][1]
      BY <3>1, HdFirst
    <3> QED BY <3>1, <3>2 DEF Inv, HdBusy
  <2>2. fd.wild => fd.overlap
    BY DEF Inv, FdBusy
  <2> QED BY <2>1, <2>2 DEF HandlerHasRequest
<1> QED BY <1>1, BlockInvariant, PTL

\* The elevator starves nobody: no buffer is read or written more than twice
\* while a request waits, whatever the number of slots, buffers and processes.
THEOREM NoStarvationHolds == Spec => []NoStarvation
<1>1. Inv => NoStarvation
  <2> SUFFICES ASSUME Inv, NEW r \in Slot, NEW w \in Work PROVE request[r].passed[w] <= 2
    BY DEF NoStarvation
  <2>0. /\ request \in [Slot -> Rq \cup {Free}] /\ Queued(queue, request) /\ Held(request, lock, proc)
        /\ \A m \in Major : Elevator(queue[m], request)
    BY DEF Inv, RequestsOK
  <2>1. CASE r \notin Used(request)
    <3>1. request[r] = Free
      BY <2>1 DEF Used
    <3>2. request[r].passed[w] = 0
      BY <3>1 DEF Free
    <3> QED BY <3>2
  <2>2. CASE r \in Used(request)
    <3>1. request[r] \in Rq
      BY <2>0, <2>2, FreeOrUsed
    <3>2. PICK m \in Major : m = request[r].bh.major
      BY <3>1, RequestAssumption DEF Rq
    <3>3. PICK i \in DOMAIN queue[m] : queue[m][i] = r
      BY <2>0, <2>2, <3>2 DEF Queued
    <3>4. queue[m] \in Seq(Slot) /\ Len(queue[m]) \in Nat /\ DOMAIN queue[m] = 1 .. Len(queue[m])
      BY <2>0, QueueFacts
    <3>5. queue[m] # <<>>
      BY <3>3, <3>4
    <3>6. PICK q \in Seq(Slot) : q = queue[m]
      BY <3>4
    <3>7. PICK d \in 1 .. Len(q) : Sweeps(q, request, d)
      BY <2>0, <3>4, <3>5, <3>6 DEF Elevator
    <3>8. d \in Nat \ {0}
      BY <3>4, <3>6, <3>7
    <3>9. Share(request[q[i]], WorkOf(request[q[1]]), w, d < i)
      BY <3>3, <3>4, <3>6, <3>7, <3>8, SweepsParts
    <3>10. request[r].passed[w] \in Nat
      BY <3>1 DEF Rq
    <3> QED BY <3>3, <3>6, <3>9, <3>10 DEF Share
  <2> QED BY <2>1, <2>2
<1> QED BY <1>1, BlockInvariant, PTL

=============================================================================
