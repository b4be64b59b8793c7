----------------------------- MODULE TtyProofs -----------------------------
(***************************************************************************)
(* Proofs about the terminals (Tty.tla): Inv is inductive, and with it     *)
(* LinesCounted, OutputOnce, SleeperWoken and NoStrayAlarm hold for every  *)
(* set of tasks, every size of the rings and every scenario.               *)
(*                                                                         *)
(* The steps are of two kinds.  A step of an interrupt handler (Arrive,    *)
(* copy_to_cooked, con_write, write_char, Alarm) is calm: it leaves the    *)
(* tasks' activations and the wait queues alone, TasksCalm and StackCalm   *)
(* say how much.  A step of a system call is a move of one task, Moved,    *)
(* with nothing but that call on the stack before it.  For each kind one   *)
(* lemma, InterruptStep and MovedStep, says what is left to show, and      *)
(* every action comes down to it.                                          *)
(***************************************************************************)
EXTENDS Tty, SetLemmas, SequenceTheorems

\* The size of the rings.
N == TTY_BUF_SIZE

-----------------------------------------------------------------------------
(* The rings of tty.h.                                                     *)

\* The remainder of a number no more than one turn away from the ring.
LEMMA ModTurn ==
  ASSUME NEW n \in Int
  PROVE  /\ Mod(n) \in 0 .. N - 1
         /\ 0 <= n /\ n < N => Mod(n) = n
         /\ N <= n /\ n < 2 * N => Mod(n) = n - N
         /\ 0 - N <= n /\ n < 0 => Mod(n) = n + N
<1>0. N \in Nat /\ N > 2
  BY TtyAssumption DEF N
<1>1. n % N \in 0 .. N - 1
  BY <1>0
<1>2. 0 <= n /\ n < N => n % N = n
  BY <1>0
<1>3. N <= n /\ n < 2 * N => n % N = n - N
  BY <1>0
<1>4. 0 - N <= n /\ n < 0 => n % N = n + N
  BY <1>0
<1> QED BY <1>1, <1>2, <1>3, <1>4 DEF Mod, N

\* How many characters a ring holds, and how that shows.
LEMMA RingCount ==
  ASSUME NEW q \in Rings
  PROVE  /\ q.head \in 0 .. N - 1 /\ q.tail \in 0 .. N - 1
         /\ CHARS(q) \in 0 .. N - 1
         /\ CHARS(q) = IF q.head >= q.tail THEN q.head - q.tail ELSE q.head - q.tail + N
         /\ LEFT(q) = N - 1 - CHARS(q)
         /\ EMPTY(q) <=> CHARS(q) = 0
         /\ FULL(q) <=> CHARS(q) = N - 1
<1>0. N \in Nat /\ N > 2 /\ N = TTY_BUF_SIZE
  BY TtyAssumption DEF N
<1>1. q.head \in 0 .. N - 1 /\ q.tail \in 0 .. N - 1
  BY DEF Rings, N
<1>2. PICK h \in 0 .. N - 1, l \in 0 .. N - 1 : h = q.head /\ l = q.tail
  BY <1>1
<1>3. Mod(h - l) = IF h >= l THEN h - l ELSE h - l + N
  BY <1>0, ModTurn
<1>4. Mod(l - h - 1) = IF l > h THEN l - h - 1 ELSE l - h - 1 + N
  BY <1>0, ModTurn
<1>5. CHARS(q) = Mod(h - l) /\ LEFT(q) = Mod(l - h - 1)
  BY <1>2 DEF CHARS, LEFT
<1>6. CHARS(q) \in 0 .. N - 1 /\ LEFT(q) = N - 1 - CHARS(q)
  BY <1>0, <1>3, <1>4, <1>5
<1>7. EMPTY(q) <=> CHARS(q) = 0
  BY <1>0, <1>2, <1>3, <1>5 DEF EMPTY
<1>8. FULL(q) <=> CHARS(q) = N - 1
  BY <1>0, <1>6 DEF FULL
<1> QED BY <1>1, <1>2, <1>3, <1>5, <1>6, <1>7, <1>8

\* Putting a character: one more, if there is room.
LEMMA PutRing ==
  ASSUME NEW q \in Rings, NEW c \in Char
  PROVE  /\ PUTCH(c, q) \in Rings
         /\ PUTCH(c, q).proc = q.proc /\ PUTCH(c, q).data = q.data
         /\ ~FULL(q) => CHARS(PUTCH(c, q)) = CHARS(q) + 1
<1>0. N \in Nat /\ N > 2 /\ N = TTY_BUF_SIZE
  BY TtyAssumption DEF N
<1>1. q.head \in 0 .. N - 1 /\ q.tail \in 0 .. N - 1
  BY DEF Rings, N
<1>2. Mod(q.head + 1) \in 0 .. N - 1 /\ Mod(q.head + 1) = IF q.head + 1 = N THEN 0 ELSE q.head + 1
  BY <1>0, <1>1, ModTurn
<1>3. PICK h \in 0 .. N - 1 : h = Mod(q.head + 1)
  BY <1>2
<1>a. PICK b : b = [q.buf EXCEPT ![q.head] = c]
  OBVIOUS
<1>4. PUTCH(c, q) = [q EXCEPT !.buf = b, !.head = h]
  BY <1>3, <1>a DEF PUTCH, Rings
<1>b. b \in [0 .. TTY_BUF_SIZE - 1 -> Char] /\ h \in 0 .. TTY_BUF_SIZE - 1
  <2>1. q.buf \in [0 .. TTY_BUF_SIZE - 1 -> Char]
    BY DEF Rings
  <2> QED BY <1>0, <1>a, <2>1
<1>5. PUTCH(c, q) \in Rings /\ PUTCH(c, q).proc = q.proc /\ PUTCH(c, q).data = q.data
      /\ PUTCH(c, q).head = h /\ PUTCH(c, q).tail = q.tail
  <2>1. PICK r : r = [q EXCEPT !.buf = b, !.head = h]
    OBVIOUS
  <2>2. r \in Rings /\ r.proc = q.proc /\ r.data = q.data /\ r.head = h /\ r.tail = q.tail
    BY <1>b, <2>1 DEF Rings
  <2> QED BY <1>4, <2>1, <2>2
<1>6. CHARS(PUTCH(c, q)) = IF h >= q.tail THEN h - q.tail ELSE h - q.tail + N
  BY <1>5, RingCount
<1>7. ~FULL(q) => CHARS(PUTCH(c, q)) = CHARS(q) + 1
  BY <1>0, <1>1, <1>2, <1>3, <1>6, RingCount
<1> QED BY <1>5, <1>7

\* Taking a character: one fewer, if there is one.
LEMMA GetRing ==
  ASSUME NEW q \in Rings
  PROVE  /\ GETCH(q) \in Rings
         /\ GETCH(q).proc = q.proc /\ GETCH(q).data = q.data
         /\ ~EMPTY(q) => CHARS(GETCH(q)) = CHARS(q) - 1
<1>0. N \in Nat /\ N > 2 /\ N = TTY_BUF_SIZE
  BY TtyAssumption DEF N
<1>1. q.head \in 0 .. N - 1 /\ q.tail \in 0 .. N - 1
  BY DEF Rings, N
<1>2. Mod(q.tail + 1) \in 0 .. N - 1 /\ Mod(q.tail + 1) = IF q.tail + 1 = N THEN 0 ELSE q.tail + 1
  BY <1>0, <1>1, ModTurn
<1>3. PICK h \in 0 .. N - 1 : h = Mod(q.tail + 1)
  BY <1>2
<1>4. GETCH(q) = [q EXCEPT !.tail = h]
  BY <1>3 DEF GETCH, Rings
<1>5. GETCH(q) \in Rings /\ GETCH(q).proc = q.proc /\ GETCH(q).data = q.data
      /\ GETCH(q).tail = h /\ GETCH(q).head = q.head
  BY <1>0, <1>4 DEF Rings
<1>6. CHARS(GETCH(q)) = IF q.head >= h THEN q.head - h ELSE q.head - h + N
  BY <1>5, RingCount
<1>7. ~EMPTY(q) => CHARS(GETCH(q)) = CHARS(q) - 1
  BY <1>0, <1>1, <1>2, <1>3, <1>6, RingCount
<1> QED BY <1>5, <1>7

\* Taking a character back: one fewer, if there is one.
LEMMA DecRing ==
  ASSUME NEW q \in Rings
  PROVE  /\ DEC(q) \in Rings
         /\ DEC(q).proc = q.proc /\ DEC(q).data = q.data
         /\ ~EMPTY(q) => CHARS(DEC(q)) = CHARS(q) - 1
<1>0. N \in Nat /\ N > 2 /\ N = TTY_BUF_SIZE
  BY TtyAssumption DEF N
<1>1. q.head \in 0 .. N - 1 /\ q.tail \in 0 .. N - 1
  BY DEF Rings, N
<1>2. Mod(q.head - 1) \in 0 .. N - 1 /\ Mod(q.head - 1) = IF q.head = 0 THEN N - 1 ELSE q.head - 1
  BY <1>0, <1>1, ModTurn
<1>3. PICK h \in 0 .. N - 1 : h = Mod(q.head - 1)
  BY <1>2
<1>4. DEC(q) = [q EXCEPT !.head = h]
  BY <1>3 DEF DEC, Rings
<1>5. DEC(q) \in Rings /\ DEC(q).proc = q.proc /\ DEC(q).data = q.data
      /\ DEC(q).tail = q.tail /\ DEC(q).head = h
  BY <1>0, <1>4 DEF Rings
<1>6. CHARS(DEC(q)) = IF h >= q.tail THEN h - q.tail ELSE h - q.tail + N
  BY <1>5, RingCount
<1>7. ~EMPTY(q) => CHARS(DEC(q)) = CHARS(q) - 1
  BY <1>0, <1>1, <1>2, <1>3, <1>6, RingCount
<1> QED BY <1>5, <1>7

\* Flushing leaves nothing.
LEMMA FlushRing ==
  ASSUME NEW q \in Rings
  PROVE  flush(q) \in Rings /\ flush(q).proc = q.proc /\ flush(q).data = q.data /\ EMPTY(flush(q))
BY DEF flush, Rings, EMPTY

\* Putting what is echoed: that many more, if there is room.
LEMMA PutAllRing ==
  ASSUME NEW q \in Rings, NEW s \in Seq(Char), Len(s) \in 1 .. 2
  PROVE  /\ PutAll(s, q) \in Rings
         /\ PutAll(s, q).proc = q.proc /\ PutAll(s, q).data = q.data
         /\ Len(s) <= LEFT(q) => CHARS(PutAll(s, q)) = CHARS(q) + Len(s)
<1>0. N \in Nat /\ N > 2 /\ N = TTY_BUF_SIZE
  BY TtyAssumption DEF N
<1>1. q.head \in 0 .. N - 1 /\ q.tail \in 0 .. N - 1
  BY DEF Rings, N
<1>2. PICK n \in 1 .. 2 : n = Len(s)
  OBVIOUS
<1>3. Mod(q.head + n) \in 0 .. N - 1
      /\ Mod(q.head + n) = IF q.head + n >= N THEN q.head + n - N ELSE q.head + n
  BY <1>0, <1>1, ModTurn
<1>4. PICK h \in 0 .. N - 1 : h = Mod(q.head + n)
  BY <1>3
<1> DEFINE b == [i \in 0 .. N - 1 |->
                   IF Mod(i - q.head) < n THEN s[Mod(i - q.head) + 1] ELSE q.buf[i]]
<1>5. b \in [0 .. N - 1 -> Char]
  <2> SUFFICES ASSUME NEW i \in 0 .. N - 1
               PROVE  (IF Mod(i - q.head) < n THEN s[Mod(i - q.head) + 1] ELSE q.buf[i]) \in Char
    OBVIOUS
  <2>1. i - q.head \in Int
    BY <1>1, <1>0
  <2>2. Mod(i - q.head) \in 0 .. N - 1
    BY <2>1, ModTurn
  <2>3. CASE Mod(i - q.head) < n
    <3>1. Mod(i - q.head) + 1 \in 1 .. Len(s)
      BY <1>0, <1>2, <2>2, <2>3
    <3> QED BY <3>1, <2>3
  <2>4. q.buf[i] \in Char
    BY <1>0 DEF Rings
  <2> QED BY <2>3, <2>4
<1>6. PutAll(s, q) = [q EXCEPT !.head = h, !.buf = b]
  <2>1. PutAll(s, q) = [q EXCEPT !.head = Mod(@ + n), !.buf = b]
    BY <1>0, <1>2 DEF PutAll
  <2> HIDE DEF b
  <2> QED BY <2>1, <1>4 DEF Rings
<1> HIDE DEF b
<1>7. PutAll(s, q) \in Rings /\ PutAll(s, q).proc = q.proc /\ PutAll(s, q).data = q.data
      /\ PutAll(s, q).head = h /\ PutAll(s, q).tail = q.tail
  BY <1>0, <1>5, <1>6 DEF Rings
<1>8. CHARS(PutAll(s, q)) = IF h >= q.tail THEN h - q.tail ELSE h - q.tail + N
  BY <1>7, RingCount
<1>9. n <= LEFT(q) => CHARS(PutAll(s, q)) = CHARS(q) + n
  <2>1. LEFT(q) = N - 1 - CHARS(q)
        /\ CHARS(q) = IF q.head >= q.tail THEN q.head - q.tail ELSE q.head - q.tail + N
    BY RingCount
  <2>2. PICK a \in 0 .. N - 1, l \in 0 .. N - 1 : a = q.head /\ l = q.tail
    BY <1>1
  <2>3. h = IF a + n >= N THEN a + n - N ELSE a + n
    BY <1>3, <1>4, <2>2
  <2>4. n <= N - 1 - (IF a >= l THEN a - l ELSE a - l + N) =>
          (IF h >= l THEN h - l ELSE h - l + N) = (IF a >= l THEN a - l ELSE a - l + N) + n
    BY <1>0, <2>3
  <2> QED BY <1>8, <2>1, <2>2, <2>4
<1> QED BY <1>2, <1>7, <1>9

\* Two rings with the same characters: who waits and data make no difference.
LEMMA SameRing ==
  ASSUME NEW q, NEW r, r.head = q.head, r.tail = q.tail, r.buf = q.buf
  PROVE  /\ CHARS(r) = CHARS(q) /\ LEFT(r) = LEFT(q) /\ EMPTY(r) = EMPTY(q)
         /\ FULL(r) = FULL(q) /\ Erasable(r) = Erasable(q) /\ LineEnds(r) = LineEnds(q)
<1>1. CHARS(r) = CHARS(q) /\ LEFT(r) = LEFT(q) /\ EMPTY(r) = EMPTY(q)
  BY DEF CHARS, LEFT, EMPTY
<1>2. FULL(r) = FULL(q) /\ Erasable(r) = Erasable(q)
  BY <1>1 DEF FULL, Erasable, LAST
<1>3. LineEnds(r) = LineEnds(q)
  BY <1>1 DEF LineEnds
<1> QED BY <1>1, <1>2, <1>3

\* A ring has finitely many line ends.
LEMMA FiniteLines ==
  ASSUME NEW q
  PROVE  IsFiniteSet(LineEnds(q)) /\ Cardinality(LineEnds(q)) \in Nat
<1>0. N \in Nat /\ N = TTY_BUF_SIZE
  BY TtyAssumption DEF N
<1>1. IsFiniteSet(0 .. N - 1)
  BY <1>0, FS_Interval
<1>2. LineEnds(q) \subseteq 0 .. N - 1
  BY <1>0 DEF LineEnds
<1>3. IsFiniteSet(LineEnds(q))
  BY <1>1, <1>2, FS_Subset
<1> QED BY <1>3, FS_CardinalityType

\* Where the slots of a ring are counted from its tail.
LEMMA SlotIn ==
  ASSUME NEW q \in Rings, NEW i \in 0 .. N - 1
  PROVE  Mod(i - q.tail) = IF i >= q.tail THEN i - q.tail ELSE i - q.tail + N
<1>0. N \in Nat /\ N > 2
  BY TtyAssumption DEF N
<1>1. q.tail \in 0 .. N - 1
  BY RingCount
<1>2. PICK l \in 0 .. N - 1 : l = q.tail
  BY <1>1
<1>3. Mod(i - l) = IF i >= l THEN i - l ELSE i - l + N
  BY <1>0, ModTurn
<1> QED BY <1>2, <1>3

\* A character put counts if it is a line end.
LEMMA LinesPut ==
  ASSUME NEW q \in Rings, NEW c \in Char, ~FULL(q)
  PROVE  Cardinality(LineEnds(PUTCH(c, q))) =
           Cardinality(LineEnds(q)) + (IF c \in Delim THEN 1 ELSE 0)
<1>0. N \in Nat /\ N > 2 /\ N = TTY_BUF_SIZE
  BY TtyAssumption DEF N
<1>1. q.head \in 0 .. N - 1 /\ q.tail \in 0 .. N - 1 /\ CHARS(q) \in 0 .. N - 2
      /\ CHARS(q) = IF q.head >= q.tail THEN q.head - q.tail ELSE q.head - q.tail + N
  BY <1>0, RingCount
<1> DEFINE r == PUTCH(c, q)
<1>2. r \in Rings /\ r.tail = q.tail /\ CHARS(r) = CHARS(q) + 1
  BY PutRing DEF PUTCH, Rings
<1>3. ASSUME NEW i \in 0 .. N - 1
      PROVE  r.buf[i] = IF i = q.head THEN c ELSE q.buf[i]
  BY <1>0, <1>1 DEF PUTCH, Rings
<1> HIDE DEF r
<1>4. Mod(q.head - q.tail) = CHARS(q)
  BY DEF CHARS
<1>5. ASSUME NEW i \in 0 .. N - 1, i # q.head
      PROVE  Mod(i - q.tail) < CHARS(q) + 1 <=> Mod(i - q.tail) < CHARS(q)
  <2>1. Mod(i - q.tail) = IF i >= q.tail THEN i - q.tail ELSE i - q.tail + N
    BY SlotIn
  <2> QED BY <1>0, <1>1, <1>5, <2>1
<1>6. LineEnds(r) = LineEnds(q) \cup (IF c \in Delim THEN {q.head} ELSE {})
  BY <1>0, <1>1, <1>2, <1>3, <1>4, <1>5 DEF LineEnds
<1>7. q.head \notin LineEnds(q)
  BY <1>1, <1>4 DEF LineEnds
<1>8. IsFiniteSet(LineEnds(q)) /\ Cardinality(LineEnds(q)) \in Nat
  BY FiniteLines
<1>9. CASE c \in Delim
  <2>1. LineEnds(r) = LineEnds(q) \cup {q.head}
    BY <1>6, <1>9
  <2>2. Cardinality(LineEnds(q) \cup {q.head}) = Cardinality(LineEnds(q)) + 1
    BY <1>7, <1>8, FS_AddElement
  <2> QED BY <1>9, <2>1, <2>2 DEF r
<1>10. CASE c \notin Delim
  <2>1. LineEnds(r) = LineEnds(q)
    BY <1>6, <1>10
  <2> QED BY <1>8, <1>10, <2>1 DEF r
<1> QED BY <1>9, <1>10

\* A character taken no longer counts.
LEMMA LinesGet ==
  ASSUME NEW q \in Rings, ~EMPTY(q)
  PROVE  Cardinality(LineEnds(GETCH(q))) =
           Cardinality(LineEnds(q)) - (IF First(q) \in Delim THEN 1 ELSE 0)
<1>0. N \in Nat /\ N > 2 /\ N = TTY_BUF_SIZE
  BY TtyAssumption DEF N
<1>1. q.head \in 0 .. N - 1 /\ q.tail \in 0 .. N - 1 /\ CHARS(q) \in 1 .. N - 1
  BY <1>0, RingCount
<1> DEFINE r == GETCH(q)
<1>2. r \in Rings /\ r.buf = q.buf /\ CHARS(r) = CHARS(q) - 1
      /\ r.tail = Mod(q.tail + 1)
  BY GetRing DEF GETCH, Rings
<1>3. r.tail = IF q.tail + 1 = N THEN 0 ELSE q.tail + 1
  BY <1>0, <1>1, <1>2, ModTurn
<1> HIDE DEF r
<1>4. ASSUME NEW i \in 0 .. N - 1
      PROVE  Mod(i - r.tail) < CHARS(q) - 1 <=> Mod(i - q.tail) < CHARS(q) /\ i # q.tail
  <2>1. Mod(i - q.tail) = IF i >= q.tail THEN i - q.tail ELSE i - q.tail + N
    BY SlotIn
  <2>2. Mod(i - r.tail) = IF i >= r.tail THEN i - r.tail ELSE i - r.tail + N
    BY <1>2, SlotIn
  <2> QED BY <1>0, <1>1, <1>3, <2>1, <2>2
<1>5. LineEnds(r) = LineEnds(q) \ {q.tail}
  BY <1>0, <1>2, <1>4 DEF LineEnds
<1>6. q.tail \in LineEnds(q) <=> First(q) \in Delim
  <2>1. Mod(q.tail - q.tail) = 0
    BY <1>0, <1>1, ModTurn
  <2> QED BY <1>0, <1>1, <2>1 DEF LineEnds, First
<1>7. IsFiniteSet(LineEnds(q)) /\ Cardinality(LineEnds(q)) \in Nat
  BY FiniteLines
<1>8. CASE First(q) \in Delim
  <2>1. Cardinality(LineEnds(q) \ {q.tail}) = Cardinality(LineEnds(q)) - 1
    BY <1>6, <1>7, <1>8, FS_RemoveElement
  <2> QED BY <1>5, <1>8, <2>1 DEF r
<1>9. CASE First(q) \notin Delim
  <2>1. LineEnds(r) = LineEnds(q)
    BY <1>5, <1>6, <1>9
  <2> QED BY <1>7, <1>9, <2>1 DEF r
<1> QED BY <1>8, <1>9

\* What may be rubbed out is not a line end.
LEMMA LinesDec ==
  ASSUME NEW q \in Rings, Erasable(q)
  PROVE  LineEnds(DEC(q)) = LineEnds(q)
<1>0. N \in Nat /\ N > 2 /\ N = TTY_BUF_SIZE
  BY TtyAssumption DEF N
<1>1. ~EMPTY(q) /\ q.buf[Mod(q.head - 1)] \notin Delim
  BY DEF Erasable, LAST
<1>2. q.head \in 0 .. N - 1 /\ q.tail \in 0 .. N - 1 /\ CHARS(q) \in 1 .. N - 1
      /\ CHARS(q) = IF q.head >= q.tail THEN q.head - q.tail ELSE q.head - q.tail + N
  BY <1>0, <1>1, RingCount
<1> DEFINE r == DEC(q)
<1>3. r \in Rings /\ r.buf = q.buf /\ r.tail = q.tail /\ CHARS(r) = CHARS(q) - 1
  BY <1>1, DecRing DEF DEC, Rings
<1> HIDE DEF r
<1>4. Mod(q.head - 1) = IF q.head = 0 THEN N - 1 ELSE q.head - 1
  BY <1>0, <1>2, ModTurn
<1>5. ASSUME NEW i \in 0 .. N - 1, q.buf[i] \in Delim
      PROVE  Mod(i - q.tail) < CHARS(q) - 1 <=> Mod(i - q.tail) < CHARS(q)
  <2>1. i # Mod(q.head - 1)
    BY <1>1, <1>5
  <2>2. Mod(i - q.tail) = IF i >= q.tail THEN i - q.tail ELSE i - q.tail + N
    BY SlotIn
  <2> QED BY <1>0, <1>2, <1>4, <2>1, <2>2
<1> QED BY <1>0, <1>3, <1>5 DEF LineEnds, r

-----------------------------------------------------------------------------
(* Activations and the stack.                                              *)

\* The kinds of activation are told apart by f.
LEMMA Kinds ==
  ASSUME NEW fr \in Frames
  PROVE  /\ fr.d \in Devices /\ fr.f \in {"read", "write", "cooked", "con_write"}
         /\ fr.f = "read" <=> fr \in ReadFrames
         /\ fr.f = "write" <=> fr \in WriteFrames
         /\ fr.f = "cooked" <=> fr \in Cookers
         /\ fr.f = "con_write" <=> fr \in Showers
         /\ fr.f \in {"read", "write"} <=> fr \in CallFrames
         /\ fr \in CallFrames => fr.t \in Task /\ fr.tmp \in Task \cup {NoTask}
         /\ fr # NoCall
<1>1. CASE fr \in ReadFrames
  BY <1>1 DEF ReadFrames, WriteFrames, Cookers, Showers, CallFrames, NoCall, None
<1>2. CASE fr \in WriteFrames
  BY <1>2 DEF ReadFrames, WriteFrames, Cookers, Showers, CallFrames, NoCall, None
<1>3. CASE fr \in Cookers
  BY <1>3 DEF ReadFrames, WriteFrames, Cookers, Showers, CallFrames, NoCall, None
<1>4. CASE fr \in Showers
  BY <1>4 DEF ReadFrames, WriteFrames, Cookers, Showers, CallFrames, NoCall, None, Devices
<1> QED BY <1>1, <1>2, <1>3, <1>4 DEF Frames, CallFrames

\* The top of a stack that is not empty.
LEMMA OnTop ==
  ASSUME TypeOK, stack # << >>
  PROVE  /\ Len(stack) \in Nat /\ Len(stack) >= 1 /\ Top \in Frames
         /\ Top = stack[Len(stack)] /\ stack[1] \in Frames
<1>1. stack \in Seq(Frames)
  BY DEF TypeOK
<1>2. Len(stack) \in Nat /\ Len(stack) >= 1
  BY <1>1
<1>3. stack[Len(stack)] \in Frames /\ stack[1] \in Frames
  BY <1>1, <1>2
<1> QED BY <1>2, <1>3 DEF Top, Last

\* The top is replaced and, perhaps, another activation put upon it.
LEMMA Pushed ==
  ASSUME NEW F, NEW s \in Seq(F), s # << >>, NEW fr \in F, NEW x \in Seq(F), Len(x) <= 1
  PROVE  LET u == [s EXCEPT ![Len(s)] = fr] \o x
         IN  /\ u \in Seq(F) /\ u # << >> /\ Len(u) = Len(s) + Len(x)
             /\ \A i \in 1 .. Len(s) - 1 : u[i] = s[i]
             /\ u[Len(s)] = fr
             /\ \A i \in 1 .. Len(u) : i > Len(s) => i = Len(s) + 1 /\ x # << >> /\ u[i] = x[1]
<1> DEFINE v == [s EXCEPT ![Len(s)] = fr]
           u == v \o x
<1>1. Len(s) \in Nat /\ Len(s) >= 1 /\ Len(x) \in Nat
  OBVIOUS
<1>2. v \in Seq(F) /\ Len(v) = Len(s) /\ v[Len(s)] = fr /\ \A i \in 1 .. Len(s) - 1 : v[i] = s[i]
  BY <1>1
<1> HIDE DEF v
<1>3. u \in Seq(F) /\ Len(u) = Len(s) + Len(x)
  BY <1>2
<1>4. \A i \in 1 .. Len(s) : u[i] = v[i]
  BY <1>1, <1>2
<1>5. \A i \in 1 .. Len(u) : i > Len(s) => u[i] = x[i - Len(s)]
  BY <1>1, <1>2, <1>3
<1>6. u # << >>
  BY <1>1, <1>3
<1>7. \A i \in 1 .. Len(u) : i > Len(s) => i = Len(s) + 1 /\ x # << >> /\ u[i] = x[1]
  BY <1>1, <1>3, <1>5
<1> HIDE DEF u
<1>8. /\ \A i \in 1 .. Len(s) - 1 : u[i] = s[i]
      /\ u[Len(s)] = fr
  BY <1>1, <1>2, <1>4
<1> QED BY <1>3, <1>6, <1>7, <1>8 DEF u, v

\* An activation is put upon the stack.
LEMMA PushedOn ==
  ASSUME NEW F, NEW s \in Seq(F), NEW fr \in F
  PROVE  LET u == s \o <<fr>>
         IN  /\ u \in Seq(F) /\ u # << >> /\ Len(u) = Len(s) + 1
             /\ \A i \in 1 .. Len(s) : u[i] = s[i]
             /\ u[Len(s) + 1] = fr
OBVIOUS

\* The top goes.
LEMMA Popped ==
  ASSUME NEW F, NEW s \in Seq(F), s # << >>
  PROVE  /\ Front(s) \in Seq(F) /\ Len(Front(s)) = Len(s) - 1
         /\ \A i \in 1 .. Len(s) - 1 : Front(s)[i] = s[i]
         /\ Len(s) = 1 => Front(s) = << >>
<1>1. Len(s) \in Nat /\ Len(s) >= 1
  OBVIOUS
<1>2. Front(s) \in Seq(F) /\ Len(Front(s)) = Len(s) - 1
      /\ \A i \in 1 .. Len(s) - 1 : Front(s)[i] = s[i]
  <2>1. Front(s) = SubSeq(s, 1, Len(s) - 1)
    BY DEF Front
  <2>2. \A i \in 1 .. Len(s) - 1 : s[i] \in F
    BY <1>1
  <2>3. PICK n \in Int : n = Len(s) - 1
    BY <1>1
  <2>4. /\ SubSeq(s, 1, n) \in Seq(F) /\ Len(SubSeq(s, 1, n)) = IF 1 <= n THEN n - 1 + 1 ELSE 0
        /\ \A i \in 1 .. n - 1 + 1 : SubSeq(s, 1, n)[i] = s[1 + i - 1]
    BY <2>2, <2>3, SubSeqProperties
  <2> QED BY <1>1, <2>1, <2>3, <2>4
<1>3. Len(s) = 1 => Front(s) = << >>
  BY <1>1, <1>2
<1> QED BY <1>2, <1>3

\* A task's call that is on top is alone on the stack.
LEMMA Alone ==
  ASSUME TypeOK, Placed, stack # << >>, Top.f \in {"read", "write"}
  PROVE  /\ stack = <<Top>> /\ Len(stack) = 1 /\ Top \in CallFrames /\ Top = stack[1]
         /\ Top.t \in Task /\ task[Top.t].st = "kernel" /\ task[Top.t].call = NoCall
         /\ \A u \in Task : task[u].st = "kernel" => u = Top.t
         /\ Become(Top) = stack
<1>1. Len(stack) \in Nat /\ Len(stack) >= 1 /\ Top \in Frames /\ Top = stack[Len(stack)]
  BY OnTop
<1>2. stack \in Seq(Frames)
  BY DEF TypeOK
<1>3. Len(stack) = 1 /\ task[Top.t].st = "kernel"
  <2>1. Len(stack) \in DOMAIN stack
    BY <1>1, <1>2
  <2>2. stack[Len(stack)].f \in {"read", "write"}
    BY <1>1
  <2>3. Len(stack) = 1 /\ task[stack[Len(stack)].t].st = "kernel"
    BY <2>1, <2>2 DEF Placed
  <2> QED BY <1>1, <2>3
<1>4. stack = <<Top>> /\ Top = stack[1]
  BY <1>1, <1>2, <1>3
<1>5. Top \in CallFrames /\ Top.t \in Task
  BY <1>1, Kinds
<1>6. \A u \in Task : task[u].st = "kernel" => u = Top.t /\ task[u].call = NoCall
  BY <1>4 DEF Placed
<1>7. Become(Top) = stack
  BY <1>1, <1>2 DEF Become
<1> QED BY <1>3, <1>4, <1>5, <1>6, <1>7

-----------------------------------------------------------------------------
(* Steps of interrupts: no task enters, leaves or goes on with a call.     *)

\* Tasks may be woken and signalled, and alarms go off.
TasksCalm ==
  /\ task' \in [Task -> Tasks]
  /\ \A t \in Task :
       /\ task'[t].call = task[t].call
       /\ task'[t].alarm => task[t].alarm
       /\ task'[t].st = task[t].st \/ (task[t].st = "asleep" /\ task'[t].st = "ready")
       /\ task[t].sig \subseteq task'[t].sig

\* The call at the bottom stays as it is.
StackCalm ==
  /\ stack' \in Seq(Frames)
  /\ \A i \in DOMAIN stack' : stack'[i].f \in {"read", "write"} =>
       i = 1 /\ stack # << >> /\ stack[1] = stack'[1]
  /\ stack # << >> /\ stack[1].f \in {"read", "write"} => stack' # << >> /\ stack'[1] = stack[1]

\* The calls of the tasks, and who waits, are the same after such a step.
LEMMA Calm ==
  ASSUME TypeOK, Placed, TasksCalm, StackCalm
  PROVE  /\ Placed'
         /\ \A t \in Task : Frame(t)' = Frame(t)
         /\ \A f, d : Waiting(f, d)' = Waiting(f, d)
         /\ \A d : Filling(d)' = Filling(d) /\ Taking(d)' = Taking(d)
         /\ \A d : Fetching(d)' = Fetching(d)
         /\ LooksAgain' = LooksAgain
         /\ \A f, d : Awake(f, d) => Awake(f, d)'
         /\ \A f, d : Sleepers(f, d)' \subseteq Sleepers(f, d)
<1>1. stack \in Seq(Frames) /\ task \in [Task -> Tasks]
  BY DEF TypeOK
<1>2. stack # << >> => stack[1] \in Frames /\ 1 \in DOMAIN stack
  BY <1>1
<1>3. stack' # << >> => stack'[1] \in Frames /\ 1 \in DOMAIN stack'
  BY DEF StackCalm
<1>4. ASSUME NEW t \in Task
      PROVE  task[t].st \in {"user", "kernel", "ready", "asleep"}
  BY <1>1 DEF Tasks
<1>5. Placed'
  <2>1. ASSUME NEW i \in DOMAIN stack', stack'[i].f \in {"read", "write"}
        PROVE  i = 1 /\ task'[stack'[i].t].st = "kernel"
    <3>1. i = 1 /\ stack # << >> /\ stack[1] = stack'[1]
      BY <2>1 DEF StackCalm
    <3>2. task[stack[1].t].st = "kernel" /\ stack[1].t \in Task
      BY <1>2, <2>1, <3>1, Kinds DEF Placed
    <3> QED BY <3>1, <3>2 DEF TasksCalm
  <2>2. ASSUME NEW t \in Task, task'[t].st = "kernel"
        PROVE  stack' # << >> /\ stack'[1] \in CallFrames /\ stack'[1].t = t /\ task'[t].call = NoCall
    <3>1. task[t].st = "kernel"
      BY <2>2 DEF TasksCalm
    <3>2. stack # << >> /\ stack[1] \in CallFrames /\ stack[1].t = t /\ task[t].call = NoCall
      BY <3>1 DEF Placed
    <3>3. stack[1].f \in {"read", "write"}
      BY <1>2, <3>2, Kinds
    <3> QED BY <3>2, <3>3 DEF TasksCalm, StackCalm
  <2>3. ASSUME NEW t \in Task, task'[t].st = "user"
        PROVE  task'[t].call = NoCall
    BY <2>3 DEF TasksCalm, Placed
  <2>4. ASSUME NEW t \in Task, task'[t].st = "asleep"
        PROVE  task'[t].call \in CallFrames /\ task'[t].call.t = t /\ task'[t].call.at = "slept"
    BY <2>4 DEF TasksCalm, Placed
  <2>5. ASSUME NEW t \in Task, task'[t].st \notin {"kernel", "user", "asleep"}
        PROVE  /\ task'[t].call \in CallFrames /\ task'[t].call.t = t
               /\ task'[t].call.at \in {"slept", "loop", "fetched"}
    BY <1>4, <2>5 DEF TasksCalm, Placed
  <2> QED BY <2>1, <2>2, <2>3, <2>4, <2>5 DEF Placed
<1>6. ASSUME NEW t \in Task
      PROVE  Frame(t)' = Frame(t)
  <2>1. CASE task[t].st = "kernel"
    <3>1. stack # << >> /\ stack[1] \in CallFrames
      BY <2>1 DEF Placed
    <3>2. stack[1].f \in {"read", "write"}
      BY <1>2, <3>1, Kinds
    <3>3. stack'[1] = stack[1]
      BY <3>1, <3>2 DEF StackCalm
    <3>4. task'[t].st = "kernel"
      BY <2>1 DEF TasksCalm
    <3> QED BY <2>1, <3>3, <3>4 DEF Frame
  <2>2. CASE task[t].st # "kernel"
    BY <2>2 DEF TasksCalm, Frame
  <2> QED BY <2>1, <2>2
<1>7. ASSUME NEW f, NEW d PROVE Waiting(f, d)' = Waiting(f, d)
  BY <1>6 DEF Waiting
<1>8. ASSUME NEW d PROVE Filling(d)' = Filling(d) /\ Taking(d)' = Taking(d) /\ LooksAgain' = LooksAgain
  <2>1. stack'[1].f \in {"read", "write"} /\ stack' # << >> => stack # << >> /\ stack[1] = stack'[1]
    BY <1>3 DEF StackCalm
  <2> QED BY <2>1 DEF StackCalm, Filling, Taking, LooksAgain
<1>a. ASSUME NEW d PROVE Fetching(d)' = Fetching(d)
  BY <1>6 DEF Fetching
<1>9. ASSUME NEW f, NEW d, Awake(f, d) PROVE Awake(f, d)'
  <2>1. PICK t \in Waiting(f, d) : task[t].st # "asleep" \/ task[t].sig # {}
    BY <1>9 DEF Awake
  <2>2. t \in Task /\ t \in Waiting(f, d)'
    BY <1>7 DEF Waiting
  <2>3. task'[t].st # "asleep" \/ task'[t].sig # {}
    BY <2>1, <2>2 DEF TasksCalm
  <2> QED BY <2>2, <2>3 DEF Awake
<1>10. ASSUME NEW f, NEW d PROVE Sleepers(f, d)' \subseteq Sleepers(f, d)
  <2> SUFFICES ASSUME NEW t \in Sleepers(f, d)' PROVE t \in Sleepers(f, d)
    OBVIOUS
  <2>1. t \in Waiting(f, d) /\ t \in Task /\ task'[t].st = "asleep" /\ task'[t].sig = {}
    BY <1>7 DEF Sleepers, Waiting
  <2>2. task[t].st = "asleep" /\ task[t].sig = {}
    BY <2>1 DEF TasksCalm
  <2> QED BY <2>1, <2>2 DEF Sleepers
<1> QED BY <1>5, <1>6, <1>7, <1>8, <1>9, <1>10, <1>a

\* The serial line is still sending, unless it has stopped or has more to send.
LEMMA CalmSends ==
  ASSUME TypeOK, Placed, TasksCalm, StackCalm, SerialSends, seen \subseteq seen', tx => tx',
         EMPTY(tty["rs"].write) => EMPTY(tty["rs"].write)'
  PROVE  SerialSends'
<1>1. Filling("rs")' = Filling("rs") /\ Fetching("rs")' = Fetching("rs")
  BY Calm
<1> QED BY <1>1 DEF SerialSends

\* No alarm is set by such a step.
LEMMA CalmAlarms ==
  ASSUME TypeOK, Placed, TasksCalm, StackCalm, AlarmsOwned, seen \subseteq seen',
         "stray" \in seen' => "stray" \in seen \/ "eof" \in seen
  PROVE  AlarmsOwned'
<1> SUFFICES ASSUME "eof" \notin seen'
             PROVE  /\ "stray" \notin seen'
                    /\ \A t \in Task : task'[t].alarm =>
                         \/ task'[t].st = "kernel" /\ stack'[1].f = "read" /\ stack'[1].flag
                         \/ /\ task'[t].st \in {"ready", "asleep"}
                            /\ task'[t].call.f = "read" /\ task'[t].call.flag
                    /\ \A i \in DOMAIN stack' : stack'[i].f = "read" => ~stack'[i].old
                    /\ \A t \in Task : task'[t].call.f = "read" => ~task'[t].call.old
  BY DEF AlarmsOwned
<1>0. "eof" \notin seen
  OBVIOUS
<1>1. "stray" \notin seen'
  BY <1>0 DEF AlarmsOwned
<1>2. ASSUME NEW t \in Task, task'[t].alarm
      PROVE  \/ task'[t].st = "kernel" /\ stack'[1].f = "read" /\ stack'[1].flag
             \/ /\ task'[t].st \in {"ready", "asleep"}
                /\ task'[t].call.f = "read" /\ task'[t].call.flag
  <2>1. task[t].alarm
    BY <1>2 DEF TasksCalm
  <2>2. CASE task[t].st = "kernel"
    <3>1. stack[1].f = "read" /\ stack[1].flag /\ stack # << >>
      BY <1>0, <2>1, <2>2 DEF AlarmsOwned, Placed
    <3>2. stack'[1] = stack[1] /\ task'[t].st = "kernel"
      BY <2>2, <3>1 DEF StackCalm, TasksCalm
    <3> QED BY <3>1, <3>2
  <2>3. CASE task[t].st # "kernel"
    <3>1. task[t].st \in {"ready", "asleep"} /\ task[t].call.f = "read" /\ task[t].call.flag
      BY <1>0, <2>1, <2>3 DEF AlarmsOwned
    <3> QED BY <3>1 DEF TasksCalm
  <2> QED BY <2>2, <2>3
<1>3. ASSUME NEW i \in DOMAIN stack', stack'[i].f = "read"
      PROVE  ~stack'[i].old
  <2>1. i = 1 /\ stack # << >> /\ stack[1] = stack'[1]
    BY <1>3 DEF StackCalm
  <2>2. 1 \in DOMAIN stack
    BY <2>1 DEF TypeOK
  <2> QED BY <1>0, <1>3, <2>1, <2>2 DEF AlarmsOwned
<1>4. \A t \in Task : task'[t].call.f = "read" => ~task'[t].call.old
  BY <1>0 DEF AlarmsOwned, TasksCalm
<1> QED BY <1>1, <1>2, <1>3, <1>4

\* The wait queues are the same if their pointers are.
LEMMA CalmThreaded ==
  ASSUME TypeOK, Placed, TasksCalm, StackCalm, Threaded,
         \A f \in {"read", "write"}, d \in Devices : Proc(f, d)' = Proc(f, d)
  PROVE  Threaded'
<1>1. /\ \A t \in Task : Frame(t)' = Frame(t)
      /\ \A f, d : Waiting(f, d)' = Waiting(f, d)
  BY Calm
<1> SUFFICES ASSUME NEW f \in {"read", "write"}, NEW d \in Devices, NEW S \in SUBSET Waiting(f, d)', S # {}
             PROVE  Proc(f, d)' \in S \/ \E u \in Waiting(f, d)' \ S : Frame(u)'.tmp \in S
  BY DEF Threaded
<1>2. S \in SUBSET Waiting(f, d)
  BY <1>1
<1>3. Proc(f, d) \in S \/ \E u \in Waiting(f, d) \ S : Frame(u).tmp \in S
  BY <1>2 DEF Threaded
<1>4. CASE Proc(f, d) \in S
  BY <1>4
<1>5. ASSUME NEW u \in Waiting(f, d) \ S, Frame(u).tmp \in S
      PROVE  \E v \in Waiting(f, d)' \ S : Frame(v)'.tmp \in S
  <2>1. u \in Task /\ u \in Waiting(f, d)' \ S
    BY <1>1 DEF Waiting
  <2>2. Frame(u)' = Frame(u)
    BY <1>1, <2>1
  <2> QED BY <1>5, <2>1, <2>2
<1> QED BY <1>3, <1>4, <1>5

\* The queue's pointer names one that waits, if anybody does.
LEMMA HeadWaits ==
  ASSUME Threaded, NEW f \in {"read", "write"}, NEW d \in Devices, Waiting(f, d) # {}
  PROVE  Proc(f, d) \in Waiting(f, d)
BY DEF Threaded

\* So that wake_up wakes one of them.
LEMMA HeadWoken ==
  ASSUME TypeOK, Placed, Threaded, TasksCalm, StackCalm,
         NEW f \in {"read", "write"}, NEW d \in Devices, Waiting(f, d) # {},
         task' = Woken(task, Proc(f, d))
  PROVE  Awake(f, d)'
<1>1. Proc(f, d) \in Waiting(f, d) /\ Proc(f, d) \in Task
  BY HeadWaits DEF Waiting
<1>2. Waiting(f, d)' = Waiting(f, d)
  BY Calm
<1>3. PICK p \in Task : p = Proc(f, d)
  BY <1>1
<1>4. task'[p].st # "asleep"
  BY <1>3 DEF Woken, TypeOK, Tasks
<1> QED BY <1>1, <1>2, <1>3, <1>4 DEF Awake

\* Who is woken stays what it was otherwise.
LEMMA WokenCalm ==
  ASSUME TypeOK, NEW h
  PROVE  /\ Woken(task, h) \in [Task -> Tasks]
         /\ \A t \in Task : /\ Woken(task, h)[t].call = task[t].call
                            /\ Woken(task, h)[t].alarm = task[t].alarm
                            /\ Woken(task, h)[t].sig = task[t].sig
                            /\ Woken(task, h)[t].todo = task[t].todo
                            /\ Woken(task, h)[t].st =
                                 IF t = h /\ task[t].st = "asleep" THEN "ready" ELSE task[t].st
BY DEF Woken, TypeOK, Tasks

\* Readers are still to be woken if the editor is at work, or was not and has
\* left the queue alone.
LEMMA CalmReader ==
  ASSUME TypeOK, Placed, TasksCalm, StackCalm, ReaderWoken,
         \A d \in Devices : Waiting("read", d) # {} =>
           \/ Awake("read", d)' \/ Running("cooked", d)'
           \/ ~Running("cooked", d) /\ (EMPTY(tty[d].sec) => EMPTY(tty[d].sec)')
  PROVE  ReaderWoken'
<1>1. /\ \A f, d : Waiting(f, d)' = Waiting(f, d)
      /\ \A d : Taking(d)' = Taking(d)
      /\ \A f, d : Awake(f, d) => Awake(f, d)'
      /\ \A f, d : Sleepers(f, d)' \subseteq Sleepers(f, d)
  BY Calm
<1> SUFFICES ASSUME NEW d \in Devices, Sleepers("read", d)' # {}
             PROVE  \/ Awake("read", d)' \/ Running("cooked", d)'
                    \/ EMPTY(tty[d].sec)' /\ ~Taking(d)'
  BY DEF ReaderWoken
<1>2. Sleepers("read", d) # {} /\ Waiting("read", d) # {}
  BY <1>1 DEF Sleepers
<1>3. \/ Awake("read", d) \/ Running("cooked", d)
      \/ EMPTY(tty[d].sec) /\ ~Taking(d)
  BY <1>2 DEF ReaderWoken
<1> QED BY <1>1, <1>2, <1>3

\* Writers are still to be woken unless the line stopped sending.
LEMMA CalmWriter ==
  ASSUME TypeOK, Placed, TasksCalm, StackCalm, WriterWoken, seen \subseteq seen',
         Waiting("write", "rs") # {} => Awake("write", "rs")' \/ (tx => tx')
  PROVE  WriterWoken'
<1>1. /\ \A f, d : Waiting(f, d)' = Waiting(f, d)
      /\ \A f, d : Awake(f, d) => Awake(f, d)'
      /\ \A f, d : Sleepers(f, d)' \subseteq Sleepers(f, d)
      /\ LooksAgain' = LooksAgain
  BY Calm
<1>2. Sleepers("write", "rs")' # {} => Sleepers("write", "rs") # {} /\ Waiting("write", "rs") # {}
  BY <1>1 DEF Sleepers
<1>3. "faulted" \notin seen' => (Sleepers("write", "rs")' # {} => tx' \/ Awake("write", "rs")')
  <2> SUFFICES ASSUME "faulted" \notin seen', Sleepers("write", "rs")' # {}
               PROVE  tx' \/ Awake("write", "rs")'
    OBVIOUS
  <2>1. tx \/ Awake("write", "rs")
    BY <1>2 DEF WriterWoken
  <2> QED BY <1>1, <1>2, <2>1
<1>4. seen' \cap {"overlap", "over"} = {} => Waiting("write", "con")' = {} /\ ~LooksAgain'
  BY <1>1 DEF WriterWoken
<1> QED BY <1>3, <1>4 DEF WriterWoken

-----------------------------------------------------------------------------
(* The line discipline and the count of lines.                             *)

\* What EditorAlone and LinesCounted say of terminal d while nothing has gone
\* wrong; with one editor the line end it is about to put counts once.
Cooker(i, d) == i \in DOMAIN stack /\ stack[i].f = "cooked" /\ stack[i].d = d
DelimPut(d) == \E i \in DOMAIN stack : Cooker(i, d) /\ stack[i].do = "put" /\ stack[i].c \in Delim
EditOK(d) ==
  /\ \A i, j : Cooker(i, d) /\ Cooker(j, d) => i = j
  /\ \A i : Cooker(i, d) =>
       /\ stack[i].do = "put" => ~FULL(tty[d].sec)
       /\ stack[i].do \in {"erase", "killed"} => Erasable(tty[d].sec)
  /\ tty[d].sec.data = Cardinality(LineEnds(tty[d].sec)) + (IF DelimPut(d) THEN 1 ELSE 0)
AllEdit == \A d \in Devices : EditOK(d)
Clean == seen \cap {"nested", "erased"} = {}

\* The two invariants, terminal by terminal.
LEMMA EditorForm ==
  TypeOK => (EditorAlone /\ LinesCounted <=> (Clean => AllEdit))
<1> SUFFICES ASSUME TypeOK, Clean
             PROVE  EditorAlone /\ LinesCounted <=> \A d \in Devices : EditOK(d)
  BY DEF Clean, EditorAlone, LinesCounted, AllEdit
<1> DEFINE P(d) == {i \in DOMAIN stack : /\ stack[i].f = "cooked" /\ stack[i].d = d
                                         /\ stack[i].do = "put" /\ stack[i].c \in Delim}
<1>1. ASSUME NEW d \in Devices, \A i, j : Cooker(i, d) /\ Cooker(j, d) => i = j
      PROVE  Cardinality(P(d)) = IF DelimPut(d) THEN 1 ELSE 0
  <2>1. CASE DelimPut(d)
    <3>1. PICK i \in DOMAIN stack : Cooker(i, d) /\ stack[i].do = "put" /\ stack[i].c \in Delim
      BY <2>1 DEF DelimPut
    <3>2. P(d) = {i}
      BY <1>1, <3>1 DEF Cooker
    <3> QED BY <2>1, <3>2, FS_Singleton
  <2>2. CASE ~DelimPut(d)
    <3>1. P(d) = {}
      BY <2>2 DEF DelimPut, Cooker
    <3> QED BY <2>2, <3>1, FS_EmptySet
  <2> QED BY <2>1, <2>2
<1>2. LinesCounted <=> \A d \in Devices :
        tty[d].sec.data = Cardinality(LineEnds(tty[d].sec)) + Cardinality(P(d))
  BY DEF LinesCounted, Clean
<1> HIDE DEF P
<1>3. \A i \in DOMAIN stack : stack[i].d \in Devices
  BY Kinds DEF TypeOK
<1>4. ASSUME EditorAlone, LinesCounted, NEW d \in Devices PROVE EditOK(d)
  <2>1. \A i, j : Cooker(i, d) /\ Cooker(j, d) => i = j
    BY <1>4 DEF EditorAlone, Clean, Cooker
  <2>2. \A i : Cooker(i, d) =>
       /\ stack[i].do = "put" => ~FULL(tty[d].sec)
       /\ stack[i].do \in {"erase", "killed"} => Erasable(tty[d].sec)
    BY <1>4 DEF EditorAlone, Clean, Cooker
  <2>3. Cardinality(P(d)) = IF DelimPut(d) THEN 1 ELSE 0
    BY <1>1, <2>1
  <2> QED BY <1>2, <1>4, <2>1, <2>2, <2>3 DEF EditOK
<1>5. ASSUME \A d \in Devices : EditOK(d) PROVE EditorAlone /\ LinesCounted
  <2>1. LinesCounted
    BY <1>1, <1>2, <1>5 DEF EditOK
  <2>2. ASSUME NEW i \in DOMAIN stack, stack[i].f = "cooked"
        PROVE  /\ \A j \in DOMAIN stack :
                    stack[j].f = "cooked" /\ stack[i].d = stack[j].d => i = j
               /\ stack[i].do = "put" => ~FULL(tty[stack[i].d].sec)
               /\ stack[i].do \in {"erase", "killed"} => Erasable(tty[stack[i].d].sec)
    <3>1. stack[i].d \in Devices /\ Cooker(i, stack[i].d)
      BY <1>3, <2>2 DEF Cooker
    <3>2. EditOK(stack[i].d)
      BY <1>5, <3>1
    <3> QED BY <3>1, <3>2 DEF EditOK, Cooker
  <2> QED BY <2>1, <2>2 DEF EditorAlone
<1> QED BY <1>4, <1>5

\* The same in the next state.
LEMMA EditorFormNext ==
  TypeOK' => (EditorAlone' /\ LinesCounted' <=> (Clean' => AllEdit'))
BY EditorForm, PTL

\* Neither an editor of d nor its secondary queue is concerned.
LEMMA EditKept ==
  ASSUME NEW d, EditOK(d),
         \A i : Cooker(i, d)' <=> Cooker(i, d),
         \A i : Cooker(i, d) => stack'[i] = stack[i],
         tty'[d].sec.head = tty[d].sec.head, tty'[d].sec.tail = tty[d].sec.tail,
         tty'[d].sec.buf = tty[d].sec.buf, tty'[d].sec.data = tty[d].sec.data
  PROVE  EditOK(d)'
<1> DEFINE q == tty[d].sec
           r == tty'[d].sec
<1>1. FULL(r) = FULL(q) /\ Erasable(r) = Erasable(q) /\ LineEnds(r) = LineEnds(q)
  <2> HIDE DEF q, r
  <2>1. r.head = q.head /\ r.tail = q.tail /\ r.buf = q.buf
    BY DEF q, r
  <2> QED BY <2>1, SameRing
<1>2. DelimPut(d)' = DelimPut(d)
  <2>1. DelimPut(d)' <=> \E i : Cooker(i, d)' /\ stack'[i].do = "put" /\ stack'[i].c \in Delim
    BY DEF DelimPut, Cooker
  <2>2. DelimPut(d) <=> \E i : Cooker(i, d) /\ stack[i].do = "put" /\ stack[i].c \in Delim
    BY DEF DelimPut, Cooker
  <2> QED BY <2>1, <2>2 DEF DelimPut
<1>3. r.data = q.data
  OBVIOUS
<1>4. \A i, j : Cooker(i, d)' /\ Cooker(j, d)' => i = j
  BY DEF EditOK
<1>5. \A i : Cooker(i, d)' =>
       /\ stack'[i].do = "put" => ~FULL(r)
       /\ stack'[i].do \in {"erase", "killed"} => Erasable(r)
  BY <1>1 DEF EditOK
<1>6. r.data = Cardinality(LineEnds(r)) + (IF DelimPut(d)' THEN 1 ELSE 0)
  BY <1>1, <1>2, <1>3 DEF EditOK
<1> QED BY <1>4, <1>5, <1>6 DEF EditOK

\* The only editor of d is at k now, in the state fr.
LEMMA EditAt ==
  ASSUME NEW d, NEW k, \A i : Cooker(i, d)' => i = k,
         NEW b \in BOOLEAN, Cooker(k, d)' => (b <=> stack'[k].do = "put" /\ stack'[k].c \in Delim),
         ~Cooker(k, d)' => ~b,
         Cooker(k, d)' /\ stack'[k].do = "put" => ~FULL(tty'[d].sec),
         Cooker(k, d)' /\ stack'[k].do \in {"erase", "killed"} => Erasable(tty'[d].sec),
         tty'[d].sec.data = Cardinality(LineEnds(tty'[d].sec)) + (IF b THEN 1 ELSE 0)
  PROVE  EditOK(d)'
<1>1. DelimPut(d)' <=> b
  <2>1. DelimPut(d)' <=> \E i : Cooker(i, d)' /\ stack'[i].do = "put" /\ stack'[i].c \in Delim
    BY DEF DelimPut, Cooker
  <2>2. DelimPut(d)' <=> Cooker(k, d)' /\ stack'[k].do = "put" /\ stack'[k].c \in Delim
    BY <2>1
  <2> QED BY <2>2
<1>2. (IF DelimPut(d)' THEN 1 ELSE 0) = (IF b THEN 1 ELSE 0)
  BY <1>1
<1> QED BY <1>2 DEF EditOK

-----------------------------------------------------------------------------
(* con_write and the console's queue.                                      *)

\* What ConsoleDrained and OutputOnce say while nothing has spoilt the queue.
Shower(i) == i \in DOMAIN stack /\ stack[i].f = "con_write"
ConOK ==
  /\ \A i, j : Shower(i) /\ Shower(j) => i = j
  /\ \A i : Shower(i) => stack[i].nr = CHARS(tty["con"].write)
  /\ (\E i : Shower(i)) \/ ~FULL(tty["con"].write) \/ Filling("con")
Unspoilt == seen \cap {"overlap", "over"} = {}

\* con_write runs if one is on the stack.
LEMMA ShowerRuns == TypeOK => (Running("con_write", "con") <=> \E i : Shower(i))
<1> SUFFICES ASSUME TypeOK PROVE Running("con_write", "con") <=> \E i : Shower(i)
  OBVIOUS
<1>1. \A i \in DOMAIN stack : stack[i].f = "con_write" => stack[i].d = "con"
  <2> SUFFICES ASSUME NEW i \in DOMAIN stack, stack[i].f = "con_write" PROVE stack[i].d = "con"
    OBVIOUS
  <2>1. stack[i] \in Frames
    BY DEF TypeOK
  <2>2. stack[i] \in Showers
    BY <2>1, Kinds
  <2> QED BY <2>2 DEF Showers
<1> QED BY <1>1 DEF Running, Shower

\* The two invariants as one.
LEMMA ConsoleForm == TypeOK => (ConsoleDrained /\ OutputOnce <=> (Unspoilt => ConOK))
BY ShowerRuns DEF ConsoleDrained, OutputOnce, Unspoilt, ConOK, Shower

\* The same in the next state.
LEMMA ConsoleFormNext == TypeOK' => (ConsoleDrained' /\ OutputOnce' <=> (Unspoilt' => ConOK'))
BY ConsoleForm, PTL

\* Neither con_write nor its queue is concerned.
LEMMA ConKept ==
  ASSUME ConOK, \A i : Shower(i)' <=> Shower(i), \A i : Shower(i) => stack'[i] = stack[i],
         tty'["con"].write.head = tty["con"].write.head,
         tty'["con"].write.tail = tty["con"].write.tail,
         Filling("con") => Filling("con")'
  PROVE  ConOK'
BY DEF ConOK, CHARS, FULL, LEFT

\* One con_write at most is on the stack now, at k.
LEMMA ConAt ==
  ASSUME NEW k, \A i : Shower(i)' => i = k,
         Shower(k)' => stack'[k].nr = CHARS(tty'["con"].write),
         Shower(k)' \/ ~FULL(tty'["con"].write) \/ Filling("con")'
  PROVE  ConOK'
BY DEF ConOK

-----------------------------------------------------------------------------
(* Changes of the terminals.                                               *)

\* The read queue of one terminal is replaced.
LEMMA SetRead ==
  ASSUME NEW tt \in [Devices -> Terminals], NEW d \in Devices, NEW q \in Rings,
         NEW u, u = [tt EXCEPT ![d].read = q]
  PROVE  /\ u \in [Devices -> Terminals] /\ u[d].read = q
         /\ \A e \in Devices : e # d => u[e] = tt[e]
         /\ \A e \in Devices : u[e].write = tt[e].write /\ u[e].sec = tt[e].sec
         /\ u[d].termios = tt[d].termios /\ u[d].pgrp = tt[d].pgrp
<1>1. PICK T \in Terminals : T = tt[d]
  OBVIOUS
<1>2. PICK U : U = [T EXCEPT !.read = q]
  OBVIOUS
<1>3. /\ U \in Terminals /\ U.read = q /\ U.termios = T.termios /\ U.pgrp = T.pgrp
      /\ U.write = T.write /\ U.sec = T.sec
  BY <1>2 DEF Terminals
<1>4. u = [tt EXCEPT ![d] = U]
  BY <1>1, <1>2
<1> QED BY <1>1, <1>3, <1>4

\* The write queue of one terminal is replaced.
LEMMA SetWrite ==
  ASSUME NEW tt \in [Devices -> Terminals], NEW d \in Devices, NEW q \in Rings,
         NEW u, u = [tt EXCEPT ![d].write = q]
  PROVE  /\ u \in [Devices -> Terminals] /\ u[d].write = q
         /\ \A e \in Devices : e # d => u[e] = tt[e]
         /\ \A e \in Devices : u[e].read = tt[e].read /\ u[e].sec = tt[e].sec
         /\ u[d].termios = tt[d].termios /\ u[d].pgrp = tt[d].pgrp
<1>1. PICK T \in Terminals : T = tt[d]
  OBVIOUS
<1>2. PICK U : U = [T EXCEPT !.write = q]
  OBVIOUS
<1>3. /\ U \in Terminals /\ U.write = q /\ U.termios = T.termios /\ U.pgrp = T.pgrp
      /\ U.read = T.read /\ U.sec = T.sec
  BY <1>2 DEF Terminals
<1>4. u = [tt EXCEPT ![d] = U]
  BY <1>1, <1>2
<1> QED BY <1>1, <1>3, <1>4

\* The secondary queue of one terminal is replaced.
LEMMA SetSec ==
  ASSUME NEW tt \in [Devices -> Terminals], NEW d \in Devices, NEW q \in Rings,
         NEW u, u = [tt EXCEPT ![d].sec = q]
  PROVE  /\ u \in [Devices -> Terminals] /\ u[d].sec = q
         /\ \A e \in Devices : e # d => u[e] = tt[e]
         /\ \A e \in Devices : u[e].read = tt[e].read /\ u[e].write = tt[e].write
         /\ u[d].termios = tt[d].termios /\ u[d].pgrp = tt[d].pgrp
<1>1. PICK T \in Terminals : T = tt[d]
  OBVIOUS
<1>2. PICK U : U = [T EXCEPT !.sec = q]
  OBVIOUS
<1>3. /\ U \in Terminals /\ U.sec = q /\ U.termios = T.termios /\ U.pgrp = T.pgrp
      /\ U.read = T.read /\ U.write = T.write
  BY <1>2 DEF Terminals
<1>4. u = [tt EXCEPT ![d] = U]
  BY <1>1, <1>2
<1> QED BY <1>1, <1>3, <1>4

\* What the invariant needs after a step that concerns no call of a task.
LEMMA InterruptStep ==
  ASSUME Inv, TypeOK', TasksCalm, StackCalm, seen \subseteq seen',
         "stray" \in seen' => "stray" \in seen \/ "eof" \in seen,
         \A d \in Devices : /\ tty'[d].sec.proc = tty[d].sec.proc
                            /\ tty'[d].write.proc = tty[d].write.proc,
         \A d \in Devices : Waiting("read", d) # {} =>
           \/ Awake("read", d)' \/ Running("cooked", d)'
           \/ ~Running("cooked", d) /\ (EMPTY(tty[d].sec) => EMPTY(tty[d].sec)'),
         Waiting("write", "rs") # {} => Awake("write", "rs")' \/ (tx => tx'),
         SerialSends',
         (Clean => AllEdit) => (Clean' => AllEdit'),
         (Unspoilt => ConOK) => (Unspoilt' => ConOK')
  PROVE  Inv'
<1>1. Placed'
  BY Calm DEF Inv
<1>2. AlarmsOwned'
  BY CalmAlarms DEF Inv
<1>3. Threaded'
  BY CalmThreaded DEF Inv, Proc
<1>4. ReaderWoken' /\ WriterWoken'
  BY CalmReader, CalmWriter DEF Inv
<1>5. EditorAlone' /\ LinesCounted'
  BY EditorForm, EditorFormNext DEF Inv
<1>6. ConsoleDrained' /\ OutputOnce'
  BY ConsoleForm, ConsoleFormNext DEF Inv
<1> QED BY <1>1, <1>2, <1>3, <1>4, <1>5, <1>6 DEF Inv

-----------------------------------------------------------------------------
(* Changes of the stack by handlers.                                       *)

\* A handler is entered.
LEMMA PushCalm ==
  ASSUME TypeOK, Placed, NEW fr \in Frames, fr.f \in {"cooked", "con_write"},
         stack' = stack \o <<fr>>
  PROVE  /\ StackCalm /\ Len(stack) \in Nat
         /\ DOMAIN stack = 1 .. Len(stack) /\ DOMAIN stack' = 1 .. Len(stack) + 1
         /\ \A i \in 1 .. Len(stack) : stack'[i] = stack[i]
         /\ stack'[Len(stack) + 1] = fr
<1>1. stack \in Seq(Frames)
  BY DEF TypeOK
<1>2. /\ stack' \in Seq(Frames) /\ stack' # << >> /\ Len(stack') = Len(stack) + 1
      /\ \A i \in 1 .. Len(stack) : stack'[i] = stack[i]
      /\ stack'[Len(stack) + 1] = fr
  BY <1>1, PushedOn
<1>3. DOMAIN stack = 1 .. Len(stack) /\ DOMAIN stack' = 1 .. Len(stack) + 1 /\ Len(stack) \in Nat
  BY <1>1, <1>2
<1>4. ASSUME NEW i \in DOMAIN stack', stack'[i].f \in {"read", "write"}
      PROVE  i = 1 /\ stack # << >> /\ stack[1] = stack'[1]
  <2>1. i \in 1 .. Len(stack)
    BY <1>2, <1>3, <1>4
  <2>2. i = 1
    BY <1>2, <1>3, <1>4, <2>1 DEF Placed
  <2> QED BY <1>1, <1>2, <2>1, <2>2
<1>5. stack # << >> => 1 \in 1 .. Len(stack)
  BY <1>1
<1> QED BY <1>2, <1>3, <1>4, <1>5 DEF StackCalm

\* A handler goes on, and may have entered another one.
LEMMA BecomeCalm ==
  ASSUME TypeOK, Placed, stack # << >>, Top.f \in {"cooked", "con_write"},
         NEW fr \in Frames, fr.f = Top.f, NEW x \in Seq(Frames), Len(x) <= 1,
         x # << >> => x[1].f \in {"cooked", "con_write"},
         stack' = Become(fr) \o x
  PROVE  /\ StackCalm /\ Len(stack) \in Nat \ {0} /\ Top = stack[Len(stack)] /\ Top \in Frames
         /\ DOMAIN stack = 1 .. Len(stack) /\ DOMAIN stack' = 1 .. Len(stack) + Len(x)
         /\ \A i \in 1 .. Len(stack) - 1 : stack'[i] = stack[i]
         /\ stack'[Len(stack)] = fr
         /\ x # << >> => Len(x) = 1 /\ stack'[Len(stack) + 1] = x[1]
         /\ x = << >> => Len(x) = 0
<1>1. stack \in Seq(Frames)
  BY DEF TypeOK
<1>2. Len(stack) \in Nat \ {0} /\ Top = stack[Len(stack)] /\ Top \in Frames
  BY OnTop
<1>3. /\ stack' \in Seq(Frames) /\ stack' # << >> /\ Len(stack') = Len(stack) + Len(x)
      /\ \A i \in 1 .. Len(stack) - 1 : stack'[i] = stack[i]
      /\ stack'[Len(stack)] = fr
      /\ \A i \in 1 .. Len(stack') : i > Len(stack) => i = Len(stack) + 1 /\ x # << >> /\ stack'[i] = x[1]
  BY <1>1, Pushed DEF Become
<1>4. /\ DOMAIN stack = 1 .. Len(stack) /\ DOMAIN stack' = 1 .. Len(stack) + Len(x)
      /\ x = << >> => Len(x) = 0
      /\ x # << >> => Len(x) = 1
  <2>1. DOMAIN stack = 1 .. Len(stack) /\ DOMAIN stack' = 1 .. Len(stack')
    BY <1>1, <1>3
  <2>2. x = << >> => Len(x) = 0
    OBVIOUS
  <2>3. x # << >> => Len(x) = 1
    <3>1. PICK n \in Nat : n = Len(x) /\ n <= 1
      OBVIOUS
    <3>2. n = 0 => x = << >>
      BY <3>1, EmptySeq
    <3>3. n = 0 \/ n = 1
      BY <3>1
    <3> QED BY <3>1, <3>2, <3>3, Zenon
  <2> QED BY <1>3, <2>1, <2>2, <2>3
<1>5. x # << >> => stack'[Len(stack) + 1] = x[1]
  <2>1. x # << >> => Len(stack') = Len(stack) + 1
    BY <1>3, <1>4
  <2>2. x # << >> => Len(stack) + 1 \in 1 .. Len(stack') /\ Len(stack) + 1 > Len(stack)
    BY <1>2, <2>1
  <2> QED BY <1>3, <2>2
<1>6. ASSUME NEW i \in DOMAIN stack', stack'[i].f \in {"read", "write"}
      PROVE  i = 1 /\ stack # << >> /\ stack[1] = stack'[1]
  <2>1. i \in 1 .. Len(stack) - 1
    BY <1>2, <1>3, <1>4, <1>6
  <2>2. i = 1
    BY <1>2, <1>3, <1>4, <1>6, <2>1 DEF Placed
  <2> QED BY <1>3, <2>1, <2>2
<1>7. ASSUME stack[1].f \in {"read", "write"}
      PROVE  stack' # << >> /\ stack'[1] = stack[1]
  <2>1. 1 \in 1 .. Len(stack) - 1
    BY <1>2, <1>7
  <2> QED BY <1>3, <2>1
<1> QED BY <1>2, <1>3, <1>4, <1>5, <1>6, <1>7 DEF StackCalm

\* A handler returns.
LEMMA PopCalm ==
  ASSUME TypeOK, Placed, stack # << >>, Top.f \in {"cooked", "con_write"}, stack' = Front(stack)
  PROVE  /\ StackCalm /\ Len(stack) \in Nat \ {0} /\ Top = stack[Len(stack)] /\ Top \in Frames
         /\ DOMAIN stack = 1 .. Len(stack) /\ DOMAIN stack' = 1 .. Len(stack) - 1
         /\ \A i \in 1 .. Len(stack) - 1 : stack'[i] = stack[i]
<1>1. stack \in Seq(Frames)
  BY DEF TypeOK
<1>2. Len(stack) \in Nat \ {0} /\ Top = stack[Len(stack)] /\ Top \in Frames
  BY OnTop
<1>3. /\ stack' \in Seq(Frames) /\ Len(stack') = Len(stack) - 1
      /\ \A i \in 1 .. Len(stack) - 1 : stack'[i] = stack[i]
  BY <1>1, Popped
<1>4. DOMAIN stack = 1 .. Len(stack) /\ DOMAIN stack' = 1 .. Len(stack) - 1
  BY <1>1, <1>3
<1>6. ASSUME NEW i \in DOMAIN stack', stack'[i].f \in {"read", "write"}
      PROVE  i = 1 /\ stack # << >> /\ stack[1] = stack'[1]
  <2>2. i = 1
    BY <1>2, <1>3, <1>4, <1>6 DEF Placed
  <2> QED BY <1>3, <1>4, <2>2
<1>7. ASSUME stack[1].f \in {"read", "write"}
      PROVE  stack' # << >> /\ stack'[1] = stack[1]
  <2>1. 1 \in 1 .. Len(stack) - 1
    BY <1>2, <1>7
  <2>2. stack' # << >>
    BY <1>3, <2>1
  <2> QED BY <1>3, <2>1, <2>2
<1> QED BY <1>2, <1>3, <1>4, <1>6, <1>7 DEF StackCalm

\* Nothing happens to the stack.
LEMMA SameCalm ==
  ASSUME TypeOK, Placed, stack' = stack
  PROVE  StackCalm
<1>1. stack # << >> => 1 \in DOMAIN stack
  BY DEF TypeOK
<1> QED BY <1>1 DEF StackCalm, Placed, TypeOK

\* Nothing happens to the tasks.
LEMMA SameTasks ==
  ASSUME TypeOK, task' = task
  PROVE  TasksCalm
BY DEF TasksCalm, TypeOK

\* One editor more: it starts at the head of its loop, and another one that
\* was at work there is marked.
LEMMA EditEnter ==
  ASSUME NEW d \in Devices, NEW k, ~Cooker(k, d),
         \A e, i : Cooker(i, e)' <=> Cooker(i, e) \/ (i = k /\ e = d),
         \A e, i : Cooker(i, e) => stack'[i] = stack[i],
         stack'[k].do = "loop",
         \A e \in Devices : tty'[e].sec = tty[e].sec,
         seen' \subseteq Marks, seen \cup Nested(d) \subseteq seen'
  PROVE  (Clean => AllEdit) => (Clean' => AllEdit')
<1> SUFFICES ASSUME Clean => AllEdit, Clean', NEW e \in Devices PROVE EditOK(e)'
  BY DEF AllEdit
<1>1. Clean /\ EditOK(e)
  BY DEF Clean, AllEdit
<1>2. ~Running("cooked", d)
  BY DEF Clean, Nested, Mark
<1>3. CASE e # d
  <2>1. \A i : Cooker(i, e)' <=> Cooker(i, e)
    BY <1>3
  <2>2. tty'[e].sec = tty[e].sec
    OBVIOUS
  <2> QED BY <1>1, <2>1, <2>2, EditKept
<1>4. CASE e = d
  <2>1. \A i : ~Cooker(i, d)
    BY <1>2 DEF Running, Cooker
  <2>2. \A i : Cooker(i, d)' => i = k
    BY <2>1
  <2>3. ~DelimPut(d)
    BY <2>1 DEF DelimPut
  <2>4. tty'[d].sec.data = Cardinality(LineEnds(tty'[d].sec)) + (IF FALSE THEN 1 ELSE 0)
    BY <1>1, <1>4, <2>3 DEF EditOK
  <2>5. EditOK(d)'
    BY <2>2, <2>4, EditAt
  <2> QED BY <1>4, <2>5
<1> QED BY <1>3, <1>4

\* What the line discipline puts are characters.
LEMMA Chars ==
  /\ None \in Char /\ "CR" \in Char /\ "NL" \in Char /\ "a" \in Char /\ "nul" \in Char
  /\ "^" \in Char /\ "DEL" \in Char /\ Control \subseteq Char
BY CharAssumption DEF Delim, Control

\* A character arrives: put_queue or read_char.
LEMMA ArriveStep ==
  ASSUME Inv, NEW d \in Devices, NEW c \in Char, Arrive(d, c), input' \in [keys : Nat, recv : Nat, faults : Nat]
  PROVE  Inv'
<1> DEFINE fr == [f |-> "cooked", d |-> d, do |-> "loop", c |-> None, intr |-> TRUE]
           q == IF FULL(tty[d].read) THEN tty[d].read ELSE PUTCH(c, tty[d].read)
<1>0. TypeOK /\ Placed /\ tty \in [Devices -> Terminals] /\ tty[d].read \in Rings
  BY DEF Inv, TypeOK, Terminals
<1>1. fr \in Cookers /\ fr \in Frames
  <2>1. None \in Char
    BY Chars
  <2> QED BY <2>1 DEF Cookers, Frames
<1>2. q \in Rings
  BY <1>0, PutRing
<1>3. tty' = [tty EXCEPT ![d].read = q] /\ stack' = stack \o <<fr>>
  BY DEF Arrive, Cooked
<1>4. seen' = seen \cup Nested(d) /\ task' = task /\ tx' = tx /\ cr_flag' = cr_flag
  BY DEF Arrive
<1>5. fr.f = "cooked" /\ fr.d = d /\ fr.do = "loop"
  OBVIOUS
<1> HIDE DEF q, fr
<1>6. /\ tty' \in [Devices -> Terminals]
      /\ \A e \in Devices : tty'[e].sec = tty[e].sec /\ tty'[e].write = tty[e].write
  BY <1>0, <1>2, <1>3, SetRead
<1>7. /\ StackCalm /\ Len(stack) \in Nat
      /\ DOMAIN stack = 1 .. Len(stack) /\ DOMAIN stack' = 1 .. Len(stack) + 1
      /\ \A i \in 1 .. Len(stack) : stack'[i] = stack[i]
      /\ stack'[Len(stack) + 1] = fr
  BY <1>0, <1>1, <1>3, <1>5, PushCalm
<1>8. TasksCalm
  BY <1>0, <1>4, SameTasks
<1>9. seen' \subseteq Marks /\ seen \subseteq seen' /\ ("stray" \in seen' => "stray" \in seen)
  BY <1>0, <1>4 DEF TypeOK, Nested, Mark, Marks
<1>10. TypeOK'
  BY <1>0, <1>4, <1>6, <1>7, <1>9 DEF TypeOK, StackCalm
<1>11. Running("cooked", d)' /\ \A e : e # d /\ Running("cooked", e)' => Running("cooked", e)
  BY <1>5, <1>7 DEF Running
<1>12. \A e \in Devices :
         \/ Running("cooked", e)'
         \/ ~Running("cooked", e) /\ (EMPTY(tty[e].sec) => EMPTY(tty[e].sec)')
  BY <1>5, <1>6, <1>7 DEF Running, EMPTY
<1>13. Filling("con")' = Filling("con")
  BY <1>0, <1>7, <1>8, Calm
<1>14. SerialSends'
  <2>1. tty'["rs"].write = tty["rs"].write
    BY <1>6 DEF Devices
  <2> QED BY <1>0, <1>4, <1>7, <1>8, <1>9, <2>1, CalmSends DEF Inv, EMPTY
<1>15. (Clean => AllEdit) => (Clean' => AllEdit')
  <2> DEFINE k == Len(stack) + 1
  <2>1. ~Cooker(k, d)
    BY <1>7 DEF Cooker
  <2>2. ASSUME NEW e, NEW i PROVE Cooker(i, e)' <=> Cooker(i, e) \/ (i = k /\ e = d)
    BY <1>5, <1>7 DEF Cooker
  <2>3. \A e, i : Cooker(i, e) => stack'[i] = stack[i]
    BY <1>7 DEF Cooker
  <2>4. stack'[k].do = "loop"
    BY <1>5, <1>7
  <2> HIDE DEF k
  <2> QED BY <1>4, <1>6, <1>9, <2>1, <2>2, <2>3, <2>4, EditEnter
<1>16. (Unspoilt => ConOK) => (Unspoilt' => ConOK')
  <2>1. Unspoilt' => Unspoilt
    BY <1>9 DEF Unspoilt
  <2>2. ASSUME NEW i PROVE Shower(i)' <=> Shower(i)
    BY <1>5, <1>7 DEF Shower
  <2>3. \A i : Shower(i) => stack'[i] = stack[i]
    BY <1>7 DEF Shower
  <2>4. tty'["con"].write = tty["con"].write
    BY <1>6 DEF Devices
  <2> QED BY <1>13, <2>1, <2>2, <2>3, <2>4, ConKept
<1>17. \A e \in Devices : /\ tty'[e].sec.proc = tty[e].sec.proc
                          /\ tty'[e].write.proc = tty[e].write.proc
  BY <1>6
<1> QED BY <1>4, <1>7, <1>8, <1>9, <1>10, <1>12, <1>14, <1>15, <1>16, <1>17, InterruptStep

\* A step that leaves the editors and the secondary queues alone.
LEMMA EditsKept ==
  ASSUME \A e \in Devices : \A i : Cooker(i, e)' <=> Cooker(i, e),
         \A e \in Devices : \A i : Cooker(i, e) => stack'[i] = stack[i],
         \A e \in Devices : /\ tty'[e].sec.head = tty[e].sec.head
                            /\ tty'[e].sec.tail = tty[e].sec.tail
                            /\ tty'[e].sec.buf = tty[e].sec.buf
                            /\ tty'[e].sec.data = tty[e].sec.data,
         seen \subseteq seen'
  PROVE  (Clean => AllEdit) => (Clean' => AllEdit')
<1> SUFFICES ASSUME Clean => AllEdit, Clean', NEW e \in Devices PROVE EditOK(e)'
  BY DEF AllEdit
<1>1. EditOK(e)
  BY DEF Clean, AllEdit
<1> QED BY <1>1, EditKept

\* The same with the very stack and the very queues.
LEMMA SameEdits ==
  ASSUME stack' = stack, \A e \in Devices : tty'[e].sec = tty[e].sec, seen \subseteq seen'
  PROVE  (Clean => AllEdit) => (Clean' => AllEdit')
<1>1. \A e \in Devices : \A i : Cooker(i, e)' <=> Cooker(i, e)
  BY DEF Cooker
<1> QED BY <1>1, EditsKept

\* A step that leaves con_write and the console's write queue alone.
LEMMA SameShow ==
  ASSUME \A i : Shower(i)' <=> Shower(i), \A i : Shower(i) => stack'[i] = stack[i],
         tty'["con"].write.head = tty["con"].write.head,
         tty'["con"].write.tail = tty["con"].write.tail,
         Filling("con") => Filling("con")', seen \subseteq seen'
  PROVE  (Unspoilt => ConOK) => (Unspoilt' => ConOK')
<1>1. Unspoilt' => Unspoilt
  BY DEF Unspoilt
<1> QED BY <1>1, ConKept

\* The transmit interrupt of the serial line.
LEMMA WriteCharStep ==
  ASSUME Inv, write_char
  PROVE  Inv'
<1> DEFINE q == tty["rs"].write
           r == IF EMPTY(q) THEN q ELSE GETCH(q)
<1>0. TypeOK /\ Placed /\ Threaded /\ tty \in [Devices -> Terminals] /\ "rs" \in Devices
      /\ "con" \in Devices /\ q \in Rings
  BY DEF Inv, TypeOK, Terminals, Devices
<1>1. r \in Rings /\ r.proc = q.proc
  BY <1>0, GetRing
<1>2. tty' = [tty EXCEPT !["rs"].write = r] /\ tx' = ~EMPTY(r)
  BY DEF write_char
<1>3. stack' = stack /\ cr_flag' = cr_flag /\ input' = input /\ seen' = seen
  BY DEF write_char
<1>4. task' = task \/ task' = Woken(task, q.proc)
  BY DEF write_char
<1>5. EMPTY(r) => task' = Woken(task, q.proc)
  BY DEF write_char
<1> HIDE DEF r
<1>6. /\ tty' \in [Devices -> Terminals] /\ tty'["rs"].write = r
      /\ \A e \in Devices : tty'[e].sec = tty[e].sec
      /\ \A e \in Devices : e # "rs" => tty'[e] = tty[e]
  BY <1>0, <1>1, <1>2, SetWrite
<1>7. StackCalm
  BY <1>0, <1>3, SameCalm
<1>8. TasksCalm
  <2>1. CASE task' = task
    BY <1>0, <2>1, SameTasks
  <2>2. CASE task' = Woken(task, q.proc)
    BY <1>0, <2>2, WokenCalm DEF TasksCalm
  <2> QED BY <1>4, <2>1, <2>2
<1>9. TypeOK'
  BY <1>0, <1>2, <1>3, <1>6, <1>8 DEF TypeOK, TasksCalm, EMPTY
<1>10. SerialSends'
  BY <1>2, <1>6 DEF SerialSends
<1>11. Waiting("write", "rs") # {} => Awake("write", "rs")' \/ (tx => tx')
  <2> SUFFICES ASSUME Waiting("write", "rs") # {}, EMPTY(r) PROVE Awake("write", "rs")'
    BY <1>2
  <2>1. task' = Woken(task, Proc("write", "rs"))
    BY <1>5 DEF Proc
  <2> QED BY <1>0, <1>7, <1>8, <2>1, HeadWoken
<1>12. \A e \in Devices :
         \/ Running("cooked", e)'
         \/ ~Running("cooked", e) /\ (EMPTY(tty[e].sec) => EMPTY(tty[e].sec)')
  BY <1>3, <1>6 DEF Running, EMPTY
<1>13. \A e \in Devices : /\ tty'[e].sec.proc = tty[e].sec.proc
                          /\ tty'[e].write.proc = tty[e].write.proc
  BY <1>1, <1>6
<1>14. (Clean => AllEdit) => (Clean' => AllEdit')
  BY <1>3, <1>6, SameEdits
<1>15. (Unspoilt => ConOK) => (Unspoilt' => ConOK')
  <2>1. \A i : Shower(i)' <=> Shower(i)
    BY <1>3 DEF Shower
  <2>2. tty'["con"] = tty["con"]
    BY <1>0, <1>6
  <2>3. Filling("con") => Filling("con")'
    BY <1>3 DEF Filling
  <2> QED BY <1>3, <2>1, <2>2, <2>3, SameShow
<1> QED BY <1>3, <1>7, <1>8, <1>9, <1>10, <1>11, <1>12, <1>13, <1>14, <1>15, InterruptStep DEF Inv

\* Nothing is put upon the top.
LEMMA BecomeOnly ==
  ASSUME TypeOK, stack # << >>, NEW fr \in Frames
  PROVE  Become(fr) = Become(fr) \o << >>
<1>1. Become(fr) \in Seq(Frames)
  BY DEF Become, TypeOK
<1> QED BY <1>1, ConcatEmptySeq

\* con_write's loop ends.
LEMMA ShowEnd ==
  ASSUME Inv, stack # << >>, Top.f = "con_write", Top.nr = 0, stack' = Front(stack),
         UNCHANGED <<tty, seen, task, tx, cr_flag, input>>
  PROVE  Inv'
<1>0. TypeOK /\ Placed
  BY DEF Inv
<1>1. /\ StackCalm /\ Len(stack) \in Nat \ {0} /\ Top = stack[Len(stack)] /\ Top \in Frames
      /\ DOMAIN stack = 1 .. Len(stack) /\ DOMAIN stack' = 1 .. Len(stack) - 1
      /\ \A i \in 1 .. Len(stack) - 1 : stack'[i] = stack[i]
  BY <1>0, PopCalm
<1>2. TasksCalm
  BY <1>0, SameTasks
<1>3. TypeOK'
  BY <1>0, <1>1 DEF TypeOK, StackCalm
<1>4. ASSUME NEW e \in Devices, NEW i PROVE Cooker(i, e)' <=> Cooker(i, e)
  BY <1>1 DEF Cooker
<1>5. \A e \in Devices : \A i : Cooker(i, e) => stack'[i] = stack[i]
  BY <1>1 DEF Cooker
<1>6. (Clean => AllEdit) => (Clean' => AllEdit')
  BY <1>4, <1>5, EditsKept
<1>7. (Unspoilt => ConOK) => (Unspoilt' => ConOK')
  <2> SUFFICES ASSUME ConOK PROVE ConOK'
    BY DEF Unspoilt
  <2>1. Shower(Len(stack))
    BY <1>1 DEF Shower
  <2>2. CHARS(tty["con"].write) = 0 /\ tty["con"].write \in Rings
    BY <1>0, <1>1, <2>1 DEF ConOK, TypeOK, Terminals, Devices
  <2>3. ~FULL(tty'["con"].write)
    BY <2>2, RingCount, TtyAssumption DEF N
  <2>4. \A i : ~Shower(i)'
    BY <1>1, <2>1 DEF ConOK, Shower
  <2> QED BY <2>3, <2>4, ConAt
<1>8. \A e \in Devices :
         \/ Running("cooked", e)'
         \/ ~Running("cooked", e) /\ (EMPTY(tty[e].sec) => EMPTY(tty[e].sec)')
  <2> SUFFICES ASSUME NEW e \in Devices, Running("cooked", e) PROVE Running("cooked", e)'
    BY DEF EMPTY
  <2>1. PICK i : Cooker(i, e)
    BY DEF Running, Cooker
  <2>2. Cooker(i, e)'
    BY <1>4, <2>1
  <2> QED BY <2>2 DEF Running, Cooker
<1>9. SerialSends'
  BY <1>0, <1>1, <1>2, CalmSends DEF Inv, EMPTY
<1> QED BY <1>1, <1>2, <1>3, <1>6, <1>7, <1>8, <1>9, InterruptStep DEF Inv

\* con_write takes a character and, to respond to it, may enter the editor
\* after p has become the console's read queue.
ShowsOne(x, p) ==
  /\ stack # << >> /\ Top.f = "con_write" /\ Top.nr > 0
  /\ x = << >> \/ x = Cooked("con", FALSE)
  /\ stack' = Become([Top EXCEPT !.nr = @ - 1]) \o x
  /\ \E v : /\ v = [tty EXCEPT !["con"].write = GETCH(tty["con"].write)]
           /\ tty' = [v EXCEPT !["con"].read = p]
  /\ seen' = seen \cup Mark(EMPTY(tty["con"].write), "under")
                  \cup (IF x = << >> THEN {} ELSE Nested("con"))
  /\ UNCHANGED <<task, tx, cr_flag, input>>

\* The handlers on the stack after the one at its top, n, became fr and x was
\* put upon it.
HandlersAre(n, fr, x) ==
  /\ \A i, e : Cooker(i, e)' <=>
       \/ i # n /\ Cooker(i, e)
       \/ i = n /\ fr.f = "cooked" /\ fr.d = e
       \/ i = n + 1 /\ x # << >> /\ x[1].f = "cooked" /\ x[1].d = e
  /\ \A i : Shower(i)' <=>
       \/ i # n /\ Shower(i)
       \/ i = n /\ fr.f = "con_write"
       \/ i = n + 1 /\ x # << >> /\ x[1].f = "con_write"
  /\ \A i, e : Cooker(i, e) /\ i # n => stack'[i] = stack[i]
  /\ \A i : Shower(i) /\ i # n => stack'[i] = stack[i]
  /\ \A e : Cooker(n, e) <=> Top.f = "cooked" /\ Top.d = e
  /\ Shower(n) <=> Top.f = "con_write"
  /\ stack'[n] = fr /\ (x # << >> => stack'[n + 1] = x[1])
  /\ \A e : ~Cooker(n + 1, e) /\ ~Shower(n + 1)
  /\ Top = stack[n] /\ n # n + 1

\* A handler goes on: the others stay.
LEMMA BecomeKinds ==
  ASSUME TypeOK, Placed, stack # << >>, Top.f \in {"cooked", "con_write"},
         NEW fr \in Frames, fr.f = Top.f, NEW x \in Seq(Frames), Len(x) <= 1,
         x # << >> => x[1].f \in {"cooked", "con_write"},
         stack' = Become(fr) \o x, NEW n, n = Len(stack)
  PROVE  HandlersAre(n, fr, x)
<1>1. /\ Len(stack) \in Nat \ {0} /\ Top = stack[Len(stack)] /\ Top \in Frames
      /\ DOMAIN stack = 1 .. Len(stack) /\ DOMAIN stack' = 1 .. Len(stack) + Len(x)
      /\ \A i \in 1 .. Len(stack) - 1 : stack'[i] = stack[i]
      /\ stack'[Len(stack)] = fr
      /\ x # << >> => Len(x) = 1 /\ stack'[Len(stack) + 1] = x[1]
      /\ x = << >> => Len(x) = 0
  BY BecomeCalm
<1>a. PICK m \in Nat : m = Len(x)
  OBVIOUS
<1>2. PICK s, u : m = Len(x) /\ s = stack /\ u = stack'
  BY <1>a
<1>3. /\ n \in Nat \ {0} /\ Top = s[n] /\ m \in {0, 1}
      /\ DOMAIN s = 1 .. n /\ DOMAIN u = 1 .. n + m
      /\ \A i \in 1 .. n - 1 : u[i] = s[i]
      /\ u[n] = fr /\ (x # << >> <=> m = 1) /\ (m = 1 => u[n + 1] = x[1])
  BY <1>1, <1>2
<1>4. /\ \A i : i \in 1 .. n <=> i \in 1 .. n - 1 \/ i = n
      /\ \A i : i \in 1 .. n + 1 <=> i \in 1 .. n - 1 \/ i = n \/ i = n + 1
      /\ \A i : i \in 1 .. n - 1 => i # n
      /\ n + 1 \notin 1 .. n /\ n # n + 1
  BY <1>3
<1>5. \A i : i \in DOMAIN u <=> i \in 1 .. n - 1 \/ i = n \/ (x # << >> /\ i = n + 1)
  <2>1. CASE m = 0
    BY <1>3, <1>4, <2>1
  <2>2. CASE m = 1
    BY <1>3, <1>4, <2>2
  <2> QED BY <1>3, <2>1, <2>2
<1>6. \A i : i \in DOMAIN s <=> i \in 1 .. n - 1 \/ i = n
  BY <1>3, <1>4
<1>7. \A i, e : Cooker(i, e) <=> i \in DOMAIN s /\ s[i].f = "cooked" /\ s[i].d = e
  BY <1>2 DEF Cooker
<1>8. \A i, e : Cooker(i, e)' <=> i \in DOMAIN u /\ u[i].f = "cooked" /\ u[i].d = e
  BY <1>2 DEF Cooker
<1>9. \A i : Shower(i) <=> i \in DOMAIN s /\ s[i].f = "con_write"
  BY <1>2 DEF Shower
<1>10. \A i : Shower(i)' <=> i \in DOMAIN u /\ u[i].f = "con_write"
  BY <1>2 DEF Shower
<1>11. /\ \A e : Cooker(n, e) <=> Top.f = "cooked" /\ Top.d = e
       /\ Shower(n) <=> Top.f = "con_write"
       /\ \A e : ~Cooker(n + 1, e) /\ ~Shower(n + 1)
  BY <1>3, <1>4, <1>6, <1>7, <1>9
<1>12. /\ \A i, e : Cooker(i, e) /\ i # n => u[i] = s[i]
       /\ \A i : Shower(i) /\ i # n => u[i] = s[i]
  BY <1>3, <1>6, <1>7, <1>9
<1>13. \A i, e : Cooker(i, e)' <=>
              \/ i # n /\ Cooker(i, e)
              \/ i = n /\ fr.f = "cooked" /\ fr.d = e
              \/ i = n + 1 /\ x # << >> /\ x[1].f = "cooked" /\ x[1].d = e
  BY <1>3, <1>4, <1>5, <1>6, <1>7, <1>8
<1>14. \A i : Shower(i)' <=>
              \/ i # n /\ Shower(i)
              \/ i = n /\ fr.f = "con_write"
              \/ i = n + 1 /\ x # << >> /\ x[1].f = "con_write"
  <2> SUFFICES ASSUME NEW i
               PROVE  Shower(i)' <=> \/ i # n /\ Shower(i)
                                     \/ i = n /\ fr.f = "con_write"
                                     \/ i = n + 1 /\ x # << >> /\ x[1].f = "con_write"
    OBVIOUS
  <2>1. CASE i \in 1 .. n - 1
    BY <1>3, <1>4, <1>5, <1>6, <1>9, <1>10, <2>1
  <2>2. CASE i \notin 1 .. n - 1
    BY <1>3, <1>4, <1>5, <1>6, <1>9, <1>10, <2>2
  <2> QED BY <2>1, <2>2
<1> QED BY <1>2, <1>3, <1>4, <1>11, <1>12, <1>13, <1>14 DEF HandlersAre

\* One character less to show.
LEMMA ShowGet ==
  ASSUME Inv, NEW x \in Seq(Frames), NEW p \in Rings, ShowsOne(x, p)
  PROVE  Inv'
<1>0. TypeOK /\ Placed /\ tty \in [Devices -> Terminals] /\ tty["con"].write \in Rings
      /\ "con" \in Devices /\ "rs" \in Devices
  BY DEF Inv, TypeOK, Terminals, Devices
<1>1. /\ stack # << >> /\ Top.f = "con_write" /\ Top.nr > 0
      /\ UNCHANGED <<task, tx, cr_flag, input>>
  BY DEF ShowsOne
<1>2. Top \in Frames /\ Top \in Showers
  BY <1>0, <1>1, OnTop, Kinds
<1>3. PICK fr : fr = [Top EXCEPT !.nr = @ - 1]
  OBVIOUS
<1>4. fr \in Showers /\ fr \in Frames /\ fr.f = "con_write" /\ fr.nr = Top.nr - 1 /\ Top.nr \in Nat
  BY <1>1, <1>2, <1>3 DEF Showers, Frames
<1>5. PICK q \in Rings, g \in Rings : q = tty["con"].write /\ g = GETCH(q)
  BY <1>0, GetRing
<1>6. g.proc = q.proc /\ (~EMPTY(q) => CHARS(g) = CHARS(q) - 1)
  BY <1>5, GetRing
<1>7. PICK v : v = [tty EXCEPT !["con"].write = g] /\ tty' = [v EXCEPT !["con"].read = p]
  BY <1>5 DEF ShowsOne
<1>8. /\ v \in [Devices -> Terminals] /\ v["con"].write = g
      /\ \A e \in Devices : e # "con" => v[e] = tty[e]
      /\ \A e \in Devices : v[e].sec = tty[e].sec
  BY <1>0, <1>7, SetWrite
<1>9. /\ tty' \in [Devices -> Terminals] /\ tty'["con"].write = g
      /\ \A e \in Devices : e # "con" => tty'[e] = tty[e]
      /\ \A e \in Devices : tty'[e].sec = tty[e].sec
  <2>1. PICK w : w = tty'
    OBVIOUS
  <2>2. /\ w \in [Devices -> Terminals]
        /\ \A e \in Devices : e # "con" => w[e] = v[e]
        /\ \A e \in Devices : w[e].write = v[e].write /\ w[e].sec = v[e].sec
    <3>1. w = [v EXCEPT !["con"].read = p]
      BY <1>7, <2>1
    <3> QED BY <1>0, <1>8, <3>1, SetRead
  <2> QED BY <1>0, <1>8, <2>1, <2>2
<1>10. Len(x) <= 1 /\ (x # << >> => x[1].f = "cooked" /\ x[1].d = "con" /\ x[1].do = "loop")
  <2>1. x = << >> \/ x = <<[f |-> "cooked", d |-> "con", do |-> "loop", c |-> None, intr |-> FALSE]>>
    BY DEF ShowsOne, Cooked
  <2>2. PICK c : c = [f |-> "cooked", d |-> "con", do |-> "loop", c |-> None, intr |-> FALSE]
    OBVIOUS
  <2>3. c.f = "cooked" /\ c.d = "con" /\ c.do = "loop"
    BY <2>2
  <2>4. CASE x = << >>
    BY <2>4
  <2>5. CASE x = <<c>>
    BY <2>3, <2>5
  <2> QED BY <2>1, <2>2, <2>4, <2>5
<1>11. stack' = Become(fr) \o x
  BY <1>3 DEF ShowsOne
<1>12. Top.f \in {"cooked", "con_write"} /\ fr.f = Top.f
       /\ (x # << >> => x[1].f \in {"cooked", "con_write"})
  BY <1>1, <1>4, <1>10
<1>13. StackCalm
  BY <1>0, <1>1, <1>4, <1>10, <1>11, <1>12, BecomeCalm
<1>14. PICK n : n = Len(stack)
  OBVIOUS
<1>15. /\ \A i, e : Cooker(i, e)' <=> Cooker(i, e) \/ (i = n + 1 /\ x # << >> /\ e = "con")
       /\ \A i : Shower(i)' <=> Shower(i)
       /\ \A i, e : Cooker(i, e) => stack'[i] = stack[i]
       /\ Shower(n) /\ Top = stack[n] /\ stack'[n] = fr
       /\ x # << >> => stack'[n + 1].do = "loop"
       /\ \A e : ~Cooker(n + 1, e)
  <2>1. HandlersAre(n, fr, x)
    BY <1>0, <1>1, <1>4, <1>10, <1>11, <1>12, <1>14, BecomeKinds
  <2> QED BY <1>1, <1>4, <1>10, <2>1 DEF HandlersAre
<1>16. TasksCalm
  BY <1>0, <1>1, SameTasks
<1>17. /\ seen' \subseteq Marks /\ seen \subseteq seen' /\ ("stray" \in seen' => "stray" \in seen)
       /\ x # << >> => seen \cup Nested("con") \subseteq seen'
  BY <1>0 DEF ShowsOne, TypeOK, Nested, Mark, Marks
<1>18. TypeOK'
  BY <1>0, <1>1, <1>9, <1>13, <1>17 DEF TypeOK, StackCalm
<1>19. (Clean => AllEdit) => (Clean' => AllEdit')
  <2>1. CASE x = << >>
    <3>1. \A e \in Devices : \A i : Cooker(i, e)' <=> Cooker(i, e)
      BY <1>15, <2>1
    <3> QED BY <1>9, <1>15, <1>17, <3>1, EditsKept
  <2>2. CASE x # << >>
    <3>1. PICK k : k = n + 1
      OBVIOUS
    <3>2. /\ \A e, i : Cooker(i, e)' <=> Cooker(i, e) \/ (i = k /\ e = "con")
          /\ ~Cooker(k, "con") /\ stack'[k].do = "loop"
      BY <1>15, <2>2, <3>1
    <3> QED BY <1>0, <1>9, <1>15, <1>17, <2>2, <3>2, EditEnter
  <2> QED BY <2>1, <2>2
<1>20. (Unspoilt => ConOK) => (Unspoilt' => ConOK')
  <2> SUFFICES ASSUME ConOK PROVE ConOK'
    BY <1>17 DEF Unspoilt
  <2>1. Top.nr = CHARS(q)
    BY <1>5, <1>15 DEF ConOK
  <2>2. CHARS(g) = Top.nr - 1
    <3>1. ~EMPTY(q)
      BY <1>1, <1>4, <2>1, RingCount
    <3> QED BY <1>6, <2>1, <3>1
  <2>3. \A i : Shower(i)' => i = n
    BY <1>15 DEF ConOK
  <2>4. Shower(n)' /\ stack'[n].nr = CHARS(tty'["con"].write)
    BY <1>4, <1>9, <1>15, <2>2
  <2> QED BY <2>3, <2>4, ConAt
<1>21. \A e \in Devices :
         \/ Running("cooked", e)'
         \/ ~Running("cooked", e) /\ (EMPTY(tty[e].sec) => EMPTY(tty[e].sec)')
  <2> SUFFICES ASSUME NEW e \in Devices, Running("cooked", e) PROVE Running("cooked", e)'
    BY <1>9 DEF EMPTY
  <2>1. PICK i : Cooker(i, e)
    BY DEF Running, Cooker
  <2>2. Cooker(i, e)'
    BY <1>15, <2>1
  <2> QED BY <2>2 DEF Running, Cooker
<1>23. SerialSends'
  BY <1>0, <1>1, <1>9, <1>13, <1>16, <1>17, CalmSends DEF Inv, EMPTY
<1>24. \A e \in Devices : /\ tty'[e].sec.proc = tty[e].sec.proc
                          /\ tty'[e].write.proc = tty[e].write.proc
  BY <1>5, <1>6, <1>9
<1> QED BY <1>1, <1>13, <1>16, <1>17, <1>18, <1>19, <1>20, <1>21, <1>23, <1>24, InterruptStep DEF Inv

\* con_write: whatever it does keeps the invariant.
LEMMA ConWriteStep ==
  ASSUME Inv, con_write
  PROVE  Inv'
<1>0. /\ TypeOK /\ stack # << >> /\ Top.f = "con_write" /\ UNCHANGED <<task, tx, cr_flag, input>>
      /\ tty \in [Devices -> Terminals] /\ tty["con"] \in Terminals /\ tty["con"].read \in Rings
  BY DEF con_write, Inv, TypeOK, Terminals, Devices
<1>1. PICK fr : fr = [Top EXCEPT !.nr = @ - 1]
  OBVIOUS
<1>2. CASE Top.nr = 0 /\ stack' = Front(stack) /\ UNCHANGED <<tty, seen>>
  BY <1>0, <1>2, ShowEnd
<1>3. CASE /\ Top.nr > 0
           /\ tty' = [tty EXCEPT !.con.write = GETCH(@)] /\ stack' = Become(fr)
           /\ seen' = seen \cup Mark(EMPTY(tty["con"].write), "under")
  <2>1. Top \in Frames /\ Top \in Showers
    BY <1>0, OnTop, Kinds
  <2>2. fr \in Frames
    BY <1>1, <1>3, <2>1 DEF Showers, Frames
  <2>3. stack' = Become(fr) \o << >>
    BY <1>0, <1>3, <2>2, BecomeOnly
  <2>4. PICK v : v = [tty EXCEPT !["con"].write = GETCH(tty["con"].write)]
    OBVIOUS
  <2>5. tty' = [v EXCEPT !["con"].read = tty["con"].read]
    <3>1. tty' = v
      BY <1>3, <2>4
    <3>2. v["con"].read = tty["con"].read /\ v \in [Devices -> Terminals] /\ "con" \in Devices
      <4>1. PICK g \in Rings : g = GETCH(tty["con"].write)
        BY <1>0, GetRing DEF Terminals
      <4>2. v = [tty EXCEPT !["con"].write = g] /\ "con" \in Devices
        BY <2>4, <4>1 DEF Devices
      <4> QED BY <1>0, <4>2, SetWrite
    <3>3. [v EXCEPT !["con"].read = v["con"].read] = v
      <4>1. v["con"] \in Terminals
        BY <3>2
      <4>2. [v["con"] EXCEPT !.read = v["con"].read] = v["con"]
        BY <4>1 DEF Terminals
      <4> QED BY <3>2, <4>2
    <3> QED BY <3>1, <3>2, <3>3
  <2>6. ShowsOne(<< >>, tty["con"].read)
    BY <1>0, <1>1, <1>3, <2>3, <2>4, <2>5 DEF ShowsOne
  <2>7. << >> \in Seq(Frames)
    OBVIOUS
  <2> QED BY <1>0, <2>6, <2>7, ShowGet
<1>4. CASE /\ Top.nr > 0
           /\ tty' = [tty EXCEPT !.con.write = GETCH(@), !.con.read = PutAll(RESPONSE, @)]
           /\ stack' = Become(fr) \o Cooked("con", FALSE)
           /\ seen' = seen \cup Mark(EMPTY(tty["con"].write), "under") \cup Nested("con")
  <2>1. RESPONSE \in Seq(Char) /\ Len(RESPONSE) \in 1 .. 2
    BY Chars DEF RESPONSE
  <2>2. PICK p \in Rings : p = PutAll(RESPONSE, tty["con"].read)
    BY <1>0, <2>1, PutAllRing
  <2>3. PICK g \in Rings : g = GETCH(tty["con"].write)
    BY <1>0, GetRing DEF Terminals
  <2>4. PICK v : v = [tty EXCEPT !["con"].write = g]
    OBVIOUS
  <2>5. v["con"].read = tty["con"].read /\ "con" \in Devices
    BY <1>0, <2>4, SetWrite DEF Devices
  <2>6. tty' = [v EXCEPT !["con"].read = p]
    BY <1>4, <2>2, <2>3, <2>4, <2>5
  <2>7. PICK x : x = Cooked("con", FALSE)
    OBVIOUS
  <2>8. x \in Seq(Frames) /\ x # << >>
    <3>1. PICK c : c = [f |-> "cooked", d |-> "con", do |-> "loop", c |-> None, intr |-> FALSE]
      OBVIOUS
    <3>2. c \in Frames
      BY <3>1, Chars DEF Frames, Cookers, Devices
    <3>3. x = <<c>>
      BY <2>7, <3>1 DEF Cooked
    <3> QED BY <3>2, <3>3
  <2>9. ShowsOne(x, p)
    BY <1>0, <1>1, <1>4, <2>3, <2>4, <2>6, <2>7, <2>8 DEF ShowsOne
  <2> QED BY <2>8, <2>9, ShowGet
<1> QED BY <1>1, <1>2, <1>3, <1>4 DEF con_write

-----------------------------------------------------------------------------
(* copy_to_cooked.                                                         *)

\* The editor on top goes on as fr, with x upon it, after its terminal became U.
EditorGoes(U, fr, x) ==
  /\ stack # << >> /\ Top.f = "cooked"
  /\ tty' = [tty EXCEPT ![Top.d] = U]
  /\ stack' = Become(fr) \o x
  /\ UNCHANGED <<cr_flag, input>>

\* What it knows of the secondary queue q as it goes on as fr.
Knows(fr, q) ==
  /\ fr.do = "put" => ~FULL(q)
  /\ fr.do \in {"erase", "killed"} => Erasable(q)
  /\ q.data = Cardinality(LineEnds(q)) + (IF fr.do = "put" /\ fr.c \in Delim THEN 1 ELSE 0)

\* What the editor on top knows.
LEMMA TopKnows ==
  ASSUME TypeOK, Placed, stack # << >>, Top.f = "cooked", EditOK(Top.d)
  PROVE  Knows(Top, tty[Top.d].sec)
<1>1. /\ Len(stack) \in Nat /\ Len(stack) >= 1 /\ Top \in Frames
      /\ Top = stack[Len(stack)]
  BY OnTop
<1>2. PICK n, d, fr : n = Len(stack) /\ d = Top.d /\ fr = Top
  OBVIOUS
<1>3. Cooker(n, d) /\ stack[n] = fr
  BY <1>1, <1>2 DEF TypeOK, Cooker
<1>4. EditOK(d)
  BY <1>2
<1>5. DelimPut(d) <=> fr.do = "put" /\ fr.c \in Delim
  BY <1>3, <1>4 DEF DelimPut, EditOK, Cooker
<1>6. (IF DelimPut(d) THEN 1 ELSE 0) = (IF fr.do = "put" /\ fr.c \in Delim THEN 1 ELSE 0)
  BY <1>5
<1> QED BY <1>2, <1>3, <1>4, <1>6 DEF Knows, EditOK

\* The editor keeps the invariant if it knows what it must, and does right by
\* the write queues.
LEMMA EditorStep ==
  ASSUME Inv, NEW U \in Terminals, NEW fr \in Cookers, NEW x \in Seq(Frames), EditorGoes(U, fr, x),
         fr.d = Top.d, Len(x) <= 1, x # << >> => x[1].f = "con_write",
         TasksCalm, seen \subseteq seen', seen' \subseteq Marks, "stray" \in seen' => "stray" \in seen,
         tx' \in BOOLEAN, tx => tx',
         U.sec.proc = tty[Top.d].sec.proc, U.write.proc = tty[Top.d].write.proc,
         EditOK(Top.d) => Knows(fr, U.sec),
         StackCalm => SerialSends',
         HandlersAre(Len(stack), fr, x) /\ StackCalm => ((Unspoilt => ConOK) => (Unspoilt' => ConOK'))
  PROVE  Inv'
<1>0. TypeOK /\ Placed /\ tty \in [Devices -> Terminals] /\ stack # << >> /\ Top.f = "cooked"
  BY DEF Inv, TypeOK, EditorGoes
<1>1. Top \in Frames /\ Top.d \in Devices
  BY <1>0, OnTop, Kinds
<1>2. PICK d \in Devices : d = Top.d
  BY <1>1
<1>3. /\ tty' \in [Devices -> Terminals] /\ tty'[d] = U
      /\ \A e \in Devices : e # d => tty'[e] = tty[e]
  <2>1. tty' = [tty EXCEPT ![d] = U]
    BY <1>2 DEF EditorGoes
  <2> QED BY <1>0, <2>1
<1>4. fr \in Frames /\ fr.f = "cooked" /\ fr.d = d /\ stack' = Become(fr) \o x
  BY <1>2 DEF Cookers, Frames, EditorGoes
<1>5. StackCalm
  BY <1>0, <1>4, BecomeCalm
<1>6. PICK n : n = Len(stack)
  OBVIOUS
<1>7. HandlersAre(n, fr, x)
  BY <1>0, <1>4, <1>6, BecomeKinds
<1>8. TypeOK'
  BY <1>0, <1>3, <1>5 DEF TypeOK, StackCalm, TasksCalm, EditorGoes
<1>9. /\ Cooker(n, d) /\ Cooker(n, d)' /\ stack'[n] = fr
      /\ \A i, e : i # n => (Cooker(i, e)' <=> Cooker(i, e))
      /\ \A e : e # d => ~Cooker(n, e) /\ ~Cooker(n, e)'
      /\ \A i, e : Cooker(i, e) /\ i # n => stack'[i] = stack[i]
  BY <1>0, <1>2, <1>4, <1>7 DEF HandlersAre
<1>10. (Clean => AllEdit) => (Clean' => AllEdit')
  <2> SUFFICES ASSUME AllEdit, NEW e \in Devices PROVE EditOK(e)'
    BY DEF Clean, AllEdit
  <2>1. EditOK(e)
    BY DEF AllEdit
  <2>2. CASE e # d
    <3>1. tty'[e] = tty[e]
      BY <1>3, <2>2
    <3>2. /\ \A i : Cooker(i, e)' <=> Cooker(i, e)
          /\ \A i : Cooker(i, e) => stack'[i] = stack[i]
      BY <1>9, <2>2
    <3> QED BY <2>1, <3>1, <3>2, EditKept
  <2>3. CASE e = d
    <3>1. Knows(fr, U.sec)
      BY <1>2, <2>1, <2>3
    <3>2. \A i : Cooker(i, d)' => i = n
      BY <1>9, <2>1, <2>3 DEF EditOK
    <3>3. PICK b \in BOOLEAN : b <=> fr.do = "put" /\ fr.c \in Delim
      OBVIOUS
    <3>4. U.sec.data = Cardinality(LineEnds(U.sec)) + (IF b THEN 1 ELSE 0)
      BY <3>1, <3>3 DEF Knows
    <3>5. EditOK(d)'
      <4>1. /\ fr.do = "put" => ~FULL(U.sec)
            /\ fr.do \in {"erase", "killed"} => Erasable(U.sec)
        BY <3>1 DEF Knows
      <4> QED BY <1>3, <1>9, <3>2, <3>3, <3>4, <4>1, EditAt
    <3> QED BY <2>3, <3>5
  <2> QED BY <2>2, <2>3
<1>11. (Unspoilt => ConOK) => (Unspoilt' => ConOK')
  BY <1>5, <1>6, <1>7
<1>12. \A e \in Devices :
         \/ Running("cooked", e)'
         \/ ~Running("cooked", e) /\ (EMPTY(tty[e].sec) => EMPTY(tty[e].sec)')
  <2>1. Running("cooked", d)
    BY <1>9 DEF Running, Cooker
  <2>2. \A e \in Devices : ~Running("cooked", e) => tty'[e] = tty[e]
    BY <1>3, <2>1
  <2> SUFFICES ASSUME NEW e \in Devices, Running("cooked", e) PROVE Running("cooked", e)'
    BY <2>2 DEF EMPTY
  <2>3. PICK i : Cooker(i, e)
    BY DEF Running, Cooker
  <2>4. Cooker(i, e)'
    BY <1>9, <2>3
  <2> QED BY <2>4 DEF Running, Cooker
<1>13. \A e \in Devices : /\ tty'[e].sec.proc = tty[e].sec.proc
                          /\ tty'[e].write.proc = tty[e].write.proc
  BY <1>2, <1>3
<1> QED BY <1>5, <1>8, <1>10, <1>11, <1>12, <1>13, InterruptStep

\* Steps of the editor that put nothing on the write queue.
LEMMA EditorQuiet ==
  ASSUME Inv, NEW U \in Terminals, NEW fr \in Cookers, EditorGoes(U, fr, << >>), fr.d = Top.d,
         TasksCalm, seen' = seen, tx' = tx, U.write = tty[Top.d].write,
         U.sec.proc = tty[Top.d].sec.proc, EditOK(Top.d) => Knows(fr, U.sec)
  PROVE  Inv'
<1>0. TypeOK /\ Placed /\ SerialSends /\ tty \in [Devices -> Terminals] /\ stack # << >>
      /\ Top.f = "cooked" /\ "con" \in Devices /\ "rs" \in Devices
  BY DEF Inv, TypeOK, EditorGoes, Devices
<1>1. Top.d \in Devices
  BY <1>0, OnTop, Kinds
<1>2. \A e \in Devices : tty'[e].write = tty[e].write
  <2>1. tty' = [tty EXCEPT ![Top.d] = U]
    BY DEF EditorGoes
  <2> QED BY <1>0, <1>1, <2>1
<1>3. ASSUME StackCalm PROVE SerialSends' /\ Filling("con")' = Filling("con")
  <2>1. \A d : Filling(d)' = Filling(d)
    BY <1>0, <1>3, Calm
  <2>2. SerialSends'
    BY <1>0, <1>2, <1>3, CalmSends DEF EMPTY
  <2> QED BY <2>1, <2>2
<1>4. ASSUME HandlersAre(Len(stack), fr, << >>), StackCalm
      PROVE  (Unspoilt => ConOK) => (Unspoilt' => ConOK')
  <2>1. fr.f = "cooked"
    BY DEF Cookers
  <2>2. /\ \A i : Shower(i)' <=> Shower(i)
        /\ \A i : Shower(i) => stack'[i] = stack[i]
    BY <1>0, <1>4, <2>1 DEF HandlersAre
  <2>3. tty'["con"].write = tty["con"].write
    BY <1>0, <1>2
  <2> QED BY <1>3, <1>4, <2>2, <2>3, SameShow
<1>5. << >> \in Seq(Frames) /\ Len(<< >>) <= 1
  OBVIOUS
<1>6. seen \subseteq seen' /\ seen' \subseteq Marks /\ ("stray" \in seen' => "stray" \in seen)
      /\ tx' \in BOOLEAN
  BY <1>0 DEF TypeOK
<1> QED BY <1>3, <1>4, <1>5, <1>6, EditorStep

\* Steps of the editor that echo.
LEMMA EditorSays ==
  ASSUME Inv, stack # << >>, Top.f = "cooked", NEW T \in Terminals, NEW fr \in Cookers,
         NEW s \in Seq(Char), Len(s) \in 1 .. 2, Say(Top.d, T, s, fr), fr.d = Top.d,
         T.write = tty[Top.d].write, T.sec.proc = tty[Top.d].sec.proc,
         EditOK(Top.d) => Knows(fr, T.sec)
  PROVE  Inv'
<1>0. TypeOK /\ Placed /\ SerialSends /\ tty \in [Devices -> Terminals]
      /\ "con" \in Devices /\ "rs" \in Devices
  BY DEF Inv, TypeOK, Devices
<1>1. PICK d \in Devices : d = Top.d
  BY <1>0, OnTop, Kinds
<1>2. task' = task /\ cr_flag' = cr_flag /\ input' = input
  BY DEF Say
<1>3. TasksCalm
  BY <1>0, <1>2, SameTasks
<1>4. CASE ~T.termios.echo
  <2>1. /\ tty' = [tty EXCEPT ![Top.d] = T] /\ stack' = Become(fr) \o << >>
        /\ tx' = tx /\ seen' = seen
    BY <1>4 DEF Say, Mark
  <2>2. EditorGoes(T, fr, << >>)
    BY <1>2, <2>1 DEF EditorGoes
  <2> QED BY <1>3, <2>1, <2>2, EditorQuiet
<1>5. CASE T.termios.echo
  <2>1. T.write \in Rings
    BY DEF Terminals
  <2>2. PICK p \in Rings : p = PutAll(s, T.write) /\ p.proc = T.write.proc
    BY <2>1, PutAllRing
  <2>3. PICK U : U = [T EXCEPT !.write = p]
    OBVIOUS
  <2>4. U \in Terminals /\ U.write = p /\ U.sec = T.sec
    BY <2>3 DEF Terminals
  <2>5. PICK x : x = Entered(d, p)
    OBVIOUS
  <2>6. /\ tty' = [tty EXCEPT ![Top.d] = U] /\ stack' = Become(fr) \o x
        /\ tx' = Enabled(d, p)
        /\ seen' = seen \cup Overlap(d) \cup Mark(Len(s) > LEFT(T.write), "over")
    BY <1>1, <1>5, <2>2, <2>3, <2>4, <2>5 DEF Say
  <2>7. EditorGoes(U, fr, x)
    BY <1>2, <2>6 DEF EditorGoes
  <2>8. /\ x \in Seq(Frames) /\ Len(x) <= 1 /\ (x # << >> <=> d = "con")
        /\ x # << >> => x[1].f = "con_write" /\ x[1].nr = CHARS(p)
    <3>1. CASE d = "con"
      <4>1. PICK w : w = [f |-> "con_write", d |-> "con", nr |-> CHARS(p)]
        OBVIOUS
      <4>2. CHARS(p) \in Nat
        <5>1. CHARS(p) \in 0 .. N - 1
          BY RingCount
        <5> QED BY <5>1
      <4>3. w \in Frames /\ w.f = "con_write" /\ w.nr = CHARS(p)
        BY <4>1, <4>2 DEF Frames, Showers
      <4>4. x = <<w>>
        BY <2>5, <3>1, <4>1 DEF Entered
      <4> QED BY <3>1, <4>3, <4>4
    <3>2. CASE d # "con"
      <4>1. x = << >>
        BY <2>5, <3>2 DEF Entered
      <4> QED BY <3>2, <4>1
    <3> QED BY <3>1, <3>2
  <2>9. /\ seen \subseteq seen' /\ seen' \subseteq Marks /\ ("stray" \in seen' => "stray" \in seen)
        /\ tx' \in BOOLEAN /\ (tx => tx')
    <3>1. seen \subseteq Marks /\ tx \in BOOLEAN
      BY <1>0 DEF TypeOK
    <3>2. Overlap(d) \subseteq {"overlap"} /\ Mark(Len(s) > LEFT(T.write), "over") \subseteq {"over"}
      BY DEF Overlap, Mark
    <3>3. tx' \in BOOLEAN /\ (tx => tx')
      BY <2>6, <3>1 DEF Enabled
    <3> QED BY <2>6, <3>1, <3>2, <3>3 DEF Marks
  <2>10. tty'[d] = U /\ \A e \in Devices : e # d => tty'[e] = tty[e]
    BY <1>0, <1>1, <2>6
  <2>11. ASSUME StackCalm PROVE SerialSends'
    <3>2. CASE d = "rs"
      <4>1. tx' = (tx \/ ~EMPTY(p)) /\ tty'["rs"].write = p
        BY <2>4, <2>6, <2>10, <3>2 DEF Enabled
      <4> QED BY <4>1 DEF SerialSends
    <3>3. CASE d # "rs"
      <4>1. tty'["rs"] = tty["rs"]
        BY <1>0, <2>10, <3>3
      <4> QED BY <1>0, <1>3, <2>9, <2>11, <4>1, CalmSends DEF EMPTY
    <3> QED BY <3>2, <3>3
  <2>12. ASSUME HandlersAre(Len(stack), fr, x), StackCalm
         PROVE  (Unspoilt => ConOK) => (Unspoilt' => ConOK')
    <3>1. fr.f = "cooked"
      BY DEF Cookers
    <3>2. PICK n, k : n = Len(stack) /\ k = n + 1
      OBVIOUS
    <3>3. HandlersAre(n, fr, x)
      BY <2>12, <3>2
    <3>4. CASE d = "con"
      <4>1. \A i : Shower(i)' <=> (Shower(i) \/ i = k)
        BY <2>8, <3>1, <3>2, <3>3, <3>4 DEF HandlersAre
      <4>2. stack'[k].nr = CHARS(p)
        BY <2>8, <3>2, <3>3, <3>4 DEF HandlersAre
      <4> SUFFICES ASSUME Unspoilt' PROVE ConOK'
        OBVIOUS
      <4>3. ~Running("con_write", "con")
        BY <2>6, <3>4 DEF Unspoilt, Overlap, Mark
      <4>4. \A i : ~Shower(i)
        BY <1>0, <4>3, ShowerRuns
      <4>5. tty'["con"].write = p
        BY <2>4, <2>10, <3>4
      <4> QED BY <4>1, <4>2, <4>4, <4>5, ConAt
    <3>5. CASE d # "con"
      <4>1. x = << >>
        BY <2>8, <3>5
      <4>2. /\ \A i : Shower(i)' <=> Shower(i)
            /\ \A i : Shower(i) => stack'[i] = stack[i]
        BY <3>1, <3>3, <4>1 DEF HandlersAre
      <4>3. tty'["con"] = tty["con"]
        BY <1>0, <2>10, <3>5
      <4>4. Filling("con") => Filling("con")'
        BY <1>0, <1>3, <2>12, Calm
      <4> QED BY <2>9, <4>2, <4>3, <4>4, SameShow
    <3> QED BY <3>4, <3>5
  <2>13. U.sec.proc = tty[Top.d].sec.proc /\ U.write.proc = tty[Top.d].write.proc
         /\ (EditOK(Top.d) => Knows(fr, U.sec)) /\ (x # << >> => x[1].f = "con_write")
    BY <2>2, <2>4, <2>8
  <2> QED BY <1>3, <2>4, <2>7, <2>8, <2>9, <2>11, <2>12, <2>13, EditorStep
<1> QED BY <1>4, <1>5

\* The editor changes its secondary queue and goes on.
LEMMA EditorSec ==
  ASSUME Inv, stack # << >>, Top.f = "cooked", NEW q \in Rings, q.proc = tty[Top.d].sec.proc,
         NEW fr \in Cookers, fr.d = Top.d,
         tty' = [tty EXCEPT ![Top.d].sec = q], stack' = Become(fr),
         UNCHANGED <<task, tx, cr_flag, input, seen>>,
         EditOK(Top.d) => Knows(fr, q)
  PROVE  Inv'
<1>0. TypeOK /\ tty \in [Devices -> Terminals]
  BY DEF Inv, TypeOK
<1>1. PICK d \in Devices, T \in Terminals : d = Top.d /\ T = tty[d]
  BY <1>0, OnTop, Kinds
<1>2. PICK U : U = [T EXCEPT !.sec = q]
  OBVIOUS
<1>3. U \in Terminals /\ U.sec = q /\ U.write = T.write
  BY <1>2 DEF Terminals
<1>4. tty' = [tty EXCEPT ![Top.d] = U]
  BY <1>1, <1>2
<1>5. stack' = Become(fr) \o << >>
  BY <1>0, BecomeOnly DEF Frames
<1>6. EditorGoes(U, fr, << >>) /\ TasksCalm
  BY <1>0, <1>4, <1>5, SameTasks DEF EditorGoes
<1> QED BY <1>1, <1>3, <1>6, EditorQuiet

\* The end of copy_to_cooked: whoever waits for the secondary queue is woken.
LEMMA EditorEnds ==
  ASSUME Inv, stack # << >>, Top.f = "cooked", Top.do = "loop",
         task' = Woken(task, tty[Top.d].sec.proc), stack' = Front(stack),
         UNCHANGED <<tty, tx, cr_flag, input, seen>>
  PROVE  Inv'
<1>0. TypeOK /\ Placed /\ Threaded /\ SerialSends
  BY DEF Inv
<1>1. PICK d \in Devices : d = Top.d
  BY <1>0, OnTop, Kinds
<1>2. /\ StackCalm /\ Len(stack) \in Nat \ {0} /\ Top = stack[Len(stack)] /\ Top \in Frames
      /\ DOMAIN stack = 1 .. Len(stack) /\ DOMAIN stack' = 1 .. Len(stack) - 1
      /\ \A i \in 1 .. Len(stack) - 1 : stack'[i] = stack[i]
  BY <1>0, PopCalm
<1>3. TasksCalm
  BY <1>0, WokenCalm DEF TasksCalm
<1>4. TypeOK'
  BY <1>0, <1>2, <1>3 DEF TypeOK, StackCalm, TasksCalm
<1>5. PICK n \in Nat \ {0} : n = Len(stack)
  BY <1>2
<1>6. /\ Cooker(n, d) /\ \A e : Cooker(n, e) => e = d
      /\ \A i, e : Cooker(i, e)' <=> Cooker(i, e) /\ i # n
      /\ \A i, e : Cooker(i, e) /\ i # n => stack'[i] = stack[i]
  <2>1. Cooker(n, d) /\ \A e : Cooker(n, e) => e = d
    BY <1>1, <1>2, <1>5 DEF Cooker
  <2>2. \A i : i \in 1 .. n - 1 <=> i \in 1 .. n /\ i # n
    OBVIOUS
  <2>3. ASSUME NEW i, NEW e PROVE Cooker(i, e)' <=> Cooker(i, e) /\ i # n
    BY <1>2, <1>5, <2>2 DEF Cooker
  <2>4. \A i, e : Cooker(i, e) /\ i # n => stack'[i] = stack[i]
    BY <1>2, <1>5, <2>2 DEF Cooker
  <2> QED BY <2>1, <2>3, <2>4
<1>7. /\ \A i : Shower(i)' <=> Shower(i)
      /\ \A i : Shower(i) => stack'[i] = stack[i]
  <2>1. \A i : i \in 1 .. n - 1 <=> i \in 1 .. n /\ i # n
    OBVIOUS
  <2>2. ASSUME NEW i PROVE Shower(i)' <=> Shower(i)
    BY <1>2, <1>5, <2>1 DEF Shower
  <2>3. \A i : Shower(i) => stack'[i] = stack[i]
    BY <1>2, <1>5, <2>1 DEF Shower
  <2> QED BY <2>2, <2>3
<1>8. (Clean => AllEdit) => (Clean' => AllEdit')
  <2> SUFFICES ASSUME AllEdit, NEW e \in Devices PROVE EditOK(e)'
    BY DEF Clean, AllEdit
  <2>1. EditOK(e)
    BY DEF AllEdit
  <2>2. CASE e # d
    <3>1. \A i : Cooker(i, e)' <=> Cooker(i, e)
      BY <1>6, <2>2
    <3>2. \A i : Cooker(i, e) => stack'[i] = stack[i]
      BY <1>6, <2>2
    <3> QED BY <2>1, <3>1, <3>2, EditKept
  <2>3. CASE e = d
    <3>1. Knows(Top, tty[Top.d].sec)
      BY <1>0, <1>1, <2>1, <2>3, TopKnows
    <3>2. tty'[d].sec.data = Cardinality(LineEnds(tty'[d].sec)) + (IF FALSE THEN 1 ELSE 0)
      BY <1>1, <3>1 DEF Knows
    <3>3. \A i : ~Cooker(i, d)'
      BY <1>6, <2>1, <2>3 DEF EditOK
    <3>4. EditOK(d)'
      BY <3>2, <3>3, EditAt
    <3> QED BY <2>3, <3>4
  <2> QED BY <2>2, <2>3
<1>9. \A f : Filling(f)' = Filling(f)
  BY <1>0, <1>2, <1>3, Calm
<1>10. SerialSends'
  BY <1>0, <1>2, <1>3, CalmSends DEF EMPTY
<1>11. (Unspoilt => ConOK) => (Unspoilt' => ConOK')
  BY <1>7, <1>9, SameShow
<1>12. ASSUME NEW e \in Devices, Waiting("read", e) # {}
       PROVE  \/ Awake("read", e)' \/ Running("cooked", e)'
              \/ ~Running("cooked", e) /\ (EMPTY(tty[e].sec) => EMPTY(tty[e].sec)')
  <2>1. CASE e = d
    <3>1. task' = Woken(task, Proc("read", d))
      BY <1>1 DEF Proc
    <3> QED BY <1>0, <1>2, <1>3, <1>12, <2>1, <3>1, HeadWoken
  <2>2. CASE e # d
    <3> SUFFICES ASSUME Running("cooked", e) PROVE Running("cooked", e)'
      BY DEF EMPTY
    <3>1. PICK i : Cooker(i, e)
      BY DEF Running, Cooker
    <3>2. Cooker(i, e)'
      BY <1>6, <2>2, <3>1
    <3> QED BY <3>2 DEF Running, Cooker
  <2> QED BY <2>1, <2>2
<1> QED BY <1>2, <1>3, <1>4, <1>8, <1>10, <1>11, <1>12, InterruptStep

\* tty_intr sends signals and does nothing else.
LEMMA IntrCalm ==
  ASSUME TypeOK, NEW d, NEW g \in Signals, task' = tty_intr(d, g)
  PROVE  TasksCalm
<1>1. task \in [Task -> Tasks]
  BY DEF TypeOK
<1>2. ASSUME NEW t \in Task
      PROVE  /\ task'[t] \in Tasks /\ task'[t].call = task[t].call
             /\ task'[t].alarm = task[t].alarm /\ task'[t].st = task[t].st
             /\ task[t].sig \subseteq task'[t].sig
  <2>1. task'[t] = task[t] \/ task'[t] = [task[t] EXCEPT !.sig = @ \cup {g}]
    BY DEF tty_intr, Signalled
  <2>2. PICK r \in Tasks : r = task[t]
    BY <1>1
  <2>3. PICK v : v = [r EXCEPT !.sig = @ \cup {g}]
    OBVIOUS
  <2>4. v \in Tasks /\ v.call = r.call /\ v.alarm = r.alarm /\ v.st = r.st /\ r.sig \subseteq v.sig
    BY <2>3 DEF Tasks
  <2> QED BY <2>1, <2>2, <2>3, <2>4
<1>3. task' \in [Task -> Tasks]
  <2>1. task' = [t \in Task |-> task'[t]]
    BY DEF tty_intr
  <2> QED BY <1>2, <2>1
<1> QED BY <1>2, <1>3 DEF TasksCalm

\* What is echoed, and the rubouts, are one or two characters.
LEMMA EchoChars ==
  ASSUME NEW c \in Char
  PROVE  /\ Echo(c) \in Seq(Char) /\ Len(Echo(c)) \in 1 .. 2
         /\ Rub(c) \in Seq(Char) /\ Len(Rub(c)) \in 1 .. 2
<1>1. Echo(c) = <<"NL", "CR">> \/ Echo(c) = <<"^", c>> \/ Echo(c) = <<c>>
  BY DEF Echo
<1>2. Rub(c) = <<"DEL", "DEL">> \/ Rub(c) = <<"DEL">>
  BY DEF Rub
<1>3. PICK nl \in Char, cr \in Char, ca \in Char, de \in Char :
        nl = "NL" /\ cr = "CR" /\ ca = "^" /\ de = "DEL"
  BY Chars
<1>4. \A a, b \in Char : <<a, b>> \in Seq(Char) /\ Len(<<a, b>>) \in 1 .. 2
  OBVIOUS
<1>5. \A a \in Char : <<a>> \in Seq(Char) /\ Len(<<a>>) \in 1 .. 2
  OBVIOUS
<1>6. Echo(c) = <<nl, cr>> \/ Echo(c) = <<ca, c>> \/ Echo(c) = <<c>>
  BY <1>1, <1>3
<1>7. Rub(c) = <<de, de>> \/ Rub(c) = <<de>>
  BY <1>2, <1>3
<1> QED BY <1>4, <1>5, <1>6, <1>7

\* The editor takes a character from the read queue.
LEMMA TakeStep ==
  ASSUME Inv, stack # << >>, Top.f = "cooked", Top.do = "loop", Take
  PROVE  Inv'
<1>0. TypeOK /\ Placed /\ tty \in [Devices -> Terminals]
  BY DEF Inv, TypeOK
<1>1. Top \in Frames /\ Top \in Cookers
  BY <1>0, OnTop, Kinds
<1>2. PICK d \in Devices, O \in Terminals : d = Top.d /\ O = tty[d]
  BY <1>0, <1>1, Kinds
<1>3. PICK g \in Rings : g = GETCH(O.read)
  BY GetRing DEF Terminals
<1>4. PICK T : T = [O EXCEPT !.read = g]
  OBVIOUS
<1>5. T \in Terminals /\ T.sec = O.sec /\ T.write = O.write /\ T.termios = O.termios
  BY <1>4 DEF Terminals
<1>6. PICK c \in Char : c = Typed(tty[d])
  <2>1. O.read \in Rings
    BY DEF Terminals
  <2>2. First(O.read) \in Char
    BY <2>1, RingCount DEF First, Rings, N
  <2> QED BY <1>2, <2>2, Chars DEF Typed
<1>7. T = [tty[Top.d] EXCEPT !.read = GETCH(@)] /\ c = Typed(tty[Top.d])
  BY <1>2, <1>3, <1>4, <1>6
<1>8. T.sec.proc = tty[Top.d].sec.proc /\ T.write = tty[Top.d].write /\ T.sec = tty[Top.d].sec
  BY <1>2, <1>5
<1>9. EditOK(Top.d) => Knows(Top, T.sec)
  BY <1>0, <1>8, TopKnows
<1>10. EditOK(Top.d) => T.sec.data = Cardinality(LineEnds(T.sec))
  <2>1. Cardinality(LineEnds(T.sec)) \in Nat
    BY FiniteLines
  <2> QED BY <1>9, <2>1 DEF Knows
<1>11. stack = Become(Top) \o << >>
  <2>1. Become(Top) = stack
    BY <1>0, OnTop DEF Become, TypeOK
  <2> QED BY <1>0, <1>1, <2>1, BecomeOnly
<1> DEFINE Goes(do) == [Top EXCEPT !.do = do, !.c = c]
           Quiet(U) == tty' = [tty EXCEPT ![Top.d] = U] /\ UNCHANGED <<tx, cr_flag, input, seen>>
<1>12. ASSUME NEW do \in {"loop", "put", "erase", "kill", "killed"}
       PROVE  /\ Goes(do) \in Cookers /\ Goes(do) \in Frames /\ Goes(do).d = Top.d
              /\ Goes(do).do = do /\ Goes(do).c = c
  BY <1>1 DEF Cookers, Frames
<1>13. ASSUME NEW U \in Terminals, U.sec = T.sec, U.write = T.write, Quiet(U), stack' = stack, TasksCalm
       PROVE  Inv'
  <2>1. EditorGoes(U, Top, << >>)
    BY <1>11, <1>13 DEF EditorGoes
  <2>2. EditOK(Top.d) => Knows(Top, U.sec)
    BY <1>9, <1>13
  <2>3. U.sec.proc = tty[Top.d].sec.proc /\ U.write = tty[Top.d].write
    BY <1>8, <1>13
  <2> QED BY <1>1, <1>13, <2>1, <2>2, <2>3, EditorQuiet
<1> HIDE DEF Goes
<1>14. CASE Quiet(T) /\ UNCHANGED <<task, stack>>
  BY <1>0, <1>5, <1>13, <1>14, SameTasks
<1>15. CASE Quiet(T) /\ stack' = Become(Goes("kill")) /\ UNCHANGED task
  <2>1. PICK fr \in Cookers : fr = Goes("kill") /\ fr \in Frames /\ fr.d = Top.d /\ fr.do = "kill"
    BY <1>12
  <2>2. stack' = Become(fr) \o << >>
    BY <1>0, <1>15, <2>1, BecomeOnly
  <2>3. EditorGoes(T, fr, << >>) /\ TasksCalm
    BY <1>0, <1>15, <2>2, SameTasks DEF EditorGoes
  <2>4. EditOK(Top.d) => Knows(fr, T.sec)
    <3>1. Cardinality(LineEnds(T.sec)) \in Nat
      BY FiniteLines
    <3> QED BY <1>10, <2>1, <3>1 DEF Knows
  <2> QED BY <1>5, <1>8, <1>15, <2>1, <2>3, <2>4, EditorQuiet
<1>16. CASE Erasable(T.sec) /\ Say(Top.d, T, Rub(LAST(T.sec)), Goes("erase"))
  <2>1. PICK fr \in Cookers : fr = Goes("erase") /\ fr.d = Top.d /\ fr.do = "erase"
    BY <1>12
  <2>2. EditOK(Top.d) => Knows(fr, T.sec)
    <3>1. Cardinality(LineEnds(T.sec)) \in Nat
      BY FiniteLines
    <3> QED BY <1>10, <1>16, <2>1, <3>1 DEF Knows
  <2>3. LAST(T.sec) \in Char
    <3>1. T.sec \in Rings
      BY <1>5 DEF Terminals
    <3>2. PICK h \in 0 .. N - 1 : h = T.sec.head
      BY <3>1, RingCount
    <3>3. Mod(h - 1) \in 0 .. N - 1
      BY TtyAssumption, ModTurn DEF N
    <3> QED BY <3>1, <3>2, <3>3 DEF LAST, Rings, N
  <2>4. PICK s \in Seq(Char) : s = Rub(LAST(T.sec)) /\ Len(s) \in 1 .. 2
    BY <2>3, EchoChars
  <2>5. Say(Top.d, T, s, fr)
    BY <1>16, <2>1, <2>4
  <2> QED BY <1>5, <1>8, <2>1, <2>2, <2>4, <2>5, EditorSays
<1>17. CASE Quiet([T EXCEPT !.stopped = (c = "STOP")]) /\ UNCHANGED <<task, stack>>
  <2>1. PICK U : U = [T EXCEPT !.stopped = (c = "STOP")]
    OBVIOUS
  <2>2. U \in Terminals /\ U.sec = T.sec /\ U.write = T.write
    BY <1>5, <2>1 DEF Terminals
  <2>3. Quiet(U)
    BY <1>17, <2>1
  <2> QED BY <1>0, <1>13, <1>17, <2>2, <2>3, SameTasks
<1>18. CASE c \in {"INTR", "QUIT"} /\ task' = tty_intr(Top.d, c) /\ Quiet(T) /\ UNCHANGED stack
  <2>1. TasksCalm
    BY <1>0, <1>18, IntrCalm DEF Signals
  <2> QED BY <1>5, <1>13, <1>18, <2>1
<1>19. CASE /\ ~FULL(T.sec)
            /\ Say(Top.d, [T EXCEPT !.sec.data = @ + (IF c \in Delim THEN 1 ELSE 0)], Echo(c), Goes("put"))
  <2>1. PICK fr \in Cookers : fr = Goes("put") /\ fr.d = Top.d /\ fr.do = "put" /\ fr.c = c
    BY <1>12
  <2>2. PICK j \in Nat : j = IF c \in Delim THEN 1 ELSE 0
    OBVIOUS
  <2>3. PICK q \in Rings : q = T.sec
    BY <1>5 DEF Terminals
  <2>4. PICK r : r = [q EXCEPT !.data = @ + j]
    OBVIOUS
  <2>5. r \in Rings /\ r.head = q.head /\ r.tail = q.tail /\ r.buf = q.buf /\ r.proc = q.proc
        /\ r.data = q.data + j
    BY <2>4 DEF Rings
  <2>6. PICK U : U = [T EXCEPT !.sec = r]
    OBVIOUS
  <2>7. U \in Terminals /\ U.sec = r /\ U.write = T.write
    BY <1>5, <2>5, <2>6 DEF Terminals
  <2>8. U = [T EXCEPT !.sec.data = @ + (IF c \in Delim THEN 1 ELSE 0)]
    BY <2>2, <2>3, <2>4, <2>6
  <2>9. EditOK(Top.d) => Knows(fr, r)
    <3>1. FULL(r) = FULL(q) /\ LineEnds(r) = LineEnds(q)
      BY <2>5, SameRing
    <3>2. ~FULL(r)
      BY <1>19, <2>3, <3>1
    <3>3. EditOK(Top.d) => r.data = Cardinality(LineEnds(r)) + j
      BY <1>10, <2>3, <2>5, <3>1
    <3> QED BY <2>1, <2>2, <3>2, <3>3 DEF Knows
  <2>10. PICK s \in Seq(Char) : s = Echo(c) /\ Len(s) \in 1 .. 2
    BY EchoChars
  <2>11. Say(Top.d, U, s, fr)
    BY <1>19, <2>1, <2>8, <2>10
  <2> QED BY <1>8, <2>1, <2>3, <2>5, <2>7, <2>9, <2>10, <2>11, EditorSays
<1>20. /\ ~FULL(T.sec)
       /\ \/ Quiet(T) /\ UNCHANGED <<task, stack>>
          \/ Quiet(T) /\ stack' = Become(Goes("kill")) /\ UNCHANGED task
          \/ Erasable(T.sec) /\ Say(Top.d, T, Rub(LAST(T.sec)), Goes("erase"))
          \/ Quiet([T EXCEPT !.stopped = (c = "STOP")]) /\ UNCHANGED <<task, stack>>
          \/ c \in {"INTR", "QUIT"} /\ task' = tty_intr(Top.d, c) /\ Quiet(T) /\ UNCHANGED stack
          \/ Say(Top.d, [T EXCEPT !.sec.data = @ + (IF c \in Delim THEN 1 ELSE 0)], Echo(c), Goes("put"))
  BY <1>7, Zenon DEF Take, Goes
<1> QED BY <1>14, <1>15, <1>16, <1>17, <1>18, <1>19, <1>20

\* copy_to_cooked: whatever it does keeps the invariant.
LEMMA CopyToCookedStep ==
  ASSUME Inv, copy_to_cooked
  PROVE  Inv'
<1>0. TypeOK /\ Placed /\ tty \in [Devices -> Terminals] /\ stack # << >> /\ Top.f = "cooked"
  BY DEF Inv, TypeOK, copy_to_cooked
<1>1. Top \in Frames /\ Top \in Cookers
  BY <1>0, OnTop, Kinds
<1>2. PICK d \in Devices, O \in Terminals, q \in Rings : d = Top.d /\ O = tty[d] /\ q = O.sec
  BY <1>0, <1>1, Kinds DEF Terminals
<1>3. EditOK(Top.d) => Knows(Top, q)
  BY <1>0, <1>2, TopKnows
<1> DEFINE Goes(do) == [Top EXCEPT !.do = do]
<1>4. ASSUME NEW do \in {"loop", "put", "erase", "kill", "killed"}
      PROVE  /\ Goes(do) \in Cookers /\ Goes(do).d = Top.d /\ Goes(do).do = do
             /\ Goes(do).c = Top.c
  BY <1>1 DEF Cookers
<1> HIDE DEF Goes
<1>5. Cardinality(LineEnds(q)) \in Nat
  BY FiniteLines
<1>6. CASE Top.do = "put" /\ tty' = [tty EXCEPT ![Top.d].sec = PUTCH(Top.c, tty[Top.d].sec)]
           /\ stack' = Become(Goes("loop")) /\ UNCHANGED <<task, tx, cr_flag, input, seen>>
  <2>1. PICK c \in Char : c = Top.c
    BY <1>1 DEF Cookers
  <2>2. PICK r \in Rings : r = PUTCH(c, q) /\ r.proc = q.proc /\ r.data = q.data
    BY PutRing
  <2>3. PICK fr \in Cookers : fr = Goes("loop") /\ fr.d = Top.d /\ fr.do = "loop"
    BY <1>4
  <2>4. EditOK(Top.d) => Knows(fr, r)
    <3> SUFFICES ASSUME EditOK(Top.d) PROVE Knows(fr, r)
      OBVIOUS
    <3>1. ~FULL(q) /\ q.data = Cardinality(LineEnds(q)) + (IF c \in Delim THEN 1 ELSE 0)
      BY <1>3, <1>6, <2>1 DEF Knows
    <3>2. Cardinality(LineEnds(r)) = Cardinality(LineEnds(q)) + (IF c \in Delim THEN 1 ELSE 0)
      BY <2>2, <3>1, LinesPut
    <3>3. Cardinality(LineEnds(r)) \in Nat
      BY FiniteLines
    <3> QED BY <2>2, <2>3, <3>1, <3>2, <3>3 DEF Knows
  <2>5. tty' = [tty EXCEPT ![Top.d].sec = r] /\ r.proc = tty[Top.d].sec.proc /\ stack' = Become(fr)
    BY <1>2, <1>6, <2>1, <2>2, <2>3
  <2> QED BY <1>0, <1>6, <2>3, <2>4, <2>5, EditorSec
<1>7. ASSUME NEW do \in {"loop", "kill"}, Top.do \in {"erase", "killed"},
             tty' = [tty EXCEPT ![Top.d].sec = DEC(tty[Top.d].sec)],
             stack' = Become(Goes(do)), UNCHANGED <<task, tx, cr_flag, input, seen>>
      PROVE  Inv'
  <2>1. PICK r \in Rings : r = DEC(q) /\ r.proc = q.proc /\ r.data = q.data
    BY DecRing
  <2>2. PICK fr \in Cookers : fr = Goes(do) /\ fr.d = Top.d /\ fr.do = do
    BY <1>4
  <2>3. EditOK(Top.d) => Knows(fr, r)
    <3> SUFFICES ASSUME EditOK(Top.d) PROVE Knows(fr, r)
      OBVIOUS
    <3>1. Erasable(q) /\ q.data = Cardinality(LineEnds(q))
      BY <1>3, <1>5, <1>7 DEF Knows
    <3>2. LineEnds(r) = LineEnds(q)
      BY <2>1, <3>1, LinesDec
    <3> QED BY <1>5, <1>7, <2>1, <2>2, <3>1, <3>2 DEF Knows
  <2>4. tty' = [tty EXCEPT ![Top.d].sec = r] /\ r.proc = tty[Top.d].sec.proc /\ stack' = Become(fr)
    BY <1>2, <1>7, <2>1, <2>2
  <2> QED BY <1>0, <1>7, <2>2, <2>3, <2>4, EditorSec
<1>8. CASE Top.do = "kill" /\ Erasable(tty[Top.d].sec)
           /\ Say(Top.d, tty[Top.d], Rub(LAST(tty[Top.d].sec)), Goes("killed"))
  <2>1. PICK fr \in Cookers : fr = Goes("killed") /\ fr.d = Top.d /\ fr.do = "killed"
    BY <1>4
  <2>2. EditOK(Top.d) => Knows(fr, O.sec)
    BY <1>2, <1>3, <1>5, <1>8, <2>1 DEF Knows
  <2>3. LAST(q) \in Char
    <3>1. PICK h \in 0 .. N - 1 : h = q.head
      BY RingCount
    <3>2. Mod(h - 1) \in 0 .. N - 1
      BY TtyAssumption, ModTurn DEF N
    <3> QED BY <3>1, <3>2 DEF LAST, Rings, N
  <2>4. PICK s \in Seq(Char) : s = Rub(LAST(q)) /\ Len(s) \in 1 .. 2
    BY <2>3, EchoChars
  <2>5. Say(Top.d, O, s, fr) /\ O.write = tty[Top.d].write /\ O.sec.proc = tty[Top.d].sec.proc
    BY <1>2, <1>8, <2>1, <2>4
  <2> QED BY <1>0, <2>1, <2>2, <2>4, <2>5, EditorSays
<1>9. CASE Top.do = "kill" /\ stack' = Become(Goes("loop"))
           /\ UNCHANGED <<tty, task, tx, cr_flag, input, seen>>
  <2>1. PICK fr \in Cookers : fr = Goes("loop") /\ fr.d = Top.d /\ fr.do = "loop"
    BY <1>4
  <2>2. EditOK(Top.d) => Knows(fr, O.sec)
    BY <1>2, <1>3, <1>5, <1>9, <2>1 DEF Knows
  <2>3. tty' = [tty EXCEPT ![Top.d] = O]
    BY <1>0, <1>2, <1>9
  <2>4. stack' = Become(fr) \o << >>
    BY <1>0, <1>9, <2>1, BecomeOnly DEF Frames
  <2>5. EditorGoes(O, fr, << >>) /\ TasksCalm
    BY <1>0, <1>9, <2>3, <2>4, SameTasks DEF EditorGoes
  <2> QED BY <1>2, <1>9, <2>1, <2>2, <2>5, EditorQuiet
<1>10. \/ Top.do = "loop" /\ Take
       \/ /\ Top.do = "loop" /\ task' = Woken(task, tty[Top.d].sec.proc) /\ stack' = Front(stack)
          /\ UNCHANGED <<tty, tx, cr_flag, input, seen>>
       \/ /\ Top.do = "put" /\ tty' = [tty EXCEPT ![Top.d].sec = PUTCH(Top.c, tty[Top.d].sec)]
          /\ stack' = Become(Goes("loop")) /\ UNCHANGED <<task, tx, cr_flag, input, seen>>
       \/ /\ Top.do = "erase" /\ tty' = [tty EXCEPT ![Top.d].sec = DEC(tty[Top.d].sec)]
          /\ stack' = Become(Goes("loop")) /\ UNCHANGED <<task, tx, cr_flag, input, seen>>
       \/ /\ Top.do = "kill" /\ Erasable(tty[Top.d].sec)
          /\ Say(Top.d, tty[Top.d], Rub(LAST(tty[Top.d].sec)), Goes("killed"))
       \/ /\ Top.do = "killed" /\ tty' = [tty EXCEPT ![Top.d].sec = DEC(tty[Top.d].sec)]
          /\ stack' = Become(Goes("kill")) /\ UNCHANGED <<task, tx, cr_flag, input, seen>>
       \/ /\ Top.do = "kill" /\ stack' = Become(Goes("loop"))
          /\ UNCHANGED <<tty, task, tx, cr_flag, input, seen>>
  BY Zenon DEF copy_to_cooked, Goes
<1> QED BY <1>0, <1>6, <1>7, <1>8, <1>9, <1>10, TakeStep, EditorEnds

\* The keyboard and the serial line.
LEMMA ReceiveStep ==
  ASSUME Inv, (\E c \in Keys : keyboard_interrupt(c)) \/ (\E c \in Received : read_char(c))
  PROVE  Inv'
<1>0. input \in [keys : Nat, recv : Nat, faults : Nat]
  BY DEF Inv, TypeOK
<1>1. ASSUME NEW c \in Keys, keyboard_interrupt(c) PROVE Inv'
  <2>1. c \in Char /\ "con" \in Devices
    BY CharAssumption DEF Devices
  <2>2. Arrive("con", c) /\ input' \in [keys : Nat, recv : Nat, faults : Nat]
    BY <1>0, <1>1 DEF keyboard_interrupt
  <2> QED BY <2>1, <2>2, ArriveStep
<1>2. ASSUME NEW c \in Received, read_char(c) PROVE Inv'
  <2>1. c \in Char /\ "rs" \in Devices
    BY CharAssumption DEF Devices
  <2>2. Arrive("rs", c) /\ input' \in [keys : Nat, recv : Nat, faults : Nat]
    BY <1>0, <1>2 DEF read_char
  <2> QED BY <2>1, <2>2, ArriveStep
<1> QED BY <1>1, <1>2

\* A timeout runs out: in user mode only after an EOF left it armed.
LEMMA AlarmStep ==
  ASSUME Inv, NEW t \in Task, Alarm(t)
  PROVE  Inv'
<1>0. TypeOK /\ Placed /\ SerialSends /\ task \in [Task -> Tasks] /\ seen \subseteq Marks
  BY DEF Inv, TypeOK
<1>1. PICK r \in Tasks, v \in Tasks : /\ r = task[t] /\ task' = [task EXCEPT ![t] = v]
                                    /\ v.call = r.call /\ ~v.alarm /\ v.st = r.st /\ r.sig \subseteq v.sig
  <2>1. PICK r \in Tasks : r = task[t]
    BY <1>0
  <2>2. PICK s \in Tasks : s = Signalled(t, "ALRM") /\ s.call = r.call /\ s.st = r.st /\ r.sig \subseteq s.sig
    <3>1. CASE task[t].st = "user"
      BY <2>1, <3>1 DEF Signalled
    <3>2. CASE task[t].st # "user"
      <4>1. PICK s : s = [r EXCEPT !.sig = @ \cup {"ALRM"}]
        OBVIOUS
      <4>2. s \in Tasks /\ s.call = r.call /\ s.st = r.st /\ r.sig \subseteq s.sig
        BY <4>1 DEF Tasks, Signals
      <4> QED BY <2>1, <3>2, <4>1, <4>2 DEF Signalled
    <3> QED BY <3>1, <3>2
  <2>3. PICK v : v = [s EXCEPT !.alarm = FALSE]
    OBVIOUS
  <2>4. v \in Tasks /\ v.call = s.call /\ ~v.alarm /\ v.st = s.st /\ v.sig = s.sig
    BY <2>3 DEF Tasks
  <2>5. task' = [task EXCEPT ![t] = v]
    BY <2>2, <2>3 DEF Alarm
  <2> QED BY <2>1, <2>2, <2>4, <2>5
<1>2. TasksCalm
  BY <1>0, <1>1 DEF TasksCalm
<1>3. seen' = seen \cup Mark(task[t].st = "user", "stray") /\ task[t].alarm
      /\ UNCHANGED <<tty, stack, tx, cr_flag, input>>
  BY DEF Alarm
<1>4. StackCalm
  BY <1>0, <1>3, SameCalm
<1>5. seen \subseteq seen' /\ seen' \subseteq Marks
  BY <1>0, <1>3 DEF Mark, Marks
<1>6. "stray" \in seen' => "stray" \in seen \/ "eof" \in seen
  BY <1>3 DEF Inv, AlarmsOwned, Mark
<1>7. TypeOK'
  BY <1>0, <1>2, <1>3, <1>5 DEF TypeOK, TasksCalm
<1>8. SerialSends'
  BY <1>0, <1>2, <1>3, <1>4, <1>5, CalmSends DEF EMPTY
<1>9. (Clean => AllEdit) => (Clean' => AllEdit')
  BY <1>3, <1>5, SameEdits
<1>10. (Unspoilt => ConOK) => (Unspoilt' => ConOK')
  <2>1. \A i : Shower(i)' <=> Shower(i)
    BY <1>3 DEF Shower
  <2>2. Filling("con") => Filling("con")'
    BY <1>3 DEF Filling
  <2> QED BY <1>3, <1>5, <2>1, <2>2, SameShow
<1>11. \A e \in Devices :
         \/ Running("cooked", e)'
         \/ ~Running("cooked", e) /\ (EMPTY(tty[e].sec) => EMPTY(tty[e].sec)')
  BY <1>3 DEF Running, EMPTY
<1> QED BY <1>2, <1>3, <1>4, <1>5, <1>6, <1>7, <1>8, <1>9, <1>10, <1>11, InterruptStep

-----------------------------------------------------------------------------
(* Steps of system calls: nothing else is in the kernel.                   *)

\* Nobody but t is in the kernel, and no handler is.
Idle(t) ==
  /\ \A u \in Task : u # t => task[u].st # "kernel"
  /\ \A i \in DOMAIN stack : i = 1 /\ stack[1] \in CallFrames /\ stack[1].t = t

\* After the step the call of t is in the state fr: it goes on, and con_write
\* may be upon it; it has returned (fr is NoCall); or t gave up the processor.
\* The others may have been woken.
Moved(t, fr) ==
  /\ task' \in [Task -> Tasks] /\ stack' \in Seq(Frames)
  /\ \A u \in Task : u # t =>
       /\ task'[u].call = task[u].call /\ task'[u].alarm = task[u].alarm
       /\ task'[u].sig = task[u].sig
       /\ task'[u].st = task[u].st \/ (task[u].st = "asleep" /\ task'[u].st = "ready")
  /\ fr \in CallFrames => fr.t = t
  /\ \/ /\ task'[t].st = "kernel" /\ task'[t].call = NoCall /\ fr \in CallFrames
        /\ stack' # << >> /\ stack'[1] = fr
        /\ \A i \in DOMAIN stack' : i # 1 => stack'[i].f = "con_write"
     \/ task'[t].st = "user" /\ task'[t].call = NoCall /\ fr = NoCall /\ stack' = << >>
     \/ /\ task'[t].st \in {"ready", "asleep"} /\ task'[t].call = fr /\ fr \in CallFrames
        /\ fr.at \in {"slept", "loop", "fetched"} /\ (task'[t].st = "asleep" => fr.at = "slept")
        /\ stack' = << >>

\* f says what kind of call it is.
LEMMA CallKind ==
  ASSUME NEW fr \in CallFrames
  PROVE  /\ fr.f \in {"read", "write"} /\ fr.t \in Task /\ fr.d \in Devices
         /\ fr \in Frames /\ fr # NoCall
<1>1. fr \in Frames
  BY DEF Frames
<1> QED BY <1>1, Kinds

\* A system call at work, or none, is alone.
LEMMA IdleNow ==
  ASSUME TypeOK, Placed, NEW t \in Task,
         stack = << >> \/ (stack # << >> /\ Top.f \in {"read", "write"} /\ t = Top.t)
  PROVE  /\ Idle(t) /\ \A i, e : ~Cooker(i, e) /\ ~Shower(i)
         /\ \A e : ~Running("cooked", e)
<1>1. Idle(t)
  <2>1. CASE stack = << >>
    BY <2>1 DEF Idle, Placed
  <2>2. CASE stack # << >> /\ Top.f \in {"read", "write"} /\ t = Top.t
    <3>1. /\ stack = <<Top>> /\ Len(stack) = 1 /\ Top \in CallFrames /\ Top = stack[1]
          /\ \A u \in Task : task[u].st = "kernel" => u = Top.t
      BY <2>2, Alone
    <3>2. DOMAIN stack = 1 .. 1
      BY <3>1 DEF TypeOK
    <3> QED BY <2>2, <3>1, <3>2 DEF Idle
  <2> QED BY <2>1, <2>2
<1>2. ASSUME NEW i \in DOMAIN stack PROVE stack[i].f \in {"read", "write"}
  BY <1>1, CallKind DEF Idle
<1>3. \A i, e : ~Cooker(i, e) /\ ~Shower(i)
  BY <1>2 DEF Cooker, Shower
<1>4. \A e : ~Running("cooked", e)
  BY <1>2 DEF Running
<1> QED BY <1>1, <1>3, <1>4

\* The calls of the others are as they were, and so is who waits.
LEMMA MovedCall ==
  ASSUME TypeOK, Placed, NEW t \in Task, NEW fr, Idle(t), Moved(t, fr)
  PROVE  /\ Placed' /\ Frame(t)' = fr
         /\ \A u \in Task : u # t => Frame(u)' = Frame(u)
         /\ \A f \in {"read", "write"} : \A d : t \in Waiting(f, d)' <=> fr.f = f /\ fr.d = d /\ fr.at = "slept"
         /\ \A f, d, u : u # t => (u \in Waiting(f, d)' <=> u \in Waiting(f, d))
         /\ \A f, d, u : u # t => (u \in Sleepers(f, d)' => u \in Sleepers(f, d))
         /\ \A i, e : ~Cooker(i, e)'
<1>1. stack \in Seq(Frames) /\ task \in [Task -> Tasks]
  BY DEF TypeOK
<1>2. /\ task' \in [Task -> Tasks] /\ stack' \in Seq(Frames)
      /\ \A u \in Task : u # t =>
           /\ task'[u].call = task[u].call /\ task'[u].alarm = task[u].alarm
           /\ task'[u].sig = task[u].sig
           /\ task'[u].st = task[u].st \/ (task[u].st = "asleep" /\ task'[u].st = "ready")
      /\ fr \in CallFrames => fr.t = t
  BY DEF Moved
<1>3. \A u \in Task : task[u].st \in {"user", "kernel", "ready", "asleep"}
  BY <1>1 DEF Tasks
<1>4. \A u \in Task : u # t => task'[u].st # "kernel" /\ task[u].st # "kernel"
  BY <1>2 DEF Idle
<1>5. \/ /\ task'[t].st = "kernel" /\ task'[t].call = NoCall /\ fr \in CallFrames
         /\ stack' # << >> /\ stack'[1] = fr
         /\ \A i \in DOMAIN stack' : i # 1 => stack'[i].f = "con_write"
      \/ task'[t].st = "user" /\ task'[t].call = NoCall /\ fr = NoCall /\ stack' = << >>
      \/ /\ task'[t].st \in {"ready", "asleep"} /\ task'[t].call = fr /\ fr \in CallFrames
         /\ fr.at \in {"slept", "loop", "fetched"} /\ (task'[t].st = "asleep" => fr.at = "slept")
         /\ stack' = << >>
  BY DEF Moved
<1>6. ASSUME NEW i \in DOMAIN stack'
      PROVE  stack'[i].f = "con_write" \/ (i = 1 /\ stack'[1] = fr /\ fr \in CallFrames /\ task'[t].st = "kernel")
  <2>1. stack' # << >>
    BY <1>2
  <2> QED BY <1>5, <2>1
<1>7. fr \in CallFrames => fr.f \in {"read", "write"}
  BY CallKind
<1>8. Placed'
  <2>1. ASSUME NEW i \in DOMAIN stack', stack'[i].f \in {"read", "write"}
        PROVE  i = 1 /\ task'[stack'[i].t].st = "kernel"
    BY <1>2, <1>6, <2>1
  <2>2. ASSUME NEW u \in Task, u # t
        PROVE  CASE task'[u].st = "kernel" -> /\ stack' # << >> /\ stack'[1] \in CallFrames
                                              /\ stack'[1].t = u /\ task'[u].call = NoCall
                 [] task'[u].st = "user"   -> task'[u].call = NoCall
                 [] task'[u].st = "asleep" -> /\ task'[u].call \in CallFrames /\ task'[u].call.t = u
                                              /\ task'[u].call.at = "slept"
                 [] OTHER                  -> /\ task'[u].call \in CallFrames /\ task'[u].call.t = u
                                              /\ task'[u].call.at \in {"slept", "loop", "fetched"}
    <3>1. task[u].st = "user" => task[u].call = NoCall
      BY DEF Placed
    <3>2. task[u].st = "asleep" => /\ task[u].call \in CallFrames /\ task[u].call.t = u
                                   /\ task[u].call.at = "slept"
      BY DEF Placed
    <3>3. task[u].st = "ready" => /\ task[u].call \in CallFrames /\ task[u].call.t = u
                                  /\ task[u].call.at \in {"slept", "loop", "fetched"}
      BY DEF Placed
    <3> QED BY <1>2, <1>3, <1>4, <2>2, <3>1, <3>2, <3>3
  <2>3. (CASE task'[t].st = "kernel" -> /\ stack' # << >> /\ stack'[1] \in CallFrames
                                        /\ stack'[1].t = t /\ task'[t].call = NoCall
           [] task'[t].st = "user"   -> task'[t].call = NoCall
           [] task'[t].st = "asleep" -> /\ task'[t].call \in CallFrames /\ task'[t].call.t = t
                                        /\ task'[t].call.at = "slept"
           [] OTHER                  -> /\ task'[t].call \in CallFrames /\ task'[t].call.t = t
                                        /\ task'[t].call.at \in {"slept", "loop", "fetched"})
    BY <1>2, <1>5
  <2> QED BY <2>1, <2>2, <2>3 DEF Placed
<1>9. Frame(t)' = fr
  BY <1>5 DEF Frame
<1>10. \A u \in Task : u # t => Frame(u)' = Frame(u)
  BY <1>2, <1>4 DEF Frame
<1>11. \A f \in {"read", "write"} : \A d : t \in Waiting(f, d)' <=> fr.f = f /\ fr.d = d /\ fr.at = "slept"
  BY <1>9 DEF Waiting
<1>12. ASSUME NEW f, NEW d, NEW u, u # t PROVE u \in Waiting(f, d)' <=> u \in Waiting(f, d)
  <2>1. CASE u \in Task
    <3>1. Frame(u)' = Frame(u)
      BY <1>10, <1>12, <2>1
    <3> QED BY <2>1, <3>1 DEF Waiting
  <2>2. CASE u \notin Task
    BY <2>2 DEF Waiting
  <2> QED BY <2>1, <2>2
<1>13. ASSUME NEW f, NEW d, NEW u, u # t, u \in Sleepers(f, d)' PROVE u \in Sleepers(f, d)
  <2>1. u \in Task /\ u \in Waiting(f, d)' /\ task'[u].st = "asleep" /\ task'[u].sig = {}
    BY <1>13 DEF Sleepers, Waiting
  <2>2. task[u].st = "asleep" /\ task[u].sig = {}
    BY <1>2, <1>13, <2>1
  <2> QED BY <1>12, <1>13, <2>1, <2>2 DEF Sleepers
<1>14. \A i, e : ~Cooker(i, e)'
  BY <1>6, <1>7 DEF Cooker
<1> QED BY <1>8, <1>9, <1>10, <1>11, <1>12, <1>13, <1>14

\* Who is fetching a character goes on fetching it, until it is his turn.
LEMMA MovedFetching ==
  ASSUME TypeOK, Placed, NEW t \in Task, NEW fr, Idle(t), Moved(t, fr), NEW d,
         Frame(t).f = "write" /\ Frame(t).d = d /\ Frame(t).at = "fetched" => fr = Frame(t),
         Fetching(d)
  PROVE  Fetching(d)'
<1>1. PICK u \in Task : Frame(u).f = "write" /\ Frame(u).d = d /\ Frame(u).at = "fetched"
  BY DEF Fetching
<1>2. Frame(u)' = Frame(u)
  BY <1>1, MovedCall
<1> QED BY <1>1, <1>2 DEF Fetching

\* So the serial line is still sending after a step that concerns no write to it.
LEMMA MovedSends ==
  ASSUME TypeOK, Placed, NEW t \in Task, NEW fr, Idle(t), Moved(t, fr),
         Frame(t).f = "write" /\ Frame(t).d = "rs" /\ Frame(t).at = "fetched" => fr = Frame(t),
         SerialSends, ~Filling("rs"), seen \subseteq seen', tx => tx',
         EMPTY(tty["rs"].write) => EMPTY(tty["rs"].write)'
  PROVE  SerialSends'
BY MovedFetching DEF SerialSends

\* The alarm of t and what its read keeps of the one before.
Armed(t, fr) ==
  "eof" \notin seen' => /\ task'[t].alarm => fr.f = "read" /\ fr.flag
                        /\ fr.f = "read" => ~fr.old

\* Alarms belong to reads.
LEMMA MovedAlarms ==
  ASSUME TypeOK, Placed, AlarmsOwned, NEW t \in Task, NEW fr, Idle(t), Moved(t, fr), Armed(t, fr),
         seen \subseteq seen', "stray" \in seen' => "stray" \in seen
  PROVE  AlarmsOwned'
<1> SUFFICES ASSUME "eof" \notin seen'
             PROVE  /\ "stray" \notin seen'
                    /\ \A u \in Task : task'[u].alarm =>
                         \/ task'[u].st = "kernel" /\ stack'[1].f = "read" /\ stack'[1].flag
                         \/ /\ task'[u].st \in {"ready", "asleep"}
                            /\ task'[u].call.f = "read" /\ task'[u].call.flag
                    /\ \A i \in DOMAIN stack' : stack'[i].f = "read" => ~stack'[i].old
                    /\ \A u \in Task : task'[u].call.f = "read" => ~task'[u].call.old
  BY DEF AlarmsOwned
<1>0. "eof" \notin seen /\ (task'[t].alarm => fr.f = "read" /\ fr.flag) /\ (fr.f = "read" => ~fr.old)
  BY DEF Armed
<1>1. "stray" \notin seen'
  BY <1>0 DEF AlarmsOwned
<1>2. NoCall.f # "read"
  BY DEF NoCall, None
<1>3. \/ /\ task'[t].st = "kernel" /\ task'[t].call = NoCall
         /\ stack' # << >> /\ stack'[1] = fr
         /\ \A i \in DOMAIN stack' : i # 1 => stack'[i].f = "con_write"
      \/ task'[t].st = "user" /\ task'[t].call = NoCall /\ fr = NoCall /\ stack' = << >>
      \/ task'[t].st \in {"ready", "asleep"} /\ task'[t].call = fr /\ stack' = << >>
  BY DEF Moved
<1>4. ASSUME NEW u \in Task, task'[u].alarm
      PROVE  \/ task'[u].st = "kernel" /\ stack'[1].f = "read" /\ stack'[1].flag
             \/ /\ task'[u].st \in {"ready", "asleep"}
                /\ task'[u].call.f = "read" /\ task'[u].call.flag
  <2>1. CASE u = t
    BY <1>0, <1>2, <1>3, <1>4, <2>1
  <2>2. CASE u # t
    <3>1. task[u].alarm /\ task[u].st # "kernel"
      BY <1>4, <2>2 DEF Moved, Idle
    <3>2. task[u].st \in {"ready", "asleep"} /\ task[u].call.f = "read" /\ task[u].call.flag
      BY <1>0, <3>1 DEF AlarmsOwned
    <3> QED BY <2>2, <3>2 DEF Moved
  <2> QED BY <2>1, <2>2
<1>5. ASSUME NEW i \in DOMAIN stack', stack'[i].f = "read" PROVE ~stack'[i].old
  <2>1. stack' # << >>
    BY DEF Moved
  <2> QED BY <1>0, <1>3, <1>5, <2>1
<1>6. ASSUME NEW u \in Task, task'[u].call.f = "read" PROVE ~task'[u].call.old
  <2>1. CASE u = t
    BY <1>0, <1>2, <1>3, <1>6, <2>1
  <2>2. CASE u # t
    BY <1>0, <1>6, <2>2 DEF AlarmsOwned, Moved
  <2> QED BY <2>1, <2>2
<1> QED BY <1>1, <1>4, <1>5, <1>6

\* If t waits as before the wait queues are as before.
Stays(t, fr) ==
  \A f \in {"read", "write"}, d \in Devices :
    /\ fr.f = f /\ fr.d = d /\ fr.at = "slept" <=> t \in Waiting(f, d)
    /\ t \in Waiting(f, d) => Frame(t) = fr

\* So that they thread the same tasks.
LEMMA MovedThreaded ==
  ASSUME TypeOK, Placed, Threaded, NEW t \in Task, NEW fr, Idle(t), Moved(t, fr), Stays(t, fr),
         \A f \in {"read", "write"}, d \in Devices : Proc(f, d)' = Proc(f, d)
  PROVE  Threaded' /\ \A f \in {"read", "write"}, d \in Devices : Waiting(f, d)' = Waiting(f, d)
<1>1. /\ Frame(t)' = fr
      /\ \A u \in Task : u # t => Frame(u)' = Frame(u)
      /\ \A f \in {"read", "write"} : \A d : t \in Waiting(f, d)' <=> fr.f = f /\ fr.d = d /\ fr.at = "slept"
      /\ \A f, d, u : u # t => (u \in Waiting(f, d)' <=> u \in Waiting(f, d))
  BY MovedCall
<1>2. ASSUME NEW f \in {"read", "write"}, NEW d \in Devices
      PROVE  /\ Waiting(f, d)' = Waiting(f, d)
             /\ \A u \in Waiting(f, d) : Frame(u)' = Frame(u)
  <2>1. t \in Waiting(f, d)' <=> t \in Waiting(f, d)
    BY <1>1 DEF Stays
  <2>2. \A u : u \in Waiting(f, d)' <=> u \in Waiting(f, d)
    BY <1>1, <2>1
  <2>3. ASSUME NEW u \in Waiting(f, d) PROVE Frame(u)' = Frame(u)
    <3>1. u \in Task
      BY DEF Waiting
    <3> QED BY <1>1, <3>1 DEF Stays
  <2> QED BY <2>2, <2>3
<1>3. Threaded'
  <2> SUFFICES ASSUME NEW f \in {"read", "write"}, NEW d \in Devices,
                      NEW S \in SUBSET Waiting(f, d)', S # {}
               PROVE  Proc(f, d)' \in S \/ \E u \in Waiting(f, d)' \ S : Frame(u)'.tmp \in S
    BY DEF Threaded
  <2>1. S \in SUBSET Waiting(f, d) /\ Proc(f, d)' = Proc(f, d) /\ Waiting(f, d)' = Waiting(f, d)
    BY <1>2
  <2>2. Proc(f, d) \in S \/ \E u \in Waiting(f, d) \ S : Frame(u).tmp \in S
    BY <2>1 DEF Threaded
  <2>3. CASE Proc(f, d) \in S
    BY <2>1, <2>3
  <2>4. ASSUME NEW u \in Waiting(f, d) \ S, Frame(u).tmp \in S
        PROVE  \E v \in Waiting(f, d)' \ S : Frame(v)'.tmp \in S
    <3>1. Frame(u)' = Frame(u) /\ u \in Waiting(f, d)' \ S
      BY <1>2, <2>1
    <3> QED BY <2>4, <3>1
  <2> QED BY <2>2, <2>3, <2>4
<1> QED BY <1>2, <1>3

\* Why readers and writers will still be woken.
Idling(d) == EMPTY(tty[d].sec) /\ ~Taking(d)
ReaderGoes(t, d) ==
  \/ Awake("read", d)' \/ Waiting("read", d)' = {} \/ Idling(d)'
  \/ /\ t \notin Waiting("read", d) /\ t \notin Waiting("read", d)'
     /\ Idling(d) => Idling(d)'
WriterGoes(t) ==
  \/ Awake("write", "rs")' \/ Waiting("write", "rs")' = {} \/ tx' \/ "faulted" \in seen'
  \/ /\ t \notin Waiting("write", "rs") /\ t \notin Waiting("write", "rs")'
     /\ tx => tx'

\* A task that does not wait in f on d changes nothing for those who do.
LEMMA MovedWoken ==
  ASSUME TypeOK, Placed, NEW t \in Task, NEW fr, Idle(t), Moved(t, fr), NEW f, NEW d,
         t \notin Waiting(f, d), t \notin Waiting(f, d)'
  PROVE  /\ Sleepers(f, d)' # {} => Sleepers(f, d) # {}
         /\ Awake(f, d) => Awake(f, d)'
<1>1. /\ \A u : u # t => (u \in Waiting(f, d)' <=> u \in Waiting(f, d))
      /\ \A u : u # t => (u \in Sleepers(f, d)' => u \in Sleepers(f, d))
  BY MovedCall
<1>2. t \notin Sleepers(f, d)'
  BY DEF Sleepers
<1>3. Sleepers(f, d)' # {} => Sleepers(f, d) # {}
  BY <1>1, <1>2
<1>4. ASSUME Awake(f, d) PROVE Awake(f, d)'
  <2>1. PICK u \in Waiting(f, d) : task[u].st # "asleep" \/ task[u].sig # {}
    BY <1>4 DEF Awake
  <2>2. u # t /\ u \in Task /\ u \in Waiting(f, d)'
    BY <1>1 DEF Waiting
  <2>3. task'[u].st # "asleep" \/ task'[u].sig # {}
    BY <2>1, <2>2 DEF Moved
  <2> QED BY <2>2, <2>3 DEF Awake
<1> QED BY <1>3, <1>4

\* What the invariant needs after a step of a system call of t.
LEMMA MovedStep ==
  ASSUME Inv, TypeOK', NEW t \in Task, NEW fr, Idle(t), Moved(t, fr), Armed(t, fr), Threaded',
         seen \subseteq seen', "stray" \in seen' => "stray" \in seen,
         \A e : ~Running("cooked", e),
         \A d \in Devices : ReaderGoes(t, d), WriterGoes(t),
         Unspoilt' => t \notin Waiting("write", "con")' /\ ~LooksAgain',
         SerialSends',
         (Clean => AllEdit) => (Clean' => AllEdit'),
         (Unspoilt => ConOK) => (Unspoilt' => ConOK')
  PROVE  Inv'
<1>0. TypeOK /\ Placed /\ AlarmsOwned /\ ReaderWoken /\ WriterWoken
  BY DEF Inv
<1>1. Placed' /\ AlarmsOwned'
  BY <1>0, MovedCall, MovedAlarms
<1>2. ReaderWoken'
  <2> SUFFICES ASSUME NEW d \in Devices, Sleepers("read", d)' # {}, ~Awake("read", d)'
               PROVE  EMPTY(tty[d].sec)' /\ ~Taking(d)'
    BY DEF ReaderWoken
  <2>1. Waiting("read", d)' # {}
    BY DEF Sleepers
  <2>2. \/ Idling(d)'
        \/ t \notin Waiting("read", d) /\ t \notin Waiting("read", d)' /\ (Idling(d) => Idling(d)')
    BY <2>1 DEF ReaderGoes
  <2>3. CASE t \notin Waiting("read", d) /\ t \notin Waiting("read", d)' /\ (Idling(d) => Idling(d)')
    <3>1. Sleepers("read", d) # {} /\ ~Awake("read", d)
      BY <1>0, <2>3, MovedWoken
    <3>2. Idling(d)
      BY <1>0, <3>1 DEF ReaderWoken, Idling
    <3> QED BY <2>3, <3>2 DEF Idling
  <2> QED BY <2>2, <2>3 DEF Idling
<1>3. WriterWoken'
  <2>1. "faulted" \notin seen' => (Sleepers("write", "rs")' # {} => tx' \/ Awake("write", "rs")')
    <3> SUFFICES ASSUME "faulted" \notin seen', Sleepers("write", "rs")' # {}, ~Awake("write", "rs")'
                 PROVE  tx'
      OBVIOUS
    <3>0. "faulted" \notin seen
      OBVIOUS
    <3>1. Waiting("write", "rs")' # {}
      BY DEF Sleepers
    <3>2. CASE t \notin Waiting("write", "rs") /\ t \notin Waiting("write", "rs")' /\ (tx => tx')
      <4>1. Sleepers("write", "rs") # {} /\ ~Awake("write", "rs")
        BY <1>0, <3>2, MovedWoken
      <4> QED BY <1>0, <3>0, <3>2, <4>1 DEF WriterWoken
    <3> QED BY <3>1, <3>2 DEF WriterGoes
  <2>2. ASSUME Unspoilt' PROVE Waiting("write", "con")' = {} /\ ~LooksAgain'
    <3>1. Waiting("write", "con") = {}
      BY <1>0, <2>2 DEF Unspoilt, WriterWoken
    <3>2. \A u : u # t => (u \in Waiting("write", "con")' <=> u \in Waiting("write", "con"))
      BY <1>0, MovedCall
    <3> QED BY <2>2, <3>1, <3>2
  <2> QED BY <2>1, <2>2 DEF WriterWoken, Unspoilt
<1>4. EditorAlone' /\ LinesCounted'
  BY EditorForm, EditorFormNext DEF Inv
<1>5. ConsoleDrained' /\ OutputOnce'
  BY ConsoleForm, ConsoleFormNext DEF Inv
<1> QED BY <1>1, <1>2, <1>3, <1>4, <1>5 DEF Inv

\* Between calls the count of lines is the number of line ends.
LEMMA MovedEdit ==
  ASSUME \A i, e : ~Cooker(i, e), \A i, e : ~Cooker(i, e)', seen \subseteq seen',
         \A d \in Devices :
           tty[d].sec.data = Cardinality(LineEnds(tty[d].sec)) /\ Clean' =>
             tty'[d].sec.data = Cardinality(LineEnds(tty'[d].sec))
  PROVE  (Clean => AllEdit) => (Clean' => AllEdit')
<1> SUFFICES ASSUME AllEdit, Clean', NEW d \in Devices PROVE EditOK(d)'
  BY DEF Clean, AllEdit
<1>1. EditOK(d) /\ ~DelimPut(d)
  BY DEF AllEdit, DelimPut
<1>2. Cardinality(LineEnds(tty[d].sec)) \in Nat /\ Cardinality(LineEnds(tty'[d].sec)) \in Nat
  BY FiniteLines
<1>3. tty[d].sec.data = Cardinality(LineEnds(tty[d].sec))
  BY <1>1, <1>2 DEF EditOK
<1>4. tty'[d].sec.data = Cardinality(LineEnds(tty'[d].sec)) + (IF FALSE THEN 1 ELSE 0)
  BY <1>2, <1>3
<1> QED BY <1>4, EditAt

\* A call that neither was filling a write queue nor touches one.
LEMMA MovedShow ==
  ASSUME \A i : ~Shower(i), \A i : ~Shower(i)', seen \subseteq seen', ~Filling("con"),
         tty'["con"].write.head = tty["con"].write.head,
         tty'["con"].write.tail = tty["con"].write.tail
  PROVE  (Unspoilt => ConOK) => (Unspoilt' => ConOK')
<1> SUFFICES ASSUME ConOK PROVE ConOK'
  BY DEF Unspoilt
<1>1. ~FULL(tty'["con"].write)
  BY DEF ConOK, FULL, LEFT
<1> QED BY <1>1, ConAt

\* The queues hold what they held; who waits for them may have changed.
QueuesKept ==
  \A d \in Devices :
    /\ tty'[d].write.head = tty[d].write.head /\ tty'[d].write.tail = tty[d].write.tail
    /\ tty'[d].sec.head = tty[d].sec.head /\ tty'[d].sec.tail = tty[d].sec.tail
    /\ tty'[d].sec.buf = tty[d].sec.buf /\ tty'[d].sec.data = tty[d].sec.data

\* t is about to enter a call, or is in one that is not filling a write queue.
AtRest(t) ==
  \/ stack = << >>
  \/ stack # << >> /\ Top.f \in {"read", "write"} /\ t = Top.t /\ ~(Top.f = "write" /\ Top.at = "fill")

\* Then no queue is being filled.
LEMMA RestIdle ==
  ASSUME TypeOK, Placed, NEW t \in Task, AtRest(t)
  PROVE  /\ Idle(t) /\ \A i, e : ~Cooker(i, e) /\ ~Shower(i)
         /\ \A e : ~Running("cooked", e) /\ ~Filling(e)
<1>1. /\ Idle(t) /\ \A i, e : ~Cooker(i, e) /\ ~Shower(i)
      /\ \A e : ~Running("cooked", e)
  BY IdleNow DEF AtRest
<1>2. \A e : ~Filling(e)
  <2>1. CASE stack = << >>
    BY <2>1 DEF Filling
  <2>2. CASE stack # << >>
    <3>1. Top = stack[1]
      BY <2>2, Alone DEF AtRest
    <3> QED BY <2>2, <3>1 DEF AtRest, Filling
  <2> QED BY <2>1, <2>2
<1> QED BY <1>1, <1>2

\* Steps of calls that leave the queues alone.
LEMMA RestMove ==
  ASSUME Inv, NEW t \in Task, NEW fr, AtRest(t), Moved(t, fr), Armed(t, fr), Threaded',
         tty' \in [Devices -> Terminals], QueuesKept, UNCHANGED <<tx, cr_flag, input, seen>>,
         stack' = << >> \/ stack' = <<fr>>, \A d \in Devices : ReaderGoes(t, d), WriterGoes(t),
         Frame(t).at = "fetched" => fr = Frame(t),
         Unspoilt' => t \notin Waiting("write", "con")' /\ ~LooksAgain'
  PROVE  Inv'
<1>0. TypeOK /\ Placed /\ SerialSends /\ "con" \in Devices /\ "rs" \in Devices
  BY DEF Inv, Devices
<1>1. /\ Idle(t) /\ \A i, e : ~Cooker(i, e) /\ ~Shower(i)
      /\ \A e : ~Running("cooked", e) /\ ~Filling(e)
  BY <1>0, RestIdle
<1>2. TypeOK'
  BY <1>0 DEF TypeOK, Moved
<1>3. \A i, e : ~Cooker(i, e)'
  BY <1>0, <1>1, MovedCall
<1>4. \A i : ~Shower(i)'
  <2>1. CASE stack' = << >>
    BY <2>1 DEF Shower
  <2>2. CASE stack' = <<fr>>
    <3>1. fr \in CallFrames
      BY <2>2 DEF Moved
    <3>2. fr.f # "con_write"
      BY <3>1, CallKind
    <3> QED BY <2>2, <3>2 DEF Shower
  <2> QED BY <2>1, <2>2
<1>5. (Clean => AllEdit) => (Clean' => AllEdit')
  <2>1. ASSUME NEW d \in Devices
        PROVE  tty'[d].sec.data = tty[d].sec.data /\ LineEnds(tty'[d].sec) = LineEnds(tty[d].sec)
    <3>1. PICK q, r : q = tty[d].sec /\ r = tty'[d].sec
      OBVIOUS
    <3>2. r.head = q.head /\ r.tail = q.tail /\ r.buf = q.buf /\ r.data = q.data
      BY <3>1 DEF QueuesKept
    <3> QED BY <3>1, <3>2, SameRing
  <2> QED BY <1>1, <1>3, <2>1, MovedEdit
<1>6. (Unspoilt => ConOK) => (Unspoilt' => ConOK')
  BY <1>0, <1>1, <1>4, MovedShow DEF QueuesKept
<1>7. SerialSends'
  <2>1. EMPTY(tty["rs"].write) => EMPTY(tty["rs"].write)'
    BY <1>0 DEF EMPTY, QueuesKept
  <2> QED BY <1>0, <1>1, <2>1, MovedSends
<1> QED BY <1>1, <1>2, <1>5, <1>6, <1>7, MovedStep

\* Steps of calls after which everybody waits as before.
LEMMA QuietMove ==
  ASSUME Inv, NEW t \in Task, NEW fr, AtRest(t), Moved(t, fr), Armed(t, fr), Stays(t, fr),
         UNCHANGED <<tty, tx, cr_flag, input, seen>>,
         stack' = << >> \/ stack' = <<fr>>,
         Frame(t).at = "fetched" => fr = Frame(t), fr.at # "again",
         \A d \in Devices : Taking(d)' => ~EMPTY(tty[d].sec),
         \A f \in {"read", "write"}, d \in Devices : t \in Waiting(f, d) => Awake(f, d)'
  PROVE  Inv'
<1>0. TypeOK /\ Placed /\ Threaded /\ WriterWoken /\ "con" \in Devices /\ "rs" \in Devices
  BY DEF Inv, Devices
<1>1. Idle(t)
  BY <1>0, RestIdle
<1>2. Threaded' /\ \A f \in {"read", "write"}, d \in Devices : Waiting(f, d)' = Waiting(f, d)
  BY <1>0, <1>1, MovedThreaded DEF Proc
<1>3. ASSUME NEW d \in Devices PROVE ReaderGoes(t, d)
  BY <1>2 DEF ReaderGoes, Idling, EMPTY
<1>4. WriterGoes(t)
  BY <1>0, <1>2 DEF WriterGoes
<1>5. Unspoilt' => t \notin Waiting("write", "con")' /\ ~LooksAgain'
  <2>1. ~LooksAgain'
    BY DEF LooksAgain
  <2> QED BY <1>0, <1>2, <2>1 DEF Unspoilt, WriterWoken
<1>6. QueuesKept /\ tty' \in [Devices -> Terminals]
  BY <1>0 DEF QueuesKept, TypeOK
<1> QED BY <1>2, <1>3, <1>4, <1>5, <1>6, RestMove

\* t alone changes, and its call is alone on the stack or gone from it.
LEMMA MovedTo ==
  ASSUME TypeOK, NEW t \in Task, NEW v \in Tasks, NEW fr, task' = [task EXCEPT ![t] = v],
         fr \in CallFrames => fr.t = t,
         \/ v.st = "kernel" /\ v.call = NoCall /\ fr \in CallFrames /\ stack' = <<fr>>
         \/ v.st = "user" /\ v.call = NoCall /\ fr = NoCall /\ stack' = << >>
         \/ /\ v.st \in {"ready", "asleep"} /\ v.call = fr /\ fr \in CallFrames /\ stack' = << >>
            /\ fr.at \in {"slept", "loop", "fetched"} /\ (v.st = "asleep" => fr.at = "slept")
  PROVE  Moved(t, fr) /\ task'[t] = v
<1>1. task \in [Task -> Tasks]
  BY DEF TypeOK
<1>2. task' \in [Task -> Tasks] /\ task'[t] = v /\ \A u \in Task : u # t => task'[u] = task[u]
  BY <1>1
<1>3. stack' \in Seq(Frames)
  <2>1. CASE stack' = << >>
    BY <2>1
  <2>2. CASE stack' = <<fr>> /\ fr \in CallFrames
    BY <2>2 DEF Frames
  <2> QED BY <2>1, <2>2
<1>4. CASE v.st = "kernel" /\ v.call = NoCall /\ fr \in CallFrames /\ stack' = <<fr>>
  <2>1. stack' # << >> /\ stack'[1] = fr /\ DOMAIN stack' = 1 .. 1
    BY <1>4
  <2>2. \A i \in DOMAIN stack' : i # 1 => stack'[i].f = "con_write"
    BY <2>1
  <2> QED BY <1>2, <1>3, <1>4, <2>1, <2>2 DEF Moved
<1>5. CASE v.st = "user" /\ v.call = NoCall /\ fr = NoCall /\ stack' = << >>
  BY <1>2, <1>3, <1>5 DEF Moved
<1>6. CASE /\ v.st \in {"ready", "asleep"} /\ v.call = fr /\ fr \in CallFrames /\ stack' = << >>
           /\ fr.at \in {"slept", "loop", "fetched"} /\ (v.st = "asleep" => fr.at = "slept")
  BY <1>2, <1>3, <1>6 DEF Moved
<1> QED BY <1>4, <1>5, <1>6

\* A task does not wait outside a sleep.
LEMMA NotWaiting ==
  ASSUME NEW t, Frame(t).at # "slept"
  PROVE  \A f, d : t \notin Waiting(f, d)
BY DEF Waiting

\* Nor does it after a step that does not put it to sleep.
LEMMA AwakeStays ==
  ASSUME NEW t, NEW fr, Frame(t).at # "slept", fr.at # "slept"
  PROVE  Stays(t, fr) /\ \A f, d : t \notin Waiting(f, d)
BY NotWaiting DEF Stays

\* NoCall is no call.
LEMMA NoCallIs == /\ NoCall.at \notin {"slept", "again", "fetched"}
                  /\ NoCall.f # "read" /\ NoCall.f # "write" /\ NoCall \notin CallFrames
<1>1. NoCall.at \notin {"slept", "again", "fetched"} /\ NoCall.f # "read" /\ NoCall.f # "write"
  BY DEF NoCall, None
<1> QED BY <1>1, CallKind

\* The call that is at work.
LEMMA AtWork ==
  ASSUME TypeOK, Placed, stack # << >>, Top.f \in {"read", "write"}
  PROVE  /\ Top \in CallFrames /\ Top.t \in Task /\ Top = stack[1] /\ stack = <<Top>>
         /\ task[Top.t] \in Tasks /\ task[Top.t].st = "kernel" /\ task[Top.t].call = NoCall
         /\ Frame(Top.t) = Top /\ Top.d \in Devices /\ tty[Top.d] \in Terminals
<1>1. /\ Top \in CallFrames /\ Top.t \in Task /\ Top = stack[1] /\ stack = <<Top>>
      /\ task[Top.t].st = "kernel" /\ task[Top.t].call = NoCall
  BY Alone
<1>2. Top.d \in Devices
  BY <1>1, CallKind
<1>3. task[Top.t] \in Tasks /\ tty[Top.d] \in Terminals
  BY <1>1, <1>2 DEF TypeOK
<1> QED BY <1>1, <1>2, <1>3 DEF Frame

\* What its alarm can be.
LEMMA WorkAlarm ==
  ASSUME TypeOK, Placed, AlarmsOwned, stack # << >>, Top.f \in {"read", "write"}, "eof" \notin seen
  PROVE  /\ task[Top.t].alarm => Top.f = "read" /\ Top.flag
         /\ Top.f = "read" => ~Top.old
<1>1. Top.t \in Task /\ Top = stack[1] /\ task[Top.t].st = "kernel" /\ 1 \in DOMAIN stack
  BY AtWork DEF TypeOK
<1> QED BY <1>1 DEF AlarmsOwned

\* The system call returns.
LEMMA ReturnMoves ==
  ASSUME TypeOK, Placed, stack # << >>, Top.f \in {"read", "write"}, NEW a \in BOOLEAN, Return(Top.t, a)
  PROVE  Moved(Top.t, NoCall) /\ task'[Top.t].alarm = a /\ stack' = << >>
<1>1. PICK t \in Task : t = Top.t
  BY AtWork
<1>2. PICK r \in Tasks : r = task[t] /\ r.call = NoCall
  BY <1>1, AtWork
<1>3. PICK v : v = [r EXCEPT !.st = "user", !.alarm = a, !.sig = {}]
  OBVIOUS
<1>4. v \in Tasks /\ v.st = "user" /\ v.call = NoCall /\ v.alarm = a
  BY <1>2, <1>3 DEF Tasks
<1>5. task' = [task EXCEPT ![t] = v] /\ stack' = << >>
  <2>1. task' = [task EXCEPT ![t].st = "user", ![t].alarm = a, ![t].sig = {}] /\ stack' = << >>
    BY <1>1 DEF Return
  <2>2. task \in [Task -> Tasks]
    BY DEF TypeOK
  <2> QED BY <1>2, <1>3, <2>1, <2>2
<1> QED BY <1>1, <1>4, <1>5, MovedTo, NoCallIs

\* A call that is not filling a queue returns and leaves everything else alone.
LEMMA QuietReturn ==
  ASSUME Inv, stack # << >>, Top.f \in {"read", "write"}, ~(Top.f = "write" /\ Top.at = "fill"),
         Top.at \notin {"slept", "fetched"}, NEW a \in BOOLEAN, Return(Top.t, a), "eof" \notin seen => ~a,
         UNCHANGED <<tty, tx, cr_flag, input, seen>>
  PROVE  Inv'
<1>0. TypeOK /\ Placed
  BY DEF Inv
<1>1. PICK t \in Task : t = Top.t /\ Frame(t) = Top
  BY <1>0, AtWork
<1>2. Moved(t, NoCall) /\ task'[t].alarm = a /\ stack' = << >>
  BY <1>0, <1>1, ReturnMoves
<1>3. AtRest(t)
  BY <1>1 DEF AtRest
<1>4. Armed(t, NoCall)
  BY <1>2, NoCallIs DEF Armed
<1>5. Stays(t, NoCall) /\ \A f, d : t \notin Waiting(f, d)
  BY <1>1, NoCallIs, AwakeStays
<1>6. \A d : ~Taking(d)'
  BY <1>2 DEF Taking
<1> QED BY <1>1, <1>2, <1>3, <1>4, <1>5, <1>6, NoCallIs, QuietMove

\* A call that is not filling a queue goes on, as fr.
LEMMA QuietOn ==
  ASSUME Inv, stack # << >>, Top.f \in {"read", "write"}, ~(Top.f = "write" /\ Top.at = "fill"),
         Top.at \notin {"slept", "fetched"}, NEW fr \in CallFrames, fr.t = Top.t,
         fr.at \notin {"slept", "again"}, fr.f = Top.f,
         Top.f = "read" => fr.flag = Top.flag /\ fr.old = Top.old,
         \A d \in Devices : fr.f = "read" /\ fr.d = d /\ fr.at = "take" => ~EMPTY(tty[d].sec),
         stack' = Become(fr), UNCHANGED <<task, tty, tx, cr_flag, input, seen>>
  PROVE  Inv'
<1>0. TypeOK /\ Placed /\ AlarmsOwned
  BY DEF Inv
<1>1. PICK t \in Task : /\ t = Top.t /\ Frame(t) = Top /\ task[t] \in Tasks /\ task[t].st = "kernel"
                        /\ task[t].call = NoCall /\ stack = <<Top>>
  BY <1>0, AtWork
<1>2. stack' = <<fr>>
  BY <1>1 DEF Become
<1>3. task' = [task EXCEPT ![t] = task[t]]
  BY <1>0, <1>1 DEF TypeOK
<1>4. Moved(t, fr) /\ task'[t] = task[t]
  BY <1>0, <1>1, <1>2, <1>3, MovedTo
<1>5. AtRest(t)
  BY <1>1 DEF AtRest
<1>6. Armed(t, fr)
  BY <1>0, <1>1, <1>4, WorkAlarm DEF Armed
<1>7. Stays(t, fr) /\ \A f, d : t \notin Waiting(f, d)
  BY <1>1, AwakeStays
<1>8. \A d \in Devices : Taking(d)' => ~EMPTY(tty[d].sec)
  BY <1>2 DEF Taking
<1> QED BY <1>1, <1>2, <1>4, <1>5, <1>6, <1>7, <1>8, QuietMove

\* The smaller of two numbers is a number.
LEMMA MinInt ==
  ASSUME NEW a \in Int, NEW b \in Int
  PROVE  Min({a, b}) \in Int
<1>1. \E x \in {a, b} : \A y \in {a, b} : x <= y
  OBVIOUS
<1> QED BY <1>1 DEF Min

\* A task enters read or write.
LEMMA CallStep ==
  ASSUME Inv, NEW t \in Task, Call(t)
  PROVE  Inv'
<1>0. TypeOK /\ Placed /\ AlarmsOwned /\ task \in [Task -> Tasks]
  BY DEF Inv, TypeOK
<1>1. PICK r \in Tasks : r = task[t] /\ r.st = "user" /\ r.call = NoCall /\ r.todo # << >>
  BY <1>0 DEF Call, Placed
<1>2. PICK c \in Calls : c = Head(task[t].todo) /\ c.op \in {"read", "write"}
  <2>1. r.todo \in Seq(Calls)
    BY DEF Tasks
  <2>2. Head(r.todo) \in Calls
    BY <1>1, <2>1
  <2> QED BY <1>1, <2>2 DEF Call
<1>3. c.d \in Devices
  BY DEF Calls
<1>4. PICK tm \in Termios : tm = tty[c.d].termios
  BY <1>0, <1>3 DEF TypeOK, Terminals
<1>5. PICK timed \in BOOLEAN : timed = (tm.time /\ tm.min = 0)
  OBVIOUS
<1>6. PICK fr : fr = IF c.op = "read"
            THEN [f |-> "read", t |-> t, d |-> c.d, nr |-> c.nr, got |-> 0, at |-> "loop",
                  flag |-> timed /\ ~r.alarm, old |-> r.alarm,
                  min |-> Min({c.nr, IF timed THEN 1 ELSE tm.min}), time |-> tm.time,
                  tmp |-> NoTask]
            ELSE [f |-> "write", t |-> t, d |-> c.d, left |-> c.chars, at |-> "loop",
                  tmp |-> NoTask]
  OBVIOUS
<1>7. PICK al \in BOOLEAN : al = (r.alarm \/ (c.op = "read" /\ timed))
  OBVIOUS
<1>8. PICK v : v = [r EXCEPT !.st = "kernel", !.todo = Tail(@), !.alarm = al]
  OBVIOUS
<1>9. v \in Tasks /\ v.st = "kernel" /\ v.call = NoCall /\ v.alarm = al
  <2>1. Tail(r.todo) \in Seq(Calls)
    BY <1>1 DEF Tasks
  <2> QED BY <1>1, <1>8, <2>1 DEF Tasks
<1>10. task' = [task EXCEPT ![t] = v] /\ stack' = <<fr>> /\ stack = << >>
       /\ UNCHANGED <<tty, tx, cr_flag, input, seen>>
  <2>1. task' = [task EXCEPT ![t].st = "kernel", ![t].todo = Tail(@),
                             ![t].alarm = @ \/ (c.op = "read" /\ timed)]
    BY <1>2, <1>4, <1>5 DEF Call
  <2>2. task' = [task EXCEPT ![t] = v]
    BY <1>0, <1>1, <1>7, <1>8, <2>1
  <2>3. stack' = <<fr>>
    BY <1>1, <1>2, <1>4, <1>5, <1>6 DEF Call
  <2> QED BY <2>2, <2>3 DEF Call
<1>11. fr \in CallFrames /\ fr.t = t /\ fr.at = "loop"
       /\ (fr.f = "read" => c.op = "read" /\ fr.flag = (timed /\ ~r.alarm) /\ fr.old = r.alarm)
       /\ (c.op = "read" => fr.f = "read")
  <2>1. CASE c.op = "read"
    <3>1. c.nr \in Nat
      BY <2>1 DEF Calls
    <3>2. PICK m \in Int : m = Min({c.nr, IF timed THEN 1 ELSE tm.min})
      BY <3>1, MinInt DEF Termios
    <3>3. PICK fl \in BOOLEAN : fl = (timed /\ ~r.alarm)
      OBVIOUS
    <3>4. PICK nr \in Nat, d \in Devices, o \in BOOLEAN, ti \in BOOLEAN :
             nr = c.nr /\ d = c.d /\ o = r.alarm /\ ti = tm.time
      BY <1>3, <3>1 DEF Tasks, Termios
    <3>5. fr = [f |-> "read", t |-> t, d |-> d, nr |-> nr, got |-> 0, at |-> "loop",
                flag |-> fl, old |-> o, min |-> m, time |-> ti, tmp |-> NoTask]
      BY <1>6, <2>1, <3>2, <3>3, <3>4
    <3>6. fr \in ReadFrames /\ fr.t = t /\ fr.at = "loop" /\ fr.flag = fl /\ fr.old = o /\ fr.f = "read"
      BY <3>5 DEF ReadFrames
    <3> QED BY <2>1, <3>3, <3>4, <3>6 DEF CallFrames
  <2>2. CASE c.op = "write"
    <3>1. c.chars \in Seq(Char)
      BY <2>2 DEF Calls
    <3>2. fr = [f |-> "write", t |-> t, d |-> c.d, left |-> c.chars, at |-> "loop", tmp |-> NoTask]
      BY <1>6, <2>2
    <3>3. fr \in WriteFrames /\ fr.t = t /\ fr.at = "loop" /\ fr.f = "write"
      BY <1>3, <3>1, <3>2 DEF WriteFrames
    <3> QED BY <2>2, <3>3 DEF CallFrames
  <2> QED BY <1>2, <2>1, <2>2
<1>12. Moved(t, fr) /\ task'[t] = v
  BY <1>0, <1>9, <1>10, <1>11, MovedTo
<1>13. AtRest(t)
  BY <1>10 DEF AtRest
<1>14. Armed(t, fr)
  <2>1. "eof" \notin seen => ~r.alarm
    BY <1>0, <1>1 DEF AlarmsOwned
  <2> QED BY <1>7, <1>9, <1>10, <1>11, <1>12, <2>1 DEF Armed
<1>15. Frame(t) = NoCall
  BY <1>1 DEF Frame
<1>16. Stays(t, fr) /\ \A f, d : t \notin Waiting(f, d)
  BY <1>11, <1>15, NoCallIs, AwakeStays
<1>17. \A d : ~Taking(d)'
  BY <1>10, <1>11 DEF Taking
<1> QED BY <1>10, <1>11, <1>12, <1>13, <1>14, <1>15, <1>16, <1>17, NoCallIs, QuietMove

\* schedule() lets a task go on.
LEMMA SwitchStep ==
  ASSUME Inv, NEW t \in Task, Switch(t)
  PROVE  Inv'
<1>0. TypeOK /\ Placed /\ AlarmsOwned /\ task \in [Task -> Tasks]
  BY DEF Inv, TypeOK
<1>1. PICK r \in Tasks : r = task[t] /\ r.st \in {"ready", "asleep"}
  BY <1>0 DEF Switch
<1>2. PICK fr \in CallFrames : fr = r.call /\ fr.t = t /\ fr.at \in {"slept", "loop", "fetched"}
  BY <1>0, <1>1 DEF Placed
<1>3. PICK v : v = [r EXCEPT !.st = "kernel", !.call = NoCall]
  OBVIOUS
<1>4. v \in Tasks /\ v.st = "kernel" /\ v.call = NoCall /\ v.alarm = r.alarm
  BY <1>3 DEF Tasks
<1>5. task' = [task EXCEPT ![t] = v] /\ stack' = <<fr>> /\ stack = << >>
      /\ UNCHANGED <<tty, tx, cr_flag, input, seen>>
  BY <1>0, <1>1, <1>2, <1>3 DEF Switch
<1>6. Moved(t, fr) /\ task'[t] = v
  BY <1>0, <1>2, <1>4, <1>5, MovedTo
<1>7. AtRest(t)
  BY <1>5 DEF AtRest
<1>8. Armed(t, fr)
  BY <1>0, <1>1, <1>2, <1>4, <1>5, <1>6 DEF AlarmsOwned, Armed
<1>9. Frame(t) = fr
  BY <1>1, <1>2 DEF Frame
<1>10. Stays(t, fr)
  BY <1>9 DEF Stays, Waiting
<1>11. \A d : ~Taking(d)'
  BY <1>2, <1>5 DEF Taking
<1>12. ASSUME NEW f \in {"read", "write"}, NEW d \in Devices, t \in Waiting(f, d) PROVE Awake(f, d)'
  <2>1. fr.f = f /\ fr.d = d /\ fr.at = "slept"
    BY <1>9, <1>12 DEF Waiting
  <2>2. t \in Waiting(f, d)'
    BY <1>0, <1>6, <1>7, <2>1, MovedCall, RestIdle
  <2> QED BY <1>4, <1>6, <2>2 DEF Awake
<1> QED BY <1>2, <1>5, <1>6, <1>7, <1>8, <1>9, <1>10, <1>11, <1>12, QuietMove

\* After the terminal's write: the call returns or lets others go first.
LEMMA WriteOnStep ==
  ASSUME Inv, WriteOn
  PROVE  Inv'
<1>0. /\ TypeOK /\ Placed /\ AlarmsOwned /\ stack # << >> /\ Top.f = "write" /\ Top.at = "written"
      /\ UNCHANGED <<tty, tx, cr_flag, input, seen>> /\ task \in [Task -> Tasks]
  BY DEF Inv, TypeOK, WriteOn
<1>1. PICK t \in Task, r \in Tasks : /\ t = Top.t /\ Frame(t) = Top /\ r = task[t] /\ r.st = "kernel"
                                    /\ r.call = NoCall /\ Top \in CallFrames
  BY <1>0, AtWork
<1>2. "eof" \notin seen => ~r.alarm
  BY <1>0, <1>1, WorkAlarm
<1>3. CASE Return(Top.t, task[Top.t].alarm)
  <2>1. r.alarm \in BOOLEAN
    BY DEF Tasks
  <2> QED BY <1>0, <1>1, <1>2, <1>3, <2>1, QuietReturn
<1>4. CASE /\ task' = [task EXCEPT ![Top.t].st = "ready", ![Top.t].call = [Top EXCEPT !.at = "loop"]]
           /\ stack' = << >>
  <2>1. PICK fr : fr = [Top EXCEPT !.at = "loop"]
    OBVIOUS
  <2>2. Top \in WriteFrames
    BY <1>0, <1>1, CallKind, Kinds
  <2>3. fr \in CallFrames /\ fr.t = t /\ fr.at = "loop" /\ fr.f = "write"
    BY <1>1, <2>1, <2>2 DEF WriteFrames, CallFrames
  <2>4. PICK v : v = [r EXCEPT !.st = "ready", !.call = fr]
    OBVIOUS
  <2>5. v \in Tasks /\ v.st = "ready" /\ v.call = fr /\ v.alarm = r.alarm
    BY <2>3, <2>4 DEF Tasks
  <2>6. task' = [task EXCEPT ![t] = v]
    BY <1>0, <1>1, <1>4, <2>1, <2>4
  <2>7. Moved(t, fr) /\ task'[t] = v
    BY <1>0, <1>4, <2>3, <2>5, <2>6, MovedTo
  <2>8. AtRest(t)
    BY <1>0, <1>1 DEF AtRest
  <2>9. Armed(t, fr)
    BY <1>0, <1>2, <2>3, <2>5, <2>7 DEF Armed
  <2>10. Stays(t, fr) /\ \A f, d : t \notin Waiting(f, d)
    BY <1>0, <1>1, <2>3, AwakeStays
  <2>11. \A d : ~Taking(d)'
    BY <1>4 DEF Taking
  <2> QED BY <1>0, <1>1, <1>4, <2>3, <2>7, <2>8, <2>9, <2>10, <2>11, QuietMove
<1> QED BY <1>3, <1>4 DEF WriteOn

\* tty_ioctl, called between calls.
LEMMA IoctlStep ==
  ASSUME Inv, NEW t \in Task, tty_ioctl(t)
  PROVE  Inv'
<1>0. /\ TypeOK /\ Placed /\ AlarmsOwned /\ Threaded /\ SerialSends /\ WriterWoken
      /\ task \in [Task -> Tasks] /\ tty \in [Devices -> Terminals]
      /\ "con" \in Devices /\ "rs" \in Devices
  BY DEF Inv, TypeOK, Devices
<1>1. PICK r \in Tasks : r = task[t] /\ r.st = "user" /\ r.call = NoCall /\ r.todo # << >>
  BY <1>0 DEF tty_ioctl, Placed
<1>2. PICK c \in Calls : c = Head(task[t].todo) /\ c.op = "ioctl"
  <2>1. r.todo \in Seq(Calls)
    BY DEF Tasks
  <2>2. Head(r.todo) \in Calls
    BY <1>1, <2>1
  <2> QED BY <1>1, <2>2 DEF tty_ioctl
<1>3. PICK d \in Devices, tm \in Termios : d = c.d /\ tm = c.termios
  BY <1>2 DEF Calls
<1>4. PICK O \in Terminals, p \in Rings, q \in Rings : O = tty[d] /\ p = O.read /\ q = O.write
  BY <1>0 DEF Terminals
<1>5. PICK pp \in Rings : pp = IF "read" \in c.flush THEN flush(p) ELSE p
  BY FlushRing
<1>6. PICK qq \in Rings : /\ qq = IF "write" \in c.flush THEN flush(q) ELSE q
                          /\ qq.proc = q.proc /\ (EMPTY(q) => EMPTY(qq))
                          /\ ~FULL(q) => ~FULL(qq)
  <2>1. flush(q) \in Rings /\ flush(q).proc = q.proc /\ EMPTY(flush(q))
    BY FlushRing
  <2>2. ~FULL(flush(q))
    BY <2>1, RingCount, TtyAssumption DEF N
  <2> QED BY <2>1, <2>2
<1>7. PICK U : U = [O EXCEPT !.read = pp, !.write = qq, !.termios = tm]
  OBVIOUS
<1>8. U \in Terminals /\ U.write = qq /\ U.sec = O.sec
  BY <1>7 DEF Terminals
<1>9. tty' = [tty EXCEPT ![d] = U]
  <2>1. tty' = [tty EXCEPT ![d].read = IF "read" \in c.flush THEN flush(@) ELSE @,
                           ![d].write = IF "write" \in c.flush THEN flush(@) ELSE @,
                           ![d].termios = tm]
    BY <1>2, <1>3 DEF tty_ioctl
  <2>2. /\ tty[d].read = p /\ [tty EXCEPT ![d].read = pp][d].write = q
    BY <1>0, <1>4 DEF Terminals
  <2>3. tty' = [tty EXCEPT ![d].read = pp, ![d].write = qq, ![d].termios = tm]
    BY <1>5, <1>6, <2>1, <2>2
  <2> QED BY <1>0, <1>4, <1>7, <2>3
<1>10. /\ tty' \in [Devices -> Terminals] /\ tty'[d].write = qq
       /\ \A e \in Devices : e # d => tty'[e] = tty[e]
       /\ \A e \in Devices : tty'[e].sec = tty[e].sec
  BY <1>0, <1>4, <1>8, <1>9
<1>11. PICK v : v = [r EXCEPT !.todo = Tail(@)]
  OBVIOUS
<1>12. v \in Tasks /\ v.st = "user" /\ v.call = NoCall /\ v.alarm = r.alarm
  <2>1. Tail(r.todo) \in Seq(Calls)
    BY <1>1 DEF Tasks
  <2> QED BY <1>1, <1>11, <2>1 DEF Tasks
<1>13. task' = [task EXCEPT ![t] = v] /\ stack' = << >> /\ stack = << >>
       /\ UNCHANGED <<tx, cr_flag, input, seen>>
  <2>1. task' = [task EXCEPT ![t].todo = Tail(@)]
    BY DEF tty_ioctl
  <2> QED BY <1>0, <1>1, <1>11, <2>1 DEF tty_ioctl
<1>14. Moved(t, NoCall) /\ task'[t] = v
  BY <1>0, <1>12, <1>13, MovedTo, NoCallIs
<1>15. AtRest(t)
  BY <1>13 DEF AtRest
<1>16. /\ Idle(t) /\ \A i, e : ~Cooker(i, e) /\ ~Shower(i)
       /\ \A e : ~Running("cooked", e) /\ ~Filling(e)
  BY <1>0, <1>15, RestIdle
<1>17. Armed(t, NoCall)
  <2>1. "eof" \notin seen => ~r.alarm
    BY <1>0, <1>1 DEF AlarmsOwned
  <2> QED BY <1>12, <1>13, <1>14, <2>1, NoCallIs DEF Armed
<1>18. Frame(t) = NoCall
  BY <1>1 DEF Frame
<1>19. Stays(t, NoCall) /\ \A f, e : t \notin Waiting(f, e)
  BY <1>18, NoCallIs, AwakeStays
<1>20. \A e \in Devices : tty'[e].write.proc = tty[e].write.proc
  BY <1>4, <1>6, <1>10
<1>21. Threaded' /\ \A f \in {"read", "write"}, e \in Devices : Waiting(f, e)' = Waiting(f, e)
  <2>1. \A f \in {"read", "write"}, e \in Devices : Proc(f, e)' = Proc(f, e)
    BY <1>10, <1>20 DEF Proc
  <2> QED BY <1>0, <1>14, <1>16, <1>19, <2>1, MovedThreaded
<1>22. ASSUME NEW e \in Devices PROVE ReaderGoes(t, e)
  BY <1>10, <1>13, <1>19, <1>21 DEF ReaderGoes, Idling, Taking, EMPTY
<1>23. WriterGoes(t)
  BY <1>0, <1>13, <1>19, <1>21 DEF WriterGoes
<1>24. Unspoilt' => t \notin Waiting("write", "con")' /\ ~LooksAgain'
  BY <1>0, <1>13, <1>19, <1>21 DEF LooksAgain
<1>25. \A e \in Devices : /\ EMPTY(tty[e].write) => EMPTY(tty'[e].write)
                          /\ ~FULL(tty[e].write) => ~FULL(tty'[e].write)
  BY <1>4, <1>6, <1>10
<1>26. SerialSends'
  BY <1>0, <1>13, <1>14, <1>16, <1>18, <1>25, NoCallIs, MovedSends
<1>27. (Unspoilt => ConOK) => (Unspoilt' => ConOK')
  <2> SUFFICES ASSUME ConOK PROVE ConOK'
    BY <1>13 DEF Unspoilt
  <2>1. ~FULL(tty'["con"].write)
    BY <1>0, <1>16, <1>25 DEF ConOK
  <2>2. \A i : ~Shower(i)'
    BY <1>13 DEF Shower
  <2> QED BY <2>1, <2>2, ConAt
<1>28. (Clean => AllEdit) => (Clean' => AllEdit')
  <2>1. \A i, e : ~Cooker(i, e)'
    BY <1>13 DEF Cooker
  <2> QED BY <1>10, <1>13, <1>16, <2>1, MovedEdit
<1>29. TypeOK'
  BY <1>0, <1>10, <1>13, <1>14 DEF TypeOK, Moved
<1> QED BY <1>13, <1>14, <1>16, <1>17, <1>21, <1>22, <1>23, <1>24, <1>26, <1>27, <1>28, <1>29, MovedStep DEF Inv

-----------------------------------------------------------------------------
(* interruptible_sleep_on.                                                 *)

\* A task that goes to sleep is the new head and keeps the old one.
LEMMA PushThreaded ==
  ASSUME TypeOK, Placed, Threaded, NEW t \in Task, NEW fr, Idle(t), Moved(t, fr),
         \A g, e : t \notin Waiting(g, e), NEW f \in {"read", "write"}, NEW d \in Devices,
         fr.f = f, fr.d = d, fr.at = "slept", fr.tmp = Proc(f, d), Proc(f, d)' = t,
         \A g \in {"read", "write"}, e \in Devices : g # f \/ e # d => Proc(g, e)' = Proc(g, e)
  PROVE  Threaded'
<1>1. /\ Frame(t)' = fr
      /\ \A u \in Task : u # t => Frame(u)' = Frame(u)
      /\ \A g \in {"read", "write"} : \A e : t \in Waiting(g, e)' <=> fr.f = g /\ fr.d = e /\ fr.at = "slept"
      /\ \A g, e, u : u # t => (u \in Waiting(g, e)' <=> u \in Waiting(g, e))
  BY MovedCall
<1> SUFFICES ASSUME NEW g \in {"read", "write"}, NEW e \in Devices,
                    NEW S \in SUBSET Waiting(g, e)', S # {}
             PROVE  Proc(g, e)' \in S \/ \E u \in Waiting(g, e)' \ S : Frame(u)'.tmp \in S
  BY DEF Threaded
<1>2. ASSUME NEW u \in Waiting(g, e) \ S, Frame(u).tmp \in S
      PROVE  \E w \in Waiting(g, e)' \ S : Frame(w)'.tmp \in S
  <2>1. u \in Task /\ u # t
    BY DEF Waiting
  <2>2. Frame(u)' = Frame(u) /\ u \in Waiting(g, e)' \ S
    BY <1>1, <2>1
  <2> QED BY <1>2, <2>2
<1>3. CASE g # f \/ e # d
  <2>1. t \notin Waiting(g, e)'
    BY <1>1, <1>3
  <2>2. S \in SUBSET Waiting(g, e)
    BY <1>1, <2>1
  <2>3. Proc(g, e) \in S \/ \E u \in Waiting(g, e) \ S : Frame(u).tmp \in S
    BY <2>2 DEF Threaded
  <2>4. Proc(g, e)' = Proc(g, e)
    BY <1>3
  <2> QED BY <1>2, <2>3, <2>4
<1>4. CASE g = f /\ e = d /\ t \in S
  BY <1>4
<1>5. CASE g = f /\ e = d /\ t \notin S
  <2>1. S \in SUBSET Waiting(f, d)
    BY <1>1, <1>5
  <2>2. Proc(f, d) \in S \/ \E u \in Waiting(f, d) \ S : Frame(u).tmp \in S
    BY <2>1 DEF Threaded
  <2>3. CASE Proc(f, d) \in S
    <3>1. t \in Waiting(f, d)' \ S /\ Frame(t)'.tmp = Proc(f, d)
      BY <1>1, <1>5
    <3> QED BY <1>5, <2>3, <3>1
  <2>4. CASE \E u \in Waiting(f, d) \ S : Frame(u).tmp \in S
    BY <1>2, <1>5, <2>4
  <2> QED BY <2>2, <2>3, <2>4
<1> QED BY <1>3, <1>4, <1>5

\* The head goes and what it kept is the head.
LEMMA PopThreaded ==
  ASSUME TypeOK, Placed, Threaded, NEW t \in Task, NEW fr, Idle(t), Moved(t, fr), fr.at # "slept",
         NEW f \in {"read", "write"}, NEW d \in Devices, t \in Waiting(f, d), Proc(f, d) = t,
         \A g \in {"read", "write"}, e \in Devices : g # f \/ e # d => t \notin Waiting(g, e),
         Proc(f, d)' = Frame(t).tmp,
         \A g \in {"read", "write"}, e \in Devices : g # f \/ e # d => Proc(g, e)' = Proc(g, e)
  PROVE  Threaded'
<1>1. /\ \A u \in Task : u # t => Frame(u)' = Frame(u)
      /\ \A g \in {"read", "write"} : \A e : t \notin Waiting(g, e)'
      /\ \A g, e, u : u # t => (u \in Waiting(g, e)' <=> u \in Waiting(g, e))
  BY MovedCall
<1> SUFFICES ASSUME NEW g \in {"read", "write"}, NEW e \in Devices,
                    NEW S \in SUBSET Waiting(g, e)', S # {}
             PROVE  Proc(g, e)' \in S \/ \E u \in Waiting(g, e)' \ S : Frame(u)'.tmp \in S
  BY DEF Threaded
<1>2. ASSUME NEW u \in Waiting(g, e) \ S, Frame(u).tmp \in S, u # t
      PROVE  \E w \in Waiting(g, e)' \ S : Frame(w)'.tmp \in S
  <2>1. u \in Task
    BY DEF Waiting
  <2>2. Frame(u)' = Frame(u) /\ u \in Waiting(g, e)' \ S
    BY <1>1, <1>2, <2>1
  <2> QED BY <1>2, <2>2
<1>3. S \in SUBSET Waiting(g, e) /\ t \notin S
  BY <1>1
<1>4. Proc(g, e) \in S \/ \E u \in Waiting(g, e) \ S : Frame(u).tmp \in S
  BY <1>3 DEF Threaded
<1>5. CASE g # f \/ e # d
  <2>1. Proc(g, e)' = Proc(g, e) /\ t \notin Waiting(g, e)
    BY <1>5
  <2> QED BY <1>2, <1>4, <2>1
<1>6. CASE g = f /\ e = d
  <2>1. PICK u \in Waiting(g, e) \ S : Frame(u).tmp \in S
    BY <1>3, <1>4, <1>6
  <2> QED BY <1>2, <1>6, <2>1
<1> QED BY <1>5, <1>6

\* The pointer of one wait queue is set.
ProcSet(tt, d, f, p, u) == u = [tt EXCEPT ![d][IF f = "read" THEN "sec" ELSE "write"].proc = p]

\* That changes nothing else.
LEMMA SetProc ==
  ASSUME NEW tt \in [Devices -> Terminals], NEW d \in Devices, NEW p \in Task \cup {NoTask}, NEW u,
         NEW f \in {"read", "write"}, ProcSet(tt, d, f, p, u)
  PROVE  /\ u \in [Devices -> Terminals]
         /\ \A e \in Devices : e # d => u[e] = tt[e]
         /\ \A e \in Devices :
              /\ u[e].write.head = tt[e].write.head /\ u[e].write.tail = tt[e].write.tail
              /\ u[e].sec.head = tt[e].sec.head /\ u[e].sec.tail = tt[e].sec.tail
              /\ u[e].sec.buf = tt[e].sec.buf /\ u[e].sec.data = tt[e].sec.data
         /\ u[d].sec.proc = IF f = "read" THEN p ELSE tt[d].sec.proc
         /\ u[d].write.proc = IF f = "write" THEN p ELSE tt[d].write.proc
<1>1. PICK T \in Terminals, q \in Rings, s \in Rings : T = tt[d] /\ q = T.write /\ s = T.sec
  BY DEF Terminals
<1>2. CASE f = "read"
  <2>1. PICK r : r = [s EXCEPT !.proc = p]
    OBVIOUS
  <2>2. r \in Rings /\ r.head = s.head /\ r.tail = s.tail /\ r.buf = s.buf /\ r.data = s.data /\ r.proc = p
    BY <2>1 DEF Rings
  <2>3. u = [tt EXCEPT ![d].sec = r]
    <3>1. PICK k : k = IF f = "read" THEN "sec" ELSE "write"
      OBVIOUS
    <3>2. u = [tt EXCEPT ![d][k].proc = p] /\ k = "sec"
      BY <1>2, <3>1 DEF ProcSet
    <3>3. u = [tt EXCEPT ![d] = [tt[d] EXCEPT !.sec = [tt[d].sec EXCEPT !.proc = p]]]
      BY <3>2
    <3>4. u = [tt EXCEPT ![d] = [tt[d] EXCEPT !.sec = r]]
      BY <1>1, <2>1, <3>3
    <3> QED BY <3>4
  <2>4. /\ u \in [Devices -> Terminals] /\ u[d].sec = r
        /\ \A e \in Devices : e # d => u[e] = tt[e]
        /\ \A e \in Devices : u[e].read = tt[e].read /\ u[e].write = tt[e].write
    BY <2>2, <2>3, SetSec
  <2> QED BY <1>1, <1>2, <2>2, <2>4
<1>3. CASE f = "write"
  <2>1. PICK r : r = [q EXCEPT !.proc = p]
    OBVIOUS
  <2>2. r \in Rings /\ r.head = q.head /\ r.tail = q.tail /\ r.proc = p
    BY <2>1 DEF Rings
  <2>3. u = [tt EXCEPT ![d].write = r]
    <3>1. PICK k : k = IF f = "read" THEN "sec" ELSE "write"
      OBVIOUS
    <3>2. u = [tt EXCEPT ![d][k].proc = p] /\ k = "write"
      BY <1>3, <3>1 DEF ProcSet
    <3>3. u = [tt EXCEPT ![d] = [tt[d] EXCEPT !.write = [tt[d].write EXCEPT !.proc = p]]]
      BY <3>2
    <3>4. u = [tt EXCEPT ![d] = [tt[d] EXCEPT !.write = r]]
      BY <1>1, <2>1, <3>3
    <3> QED BY <3>4
  <2>4. /\ u \in [Devices -> Terminals] /\ u[d].write = r
        /\ \A e \in Devices : e # d => u[e] = tt[e]
        /\ \A e \in Devices : u[e].read = tt[e].read /\ u[e].sec = tt[e].sec
    BY <2>2, <2>3, SetWrite
  <2> QED BY <1>1, <1>3, <2>2, <2>4
<1> QED BY <1>2, <1>3

\* Pointers of the other queues stay.
LEMMA ProcSetOne ==
  ASSUME tty \in [Devices -> Terminals], NEW d \in Devices, NEW p \in Task \cup {NoTask},
         NEW f \in {"read", "write"}, ProcSet(tty, d, f, p, tty')
  PROVE  /\ tty' \in [Devices -> Terminals] /\ QueuesKept /\ Proc(f, d)' = p
         /\ \A g \in {"read", "write"}, e \in Devices : g # f \/ e # d => Proc(g, e)' = Proc(g, e)
<1>0. PICK tt \in [Devices -> Terminals] : tt = tty
  OBVIOUS
<1>1. PICK u : tt = tty /\ u = tty'
  BY <1>0
<1>2. ProcSet(tt, d, f, p, u)
  BY <1>1
<1>3. /\ u \in [Devices -> Terminals]
      /\ \A e \in Devices : e # d => u[e] = tt[e]
      /\ \A e \in Devices :
           /\ u[e].write.head = tt[e].write.head /\ u[e].write.tail = tt[e].write.tail
           /\ u[e].sec.head = tt[e].sec.head /\ u[e].sec.tail = tt[e].sec.tail
           /\ u[e].sec.buf = tt[e].sec.buf /\ u[e].sec.data = tt[e].sec.data
      /\ u[d].sec.proc = IF f = "read" THEN p ELSE tt[d].sec.proc
      /\ u[d].write.proc = IF f = "write" THEN p ELSE tt[d].write.proc
  BY <1>2, SetProc
<1>4. QueuesKept
  BY <1>1, <1>3 DEF QueuesKept
<1>5. Proc(f, d)' = p
  BY <1>1, <1>3 DEF Proc
<1>6. ASSUME NEW g \in {"read", "write"}, NEW e \in Devices, g # f \/ e # d
      PROVE  Proc(g, e)' = Proc(g, e)
  BY <1>1, <1>3, <1>6 DEF Proc
<1> QED BY <1>1, <1>3, <1>4, <1>5, <1>6

\* A call goes to sleep: a reader on an empty queue, a writer on one that is
\* not empty, which to the console is so only when the queue was spoilt.
LEMMA SleepStep ==
  ASSUME Inv, stack # << >>, NEW f \in {"read", "write"}, Top.f = f, Top.at \in {"loop", "again"},
         Sleep(Top.d, IF f = "read" THEN "sec" ELSE "write", Top),
         f = "read" => EMPTY(tty[Top.d].sec),
         f = "write" => ~EMPTY(tty[Top.d].write),
         f = "write" /\ Top.at = "loop" => FULL(tty[Top.d].write)
  PROVE  Inv'
<1>0. /\ TypeOK /\ Placed /\ AlarmsOwned /\ Threaded /\ SerialSends
      /\ task \in [Task -> Tasks] /\ tty \in [Devices -> Terminals]
      /\ "con" \in Devices /\ "rs" \in Devices
  BY DEF Inv, TypeOK, Devices
<1>1. PICK t \in Task, r \in Tasks, d \in Devices :
        /\ t = Top.t /\ Frame(t) = Top /\ r = task[t] /\ d = Top.d /\ Top \in CallFrames
  BY <1>0, AtWork
<1>2. PICK tmp \in Task \cup {NoTask} : tmp = Proc(f, d)
  <2>1. tty[d] \in Terminals
    BY <1>0
  <2>2. tty[d].sec \in Rings /\ tty[d].write \in Rings
    BY <2>1 DEF Terminals
  <2> QED BY <2>2 DEF Rings, Proc
<1>3. PICK fr : fr = [Top EXCEPT !.at = "slept", !.tmp = tmp]
  OBVIOUS
<1>4. /\ fr \in CallFrames /\ fr.t = t /\ fr.f = f /\ fr.d = d /\ fr.at = "slept" /\ fr.tmp = tmp
      /\ f = "read" => fr.flag = Top.flag /\ fr.old = Top.old
  <2>1. CASE f = "read"
    <3>1. Top \in ReadFrames
      BY <1>1, <2>1, CallKind, Kinds
    <3> QED BY <1>1, <1>3, <2>1, <3>1 DEF ReadFrames, CallFrames
  <2>2. CASE f = "write"
    <3>1. Top \in WriteFrames
      BY <1>1, <2>2, CallKind, Kinds
    <3> QED BY <1>1, <1>3, <2>2, <3>1 DEF WriteFrames, CallFrames
  <2> QED BY <2>1, <2>2
<1>5. /\ ProcSet(tty, d, f, t, tty') /\ stack' = << >> /\ UNCHANGED <<tx, cr_flag, input, seen>>
      /\ task' = [task EXCEPT ![t].st = "asleep", ![t].call = fr]
  <2>1. tty[d][IF f = "read" THEN "sec" ELSE "write"].proc = Proc(f, d)
    BY DEF Proc
  <2> QED BY <1>1, <1>2, <1>3, <2>1 DEF Sleep, ProcSet
<1>6. PICK v : v = [r EXCEPT !.st = "asleep", !.call = fr]
  OBVIOUS
<1>7. v \in Tasks /\ v.st = "asleep" /\ v.call = fr /\ v.alarm = r.alarm
  BY <1>4, <1>6 DEF Tasks
<1>8. task' = [task EXCEPT ![t] = v]
  BY <1>0, <1>1, <1>5, <1>6
<1>9. Moved(t, fr) /\ task'[t] = v
  BY <1>0, <1>4, <1>5, <1>7, <1>8, MovedTo
<1>10. AtRest(t) /\ Idle(t)
  <2>1. AtRest(t)
    BY <1>1 DEF AtRest
  <2> QED BY <1>0, <2>1, RestIdle
<1>11. Armed(t, fr)
  BY <1>0, <1>1, <1>4, <1>5, <1>7, <1>9, WorkAlarm DEF Armed
<1>12. \A g, e : t \notin Waiting(g, e)
  BY <1>1, NotWaiting
<1>13. /\ tty' \in [Devices -> Terminals] /\ QueuesKept /\ Proc(f, d)' = t
       /\ \A g \in {"read", "write"}, e \in Devices : g # f \/ e # d => Proc(g, e)' = Proc(g, e)
  BY <1>0, <1>5, ProcSetOne
<1>14. Threaded'
  BY <1>0, <1>2, <1>4, <1>9, <1>10, <1>12, <1>13, PushThreaded
<1>15. \A g \in {"read", "write"}, e \in Devices : t \in Waiting(g, e)' <=> g = f /\ e = d
  BY <1>0, <1>4, <1>9, <1>10, MovedCall
<1>16. \A e : ~Filling(e) /\ ~Taking(e)'
  BY <1>0, <1>5, <1>10, RestIdle DEF Taking
<1>17. ASSUME NEW e \in Devices PROVE ReaderGoes(t, e)
  <2>1. EMPTY(tty[e].sec) => EMPTY(tty'[e].sec)
    BY <1>13 DEF QueuesKept, EMPTY
  <2>2. CASE f = "read" /\ e = d
    BY <1>1, <1>16, <2>1, <2>2 DEF ReaderGoes, Idling
  <2>3. CASE ~(f = "read" /\ e = d)
    <3>1. t \notin Waiting("read", e)'
      BY <1>15, <2>3
    <3> QED BY <1>12, <1>16, <2>1, <3>1 DEF ReaderGoes, Idling
  <2> QED BY <2>2, <2>3
<1>18. WriterGoes(t)
  <2>1. CASE f = "write" /\ d = "rs"
    <3>1. tx \/ "faulted" \in seen
      BY <1>0, <1>1, <1>16, <2>1 DEF SerialSends
    <3> QED BY <1>5, <3>1 DEF WriterGoes
  <2>2. CASE ~(f = "write" /\ d = "rs")
    <3>1. t \notin Waiting("write", "rs")'
      BY <1>0, <1>15, <2>2
    <3> QED BY <1>5, <1>12, <3>1 DEF WriterGoes
  <2> QED BY <2>1, <2>2
<1>19. Unspoilt' => t \notin Waiting("write", "con")' /\ ~LooksAgain'
  <2>0. ~LooksAgain'
    BY <1>5 DEF LooksAgain
  <2>1. CASE f = "write" /\ d = "con"
    <3>1. Unspoilt => ConOK
      BY <1>0, ConsoleForm DEF Inv
    <3>2. \A i : ~Shower(i)
      BY <1>0, <1>10, RestIdle
    <3>3. CASE Top.at = "loop"
      <4>1. ~Unspoilt
        BY <1>1, <1>16, <2>1, <3>1, <3>2, <3>3 DEF ConOK
      <4> QED BY <1>5, <4>1 DEF Unspoilt
    <3>4. CASE Top.at = "again"
      <4>1. LooksAgain
        BY <1>0, <1>1, <2>1, <3>4, AtWork DEF LooksAgain
      <4>2. ~Unspoilt
        BY <4>1 DEF Inv, WriterWoken, Unspoilt
      <4> QED BY <1>5, <4>2 DEF Unspoilt
    <3> QED BY <3>3, <3>4
  <2>2. CASE ~(f = "write" /\ d = "con")
    BY <1>0, <1>15, <2>0, <2>2
  <2> QED BY <2>1, <2>2
<1> QED BY <1>1, <1>5, <1>9, <1>10, <1>11, <1>13, <1>14, <1>17, <1>18, <1>19, RestMove

\* One task is replaced.
LEMMA OneTask ==
  ASSUME NEW tk \in [Task -> Tasks], NEW t \in Task, NEW v \in Tasks, NEW u, u = [tk EXCEPT ![t] = v]
  PROVE  u \in [Task -> Tasks] /\ u[t] = v /\ \A w \in Task : w # t => u[w] = tk[w]
OBVIOUS

\* A stack with one call.
LEMMA OneFrame ==
  ASSUME NEW fr \in CallFrames
  PROVE  <<fr>> \in Seq(Frames) /\ <<fr>> # << >> /\ <<fr>>[1] = fr /\ DOMAIN <<fr>> = 1 .. 1
BY DEF Frames

\* The end of a sleep, when somebody slept on the queue since: he goes first.
LEMMA TowStep ==
  ASSUME Inv, stack # << >>, NEW f \in {"read", "write"}, Top.f = f, Top.at = "slept",
         NEW h \in Task, h = Proc(f, Top.d), h # Top.t,
         task' = [Woken(task, h) EXCEPT ![Top.t].st = "asleep", ![Top.t].call = Top],
         stack' = << >>, UNCHANGED <<tty, tx, cr_flag, input, seen>>
  PROVE  Inv'
<1>0. TypeOK /\ Placed /\ AlarmsOwned /\ Threaded /\ task \in [Task -> Tasks]
  BY DEF Inv, TypeOK
<1>1. PICK t \in Task, r \in Tasks, d \in Devices, fr \in CallFrames :
        /\ t = Top.t /\ Frame(t) = fr /\ r = task[t] /\ d = Top.d /\ fr = Top /\ r.st = "kernel"
        /\ fr.t = t
  BY <1>0, AtWork
<1>2. PICK tk : tk = Woken(task, h)
  OBVIOUS
<1>3. /\ tk \in [Task -> Tasks]
      /\ \A u \in Task : /\ tk[u].call = task[u].call /\ tk[u].alarm = task[u].alarm
                         /\ tk[u].sig = task[u].sig
                         /\ tk[u].st = IF u = h /\ task[u].st = "asleep" THEN "ready" ELSE task[u].st
  BY <1>0, <1>2, WokenCalm
<1>4. PICK v : v = [tk[t] EXCEPT !.st = "asleep", !.call = fr]
  OBVIOUS
<1>5. v \in Tasks /\ v.st = "asleep" /\ v.call = fr /\ v.alarm = r.alarm
  <2>1. tk[t] \in Tasks /\ tk[t].alarm = r.alarm
    BY <1>1, <1>3
  <2> QED BY <1>4, <2>1 DEF Tasks
<1>6. task' = [tk EXCEPT ![t] = v]
  <2>1. task' = [tk EXCEPT ![t].st = "asleep", ![t].call = fr]
    BY <1>1, <1>2
  <2> QED BY <1>3, <1>4, <2>1
<1>7. task' \in [Task -> Tasks] /\ task'[t] = v /\ \A u \in Task : u # t => task'[u] = tk[u]
  <2>1. PICK w : w = [tk EXCEPT ![t] = v]
    OBVIOUS
  <2>2. w \in [Task -> Tasks] /\ w[t] = v /\ \A u \in Task : u # t => w[u] = tk[u]
    BY <1>3, <1>5, <2>1, OneTask
  <2>3. task' = w
    BY <1>6, <2>1
  <2> QED BY <2>2, <2>3
<1>8. Moved(t, fr)
  <2>1. stack' \in Seq(Frames)
    OBVIOUS
  <2>2. ASSUME NEW u \in Task, u # t
        PROVE  /\ task'[u].call = task[u].call /\ task'[u].alarm = task[u].alarm
               /\ task'[u].sig = task[u].sig
               /\ task'[u].st = task[u].st \/ (task[u].st = "asleep" /\ task'[u].st = "ready")
    <3>1. task'[u] = tk[u]
      BY <1>7, <2>2
    <3> QED BY <1>3, <3>1
  <2> QED BY <1>1, <1>5, <1>7, <2>1, <2>2 DEF Moved
<1>9. AtRest(t) /\ Idle(t)
  <2>1. AtRest(t)
    BY <1>1 DEF AtRest
  <2> QED BY <1>0, <2>1, RestIdle
<1>10. Armed(t, fr)
  BY <1>0, <1>1, <1>5, <1>7, WorkAlarm DEF Armed
<1>11. Stays(t, fr)
  BY <1>1 DEF Stays, Waiting
<1>12. \A e : ~Taking(e)'
  BY DEF Taking
<1>13. ASSUME NEW g \in {"read", "write"}, NEW e \in Devices, t \in Waiting(g, e) PROVE Awake(g, e)'
  <2>1. g = f /\ e = d
    BY <1>1, <1>13 DEF Waiting
  <2>2. h \in Waiting(g, e)
    BY <1>0, <1>1, <1>13, <2>1, HeadWaits
  <2>3. h \in Waiting(g, e)'
    BY <1>0, <1>1, <1>8, <1>9, <2>2, MovedCall
  <2>4. task'[h].st # "asleep"
    BY <1>1, <1>3, <1>7
  <2> QED BY <2>3, <2>4 DEF Awake
<1> QED BY <1>1, <1>8, <1>9, <1>10, <1>11, <1>12, <1>13, QuietMove

\* The end of a sleep, when nobody did: the next one is the head, and woken.
LEMMA LeaveStep ==
  ASSUME Inv, stack # << >>, NEW f \in {"read", "write"}, Top.f = f, Top.at = "slept",
         ~(Proc(f, Top.d) \in Task /\ Proc(f, Top.d) # Top.t),
         ProcSet(tty, Top.d, f, Top.tmp, tty'), task' = Woken(task, Top.tmp),
         stack' = Become([Top EXCEPT !.at = "again", !.tmp = NoTask]),
         UNCHANGED <<tx, cr_flag, input, seen>>
  PROVE  Inv'
<1>0. /\ TypeOK /\ Placed /\ AlarmsOwned /\ Threaded /\ task \in [Task -> Tasks]
      /\ tty \in [Devices -> Terminals] /\ "rs" \in Devices /\ "con" \in Devices
  BY DEF Inv, TypeOK, Devices
<1>1. PICK t \in Task, r \in Tasks, d \in Devices, o \in CallFrames :
        /\ t = Top.t /\ Frame(t) = o /\ r = task[t] /\ d = Top.d /\ o = Top /\ r.st = "kernel"
        /\ r.call = NoCall /\ o.t = t /\ stack = <<Top>>
  BY <1>0, AtWork
<1>2. PICK tmp \in Task \cup {NoTask} : tmp = Top.tmp
  <2>1. o \in Frames
    BY DEF Frames
  <2> QED BY <1>1, <2>1, Kinds
<1>3. t \in Waiting(f, d) /\ Proc(f, d) = t
      /\ \A g \in {"read", "write"}, e \in Devices : g # f \/ e # d => t \notin Waiting(g, e)
  <2>1. t \in Waiting(f, d)
    BY <1>1 DEF Waiting
  <2>2. Proc(f, d) \in Task
    BY <1>0, <2>1, HeadWaits DEF Waiting
  <2>3. \A g \in {"read", "write"}, e \in Devices : g # f \/ e # d => t \notin Waiting(g, e)
    BY <1>1 DEF Waiting
  <2> QED BY <1>1, <2>1, <2>2, <2>3
<1>4. PICK fr : fr = [Top EXCEPT !.at = "again", !.tmp = NoTask]
  OBVIOUS
<1>5. /\ fr \in CallFrames /\ fr.t = t /\ fr.f = f /\ fr.d = d /\ fr.at = "again"
      /\ f = "read" => fr.flag = Top.flag /\ fr.old = Top.old
  <2>1. CASE f = "read"
    <3>1. Top \in ReadFrames
      BY <1>1, <2>1, CallKind, Kinds
    <3> QED BY <1>1, <1>4, <2>1, <3>1 DEF ReadFrames, CallFrames
  <2>2. CASE f = "write"
    <3>1. Top \in WriteFrames
      BY <1>1, <2>2, CallKind, Kinds
    <3> QED BY <1>1, <1>4, <2>2, <3>1 DEF WriteFrames, CallFrames
  <2> QED BY <2>1, <2>2
<1>6. stack' = <<fr>>
  BY <1>1, <1>4 DEF Become
<1>7. /\ task' \in [Task -> Tasks]
      /\ \A u \in Task : /\ task'[u].call = task[u].call /\ task'[u].alarm = task[u].alarm
                         /\ task'[u].sig = task[u].sig
                         /\ task'[u].st = IF u = tmp /\ task[u].st = "asleep" THEN "ready" ELSE task[u].st
  <2>1. PICK tk : tk = Woken(task, tmp)
    OBVIOUS
  <2>2. /\ tk \in [Task -> Tasks]
        /\ \A u \in Task : /\ tk[u].call = task[u].call /\ tk[u].alarm = task[u].alarm
                           /\ tk[u].sig = task[u].sig
                           /\ tk[u].st = IF u = tmp /\ task[u].st = "asleep" THEN "ready" ELSE task[u].st
    BY <1>0, <2>1, WokenCalm
  <2>3. task' = tk
    BY <1>2, <2>1
  <2> QED BY <2>2, <2>3
<1>8. Moved(t, fr)
  <2>1. stack' \in Seq(Frames) /\ stack' # << >> /\ stack'[1] = fr /\ DOMAIN stack' = 1 .. 1
    BY <1>5, <1>6, OneFrame
  <2>2. \A i \in DOMAIN stack' : i # 1 => stack'[i].f = "con_write"
    BY <2>1
  <2>3. task'[t].st = "kernel" /\ task'[t].call = NoCall
    BY <1>1, <1>7
  <2>4. ASSUME NEW u \in Task
        PROVE  /\ task'[u].call = task[u].call /\ task'[u].alarm = task[u].alarm
               /\ task'[u].sig = task[u].sig
               /\ task'[u].st = task[u].st \/ (task[u].st = "asleep" /\ task'[u].st = "ready")
    BY <1>7
  <2> QED BY <1>5, <1>7, <2>1, <2>2, <2>3, <2>4 DEF Moved
<1>9. AtRest(t) /\ Idle(t)
  <2>1. AtRest(t)
    BY <1>1 DEF AtRest
  <2> QED BY <1>0, <2>1, RestIdle
<1>10. Armed(t, fr)
  BY <1>0, <1>1, <1>5, <1>7, WorkAlarm DEF Armed
<1>11. /\ tty' \in [Devices -> Terminals] /\ QueuesKept /\ Proc(f, d)' = tmp
       /\ \A g \in {"read", "write"}, e \in Devices : g # f \/ e # d => Proc(g, e)' = Proc(g, e)
  <2>1. ProcSet(tty, d, f, tmp, tty')
    BY <1>1, <1>2
  <2> QED BY <1>0, <2>1, ProcSetOne
<1>12. Threaded'
  BY <1>0, <1>1, <1>2, <1>3, <1>5, <1>8, <1>9, <1>11, PopThreaded
<1>13. \A g \in {"read", "write"}, e \in Devices : t \notin Waiting(g, e)'
  BY <1>0, <1>5, <1>8, <1>9, MovedCall
<1>14. Waiting(f, d)' # {} => Awake(f, d)'
  <2> SUFFICES ASSUME Waiting(f, d)' # {} PROVE Awake(f, d)'
    OBVIOUS
  <2>1. Proc(f, d)' \in Waiting(f, d)'
    BY <1>12 DEF Threaded
  <2>2. tmp \in Waiting(f, d)' /\ tmp \in Task
    BY <1>11, <2>1 DEF Waiting
  <2>3. task'[tmp].st # "asleep"
    BY <1>7, <2>2
  <2> QED BY <2>2, <2>3 DEF Awake
<1>15. \A e : ~Taking(e)'
  BY <1>5, <1>6 DEF Taking
<1>16. ASSUME NEW e \in Devices PROVE ReaderGoes(t, e)
  <2>1. EMPTY(tty[e].sec) => EMPTY(tty'[e].sec)
    BY <1>11 DEF QueuesKept, EMPTY
  <2>2. CASE f = "read" /\ e = d
    BY <1>14, <2>2 DEF ReaderGoes
  <2>3. CASE ~(f = "read" /\ e = d)
    <3>1. t \notin Waiting("read", e)' /\ t \notin Waiting("read", e)
      BY <1>3, <1>13, <2>3
    <3> QED BY <1>15, <2>1, <3>1 DEF ReaderGoes, Idling
  <2> QED BY <2>2, <2>3
<1>17. WriterGoes(t)
  <2>1. CASE f = "write" /\ d = "rs"
    BY <1>14, <2>1 DEF WriterGoes
  <2>2. CASE ~(f = "write" /\ d = "rs")
    <3>1. t \notin Waiting("write", "rs")' /\ t \notin Waiting("write", "rs")
      BY <1>0, <1>3, <1>13, <2>2
    <3> QED BY <3>1 DEF WriterGoes
  <2> QED BY <2>1, <2>2
<1>18. Unspoilt' => t \notin Waiting("write", "con")' /\ ~LooksAgain'
  <2>1. CASE f = "write" /\ d = "con"
    BY <1>3, <2>1 DEF Inv, WriterWoken, Unspoilt
  <2>2. CASE ~(f = "write" /\ d = "con")
    <3>1. ~LooksAgain'
      BY <1>5, <1>6, <2>2 DEF LooksAgain
    <3> QED BY <1>0, <1>13, <3>1
  <2> QED BY <2>1, <2>2
<1> QED BY <1>1, <1>6, <1>8, <1>9, <1>10, <1>11, <1>12, <1>16, <1>17, <1>18, RestMove

\* interruptible_sleep_on after schedule().
LEMMA SleepEndStep ==
  ASSUME Inv, SleepEnd
  PROVE  Inv'
<1>0. /\ TypeOK /\ Placed /\ stack # << >> /\ Top.f \in {"read", "write"} /\ Top.at = "slept"
      /\ UNCHANGED <<tx, cr_flag, input, seen>>
  BY DEF SleepEnd, Inv
<1>1. PICK f \in {"read", "write"} : f = Top.f
  BY <1>0
<1>2. PICK k, h : /\ k = (IF Top.f = "read" THEN "sec" ELSE "write") /\ h = tty[Top.d][k].proc
  OBVIOUS
<1>3. h = Proc(f, Top.d) /\ k = (IF f = "read" THEN "sec" ELSE "write")
  BY <1>1, <1>2 DEF Proc
<1>4. IF h \in Task /\ h # Top.t
      THEN /\ task' = [Woken(task, h) EXCEPT ![Top.t].st = "asleep", ![Top.t].call = Top]
           /\ stack' = << >>
           /\ UNCHANGED tty
      ELSE /\ tty' = [tty EXCEPT ![Top.d][k].proc = Top.tmp]
           /\ task' = Woken(task, Top.tmp)
           /\ stack' = Become([Top EXCEPT !.at = "again", !.tmp = NoTask])
  BY <1>2 DEF SleepEnd
<1>5. CASE h \in Task /\ h # Top.t
  BY <1>0, <1>1, <1>3, <1>4, <1>5, TowStep
<1>6. CASE ~(h \in Task /\ h # Top.t)
  <2>1. ProcSet(tty, Top.d, f, Top.tmp, tty')
    BY <1>3, <1>4, <1>6 DEF ProcSet
  <2> QED BY <1>0, <1>1, <1>3, <1>4, <1>6, <2>1, LeaveStep
<1> QED BY <1>5, <1>6

-----------------------------------------------------------------------------
(* tty_read and tty_write.                                                 *)

\* A read goes round without having anything to take; or nothing happens.
LEMMA Stutter ==
  ASSUME Inv, UNCHANGED vars
  PROVE  Inv'
<1>0. TypeOK /\ Placed /\ SerialSends
  BY DEF Inv
<1>1. UNCHANGED <<tty, task, stack, tx, cr_flag, input, seen>>
  BY DEF vars
<1>2. TasksCalm /\ StackCalm
  BY <1>0, <1>1, SameTasks, SameCalm
<1>3. TypeOK'
  BY <1>0, <1>1 DEF TypeOK
<1>4. SerialSends'
  BY <1>0, <1>1, <1>2, CalmSends DEF EMPTY
<1>5. (Clean => AllEdit) => (Clean' => AllEdit')
  BY <1>1, SameEdits
<1>6. (Unspoilt => ConOK) => (Unspoilt' => ConOK')
  <2>1. \A i : Shower(i)' <=> Shower(i)
    BY <1>1 DEF Shower
  <2>2. Filling("con") => Filling("con")'
    BY <1>1 DEF Filling
  <2> QED BY <1>1, <2>1, <2>2, SameShow
<1>7. \A e \in Devices :
         \/ Running("cooked", e)'
         \/ ~Running("cooked", e) /\ (EMPTY(tty[e].sec) => EMPTY(tty[e].sec)')
  BY <1>1 DEF Running, EMPTY
<1> QED BY <1>1, <1>2, <1>3, <1>4, <1>5, <1>6, <1>7, InterruptStep

\* The head of tty_read's loop.
LEMMA ReadLoopStep ==
  ASSUME Inv, ReadLoop
  PROVE  Inv'
<1>0. TypeOK /\ Placed /\ AlarmsOwned /\ stack # << >> /\ Top.f = "read" /\ Top.at \in {"loop", "again"}
  BY DEF ReadLoop, Inv
<1>1. Top \in CallFrames /\ Top \in ReadFrames
  BY <1>0, AtWork, CallKind, Kinds
<1>2. CASE Return(Top.t, Top.old) /\ UNCHANGED <<tty, tx, cr_flag, input, seen>>
  <2>1. Top.old \in BOOLEAN /\ ("eof" \notin seen => ~Top.old)
    BY <1>0, <1>1, WorkAlarm DEF ReadFrames
  <2> QED BY <1>0, <1>2, <2>1, QuietReturn
<1>3. CASE EMPTY(tty[Top.d].sec) /\ Sleep(Top.d, "sec", Top)
  <2>1. PICK f \in {"read", "write"} : f = "read"
    OBVIOUS
  <2>2. Sleep(Top.d, IF f = "read" THEN "sec" ELSE "write", Top)
    BY <1>3, <2>1
  <2> QED BY <1>0, <1>3, <2>1, <2>2, SleepStep
<1>4. CASE UNCHANGED vars
  BY <1>4, Stutter
<1>5. CASE /\ ~MustWait(tty[Top.d]) /\ stack' = Become([Top EXCEPT !.at = "take"])
           /\ UNCHANGED <<tty, task, tx, cr_flag, input, seen>>
  <2>1. PICK fr : fr = [Top EXCEPT !.at = "take"]
    OBVIOUS
  <2>2. fr \in CallFrames /\ fr.t = Top.t /\ fr.at = "take" /\ fr.f = "read" /\ fr.d = Top.d
        /\ fr.flag = Top.flag /\ fr.old = Top.old
    BY <1>1, <2>1 DEF ReadFrames, CallFrames
  <2>3. ~EMPTY(tty[Top.d].sec)
    BY <1>5 DEF MustWait
  <2> QED BY <1>0, <1>5, <2>1, <2>2, <2>3, QuietOn
<1> QED BY <1>2, <1>3, <1>4, <1>5 DEF ReadLoop

\* The head of tty_write's loop.
LEMMA WriteLoopStep ==
  ASSUME Inv, WriteLoop
  PROVE  Inv'
<1>0. /\ TypeOK /\ Placed /\ AlarmsOwned /\ stack # << >> /\ Top.f = "write"
      /\ Top.at \in {"loop", "again"}
  BY DEF WriteLoop, Inv
<1>1. Top \in CallFrames /\ Top \in WriteFrames
  BY <1>0, AtWork, CallKind, Kinds
<1>2. CASE Return(Top.t, task[Top.t].alarm) /\ UNCHANGED <<tty, tx, cr_flag, input, seen>>
  <2>1. task[Top.t].alarm \in BOOLEAN
    BY <1>0, AtWork DEF Tasks
  <2>2. "eof" \notin seen => ~task[Top.t].alarm
    BY <1>0, WorkAlarm
  <2> QED BY <1>0, <1>2, <2>1, <2>2, QuietReturn
<1>3. CASE /\ FULL(tty[Top.d].write) \/ LEFT(tty[Top.d].write) < LOW
           /\ Top.at = "loop" => FULL(tty[Top.d].write)
           /\ Sleep(Top.d, "write", Top)
  <2>1. PICK f \in {"read", "write"} : f = "write"
    OBVIOUS
  <2>2. Sleep(Top.d, IF f = "read" THEN "sec" ELSE "write", Top)
    BY <1>3, <2>1
  <2>3. ~EMPTY(tty[Top.d].write)
    <3>1. PICK q \in Rings : q = tty[Top.d].write
      BY <1>0, AtWork DEF Terminals
    <3>2. N \in Nat /\ N > 2 /\ LOW \in 0 .. N - 1
      BY TtyAssumption DEF N
    <3>3. EMPTY(q) => LEFT(q) = N - 1
      BY <3>2, RingCount
    <3> QED BY <1>3, <3>1, <3>2, <3>3 DEF FULL
  <2> QED BY <1>0, <1>3, <2>1, <2>2, <2>3, SleepStep
<1>4. CASE stack' = Become([Top EXCEPT !.at = "fill"]) /\ UNCHANGED <<tty, task, tx, cr_flag, input, seen>>
  <2>1. PICK fr : fr = [Top EXCEPT !.at = "fill"]
    OBVIOUS
  <2>2. fr \in CallFrames /\ fr.t = Top.t /\ fr.at = "fill" /\ fr.f = "write"
    BY <1>1, <2>1 DEF WriteFrames, CallFrames
  <2> QED BY <1>0, <1>4, <2>1, <2>2, QuietOn
<1>5. \/ Return(Top.t, task[Top.t].alarm) /\ UNCHANGED <<tty, tx, cr_flag, input, seen>>
      \/ /\ FULL(tty[Top.d].write) \/ LEFT(tty[Top.d].write) < LOW
         /\ Top.at = "loop" => FULL(tty[Top.d].write)
         /\ Sleep(Top.d, "write", Top)
      \/ stack' = Become([Top EXCEPT !.at = "fill"]) /\ UNCHANGED <<tty, task, tx, cr_flag, input, seen>>
  BY DEF WriteLoop
<1> QED BY <1>2, <1>3, <1>4, <1>5

\* A read has taken a character; its call is fr now.
TakesOne(fr) ==
  /\ stack # << >> /\ Top.f = "read" /\ Top.at = "take"
  /\ Moved(Top.t, fr) /\ Armed(Top.t, fr) /\ fr.at # "slept" /\ (fr \in CallFrames => fr.d = Top.d)
  /\ fr.f # "write"
  /\ stack' = << >> \/ stack' = <<fr>>
  /\ seen \subseteq seen' /\ seen' \subseteq Marks /\ ("stray" \in seen' => "stray" \in seen)
  /\ EMPTY(tty[Top.d].sec) => "erased" \in seen'
  /\ UNCHANGED <<tx, cr_flag, input>>

\* The count of lines goes with the line end.
LEMMA TakeMove ==
  ASSUME Inv, NEW fr, TakesOne(fr), NEW q \in Rings, tty' = [tty EXCEPT ![Top.d].sec = q],
         q.proc = tty[Top.d].sec.proc,
         ~EMPTY(tty[Top.d].sec) /\ tty[Top.d].sec.data = Cardinality(LineEnds(tty[Top.d].sec)) =>
           q.data = Cardinality(LineEnds(q))
  PROVE  Inv'
<1>0. /\ TypeOK /\ Placed /\ Threaded /\ SerialSends /\ WriterWoken /\ tty \in [Devices -> Terminals]
      /\ "con" \in Devices /\ "rs" \in Devices
      /\ stack # << >> /\ Top.f = "read" /\ Top.at = "take"
      /\ fr.at # "slept" /\ (fr \in CallFrames => fr.d = Top.d) /\ fr.f # "write"
  BY DEF Inv, TypeOK, TakesOne, Devices
<1>1. /\ stack' = << >> \/ stack' = <<fr>>
      /\ seen \subseteq seen' /\ seen' \subseteq Marks /\ ("stray" \in seen' => "stray" \in seen)
      /\ EMPTY(tty[Top.d].sec) => "erased" \in seen'
      /\ UNCHANGED <<tx, cr_flag, input>>
  BY DEF TakesOne
<1>2. PICK t \in Task, d \in Devices : t = Top.t /\ d = Top.d /\ Frame(t) = Top /\ Top = stack[1]
  BY <1>0, AtWork
<1>3. Moved(t, fr) /\ Armed(t, fr)
  BY <1>2 DEF TakesOne
<1>4. AtRest(t)
  BY <1>0, <1>2 DEF AtRest
<1>5. /\ Idle(t) /\ \A i, e : ~Cooker(i, e) /\ ~Shower(i)
      /\ \A e : ~Running("cooked", e) /\ ~Filling(e)
  BY <1>0, <1>4, RestIdle
<1>6. /\ tty' \in [Devices -> Terminals] /\ tty'[d].sec = q
      /\ \A e \in Devices : e # d => tty'[e] = tty[e]
      /\ \A e \in Devices : tty'[e].write = tty[e].write
  <2>1. PICK u : u = tty'
    OBVIOUS
  <2>2. u = [tty EXCEPT ![d].sec = q]
    BY <1>2, <2>1
  <2>3. /\ u \in [Devices -> Terminals] /\ u[d].sec = q
        /\ \A e \in Devices : e # d => u[e] = tty[e]
        /\ \A e \in Devices : u[e].read = tty[e].read /\ u[e].write = tty[e].write
    BY <1>0, <2>2, SetSec
  <2> QED BY <2>1, <2>3
<1>7. Stays(t, fr) /\ \A f, e : t \notin Waiting(f, e)
  BY <1>0, <1>2, AwakeStays
<1>8. Threaded' /\ \A f \in {"read", "write"}, e \in Devices : Waiting(f, e)' = Waiting(f, e)
  <2>1. \A f \in {"read", "write"}, e \in Devices : Proc(f, e)' = Proc(f, e)
    BY <1>2, <1>6 DEF Proc
  <2> QED BY <1>0, <1>3, <1>5, <1>7, <2>1, MovedThreaded
<1>9. ASSUME NEW e \in Devices PROVE ReaderGoes(t, e)
  <2>1. t \notin Waiting("read", e) /\ t \notin Waiting("read", e)'
    BY <1>7, <1>8
  <2>2. CASE e = d
    <3>1. Taking(d)
      BY <1>0, <1>2 DEF Taking
    <3> QED BY <2>1, <2>2, <3>1 DEF ReaderGoes, Idling
  <2>3. CASE e # d
    <3>1. ~Taking(e)'
      <4> SUFFICES ASSUME Taking(e)' PROVE FALSE
        OBVIOUS
      <4>1. stack' # << >> /\ stack'[1].d = e
        BY DEF Taking
      <4>2. stack' = <<fr>> /\ fr.d = e
        BY <1>1, <4>1
      <4>3. fr \in CallFrames
        BY <1>3, <4>1 DEF Moved
      <4> QED BY <1>0, <1>2, <2>3, <4>2, <4>3
    <3>2. tty'[e] = tty[e]
      BY <1>6, <2>3
    <3> QED BY <2>1, <3>1, <3>2 DEF ReaderGoes, Idling
  <2> QED BY <2>2, <2>3
<1>10. WriterGoes(t) /\ (Unspoilt' => t \notin Waiting("write", "con")' /\ ~LooksAgain')
  <2>1. ~LooksAgain'
    BY <1>0, <1>1 DEF LooksAgain
  <2> QED BY <1>0, <1>1, <1>7, <1>8, <2>1 DEF WriterGoes
<1>11. SerialSends'
  BY <1>0, <1>1, <1>2, <1>3, <1>5, <1>6, MovedSends
<1>12. \A i : ~Shower(i)'
  <2>1. CASE stack' = << >>
    BY <2>1 DEF Shower
  <2>2. CASE stack' = <<fr>>
    <3>1. fr \in CallFrames
      BY <1>3, <2>2 DEF Moved
    <3>2. fr.f # "con_write"
      BY <3>1, CallKind
    <3> QED BY <2>2, <3>2 DEF Shower
  <2> QED BY <1>1, <2>1, <2>2
<1>13. (Unspoilt => ConOK) => (Unspoilt' => ConOK')
  BY <1>0, <1>1, <1>5, <1>6, <1>12, MovedShow
<1>14. (Clean => AllEdit) => (Clean' => AllEdit')
  <2>1. \A i, e : ~Cooker(i, e)'
    BY <1>0, <1>3, <1>5, MovedCall
  <2>2. ASSUME NEW e \in Devices, tty[e].sec.data = Cardinality(LineEnds(tty[e].sec)), Clean'
        PROVE  tty'[e].sec.data = Cardinality(LineEnds(tty'[e].sec))
    <3>1. CASE e # d
      BY <1>6, <2>2, <3>1
    <3>2. CASE e = d
      <4>1. ~EMPTY(tty[Top.d].sec)
        BY <1>1, <2>2 DEF Clean
      <4> QED BY <1>2, <1>6, <2>2, <3>2, <4>1
    <3> QED BY <3>1, <3>2
  <2> QED BY <1>1, <1>5, <2>1, <2>2, MovedEdit
<1>15. TypeOK'
  BY <1>0, <1>1, <1>3, <1>6 DEF TypeOK, Moved
<1> QED BY <1>1, <1>3, <1>5, <1>8, <1>9, <1>10, <1>11, <1>13, <1>14, <1>15, MovedStep

\* The count of lines of g goes down by j.
Lowered(g, j, q) == q = [g EXCEPT !.data = g.data - j]

\* The ring keeps its characters.
LEMMA LoweredRing ==
  ASSUME NEW g \in Rings, NEW j \in Nat, NEW q, Lowered(g, j, q)
  PROVE  q \in Rings /\ q.proc = g.proc /\ q.data = g.data - j /\ LineEnds(q) = LineEnds(g)
<1>1. q \in Rings /\ q.proc = g.proc /\ q.data = g.data - j
  BY DEF Rings, Lowered
<1>2. q.head = g.head /\ q.tail = g.tail /\ q.buf = g.buf
  BY DEF Rings, Lowered
<1>3. LineEnds(q) = LineEnds(g)
  BY <1>2, SameRing
<1> QED BY <1>1, <1>3

\* The ring after ReadTake took a character.
LEMMA TakenRing ==
  ASSUME NEW s \in Rings, NEW j \in Nat, j = (IF First(s) \in Delim THEN 1 ELSE 0),
         NEW q, Lowered(GETCH(s), j, q)
  PROVE  /\ q \in Rings /\ q.proc = s.proc
         /\ ~EMPTY(s) /\ s.data = Cardinality(LineEnds(s)) => q.data = Cardinality(LineEnds(q))
<1>1. PICK g \in Rings : g = GETCH(s) /\ g.proc = s.proc /\ g.data = s.data
  BY GetRing
<1>2. Lowered(g, j, q)
  BY <1>1
<1>3. q \in Rings /\ q.proc = g.proc /\ q.data = g.data - j /\ LineEnds(q) = LineEnds(g)
  BY <1>2, LoweredRing
<1>4. ~EMPTY(s) => Cardinality(LineEnds(g)) = Cardinality(LineEnds(s)) - j
  BY <1>1, LinesGet
<1> QED BY <1>1, <1>3, <1>4

\* The alarm of t becomes a.
AlarmSet(t, a) == task' = [task EXCEPT ![t].alarm = a]

\* A read that has taken its character goes on as fr, its alarm being a.
LEMMA TakesOn ==
  ASSUME Inv, stack # << >>, Top.f = "read", Top.at = "take",
         NEW fr \in CallFrames, fr.t = Top.t, fr.d = Top.d, fr.f = "read", fr.at # "slept",
         NEW a \in BOOLEAN, "eof" \notin seen => (a => fr.flag) /\ ~fr.old,
         stack' = Become(fr), AlarmSet(Top.t, a),
         seen' = seen \cup Mark(EMPTY(tty[Top.d].sec), "erased"),
         UNCHANGED <<tx, cr_flag, input>>
  PROVE  TakesOne(fr)
<1>0. TypeOK /\ Placed /\ seen \subseteq Marks
  BY DEF Inv, TypeOK
<1>1. PICK t \in Task : /\ t = Top.t /\ task[t] \in Tasks /\ task[t].st = "kernel"
                        /\ task[t].call = NoCall /\ stack = <<Top>>
  BY <1>0, AtWork
<1>2. stack' = <<fr>>
  BY <1>1 DEF Become
<1>3. PICK r \in Tasks : r = task[t]
  BY <1>1
<1>4. PICK v : v = [r EXCEPT !.alarm = a]
  OBVIOUS
<1>5. v \in Tasks /\ v.st = "kernel" /\ v.call = NoCall /\ v.alarm = a
  BY <1>1, <1>3, <1>4 DEF Tasks
<1>6. task' = [task EXCEPT ![t] = v]
  BY <1>0, <1>1, <1>3, <1>4 DEF TypeOK, AlarmSet
<1>7. Moved(t, fr) /\ task'[t] = v
  <2>1. fr.t = t /\ v.st = "kernel" /\ v.call = NoCall /\ fr \in CallFrames /\ stack' = <<fr>>
    BY <1>1, <1>2, <1>5
  <2> QED BY <1>0, <1>5, <1>6, <2>1, MovedTo
<1>8. /\ seen \subseteq seen' /\ seen' \subseteq Marks /\ ("stray" \in seen' => "stray" \in seen)
      /\ EMPTY(tty[Top.d].sec) => "erased" \in seen'
  BY <1>0 DEF Mark, Marks
<1>9. Armed(t, fr)
  BY <1>5, <1>7, <1>8 DEF Armed
<1> QED BY <1>1, <1>2, <1>7, <1>8, <1>9 DEF TakesOne

\* A read that has taken its character returns, leaving the alarm a.
LEMMA TakesLast ==
  ASSUME Inv, stack # << >>, Top.f = "read", Top.at = "take",
         NEW a \in BOOLEAN, NEW b \in BOOLEAN, "eof" \notin seen /\ a => b, Return(Top.t, a),
         seen' = seen \cup Mark(b, "eof") \cup Mark(EMPTY(tty[Top.d].sec), "erased"),
         UNCHANGED <<tx, cr_flag, input>>
  PROVE  TakesOne(NoCall)
<1>0. TypeOK /\ Placed /\ seen \subseteq Marks
  BY DEF Inv, TypeOK
<1>1. Moved(Top.t, NoCall) /\ task'[Top.t].alarm = a /\ stack' = << >>
  BY <1>0, ReturnMoves
<1>2. /\ seen \subseteq seen' /\ seen' \subseteq Marks /\ ("stray" \in seen' => "stray" \in seen)
      /\ EMPTY(tty[Top.d].sec) => "erased" \in seen'
      /\ b => "eof" \in seen'
  BY <1>0 DEF Mark, Marks
<1>3. Armed(Top.t, NoCall)
  BY <1>1, <1>2, NoCallIs DEF Armed
<1> QED BY <1>1, <1>2, <1>3, NoCallIs DEF TakesOne

\* One turn of the inner loop of tty_read.
LEMMA ReadTakeStep ==
  ASSUME Inv, ReadTake
  PROVE  Inv'
<1>0. /\ TypeOK /\ Placed /\ AlarmsOwned
      /\ stack # << >> /\ Top.f = "read" /\ Top.at = "take"
      /\ UNCHANGED <<tx, cr_flag, input>>
  BY DEF Inv, ReadTake
<1>1. /\ Top \in CallFrames /\ Top.t \in Task /\ Top.d \in Devices
      /\ tty[Top.d] \in Terminals /\ task[Top.t] \in Tasks
  BY <1>0, AtWork
<1>2. PICK s \in Rings : s = tty[Top.d].sec
  BY <1>1 DEF Terminals
<1>3. PICK j \in Nat : j = IF First(s) \in Delim THEN 1 ELSE 0
  OBVIOUS
<1>4. PICK q : q = [GETCH(s) EXCEPT !.data = @ - j]
  OBVIOUS
<1>5. tty' = [tty EXCEPT ![Top.d].sec = q]
  BY <1>2, <1>3, <1>4 DEF ReadTake
<1>6. Lowered(GETCH(s), j, q)
  BY <1>4 DEF Lowered
<1>7. /\ q \in Rings /\ q.proc = s.proc
      /\ ~EMPTY(s) /\ s.data = Cardinality(LineEnds(s)) => q.data = Cardinality(LineEnds(q))
  BY <1>3, <1>6, TakenRing
<1>8. PICK fr : fr = [Top EXCEPT !.nr = @ - 1, !.got = @ + 1]
  OBVIOUS
<1>9. /\ fr \in ReadFrames /\ fr.t = Top.t /\ fr.d = Top.d /\ fr.at = "take"
      /\ fr.flag = Top.flag /\ fr.old = Top.old /\ fr.f = "read"
      /\ Top.flag \in BOOLEAN /\ Top.old \in BOOLEAN /\ fr.time \in BOOLEAN
  <2>1. Top \in ReadFrames
    BY <1>0, <1>1 DEF CallFrames, WriteFrames
  <2>2. PICK r \in ReadFrames : r = Top
    BY <2>1
  <2>3. fr = [r EXCEPT !.nr = r.nr - 1, !.got = r.got + 1] /\ r.at = "take"
    BY <1>0, <1>8, <2>2
  <2>4. r.nr - 1 \in Int /\ r.got + 1 \in Int
    BY DEF ReadFrames
  <2>5. /\ fr \in ReadFrames /\ fr.t = r.t /\ fr.d = r.d /\ fr.at = r.at
        /\ fr.flag = r.flag /\ fr.old = r.old /\ fr.f = "read"
    BY <2>3, <2>4 DEF ReadFrames
  <2>6. r.flag \in BOOLEAN /\ r.old \in BOOLEAN /\ fr.time \in BOOLEAN
    BY <2>5 DEF ReadFrames
  <2> QED BY <2>2, <2>3, <2>5, <2>6
<1>10. \/ /\ Return(Top.t, task[Top.t].alarm)
          /\ seen' = seen \cup Mark(Top.flag, "eof") \cup Mark(EMPTY(s), "erased")
       \/ /\ stack' = Become(fr) /\ UNCHANGED task
          /\ seen' = seen \cup Mark(EMPTY(s), "erased")
       \/ /\ Return(Top.t, fr.old)
          /\ seen' = seen \cup Mark(EMPTY(s), "erased")
       \/ /\ stack' = Become([fr EXCEPT !.at = "loop", !.flag = IF fr.time THEN ~fr.old ELSE @])
          /\ task' = [task EXCEPT ![Top.t].alarm = @ \/ fr.time]
          /\ seen' = seen \cup Mark(EMPTY(s), "erased")
  BY <1>2, <1>8 DEF ReadTake
<1>11. task[Top.t].alarm \in BOOLEAN
  BY <1>1 DEF Tasks
<1>12. "eof" \notin seen => (task[Top.t].alarm => Top.flag) /\ ~Top.old
  BY <1>0, WorkAlarm
<1>13. ASSUME Return(Top.t, task[Top.t].alarm),
              seen' = seen \cup Mark(Top.flag, "eof") \cup Mark(EMPTY(s), "erased")
       PROVE  TakesOne(NoCall)
  BY <1>0, <1>2, <1>9, <1>11, <1>12, <1>13, TakesLast
<1>14. ASSUME stack' = Become(fr), UNCHANGED task, seen' = seen \cup Mark(EMPTY(s), "erased")
       PROVE  TakesOne(fr)
  <2>1. PICK a \in BOOLEAN : a = task[Top.t].alarm
    BY <1>11
  <2>2. AlarmSet(Top.t, a)
    BY <1>0, <1>1, <1>14, <2>1 DEF TypeOK, Tasks, AlarmSet
  <2>3. fr \in CallFrames /\ fr.at # "slept"
    BY <1>9 DEF CallFrames
  <2> QED BY <1>0, <1>2, <1>9, <1>12, <1>14, <2>1, <2>2, <2>3, TakesOn
<1>15. ASSUME Return(Top.t, fr.old), seen' = seen \cup Mark(EMPTY(s), "erased")
       PROVE  TakesOne(NoCall)
  <2>1. seen' = seen \cup Mark(FALSE, "eof") \cup Mark(EMPTY(tty[Top.d].sec), "erased")
    BY <1>2, <1>15 DEF Mark
  <2>2. PICK a \in BOOLEAN : a = fr.old
    BY <1>9
  <2> QED BY <1>0, <1>9, <1>12, <1>15, <2>1, <2>2, TakesLast
<1>16. ASSUME stack' = Become([fr EXCEPT !.at = "loop", !.flag = IF fr.time THEN ~fr.old ELSE @]),
              task' = [task EXCEPT ![Top.t].alarm = @ \/ fr.time],
              seen' = seen \cup Mark(EMPTY(s), "erased")
       PROVE  \E fq : TakesOne(fq)
  <2>1. PICK fq : fq = [fr EXCEPT !.at = "loop", !.flag = IF fr.time THEN ~fr.old ELSE @]
    OBVIOUS
  <2>2. /\ fq \in ReadFrames /\ fq.t = Top.t /\ fq.d = Top.d /\ fq.at = "loop" /\ fq.f = "read"
        /\ fq.flag = (IF fr.time THEN ~fr.old ELSE fr.flag) /\ fq.old = Top.old
    BY <1>9, <2>1 DEF ReadFrames
  <2>3. PICK a \in BOOLEAN : a = (task[Top.t].alarm \/ fr.time)
    BY <1>9, <1>11
  <2>4. AlarmSet(Top.t, a)
    BY <1>16, <2>3 DEF AlarmSet
  <2>5. fq \in CallFrames /\ fq.at # "slept"
    BY <2>2 DEF CallFrames
  <2>6. "eof" \notin seen => (a => fq.flag) /\ ~fq.old
    BY <1>9, <1>12, <2>2, <2>3
  <2>7. stack' = Become(fq)
    BY <1>16, <2>1
  <2> QED BY <1>0, <1>2, <1>16, <2>2, <2>4, <2>5, <2>6, <2>7, TakesOn
<1>17. \E fq : TakesOne(fq)
  BY <1>10, <1>13, <1>14, <1>15, <1>16
<1>18. PICK fq : TakesOne(fq)
  BY <1>17
<1> QED BY <1>2, <1>5, <1>7, <1>18, TakeMove

\* A write that is filling a queue goes on as fr, perhaps with con_write upon it.
FillsAs(fr, x) ==
  /\ stack # << >> /\ Top.f = "write" /\ Top.at \in {"fill", "fetched"}
  /\ fr \in WriteFrames /\ fr.t = Top.t /\ fr.d = Top.d /\ fr.at \in {"fill", "written"}
  /\ x \in Seq(Frames) /\ Len(x) <= 1 /\ (x # << >> => x[1].f = "con_write")
  /\ stack' = Become(fr) \o x
  /\ tty' \in [Devices -> Terminals] /\ cr_flag' \in BOOLEAN /\ tx' \in BOOLEAN /\ (tx => tx')
  /\ \A e \in Devices : tty'[e].sec = tty[e].sec /\ tty'[e].write.proc = tty[e].write.proc
  /\ seen \subseteq seen' /\ seen' \subseteq Marks /\ ("stray" \in seen' => "stray" \in seen)
  /\ UNCHANGED <<task, input>>

\* What is on the stack then.
LEMMA FillStack ==
  ASSUME TypeOK, Placed, NEW fr, NEW x, FillsAs(fr, x)
  PROVE  /\ fr \in CallFrames /\ fr \in Frames /\ fr.f = "write" /\ fr.at # "slept"
         /\ stack' \in Seq(Frames) /\ stack' # << >> /\ stack'[1] = fr
         /\ \A i \in DOMAIN stack' : i # 1 => i = 2 /\ x # << >> /\ stack'[i] = x[1]
         /\ x # << >> => 2 \in DOMAIN stack'
<1>0. /\ stack # << >> /\ Top.f = "write" /\ fr \in WriteFrames /\ fr.at \in {"fill", "written"}
      /\ x \in Seq(Frames) /\ Len(x) <= 1 /\ stack' = Become(fr) \o x
  BY DEF FillsAs
<1>1. fr \in CallFrames /\ fr \in Frames /\ fr.f = "write" /\ fr.at # "slept"
  BY <1>0 DEF CallFrames, Frames, WriteFrames
<1>2. stack \in Seq(Frames) /\ Len(stack) = 1
  BY <1>0, Alone DEF TypeOK
<1>3. PICK u : u = stack'
  OBVIOUS
<1>4. u = [stack EXCEPT ![Len(stack)] = fr] \o x
  BY <1>0, <1>3 DEF Become
<1>5. /\ u \in Seq(Frames) /\ u # << >> /\ Len(u) = Len(stack) + Len(x)
      /\ u[Len(stack)] = fr
      /\ \A i \in 1 .. Len(u) : i > Len(stack) => i = Len(stack) + 1 /\ x # << >> /\ u[i] = x[1]
  <2> HIDE <1>4
  <2>1. PICK w : w = [stack EXCEPT ![Len(stack)] = fr] \o x
    OBVIOUS
  <2>2. /\ w \in Seq(Frames) /\ w # << >> /\ Len(w) = Len(stack) + Len(x)
        /\ w[Len(stack)] = fr
        /\ \A i \in 1 .. Len(w) : i > Len(stack) => i = Len(stack) + 1 /\ x # << >> /\ w[i] = x[1]
    <3>1. PICK g \in Frames : g = fr
      BY <1>1
    <3>2. PICK y \in Seq(Frames) : y = x /\ Len(y) <= 1
      BY <1>0
    <3>3. PICK k \in Seq(Frames) : k = stack /\ k # << >>
      BY <1>0, <1>2
    <3>4. /\ w \in Seq(Frames) /\ w # << >> /\ Len(w) = Len(k) + Len(y)
          /\ w[Len(k)] = g
          /\ \A i \in 1 .. Len(w) : i > Len(k) => i = Len(k) + 1 /\ y # << >> /\ w[i] = y[1]
      <4>1. w = [k EXCEPT ![Len(k)] = g] \o y
        BY <2>1, <3>1, <3>2, <3>3
      <4> QED BY <3>2, <3>3, <4>1, Pushed
    <3> QED BY <3>1, <3>2, <3>3, <3>4
  <2> QED BY <1>4, <2>1, <2>2
<1>6. DOMAIN u = 1 .. Len(u)
  BY <1>5
<1>7. \A i \in DOMAIN u : i # 1 => i = 2 /\ x # << >> /\ u[i] = x[1]
  BY <1>2, <1>5, <1>6
<1>8. Len(x) \in Nat /\ (x # << >> => Len(x) = 1)
  <2>1. x \in Seq(Frames) /\ Len(x) <= 1
    BY <1>0
  <2>2. Len(x) \in Nat /\ (Len(x) = 0 => x = << >>)
    BY <2>1, EmptySeq
  <2> QED BY <2>1, <2>2
<1>9. x # << >> => 2 \in DOMAIN u
  BY <1>2, <1>5, <1>6, <1>8
<1> QED BY <1>1, <1>2, <1>3, <1>5, <1>7, <1>9

\* The invariant, but for the write queues.
LEMMA FillMove ==
  ASSUME Inv, NEW fr, NEW x, FillsAs(fr, x), SerialSends',
         (Unspoilt => ConOK) => (Unspoilt' => ConOK')
  PROVE  Inv'
<1>0. /\ TypeOK /\ Placed /\ Threaded /\ AlarmsOwned /\ WriterWoken /\ stack # << >> /\ Top.f = "write"
      /\ Top.at \in {"fill", "fetched"} /\ fr.at \in {"fill", "written"}
      /\ fr.t = Top.t /\ fr.d = Top.d /\ (x # << >> => x[1].f = "con_write")
      /\ tty' \in [Devices -> Terminals] /\ cr_flag' \in BOOLEAN /\ tx' \in BOOLEAN /\ (tx => tx')
      /\ \A e \in Devices : tty'[e].sec = tty[e].sec /\ tty'[e].write.proc = tty[e].write.proc
      /\ seen \subseteq seen' /\ seen' \subseteq Marks /\ ("stray" \in seen' => "stray" \in seen)
      /\ task' = task /\ input' = input /\ task \in [Task -> Tasks]
  BY DEF FillsAs, Inv, TypeOK
<1>1. /\ fr \in CallFrames /\ fr \in Frames /\ fr.f = "write" /\ fr.at # "slept"
      /\ stack' \in Seq(Frames) /\ stack' # << >> /\ stack'[1] = fr
      /\ \A i \in DOMAIN stack' : i # 1 => i = 2 /\ x # << >> /\ stack'[i] = x[1]
  BY <1>0, FillStack
<1>2. PICK t \in Task : t = Top.t /\ Frame(t) = Top /\ task[t].st = "kernel" /\ task[t].call = NoCall
  BY <1>0, AtWork
<1>3. Moved(t, fr)
  <2>1. \A i \in DOMAIN stack' : i # 1 => stack'[i].f = "con_write"
    BY <1>0, <1>1
  <2> QED BY <1>0, <1>1, <1>2, <2>1 DEF Moved
<1>4. /\ Idle(t) /\ \A i, e : ~Cooker(i, e) /\ ~Shower(i)
      /\ \A e : ~Running("cooked", e)
  BY <1>0, <1>2, IdleNow
<1>5. Armed(t, fr)
  <2>1. "eof" \notin seen => ~task[t].alarm
    BY <1>0, <1>2, WorkAlarm
  <2> QED BY <1>0, <1>1, <2>1 DEF Armed
<1>6. Stays(t, fr) /\ \A f, e : t \notin Waiting(f, e)
  BY <1>0, <1>1, <1>2, AwakeStays
<1>7. Threaded' /\ \A f \in {"read", "write"}, e \in Devices : Waiting(f, e)' = Waiting(f, e)
  <2>1. \A f \in {"read", "write"}, e \in Devices : Proc(f, e)' = Proc(f, e)
    BY <1>0 DEF Proc
  <2> QED BY <1>0, <1>3, <1>4, <1>6, <2>1, MovedThreaded
<1>8. ASSUME NEW e \in Devices PROVE ReaderGoes(t, e)
  <2>1. t \notin Waiting("read", e) /\ t \notin Waiting("read", e)'
    BY <1>6, <1>7
  <2>2. ~Taking(e)'
    BY <1>1 DEF Taking
  <2>3. tty'[e].sec = tty[e].sec
    BY <1>0
  <2> QED BY <2>1, <2>2, <2>3 DEF ReaderGoes, Idling
<1>9. "con" \in Devices /\ "rs" \in Devices
  BY DEF Devices
<1>10. WriterGoes(t) /\ (Unspoilt' => t \notin Waiting("write", "con")' /\ ~LooksAgain')
  <2>1. ~LooksAgain'
    BY <1>0, <1>1 DEF LooksAgain
  <2> QED BY <1>0, <1>6, <1>7, <1>9, <2>1 DEF WriterGoes
<1>11. (Clean => AllEdit) => (Clean' => AllEdit')
  <2>1. \A i, e : ~Cooker(i, e)'
    BY <1>0, <1>3, <1>4, MovedCall
  <2>2. ASSUME NEW e \in Devices, tty[e].sec.data = Cardinality(LineEnds(tty[e].sec)), Clean'
        PROVE  tty'[e].sec.data = Cardinality(LineEnds(tty'[e].sec))
    BY <1>0, <2>2
  <2> QED BY <1>0, <1>4, <2>1, <2>2, MovedEdit
<1>12. TypeOK'
  BY <1>0, <1>1 DEF TypeOK
<1> QED BY <1>0, <1>3, <1>4, <1>5, <1>7, <1>8, <1>10, <1>11, <1>12, MovedStep

\* If it is no write to the serial line, that is still sending.
LEMMA FillSends ==
  ASSUME Inv, NEW fr, NEW x, FillsAs(fr, x), Top.d # "rs", "rs" \in Devices,
         tty'["rs"].write = tty["rs"].write
  PROVE  SerialSends'
<1>0. /\ TypeOK /\ Placed /\ SerialSends /\ stack # << >> /\ Top.f = "write"
      /\ (x # << >> => x[1].f = "con_write") /\ fr.t = Top.t
      /\ (tx => tx') /\ seen \subseteq seen' /\ task' = task /\ task \in [Task -> Tasks]
  BY DEF Inv, TypeOK, FillsAs
<1>1. /\ fr \in CallFrames /\ stack' \in Seq(Frames) /\ stack' # << >> /\ stack'[1] = fr
      /\ \A i \in DOMAIN stack' : i # 1 => i = 2 /\ x # << >> /\ stack'[i] = x[1]
  BY <1>0, FillStack
<1>2. PICK t \in Task : /\ t = Top.t /\ Frame(t) = Top /\ task[t].st = "kernel"
                        /\ task[t].call = NoCall /\ Top = stack[1]
  BY <1>0, AtWork
<1>3. Moved(t, fr)
  <2>1. \A i \in DOMAIN stack' : i # 1 => stack'[i].f = "con_write"
    BY <1>0, <1>1
  <2> QED BY <1>0, <1>1, <1>2, <2>1 DEF Moved
<1>4. Idle(t)
  BY <1>0, <1>2, IdleNow
<1>5. ~Filling("rs")
  BY <1>2 DEF Filling
<1> QED BY <1>0, <1>2, <1>3, <1>4, <1>5, MovedSends

\* A turn that puts a character: the queue is still being filled.
LEMMA FillPut ==
  ASSUME Inv, stack # << >>, Top.f = "write", Top.at \in {"fill", "fetched"}, NEW c \in Char,
         NEW fr \in WriteFrames, fr.t = Top.t, fr.d = Top.d, fr.at = "fill", stack' = Become(fr),
         tty' = [tty EXCEPT ![Top.d].write = PUTCH(c, tty[Top.d].write)], cr_flag' \in BOOLEAN,
         seen' = seen \cup Mark(FULL(tty[Top.d].write), "over"), UNCHANGED <<task, tx, input>>
  PROVE  Inv'
<1>0. /\ TypeOK /\ Placed /\ SerialSends /\ tty \in [Devices -> Terminals] /\ tx \in BOOLEAN
      /\ seen \subseteq seen' /\ seen' \subseteq Marks /\ ("stray" \in seen' => "stray" \in seen)
      /\ "con" \in Devices /\ "rs" \in Devices
  BY DEF Inv, TypeOK, Devices, Mark, Marks
<1>1. PICK d \in Devices : d = Top.d /\ stack = <<Top>> /\ tty[d] \in Terminals /\ Top = stack[1]
  BY <1>0, AtWork
<1>2. tty[d].write \in Rings
  BY <1>1 DEF Terminals
<1>3. PICK p \in Rings : p = PUTCH(c, tty[d].write) /\ p.proc = tty[d].write.proc
  BY <1>2, PutRing
<1>4. PICK u : u = tty'
  OBVIOUS
<1>5. u = [tty EXCEPT ![d].write = p]
  BY <1>1, <1>3, <1>4
<1>6. /\ u \in [Devices -> Terminals] /\ u[d].write = p
      /\ \A e \in Devices : e # d => u[e] = tty[e]
      /\ \A e \in Devices : u[e].read = tty[e].read /\ u[e].sec = tty[e].sec
  BY <1>0, <1>5, SetWrite
<1>7. \A e \in Devices : u[e].sec = tty[e].sec /\ u[e].write.proc = tty[e].write.proc
  BY <1>3, <1>6
<1>8. << >> \in Seq(Frames) /\ Len(<< >>) <= 1 /\ Become(fr) \o << >> = Become(fr) /\ Become(fr) = <<fr>>
  <2>1. Become(fr) = <<fr>>
    BY <1>1 DEF Become
  <2> QED BY <2>1
<1>9. FillsAs(fr, << >>)
  BY <1>0, <1>4, <1>6, <1>7, <1>8 DEF FillsAs
<1>10. fr.f = "write" /\ stack' = <<fr>> /\ stack' # << >> /\ stack'[1] = fr /\ DOMAIN stack' = 1 .. 1
  BY <1>8 DEF WriteFrames
<1>11. Filling(d)'
  BY <1>1, <1>10 DEF Filling
<1>12. \A e : e # d => ~Filling(e)
  BY <1>1 DEF Filling
<1>13. SerialSends'
  <2>1. CASE d = "rs"
    BY <1>11, <2>1 DEF SerialSends
  <2>2. CASE d # "rs"
    BY <1>0, <1>1, <1>4, <1>6, <1>9, <2>2, FillSends
  <2> QED BY <2>1, <2>2
<1>14. \A i : ~Shower(i) /\ ~Shower(i)'
  <2>1. \A i : ~Shower(i)
    BY <1>0, <1>1, IdleNow, AtWork
  <2>2. \A i : ~Shower(i)'
    BY <1>10 DEF Shower
  <2> QED BY <2>1, <2>2
<1>15. (Unspoilt => ConOK) => (Unspoilt' => ConOK')
  <2>1. CASE d = "con"
    BY <1>11, <1>14, <2>1, ConAt
  <2>2. CASE d # "con"
    BY <1>0, <1>4, <1>6, <1>12, <1>14, <2>2, MovedShow
  <2> QED BY <2>1, <2>2
<1> QED BY <1>9, <1>13, <1>15, FillMove

\* The queue is full, or all is put: the terminal's write is called.
LEMMA FillWritten ==
  ASSUME Inv, stack # << >>, Top.f = "write", Top.at \in {"fill", "fetched"},
         NEW fr \in WriteFrames, fr.t = Top.t, fr.d = Top.d, fr.at = "written",
         stack' = Become(fr) \o Entered(Top.d, tty[Top.d].write),
         tx' = Enabled(Top.d, tty[Top.d].write), seen' = seen \cup Overlap(Top.d),
         UNCHANGED <<task, tty, input, cr_flag>>
  PROVE  Inv'
<1>0. /\ TypeOK /\ Placed /\ SerialSends /\ tty \in [Devices -> Terminals] /\ tx \in BOOLEAN
      /\ seen \subseteq Marks /\ "con" \in Devices /\ "rs" \in Devices /\ cr_flag \in BOOLEAN
  BY DEF Inv, TypeOK, Devices
<1>1. PICK d \in Devices : d = Top.d /\ stack = <<Top>> /\ tty[d] \in Terminals /\ Top = stack[1]
  BY <1>0, AtWork
<1>2. PICK p \in Rings : p = tty[d].write
  BY <1>1 DEF Terminals
<1>3. PICK x : x = Entered(d, p)
  OBVIOUS
<1>4. stack' = Become(fr) \o x /\ tx' = Enabled(d, p) /\ seen' = seen \cup Overlap(d)
  BY <1>1, <1>2, <1>3
<1>5. /\ x \in Seq(Frames) /\ Len(x) <= 1 /\ (x # << >> <=> d = "con")
      /\ x # << >> => x[1].f = "con_write" /\ x[1].nr = CHARS(p)
  <2>1. CASE d = "con"
    <3>1. PICK w : w = [f |-> "con_write", d |-> "con", nr |-> CHARS(p)]
      OBVIOUS
    <3>2. CHARS(p) \in Nat
      <4>1. CHARS(p) \in 0 .. N - 1
        BY RingCount
      <4> QED BY <4>1
    <3>3. w \in Frames /\ w.f = "con_write" /\ w.nr = CHARS(p)
      BY <3>1, <3>2 DEF Frames, Showers
    <3>4. x = <<w>>
      BY <1>3, <2>1, <3>1 DEF Entered
    <3> QED BY <2>1, <3>3, <3>4
  <2>2. CASE d # "con"
    <3>1. x = << >>
      BY <1>3, <2>2 DEF Entered
    <3> QED BY <2>2, <3>1
  <2> QED BY <2>1, <2>2
<1>6. /\ seen \subseteq seen' /\ seen' \subseteq Marks /\ ("stray" \in seen' => "stray" \in seen)
      /\ tx' \in BOOLEAN /\ (tx => tx') /\ (d = "rs" => tx' = (tx \/ ~EMPTY(p)))
  <2>1. Overlap(d) \subseteq {"overlap"}
    BY DEF Overlap, Mark
  <2>2. tx' \in BOOLEAN /\ (tx => tx') /\ (d = "rs" => tx' = (tx \/ ~EMPTY(p)))
    BY <1>0, <1>4 DEF Enabled
  <2> QED BY <1>0, <1>4, <2>1, <2>2 DEF Marks
<1>7. FillsAs(fr, x)
  BY <1>0, <1>4, <1>5, <1>6 DEF FillsAs
<1>8. /\ fr.f = "write" /\ stack' # << >> /\ stack'[1] = fr
      /\ \A i \in DOMAIN stack' : i # 1 => i = 2 /\ x # << >> /\ stack'[i] = x[1]
      /\ x # << >> => 2 \in DOMAIN stack'
  BY <1>0, <1>7, FillStack
<1>9. \A e : e # d => ~Filling(e)
  BY <1>1 DEF Filling
<1>10. SerialSends'
  <2>1. CASE d = "rs"
    BY <1>2, <1>6, <2>1 DEF SerialSends
  <2>2. CASE d # "rs"
    BY <1>0, <1>1, <1>7, <2>2, FillSends
  <2> QED BY <2>1, <2>2
<1>11. \A i : Shower(i)' => i = 2 /\ x # << >>
  BY <1>8 DEF Shower
<1>12. \A i : ~Shower(i)
  BY <1>0, <1>1, IdleNow, AtWork
<1>13. (Unspoilt => ConOK) => (Unspoilt' => ConOK')
  <2>1. CASE d = "con"
    <3>1. x # << >> /\ 2 \in DOMAIN stack' /\ stack'[2] = x[1]
      BY <1>5, <1>8, <2>1
    <3>2. PICK k : k = 2
      OBVIOUS
    <3>3. Shower(k)' /\ stack'[k].nr = CHARS(tty'["con"].write)
      BY <1>2, <1>5, <2>1, <3>1, <3>2 DEF Shower
    <3>4. \A i : Shower(i)' => i = k
      BY <1>11, <3>2
    <3> QED BY <3>3, <3>4, ConAt
  <2>2. CASE d # "con"
    <3>1. \A i : ~Shower(i)'
      BY <1>5, <1>11, <2>2
    <3> QED BY <1>0, <1>6, <1>9, <1>12, <2>2, <3>1, MovedShow
  <2> QED BY <2>1, <2>2
<1> QED BY <1>7, <1>10, <1>13, FillMove

\* One turn of the inner loop of tty_write, or its end.
LEMMA WriteFillStep ==
  ASSUME Inv, WriteFill
  PROVE  Inv'
<1>0. /\ TypeOK /\ Placed /\ stack # << >> /\ Top.f = "write" /\ Top.at \in {"fill", "fetched"}
      /\ UNCHANGED <<task, input>>
  BY DEF Inv, WriteFill
<1>1. Top \in WriteFrames /\ Top.d \in Devices
  BY <1>0, AtWork, CallKind, Kinds
<1>2. CASE /\ tty' = [tty EXCEPT ![Top.d].write = PUTCH("CR", @)] /\ cr_flag' = TRUE
           /\ seen' = seen \cup Mark(FULL(tty[Top.d].write), "over")
           /\ stack' = Become([Top EXCEPT !.at = "fill"]) /\ UNCHANGED tx
  <2>1. PICK fr : fr = [Top EXCEPT !.at = "fill"]
    OBVIOUS
  <2>2. fr \in WriteFrames /\ fr.t = Top.t /\ fr.d = Top.d /\ fr.at = "fill"
    BY <1>0, <1>1, <2>1 DEF WriteFrames
  <2>3. tty' = [tty EXCEPT ![Top.d].write = PUTCH("CR", tty[Top.d].write)] /\ cr_flag' \in BOOLEAN
        /\ stack' = Become(fr) /\ UNCHANGED <<task, tx, input>>
    BY <1>0, <1>2, <2>1
  <2>4. "CR" \in Char
    BY CharAssumption DEF Control
  <2> QED BY <1>0, <1>2, <2>2, <2>3, <2>4, FillPut
<1>3. CASE /\ Top.left # << >> /\ tty' = [tty EXCEPT ![Top.d].write = PUTCH(Head(Top.left), @)]
           /\ seen' = seen \cup Mark(FULL(tty[Top.d].write), "over")
           /\ cr_flag' = FALSE /\ stack' = Become([Top EXCEPT !.at = "fill", !.left = Tail(@)])
           /\ UNCHANGED tx
  <2>1. PICK c : c = Head(Top.left)
    OBVIOUS
  <2>2. Top.left \in Seq(Char)
    BY <1>1 DEF WriteFrames
  <2>3. c \in Char /\ Tail(Top.left) \in Seq(Char)
    BY <1>3, <2>1, <2>2
  <2>4. PICK fr : fr = [Top EXCEPT !.at = "fill", !.left = Tail(@)]
    OBVIOUS
  <2>5. fr \in WriteFrames /\ fr.t = Top.t /\ fr.d = Top.d /\ fr.at = "fill"
    BY <1>0, <1>1, <2>3, <2>4 DEF WriteFrames
  <2>6. tty' = [tty EXCEPT ![Top.d].write = PUTCH(c, tty[Top.d].write)] /\ cr_flag' \in BOOLEAN
        /\ stack' = Become(fr) /\ UNCHANGED <<task, tx, input>>
    BY <1>0, <1>3, <2>1, <2>4
  <2> QED BY <1>0, <1>3, <2>3, <2>5, <2>6, FillPut
<1>4. CASE /\ stack' = Become([Top EXCEPT !.at = "written"]) \o Entered(Top.d, tty[Top.d].write)
           /\ tx' = Enabled(Top.d, tty[Top.d].write) /\ seen' = seen \cup Overlap(Top.d)
           /\ UNCHANGED <<tty, cr_flag>>
  <2>1. PICK fr : fr = [Top EXCEPT !.at = "written"]
    OBVIOUS
  <2>2. fr \in WriteFrames /\ fr.t = Top.t /\ fr.d = Top.d /\ fr.at = "written"
    BY <1>1, <2>1 DEF WriteFrames
  <2>3. /\ stack' = Become(fr) \o Entered(Top.d, tty[Top.d].write)
        /\ tx' = Enabled(Top.d, tty[Top.d].write) /\ seen' = seen \cup Overlap(Top.d)
        /\ UNCHANGED <<task, tty, input, cr_flag>>
    BY <1>0, <1>4, <2>1
  <2> QED BY <1>0, <2>2, <2>3, FillWritten
<1> QED BY <1>2, <1>3, <1>4 DEF WriteFill

\* get_fs_byte faults: whoever runs meanwhile finds the queue as it was, and the
\* line has somebody who will start it.
LEMMA WriteFaultStep ==
  ASSUME Inv, WriteFault
  PROVE  Inv'
<1>0. /\ TypeOK /\ Placed /\ AlarmsOwned /\ Threaded /\ SerialSends /\ WriterWoken
      /\ stack # << >> /\ Top.f = "write" /\ Top.at = "fill" /\ ~FULL(tty[Top.d].write)
      /\ task \in [Task -> Tasks] /\ seen \subseteq Marks
      /\ tty' = tty /\ tx' = tx /\ cr_flag' = cr_flag /\ stack' = << >>
      /\ seen' = seen \cup {"faulted"} /\ "con" \in Devices /\ "rs" \in Devices
  BY DEF Inv, TypeOK, WriteFault, Devices
<1>1. PICK t \in Task, r \in Tasks : /\ t = Top.t /\ Frame(t) = Top /\ r = task[t] /\ r.st = "kernel"
                                    /\ r.call = NoCall /\ Top \in CallFrames /\ Top = stack[1]
  BY <1>0, AtWork
<1>2. PICK fr : fr = [Top EXCEPT !.at = "fetched"]
  OBVIOUS
<1>3. Top \in WriteFrames
  BY <1>0, <1>1, CallKind, Kinds
<1>4. fr \in CallFrames /\ fr.t = t /\ fr.d = Top.d /\ fr.at = "fetched" /\ fr.f = "write"
  BY <1>1, <1>2, <1>3 DEF WriteFrames, CallFrames
<1>5. PICK v : v = [r EXCEPT !.st = "ready", !.call = fr]
  OBVIOUS
<1>6. v \in Tasks /\ v.st = "ready" /\ v.call = fr /\ v.alarm = r.alarm
  BY <1>4, <1>5 DEF Tasks
<1>7. task' = [task EXCEPT ![t] = v]
  <2>1. task' = [task EXCEPT ![t].st = "ready", ![t].call = fr]
    BY <1>1, <1>2 DEF WriteFault
  <2> QED BY <1>0, <1>1, <1>5, <2>1
<1>8. Moved(t, fr) /\ task'[t] = v
  BY <1>0, <1>4, <1>6, <1>7, MovedTo
<1>9. /\ Idle(t) /\ \A i, e : ~Cooker(i, e) /\ ~Shower(i)
      /\ \A e : ~Running("cooked", e)
  BY <1>0, <1>1, IdleNow
<1>10. Armed(t, fr)
  <2>1. "eof" \notin seen => ~r.alarm
    BY <1>0, <1>1, WorkAlarm
  <2> QED BY <1>0, <1>4, <1>6, <1>8, <2>1 DEF Armed
<1>11. Stays(t, fr) /\ \A f, e : t \notin Waiting(f, e)
  BY <1>0, <1>1, <1>4, AwakeStays
<1>12. Threaded' /\ \A f \in {"read", "write"}, e \in Devices : Waiting(f, e)' = Waiting(f, e)
  <2>1. \A f \in {"read", "write"}, e \in Devices : Proc(f, e)' = Proc(f, e)
    BY <1>0 DEF Proc
  <2> QED BY <1>0, <1>8, <1>9, <1>11, <2>1, MovedThreaded
<1>13. ASSUME NEW e \in Devices PROVE ReaderGoes(t, e)
  <2>1. ~Taking(e)' /\ t \notin Waiting("read", e)'
    BY <1>0, <1>11, <1>12 DEF Taking
  <2> QED BY <1>0, <1>11, <2>1 DEF ReaderGoes, Idling, EMPTY
<1>14. WriterGoes(t)
  BY <1>0 DEF WriterGoes
<1>15. Unspoilt' => t \notin Waiting("write", "con")' /\ ~LooksAgain'
  BY <1>0, <1>11, <1>12 DEF LooksAgain
<1>16. SerialSends'
  <2>1. CASE Top.d = "rs"
    <3>1. Frame(t)' = fr
      BY <1>0, <1>8, <1>9, MovedCall
    <3>2. Fetching("rs")'
      BY <1>4, <2>1, <3>1 DEF Fetching
    <3> QED BY <1>0, <3>2 DEF SerialSends
  <2>2. CASE Top.d # "rs"
    <3>1. ~Filling("rs")
      BY <1>1, <2>2 DEF Filling
    <3> QED BY <1>0, <1>1, <1>8, <1>9, <3>1, MovedSends DEF EMPTY
  <2> QED BY <2>1, <2>2
<1>17. (Unspoilt => ConOK) => (Unspoilt' => ConOK')
  <2>1. \A i : ~Shower(i)'
    BY <1>0 DEF Shower
  <2>2. CASE Top.d = "con"
    <3>1. ~FULL(tty'["con"].write)
      BY <1>0, <2>2
    <3> QED BY <2>1, <3>1, ConAt
  <2>3. CASE Top.d # "con"
    <3>1. ~Filling("con") /\ seen \subseteq seen'
      BY <1>0, <1>1, <2>3 DEF Filling
    <3> QED BY <1>0, <1>9, <2>1, <3>1, MovedShow
  <2> QED BY <2>2, <2>3
<1>18. (Clean => AllEdit) => (Clean' => AllEdit')
  <2>1. \A i, e : ~Cooker(i, e)'
    BY <1>0 DEF Cooker
  <2> QED BY <1>0, <1>9, <2>1, MovedEdit
<1>19. TypeOK'
  <2>1. input' \in [keys : Nat, recv : Nat, faults : Nat]
    BY <1>0 DEF TypeOK, WriteFault
  <2> QED BY <1>0, <1>8, <2>1 DEF TypeOK, Moved, Marks
<1>20. seen \subseteq seen' /\ ("stray" \in seen' => "stray" \in seen)
  BY <1>0
<1> QED BY <1>8, <1>9, <1>10, <1>12, <1>13, <1>14, <1>15, <1>16, <1>17, <1>18, <1>19, <1>20, MovedStep

-----------------------------------------------------------------------------
(* The theorems.                                                           *)

\* The terminals at boot.
LEMMA InitInv == Init => Inv
<1> SUFFICES ASSUME Init PROVE Inv
  OBVIOUS
<1>1. PICK s \in Scenarios :
        /\ tty = [d \in Devices |->
                   [termios |-> s[d], pgrp |-> IF d = "con" THEN s.pgrp ELSE {},
                    stopped |-> FALSE, read |-> Ring, write |-> Ring, sec |-> Ring]]
        /\ task = [t \in Task |-> [st |-> "user", sig |-> {}, alarm |-> FALSE,
                                   call |-> NoCall, todo |-> s.prog[t]]]
        /\ stack = << >> /\ tx = FALSE /\ cr_flag = FALSE
        /\ input = [keys |-> s.keys, recv |-> s.recv, faults |-> s.faults] /\ seen = {}
  BY DEF Init
<1>2. /\ s.con \in Termios /\ s.rs \in Termios /\ s.pgrp \subseteq Task
      /\ s.prog \in [Task -> Seq(Calls)] /\ s.keys \in Nat /\ s.recv \in Nat /\ s.faults \in Nat
  BY ScenarioAssumption
<1>3. Ring \in Rings /\ EMPTY(Ring) /\ Ring.data = 0
  <2>1. "nul" \in Char
    BY CharAssumption
  <2>2. 0 \in 0 .. TTY_BUF_SIZE - 1
    BY TtyAssumption
  <2> QED BY <2>1, <2>2 DEF Ring, Rings, EMPTY
<1>4. Cardinality(LineEnds(Ring)) = 0
  <2>1. PICK q \in Rings : q = Ring
    BY <1>3
  <2>2. CHARS(q) = 0
    BY <1>3, <2>1, RingCount
  <2>3. ASSUME NEW i \in LineEnds(q) PROVE FALSE
    <3>1. i \in 0 .. N - 1 /\ Mod(i - q.tail) < 0 /\ q.tail \in 0 .. N - 1 /\ N \in Nat
      BY <2>2, TtyAssumption DEF LineEnds, Rings, N
    <3>2. i - q.tail \in Int
      BY <3>1
    <3>3. PICK m \in Int : m = i - q.tail
      BY <3>2
    <3>4. Mod(m) \in 0 .. N - 1
      BY ModTurn
    <3> QED BY <3>1, <3>3, <3>4
  <2>4. LineEnds(q) = {}
    BY <2>3
  <2> QED BY <2>1, <2>4, FS_EmptySet
<1>5. ASSUME NEW d \in Devices
      PROVE  tty[d] \in Terminals /\ tty[d].sec = Ring /\ tty[d].write = Ring
  <2>1. tty[d] = [termios |-> s[d], pgrp |-> IF d = "con" THEN s.pgrp ELSE {},
                  stopped |-> FALSE, read |-> Ring, write |-> Ring, sec |-> Ring]
    BY <1>1
  <2>2. s[d] \in Termios
    BY <1>2 DEF Devices
  <2>3. (IF d = "con" THEN s.pgrp ELSE {}) \in SUBSET Task
    BY <1>2
  <2> QED BY <1>3, <2>1, <2>2, <2>3 DEF Terminals
<1>6. ASSUME NEW t \in Task
      PROVE  /\ task[t] \in Tasks /\ task[t].st = "user" /\ task[t].call = NoCall
             /\ task[t].alarm = FALSE
  <2>1. task[t] = [st |-> "user", sig |-> {}, alarm |-> FALSE, call |-> NoCall, todo |-> s.prog[t]]
    BY <1>1
  <2>2. s.prog[t] \in Seq(Calls)
    BY <1>2
  <2> QED BY <2>1, <2>2 DEF Tasks
<1>7. TypeOK
  <2>1. tty \in [Devices -> Terminals]
    <3>1. tty = [d \in Devices |-> tty[d]]
      BY <1>1
    <3> QED BY <1>5, <3>1
  <2>2. task \in [Task -> Tasks]
    <3>1. task = [t \in Task |-> task[t]]
      BY <1>1
    <3> QED BY <1>6, <3>1
  <2>3. stack \in Seq(Frames) /\ seen \subseteq Marks /\ tx \in BOOLEAN /\ cr_flag \in BOOLEAN
    <3>1. stack = << >> /\ seen = {} /\ tx = FALSE /\ cr_flag = FALSE
      BY <1>1
    <3>2. << >> \in Seq(Frames)
      OBVIOUS
    <3> QED BY <3>1, <3>2
  <2>4. input \in [keys : Nat, recv : Nat, faults : Nat]
    BY <1>1, <1>2
  <2> QED BY <2>1, <2>2, <2>3, <2>4 DEF TypeOK
<1>8. Placed
  BY <1>1, <1>6 DEF Placed
<1>9. AlarmsOwned
  BY <1>1, <1>6, NoCallIs DEF AlarmsOwned
<1>10. "con" \in Devices /\ "rs" \in Devices
  BY DEF Devices
<1>11. SerialSends
  BY <1>3, <1>5, <1>10 DEF SerialSends
<1>12. \A f, d : Waiting(f, d) = {}
  <2>1. \A t \in Task : Frame(t) = NoCall
    BY <1>6 DEF Frame
  <2> QED BY <2>1, NoCallIs DEF Waiting
<1>13. Threaded
  BY <1>12 DEF Threaded
<1>14. ReaderWoken /\ WriterWoken
  BY <1>1, <1>12 DEF ReaderWoken, WriterWoken, Sleepers, LooksAgain
<1>15. ConsoleDrained /\ OutputOnce
  <2>1. ~FULL(Ring)
    BY <1>3, RingCount, TtyAssumption DEF N
  <2>2. ConOK
    BY <1>1, <1>5, <1>10, <2>1 DEF ConOK, Shower
  <2> QED BY <1>7, <2>2, ConsoleForm
<1>16. EditorAlone /\ LinesCounted
  <2>1. \A i, d : ~Cooker(i, d)
    BY <1>1 DEF Cooker
  <2>2. \A d : ~DelimPut(d)
    BY <2>1 DEF DelimPut
  <2>3. ASSUME NEW d \in Devices PROVE EditOK(d)
    BY <1>3, <1>4, <1>5, <2>1, <2>2 DEF EditOK
  <2>4. AllEdit
    BY <2>3 DEF AllEdit
  <2> QED BY <1>7, <2>4, EditorForm
<1> QED BY <1>7, <1>8, <1>9, <1>11, <1>13, <1>14, <1>15, <1>16 DEF Inv

\* Every step of the terminals.
LEMMA InvNext == Inv /\ [Next]_vars => Inv'
<1> SUFFICES ASSUME Inv, [Next]_vars PROVE Inv'
  OBVIOUS
<1>1. ASSUME NEW t \in Task, Call(t) \/ tty_ioctl(t) \/ Switch(t) \/ Alarm(t) PROVE Inv'
  BY <1>1, CallStep, IoctlStep, SwitchStep, AlarmStep
<1>2. CASE SleepEnd
  BY <1>2, SleepEndStep
<1>3. CASE ReadLoop
  BY <1>3, ReadLoopStep
<1>4. CASE ReadTake
  BY <1>4, ReadTakeStep
<1>5. CASE WriteLoop
  BY <1>5, WriteLoopStep
<1>6. CASE WriteFault \/ WriteFill
  BY <1>6, WriteFaultStep, WriteFillStep
<1>7. CASE WriteOn
  BY <1>7, WriteOnStep
<1>8. CASE copy_to_cooked
  BY <1>8, CopyToCookedStep
<1>9. CASE con_write
  BY <1>9, ConWriteStep
<1>10. CASE (\E c \in Keys : keyboard_interrupt(c)) \/ (\E c \in Received : read_char(c))
  BY <1>10, ReceiveStep
<1>11. CASE write_char
  BY <1>11, WriteCharStep
<1>12. CASE UNCHANGED vars
  BY <1>12, Stutter
<1> QED BY <1>1, <1>2, <1>3, <1>4, <1>5, <1>6, <1>7, <1>8, <1>9, <1>10, <1>11, <1>12 DEF Next

\* Whoever sleeps will be woken: what the wait queues' pointers say of it, read
\* off the activations of the tasks.
LEMMA InvWoken == Inv => SleeperWoken
<1> SUFFICES ASSUME Inv PROVE SleeperWoken
  OBVIOUS
<1>0. TypeOK /\ Placed /\ ReaderWoken /\ WriterWoken /\ SerialSends
  BY DEF Inv
<1>1. ASSUME NEW f, NEW d, Awake(f, d)
      PROVE  \/ \E u \in Task : /\ task[u].call.f = f /\ task[u].call.at = "slept" /\ task[u].call.d = d
                                /\ (task[u].st = "ready" \/ task[u].sig # {})
             \/ stack # << >> /\ stack[1].f = f /\ stack[1].at = "slept" /\ stack[1].d = d
  <2>1. PICK u \in Task : /\ Frame(u).f = f /\ Frame(u).d = d /\ Frame(u).at = "slept"
                          /\ (task[u].st # "asleep" \/ task[u].sig # {})
    BY <1>1 DEF Awake, Waiting
  <2>2. task[u].st \in {"user", "kernel", "ready", "asleep"}
    BY <1>0 DEF TypeOK, Tasks
  <2>3. CASE task[u].st = "kernel"
    BY <1>0, <2>1, <2>3 DEF Placed, Frame
  <2>4. CASE task[u].st = "user"
    <3>1. Frame(u) = NoCall
      BY <1>0, <2>4 DEF Placed, Frame
    <3> QED BY <2>1, <3>1, NoCallIs
  <2>5. CASE task[u].st \in {"ready", "asleep"}
    <3>1. Frame(u) = task[u].call
      BY <2>5 DEF Frame
    <3> QED BY <2>1, <2>5, <3>1
  <2> QED BY <2>2, <2>3, <2>4, <2>5
<1>2. SUFFICES ASSUME NEW t \in Task, task[t].st = "asleep", task[t].sig = {}
               PROVE  LET fr == task[t].call
                          Tows(c) == c.f = fr.f /\ c.at = "slept" /\ c.d = fr.d
                          awake == \/ \E u \in Task : Tows(task[u].call)
                                                      /\ (task[u].st = "ready" \/ task[u].sig # {})
                                   \/ stack # << >> /\ Tows(stack[1])
                      IN CASE fr.f = "read" -> EMPTY(tty[fr.d].sec) \/ Running("cooked", fr.d) \/ awake
                           [] fr.f = "write" /\ fr.d = "rs" ->
                                \/ tx \/ awake
                                \/ /\ "faulted" \in seen
                                   /\ EMPTY(tty["rs"].write) \/ Filling("rs") \/ Fetching("rs")
                           [] OTHER -> seen \cap {"overlap", "over"} # {}
  BY DEF SleeperWoken
<1>3. PICK fr : fr = task[t].call
  OBVIOUS
<1>4. fr \in CallFrames /\ fr.at = "slept" /\ Frame(t) = fr
  BY <1>0, <1>2, <1>3 DEF Placed, Frame
<1>5. fr.f \in {"read", "write"} /\ fr.d \in Devices
  BY <1>4, CallKind
<1>6. t \in Sleepers(fr.f, fr.d) /\ t \in Waiting(fr.f, fr.d)
  BY <1>2, <1>4 DEF Sleepers, Waiting
<1>7. fr.f = "read" => EMPTY(tty[fr.d].sec) \/ Running("cooked", fr.d) \/ Awake(fr.f, fr.d)
  BY <1>0, <1>5, <1>6 DEF ReaderWoken
<1>8. fr.f = "write" /\ fr.d = "rs" =>
        \/ tx \/ Awake(fr.f, fr.d)
        \/ /\ "faulted" \in seen
           /\ EMPTY(tty["rs"].write) \/ Filling("rs") \/ Fetching("rs")
  BY <1>0, <1>6 DEF WriterWoken, SerialSends
<1>9. fr.f = "write" /\ fr.d # "rs" => seen \cap {"overlap", "over"} # {}
  BY <1>0, <1>5, <1>6 DEF WriterWoken, Devices
<1> QED BY <1>1, <1>3, <1>5, <1>7, <1>8, <1>9

\* The inductive invariant holds in every reachable state of the terminals,
\* whatever the tasks call and whatever is typed or received.
THEOREM TerminalInvariant == Spec => []Inv
BY InitInv, InvNext, PTL DEF Spec

\* Type correctness of the terminals: the rings' pointers stay within the rings,
\* and the stack holds activations of tty_io.c, console.c and nothing else.
THEOREM TerminalTypes == Spec => []TypeOK
<1>1. Inv => TypeOK
  BY DEF Inv
<1> QED BY <1>1, TerminalInvariant, PTL

\* secondary.data, which tty_read relies on and copy_to_cooked counts up before
\* it has put the character, counts the line ends of the secondary queue, as long
\* as copy_to_cooked has not interrupted itself and no read took an erased character.
THEOREM LinesAreCounted == Spec => []LinesCounted
<1>1. Inv => LinesCounted
  BY DEF Inv
<1> QED BY <1>1, TerminalInvariant, PTL

\* con_write shows what is in the write queue once, with the count it took when it
\* was entered, as long as no con_write is entered from inside another and no echo
\* goes into a full queue.
THEOREM OutputIsShownOnce == Spec => []OutputOnce
<1>1. Inv => OutputOnce
  BY DEF Inv
<1> QED BY <1>1, TerminalInvariant, PTL

\* No wake-up is lost: whoever sleeps in tty_read or tty_write has an interrupt, an
\* editor or a task already woken that will wake him; a writer to the serial line, once
\* a fault has parted a test for room from its PUTCH, perhaps only the next to write.
THEOREM SleepersAreWoken == Spec => []SleeperWoken
BY InvWoken, TerminalInvariant, PTL

\* The timeout that tty_read sets does not outlive the read, unless the read ended on
\* an EOF character, where tty_read returns without restoring the alarm.
THEOREM NoAlarmIsStray == Spec => []NoStrayAlarm
<1>1. Inv => NoStrayAlarm
  BY DEF Inv, AlarmsOwned, NoStrayAlarm
<1> QED BY <1>1, TerminalInvariant, PTL

=============================================================================
