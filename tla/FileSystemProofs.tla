-------------------------- MODULE FileSystemProofs --------------------------
(***************************************************************************)
(* i_count is right and no change of an inode is lost when its slot is     *)
(* taken, for any number of processes, slots, inodes and blocks.  Inv of   *)
(* FileSystem is the inductive invariant.  What a process holds at each    *)
(* place is at most two references and its open file: Holds says so of its *)
(* locals, Balanced of the table, and a step is shown right by naming the  *)
(* two references before and after it.  Go, which ends a step and may put  *)
(* one or two inodes on the way, is dealt with once.                       *)
(***************************************************************************)
EXTENDS FileSystem, SetLemmas, SequenceTheorems

-----------------------------------------------------------------------------
(* Counting references.                                                    *)

One(b) == IF b THEN 1 ELSE 0

\* One process more or less.
LEMMA OneChanged ==
  ASSUME NEW A \in SUBSET Proc, NEW B \in SUBSET Proc, NEW p \in Proc,
         \A q \in Proc \ {p} : q \in A <=> q \in B
  PROVE  /\ Cardinality(A) \in Nat /\ Cardinality(B) \in Nat
         /\ Cardinality(B) = Cardinality(A) - One(p \in A) + One(p \in B)
         /\ Cardinality(A) >= One(p \in A)
<1> DEFINE C == A \ {p}
<1>0. IsFiniteSet(A) /\ IsFiniteSet(B) /\ IsFiniteSet(C)
  BY FileSystemAssumption, FS_Subset
<1>1. Cardinality(A) \in Nat /\ Cardinality(B) \in Nat /\ Cardinality(C) \in Nat
  BY <1>0, FS_CardinalityType
<1>2. Cardinality(A) = Cardinality(C) + One(p \in A)
  <2>1. CASE p \in A
    <3>1. A = C \cup {p} /\ p \notin C
      BY <2>1
    <3>2. Cardinality(C \cup {p}) = Cardinality(C) + 1
      BY <1>0, <3>1, FS_AddElement
    <3> QED BY <2>1, <3>1, <3>2 DEF One
  <2>2. CASE p \notin A
    BY <2>2, <1>1 DEF One
  <2> QED BY <2>1, <2>2
<1>3. Cardinality(B) = Cardinality(C) + One(p \in B)
  <2>1. CASE p \in B
    <3>1. B = C \cup {p} /\ p \notin C
      BY <2>1
    <3>2. Cardinality(C \cup {p}) = Cardinality(C) + 1
      BY <1>0, <3>1, FS_AddElement
    <3> QED BY <2>1, <3>1, <3>2 DEF One
  <2>2. CASE p \notin B
    <3>1. B = C
      BY <2>2
    <3> QED BY <2>2, <3>1, <1>1 DEF One
  <2> QED BY <2>1, <2>2
<1>4. One(p \in A) \in Nat /\ One(p \in B) \in Nat
  BY DEF One
<1> QED BY <1>1, <1>2, <1>3, <1>4

\* The processes that have a reference to s: in a field, in an open file, or
\* as the first or the second inode to put.
Held(prs, f, s) == {q \in Proc : prs[q][f] = s}
Files(fds, s)   == {q \in Proc : fds[q] = s}
Puts(prs, k, s) == {q \in Proc : k <= Len(prs[q].puts) /\ prs[q].puts[k] = s}
PutPlaces(prs, s) == UNION {{q} \X {k \in DOMAIN prs[q].puts : prs[q].puts[k] = s} : q \in Proc}

\* Puts are short sequences.
PutsOK(r) == r.puts \in Seq(Slot) /\ Len(r.puts) <= 2

LEMMA PutFacts ==
  ASSUME NEW r, PutsOK(r)
  PROVE  /\ Len(r.puts) \in 0 .. 2 /\ DOMAIN r.puts = 1 .. Len(r.puts)
         /\ \A k \in 1 .. Len(r.puts) : r.puts[k] \in Slot
         /\ r.puts = <<>> <=> Len(r.puts) = 0
<1>1. r.puts \in Seq(Slot) /\ Len(r.puts) <= 2
  BY DEF PutsOK
<1>2. PICK s \in Seq(Slot) : s = r.puts
  BY <1>1
<1>3. Len(s) \in Nat /\ DOMAIN s = 1 .. Len(s) /\ (s = <<>> <=> Len(s) = 0) /\ \A k \in 1 .. Len(s) : s[k] \in Slot
  OBVIOUS
<1>4. Len(s) <= 2
  BY <1>1, <1>2, Zenon
<1>5. Len(s) \in 0 .. 2
  BY <1>3, <1>4
<1> QED BY <1>2, <1>3, <1>5, Zenon

LEMMA PutsCounted ==
  ASSUME NEW prs, \A q \in Proc : PutsOK(prs[q]), NEW s
  PROVE  Cardinality(PutPlaces(prs, s)) = Cardinality(Puts(prs, 1, s)) + Cardinality(Puts(prs, 2, s))
<1> DEFINE X(k) == Puts(prs, k, s) \X {k}
<1>1. \A q \in Proc : Len(prs[q].puts) \in 0 .. 2 /\ DOMAIN prs[q].puts = 1 .. Len(prs[q].puts)
  BY PutFacts
<1>2. PutPlaces(prs, s) = X(1) \cup X(2)
  <2>1. ASSUME NEW z \in PutPlaces(prs, s) PROVE z \in X(1) \cup X(2)
    <3>1. PICK q \in Proc : z \in {q} \X {k \in DOMAIN prs[q].puts : prs[q].puts[k] = s}
      BY DEF PutPlaces
    <3>2. PICK k \in DOMAIN prs[q].puts : z = <<q, k>> /\ prs[q].puts[k] = s
      BY <3>1
    <3>3. k \in 1 .. 2 /\ k <= Len(prs[q].puts)
      BY <1>1, <3>2
    <3>4. q \in Puts(prs, k, s)
      BY <3>2, <3>3 DEF Puts
    <3>5. k = 1 \/ k = 2
      BY <3>3
    <3> QED BY <3>2, <3>4, <3>5
  <2>2. ASSUME NEW k \in {1, 2}, NEW z \in X(k) PROVE z \in PutPlaces(prs, s)
    <3>1. PICK q \in Puts(prs, k, s) : z = <<q, k>>
      OBVIOUS
    <3>2. q \in Proc /\ k <= Len(prs[q].puts) /\ prs[q].puts[k] = s
      BY DEF Puts
    <3>3. k \in DOMAIN prs[q].puts
      BY <3>2, <1>1
    <3> QED BY <3>1, <3>2, <3>3 DEF PutPlaces
  <2> QED BY <2>1, <2>2
<1>3. ASSUME NEW k \in {1, 2}
      PROVE  IsFiniteSet(X(k)) /\ Cardinality(X(k)) = Cardinality(Puts(prs, k, s))
  <2>1. IsFiniteSet(Puts(prs, k, s))
    BY FileSystemAssumption, FS_Subset DEF Puts
  <2>2. PICK f \in [Puts(prs, k, s) -> X(k)] : f = [q \in Puts(prs, k, s) |-> <<q, k>>]
    OBVIOUS
  <2>3. \A x, y \in Puts(prs, k, s) : f[x] = f[y] => x = y
    BY <2>2
  <2>4. \A z \in X(k) : \E x \in Puts(prs, k, s) : f[x] = z
    BY <2>2
  <2> HIDE DEF X
  <2> QED BY <2>1, <2>3, <2>4, SameSize
<1>4. X(1) \cap X(2) = {}
  OBVIOUS
<1> HIDE DEF X
<1>5. /\ IsFiniteSet(X(1)) /\ Cardinality(X(1)) = Cardinality(Puts(prs, 1, s))
      /\ IsFiniteSet(X(2)) /\ Cardinality(X(2)) = Cardinality(Puts(prs, 2, s))
  BY <1>3
<1>6. Cardinality(X(1) \cup X(2)) = Cardinality(X(1)) + Cardinality(X(2))
  BY <1>4, <1>5, DisjointUnion
<1> QED BY <1>2, <1>5, <1>6

\* The references of one process to s.
PutsOf(r, s) == One(1 <= Len(r.puts) /\ r.puts[1] = s) + One(2 <= Len(r.puts) /\ r.puts[2] = s)
Fields4(r, s) == One(r.dir = s) + One(r.ino = s) + One(r.old = s) + One(r.e = s)
Own(r, g, s) == Fields4(r, s) + One(g = s) + PutsOf(r, s)

\* i_count of s should be this.
Total(tab, prs, fds, s) ==
  Cardinality(Held(prs, "dir", s)) + Cardinality(Held(prs, "ino", s))
  + Cardinality(Held(prs, "old", s)) + Cardinality(Held(prs, "e", s)) + Cardinality(Files(fds, s))
  + (Cardinality(Puts(prs, 1, s)) + Cardinality(Puts(prs, 2, s))) + One(tab[s].num = ROOT_INO)

LEMMA OwnNat ==
  ASSUME NEW r, NEW g, NEW s
  PROVE  Own(r, g, s) \in Nat /\ Fields4(r, s) \in Nat /\ PutsOf(r, s) \in Nat
BY DEF Own, Fields4, PutsOf, One

LEMMA RefsTotal ==
  ASSUME NEW s \in Slot, \A q \in Proc : PutsOK(pr[q])
  PROVE  Refs(s) <=> itab[s].count = Total(itab, pr, fd, s)
<1>1. Cardinality(PutPlaces(pr, s)) = Cardinality(Puts(pr, 1, s)) + Cardinality(Puts(pr, 2, s))
  BY PutsCounted
<1>2. Refs(s) <=> itab[s].count =
        Cardinality(Held(pr, "dir", s)) + Cardinality(Held(pr, "ino", s))
        + Cardinality(Held(pr, "old", s)) + Cardinality(Held(pr, "e", s)) + Cardinality(Files(fd, s))
        + Cardinality(PutPlaces(pr, s)) + One(itab[s].num = ROOT_INO)
  BY Zenon DEF Refs, Held, Files, PutPlaces, One
<1> QED BY <1>1, <1>2 DEF Total

\* Another process in the place of p.
OthersSame(p, prs, fds, prs2, fds2) == \A q \in Proc \ {p} : prs2[q] = prs[q] /\ fds2[q] = fds[q]

LEMMA TotalChanged ==
  ASSUME NEW tab, NEW tab2, NEW prs, NEW prs2, NEW fds, NEW fds2, NEW p \in Proc, NEW s \in Slot,
         OthersSame(p, prs, fds, prs2, fds2),
         tab2[s].num = ROOT_INO <=> tab[s].num = ROOT_INO
  PROVE  /\ Total(tab, prs, fds, s) \in Nat
         /\ Total(tab2, prs2, fds2, s) =
              Total(tab, prs, fds, s) - Own(prs[p], fds[p], s) + Own(prs2[p], fds2[p], s)
         /\ Total(tab, prs, fds, s) >= Own(prs[p], fds[p], s) + One(tab[s].num = ROOT_INO)
<1>1. ASSUME NEW f \in {"dir", "ino", "old", "e"}
      PROVE  /\ Cardinality(Held(prs, f, s)) \in Nat
             /\ Cardinality(Held(prs2, f, s)) =
                  Cardinality(Held(prs, f, s)) - One(prs[p][f] = s) + One(prs2[p][f] = s)
             /\ Cardinality(Held(prs, f, s)) >= One(prs[p][f] = s)
  <2> DEFINE A == Held(prs, f, s)
             B == Held(prs2, f, s)
  <2>1. A \in SUBSET Proc /\ B \in SUBSET Proc /\ (p \in A <=> prs[p][f] = s) /\ (p \in B <=> prs2[p][f] = s)
    BY DEF Held
  <2>2. \A q \in Proc \ {p} : q \in A <=> q \in B
    BY DEF Held, OthersSame
  <2>3. One(p \in A) = One(prs[p][f] = s) /\ One(p \in B) = One(prs2[p][f] = s)
    BY <2>1, Zenon DEF One
  <2> HIDE DEF A, B
  <2>4. /\ Cardinality(A) \in Nat
        /\ Cardinality(B) = Cardinality(A) - One(p \in A) + One(p \in B)
        /\ Cardinality(A) >= One(p \in A)
    BY <2>1, <2>2, OneChanged
  <2> QED BY <2>3, <2>4 DEF A, B
<1>2. /\ Cardinality(Files(fds, s)) \in Nat
      /\ Cardinality(Files(fds2, s)) = Cardinality(Files(fds, s)) - One(fds[p] = s) + One(fds2[p] = s)
      /\ Cardinality(Files(fds, s)) >= One(fds[p] = s)
  <2> DEFINE A == Files(fds, s)
             B == Files(fds2, s)
  <2>1. A \in SUBSET Proc /\ B \in SUBSET Proc /\ (p \in A <=> fds[p] = s) /\ (p \in B <=> fds2[p] = s)
    BY DEF Files
  <2>2. \A q \in Proc \ {p} : q \in A <=> q \in B
    BY DEF Files, OthersSame
  <2>3. One(p \in A) = One(fds[p] = s) /\ One(p \in B) = One(fds2[p] = s)
    BY <2>1, Zenon DEF One
  <2> HIDE DEF A, B
  <2>4. /\ Cardinality(A) \in Nat
        /\ Cardinality(B) = Cardinality(A) - One(p \in A) + One(p \in B)
        /\ Cardinality(A) >= One(p \in A)
    BY <2>1, <2>2, OneChanged
  <2> QED BY <2>3, <2>4 DEF A, B
<1>3. ASSUME NEW k \in {1, 2}
      PROVE  /\ Cardinality(Puts(prs, k, s)) \in Nat
             /\ Cardinality(Puts(prs2, k, s)) =
                  Cardinality(Puts(prs, k, s)) - One(k <= Len(prs[p].puts) /\ prs[p].puts[k] = s)
                    + One(k <= Len(prs2[p].puts) /\ prs2[p].puts[k] = s)
             /\ Cardinality(Puts(prs, k, s)) >= One(k <= Len(prs[p].puts) /\ prs[p].puts[k] = s)
  <2> DEFINE A == Puts(prs, k, s)
             B == Puts(prs2, k, s)
             a == k <= Len(prs[p].puts) /\ prs[p].puts[k] = s
             b == k <= Len(prs2[p].puts) /\ prs2[p].puts[k] = s
  <2>1. A \in SUBSET Proc /\ B \in SUBSET Proc /\ (p \in A <=> a) /\ (p \in B <=> b)
    BY Zenon DEF Puts
  <2>2. \A q \in Proc \ {p} : q \in A <=> q \in B
    BY Zenon DEF Puts, OthersSame
  <2>3. One(p \in A) = One(a) /\ One(p \in B) = One(b)
    BY <2>1, Zenon DEF One
  <2> HIDE DEF A, B
  <2>4. /\ Cardinality(A) \in Nat
        /\ Cardinality(B) = Cardinality(A) - One(p \in A) + One(p \in B)
        /\ Cardinality(A) >= One(p \in A)
    BY <2>1, <2>2, OneChanged
  <2> QED BY <2>3, <2>4, Zenon DEF A, B
<1>4. One(tab2[s].num = ROOT_INO) = One(tab[s].num = ROOT_INO) /\ One(tab[s].num = ROOT_INO) \in Nat
  BY DEF One
<1> QED
  <2> DEFINE c1 == Cardinality(Held(prs, "dir", s))
             c2 == Cardinality(Held(prs, "ino", s))
             c3 == Cardinality(Held(prs, "old", s))
             c4 == Cardinality(Held(prs, "e", s))
             c5 == Cardinality(Files(fds, s))
             c6 == Cardinality(Puts(prs, 1, s))
             c7 == Cardinality(Puts(prs, 2, s))
             d1 == Cardinality(Held(prs2, "dir", s))
             d2 == Cardinality(Held(prs2, "ino", s))
             d3 == Cardinality(Held(prs2, "old", s))
             d4 == Cardinality(Held(prs2, "e", s))
             d5 == Cardinality(Files(fds2, s))
             d6 == Cardinality(Puts(prs2, 1, s))
             d7 == Cardinality(Puts(prs2, 2, s))
             a1 == One(prs[p].dir = s)
             a2 == One(prs[p].ino = s)
             a3 == One(prs[p].old = s)
             a4 == One(prs[p].e = s)
             a5 == One(fds[p] = s)
             a6 == One(1 <= Len(prs[p].puts) /\ prs[p].puts[1] = s)
             a7 == One(2 <= Len(prs[p].puts) /\ prs[p].puts[2] = s)
             b1 == One(prs2[p].dir = s)
             b2 == One(prs2[p].ino = s)
             b3 == One(prs2[p].old = s)
             b4 == One(prs2[p].e = s)
             b5 == One(fds2[p] = s)
             b6 == One(1 <= Len(prs2[p].puts) /\ prs2[p].puts[1] = s)
             b7 == One(2 <= Len(prs2[p].puts) /\ prs2[p].puts[2] = s)
             o == One(tab[s].num = ROOT_INO)
             o2 == One(tab2[s].num = ROOT_INO)
  <2>1. /\ c1 \in Nat /\ d1 = c1 - a1 + b1 /\ c1 >= a1
        /\ c2 \in Nat /\ d2 = c2 - a2 + b2 /\ c2 >= a2
        /\ c3 \in Nat /\ d3 = c3 - a3 + b3 /\ c3 >= a3
        /\ c4 \in Nat /\ d4 = c4 - a4 + b4 /\ c4 >= a4
    BY <1>1, Zenon
  <2>2. c5 \in Nat /\ d5 = c5 - a5 + b5 /\ c5 >= a5
    BY <1>2, Zenon
  <2>3. /\ c6 \in Nat /\ d6 = c6 - a6 + b6 /\ c6 >= a6
        /\ c7 \in Nat /\ d7 = c7 - a7 + b7 /\ c7 >= a7
    BY <1>3, Zenon
  <2>4. o2 = o /\ o \in Nat
    BY <1>4
  <2>5. \A x \in BOOLEAN : One(x) \in Nat
    BY DEF One
  <2>6. /\ a1 \in Nat /\ a2 \in Nat /\ a3 \in Nat /\ a4 \in Nat /\ a5 \in Nat /\ a6 \in Nat /\ a7 \in Nat
        /\ b1 \in Nat /\ b2 \in Nat /\ b3 \in Nat /\ b4 \in Nat /\ b5 \in Nat /\ b6 \in Nat /\ b7 \in Nat
    BY <2>5
  <2>7. /\ Total(tab, prs, fds, s) = c1 + c2 + c3 + c4 + c5 + (c6 + c7) + o
        /\ Total(tab2, prs2, fds2, s) = d1 + d2 + d3 + d4 + d5 + (d6 + d7) + o2
        /\ Own(prs[p], fds[p], s) = a1 + a2 + a3 + a4 + a5 + (a6 + a7)
        /\ Own(prs2[p], fds2[p], s) = b1 + b2 + b3 + b4 + b5 + (b6 + b7)
    BY Zenon DEF Total, Own, Fields4, PutsOf
  <2> HIDE DEF c1, c2, c3, c4, c5, c6, c7, d1, d2, d3, d4, d5, d6, d7, o, o2,
               a1, a2, a3, a4, a5, a6, a7, b1, b2, b3, b4, b5, b6, b7
  <2> DEFINE T1 == Total(tab, prs, fds, s)
             T2 == Total(tab2, prs2, fds2, s)
             w1 == Own(prs[p], fds[p], s)
             w2 == Own(prs2[p], fds2[p], s)
  <2> HIDE DEF T1, T2, w1, w2
  <2>8. T1 \in Nat /\ T2 = T1 - w1 + w2 /\ T1 >= w1 + o
    BY <2>1, <2>2, <2>3, <2>4, <2>6, <2>7 DEF T1, T2, w1, w2
  <2> QED BY <2>8, Zenon DEF T1, T2, w1, w2, o

-----------------------------------------------------------------------------
(* Records.                                                                *)

LEMMA OnlyParts ==
  ASSUME NEW r, NEW F
  PROVE  Only(r, F) <=> /\ r.dir # NULL <=> "dir" \in F
                        /\ r.ino # NULL <=> "ino" \in F
                        /\ r.old # NULL <=> "old" \in F
                        /\ r.e # NULL <=> "e" \in F
BY Zenon DEF Only

\* The fields Keeps is about.
SameLocals(r, x) ==
  /\ x.dir = r.dir /\ x.ino = r.ino /\ x.old = r.old /\ x.e = r.e
  /\ x.op = r.op /\ x.path = r.path /\ x.goal = r.goal /\ x.inr = r.inr

LEMMA KeepsSame ==
  ASSUME NEW r, NEW x, SameLocals(r, x), NEW pc, Keeps(pc, r)
  PROVE  Keeps(pc, x)
<1>1. \A F : Only(r, F) <=> Only(x, F)
  BY OnlyParts DEF SameLocals
<1>2. Wants(r) <=> Wants(x)
  BY DEF Wants, Walking, SameLocals
<1> QED BY <1>1, <1>2 DEF Keeps, Walking, SameLocals

LEMMA FieldsAre ==
  ProcFields = {"pc", "op", "path", "dir", "ino", "old", "e", "w", "inr", "i", "n", "blk", "goal",
                "puts", "then"}
BY DEF ProcFields, User

\* The record of a process has its fields.
IsRecord(r) == r = [f \in ProcFields |-> r[f]]

LEMMA UserOK ==
  /\ RecordOK(User) /\ User.pc = "user" /\ User.puts = <<>>
  /\ User.dir = NULL /\ User.ino = NULL /\ User.old = NULL /\ User.e = NULL
  /\ User.then = "user" /\ IsRecord(User)
<1>1. /\ User.pc = "user" /\ User.puts = <<>> /\ User.then = "user"
      /\ User.dir = NULL /\ User.ino = NULL /\ User.old = NULL /\ User.e = NULL
  BY DEF User
<1>2. IsRecord(User)
  BY DEF IsRecord, ProcFields, User
<1>3. Only(User, {})
  BY <1>1, OnlyParts
<1>4. Keeps("user", User)
  BY <1>3 DEF Keeps
<1>5. <<>> \in Seq(Slot) /\ Len(<<>>) <= 2
  OBVIOUS
<1>6. User.puts \in Seq(Slot) /\ Len(User.puts) <= 2
  BY <1>1, <1>5
<1>7. {User.dir, User.ino, User.old, User.e} \subseteq SlotOrNULL
  BY <1>1 DEF SlotOrNULL
<1>8. IF User.pc = "write" THEN FALSE ELSE Keeps(User.pc, User)
  BY <1>1, <1>4
<1> QED BY <1>1, <1>2, <1>4, <1>6, <1>7 DEF RecordOK, IsRecord

LEMMA UserCloses == ~Opening(User)
BY DEF Opening, User

LEMMA NotSlot == NULL \notin Slot
BY FileSystemAssumption

LEMMA OwnUser ==
  ASSUME NEW g, NEW s \in Slot
  PROVE  Own(User, g, s) = One(g = s)
<1>1. NULL # s
  BY NotSlot
<1>2. Fields4(User, s) = 0
  BY <1>1, UserOK DEF Fields4, One
<1>3. Len(User.puts) = 0
  BY UserOK
<1>4. PutsOf(User, s) = 0
  BY <1>3 DEF PutsOf, One
<1>5. One(g = s) \in Nat
  BY DEF One
<1> QED BY <1>2, <1>4, <1>5 DEF Own

\* iput each of one or two slots.
LEMMA LeaveOK ==
  ASSUME NEW x \in Seq(Slot), Len(x) \in 1 .. 2
  PROVE  LET r == Leave(x)
         IN /\ RecordOK(r) /\ r.pc = "iput" /\ r.puts = x
            /\ \A g, s : s \in Slot => Own(r, g, s) =
                 One(g = s) + (One(1 <= Len(x) /\ x[1] = s) + One(2 <= Len(x) /\ x[2] = s))
<1>0. PICK n \in 1 .. 2 : n = Len(x)
  OBVIOUS
<1>1. PICK r : r = Leave(x)
  OBVIOUS
<1>2. /\ r.pc = "iput" /\ r.puts = x /\ IsRecord(r) /\ r.then = "user"
      /\ SameLocals(User, r)
  BY <1>1 DEF Leave, IsRecord, ProcFields, User, SameLocals
<1>3. Keeps("user", User)
  BY UserOK, OnlyParts DEF Keeps
<1>4. Keeps("user", r)
  BY <1>2, <1>3, KeepsSame
<1>5. r.dir = NULL /\ r.ino = NULL /\ r.old = NULL /\ r.e = NULL
  BY <1>2, UserOK DEF SameLocals
<1>6. r.puts \in Seq(Slot) /\ Len(r.puts) <= 2 /\ r.puts # <<>>
  <2>1. x \in Seq(Slot) /\ Len(x) <= 2 /\ x # <<>>
    <3>1. n <= 2 /\ n # 0
      BY <1>0
    <3>2. Len(<<>>) = 0
      OBVIOUS
    <3> QED BY <1>0, <3>1, <3>2, Zenon
  <2> QED BY <1>2, <2>1, Zenon
<1>7. {r.dir, r.ino, r.old, r.e} \subseteq SlotOrNULL
  BY <1>5 DEF SlotOrNULL
<1>8. RecordOK(r)
  BY <1>2, <1>4, <1>6, <1>7 DEF RecordOK, IsRecord
<1>9. ASSUME NEW g, NEW s \in Slot
      PROVE  Own(r, g, s) = One(g = s) + (One(1 <= Len(x) /\ x[1] = s) + One(2 <= Len(x) /\ x[2] = s))
  <2>1. NULL # s
    BY NotSlot
  <2>2. Fields4(r, s) = 0
    BY <2>1, <1>5 DEF Fields4, One
  <2>3. PutsOf(r, s) = One(1 <= Len(x) /\ x[1] = s) + One(2 <= Len(x) /\ x[2] = s)
    BY <1>2, Zenon DEF PutsOf
  <2>4. One(g = s) \in Nat /\ PutsOf(r, s) \in Nat
    BY DEF One, PutsOf
  <2>5. Own(r, g, s) = 0 + One(g = s) + PutsOf(r, s)
    BY <2>2, Zenon DEF Own
  <2>6. Own(r, g, s) = One(g = s) + PutsOf(r, s)
    BY <2>4, <2>5
  <2> QED BY <2>3, <2>6, Zenon
<1> QED BY <1>1, <1>2, <1>8, <1>9

-----------------------------------------------------------------------------
(* Go.                                                                     *)

Same(r, k, s) == Cardinality({j \in 1 .. k : r.puts[j] = s})

LEMMA SameCount ==
  ASSUME NEW r, NEW s
  PROVE  /\ Same(r, 0, s) = 0
         /\ Same(r, 1, s) = One(r.puts[1] = s)
         /\ Same(r, 2, s) = One(r.puts[1] = s) + One(r.puts[2] = s)
<1>0. 1 .. 0 = {} /\ 1 .. 1 = {1} /\ 1 .. 2 = {1, 2}
  OBVIOUS
<1>1. Same(r, 0, s) = 0
  <2>1. {j \in 1 .. 0 : r.puts[j] = s} = {}
    BY <1>0
  <2> QED BY <2>1, FS_EmptySet DEF Same
<1>2. Same(r, 1, s) = One(r.puts[1] = s)
  <2>1. CASE r.puts[1] = s
    <3>1. {j \in 1 .. 1 : r.puts[j] = s} = {1}
      BY <1>0, <2>1
    <3> QED BY <3>1, <2>1, FS_Singleton DEF Same, One
  <2>2. CASE r.puts[1] # s
    <3>1. {j \in 1 .. 1 : r.puts[j] = s} = {}
      BY <1>0, <2>2
    <3> QED BY <3>1, <2>2, FS_EmptySet DEF Same, One
  <2> QED BY <2>1, <2>2
<1>3. Same(r, 2, s) = One(r.puts[1] = s) + One(r.puts[2] = s)
  <2> DEFINE S == {j \in 1 .. 2 : r.puts[j] = s}
  <2>1. CASE r.puts[1] = s /\ r.puts[2] = s
    <3>1. S = {1} \cup {2} /\ 2 \notin {1}
      BY <1>0, <2>1
    <3>2. IsFiniteSet({1}) /\ Cardinality({1}) = 1
      BY FS_Singleton
    <3>3. Cardinality({1} \cup {2}) = 1 + 1
      BY <3>1, <3>2, FS_AddElement
    <3>4. Cardinality(S) = 2
      BY <3>1, <3>3
    <3> QED BY <3>4, <2>1 DEF Same, One
  <2>2. CASE r.puts[1] = s /\ r.puts[2] # s
    <3>1. S = {1}
      BY <1>0, <2>2
    <3>2. Cardinality(S) = 1
      BY <3>1, FS_Singleton
    <3> QED BY <3>2, <2>2 DEF Same, One
  <2>3. CASE r.puts[1] # s /\ r.puts[2] = s
    <3>1. S = {2}
      BY <1>0, <2>3
    <3>2. Cardinality(S) = 1
      BY <3>1, FS_Singleton
    <3> QED BY <3>2, <2>3 DEF Same, One
  <2>4. CASE r.puts[1] # s /\ r.puts[2] # s
    <3>1. S = {}
      BY <1>0, <2>4
    <3>2. Cardinality(S) = 0
      BY <3>1, FS_EmptySet
    <3> QED BY <3>2, <2>4 DEF Same, One
  <2> QED BY <2>1, <2>2, <2>3, <2>4
<1> QED BY <1>1, <1>2, <1>3

\* After n puts a process has n references fewer.
LEMMA AfterPut ==
  ASSUME NEW r, RecordOK(r), NEW n \in 1 .. Len(r.puts)
  PROVE  /\ RecordOK(Put(r, n)) /\ Put(r, n).pc # "scan" /\ (Opening(Put(r, n)) => Opening(r))
         /\ \A g, s : s \in Slot => Own(Put(r, n), g, s) = Own(r, g, s) - Same(r, n, s)
<1>1. PutsOK(r) /\ IsRecord(r) /\ {r.dir, r.ino, r.old, r.e} \subseteq SlotOrNULL
  BY DEF RecordOK, PutsOK, IsRecord
<1>2. /\ Len(r.puts) \in 0 .. 2 /\ (r.puts = <<>> <=> Len(r.puts) = 0)
      /\ \A k \in 1 .. Len(r.puts) : r.puts[k] \in Slot
  BY <1>1, PutFacts
<1>3. r.puts # <<>>
  BY <1>2
<1>4. r.then \in {"user", "empty", "opened", "linked", "mkfail"} /\ Keeps(r.then, r)
  BY <1>3 DEF RecordOK
<1>5. PICK x : x = Put(r, n)
  OBVIOUS
<1>6. CASE n < Len(r.puts)
  <2>1. n = 1 /\ Len(r.puts) = 2
    BY <1>2, <1>6
  <2>2. PICK y : y = SubSeq(r.puts, n + 1, Len(r.puts))
    OBVIOUS
  <2>3. y = SubSeq(r.puts, 2, 2)
    BY <2>1, <2>2
  <2>4. y \in Seq(Slot) /\ Len(y) = 1 /\ y[1] = r.puts[2] /\ y # <<>>
    BY <2>1, <2>3, <1>1 DEF PutsOK
  <2>5. x = [r EXCEPT !.puts = y, !.pc = "iput", !.blk = 0]
    BY <1>5, <1>6, <2>2 DEF Put
  <2>6. x.puts = y /\ x.pc = "iput" /\ x.then = r.then /\ IsRecord(x) /\ SameLocals(r, x)
    BY <2>5, <1>1, FieldsAre DEF IsRecord, SameLocals
  <2>7. Keeps(x.then, x)
    BY <2>6, <1>4, KeepsSame
  <2>8. {x.dir, x.ino, x.old, x.e} \subseteq SlotOrNULL
    BY <2>6, <1>1 DEF SameLocals
  <2>9. x.puts \in Seq(Slot) /\ Len(x.puts) <= 2 /\ x.puts # <<>>
    <3>1. y \in Seq(Slot) /\ Len(y) <= 2 /\ y # <<>>
      BY <2>4
    <3> QED BY <2>6, <3>1, Zenon
  <2>10. RecordOK(x)
    BY <2>6, <2>7, <2>8, <2>9, <1>4 DEF RecordOK, IsRecord
  <2>11. ASSUME NEW g, NEW s \in Slot PROVE Own(x, g, s) = Own(r, g, s) - Same(r, n, s)
    <3>1. Fields4(x, s) = Fields4(r, s)
      BY <2>6 DEF Fields4, SameLocals
    <3>2. PutsOf(x, s) = One(r.puts[2] = s)
      <4>1. PutsOf(x, s) = One(1 <= Len(y) /\ y[1] = s) + One(2 <= Len(y) /\ y[2] = s)
        BY <2>6, Zenon DEF PutsOf
      <4> QED BY <4>1, <2>4 DEF One
    <3>3. PutsOf(r, s) = One(r.puts[1] = s) + One(r.puts[2] = s)
      BY <2>1 DEF PutsOf, One
    <3>4. Same(r, n, s) = One(r.puts[1] = s)
      BY <2>1, SameCount
    <3>5. One(r.puts[1] = s) \in Nat /\ One(r.puts[2] = s) \in Nat /\ Fields4(r, s) \in Nat /\ One(g = s) \in Nat
      BY OwnNat DEF One
    <3> QED BY <3>1, <3>2, <3>3, <3>4, <3>5 DEF Own
  <2>12. Opening(x) => Opening(r)
    BY <2>6 DEF Opening, SameLocals
  <2> QED BY <1>5, <2>6, <2>10, <2>11, <2>12
<1>7. CASE n = Len(r.puts)
  <2>1. ASSUME NEW s PROVE PutsOf(r, s) = Same(r, n, s) /\ Same(r, n, s) \in Nat
    <3>1. CASE n = 1
      BY <3>1, <1>7, SameCount DEF PutsOf, One
    <3>2. CASE n = 2
      BY <3>2, <1>7, SameCount DEF PutsOf, One
    <3> QED BY <3>1, <3>2, <1>2
  <2>2. CASE r.then = "user"
    <3>1. x = User
      BY <1>5, <1>7, <2>2 DEF Put
    <3>2. Only(r, {})
      BY <1>4, <2>2 DEF Keeps
    <3>3. r.dir = NULL /\ r.ino = NULL /\ r.old = NULL /\ r.e = NULL
      BY <3>2, OnlyParts
    <3>4. ASSUME NEW g, NEW s \in Slot PROVE Own(x, g, s) = Own(r, g, s) - Same(r, n, s)
      <4>1. Fields4(r, s) = 0
        BY <3>3, NotSlot DEF Fields4, One
      <4>2. Own(x, g, s) = One(g = s) /\ One(g = s) \in Nat
        BY <3>1, OwnUser DEF One
      <4> QED BY <4>1, <4>2, <2>1 DEF Own
    <3> QED BY <1>5, <3>1, <3>4, UserOK, UserCloses
  <2>3. CASE r.then # "user"
    <3>1. x = [r EXCEPT !.puts = <<>>, !.pc = r.then, !.then = "user"]
      BY <1>5, <1>7, <2>3 DEF Put
    <3>2. x.puts = <<>> /\ x.pc = r.then /\ x.then = "user" /\ IsRecord(x) /\ SameLocals(r, x)
      BY <3>1, <1>1, FieldsAre DEF IsRecord, SameLocals
    <3>3. Keeps(x.pc, x) /\ x.pc \in {"empty", "opened", "linked", "mkfail"}
      BY <3>2, <1>4, <2>3, KeepsSame
    <3>4. {x.dir, x.ino, x.old, x.e} \subseteq SlotOrNULL
      BY <3>2, <1>1 DEF SameLocals
    <3>5. <<>> \in Seq(Slot) /\ Len(<<>>) = 0
      OBVIOUS
    <3>6. x.puts \in Seq(Slot) /\ Len(x.puts) = 0
      BY <3>2, <3>5
    <3>7. Len(x.puts) <= 2
      BY <3>6
    <3>8. RecordOK(x)
      BY <3>2, <3>3, <3>4, <3>6, <3>7 DEF RecordOK, IsRecord
    <3>9. ASSUME NEW g, NEW s \in Slot PROVE Own(x, g, s) = Own(r, g, s) - Same(r, n, s)
      <4>1. Fields4(x, s) = Fields4(r, s)
        BY <3>2 DEF Fields4, SameLocals
      <4>2. PutsOf(x, s) = 0
        BY <3>6 DEF PutsOf, One
      <4>3. Fields4(r, s) \in Nat /\ One(g = s) \in Nat
        BY OwnNat DEF One
      <4> QED BY <4>1, <4>2, <4>3, <2>1 DEF Own
    <3>10. Opening(x) => Opening(r)
      BY <3>2, <1>4 DEF Opening, SameLocals
    <3> QED BY <1>5, <3>3, <3>8, <3>9, <3>10
  <2> QED BY <2>2, <2>3
<1> QED BY <1>6, <1>7

Clean(tab) == \A s \in Slot : tab[s].count = 0 => ~tab[s].dirt /\ ~tab[s].lock

\* Process p may go on with table tab, local variables r and open file g.
Counted(p, tab, r, g) ==
  \A s \in Slot : tab[s].count = itab[s].count + Own(r, g, s) - Own(pr[p], fd[p], s)
RootsSame(tab) == \A s \in Slot : tab[s].num = ROOT_INO <=> itab[s].num = ROOT_INO
FreshIn(p, tab, r) ==
  /\ \A s \in Slot : tab[s].num = 0 => tab[s].count <= 1
  /\ r.pc = "scan" => tab[r.e].num = 0
  /\ \A q \in Proc \ {p} : pr[q].pc = "scan" => tab[pr[q].e].num = 0
Ready(p, tab, r, g) ==
  /\ TableOK(tab) /\ RecordOK(r) /\ g \in SlotOrNULL /\ (Opening(r) => g = NULL)
  /\ Counted(p, tab, r, g) /\ RootsSame(tab) /\ FreshIn(p, tab, r)

LEMMA Counts ==
  ASSUME Inv, NEW s \in Slot
  PROVE  /\ itab[s].count = Total(itab, pr, fd, s) /\ itab[s].count \in Nat
         /\ \A p \in Proc : itab[s].count >= Own(pr[p], fd[p], s) + One(itab[s].num = ROOT_INO)
<1>1. \A q \in Proc : PutsOK(pr[q])
  BY DEF Inv, RecordOK, PutsOK
<1>2. Refs(s) /\ itab[s].count \in Nat
  BY DEF Inv, TableOK
<1>3. itab[s].count = Total(itab, pr, fd, s)
  BY <1>1, <1>2, RefsTotal
<1>4. \A p \in Proc : Total(itab, pr, fd, s) >= Own(pr[p], fd[p], s) + One(itab[s].num = ROOT_INO)
  <2>1. \A p \in Proc : OthersSame(p, pr, fd, pr, fd)
    BY DEF OthersSame
  <2> QED BY <2>1, TotalChanged
<1> QED BY <1>2, <1>3, <1>4

LEMMA Settle ==
  ASSUME Inv, NEW p \in Proc, NEW r, NEW g, Ready(p, itab', r, g),
         pr' = [pr EXCEPT ![p] = r], fd' = [fd EXCEPT ![p] = g],
         tainted' \in BOOLEAN, tainted' \/ Clean(itab'), ROOT_INO \in imap', imap' \subseteq Ino
  PROVE  Inv'
<1>0. /\ pr = [q \in Proc |-> pr[q]] /\ fd \in [Proc -> SlotOrNULL]
      /\ \A q \in Proc : RecordOK(pr[q]) /\ (Opening(pr[q]) => fd[q] = NULL)
      /\ \E s \in Slot : itab[s].num = ROOT_INO
  BY DEF Inv
<1>1. /\ TableOK(itab') /\ RecordOK(r) /\ g \in SlotOrNULL /\ (Opening(r) => g = NULL)
      /\ Counted(p, itab', r, g) /\ RootsSame(itab') /\ FreshIn(p, itab', r)
  BY DEF Ready
<1>2. /\ pr' = [q \in Proc |-> pr'[q]] /\ pr'[p] = r /\ \A q \in Proc \ {p} : pr'[q] = pr[q]
      /\ fd' \in [Proc -> SlotOrNULL] /\ fd'[p] = g /\ \A q \in Proc \ {p} : fd'[q] = fd[q]
  BY <1>0, <1>1
<1>3. \A q \in Proc : RecordOK(pr'[q]) /\ (Opening(pr'[q]) => fd'[q] = NULL)
  BY <1>0, <1>1, <1>2
<1>4. ASSUME NEW s \in Slot PROVE Refs(s)'
  <2>1. \A q \in Proc : PutsOK(pr'[q])
    BY <1>3 DEF RecordOK, PutsOK
  <2>2. Cardinality(PutPlaces(pr', s)) = Cardinality(Puts(pr', 1, s)) + Cardinality(Puts(pr', 2, s))
    BY <2>1, PutsCounted
  <2>3. Refs(s)' <=> itab'[s].count =
          Cardinality(Held(pr', "dir", s)) + Cardinality(Held(pr', "ino", s))
          + Cardinality(Held(pr', "old", s)) + Cardinality(Held(pr', "e", s)) + Cardinality(Files(fd', s))
          + Cardinality(PutPlaces(pr', s)) + One(itab'[s].num = ROOT_INO)
    BY Zenon DEF Refs, Held, Files, PutPlaces, One
  <2>4. Refs(s)' <=> itab'[s].count = Total(itab', pr', fd', s)
    BY <2>2, <2>3, Zenon DEF Total
  <2>5. itab'[s].num = ROOT_INO <=> itab[s].num = ROOT_INO
    BY <1>1 DEF RootsSame
  <2>6. Total(itab', pr', fd', s) = Total(itab, pr, fd, s) - Own(pr[p], fd[p], s) + Own(pr'[p], fd'[p], s)
    <3>1. PICK tab, prs, fds : tab = itab' /\ prs = pr' /\ fds = fd'
      OBVIOUS
    <3>2. OthersSame(p, pr, fd, prs, fds)
      BY <1>2, <3>1 DEF OthersSame
    <3>3. tab[s].num = ROOT_INO <=> itab[s].num = ROOT_INO
      BY <2>5, <3>1
    <3>4. Total(tab, prs, fds, s) = Total(itab, pr, fd, s) - Own(pr[p], fd[p], s) + Own(prs[p], fds[p], s)
      BY <3>2, <3>3, TotalChanged
    <3> QED BY <3>1, <3>4, Zenon
  <2>7. itab[s].count = Total(itab, pr, fd, s) /\ itab[s].count \in Nat
    BY Counts
  <2>8. itab'[s].count = itab[s].count + Own(r, g, s) - Own(pr[p], fd[p], s)
    BY <1>1 DEF Counted
  <2>9. Own(r, g, s) \in Nat /\ Own(pr[p], fd[p], s) \in Nat
    BY OwnNat
  <2>10. itab'[s].count = Total(itab', pr', fd', s)
    BY <1>2, <2>6, <2>7, <2>8, <2>9
  <2> QED BY <2>4, <2>10
<1>5. Fresh(itab', pr')
  <2>1. \A s \in Slot : itab'[s].num = 0 => itab'[s].count <= 1
    BY <1>1 DEF FreshIn
  <2>2. ASSUME NEW q \in Proc, pr'[q].pc = "scan" PROVE itab'[pr'[q].e].num = 0
    BY <1>1, <1>2, <2>2 DEF FreshIn
  <2> QED BY <2>1, <2>2 DEF Fresh
<1>6. \E s \in Slot : itab'[s].num = ROOT_INO
  BY <1>0, <1>1 DEF RootsSame
<1>7. FreeClean'
  BY DEF FreeClean, Clean
<1> QED BY <1>1, <1>2, <1>3, <1>4, <1>5, <1>6, <1>7 DEF Inv

LEMMA ScanSlot ==
  ASSUME NEW r, RecordOK(r), r.pc = "scan"
  PROVE  r.e \in Slot
<1>1. r.puts = <<>> /\ Keeps("scan", r)
  BY DEF RecordOK
<1>2. r.e # NULL /\ r.e \in SlotOrNULL
  BY <1>1 DEF Keeps, RecordOK
<1> QED BY <1>2 DEF SlotOrNULL

LEMMA GoReady ==
  ASSUME Inv, NEW p \in Proc, NEW tab, NEW r, NEW g, Ready(p, tab, r, g), Go(p, tab, r)
  PROVE  \E x : /\ Ready(p, itab', x, g) /\ pr' = [pr EXCEPT ![p] = x]
                /\ Clean(tab) => Clean(itab')
<1>1. /\ TableOK(tab) /\ RecordOK(r) /\ g \in SlotOrNULL /\ (Opening(r) => g = NULL)
      /\ Counted(p, tab, r, g) /\ RootsSame(tab) /\ FreshIn(p, tab, r)
  BY DEF Ready
<1>2. PutsOK(r)
  BY <1>1 DEF RecordOK, PutsOK
<1>3. Len(r.puts) \in 0 .. 2 /\ \A k \in 1 .. Len(r.puts) : r.puts[k] \in Slot
  BY <1>2, PutFacts
<1> DEFINE quick(k) == \A j \in 1 .. k : LET s == r.puts[j] IN ~tab[s].lock /\ tab[s].count > Same(r, j, s)
           Q == {k \in 0 .. Len(r.puts) : quick(k) /\ (k < Len(r.puts) => ~quick(k + 1))}
           n == CHOOSE k \in 0 .. Len(r.puts) : quick(k) /\ (k < Len(r.puts) => ~quick(k + 1))
<1>4. /\ itab' = [s \in Slot |-> [tab[s] EXCEPT !.count = @ - Same(r, n, s)]]
      /\ pr' = [pr EXCEPT ![p] = IF n = 0 THEN r ELSE Put(r, n)]
  BY Zenon DEF Go, Same
<1>5. quick(0)
  OBVIOUS
<1>6. \E k \in 0 .. Len(r.puts) : quick(k) /\ (k < Len(r.puts) => ~quick(k + 1))
  <2> HIDE DEF quick
  <2>1. CASE Len(r.puts) = 0
    BY <2>1, <1>5
  <2>2. CASE Len(r.puts) = 1
    <3>1. CASE quick(1)
      BY <2>2, <3>1
    <3>2. CASE ~quick(1)
      <4>1. 0 \in 0 .. Len(r.puts) /\ 0 < Len(r.puts) /\ 0 + 1 = 1
        BY <2>2
      <4> QED BY <4>1, <3>2, <1>5
    <3> QED BY <3>1, <3>2
  <2>3. CASE Len(r.puts) = 2
    <3>1. CASE quick(2)
      BY <2>3, <3>1
    <3>2. CASE ~quick(2) /\ quick(1)
      <4>1. 1 \in 0 .. Len(r.puts) /\ 1 + 1 = 2
        BY <2>3
      <4> QED BY <4>1, <3>2
    <3>3. CASE ~quick(1)
      <4>1. 0 \in 0 .. Len(r.puts) /\ 0 + 1 = 1
        BY <2>3
      <4> QED BY <4>1, <3>3, <1>5
    <3> QED BY <3>1, <3>2, <3>3
  <2> QED BY <2>1, <2>2, <2>3, <1>3
<1>7. n \in 0 .. Len(r.puts) /\ quick(n)
  <2> HIDE DEF quick
  <2> QED BY <1>6
<1>8. PICK m \in 0 .. Len(r.puts) : m = n /\ m \in 0 .. 2
  <2> HIDE DEF n
  <2> QED BY <1>3, <1>7
<1>9. /\ \A j \in 1 .. m : ~tab[r.puts[j]].lock /\ tab[r.puts[j]].count > Same(r, j, r.puts[j])
      /\ itab' = [s \in Slot |-> [tab[s] EXCEPT !.count = @ - Same(r, m, s)]]
      /\ pr' = [pr EXCEPT ![p] = IF m = 0 THEN r ELSE Put(r, m)]
  <2> HIDE DEF n
  <2> QED BY <1>4, <1>7, <1>8
<1> HIDE DEF n, quick
<1>10. PICK x : x = IF m = 0 THEN r ELSE Put(r, m)
  OBVIOUS
<1>11. /\ RecordOK(x) /\ (x.pc = "scan" => x = r) /\ (Opening(x) => Opening(r))
       /\ \A s \in Slot : Own(x, g, s) = Own(r, g, s) - Same(r, m, s)
  <2>1. CASE m = 0
    <3>1. x = r
      BY <1>10, <2>1
    <3>2. \A s \in Slot : Same(r, m, s) = 0 /\ Own(r, g, s) \in Nat
      BY <2>1, SameCount, OwnNat
    <3> QED BY <3>1, <3>2, <1>1
  <2>2. CASE m # 0
    <3>1. m \in 1 .. Len(r.puts) /\ x = Put(r, m)
      BY <1>10, <2>2, <1>3
    <3> QED BY <3>1, <1>1, AfterPut
  <2> QED BY <2>1, <2>2
<1>12. ASSUME NEW s \in Slot
       PROVE  /\ Same(r, m, s) \in Nat
              /\ Same(r, m, s) = 0 \/ tab[s].count > Same(r, m, s)
  <2>1. CASE m = 0
    BY <2>1, SameCount
  <2>2. CASE m = 1
    <3>1. Same(r, 1, s) = One(r.puts[1] = s)
      BY SameCount
    <3>2. tab[r.puts[1]].count > Same(r, 1, r.puts[1])
      BY <1>9, <2>2
    <3> QED BY <3>1, <3>2, <2>2 DEF One
  <2>3. CASE m = 2
    <3>1. /\ Same(r, 1, s) = One(r.puts[1] = s)
          /\ Same(r, 2, s) = One(r.puts[1] = s) + One(r.puts[2] = s)
      BY SameCount
    <3>2. /\ tab[r.puts[1]].count > Same(r, 1, r.puts[1])
          /\ tab[r.puts[2]].count > Same(r, 2, r.puts[2])
      BY <1>9, <2>3
    <3>3. CASE r.puts[2] = s
      BY <3>1, <3>2, <3>3, <2>3 DEF One
    <3>4. CASE r.puts[2] # s /\ r.puts[1] = s
      BY <3>1, <3>2, <3>4, <2>3 DEF One
    <3>5. CASE r.puts[2] # s /\ r.puts[1] # s
      BY <3>1, <3>5, <2>3 DEF One
    <3> QED BY <3>3, <3>4, <3>5
  <2> QED BY <2>1, <2>2, <2>3, <1>8
<1>13. ASSUME NEW s \in Slot
       PROVE  /\ itab'[s].count = tab[s].count - Same(r, m, s) /\ itab'[s].num = tab[s].num
              /\ itab'[s].dirt = tab[s].dirt /\ itab'[s].lock = tab[s].lock
              /\ itab'[s] = [f \in InodeFields |-> itab'[s][f]]
  <2>1. tab[s] = [f \in InodeFields |-> tab[s][f]]
    BY <1>1 DEF TableOK
  <2>2. itab'[s] = [tab[s] EXCEPT !.count = @ - Same(r, m, s)]
    BY <1>9
  <2> QED BY <2>1, <2>2 DEF InodeFields
<1>14. itab' = [s \in Slot |-> itab'[s]]
  BY <1>9
<1>15. \A s \in Slot : tab[s].count \in Nat /\ tab[s].dirt \in BOOLEAN /\ tab[s].lock \in BOOLEAN
  BY <1>1 DEF TableOK
<1>16. TableOK(itab')
  BY <1>12, <1>13, <1>14, <1>15 DEF TableOK
<1>17. Counted(p, itab', x, g)
  <2> SUFFICES ASSUME NEW s \in Slot
               PROVE  itab'[s].count = itab[s].count + Own(x, g, s) - Own(pr[p], fd[p], s)
    BY DEF Counted
  <2>1. tab[s].count = itab[s].count + Own(r, g, s) - Own(pr[p], fd[p], s)
    BY <1>1 DEF Counted
  <2>2. itab'[s].count = tab[s].count - Same(r, m, s)
    BY <1>13
  <2>3. Own(x, g, s) = Own(r, g, s) - Same(r, m, s)
    BY <1>11
  <2>4. Own(r, g, s) \in Nat /\ Own(pr[p], fd[p], s) \in Nat /\ Same(r, m, s) \in Nat
    BY OwnNat, <1>12
  <2>5. itab[s].count \in Nat
    BY DEF Inv, TableOK
  <2> QED BY <2>1, <2>2, <2>3, <2>4, <2>5
<1>18. RootsSame(itab')
  BY <1>1, <1>13 DEF RootsSame
<1>19. FreshIn(p, itab', x)
  <2>1. \A s \in Slot : itab'[s].num = 0 => itab'[s].count <= 1
    <3> SUFFICES ASSUME NEW s \in Slot, itab'[s].num = 0 PROVE itab'[s].count <= 1
      OBVIOUS
    <3>1. tab[s].num = 0 /\ itab'[s].count = tab[s].count - Same(r, m, s)
      BY <1>13
    <3>2. tab[s].count <= 1 /\ tab[s].count \in Nat /\ Same(r, m, s) \in Nat
      BY <3>1, <1>1, <1>12, <1>15 DEF FreshIn
    <3> QED BY <3>1, <3>2
  <2>2. ASSUME x.pc = "scan" PROVE itab'[x.e].num = 0
    <3>1. x = r /\ tab[r.e].num = 0
      BY <2>2, <1>1, <1>11 DEF FreshIn
    <3>2. r.e \in Slot
      BY <2>2, <3>1, <1>1, ScanSlot
    <3> QED BY <3>1, <3>2, <1>13
  <2>3. ASSUME NEW q \in Proc \ {p}, pr[q].pc = "scan" PROVE itab'[pr[q].e].num = 0
    <3>1. tab[pr[q].e].num = 0
      BY <2>3, <1>1 DEF FreshIn
    <3>2. RecordOK(pr[q])
      BY DEF Inv
    <3>3. pr[q].e \in Slot
      BY <2>3, <3>2, ScanSlot
    <3> QED BY <3>1, <3>3, <1>13
  <2> QED BY <2>1, <2>2, <2>3 DEF FreshIn
<1>20. Clean(tab) => Clean(itab')
  <2> SUFFICES ASSUME Clean(tab), NEW s \in Slot, itab'[s].count = 0 PROVE ~itab'[s].dirt /\ ~itab'[s].lock
    BY DEF Clean
  <2>1. tab[s].count = 0
    <3>1. itab'[s].count = tab[s].count - Same(r, m, s)
      BY <1>13
    <3>2. /\ tab[s].count \in Nat /\ Same(r, m, s) \in Nat
          /\ Same(r, m, s) = 0 \/ tab[s].count > Same(r, m, s)
      BY <1>12, <1>15
    <3> QED BY <3>1, <3>2
  <2> QED BY <2>1, <1>13 DEF Clean
<1>21. Ready(p, itab', x, g)
  BY <1>1, <1>11, <1>16, <1>17, <1>18, <1>19 DEF Ready
<1> QED BY <1>9, <1>10, <1>20, <1>21

-----------------------------------------------------------------------------
(* Tables a process may go on with.                                        *)

TabOK(p, tab) ==
  /\ TableOK(tab) /\ RootsSame(tab)
  /\ \A s \in Slot : tab[s].num = 0 => tab[s].count <= 1
  /\ \A q \in Proc \ {p} : pr[q].pc = "scan" => tab[pr[q].e].num = 0
  /\ tainted \/ Clean(tab)

\* What is said of the other variables at the end of a step.
Rest == tainted' \in BOOLEAN /\ (tainted => tainted') /\ ROOT_INO \in imap' /\ imap' \subseteq Ino

LEMMA RestSame ==
  ASSUME Inv, UNCHANGED imap, UNCHANGED tainted \/ \E b : tainted' = (tainted \/ b) \/ tainted' = TRUE
  PROVE  Rest
BY DEF Inv, Rest

\* A step that ends in Go.
LEMMA Proceed ==
  ASSUME Inv, NEW p \in Proc, NEW tab, NEW r, NEW g, TabOK(p, tab), RecordOK(r),
         r.pc = "scan" => tab[r.e].num = 0, Opening(r) => g = NULL,
         g \in SlotOrNULL, Counted(p, tab, r, g), Go(p, tab, r), fd' = [fd EXCEPT ![p] = g], Rest
  PROVE  Inv'
<1>1. Ready(p, tab, r, g)
  BY DEF Ready, TabOK, FreshIn
<1>2. PICK x : /\ Ready(p, itab', x, g) /\ pr' = [pr EXCEPT ![p] = x]
               /\ Clean(tab) => Clean(itab')
  BY <1>1, GoReady
<1>3. tainted' \/ Clean(itab')
  BY <1>2 DEF TabOK, Rest
<1> QED BY <1>2, <1>3, Settle DEF Rest

LEMMA FileNow ==
  ASSUME Inv, NEW p \in Proc
  PROVE  /\ fd[p] \in SlotOrNULL /\ (Opening(pr[p]) => fd[p] = NULL)
         /\ UNCHANGED fd => fd' = [fd EXCEPT ![p] = fd[p]]
BY DEF Inv

LEMMA TabNow ==
  ASSUME Inv, NEW p \in Proc
  PROVE  TabOK(p, itab)
BY DEF Inv, TabOK, Fresh, FreeClean, Clean, RootsSame

\* Only contents differ, and flags of inodes in use.
Edited(u, v) ==
  /\ v = [f \in InodeFields |-> v[f]] /\ v.num = u.num /\ v.count = u.count
  /\ v.dirt \in BOOLEAN /\ v.lock \in BOOLEAN
  /\ tainted \/ u.count # 0 \/ ((v.dirt => u.dirt) /\ (v.lock => u.lock))
Touched(tab, new) == new = [s \in Slot |-> new[s]] /\ \A s \in Slot : new[s] = tab[s] \/ Edited(tab[s], new[s])

LEMMA TouchedTab ==
  ASSUME Inv, NEW p \in Proc, NEW tab, TabOK(p, tab), NEW new, Touched(tab, new)
  PROVE  TabOK(p, new) /\ \A s \in Slot : new[s].num = tab[s].num /\ new[s].count = tab[s].count
<1>0. \A s \in Slot : /\ new[s].num = tab[s].num /\ new[s].count = tab[s].count
                      /\ tainted \/ tab[s].count # 0 \/ ((new[s].dirt => tab[s].dirt) /\ (new[s].lock => tab[s].lock))
  BY DEF Touched, Edited
<1>1. RootsSame(new)
  BY <1>0 DEF TabOK, RootsSame
<1>2. \A s \in Slot : new[s].num = 0 => new[s].count <= 1
  BY <1>0 DEF TabOK
<1>3. ASSUME NEW q \in Proc \ {p}, pr[q].pc = "scan" PROVE new[pr[q].e].num = 0
  <2>1. pr[q].e \in Slot
    BY <1>3, ScanSlot DEF Inv
  <2> QED BY <1>0, <1>3, <2>1 DEF TabOK
<1>4. tainted \/ Clean(new)
  BY <1>0 DEF TabOK, Clean
<1>5. TableOK(new)
  BY DEF Touched, Edited, TabOK, TableOK
<1> QED BY <1>0, <1>1, <1>2, <1>3, <1>4, <1>5 DEF TabOK

LEMMA OneNat == \A b \in BOOLEAN : One(b) \in Nat /\ One(FALSE) = 0 /\ One(TRUE) = 1
BY DEF One

\* References of a process that puts nothing.
LEMMA OwnFields ==
  ASSUME NEW r, r.puts = <<>>, NEW g, NEW s
  PROVE  Own(r, g, s) = One(r.dir = s) + One(r.ino = s) + One(r.old = s) + One(r.e = s) + One(g = s)
<1>1. Len(<<>>) = 0
  OBVIOUS
<1>2. PutsOf(r, s) = 0
  BY <1>1 DEF PutsOf, One
<1>3. Fields4(r, s) \in Nat /\ One(g = s) \in Nat
  BY OwnNat DEF One
<1>4. Own(r, g, s) = Fields4(r, s) + One(g = s)
  BY <1>2, <1>3 DEF Own
<1> QED BY <1>4 DEF Fields4

LEMMA NullOne ==
  ASSUME NEW s \in Slot, NEW x
  PROVE  One(NULL = s) = 0 /\ One(x = s) \in Nat
BY NotSlot DEF One

\* A process with references to a and to b, each of which may be NULL, besides
\* its open file.
Holds(r, a, b) ==
  RecordOK(r) /\ \A s \in Slot : \A g : Own(r, g, s) = One(a = s) + One(b = s) + One(g = s)
Leaves(r, a, b) == Holds(r, a, b) /\ r.pc = "iput" /\ ~Opening(r)

LEMMA LeaveCloses == \A x : Leave(x).pc = "iput" /\ ~Opening(Leave(x))
BY DEF Opening, Leave, User

LEMMA LeaveOne ==
  ASSUME NEW a \in Slot
  PROVE  Leaves(Leave(<<a>>), a, NULL)
<1>1. PICK x : x = <<a>>
  OBVIOUS
<1>2. x \in Seq(Slot) /\ Len(x) = 1 /\ x[1] = a
  BY <1>1
<1>3. Len(x) \in 1 .. 2
  BY <1>2
<1>4. /\ RecordOK(Leave(x)) /\ Leave(x).pc = "iput"
      /\ \A g, s : s \in Slot => Own(Leave(x), g, s) =
           One(g = s) + (One(1 <= Len(x) /\ x[1] = s) + One(2 <= Len(x) /\ x[2] = s))
  BY <1>2, <1>3, LeaveOK
<1>5. ASSUME NEW s \in Slot, NEW g PROVE Own(Leave(x), g, s) = One(a = s) + One(NULL = s) + One(g = s)
  <2>1. One(1 <= Len(x) /\ x[1] = s) = One(a = s) /\ One(2 <= Len(x) /\ x[2] = s) = 0
    BY <1>2 DEF One
  <2>2. One(g = s) \in Nat /\ One(a = s) \in Nat /\ One(NULL = s) = 0
    BY NullOne
  <2>3. Own(Leave(x), g, s) = One(g = s) + (One(1 <= Len(x) /\ x[1] = s) + One(2 <= Len(x) /\ x[2] = s))
    BY <1>4
  <2> QED BY <2>1, <2>2, <2>3
<1>6. Leaves(Leave(x), a, NULL)
  BY <1>4, <1>5, LeaveCloses, Zenon DEF Leaves, Holds
<1> QED BY <1>1, <1>6, Zenon

LEMMA LeaveBoth ==
  ASSUME NEW a \in Slot, NEW b \in Slot, NEW x, x \in Seq(Slot), Len(x) = 2, x[1] = a, x[2] = b
  PROVE  Leaves(Leave(x), a, b)
<1>3. Len(x) \in 1 .. 2
  OBVIOUS
<1>4. /\ RecordOK(Leave(x)) /\ Leave(x).pc = "iput"
      /\ \A g, s : s \in Slot => Own(Leave(x), g, s) =
           One(g = s) + (One(1 <= Len(x) /\ x[1] = s) + One(2 <= Len(x) /\ x[2] = s))
  BY <1>3, LeaveOK
<1>5. ASSUME NEW s \in Slot, NEW g PROVE Own(Leave(x), g, s) = One(a = s) + One(b = s) + One(g = s)
  <2>1. One(1 <= Len(x) /\ x[1] = s) = One(a = s) /\ One(2 <= Len(x) /\ x[2] = s) = One(b = s)
    BY DEF One
  <2>2. One(g = s) \in Nat /\ One(a = s) \in Nat /\ One(b = s) \in Nat
    BY NullOne
  <2>3. Own(Leave(x), g, s) = One(g = s) + (One(1 <= Len(x) /\ x[1] = s) + One(2 <= Len(x) /\ x[2] = s))
    BY <1>4
  <2> QED BY <2>1, <2>2, <2>3
<1> QED BY <1>4, <1>5, LeaveCloses, Zenon DEF Leaves, Holds

LEMMA LeaveTwo ==
  ASSUME NEW a \in Slot, NEW b \in Slot
  PROVE  Leaves(Leave(<<a, b>>), a, b)
<1>1. PICK x : x = <<a, b>>
  OBVIOUS
<1>2. x \in Seq(Slot) /\ Len(x) = 2 /\ x[1] = a /\ x[2] = b
  BY <1>1
<1>3. Leaves(Leave(x), a, b)
  BY <1>2, LeaveBoth
<1> QED BY <1>1, <1>3, Zenon

\* iput one slot and, if there is one, the old inode of link.
LEMMA LeaveOpt ==
  ASSUME NEW a \in Slot, NEW b \in SlotOrNULL
  PROVE  Leaves(Leave(<<a>> \o Opt(b)), a, b)
<1>1. CASE b = NULL
  <2>1. <<a>> \o Opt(b) = <<a>>
    BY <1>1 DEF Opt
  <2>2. Leaves(Leave(<<a>>), a, NULL)
    BY LeaveOne
  <2> QED BY <1>1, <2>1, <2>2, Zenon
<1>2. CASE b # NULL
  <2>1. b \in Slot
    BY <1>2 DEF SlotOrNULL
  <2>2. PICK x : x = <<a>> \o Opt(b)
    OBVIOUS
  <2>3. x = <<a>> \o <<b>>
    BY <1>2, <2>2 DEF Opt
  <2>4. x \in Seq(Slot) /\ Len(x) = 2 /\ x[1] = a /\ x[2] = b
    BY <2>1, <2>3
  <2>5. Leaves(Leave(x), a, b)
    BY <2>1, <2>4, LeaveBoth
  <2> QED BY <2>2, <2>5, Zenon
<1> QED BY <1>1, <1>2

LEMMA HoldsUser == Holds(User, NULL, NULL)
<1>1. ASSUME NEW s \in Slot, NEW g PROVE Own(User, g, s) = One(NULL = s) + One(NULL = s) + One(g = s)
  <2>1. One(NULL = s) = 0 /\ One(g = s) \in Nat /\ Own(User, g, s) = One(g = s)
    BY NullOne, OwnUser
  <2> QED BY <2>1
<1> QED BY <1>1, UserOK, Zenon DEF Holds

\* Two of the fields of a process name inodes, at most.
Pair(r, a, b) ==
  \/ r.dir = a /\ r.ino = b /\ r.old = NULL /\ r.e = NULL
  \/ r.dir = a /\ r.old = b /\ r.ino = NULL /\ r.e = NULL
  \/ r.ino = a /\ r.old = b /\ r.dir = NULL /\ r.e = NULL
  \/ r.e = a /\ r.dir = b /\ r.ino = NULL /\ r.old = NULL
  \/ r.e = a /\ r.old = b /\ r.ino = NULL /\ r.dir = NULL

LEMMA PairFields ==
  ASSUME NEW r, NEW a, NEW b, Pair(r, a, b), NEW s \in Slot
  PROVE  Fields4(r, s) = One(a = s) + One(b = s)
<1>1. One(NULL = s) = 0 /\ One(a = s) \in Nat /\ One(b = s) \in Nat
  BY NullOne
<1>2. CASE r.dir = a /\ r.ino = b /\ r.old = NULL /\ r.e = NULL
  <2>1. Fields4(r, s) = One(a = s) + One(b = s) + One(NULL = s) + One(NULL = s)
    BY <1>2, Zenon DEF Fields4
  <2> QED BY <1>1, <2>1
<1>3. CASE r.dir = a /\ r.old = b /\ r.ino = NULL /\ r.e = NULL
  <2>1. Fields4(r, s) = One(a = s) + One(NULL = s) + One(b = s) + One(NULL = s)
    BY <1>3, Zenon DEF Fields4
  <2> QED BY <1>1, <2>1
<1>4. CASE r.ino = a /\ r.old = b /\ r.dir = NULL /\ r.e = NULL
  <2>1. Fields4(r, s) = One(NULL = s) + One(a = s) + One(b = s) + One(NULL = s)
    BY <1>4, Zenon DEF Fields4
  <2> QED BY <1>1, <2>1
<1>5. CASE r.e = a /\ r.dir = b /\ r.ino = NULL /\ r.old = NULL
  <2>1. Fields4(r, s) = One(b = s) + One(NULL = s) + One(NULL = s) + One(a = s)
    BY <1>5, Zenon DEF Fields4
  <2> QED BY <1>1, <2>1
<1>6. CASE r.e = a /\ r.old = b /\ r.ino = NULL /\ r.dir = NULL
  <2>1. Fields4(r, s) = One(NULL = s) + One(NULL = s) + One(b = s) + One(a = s)
    BY <1>6, Zenon DEF Fields4
  <2> QED BY <1>1, <2>1
<1> QED BY <1>2, <1>3, <1>4, <1>5, <1>6 DEF Pair

LEMMA EmptyPuts ==
  ASSUME NEW r, r.puts = <<>>
  PROVE  r.puts \in Seq(Slot) /\ Len(r.puts) <= 2 /\ \A s : PutsOf(r, s) = 0
<1>1. <<>> \in Seq(Slot) /\ Len(<<>>) = 0
  OBVIOUS
<1>2. r.puts \in Seq(Slot) /\ Len(r.puts) = 0
  BY <1>1
<1>3. \A s : PutsOf(r, s) = 0
  BY <1>2 DEF PutsOf, One
<1> QED BY <1>2, <1>3

\* A process that puts nothing has what its fields name.
LEMMA HoldsPair ==
  ASSUME NEW r, NEW a, NEW b, r.puts = <<>>, Pair(r, a, b), RecordOK(r)
  PROVE  Holds(r, a, b)
<1>1. ASSUME NEW s \in Slot, NEW g PROVE Own(r, g, s) = One(a = s) + One(b = s) + One(g = s)
  <2>1. Fields4(r, s) = One(a = s) + One(b = s)
    BY PairFields
  <2>2. PutsOf(r, s) = 0 /\ One(g = s) \in Nat /\ One(a = s) \in Nat /\ One(b = s) \in Nat
    BY EmptyPuts, NullOne
  <2>3. Own(r, g, s) = One(a = s) + One(b = s) + One(g = s) + 0
    BY <2>1, <2>2, Zenon DEF Own
  <2> QED BY <2>2, <2>3
<1> QED BY <1>1, Zenon DEF Holds

\* New local variables: a record with two references.
LEMMA NewPair ==
  ASSUME NEW r, NEW a \in SlotOrNULL, NEW b \in SlotOrNULL, IsRecord(r), r.puts = <<>>, Pair(r, a, b),
         r.pc # "write", Keeps(r.pc, r)
  PROVE  Holds(r, a, b)
<1>1. {r.dir, r.ino, r.old, r.e} \subseteq SlotOrNULL
  BY DEF Pair, SlotOrNULL
<1>2. r.puts \in Seq(Slot) /\ Len(r.puts) <= 2
  BY EmptyPuts
<1>3. RecordOK(r)
  BY <1>1, <1>2 DEF RecordOK, IsRecord
<1> QED BY <1>3, HoldsPair

\* iput s, then go on at pc with a reference to a.
LEMMA PutThenHolds ==
  ASSUME NEW x, NEW s \in Slot, NEW a \in SlotOrNULL, IsRecord(x), Pair(x, NULL, a) \/ Pair(x, a, NULL),
         NEW pc \in {"empty", "opened", "linked", "mkfail"}, Keeps(pc, x)
  PROVE  /\ Holds(PutThen(x, s, pc), s, a) /\ PutThen(x, s, pc).pc = "iput"
         /\ Opening(PutThen(x, s, pc)) => x.op \in {"open", "creat"} \/ pc = "opened"
<1>1. PICK r : r = PutThen(x, s, pc)
  OBVIOUS
<1>2. PICK y : y = <<s>>
  OBVIOUS
<1>3. r = [x EXCEPT !.pc = "iput", !.puts = y, !.then = pc]
  BY <1>1, <1>2 DEF PutThen
<1>4. r.pc = "iput" /\ r.puts = y /\ r.then = pc /\ IsRecord(r) /\ SameLocals(x, r)
  BY <1>3, FieldsAre DEF IsRecord, SameLocals
<1>5. y \in Seq(Slot) /\ Len(y) = 1 /\ y[1] = s /\ Len(y) <= 2 /\ y # <<>>
  BY <1>2
<1>6. r.puts \in Seq(Slot) /\ Len(r.puts) <= 2 /\ r.puts # <<>>
  BY <1>4, <1>5, Zenon
<1>7. Keeps(r.then, r)
  BY <1>4, KeepsSame
<1>8. {r.dir, r.ino, r.old, r.e} \subseteq SlotOrNULL
  <2>1. {x.dir, x.ino, x.old, x.e} \subseteq SlotOrNULL
    BY DEF Pair, SlotOrNULL
  <2> QED BY <2>1, <1>4 DEF SameLocals
<1>9. RecordOK(r)
  BY <1>4, <1>6, <1>7, <1>8 DEF RecordOK, IsRecord
<1>10. ASSUME NEW t \in Slot, NEW g PROVE Own(r, g, t) = One(s = t) + One(a = t) + One(g = t)
  <2>1. Fields4(r, t) = Fields4(x, t)
    BY <1>4, Zenon DEF Fields4, SameLocals
  <2>2. One(NULL = t) = 0 /\ One(a = t) \in Nat /\ One(s = t) \in Nat /\ One(g = t) \in Nat
    BY NullOne
  <2>3. Fields4(x, t) = One(a = t)
    <3>1. Fields4(x, t) = One(NULL = t) + One(a = t) \/ Fields4(x, t) = One(a = t) + One(NULL = t)
      BY PairFields
    <3> QED BY <2>2, <3>1
  <2>4. PutsOf(r, t) = One(s = t)
    <3>1. PutsOf(r, t) = One(1 <= Len(y) /\ y[1] = t) + One(2 <= Len(y) /\ y[2] = t)
      BY <1>4, Zenon DEF PutsOf
    <3> QED BY <3>1, <1>5 DEF One
  <2>5. Own(r, g, t) = One(a = t) + One(g = t) + One(s = t)
    BY <2>1, <2>3, <2>4, Zenon DEF Own
  <2> QED BY <2>2, <2>5
<1>11. Holds(r, s, a)
  BY <1>9, <1>10, Zenon DEF Holds
<1>12. Opening(r) => x.op \in {"open", "creat"} \/ pc = "opened"
  BY <1>4 DEF Opening, SameLocals
<1> QED BY <1>1, <1>4, <1>11, <1>12

-----------------------------------------------------------------------------
(* Steps, by the references a process has after them.                      *)

\* The counts of tab are right if p goes on with references to a and b and
\* the open file g.
Balanced(p, tab, a, b, g) ==
  \A s \in Slot : tab[s].count = itab[s].count + (One(a = s) + One(b = s) + One(g = s)) - Own(pr[p], fd[p], s)

LEMMA BalancedCounted ==
  ASSUME NEW p, NEW tab, NEW a, NEW b, NEW g, NEW r, Balanced(p, tab, a, b, g), Holds(r, a, b)
  PROVE  Counted(p, tab, r, g)
<1> SUFFICES ASSUME NEW s \in Slot
             PROVE  tab[s].count = itab[s].count + Own(r, g, s) - Own(pr[p], fd[p], s)
  BY DEF Counted
<1>1. tab[s].count = itab[s].count + (One(a = s) + One(b = s) + One(g = s)) - Own(pr[p], fd[p], s)
  BY DEF Balanced
<1>2. Own(r, g, s) = One(a = s) + One(b = s) + One(g = s)
  BY DEF Holds
<1> QED BY <1>1, <1>2, Zenon

LEMMA Continue ==
  ASSUME Inv, NEW p \in Proc, NEW tab, TabOK(p, tab), NEW r, NEW a, NEW b, Holds(r, a, b),
         r.pc = "scan" => tab[r.e].num = 0, NEW g \in SlotOrNULL, Opening(r) => g = NULL,
         Balanced(p, tab, a, b, g), Go(p, tab, r), fd' = [fd EXCEPT ![p] = g], Rest
  PROVE  Inv'
<1>1. Counted(p, tab, r, g)
  BY BalancedCounted
<1>2. RecordOK(r)
  BY DEF Holds
<1> QED BY <1>1, <1>2, Proceed

\* The open file stays.
LEMMA GoOn ==
  ASSUME Inv, NEW p \in Proc, NEW tab, TabOK(p, tab), NEW r, NEW a, NEW b, Holds(r, a, b),
         r.pc = "scan" => tab[r.e].num = 0, Opening(r) => Opening(pr[p]),
         Balanced(p, tab, a, b, fd[p]), Go(p, tab, r), UNCHANGED fd, Rest
  PROVE  Inv'
<1>1. PICK g : g = fd[p]
  OBVIOUS
<1>2. g \in SlotOrNULL /\ (Opening(pr[p]) => g = NULL) /\ fd' = [fd EXCEPT ![p] = g]
  BY <1>1, FileNow
<1>3. Balanced(p, tab, a, b, g)
  BY <1>1
<1> QED BY <1>2, <1>3, Continue

\* The process gives back what it has.
LEMMA LeaveStep ==
  ASSUME Inv, NEW p \in Proc, NEW tab, TabOK(p, tab), NEW r, NEW a, NEW b, Leaves(r, a, b),
         Balanced(p, tab, a, b, fd[p]), Go(p, tab, r), UNCHANGED fd, Rest
  PROVE  Inv'
<1>1. Holds(r, a, b) /\ r.pc # "scan" /\ ~Opening(r)
  BY DEF Leaves
<1> QED BY <1>1, GoOn

LEMMA BalancedSwap ==
  ASSUME NEW p, NEW tab, NEW a, NEW b, NEW g, Balanced(p, tab, a, b, g)
  PROVE  Balanced(p, tab, b, a, g)
<1>1. \A s \in Slot : One(a = s) + One(b = s) + One(g = s) = One(b = s) + One(a = s) + One(g = s)
  BY DEF One
<1> QED BY <1>1 DEF Balanced

LEMMA HoldsSwap ==
  ASSUME NEW r, NEW a, NEW b, Holds(r, a, b)
  PROVE  Holds(r, b, a)
<1>1. \A s \in Slot : \A g : One(a = s) + One(b = s) + One(g = s) = One(b = s) + One(a = s) + One(g = s)
  BY DEF One
<1>2. ASSUME NEW s \in Slot, NEW g PROVE Own(r, g, s) = One(b = s) + One(a = s) + One(g = s)
  <2>1. Own(r, g, s) = One(a = s) + One(b = s) + One(g = s)
    BY DEF Holds
  <2> QED BY <1>1, <2>1
<1>3. RecordOK(r)
  BY DEF Holds
<1> QED BY <1>2, <1>3, Zenon DEF Holds

\* The open file instead of a reference, and the other way round.
LEMMA BalancedOpen ==
  ASSUME NEW p, NEW tab, NEW a, Balanced(p, tab, a, NULL, NULL)
  PROVE  Balanced(p, tab, NULL, NULL, a)
<1>1. \A s \in Slot : One(a = s) + One(NULL = s) + One(NULL = s) = One(NULL = s) + One(NULL = s) + One(a = s)
  BY DEF One
<1> QED BY <1>1 DEF Balanced

LEMMA BalancedClose ==
  ASSUME NEW p, NEW tab, NEW a, Balanced(p, tab, NULL, NULL, a)
  PROVE  Balanced(p, tab, a, NULL, NULL)
<1>1. \A s \in Slot : One(a = s) + One(NULL = s) + One(NULL = s) = One(NULL = s) + One(NULL = s) + One(a = s)
  BY DEF One
<1> QED BY <1>1 DEF Balanced

LEMMA BalancedNow ==
  ASSUME Inv, NEW p \in Proc, NEW a, NEW b, Holds(pr[p], a, b)
  PROVE  Balanced(p, itab, a, b, fd[p])
<1> SUFFICES ASSUME NEW s \in Slot
             PROVE  itab[s].count = itab[s].count + (One(a = s) + One(b = s) + One(fd[p] = s)) - Own(pr[p], fd[p], s)
  BY DEF Balanced
<1>1. Own(pr[p], fd[p], s) = One(a = s) + One(b = s) + One(fd[p] = s)
  BY DEF Holds
<1>2. Own(pr[p], fd[p], s) \in Nat /\ itab[s].count \in Nat
  BY OwnNat, Counts
<1>3. itab[s].count = itab[s].count + Own(pr[p], fd[p], s) - Own(pr[p], fd[p], s)
  BY <1>2
<1> QED BY <1>1, <1>3, Zenon

LEMMA BalancedTouched ==
  ASSUME Inv, NEW p \in Proc, NEW tab, TabOK(p, tab), NEW new, Touched(tab, new),
         NEW a, NEW b, NEW g, Balanced(p, tab, a, b, g)
  PROVE  TabOK(p, new) /\ Balanced(p, new, a, b, g)
<1>1. TabOK(p, new) /\ \A s \in Slot : new[s].count = tab[s].count
  BY TouchedTab
<1> QED BY <1>1 DEF Balanced

LEMMA BalancedUsed ==
  ASSUME Inv, NEW p \in Proc, NEW tab, NEW a \in Slot, NEW b, NEW g, Balanced(p, tab, a, b, g)
  PROVE  tab[a].count # 0
<1>1. tab[a].count = itab[a].count + (One(a = a) + One(b = a) + One(g = a)) - Own(pr[p], fd[p], a)
  BY DEF Balanced
<1>2. One(a = a) = 1 /\ One(b = a) \in Nat /\ One(g = a) \in Nat /\ One(itab[a].num = ROOT_INO) \in Nat
  BY DEF One
<1>3. /\ itab[a].count \in Nat /\ Own(pr[p], fd[p], a) \in Nat
      /\ itab[a].count >= Own(pr[p], fd[p], a) + One(itab[a].num = ROOT_INO)
  BY Counts, OwnNat
<1> QED BY <1>1, <1>2, <1>3

LEMMA RootSlot ==
  ASSUME Inv
  PROVE  Root \in Slot /\ itab[Root].num = ROOT_INO
BY DEF Inv, Root

\* One more reference to an inode.
LEMMA BalancedGet ==
  ASSUME Inv, NEW p \in Proc, NEW tab, TabOK(p, tab), NEW s \in Slot, tab[s].num # 0,
         NEW a, NEW g, Balanced(p, tab, NULL, a, g)
  PROVE  TabOK(p, Get(tab, s)) /\ Balanced(p, Get(tab, s), s, a, g)
<1>2. PICK new : new = Get(tab, s)
  OBVIOUS
<1>3. /\ tab = [t \in Slot |-> tab[t]]
      /\ \A t \in Slot : tab[t] = [f \in InodeFields |-> tab[t][f]] /\ tab[t].count \in Nat
      /\ \A t \in Slot : tab[t].dirt \in BOOLEAN /\ tab[t].lock \in BOOLEAN
  BY DEF TabOK, TableOK
<1>4. new = [tab EXCEPT ![s].count = @ + 1]
  BY <1>2 DEF Get
<1>5. new = [t \in Slot |-> new[t]] /\ \A t \in Slot : t # s => new[t] = tab[t]
  BY <1>3, <1>4
<1>6. new[s] = [tab[s] EXCEPT !.count = @ + 1]
  BY <1>3, <1>4
<1>7. /\ new[s].num = tab[s].num /\ new[s].count = tab[s].count + 1
      /\ new[s].dirt = tab[s].dirt /\ new[s].lock = tab[s].lock
      /\ new[s] = [f \in InodeFields |-> new[s][f]]
  <2>1. tab[s] = [f \in InodeFields |-> tab[s][f]]
    BY <1>3
  <2> QED BY <1>6, <2>1 DEF InodeFields
<1>8. TableOK(new)
  BY <1>3, <1>5, <1>7 DEF TableOK
<1>10. \A t \in Slot : new[t].num = tab[t].num
  BY <1>5, <1>7
<1>11. RootsSame(new)
  BY <1>10 DEF TabOK, RootsSame
<1>12. \A t \in Slot : new[t].num = 0 => new[t].count <= 1
  BY <1>5, <1>10 DEF TabOK
<1>13. ASSUME NEW q \in Proc \ {p}, pr[q].pc = "scan" PROVE new[pr[q].e].num = 0
  <2>1. pr[q].e \in Slot
    BY <1>13, ScanSlot DEF Inv
  <2> QED BY <1>10, <1>13, <2>1 DEF TabOK
<1>14. tainted \/ Clean(new)
  <2> SUFFICES ASSUME Clean(tab) PROVE Clean(new)
    BY DEF TabOK
  <2> SUFFICES ASSUME NEW t \in Slot, new[t].count = 0 PROVE ~new[t].dirt /\ ~new[t].lock
    BY DEF Clean
  <2>1. t # s
    BY <1>3, <1>7
  <2> QED BY <2>1, <1>5 DEF Clean
<1>15. TabOK(p, new)
  BY <1>8, <1>11, <1>12, <1>13, <1>14 DEF TabOK
<1>16. Balanced(p, new, s, a, g)
  <2> SUFFICES ASSUME NEW t \in Slot
               PROVE  new[t].count = itab[t].count + (One(s = t) + One(a = t) + One(g = t)) - Own(pr[p], fd[p], t)
    BY DEF Balanced
  <2>1. tab[t].count = itab[t].count + (One(NULL = t) + One(a = t) + One(g = t)) - Own(pr[p], fd[p], t)
    BY DEF Balanced
  <2>2. One(NULL = t) = 0 /\ One(a = t) \in Nat /\ One(g = t) \in Nat /\ Own(pr[p], fd[p], t) \in Nat
    BY NullOne, OwnNat
  <2>3. itab[t].count \in Nat
    BY Counts
  <2>4. CASE t = s
    <3>1. One(s = t) = 1 /\ new[t].count = tab[t].count + 1
      BY <2>4, <1>7 DEF One
    <3> QED BY <3>1, <2>1, <2>2, <2>3
  <2>5. CASE t # s
    <3>1. One(s = t) = 0 /\ new[t].count = tab[t].count
      BY <2>5, <1>5 DEF One
    <3> QED BY <3>1, <2>1, <2>2, <2>3
  <2> QED BY <2>4, <2>5
<1> QED BY <1>2, <1>15, <1>16

\* get_dir begins at the root.
LEMMA BalancedRoot ==
  ASSUME Inv, NEW p \in Proc, NEW tab, TabOK(p, tab), NEW a, NEW g, Balanced(p, tab, NULL, a, g)
  PROVE  TabOK(p, Get(tab, Root)) /\ Balanced(p, Get(tab, Root), Root, a, g)
<1>1. PICK s \in Slot : s = Root /\ itab[s].num = ROOT_INO
  BY RootSlot
<1>2. tab[s].num # 0
  BY <1>1 DEF TabOK, RootsSame, ROOT_INO
<1> QED BY <1>1, <1>2, BalancedGet

\* What is known of a process that is not putting anything.
LEMMA Now ==
  ASSUME Inv, NEW p \in Proc
  PROVE  /\ RecordOK(pr[p]) /\ IsRecord(pr[p])
         /\ pr[p].pc \notin {"iput", "trunc", "write"} => pr[p].puts = <<>> /\ Keeps(pr[p].pc, pr[p])
         /\ {pr[p].dir, pr[p].ino, pr[p].old, pr[p].e} \subseteq SlotOrNULL
         /\ \A x \in SlotOrNULL : x # NULL => x \in Slot
<1>1. RecordOK(pr[p])
  BY DEF Inv
<1>2. \A x \in SlotOrNULL : x # NULL => x \in Slot
  BY DEF SlotOrNULL
<1> QED BY <1>1, <1>2 DEF RecordOK, IsRecord

LEMMA HasDirIno ==
  ASSUME Inv, NEW p \in Proc, pr[p].puts = <<>>, Only(pr[p], {"dir", "ino"})
  PROVE  /\ pr[p].dir \in Slot /\ pr[p].ino \in Slot /\ Holds(pr[p], pr[p].dir, pr[p].ino)
         /\ Balanced(p, itab, pr[p].dir, pr[p].ino, fd[p]) /\ itab[pr[p].dir].count # 0
         /\ Balanced(p, itab, pr[p].ino, pr[p].dir, fd[p]) /\ itab[pr[p].ino].count # 0
<1>1. PICK a, b, r, g : a = pr[p].dir /\ b = pr[p].ino /\ r = pr[p] /\ g = fd[p]
  OBVIOUS
<1>2. RecordOK(r) /\ a \in Slot /\ b \in Slot /\ r.dir = a /\ r.ino = b /\ r.old = NULL /\ r.e = NULL
  BY <1>1, Now, OnlyParts
<1>3. Holds(r, a, b)
  BY <1>1, <1>2, HoldsPair DEF Pair
<1>4. Balanced(p, itab, a, b, g)
  BY <1>1, <1>3, BalancedNow
<1>5. Balanced(p, itab, b, a, g)
  BY <1>4, BalancedSwap
<1>6. itab[a].count # 0 /\ itab[b].count # 0
  BY <1>2, <1>4, <1>5, BalancedUsed
<1> QED BY <1>1, <1>2, <1>3, <1>4, <1>5, <1>6

LEMMA HasDirOld ==
  ASSUME Inv, NEW p \in Proc, pr[p].puts = <<>>, pr[p].dir # NULL, pr[p].ino = NULL, pr[p].e = NULL
  PROVE  /\ pr[p].dir \in Slot /\ pr[p].old \in SlotOrNULL /\ Holds(pr[p], pr[p].dir, pr[p].old)
         /\ Balanced(p, itab, pr[p].dir, pr[p].old, fd[p]) /\ itab[pr[p].dir].count # 0
<1>1. PICK a, b, r, g : a = pr[p].dir /\ b = pr[p].old /\ r = pr[p] /\ g = fd[p]
  OBVIOUS
<1>2. RecordOK(r) /\ a \in Slot /\ b \in SlotOrNULL /\ r.dir = a /\ r.old = b /\ r.ino = NULL /\ r.e = NULL
  BY <1>1, Now
<1>3. Holds(r, a, b)
  BY <1>1, <1>2, HoldsPair DEF Pair
<1>4. Balanced(p, itab, a, b, g)
  BY <1>1, <1>3, BalancedNow
<1>5. itab[a].count # 0
  BY <1>2, <1>4, BalancedUsed
<1> QED BY <1>1, <1>2, <1>3, <1>4, <1>5

LEMMA HasIno ==
  ASSUME Inv, NEW p \in Proc, pr[p].puts = <<>>, Only(pr[p], {"ino"})
  PROVE  /\ pr[p].ino \in Slot /\ Holds(pr[p], pr[p].ino, NULL)
         /\ Balanced(p, itab, pr[p].ino, NULL, fd[p]) /\ itab[pr[p].ino].count # 0
<1>1. PICK a, r, g : a = pr[p].ino /\ r = pr[p] /\ g = fd[p]
  OBVIOUS
<1>2. RecordOK(r) /\ a \in Slot /\ r.ino = a /\ r.dir = NULL /\ r.old = NULL /\ r.e = NULL
  BY <1>1, Now, OnlyParts
<1>3. Holds(r, a, NULL)
  BY <1>1, <1>2, HoldsPair DEF Pair
<1>4. Balanced(p, itab, a, NULL, g)
  BY <1>1, <1>3, BalancedNow
<1>5. itab[a].count # 0
  BY <1>2, <1>4, BalancedUsed
<1> QED BY <1>1, <1>2, <1>3, <1>4, <1>5

LEMMA HasNothing ==
  ASSUME Inv, NEW p \in Proc, pr[p].puts = <<>>, Only(pr[p], {})
  PROVE  Holds(pr[p], NULL, NULL) /\ Balanced(p, itab, NULL, NULL, fd[p])
<1>1. PICK r : r = pr[p]
  OBVIOUS
<1>2. RecordOK(r) /\ r.ino = NULL /\ r.dir = NULL /\ r.old = NULL /\ r.e = NULL
  BY <1>1, Now, OnlyParts
<1>3. Holds(r, NULL, NULL)
  BY <1>1, <1>2, HoldsPair DEF Pair
<1> QED BY <1>1, <1>3, BalancedNow

\* The same references at another place.
LEMMA HoldsSame ==
  ASSUME NEW r, NEW x, NEW a, NEW b, Holds(r, a, b), r.puts = <<>>, SameLocals(r, x), x.puts = <<>>,
         IsRecord(x), x.pc # "write", Keeps(x.pc, x)
  PROVE  Holds(x, a, b)
<1>1. x.puts \in Seq(Slot) /\ Len(x.puts) <= 2
  BY EmptyPuts
<1>2. {x.dir, x.ino, x.old, x.e} \subseteq SlotOrNULL
  BY DEF Holds, RecordOK, SameLocals
<1>3. RecordOK(x)
  BY <1>1, <1>2 DEF RecordOK, IsRecord
<1>4. ASSUME NEW s \in Slot, NEW g PROVE Own(x, g, s) = One(a = s) + One(b = s) + One(g = s)
  <2>1. Own(r, g, s) = One(a = s) + One(b = s) + One(g = s)
    BY DEF Holds
  <2>2. Own(x, g, s) = Own(r, g, s)
    <3>1. Fields4(x, s) = Fields4(r, s)
      BY Zenon DEF Fields4, SameLocals
    <3>2. PutsOf(x, s) = PutsOf(r, s)
      BY Zenon DEF PutsOf
    <3> QED BY <3>1, <3>2, Zenon DEF Own
  <2> QED BY <2>1, <2>2, Zenon
<1> QED BY <1>3, <1>4, Zenon DEF Holds

\* A slot gets another content or other flags.
Replaced(tab, s, v) == [t \in Slot |-> IF t = s THEN v ELSE tab[t]]

LEMMA TouchOne ==
  ASSUME NEW tab, TableOK(tab), NEW s, NEW v, s \in Slot => Edited(tab[s], v),
         NEW new, new = Replaced(tab, s, v)
  PROVE  Touched(tab, new)
<1>1. new = [t \in Slot |-> new[t]] /\ \A t \in Slot : new[t] = IF t = s THEN v ELSE tab[t]
  BY DEF Replaced
<1>2. \A t \in Slot : new[t] = tab[t] \/ Edited(tab[t], new[t])
  BY <1>1
<1> QED BY <1>1, <1>2 DEF Touched

\* An inode in the table, with another content and other flags.
WithContent(u, dirt, lock, d) == [u EXCEPT !.dirt = dirt, !.lock = lock, !.d = d]

LEMMA ContentEdited ==
  ASSUME NEW tab, TableOK(tab), NEW s \in Slot, NEW dirt \in BOOLEAN, NEW lock \in BOOLEAN, NEW d,
         tainted \/ tab[s].count # 0 \/ ((dirt => tab[s].dirt) /\ (lock => tab[s].lock))
  PROVE  Edited(tab[s], WithContent(tab[s], dirt, lock, d))
<1>1. PICK u : u = tab[s]
  OBVIOUS
<1>2. u = [f \in InodeFields |-> u[f]] /\ u.dirt \in BOOLEAN /\ u.lock \in BOOLEAN
  BY <1>1 DEF TableOK
<1>3. PICK v : v = WithContent(u, dirt, lock, d)
  OBVIOUS
<1>4. v = [f \in InodeFields |-> v[f]] /\ v.num = u.num /\ v.count = u.count /\ v.dirt = dirt /\ v.lock = lock
  BY <1>2, <1>3 DEF WithContent, InodeFields
<1>5. Edited(u, v)
  BY <1>1, <1>4 DEF Edited
<1> QED BY <1>1, <1>3, <1>5, Zenon

Changed(tab, s, dirt, lock, d) == Replaced(tab, s, WithContent(tab[s], dirt, lock, d))

LEMMA Touch ==
  ASSUME Inv, NEW p \in Proc, NEW tab, TabOK(p, tab), NEW s \in Slot, NEW dirt \in BOOLEAN, NEW lock \in BOOLEAN,
         NEW d, tainted \/ tab[s].count # 0 \/ ((dirt => tab[s].dirt) /\ (lock => tab[s].lock)),
         NEW new, new = Changed(tab, s, dirt, lock, d),
         NEW a, NEW b, NEW g, Balanced(p, tab, a, b, g)
  PROVE  TabOK(p, new) /\ Balanced(p, new, a, b, g)
<1>1. TableOK(tab)
  BY DEF TabOK
<1>2. Edited(tab[s], WithContent(tab[s], dirt, lock, d))
  BY <1>1, ContentEdited
<1>3. Touched(tab, new)
  BY <1>1, <1>2, TouchOne DEF Changed
<1> QED BY <1>3, BalancedTouched

\* The forms in which the code changes an inode.
SetDirt(tab, s, x) == [tab EXCEPT ![s].dirt = x]
SetLock(tab, s, x) == [tab EXCEPT ![s].lock = x]
SetD(tab, s, x)    == [tab EXCEPT ![s].d = x]

LEMMA Forms ==
  ASSUME NEW tab, TableOK(tab), NEW s \in Slot, NEW x
  PROVE  /\ tab[s].dirt \in BOOLEAN /\ tab[s].lock \in BOOLEAN
         /\ SetDirt(tab, s, x) = Changed(tab, s, x, tab[s].lock, tab[s].d)
         /\ SetLock(tab, s, x) = Changed(tab, s, tab[s].dirt, x, tab[s].d)
         /\ SetD(tab, s, x) = Changed(tab, s, tab[s].dirt, tab[s].lock, x)
<1>1. PICK u : u = tab[s]
  OBVIOUS
<1>2. /\ u = [f \in InodeFields |-> u[f]] /\ u.dirt \in BOOLEAN /\ u.lock \in BOOLEAN
      /\ tab = [t \in Slot |-> tab[t]]
  BY <1>1 DEF TableOK
<1>3. /\ [u EXCEPT !.dirt = x] = WithContent(u, x, u.lock, u.d)
      /\ [u EXCEPT !.lock = x] = WithContent(u, u.dirt, x, u.d)
      /\ [u EXCEPT !.d = x] = WithContent(u, u.dirt, u.lock, x)
  BY <1>2 DEF WithContent, InodeFields
<1>4. /\ SetDirt(tab, s, x) = [t \in Slot |-> IF t = s THEN [u EXCEPT !.dirt = x] ELSE tab[t]]
      /\ SetLock(tab, s, x) = [t \in Slot |-> IF t = s THEN [u EXCEPT !.lock = x] ELSE tab[t]]
      /\ SetD(tab, s, x) = [t \in Slot |-> IF t = s THEN [u EXCEPT !.d = x] ELSE tab[t]]
  BY <1>1, <1>2 DEF SetDirt, SetLock, SetD
<1> QED BY <1>1, <1>2, <1>3, <1>4 DEF Changed, Replaced

LEMMA TouchField ==
  ASSUME Inv, NEW p \in Proc, NEW tab, TabOK(p, tab), NEW s \in Slot, tab[s].count # 0,
         NEW a, NEW b, NEW g, Balanced(p, tab, a, b, g), NEW x
  PROVE  /\ TabOK(p, SetD(tab, s, x)) /\ Balanced(p, SetD(tab, s, x), a, b, g)
         /\ x \in BOOLEAN => /\ TabOK(p, SetDirt(tab, s, x))
                             /\ Balanced(p, SetDirt(tab, s, x), a, b, g)
                             /\ TabOK(p, SetLock(tab, s, x))
                             /\ Balanced(p, SetLock(tab, s, x), a, b, g)
         /\ SetD(tab, s, x)[s].count # 0
         /\ SetDirt(tab, s, x)[s].count # 0
<1>1. TableOK(tab)
  BY DEF TabOK
<1>2. PICK n1, n2, n3 : n1 = SetDirt(tab, s, x) /\ n2 = SetLock(tab, s, x) /\ n3 = SetD(tab, s, x)
  OBVIOUS
<1>3. PICK u, ul, ud, di : u = tab[s] /\ ul = u.lock /\ ud = u.dirt /\ di = u.d
  OBVIOUS
<1>4. /\ ud \in BOOLEAN /\ ul \in BOOLEAN
      /\ n1 = Changed(tab, s, x, ul, di) /\ n2 = Changed(tab, s, ud, x, di) /\ n3 = Changed(tab, s, ud, ul, x)
  <2>1. /\ tab[s].dirt \in BOOLEAN /\ tab[s].lock \in BOOLEAN
        /\ SetDirt(tab, s, x) = Changed(tab, s, x, tab[s].lock, tab[s].d)
        /\ SetLock(tab, s, x) = Changed(tab, s, tab[s].dirt, x, tab[s].d)
        /\ SetD(tab, s, x) = Changed(tab, s, tab[s].dirt, tab[s].lock, x)
    BY <1>1, Forms
  <2> QED BY <1>2, <1>3, <2>1, Zenon
<1>5. TabOK(p, n3) /\ Balanced(p, n3, a, b, g)
  BY <1>4, Touch
<1>6. ASSUME x \in BOOLEAN
      PROVE  TabOK(p, n1) /\ Balanced(p, n1, a, b, g) /\ TabOK(p, n2) /\ Balanced(p, n2, a, b, g)
  BY <1>4, <1>6, Touch
<1>7. n3[s].count # 0 /\ n1[s].count # 0
  <2>1. u = [f \in InodeFields |-> u[f]] /\ u.count # 0
    BY <1>1, <1>3 DEF TableOK
  <2>2. n3[s] = WithContent(u, ud, ul, x) /\ n1[s] = WithContent(u, x, ul, di)
    BY <1>3, <1>4 DEF Changed, Replaced
  <2> QED BY <2>1, <2>2 DEF WithContent, InodeFields
<1> QED BY <1>2, <1>5, <1>6, <1>7

-----------------------------------------------------------------------------
(* One lemma for each action.                                              *)

LEMMA MkdirBlockKeeps ==
  ASSUME Inv, NEW p \in Proc, MkdirBlock(p)
  PROVE  Inv'
<1>1. PICK r, a, b : r = pr[p] /\ a = pr[p].dir /\ b = pr[p].ino
  OBVIOUS
<1>2. r.pc = "mkblk" /\ r.puts = <<>> /\ r.op = "mkdir" /\ Only(r, {"dir", "ino"}) /\ IsRecord(r)
  BY <1>1, Now DEF MkdirBlock, At, Keeps
<1>3. b \in Slot /\ Holds(r, a, b) /\ Balanced(p, itab, a, b, fd[p]) /\ itab[b].count # 0
  BY <1>1, <1>2, HasDirIno
<1>4. PICK x, n1, n2, d : /\ x = [r EXCEPT !.pc = "add", !.blk = 0, !.i = 1] /\ d = [kind |-> "dir", nlinks |-> 2, zone |-> <<r.blk>>, size |-> 0]
                    /\ n1 = SetDirt(itab, b, TRUE) /\ n2 = SetD(n1, b, d)
  OBVIOUS
<1>5. Go(p, n2, x) /\ UNCHANGED <<imap, fd, tainted>>
  BY <1>1, <1>4, Zenon DEF MkdirBlock, SetDirt, SetD
<1>6. TabOK(p, n1) /\ Balanced(p, n1, a, b, fd[p]) /\ n1[b].count # 0
  BY <1>3, <1>4, TabNow, TouchField
<1>7. TabOK(p, n2) /\ Balanced(p, n2, a, b, fd[p])
  BY <1>3, <1>4, <1>6, TouchField
<1>8. SameLocals(r, x) /\ IsRecord(x) /\ x.puts = <<>> /\ x.pc = "add" /\ x.then = r.then
  BY <1>2, <1>4, FieldsAre DEF SameLocals, IsRecord
<1>9. Keeps(x.pc, x)
  <2>1. Keeps("add", r)
    BY <1>2 DEF Keeps
  <2> QED BY <2>1, <1>8, KeepsSame
<1>10. Holds(x, a, b) /\ x.pc # "scan" /\ (Opening(x) => Opening(r))
  BY <1>2, <1>3, <1>8, <1>9, HoldsSame DEF Opening, SameLocals
<1>11. Rest
  BY <1>5, RestSame
<1> QED BY <1>1, <1>5, <1>7, <1>10, <1>11, GoOn

\* The process goes on at another place with the references it has.
LEMMA MoveOn ==
  ASSUME Inv, NEW p \in Proc, NEW a, NEW b, Holds(pr[p], a, b), pr[p].puts = <<>>,
         NEW x, SameLocals(pr[p], x), IsRecord(x), x.puts = <<>>, x.then = pr[p].then,
         x.pc \notin {"write", "scan", "opened", "otrunc"}, Keeps(x.pc, pr[p]),
         NEW tab, TabOK(p, tab), Balanced(p, tab, a, b, fd[p]), Go(p, tab, x), UNCHANGED fd, Rest
  PROVE  Inv'
<1>1. Keeps(x.pc, x)
  BY KeepsSame
<1>2. Holds(x, a, b)
  BY <1>1, HoldsSame
<1>3. Opening(x) => Opening(pr[p])
  BY DEF Opening, SameLocals
<1> QED BY <1>2, <1>3, GoOn

LEMMA SlotEdited ==
  ASSUME Inv, NEW p \in Proc, NEW tab, TabOK(p, tab), NEW s, NEW v, s \in Slot => Edited(tab[s], v),
         NEW a, NEW b, NEW g, Balanced(p, tab, a, b, g)
  PROVE  TabOK(p, [tab EXCEPT ![s] = v]) /\ Balanced(p, [tab EXCEPT ![s] = v], a, b, g)
<1>1. TableOK(tab) /\ tab = [t \in Slot |-> tab[t]]
  BY DEF TabOK, TableOK
<1>2. PICK new : new = [tab EXCEPT ![s] = v]
  OBVIOUS
<1>3. new = Replaced(tab, s, v)
  BY <1>1, <1>2 DEF Replaced
<1>4. Touched(tab, new)
  BY <1>1, <1>3, TouchOne
<1>5. TabOK(p, new) /\ Balanced(p, new, a, b, g)
  BY <1>4, BalancedTouched
<1> QED BY <1>2, <1>5, Zenon

LEMMA GrownEdited ==
  ASSUME NEW tab, TableOK(tab), NEW s \in Slot, tab[s].count # 0, NEW i, NEW b
  PROVE  Edited(tab[s], SetZone(tab[s], i, b)) /\ Edited(tab[s], Grow(tab[s], i))
<1>1. PICK u : u = tab[s]
  OBVIOUS
<1>2. u = [f \in InodeFields |-> u[f]] /\ u.dirt \in BOOLEAN /\ u.lock \in BOOLEAN /\ u.count # 0
  BY <1>1 DEF TableOK
<1>3. Edited(u, SetZone(u, i, b))
  <2>1. PICK v, d : v = SetZone(u, i, b) /\ v = [u EXCEPT !.dirt = TRUE, !.d = d]
    BY DEF SetZone
  <2>2. v = [f \in InodeFields |-> v[f]] /\ v.num = u.num /\ v.count = u.count /\ v.dirt = TRUE /\ v.lock = u.lock
    BY <1>2, <2>1 DEF InodeFields
  <2> QED BY <1>2, <2>1, <2>2 DEF Edited
<1>4. Edited(u, u)
  BY <1>2 DEF Edited
<1>5. Edited(u, Grow(u, i))
  <2>1. CASE i > u.d.size
    <3>1. PICK v, d : v = Grow(u, i) /\ v = [u EXCEPT !.dirt = TRUE, !.d = d]
      BY <1>2, <2>1 DEF Grow, InodeFields
    <3>2. v = [f \in InodeFields |-> v[f]] /\ v.num = u.num /\ v.count = u.count /\ v.dirt = TRUE /\ v.lock = u.lock
      BY <1>2, <3>1 DEF InodeFields
    <3> QED BY <1>2, <3>1, <3>2 DEF Edited
  <2>2. CASE ~(i > u.d.size)
    BY <1>4, <2>2 DEF Grow
  <2> QED BY <2>1, <2>2
<1> QED BY <1>1, <1>3, <1>5, Zenon

LEMMA create_blockKeeps ==
  ASSUME Inv, NEW p \in Proc, create_block(p)
  PROVE  Inv'
<1>1. PICK r, a : r = pr[p] /\ a = pr[p].dir
  OBVIOUS
<1>2. r.pc = "addblk" /\ r.puts = <<>> /\ IsRecord(r) /\ Keeps("addblk", r) /\ Keeps("add", r)
  BY <1>1, Now DEF create_block, At, Keeps
<1>3. PICK b : a \in Slot /\ Holds(r, a, b) /\ Balanced(p, itab, a, b, fd[p]) /\ itab[a].count # 0
  <2>1. CASE r.op = "link"
    <3>1. r.dir # NULL /\ r.ino = NULL /\ r.e = NULL
      BY <1>2, <2>1, OnlyParts DEF Keeps
    <3> QED BY <1>1, <1>2, <3>1, HasDirOld
  <2>2. CASE r.op # "link"
    <3>1. Only(r, {"dir", "ino"})
      BY <1>2, <2>2 DEF Keeps
    <3> QED BY <1>1, <1>2, <3>1, HasDirIno
  <2> QED BY <2>1, <2>2
<1>4. PICK x, v, new : /\ x = [r EXCEPT !.pc = "add", !.blk = 0] /\ v = SetZone(itab[a], r.i, r.blk)
                       /\ new = [itab EXCEPT ![a] = v]
  OBVIOUS
<1>5. TableOK(itab) /\ itab = [t \in Slot |-> itab[t]]
  BY DEF Inv, TableOK
<1>6. new = [itab EXCEPT ![a] = SetZone(@, r.i, r.blk)]
  BY <1>3, <1>4, <1>5
<1>7. Go(p, new, x) /\ UNCHANGED <<imap, fd>> /\ \E c : tainted' = (tainted \/ c)
  BY <1>1, <1>4, <1>6, Zenon DEF create_block
<1>8. Edited(itab[a], v)
  BY <1>3, <1>4, <1>5, GrownEdited
<1>9. TabOK(p, new) /\ Balanced(p, new, a, b, fd[p])
  BY <1>3, <1>4, <1>8, TabNow, SlotEdited
<1>10. SameLocals(r, x) /\ IsRecord(x) /\ x.puts = <<>> /\ x.pc = "add" /\ x.then = r.then
  BY <1>2, <1>4, FieldsAre DEF SameLocals, IsRecord
<1>11. Rest
  BY <1>7, RestSame
<1> QED BY <1>1, <1>2, <1>3, <1>7, <1>9, <1>10, <1>11, MoveOn

LEMMA OpenNewKeeps ==
  ASSUME Inv, NEW p \in Proc, OpenNew(p)
  PROVE  Inv'
<1>1. PICK r, a : r = pr[p] /\ a = pr[p].ino
  OBVIOUS
<1>2. r.pc = "opened" /\ r.puts = <<>> /\ Only(r, {"ino"})
  BY <1>1, Now DEF OpenNew, At, Keeps
<1>3. a \in Slot /\ Balanced(p, itab, a, NULL, fd[p])
  BY <1>1, <1>2, HasIno
<1>4. fd[p] = NULL
  BY <1>1, <1>2, FileNow DEF Opening
<1>5. Balanced(p, itab, NULL, NULL, a)
  BY <1>3, <1>4, BalancedOpen
<1>6. fd' = [fd EXCEPT ![p] = a] /\ Go(p, itab, User) /\ UNCHANGED <<imap, tainted>>
  BY <1>1 DEF OpenNew, Opened
<1>7. Rest
  BY <1>6, RestSame
<1>8. User.pc # "scan" /\ a \in SlotOrNULL
  BY <1>3, UserOK DEF SlotOrNULL
<1> QED BY <1>5, <1>6, <1>7, <1>8, HoldsUser, UserCloses, TabNow, Continue

LEMMA LinkOldKeeps ==
  ASSUME Inv, NEW p \in Proc, LinkOld(p)
  PROVE  Inv'
<1>1. PICK r, s : r = pr[p] /\ s = pr[p].old
  OBVIOUS
<1>2. r.pc = "linked" /\ r.puts = <<>> /\ Only(r, {"old"}) /\ RecordOK(r)
  BY <1>1, Now DEF LinkOld, At, Keeps
<1>3. s \in Slot /\ r.dir = NULL /\ r.ino = NULL /\ r.e = NULL
  BY <1>1, <1>2, Now, OnlyParts
<1>4. Holds(r, NULL, s)
  BY <1>1, <1>2, <1>3, HoldsPair DEF Pair
<1>5. Balanced(p, itab, s, NULL, fd[p])
  BY <1>1, <1>4, BalancedNow, BalancedSwap
<1>6. itab[s].count # 0
  BY <1>3, <1>5, BalancedUsed
<1>7. PICK d, n1, n2 : /\ d = [itab[s].d EXCEPT !.nlinks = @ + 1]
                       /\ n1 = SetD(itab, s, d) /\ n2 = SetDirt(n1, s, TRUE)
  OBVIOUS
<1>8. itab = [t \in Slot |-> itab[t]] /\ itab[s] = [f \in InodeFields |-> itab[s][f]]
  BY <1>3 DEF Inv, TableOK
<1>9. [itab EXCEPT ![s].d.nlinks = @ + 1] = [itab EXCEPT ![s].d = d]
  BY <1>3, <1>7, <1>8 DEF InodeFields
<1>10. [itab EXCEPT ![s].d.nlinks = @ + 1, ![s].dirt = TRUE] = n2
  BY <1>7, <1>9, Zenon DEF SetDirt, SetD
<1>11. Go(p, n2, Leave(<<s>>)) /\ UNCHANGED <<imap, fd, tainted>>
  BY <1>1, <1>10, Zenon DEF LinkOld
<1>12. TabOK(p, n1) /\ Balanced(p, n1, s, NULL, fd[p]) /\ n1[s].count # 0
  BY <1>3, <1>5, <1>6, <1>7, TabNow, TouchField
<1>13. TabOK(p, n2) /\ Balanced(p, n2, s, NULL, fd[p])
  BY <1>3, <1>7, <1>12, TouchField
<1>14. Leaves(Leave(<<s>>), s, NULL)
  BY <1>3, LeaveOne
<1>15. Rest
  BY <1>11, RestSame
<1> QED BY <1>11, <1>13, <1>14, <1>15, LeaveStep

LEMMA MkdirFailsKeeps ==
  ASSUME Inv, NEW p \in Proc, MkdirFails(p)
  PROVE  Inv'
<1>1. PICK r, s : r = pr[p] /\ s = pr[p].ino
  OBVIOUS
<1>2. r.pc = "mkfail" /\ r.puts = <<>> /\ Only(r, {"ino"})
  BY <1>1, Now DEF MkdirFails, At, Keeps
<1>3. s \in Slot /\ Balanced(p, itab, s, NULL, fd[p]) /\ itab[s].count # 0
  BY <1>1, <1>2, HasIno
<1>4. PICK d, n1 : d = [itab[s].d EXCEPT !.nlinks = 0] /\ n1 = SetD(itab, s, d)
  OBVIOUS
<1>5. itab = [t \in Slot |-> itab[t]] /\ itab[s] = [f \in InodeFields |-> itab[s][f]]
  BY <1>3 DEF Inv, TableOK
<1>6. [itab EXCEPT ![s].d.nlinks = 0] = n1
  BY <1>3, <1>4, <1>5 DEF InodeFields, SetD
<1>7. Go(p, n1, Leave(<<s>>)) /\ UNCHANGED <<imap, fd>> /\ tainted' = TRUE
  BY <1>1, <1>6, Zenon DEF MkdirFails
<1>8. TabOK(p, n1) /\ Balanced(p, n1, s, NULL, fd[p])
  BY <1>3, <1>4, TabNow, TouchField
<1>9. Leaves(Leave(<<s>>), s, NULL)
  BY <1>3, LeaveOne
<1>10. Rest
  BY <1>7, RestSame
<1> QED BY <1>7, <1>8, <1>9, <1>10, LeaveStep

LEMMA sys_closeKeeps ==
  ASSUME Inv, NEW p \in Proc, sys_close(p)
  PROVE  Inv'
<1>1. pr[p].pc = "user" /\ pr[p].puts = <<>> /\ Only(pr[p], {})
  BY Now DEF sys_close, At, Keeps
<1>2. PICK a : a = fd[p]
  OBVIOUS
<1>3. a \in Slot
  BY <1>2, Now, FileNow DEF sys_close
<1>4. Balanced(p, itab, a, NULL, NULL)
  BY <1>1, <1>2, HasNothing, BalancedClose
<1>5. Go(p, itab, Leave(<<a>>)) /\ fd' = [fd EXCEPT ![p] = NULL] /\ UNCHANGED <<imap, tainted>>
  BY <1>2, Zenon DEF sys_close
<1>6. Leaves(Leave(<<a>>), a, NULL)
  BY <1>3, LeaveOne
<1>7. Holds(Leave(<<a>>), a, NULL) /\ Leave(<<a>>).pc # "scan" /\ ~Opening(Leave(<<a>>))
  BY <1>6 DEF Leaves
<1>8. Rest /\ NULL \in SlotOrNULL
  BY <1>5, RestSame DEF SlotOrNULL
<1> QED BY <1>4, <1>5, <1>7, <1>8, TabNow, Continue

\* A process that has no inode but its open file, and a block.
LEMMA WithBlock ==
  ASSUME NEW pc \in {"wrblk", "copy"}, NEW b, NEW x, x = [User EXCEPT !.pc = pc, !.blk = b]
  PROVE  Holds(x, NULL, NULL) /\ x.pc # "scan" /\ ~Opening(x)
<1>1. SameLocals(User, x) /\ IsRecord(x) /\ x.puts = <<>> /\ x.pc = pc /\ x.then = "user"
  BY UserOK, FieldsAre DEF SameLocals, IsRecord
<1>2. x.dir = NULL /\ x.ino = NULL /\ x.old = NULL /\ x.e = NULL /\ Pair(x, NULL, NULL) /\ ~Opening(x)
  BY <1>1, UserOK, UserCloses DEF SameLocals, Pair, Opening
<1>3. Keeps(x.pc, x)
  BY <1>1, <1>2, OnlyParts DEF Keeps
<1> QED BY <1>1, <1>2, <1>3, NewPair DEF SlotOrNULL

LEMMA BlockKeeps ==
  ASSUME Inv, NEW p \in Proc, pr[p].pc \in {"user", "wrblk", "copy"}, NEW pc \in {"wrblk", "copy"}, NEW b,
         Go(p, itab, [User EXCEPT !.pc = pc, !.blk = b]), UNCHANGED <<imap, fd, tainted>>
  PROVE  Inv'
<1>1. pr[p].puts = <<>> /\ Only(pr[p], {})
  BY Now DEF Keeps
<1>2. PICK x : x = [User EXCEPT !.pc = pc, !.blk = b]
  OBVIOUS
<1>3. Holds(x, NULL, NULL) /\ x.pc # "scan" /\ ~Opening(x)
  BY <1>2, WithBlock
<1>4. Rest /\ Go(p, itab, x)
  BY <1>2, RestSame
<1> QED BY <1>1, <1>3, <1>4, TabNow, HasNothing, GoOn

LEMMA file_readKeeps ==
  ASSUME Inv, NEW p \in Proc, file_read(p)
  PROVE  Inv'
<1>1. pr[p].pc = "user" /\ UNCHANGED <<imap, fd, tainted>>
  BY DEF file_read, At
<1>2. PICK b : Go(p, itab, [User EXCEPT !.pc = "copy", !.blk = b])
  BY Zenon DEF file_read, Copy
<1> QED BY <1>1, <1>2, BlockKeeps

LEMMA file_writeKeeps ==
  ASSUME Inv, NEW p \in Proc, file_write(p)
  PROVE  Inv'
<1>1. pr[p].pc = "user" /\ UNCHANGED <<imap, fd, tainted>>
  BY Zenon DEF file_write, At
<1>2. PICK b : \/ Go(p, itab, [User EXCEPT !.pc = "wrblk", !.blk = b])
               \/ Go(p, itab, [User EXCEPT !.pc = "copy", !.blk = b])
  BY Zenon DEF file_write, Copy
<1> QED BY <1>1, <1>2, BlockKeeps

LEMMA FileCopiedKeeps ==
  ASSUME Inv, NEW p \in Proc, FileCopied(p)
  PROVE  Inv'
<1>1. pr[p].pc = "copy" /\ Go(p, itab, User) /\ UNCHANGED <<imap, fd, tainted>>
  BY DEF FileCopied, At
<1>2. pr[p].puts = <<>> /\ Only(pr[p], {})
  BY <1>1, Now DEF Keeps
<1>3. Rest
  BY <1>1, RestSame
<1> QED BY <1>1, <1>2, <1>3, TabNow, HasNothing, HoldsUser, UserOK, UserCloses, GoOn

LEMMA FileBlockKeeps ==
  ASSUME Inv, NEW p \in Proc, FileBlock(p)
  PROVE  Inv'
<1>1. pr[p].pc = "wrblk" /\ pr[p].puts = <<>> /\ Only(pr[p], {})
  BY Now DEF FileBlock, At, Keeps
<1>2. PICK a, v, new : /\ a = fd[p] /\ v = SetZone(itab[a], 1, pr[p].blk)
                       /\ new = [itab EXCEPT ![a] = v]
  OBVIOUS
<1>3. TableOK(itab) /\ itab = [t \in Slot |-> itab[t]]
  BY DEF Inv, TableOK
<1>4. new = [itab EXCEPT ![a] = SetZone(@, 1, pr[p].blk)]
  BY <1>2, <1>3
<1>5. PICK x : /\ x = [User EXCEPT !.pc = "copy", !.blk = pr[p].blk] /\ Go(p, new, x)
               /\ UNCHANGED <<imap, fd>> /\ \E c : tainted' = (tainted \/ c)
  BY <1>2, <1>4, Zenon DEF FileBlock, Copy
<1>6. Balanced(p, itab, NULL, NULL, a)
  BY <1>1, <1>2, HasNothing
<1>7. ASSUME a \in Slot PROVE Edited(itab[a], v)
  <2>1. Balanced(p, itab, a, NULL, NULL)
    BY <1>6, BalancedClose
  <2>2. itab[a].count # 0
    BY <2>1, <1>7, BalancedUsed
  <2> QED BY <1>2, <1>3, <1>7, <2>2, GrownEdited
<1>8. TabOK(p, new) /\ Balanced(p, new, NULL, NULL, fd[p])
  BY <1>2, <1>6, <1>7, TabNow, SlotEdited
<1>9. Rest
  BY <1>5, RestSame
<1> QED BY <1>5, <1>8, <1>9, WithBlock, GoOn

LEMMA sync_inodesKeeps ==
  ASSUME Inv, NEW p \in Proc, NEW s \in Slot, sync_inodes(p, s)
  PROVE  Inv'
<1>1. pr[p].pc = "user" /\ pr[p].puts = <<>> /\ Only(pr[p], {})
  BY Now DEF sync_inodes, At, Keeps
<1>2. PICK x, new : x = [User EXCEPT !.pc = "write", !.w = s] /\ new = SetLock(itab, s, TRUE)
  OBVIOUS
<1>3. Go(p, new, x) /\ UNCHANGED <<imap, fd, tainted>>
  BY <1>2, Zenon DEF sync_inodes, SetLock
<1>4. SameLocals(User, x) /\ IsRecord(x) /\ x.puts = <<>> /\ x.pc = "write" /\ x.then = "user"
  BY <1>2, UserOK, FieldsAre DEF SameLocals, IsRecord
<1>5. x.dir = NULL /\ x.ino = NULL /\ x.old = NULL /\ x.e = NULL /\ Pair(x, NULL, NULL) /\ ~Opening(x)
  BY <1>4, UserOK, UserCloses DEF SameLocals, Pair, Opening
<1>6. Keeps("user", x)
  BY <1>5, OnlyParts DEF Keeps
<1>7. x.puts \in Seq(Slot) /\ Len(x.puts) <= 2
  BY <1>4, EmptyPuts
<1>8. RecordOK(x)
  BY <1>4, <1>5, <1>6, <1>7 DEF RecordOK, IsRecord, SlotOrNULL
<1>9. Holds(x, NULL, NULL)
  BY <1>4, <1>5, <1>8, HoldsPair
<1>10. TableOK(itab) /\ (tainted \/ itab[s].count # 0)
  BY DEF Inv, FreeClean, sync_inodes
<1>11. PICK dirt, d : dirt = itab[s].dirt /\ d = itab[s].d
  OBVIOUS
<1>12. dirt \in BOOLEAN /\ new = Changed(itab, s, dirt, TRUE, d)
  BY <1>2, <1>10, <1>11, Forms
<1>13. TabOK(p, new) /\ Balanced(p, new, NULL, NULL, fd[p])
  <2>1. PICK lock \in BOOLEAN : lock = TRUE
    OBVIOUS
  <2>2. new = Changed(itab, s, dirt, lock, d) /\ (tainted \/ itab[s].count # 0)
    BY <1>10, <1>12, <2>1, Zenon
  <2>3. TabOK(p, itab) /\ Balanced(p, itab, NULL, NULL, fd[p])
    BY <1>1, TabNow, HasNothing
  <2> QED BY <1>12, <2>2, <2>3, Touch
<1>14. Rest
  BY <1>3, RestSame
<1> QED BY <1>3, <1>4, <1>5, <1>9, <1>13, <1>14, GoOn

LEMMA empty_dirKeeps ==
  ASSUME Inv, NEW p \in Proc, empty_dir(p)
  PROVE  Inv'
<1>1. PICK r, a, b, g : r = pr[p] /\ a = pr[p].dir /\ b = pr[p].ino /\ g = fd[p]
  OBVIOUS
<1>2. r.pc = "edir" /\ r.puts = <<>> /\ Only(r, {"dir", "ino"}) /\ IsRecord(r) /\ Keeps("edir", r)
  BY <1>1, Now DEF empty_dir, At, Keeps
<1>3. /\ a \in Slot /\ b \in Slot /\ Holds(r, a, b) /\ itab[a].count # 0 /\ itab[b].count # 0
      /\ Balanced(p, itab, a, b, g) /\ Balanced(p, itab, b, a, g)
  BY <1>1, <1>2, HasDirIno
<1>4. PICK x : x = [r EXCEPT !.i = @ + 1]
  OBVIOUS
<1>5. /\ UNCHANGED <<imap, fd>>
      /\ \/ Go(p, itab, Leave(<<b, a>>)) /\ UNCHANGED tainted
         \/ Go(p, itab, x) /\ UNCHANGED tainted
         \/ /\ Go(p, [itab EXCEPT ![b].d.nlinks = 0, ![b].dirt = TRUE, ![a].d.nlinks = @ - 1, ![a].dirt = TRUE],
                  Leave(<<a, b>>))
            /\ \E c : tainted' = (tainted \/ c)
  BY <1>1, <1>4, Zenon DEF empty_dir
<1>6. Rest
  BY <1>5, RestSame
<1>7. Leaves(Leave(<<a, b>>), a, b) /\ Leaves(Leave(<<b, a>>), b, a)
  BY <1>3, LeaveTwo
<1>8. CASE Go(p, itab, Leave(<<b, a>>))
  BY <1>1, <1>3, <1>5, <1>6, <1>7, <1>8, TabNow, LeaveStep
<1>9. CASE Go(p, itab, x)
  <2>1. SameLocals(r, x) /\ IsRecord(x) /\ x.puts = <<>> /\ x.pc = "edir" /\ x.then = r.then
    BY <1>2, <1>4, FieldsAre DEF SameLocals, IsRecord
  <2> QED BY <1>1, <1>2, <1>3, <1>5, <1>6, <1>9, <2>1, TabNow, MoveOn
<1>10. CASE Go(p, [itab EXCEPT ![b].d.nlinks = 0, ![b].dirt = TRUE, ![a].d.nlinks = @ - 1, ![a].dirt = TRUE],
               Leave(<<a, b>>))
  <2>1. PICK v : [itab EXCEPT ![b].d.nlinks = 0, ![b].dirt = TRUE, ![a].d.nlinks = @ - 1, ![a].dirt = TRUE] =
                 [itab EXCEPT ![b].d.nlinks = 0, ![b].dirt = TRUE, ![a].d.nlinks = v, ![a].dirt = TRUE]
    BY Zenon
  <2>2. PICK d1, n1, n2, d2, n3, n4 :
          /\ d1 = [itab[b].d EXCEPT !.nlinks = 0] /\ n1 = SetD(itab, b, d1) /\ n2 = SetDirt(n1, b, TRUE)
          /\ d2 = [n2[a].d EXCEPT !.nlinks = v] /\ n3 = SetD(n2, a, d2) /\ n4 = SetDirt(n3, a, TRUE)
    OBVIOUS
  <2>3. itab = [t \in Slot |-> itab[t]] /\ itab[b] = [f \in InodeFields |-> itab[b][f]]
    BY <1>3 DEF Inv, TableOK
  <2>4. TabOK(p, n1) /\ Balanced(p, n1, a, b, g) /\ n1[b].count # 0
    BY <1>3, <2>2, TabNow, TouchField
  <2>5. TabOK(p, n2) /\ Balanced(p, n2, a, b, g)
    BY <1>3, <2>2, <2>4, TouchField
  <2>6. n2[a].count # 0
    BY <1>3, <2>5, BalancedUsed
  <2>7. TabOK(p, n3) /\ Balanced(p, n3, a, b, g) /\ n3[a].count # 0
    <3>1. n3 = SetD(n2, a, d2)
      BY <2>2, Zenon
    <3> QED BY <1>3, <3>1, <2>5, <2>6, TouchField
  <2>8. TabOK(p, n4) /\ Balanced(p, n4, a, b, g)
    BY <1>3, <2>2, <2>7, TouchField
  <2>9. n2 = [itab EXCEPT ![b].d.nlinks = 0, ![b].dirt = TRUE]
    <3>1. [itab EXCEPT ![b].d.nlinks = 0] = n1
      BY <1>3, <2>2, <2>3 DEF InodeFields, SetD
    <3> QED BY <2>2, <3>1, Zenon DEF SetDirt
  <2>10. n2 = [t \in Slot |-> n2[t]] /\ n2[a] = [f \in InodeFields |-> n2[a][f]]
    BY <1>3, <2>5 DEF TabOK, TableOK
  <2>11. [itab EXCEPT ![b].d.nlinks = 0, ![b].dirt = TRUE, ![a].d.nlinks = v, ![a].dirt = TRUE] = n4
    <3>1. [n2 EXCEPT ![a].d.nlinks = v] = n3
      BY <1>3, <2>2, <2>10 DEF InodeFields, SetD
    <3>2. [itab EXCEPT ![b].d.nlinks = 0, ![b].dirt = TRUE, ![a].d.nlinks = v] = n3
      BY <2>9, <3>1, Zenon
    <3> QED BY <2>2, <3>2, Zenon DEF SetDirt
  <2>12. Go(p, n4, Leave(<<a, b>>))
    BY <1>10, <2>1, <2>11, Zenon
  <2> QED BY <1>1, <1>5, <1>6, <1>7, <2>8, <2>12, LeaveStep
<1> QED BY <1>5, <1>8, <1>9, <1>10

\* A process in add_entry has the directory, and what it adds.
LEMMA Adding ==
  ASSUME Inv, NEW p \in Proc, pr[p].pc = "add"
  PROVE  /\ pr[p].puts = <<>> /\ Keeps("add", pr[p]) /\ pr[p].op \in {"creat", "mkdir", "link"}
         /\ pr[p].dir \in Slot /\ itab[pr[p].dir].count # 0
         /\ pr[p].op = "link" => /\ pr[p].old \in Slot /\ pr[p].ino = NULL /\ Holds(pr[p], pr[p].dir, pr[p].old)
                                 /\ Balanced(p, itab, pr[p].dir, pr[p].old, fd[p])
         /\ pr[p].op # "link" => /\ pr[p].ino \in Slot /\ pr[p].old = NULL /\ Holds(pr[p], pr[p].dir, pr[p].ino)
                                 /\ Balanced(p, itab, pr[p].dir, pr[p].ino, fd[p])
                                 /\ Balanced(p, itab, pr[p].ino, pr[p].dir, fd[p])
                                 /\ itab[pr[p].ino].count # 0
<1>1. pr[p].puts = <<>> /\ Keeps("add", pr[p])
  BY Now
<1>2. pr[p].op \in {"creat", "mkdir", "link"} /\ Only(pr[p], {"dir", IF pr[p].op = "link" THEN "old" ELSE "ino"})
  BY <1>1 DEF Keeps
<1>3. CASE pr[p].op = "link"
  <2>1. pr[p].dir # NULL /\ pr[p].ino = NULL /\ pr[p].e = NULL /\ pr[p].old # NULL
    BY <1>2, <1>3, OnlyParts
  <2>2. pr[p].old \in Slot
    BY <2>1, Now
  <2> QED BY <1>1, <1>2, <1>3, <2>1, <2>2, HasDirOld
<1>4. CASE pr[p].op # "link"
  <2>1. Only(pr[p], {"dir", "ino"})
    BY <1>2, <1>4
  <2>2. pr[p].old = NULL
    BY <2>1, OnlyParts
  <2> QED BY <1>1, <1>2, <1>4, <2>1, <2>2, HasDirIno
<1> QED BY <1>3, <1>4

\* The record with which a process puts dir after add_entry.
AddRecord(i, o) == [User EXCEPT !.ino = i, !.old = o]

LEMMA AddedRecord ==
  ASSUME NEW i \in SlotOrNULL, NEW o \in SlotOrNULL, NEW x, x = AddRecord(i, o)
  PROVE  /\ IsRecord(x) /\ x.ino = i /\ x.old = o /\ x.dir = NULL /\ x.e = NULL /\ x.op = "none"
         /\ i # NULL /\ o = NULL => Keeps("opened", x) /\ Keeps("mkfail", x) /\ Pair(x, i, NULL)
         /\ i = NULL /\ o # NULL => Keeps("linked", x) /\ Pair(x, NULL, o)
<1>1. IsRecord(x) /\ x.ino = i /\ x.old = o /\ x.dir = NULL /\ x.e = NULL /\ x.op = "none"
  BY FieldsAre DEF IsRecord, User, AddRecord
<1>2. i # NULL /\ o = NULL => Only(x, {"ino"}) /\ Pair(x, i, NULL)
  BY <1>1, OnlyParts DEF Pair
<1>3. i = NULL /\ o # NULL => Only(x, {"old"}) /\ Pair(x, NULL, o)
  BY <1>1, OnlyParts DEF Pair
<1> QED BY <1>1, <1>2, <1>3 DEF Keeps

LEMMA NotAddedHolds ==
  ASSUME Inv, NEW p \in Proc, pr[p].pc = "add", NotAdded(p), UNCHANGED <<imap, fd>>
  PROVE  Inv'
<1>1. PICK r, a, b, o, g : r = pr[p] /\ a = pr[p].dir /\ b = pr[p].ino /\ o = pr[p].old /\ g = fd[p]
  OBVIOUS
<1>2. /\ r.op \in {"creat", "mkdir", "link"} /\ a \in Slot
      /\ r.op = "link" => o \in Slot /\ Balanced(p, itab, a, o, g)
      /\ r.op # "link" => /\ b \in Slot /\ itab[b].count # 0
                          /\ Balanced(p, itab, a, b, g) /\ Balanced(p, itab, b, a, g)
  BY <1>1, Adding
<1>3. PICK x : x = [User EXCEPT !.ino = b]
  OBVIOUS
<1>4. /\ UNCHANGED tainted
      /\ \/ r.op = "link" /\ Go(p, itab, Leave(<<a, o>>))
         \/ r.op = "mkdir" /\ Go(p, itab, PutThen(x, a, "mkfail"))
         \/ r.op \notin {"link", "mkdir"} /\ Go(p, [itab EXCEPT ![b].d.nlinks = @ - 1], Leave(<<b, a>>))
  BY <1>1, <1>3, Zenon DEF NotAdded
<1>5. Rest
  BY <1>4, RestSame
<1>6. CASE r.op = "link" /\ Go(p, itab, Leave(<<a, o>>))
  <2>1. Leaves(Leave(<<a, o>>), a, o)
    BY <1>2, <1>6, LeaveTwo
  <2> QED BY <1>1, <1>2, <1>5, <1>6, <2>1, TabNow, LeaveStep
<1>7. CASE r.op = "mkdir" /\ Go(p, itab, PutThen(x, a, "mkfail"))
  <2>0. PICK n : n = NULL
    OBVIOUS
  <2>1. x = AddRecord(b, n) /\ b \in SlotOrNULL /\ n \in SlotOrNULL /\ b # NULL
    <3>1. x = AddRecord(b, n)
      <4>1. PICK y : y = AddRecord(b, n)
        OBVIOUS
      <4>2. User = [f \in ProcFields |-> User[f]] /\ User.old = n
        BY <2>0, UserOK DEF IsRecord
      <4>3. IsRecord(x) /\ x.ino = b /\ \A f \in ProcFields : f # "ino" => x[f] = User[f]
        BY <1>3, <4>2, FieldsAre DEF IsRecord
      <4>4. IsRecord(y) /\ y.ino = b /\ y.old = n /\ \A f \in ProcFields : f \notin {"ino", "old"} => y[f] = User[f]
        BY <4>1, <4>2, FieldsAre DEF IsRecord, AddRecord
      <4>5. \A f \in ProcFields : x[f] = y[f]
        BY <4>2, <4>3, <4>4
      <4>6. x = y
        BY <4>3, <4>4, <4>5 DEF IsRecord
      <4> QED BY <4>1, <4>6
    <3> QED BY <1>2, <1>7, <2>0, <3>1, NotSlot DEF SlotOrNULL
  <2>2. IsRecord(x) /\ Keeps("mkfail", x) /\ Pair(x, b, NULL) /\ x.op = "none"
    BY <2>0, <2>1, AddedRecord
  <2>3. PICK y : y = PutThen(x, a, "mkfail")
    OBVIOUS
  <2>4. Holds(y, a, b) /\ y.pc = "iput" /\ ~Opening(y)
    BY <1>2, <2>1, <2>2, <2>3, PutThenHolds
  <2>5. Leaves(y, a, b) /\ Go(p, itab, y)
    BY <1>7, <2>3, <2>4 DEF Leaves
  <2> QED BY <1>1, <1>2, <1>5, <1>7, <2>5, TabNow, LeaveStep
<1>8. CASE r.op \notin {"link", "mkdir"} /\ Go(p, [itab EXCEPT ![b].d.nlinks = @ - 1], Leave(<<b, a>>))
  <2>1. PICK d, n1 : d = [itab[b].d EXCEPT !.nlinks = @ - 1] /\ n1 = SetD(itab, b, d)
    OBVIOUS
  <2>2. b \in Slot /\ itab = [t \in Slot |-> itab[t]] /\ itab[b] = [f \in InodeFields |-> itab[b][f]]
    BY <1>2, <1>8 DEF Inv, TableOK
  <2>3. [itab EXCEPT ![b].d.nlinks = @ - 1] = n1
    BY <2>1, <2>2 DEF InodeFields, SetD
  <2>4. n1 = SetD(itab, b, d) /\ Go(p, n1, Leave(<<b, a>>))
    BY <1>8, <2>1, <2>3, Zenon
  <2>5. Balanced(p, itab, b, a, g) /\ itab[b].count # 0
    BY <1>2, <1>8
  <2>6. TabOK(p, n1) /\ Balanced(p, n1, b, a, g)
    BY <2>2, <2>4, <2>5, TabNow, TouchField
  <2>7. Leaves(Leave(<<b, a>>), b, a)
    BY <1>2, <2>2, LeaveTwo
  <2> QED BY <1>1, <1>5, <2>4, <2>6, <2>7, LeaveStep
<1> QED BY <1>4, <1>6, <1>7, <1>8

LEMMA AddedKeeps ==
  ASSUME Inv, NEW p \in Proc, pr[p].pc = "add", NEW tab, Touched(itab, tab), NEW b, Added(p, tab, b),
         UNCHANGED <<imap, fd>>
  PROVE  Inv'
<1>1. PICK r, a, i, o, g : r = pr[p] /\ a = pr[p].dir /\ i = pr[p].ino /\ o = pr[p].old /\ g = fd[p]
  OBVIOUS
<1>2. /\ r.op \in {"creat", "mkdir", "link"} /\ a \in Slot
      /\ r.op = "link" => o \in Slot /\ i = NULL /\ Balanced(p, itab, a, o, g)
      /\ r.op # "link" => i \in Slot /\ o = NULL /\ Balanced(p, itab, a, i, g)
  BY <1>1, Adding
<1>3. PICK x, pc : x = AddRecord(i, o) /\ pc = IF r.op = "link" THEN "linked" ELSE "opened"
  OBVIOUS
<1>4. /\ \E c : tainted' = (tainted \/ c)
      /\ \/ /\ r.op = "mkdir"
            /\ Go(p, [tab EXCEPT ![a].d.nlinks = @ + 1, ![a].dirt = TRUE], Leave(<<a, i>>))
         \/ r.op # "mkdir" /\ Go(p, tab, PutThen(x, a, pc))
  BY <1>1, <1>3, Zenon DEF Added, AddRecord
<1>5. Rest
  BY <1>4, RestSame
<1>6. TabOK(p, tab) /\ (r.op = "link" => Balanced(p, tab, a, o, g)) /\ (r.op # "link" => Balanced(p, tab, a, i, g))
  BY <1>2, TabNow, BalancedTouched
<1>7. CASE r.op = "mkdir" /\ Go(p, [tab EXCEPT ![a].d.nlinks = @ + 1, ![a].dirt = TRUE], Leave(<<a, i>>))
  <2>1. PICK d, n1, n2 : d = [tab[a].d EXCEPT !.nlinks = @ + 1] /\ n1 = SetD(tab, a, d) /\ n2 = SetDirt(n1, a, TRUE)
    OBVIOUS
  <2>2. tab = [t \in Slot |-> tab[t]] /\ tab[a] = [f \in InodeFields |-> tab[a][f]]
    BY <1>2, <1>6 DEF TabOK, TableOK
  <2>3. [tab EXCEPT ![a].d.nlinks = @ + 1] = n1
    BY <1>2, <2>1, <2>2 DEF InodeFields, SetD
  <2>4. n1 = SetD(tab, a, d) /\ n2 = SetDirt(n1, a, TRUE) /\ Go(p, n2, Leave(<<a, i>>))
    <3>1. [tab EXCEPT ![a].d.nlinks = @ + 1, ![a].dirt = TRUE] = n2
      BY <2>1, <2>3, Zenon DEF SetDirt
    <3> QED BY <1>7, <2>1, <3>1, Zenon
  <2>5. i \in Slot /\ Balanced(p, tab, a, i, g)
    BY <1>2, <1>6, <1>7
  <2>6. tab[a].count # 0
    BY <1>2, <2>5, BalancedUsed
  <2>7. TabOK(p, n1) /\ Balanced(p, n1, a, i, g) /\ n1[a].count # 0
    BY <1>2, <1>6, <2>4, <2>5, <2>6, TouchField
  <2>8. TabOK(p, n2) /\ Balanced(p, n2, a, i, g)
    BY <1>2, <2>4, <2>7, TouchField
  <2>9. Leaves(Leave(<<a, i>>), a, i)
    BY <1>2, <2>5, LeaveTwo
  <2> QED BY <1>1, <1>5, <2>4, <2>8, <2>9, LeaveStep
<1>8. CASE r.op # "mkdir" /\ Go(p, tab, PutThen(x, a, pc))
  <2>0. i \in SlotOrNULL /\ o \in SlotOrNULL
    BY <1>2 DEF SlotOrNULL
  <2>1. IsRecord(x) /\ x.op = "none"
    BY <1>3, <2>0, AddedRecord
  <2>2. PICK y : y = PutThen(x, a, pc)
    OBVIOUS
  <2>3. CASE r.op = "link"
    <3>1. i = NULL /\ o # NULL /\ pc = "linked"
      BY <1>2, <1>3, <2>3, NotSlot
    <3>2. Keeps(pc, x) /\ Pair(x, NULL, o)
      BY <1>3, <2>0, <3>1, AddedRecord
    <3>3. Holds(y, a, o) /\ y.pc = "iput" /\ ~Opening(y)
      BY <1>2, <2>0, <2>1, <2>2, <3>1, <3>2, PutThenHolds
    <3>4. Leaves(y, a, o) /\ Go(p, tab, y)
      BY <1>8, <2>2, <3>3 DEF Leaves
    <3> QED BY <1>1, <1>5, <1>6, <2>3, <3>4, LeaveStep
  <2>4. CASE r.op = "creat"
    <3>1. o = NULL /\ i # NULL /\ pc = "opened"
      BY <1>2, <1>3, <2>4, NotSlot
    <3>2. Keeps(pc, x) /\ Pair(x, i, NULL)
      BY <1>3, <2>0, <3>1, AddedRecord
    <3>3. Holds(y, a, i) /\ y.pc = "iput"
      BY <1>2, <2>0, <2>1, <2>2, <3>1, <3>2, PutThenHolds
    <3>4. Opening(pr[p])
      BY <1>1, <2>4 DEF Opening
    <3>5. Go(p, tab, y) /\ Balanced(p, tab, a, i, fd[p])
      BY <1>1, <1>6, <1>8, <2>2, <2>4
    <3> QED BY <1>5, <1>6, <3>3, <3>4, <3>5, GoOn
  <2> QED BY <1>2, <1>8, <2>3, <2>4
<1> QED BY <1>4, <1>7, <1>8

LEMMA add_entryKeeps ==
  ASSUME Inv, NEW p \in Proc, add_entry(p)
  PROVE  Inv'
<1>1. PICK r, a, g : r = pr[p] /\ a = pr[p].dir /\ g = fd[p]
  OBVIOUS
<1>2. pr[p].pc = "add" /\ UNCHANGED <<imap, fd>>
  BY DEF add_entry, At
<1>3. /\ a \in Slot /\ itab[a].count # 0 /\ r.puts = <<>> /\ Keeps("add", r) /\ IsRecord(r)
      /\ \E b : Holds(r, a, b) /\ Balanced(p, itab, a, b, g)
  BY <1>1, <1>2, Adding, Now
<1>4. PICK b : Holds(r, a, b) /\ Balanced(p, itab, a, b, g)
  BY <1>3
<1>5. PICK x, y, v, new : /\ x = [r EXCEPT !.i = @ + 1] /\ y = [r EXCEPT !.pc = "addblk", !.blk = NewBlock]
                          /\ v = Grow(itab[a], r.i) /\ new = [itab EXCEPT ![a] = v]
  OBVIOUS
<1>6. TableOK(itab) /\ itab = [t \in Slot |-> itab[t]]
  BY DEF Inv, TableOK
<1>7. new = [itab EXCEPT ![a] = Grow(@, r.i)]
  BY <1>3, <1>5, <1>6
<1>8. \/ Go(p, itab, x) /\ UNCHANGED tainted
      \/ \E c : Added(p, new, c)
      \/ NotAdded(p)
      \/ Go(p, itab, y) /\ UNCHANGED tainted
  <2>1. \/ Go(p, itab, [r EXCEPT !.i = @ + 1]) /\ UNCHANGED tainted
        \/ \E c : Added(p, [itab EXCEPT ![a] = Grow(@, r.i)], c)
        \/ NotAdded(p)
        \/ Go(p, itab, [r EXCEPT !.pc = "addblk", !.blk = NewBlock]) /\ UNCHANGED tainted
    BY <1>1, Zenon DEF add_entry
  <2> QED BY <1>5, <1>7, <2>1, Zenon
<1>9. CASE Go(p, itab, x) /\ UNCHANGED tainted
  <2>1. SameLocals(r, x) /\ IsRecord(x) /\ x.puts = <<>> /\ x.pc = "add" /\ x.then = r.then
    BY <1>1, <1>2, <1>3, <1>5, FieldsAre DEF SameLocals, IsRecord
  <2>2. Rest
    BY <1>2, <1>9, RestSame
  <2> QED BY <1>1, <1>2, <1>3, <1>4, <1>9, <2>1, <2>2, TabNow, MoveOn
<1>10. CASE Go(p, itab, y) /\ UNCHANGED tainted
  <2>1. SameLocals(r, y) /\ IsRecord(y) /\ y.puts = <<>> /\ y.pc = "addblk" /\ y.then = r.then
    BY <1>3, <1>5, FieldsAre DEF SameLocals, IsRecord
  <2>2. Rest
    BY <1>2, <1>10, RestSame
  <2>3. Keeps("addblk", r)
    BY <1>3 DEF Keeps
  <2> QED BY <1>1, <1>2, <1>3, <1>4, <1>10, <2>1, <2>2, <2>3, TabNow, MoveOn
<1>11. CASE \E c : Added(p, new, c)
  <2>1. Edited(itab[a], v)
    BY <1>3, <1>5, <1>6, GrownEdited
  <2>2. new = Replaced(itab, a, v)
    BY <1>5, <1>6 DEF Replaced
  <2>3. Touched(itab, new)
    BY <1>6, <2>1, <2>2, TouchOne
  <2> QED BY <1>2, <1>11, <2>3, AddedKeeps
<1> QED BY <1>2, <1>8, <1>9, <1>10, <1>11, NotAddedHolds

\* The next directory of a walk.
LEMMA EnterHolds ==
  ASSUME NEW tab, NEW r, IsRecord(r), r.puts = <<>>, r.ino = NULL, r.old \in SlotOrNULL, Walking(r),
         NEW s \in Slot, NEW path \in Seq(Name) \ {<<>>}
  PROVE  /\ Holds(Enter(tab, r, s, path), s, r.old) /\ Enter(tab, r, s, path).pc # "scan"
         /\ Opening(Enter(tab, r, s, path)) => Opening(r)
<1>1. PICK y, x, o : /\ y = Enter(tab, r, s, path) /\ o = r.old
                     /\ x = [r EXCEPT !.pc = "find", !.dir = s, !.path = path, !.i = 1, !.n = tab[s].d.size,
                                      !.inr = 0, !.goal = "none", !.e = NULL]
  OBVIOUS
<1>2. CASE y = Leave(<<s>> \o Opt(o))
  <2>1. Leaves(y, s, o)
    BY <1>1, <1>2, LeaveOpt
  <2> QED BY <1>1, <2>1 DEF Leaves
<1>3. CASE y = x
  <2>1. /\ IsRecord(x) /\ x.pc = "find" /\ x.dir = s /\ x.path = path /\ x.e = NULL /\ x.ino = NULL
        /\ x.old = o /\ x.op = r.op /\ x.puts = <<>> /\ x.then = r.then
    BY <1>1, FieldsAre DEF IsRecord
  <2>2. s # NULL /\ s \in SlotOrNULL /\ Walking(x)
    BY <1>1, <2>1, NotSlot DEF SlotOrNULL, Walking
  <2>3. Keeps(x.pc, x)
    BY <2>1, <2>2 DEF Keeps
  <2>4. Pair(x, s, o)
    BY <2>1 DEF Pair
  <2>5. Holds(x, s, o)
    BY <1>1, <2>1, <2>2, <2>3, <2>4, NewPair
  <2>6. Opening(x) => Opening(r)
    BY <2>1 DEF Opening
  <2> QED BY <1>1, <1>3, <2>1, <2>5, <2>6
<1>4. y = Leave(<<s>> \o Opt(o)) \/ y = x
  BY <1>1, Zenon DEF Enter
<1> QED BY <1>2, <1>3, <1>4

LEMMA SyscallKeeps ==
  ASSUME Inv, NEW p \in Proc, Syscall(p)
  PROVE  Inv'
<1>1. pr[p].pc = "user" /\ pr[p].puts = <<>> /\ Only(pr[p], {})
  BY Now DEF Syscall, At, Keeps
<1>2. PICK path \in Path : Go(p, Get(itab, Root), Enter(itab, User, Root, path))
  BY DEF Syscall
<1>3. PICK s, y, new, u : s = Root /\ u = User /\ y = Enter(itab, u, s, path) /\ new = Get(itab, s)
  OBVIOUS
<1>4. TabOK(p, new) /\ Balanced(p, new, s, NULL, fd[p])
  BY <1>1, <1>3, HasNothing, TabNow, BalancedRoot
<1>5. /\ s \in Slot /\ path \in Seq(Name) \ {<<>>} /\ IsRecord(u) /\ u.puts = <<>> /\ u.ino = NULL
      /\ u.old = NULL /\ NULL \in SlotOrNULL
  BY <1>3, RootSlot, FileSystemAssumption, UserOK DEF SlotOrNULL
<1>6. Walking(u) /\ ~Opening(u)
  BY <1>3, UserCloses DEF Walking, User
<1>7. Holds(y, s, NULL) /\ y.pc # "scan" /\ ~Opening(y)
  BY <1>3, <1>5, <1>6, EnterHolds
<1>8. Go(p, new, y) /\ UNCHANGED <<imap, fd, tainted>>
  BY <1>2, <1>3 DEF Syscall
<1>9. Rest
  BY <1>8, RestSame
<1> QED BY <1>4, <1>7, <1>8, <1>9, GoOn

\* p has asked for an inode, is given s, and has another reference to o.
Given(p, tab, s, o) ==
  /\ TabOK(p, tab) /\ Balanced(p, tab, s, o, fd[p]) /\ tab[s].count # 0
  /\ pr[p].puts = <<>> /\ pr[p].ino = NULL /\ IsRecord(pr[p]) /\ pr[p].goal = "iget" /\ Wants(pr[p])
  /\ o \in SlotOrNULL /\ o = IF pr[p].path = <<>> THEN pr[p].dir ELSE pr[p].old

LEMMA open_nameiKeeps ==
  ASSUME Inv, NEW p \in Proc, NEW tab, NEW s \in Slot, Given(p, tab, s, NULL), pr[p].op \in {"open", "creat"},
         open_namei(p, tab, s), UNCHANGED imap
  PROVE  Inv'
<1>1. TabOK(p, tab) /\ Balanced(p, tab, s, NULL, fd[p]) /\ tab[s].count # 0
  BY DEF Given
<1>2. Opening(pr[p]) /\ fd[p] = NULL
  BY FileNow DEF Opening
<1>3. PICK x, new, b : /\ x = [User EXCEPT !.pc = "otrunc", !.ino = s, !.blk = Head(tab[s].d.zone)]
                       /\ b = (tab[s].dirt \/ pr[p].op = "creat") /\ new = SetDirt(tab, s, b)
  OBVIOUS
<1>4. tab = [t \in Slot |-> tab[t]] /\ tab[s] = [f \in InodeFields |-> tab[s][f]] /\ b \in BOOLEAN
  BY <1>1, <1>3 DEF TabOK, TableOK
<1>5. [tab EXCEPT ![s].dirt = @ \/ pr[p].op = "creat"] = new
  BY <1>3, <1>4 DEF InodeFields, SetDirt
<1>6. \/ Go(p, tab, Leave(<<s>>)) /\ UNCHANGED <<fd, tainted>>
      \/ Opened(p, new, s)
      \/ Go(p, tab, x) /\ UNCHANGED fd /\ \E c : tainted' = (tainted \/ c)
  <2>1. \/ Go(p, tab, Leave(<<s>>)) /\ UNCHANGED <<fd, tainted>>
        \/ Opened(p, [tab EXCEPT ![s].dirt = @ \/ pr[p].op = "creat"], s)
        \/ /\ Go(p, tab, [User EXCEPT !.pc = "otrunc", !.ino = s, !.blk = Head(tab[s].d.zone)])
           /\ UNCHANGED fd /\ \E c : tainted' = (tainted \/ c)
    BY Zenon DEF open_namei
  <2> QED BY <1>3, <1>5, <2>1, Zenon
<1>7. CASE Go(p, tab, Leave(<<s>>)) /\ UNCHANGED <<fd, tainted>>
  <2>1. Leaves(Leave(<<s>>), s, NULL) /\ Rest
    BY <1>7, LeaveOne, RestSame
  <2> QED BY <1>1, <1>7, <2>1, LeaveStep
<1>8. CASE Opened(p, new, s)
  <2>1. fd' = [fd EXCEPT ![p] = s] /\ Go(p, new, User) /\ UNCHANGED tainted
    BY <1>8 DEF Opened
  <2>2. TabOK(p, new) /\ Balanced(p, new, s, NULL, fd[p])
    BY <1>1, <1>3, <1>4, TouchField
  <2>3. Balanced(p, new, NULL, NULL, s)
    BY <1>2, <2>2, BalancedOpen
  <2>4. User.pc # "scan" /\ s \in SlotOrNULL /\ Rest
    BY <2>1, UserOK, RestSame DEF SlotOrNULL
  <2> QED BY <2>1, <2>2, <2>3, <2>4, HoldsUser, UserCloses, Continue
<1>9. CASE Go(p, tab, x) /\ UNCHANGED fd /\ \E c : tainted' = (tainted \/ c)
  <2>1. IsRecord(x) /\ x.pc = "otrunc" /\ x.puts = <<>> /\ x.ino = s /\ x.dir = NULL /\ x.old = NULL /\ x.e = NULL
    BY <1>3, FieldsAre DEF IsRecord, User
  <2>2. s # NULL /\ s \in SlotOrNULL /\ NULL \in SlotOrNULL /\ Pair(x, s, NULL)
    BY <2>1, NotSlot DEF SlotOrNULL, Pair
  <2>3. Keeps(x.pc, x)
    BY <2>1, <2>2, OnlyParts DEF Keeps
  <2>4. Holds(x, s, NULL) /\ x.pc # "scan" /\ Rest
    BY <1>9, <2>1, <2>2, <2>3, NewPair, RestSame
  <2> QED BY <1>1, <1>2, <1>9, <2>4, GoOn
<1> QED BY <1>6, <1>7, <1>8, <1>9

LEMMA sys_linkKeeps ==
  ASSUME Inv, NEW p \in Proc, NEW tab, NEW s \in Slot, Given(p, tab, s, NULL), sys_link(p, tab, s), UNCHANGED imap
  PROVE  Inv'
<1>1. TabOK(p, tab) /\ Balanced(p, tab, s, NULL, fd[p]) /\ tab[s].count # 0
  BY DEF Given
<1>2. PICK new, u, t, n2 : /\ new = SetDirt(tab, s, TRUE) /\ u = [User EXCEPT !.op = "link", !.old = s]
                           /\ t = Root /\ n2 = Get(new, t)
  OBVIOUS
<1>3. /\ UNCHANGED <<fd, tainted>>
      /\ Go(p, new, Leave(<<s>>)) \/ \E path \in Path : Go(p, n2, Enter(tab, u, t, path))
  BY <1>2, Zenon DEF sys_link, SetDirt
<1>4. TabOK(p, new) /\ Balanced(p, new, s, NULL, fd[p])
  BY <1>1, <1>2, TouchField
<1>5. Rest
  BY <1>3, RestSame
<1>6. CASE Go(p, new, Leave(<<s>>))
  <2>1. Leaves(Leave(<<s>>), s, NULL)
    BY LeaveOne
  <2> QED BY <1>3, <1>4, <1>5, <1>6, <2>1, LeaveStep
<1>7. ASSUME NEW path \in Path, Go(p, n2, Enter(tab, u, t, path)) PROVE Inv'
  <2>1. PICK y : y = Enter(tab, u, t, path)
    OBVIOUS
  <2>2. Balanced(p, new, NULL, s, fd[p])
    BY <1>4, BalancedSwap
  <2>3. TabOK(p, n2) /\ Balanced(p, n2, t, s, fd[p])
    BY <1>2, <1>4, <2>2, BalancedRoot
  <2>4. /\ IsRecord(u) /\ u.puts = <<>> /\ u.ino = NULL /\ u.old = s /\ u.op = "link"
        /\ u.pc = "user" /\ u.then = "user"
    BY <1>2, FieldsAre DEF IsRecord, User
  <2>5. s \in SlotOrNULL /\ Walking(u) /\ t \in Slot /\ path \in Seq(Name) \ {<<>>} /\ ~Opening(u)
    BY <1>2, <2>4, NotSlot, RootSlot, FileSystemAssumption DEF Walking, SlotOrNULL, Opening
  <2>6. Holds(y, t, s) /\ y.pc # "scan" /\ ~Opening(y)
    BY <2>1, <2>4, <2>5, EnterHolds
  <2>7. Go(p, n2, y)
    BY <1>7, <2>1
  <2> QED BY <1>3, <1>5, <2>3, <2>6, <2>7, GoOn
<1> QED BY <1>3, <1>6, <1>7

LEMMA sys_unlinkKeeps ==
  ASSUME Inv, NEW p \in Proc, NEW tab, NEW s \in Slot, NEW a \in Slot, a = pr[p].dir, Given(p, tab, s, a),
         sys_unlink(p, tab, s), UNCHANGED imap
  PROVE  Inv'
<1>1. TabOK(p, tab) /\ Balanced(p, tab, s, a, fd[p]) /\ tab[s].count # 0
  BY DEF Given
<1>2. PICK d, n1, n2 : d = LinkGone(tab[s].d) /\ n1 = SetD(tab, s, d) /\ n2 = SetDirt(n1, s, TRUE)
  OBVIOUS
<1>3. tab = [t \in Slot |-> tab[t]] /\ tab[s] = [f \in InodeFields |-> tab[s][f]]
  BY <1>1 DEF TabOK, TableOK
<1>4. [tab EXCEPT ![s].d = LinkGone(@)] = n1
  BY <1>2, <1>3 DEF InodeFields, SetD
<1>5. [tab EXCEPT ![s].d = LinkGone(@), ![s].dirt = TRUE] = n2
  BY <1>2, <1>4, Zenon DEF SetDirt
<1>6. /\ UNCHANGED fd
      /\ \/ Go(p, tab, Leave(<<s, a>>)) /\ UNCHANGED tainted
         \/ Go(p, n2, Leave(<<s, a>>)) /\ \E c : tainted' = (tainted \/ c)
  <2>1. /\ UNCHANGED fd
        /\ \/ Go(p, tab, Leave(<<s, a>>)) /\ UNCHANGED tainted
           \/ /\ Go(p, [tab EXCEPT ![s].d = LinkGone(@), ![s].dirt = TRUE], Leave(<<s, a>>))
              /\ \E c : tainted' = (tainted \/ c)
    BY Zenon DEF sys_unlink
  <2> QED BY <1>5, <2>1, Zenon
<1>7. TabOK(p, n1) /\ Balanced(p, n1, s, a, fd[p]) /\ n1[s].count # 0
  BY <1>1, <1>2, TouchField
<1>8. TabOK(p, n2) /\ Balanced(p, n2, s, a, fd[p])
  BY <1>2, <1>7, TouchField
<1>9. Leaves(Leave(<<s, a>>), s, a) /\ Rest
  BY <1>6, LeaveTwo, RestSame
<1> QED BY <1>1, <1>6, <1>8, <1>9, LeaveStep

LEMMA sys_rmdirKeeps ==
  ASSUME Inv, NEW p \in Proc, NEW tab, NEW s \in Slot, NEW a \in Slot, a = pr[p].dir, Given(p, tab, s, a),
         pr[p].old = NULL, sys_rmdir(p, tab, s), UNCHANGED imap
  PROVE  Inv'
<1>1. /\ TabOK(p, tab) /\ Balanced(p, tab, s, a, fd[p]) /\ IsRecord(pr[p]) /\ pr[p].puts = <<>>
  BY DEF Given
<1>2. PICK r, x : /\ r = pr[p]
                  /\ x = [r EXCEPT !.pc = "edir", !.ino = s, !.i = 1, !.n = tab[s].d.size,
                                   !.inr = 0, !.goal = "none", !.e = NULL]
  OBVIOUS
<1>3. /\ UNCHANGED <<fd, tainted>>
      /\ Go(p, tab, Leave(<<a, s>>)) \/ Go(p, tab, Leave(<<s, a>>)) \/ Go(p, tab, x)
  BY <1>2, Zenon DEF sys_rmdir
<1>4. Balanced(p, tab, a, s, fd[p]) /\ Rest
  BY <1>1, <1>3, BalancedSwap, RestSame
<1>5. Leaves(Leave(<<s, a>>), s, a) /\ Leaves(Leave(<<a, s>>), a, s)
  BY LeaveTwo
<1>6. CASE Go(p, tab, Leave(<<a, s>>)) \/ Go(p, tab, Leave(<<s, a>>))
  BY <1>1, <1>3, <1>4, <1>5, <1>6, LeaveStep
<1>7. CASE Go(p, tab, x)
  <2>1. /\ IsRecord(x) /\ x.pc = "edir" /\ x.puts = <<>> /\ x.ino = s /\ x.dir = a /\ x.old = NULL /\ x.e = NULL
        /\ x.op = r.op /\ x.then = r.then
    BY <1>1, <1>2, FieldsAre DEF IsRecord
  <2>2. s # NULL /\ a # NULL /\ s \in SlotOrNULL /\ a \in SlotOrNULL /\ Pair(x, a, s)
    BY <2>1, NotSlot DEF SlotOrNULL, Pair
  <2>3. Keeps(x.pc, x)
    BY <2>1, <2>2, OnlyParts DEF Keeps
  <2>4. Holds(x, a, s) /\ x.pc # "scan" /\ (Opening(x) => Opening(pr[p]))
    BY <1>2, <2>1, <2>2, <2>3, NewPair DEF Opening
  <2> QED BY <1>1, <1>3, <1>4, <1>7, <2>4, GoOn
<1> QED BY <1>3, <1>6, <1>7

LEMMA GotKeeps ==
  ASSUME Inv, NEW p \in Proc, NEW tab, NEW s \in Slot, NEW o, Given(p, tab, s, o), Got(p, tab, s), UNCHANGED imap
  PROVE  Inv'
<1>1. PICK r : r = pr[p]
  OBVIOUS
<1>2. /\ TabOK(p, tab) /\ Balanced(p, tab, s, o, fd[p]) /\ o \in SlotOrNULL
      /\ r.puts = <<>> /\ r.ino = NULL /\ IsRecord(r) /\ r.goal = "iget" /\ Wants(r)
      /\ o = IF r.path = <<>> THEN r.dir ELSE r.old
  BY <1>1 DEF Given
<1>3. CASE r.path # <<>> /\ Go(p, tab, Enter(tab, r, s, r.path)) /\ UNCHANGED <<fd, tainted>>
  <2>1. r.path \in Seq(Name) \ {<<>>} /\ Walking(r) /\ o = r.old
    BY <1>2, <1>3 DEF Wants
  <2>2. PICK path, y : path = r.path /\ y = Enter(tab, r, s, path)
    OBVIOUS
  <2>3. Holds(y, s, o) /\ y.pc # "scan" /\ (Opening(y) => Opening(r))
    BY <1>2, <2>1, <2>2, EnterHolds
  <2>4. Go(p, tab, y) /\ Rest
    BY <1>3, <2>2, RestSame
  <2> QED BY <1>1, <1>2, <1>3, <2>3, <2>4, GoOn
<1>4. CASE r.path = <<>>
  <2>1. r.old = NULL /\ o = r.dir /\ (r.dir # NULL <=> r.op \in {"unlink", "rmdir"})
    BY <1>2, <1>4 DEF Wants
  <2>2. CASE r.op \in {"open", "creat"} /\ open_namei(p, tab, s)
    <3>1. o = NULL
      BY <2>1, <2>2
    <3> QED BY <1>1, <2>2, <3>1, open_nameiKeeps
  <2>3. CASE r.op = "link" /\ sys_link(p, tab, s)
    <3>1. o = NULL
      BY <2>1, <2>3
    <3> QED BY <1>1, <2>3, <3>1, sys_linkKeeps
  <2>4. CASE r.op = "unlink" /\ sys_unlink(p, tab, s)
    <3>1. o \in Slot
      BY <1>2, <2>1, <2>4 DEF SlotOrNULL
    <3> QED BY <1>1, <2>1, <2>4, <3>1, sys_unlinkKeeps
  <2>5. CASE r.op = "rmdir" /\ sys_rmdir(p, tab, s)
    <3>1. o \in Slot
      BY <1>2, <2>1, <2>5 DEF SlotOrNULL
    <3> QED BY <1>1, <2>1, <2>5, <3>1, sys_rmdirKeeps
  <2> QED BY <1>1, <1>4, <2>2, <2>3, <2>4, <2>5 DEF Got
<1> QED BY <1>1, <1>3, <1>4, Zenon DEF Got

\* The other reference of a process in iget.
Beside(r) == IF r.path = <<>> THEN r.dir ELSE r.old

LEMMA BesideOK ==
  ASSUME NEW r, RecordOK(r), Wants(r), r.goal = "iget", r.ino = NULL, NEW e, r.e = e
  PROVE  Beside(r) \in SlotOrNULL /\ Pair(r, e, Beside(r)) /\ r.inr # 0
<1>1. r.dir \in SlotOrNULL /\ r.old \in SlotOrNULL
  BY DEF RecordOK
<1>2. r.inr # 0 /\ (r.path = <<>> => r.old = NULL) /\ (r.path # <<>> => r.dir = NULL)
  BY DEF Wants
<1> QED BY <1>1, <1>2 DEF Beside, Pair

LEMMA Reading ==
  ASSUME Inv, NEW p \in Proc, pr[p].pc \in {"scan", "read"}
  PROVE  /\ pr[p].e \in Slot /\ Balanced(p, itab, pr[p].e, Beside(pr[p]), fd[p]) /\ Beside(pr[p]) \in SlotOrNULL
         /\ pr[p].puts = <<>> /\ pr[p].ino = NULL /\ IsRecord(pr[p]) /\ pr[p].goal = "iget" /\ Wants(pr[p])
         /\ pr[p].inr # 0
<1>1. PICK r, e, o : r = pr[p] /\ e = pr[p].e /\ o = Beside(pr[p])
  OBVIOUS
<1>2. /\ RecordOK(r) /\ IsRecord(r) /\ r.puts = <<>> /\ Wants(r) /\ r.goal = "iget" /\ r.ino = NULL /\ r.e # NULL
  BY <1>1, Now DEF Keeps
<1>3. e \in Slot
  BY <1>1, <1>2, Now
<1>4. o \in SlotOrNULL /\ Pair(r, e, o) /\ r.inr # 0
  BY <1>1, <1>2, BesideOK
<1>5. Holds(r, e, o)
  BY <1>2, <1>4, HoldsPair
<1>6. Balanced(p, itab, e, o, fd[p])
  BY <1>1, <1>5, BalancedNow
<1> QED BY <1>1, <1>2, <1>3, <1>4, <1>6

LEMMA read_inodeKeeps ==
  ASSUME Inv, NEW p \in Proc, read_inode(p)
  PROVE  Inv'
<1>1. PICK r, e, o, d, n1, n2 : /\ r = pr[p] /\ e = pr[p].e /\ o = Beside(pr[p]) /\ d = disk[r.inr]
                                /\ n1 = SetLock(itab, e, FALSE) /\ n2 = SetD(n1, e, d)
  OBVIOUS
<1>2. pr[p].pc = "read"
  BY DEF read_inode, At
<1>3. /\ e \in Slot /\ Balanced(p, itab, e, o, fd[p]) /\ o \in SlotOrNULL
      /\ pr[p].puts = <<>> /\ pr[p].ino = NULL /\ IsRecord(pr[p]) /\ pr[p].goal = "iget" /\ Wants(pr[p])
  BY <1>1, <1>2, Reading
<1>4. Got(p, n2, e) /\ UNCHANGED imap
  BY <1>1, Zenon DEF read_inode, SetLock, SetD
<1>5. itab[e].count # 0
  BY <1>3, BalancedUsed
<1>6. TabOK(p, n1) /\ Balanced(p, n1, e, o, fd[p])
  BY <1>1, <1>3, <1>5, TabNow, TouchField
<1>7. n1[e].count # 0
  BY <1>3, <1>6, BalancedUsed
<1>8. TabOK(p, n2) /\ Balanced(p, n2, e, o, fd[p])
  <2>1. n2 = SetD(n1, e, d)
    BY <1>1, Zenon
  <2> QED BY <1>3, <1>6, <1>7, <2>1, TouchField
<1>9. n2[e].count # 0
  BY <1>3, <1>8, BalancedUsed
<1>10. Given(p, n2, e, o)
  BY <1>1, <1>3, <1>8, <1>9 DEF Given, Beside
<1> QED BY <1>3, <1>4, <1>10, GotKeeps

LEMMA OwnTaken ==
  ASSUME NEW r, NEW s, r.e = s, NEW g
  PROVE  Own(r, g, s) \in Nat /\ One(g = s) \in Nat /\ Own(r, g, s) >= 1 + One(g = s)
<1>1. One(r.dir = s) \in Nat /\ One(r.ino = s) \in Nat /\ One(r.old = s) \in Nat /\ One(r.e = s) = 1 /\ One(g = s) \in Nat
  BY DEF One
<1>2. PutsOf(r, s) \in Nat
  BY OwnNat
<1> QED BY <1>1, <1>2 DEF Own, Fields4

\* A slot of which two processes wait in iget counts both.
LEMMA TwoUsers ==
  ASSUME Inv, NEW p \in Proc, NEW q \in Proc \ {p}, NEW s \in Slot, pr[p].e = s, pr[q].e = s
  PROVE  itab[s].count > 1
<1>1. PICK prs : prs = [pr EXCEPT ![p] = User]
  OBVIOUS
<1>2. prs[p] = User /\ prs[q] = pr[q] /\ OthersSame(p, pr, fd, prs, fd) /\ OthersSame(q, prs, fd, prs, fd)
  BY <1>1 DEF Inv, OthersSame
<1>3. /\ Total(itab, pr, fd, s) \in Nat
      /\ Total(itab, prs, fd, s) = Total(itab, pr, fd, s) - Own(pr[p], fd[p], s) + Own(prs[p], fd[p], s)
  <2>1. PICK tab, tab2, fds, fds2 : tab = itab /\ tab2 = itab /\ fds = fd /\ fds2 = fd
    OBVIOUS
  <2>2. OthersSame(p, pr, fds, prs, fds2) /\ (tab2[s].num = ROOT_INO <=> tab[s].num = ROOT_INO)
    BY <1>2, <2>1
  <2>3. /\ Total(tab, pr, fds, s) \in Nat
        /\ Total(tab2, prs, fds2, s) = Total(tab, pr, fds, s) - Own(pr[p], fds[p], s) + Own(prs[p], fds2[p], s)
    BY <2>2, TotalChanged
  <2> QED BY <2>1, <2>3, Zenon
<1>4. Total(itab, prs, fd, s) >= Own(prs[q], fd[q], s) + One(itab[s].num = ROOT_INO)
  BY <1>2, TotalChanged
<1>5. Own(User, fd[p], s) = One(fd[p] = s) /\ One(fd[p] = s) \in Nat /\ One(itab[s].num = ROOT_INO) \in Nat
  BY OwnUser DEF One
<1>7. Own(pr[p], fd[p], s) \in Nat /\ Own(pr[p], fd[p], s) >= 1 + One(fd[p] = s)
  BY OwnTaken
<1>8. Own(pr[q], fd[q], s) \in Nat /\ Own(pr[q], fd[q], s) >= 1
  <2>1. Own(pr[q], fd[q], s) \in Nat /\ Own(pr[q], fd[q], s) >= 1 + One(fd[q] = s) /\ One(fd[q] = s) \in Nat
    BY OwnTaken
  <2> QED BY <2>1
<1>9. itab[s].count = Total(itab, pr, fd, s)
  BY Counts
<1>10. PICK T, T2, w, v, o, z : /\ T = Total(itab, pr, fd, s) /\ T2 = Total(itab, prs, fd, s)
         /\ w = Own(pr[p], fd[p], s) /\ v = Own(pr[q], fd[q], s) /\ o = One(fd[p] = s) /\ z = One(itab[s].num = ROOT_INO)
  OBVIOUS
<1>11. T \in Nat /\ T2 = T - w + o /\ T2 >= v + z /\ o \in Nat /\ z \in Nat /\ w \in Nat /\ w >= 1 + o /\ v \in Nat /\ v >= 1
  <2>1. T2 = T - w + o
    BY <1>2, <1>3, <1>5, <1>10, Zenon
  <2>2. T2 >= v + z
    BY <1>2, <1>4, <1>10, Zenon
  <2>3. T \in Nat
    BY <1>3, <1>10
  <2>4. o \in Nat /\ z \in Nat
    BY <1>5, <1>10
  <2>5. w \in Nat /\ w >= 1 + o
    BY <1>7, <1>10, Zenon
  <2>6. v \in Nat /\ v >= 1
    BY <1>8, <1>10, Zenon
  <2> QED BY <2>1, <2>2, <2>3, <2>4, <2>5, <2>6
<1>12. T > 1
  BY <1>11
<1> QED BY <1>9, <1>10, <1>12

\* e is a slot taken by p and not yet used by anybody.
NewSlot(p, tab, e) ==
  /\ TableOK(tab) /\ TabOK(p, tab) /\ tab[e].num = 0 /\ tab[e].count = 1
  /\ \A q \in Proc \ {p} : pr[q].pc = "scan" => pr[q].e # e

\* The slot becomes an inode, or is given back.
LEMMA FillSlot ==
  ASSUME Inv, NEW p \in Proc, NEW tab, NEW e \in Slot, NewSlot(p, tab, e), NEW v,
         v = [f \in InodeFields |-> v[f]], v.dirt \in BOOLEAN, v.lock \in BOOLEAN, v.num # ROOT_INO,
         \/ v.num # 0 /\ v.count = 1
         \/ v.num = 0 /\ v.count = 0 /\ v.dirt = FALSE /\ v.lock = FALSE,
         NEW new, new = Replaced(tab, e, v)
  PROVE  TabOK(p, new)
<1>1. /\ TableOK(tab) /\ TabOK(p, tab) /\ tab[e].num = 0
      /\ \A q \in Proc \ {p} : pr[q].pc = "scan" => pr[q].e # e
  BY DEF NewSlot
<1>2. /\ new = [t \in Slot |-> new[t]] /\ new[e] = v /\ \A t \in Slot : t # e => new[t] = tab[t]
  BY DEF Replaced
<1>3. TableOK(new)
  BY <1>1, <1>2 DEF TableOK
<1>4. RootsSame(new)
  <2>1. tab[e].num # ROOT_INO
    BY <1>1 DEF ROOT_INO
  <2>2. RootsSame(tab)
    BY <1>1 DEF TabOK
  <2> QED BY <1>2, <2>1, <2>2 DEF RootsSame
<1>5. \A t \in Slot : new[t].num = 0 => new[t].count <= 1
  BY <1>1, <1>2 DEF TabOK
<1>6. ASSUME NEW q \in Proc \ {p}, pr[q].pc = "scan" PROVE new[pr[q].e].num = 0
  <2>1. pr[q].e \in Slot
    BY <1>6, ScanSlot DEF Inv
  <2> QED BY <1>1, <1>2, <1>6, <2>1 DEF TabOK
<1>7. tainted \/ Clean(new)
  BY <1>1, <1>2 DEF TabOK, Clean
<1> QED BY <1>3, <1>4, <1>5, <1>6, <1>7 DEF TabOK

LEMMA FillBalanced ==
  ASSUME Inv, NEW p \in Proc, NEW tab, NEW e \in Slot, NewSlot(p, tab, e), NEW o, NEW g, Balanced(p, tab, e, o, g),
         NEW v, NEW new, new = Replaced(tab, e, v)
  PROVE  /\ v.count = 1 => Balanced(p, new, e, o, g)
         /\ v.count = 0 => Balanced(p, new, NULL, o, g)
<1>1. tab[e].count = 1 /\ new[e] = v /\ \A t \in Slot : t # e => new[t] = tab[t]
  BY DEF NewSlot, Replaced
<1>2. ASSUME v.count = 1 PROVE Balanced(p, new, e, o, g)
  BY <1>1, <1>2 DEF Balanced
<1>3. ASSUME v.count = 0, NEW t \in Slot
      PROVE  new[t].count = itab[t].count + (One(NULL = t) + One(o = t) + One(g = t)) - Own(pr[p], fd[p], t)
  <2>1. tab[t].count = itab[t].count + (One(e = t) + One(o = t) + One(g = t)) - Own(pr[p], fd[p], t)
    BY DEF Balanced
  <2>2. /\ One(NULL = t) = 0 /\ One(o = t) \in Nat /\ One(g = t) \in Nat
        /\ Own(pr[p], fd[p], t) \in Nat /\ itab[t].count \in Nat
    BY NullOne, OwnNat, Counts
  <2>3. CASE t = e
    <3>1. One(e = t) = 1 /\ new[t].count = 0 /\ tab[t].count = 1
      BY <1>1, <1>3, <2>3 DEF One
    <3> QED BY <2>1, <2>2, <3>1
  <2>4. CASE t # e
    <3>1. One(e = t) = 0 /\ new[t].count = tab[t].count
      BY <1>1, <2>4 DEF One
    <3> QED BY <2>1, <2>2, <3>1
  <2> QED BY <2>3, <2>4
<1> QED BY <1>2, <1>3 DEF Balanced

\* get_empty_inode takes a slot.
Taken(e) == [itab EXCEPT ![e] = [Unused EXCEPT !.count = 1]]

LEMMA TakeSlot ==
  ASSUME Inv, NEW p \in Proc, NEW e \in Slot, itab[e].count = 0,
         NEW tab, tab = Taken(e)
  PROVE  /\ NewSlot(p, tab, e)
         /\ \A o : Balanced(p, itab, NULL, o, fd[p]) => Balanced(p, tab, e, o, fd[p])
<1>1. PICK v : v = [Unused EXCEPT !.count = 1]
  OBVIOUS
<1>2. /\ v = [f \in InodeFields |-> v[f]] /\ v.count = 1 /\ v.num = 0 /\ v.dirt = FALSE /\ v.lock = FALSE
  BY <1>1 DEF Unused, InodeFields
<1>3. TableOK(itab)
  BY DEF Inv
<1>4. tab = [t \in Slot |-> tab[t]] /\ tab[e] = v /\ \A t \in Slot : t # e => tab[t] = itab[t]
  BY <1>1, <1>3 DEF TableOK, Taken
<1>5. TableOK(tab)
  <2>1. ASSUME NEW t \in Slot
        PROVE  /\ tab[t] = [f \in InodeFields |-> tab[t][f]]
               /\ tab[t].count \in Nat /\ tab[t].dirt \in BOOLEAN /\ tab[t].lock \in BOOLEAN
    <3>1. CASE t = e
      <4>1. v.dirt \in BOOLEAN /\ v.lock \in BOOLEAN /\ v = [f \in InodeFields |-> v[f]] /\ v.count = 1
        BY <1>2, Zenon
      <4>2. v.count \in Nat
        BY <4>1
      <4>3. tab[t] = v
        BY <1>4, <3>1
      <4> QED BY <4>1, <4>2, <4>3, Zenon
    <3>2. CASE t # e
      <4>1. tab[t] = itab[t]
        BY <1>4, <3>2
      <4>2. /\ itab[t] = [f \in InodeFields |-> itab[t][f]]
            /\ itab[t].count \in Nat /\ itab[t].dirt \in BOOLEAN /\ itab[t].lock \in BOOLEAN
        BY <1>3 DEF TableOK
      <4> QED BY <4>1, <4>2, Zenon
    <3> QED BY <3>1, <3>2
  <2> QED BY <1>4, <2>1, Zenon DEF TableOK
<1>6. itab[e].num # ROOT_INO
  <2>1. itab[e].count >= Own(pr[p], fd[p], e) + One(itab[e].num = ROOT_INO) /\ Own(pr[p], fd[p], e) \in Nat
    BY Counts, OwnNat
  <2> QED BY <2>1 DEF One
<1>7. RootsSame(tab)
  BY <1>2, <1>4, <1>6 DEF RootsSame, ROOT_INO
<1>8. ASSUME NEW q \in Proc \ {p}, pr[q].pc = "scan" PROVE pr[q].e # e
  <2> SUFFICES ASSUME pr[q].e = e PROVE FALSE
    OBVIOUS
  <2>1. /\ itab[e].count >= Own(pr[q], fd[q], e) + One(itab[e].num = ROOT_INO)
        /\ Own(pr[q], fd[q], e) \in Nat /\ One(fd[q] = e) \in Nat /\ Own(pr[q], fd[q], e) >= 1 + One(fd[q] = e)
    BY Counts, OwnTaken
  <2>2. One(itab[e].num = ROOT_INO) \in Nat
    BY DEF One
  <2> QED BY <2>1, <2>2
<1>9. TabOK(p, itab)
  BY TabNow
<1>10. \A t \in Slot : tab[t].num = 0 => tab[t].count <= 1
  BY <1>2, <1>4, <1>9 DEF TabOK
<1>11. ASSUME NEW q \in Proc \ {p}, pr[q].pc = "scan" PROVE tab[pr[q].e].num = 0
  <2>1. pr[q].e \in Slot
    BY <1>11, ScanSlot DEF Inv
  <2> QED BY <1>4, <1>8, <1>9, <1>11, <2>1 DEF TabOK
<1>12. tainted \/ Clean(tab)
  BY <1>2, <1>4, <1>9 DEF TabOK, Clean
<1>13. TabOK(p, tab)
  BY <1>5, <1>7, <1>10, <1>11, <1>12 DEF TabOK
<1>14. NewSlot(p, tab, e)
  BY <1>2, <1>4, <1>5, <1>8, <1>13 DEF NewSlot
<1>15. ASSUME NEW o, Balanced(p, itab, NULL, o, fd[p]), NEW t \in Slot
       PROVE  tab[t].count = itab[t].count + (One(e = t) + One(o = t) + One(fd[p] = t)) - Own(pr[p], fd[p], t)
  <2>1. itab[t].count = itab[t].count + (One(NULL = t) + One(o = t) + One(fd[p] = t)) - Own(pr[p], fd[p], t)
    BY <1>15 DEF Balanced
  <2>2. /\ One(NULL = t) = 0 /\ One(o = t) \in Nat /\ One(fd[p] = t) \in Nat
        /\ Own(pr[p], fd[p], t) \in Nat /\ itab[t].count \in Nat
    BY NullOne, OwnNat, Counts
  <2>3. CASE t = e
    <3>1. One(e = t) = 1 /\ tab[t].count = 1 /\ itab[t].count = 0
      BY <1>2, <1>4, <2>3 DEF One
    <3> QED BY <2>1, <2>2, <3>1
  <2>4. CASE t # e
    <3>1. One(e = t) = 0 /\ tab[t].count = itab[t].count
      BY <1>4, <2>4 DEF One
    <3> QED BY <2>1, <2>2, <3>1
  <2> QED BY <2>3, <2>4
<1> QED BY <1>14, <1>15 DEF Balanced

\* A process in iget takes the slot with it.
WithSlot(r, pc, e) == [r EXCEPT !.pc = pc, !.e = e]

LEMMA Igetting ==
  ASSUME NEW r, RecordOK(r), r.puts = <<>>, r.ino = NULL, r.goal = "iget", Wants(r), NEW e \in Slot,
         NEW pc \in {"scan", "read"}, NEW x, x = WithSlot(r, pc, e)
  PROVE  Holds(x, e, Beside(r)) /\ x.pc = pc /\ x.e = e /\ (Opening(x) => Opening(r))
<1>1. IsRecord(r)
  BY DEF RecordOK, IsRecord
<1>2. /\ IsRecord(x) /\ x.pc = pc /\ x.e = e /\ x.puts = <<>> /\ x.ino = NULL /\ x.dir = r.dir /\ x.old = r.old
      /\ x.op = r.op /\ x.path = r.path /\ x.goal = r.goal /\ x.inr = r.inr /\ x.then = r.then
  BY <1>1, FieldsAre DEF IsRecord, WithSlot
<1>3. Wants(x)
  BY <1>2 DEF Wants, Walking
<1>4. e # NULL /\ e \in SlotOrNULL
  BY NotSlot DEF SlotOrNULL
<1>5. Keeps(x.pc, x)
  BY <1>2, <1>3, <1>4 DEF Keeps
<1>6. PICK o : o = Beside(r)
  OBVIOUS
<1>7. o \in SlotOrNULL /\ Pair(x, e, o)
  <2>1. r.dir \in SlotOrNULL /\ r.old \in SlotOrNULL
    BY DEF RecordOK
  <2>2. (r.path = <<>> => r.old = NULL) /\ (r.path # <<>> => r.dir = NULL)
    BY DEF Wants
  <2> QED BY <1>2, <1>6, <2>1, <2>2 DEF Beside, Pair
<1>8. Holds(x, e, o)
  BY <1>2, <1>4, <1>5, <1>7, NewPair
<1>9. Opening(x) => Opening(r)
  BY <1>2 DEF Opening
<1> QED BY <1>2, <1>6, <1>8, <1>9

\* The forms in which iget and new_inode change their slot.
SetSlot(tab, e, v) == [tab EXCEPT ![e] = v]
Locked(tab, e, nr) == [tab EXCEPT ![e].num = nr, ![e].lock = TRUE]
LockedInode(u, nr) == [u EXCEPT !.num = nr, !.lock = TRUE]

LEMMA SlotForms ==
  ASSUME NEW tab, TableOK(tab), NEW e \in Slot, NEW v, NEW nr
  PROVE  /\ SetSlot(tab, e, v) = Replaced(tab, e, v)
         /\ Locked(tab, e, nr) = Replaced(tab, e, LockedInode(tab[e], nr))
<1>1. tab = [t \in Slot |-> tab[t]] /\ tab[e] = [f \in InodeFields |-> tab[e][f]]
  BY DEF TableOK
<1>2. \A w : [tab EXCEPT ![e] = w] = Replaced(tab, e, w)
  <2> SUFFICES ASSUME NEW w PROVE [tab EXCEPT ![e] = w] = Replaced(tab, e, w)
    OBVIOUS
  <2>1. [tab EXCEPT ![e] = w] = [t \in Slot |-> IF t = e THEN w ELSE tab[t]]
    BY <1>1
  <2> QED BY <2>1, Zenon DEF Replaced
<1>3. Locked(tab, e, nr) = [tab EXCEPT ![e] = LockedInode(tab[e], nr)]
  BY <1>1 DEF Locked, LockedInode
<1>4. SetSlot(tab, e, v) = Replaced(tab, e, v)
  BY <1>2, Zenon DEF SetSlot
<1> QED BY <1>2, <1>3, <1>4, Zenon

LEMMA UnusedFields ==
  /\ Unused = [f \in InodeFields |-> Unused[f]] /\ Unused.count = 0 /\ Unused.num = 0
  /\ Unused.dirt = FALSE /\ Unused.lock = FALSE
BY DEF Unused, InodeFields

\* The slot is given back.
LEMMA SlotBack ==
  ASSUME Inv, NEW p \in Proc, NEW tab, NEW e \in Slot, NewSlot(p, tab, e), NEW o, NEW g, Balanced(p, tab, e, o, g),
         NEW new, new = SetSlot(tab, e, Unused)
  PROVE  /\ TabOK(p, new) /\ Balanced(p, new, NULL, o, g)
         /\ \A t \in Slot : t # e => new[t] = tab[t]
<1>1. PICK v : v = Unused
  OBVIOUS
<1>2. /\ v = [f \in InodeFields |-> v[f]] /\ v.count = 0 /\ v.num = 0 /\ v.dirt = FALSE /\ v.lock = FALSE
  BY <1>1, UnusedFields
<1>3. v.num # ROOT_INO
  BY <1>2 DEF ROOT_INO
<1>4. TableOK(tab)
  BY DEF NewSlot
<1>5. new = Replaced(tab, e, v)
  BY <1>1, <1>4, SlotForms
<1>6. TabOK(p, new)
  BY <1>2, <1>3, <1>5, FillSlot
<1>7. Balanced(p, new, NULL, o, g)
  BY <1>2, <1>5, FillBalanced
<1> QED BY <1>5, <1>6, <1>7 DEF Replaced

\* p is in iget.
Asks(p) ==
  /\ RecordOK(pr[p]) /\ IsRecord(pr[p]) /\ pr[p].puts = <<>> /\ pr[p].ino = NULL
  /\ pr[p].goal = "iget" /\ Wants(pr[p])

LEMMA igetKeeps ==
  ASSUME Inv, NEW p \in Proc, NEW tab, NEW e \in Slot, NewSlot(p, tab, e), Asks(p), NEW o, o = Beside(pr[p]),
         Balanced(p, tab, e, o, fd[p]), iget(p, tab, e)
  PROVE  Inv'
<1>1. PICK r, nr, hit : r = pr[p] /\ nr = pr[p].inr /\ hit = Hits(tab, pr[p].inr)
  OBVIOUS
<1>2. /\ RecordOK(r) /\ IsRecord(r) /\ r.puts = <<>> /\ r.ino = NULL /\ r.goal = "iget" /\ Wants(r)
  BY <1>1 DEF Asks
<1>3. nr # 0 /\ o = Beside(r)
  BY <1>1, <1>2 DEF Wants
<1>4. o \in SlotOrNULL
  <2>1. PICK f : f = r.e
    OBVIOUS
  <2> QED BY <1>2, <1>3, <2>1, BesideOK
<1>5. TabOK(p, tab) /\ TableOK(tab) /\ tab[e].num = 0 /\ tab[e].count = 1
  BY DEF NewSlot
<1>6. UNCHANGED imap
  BY DEF iget
<1>7. CASE hit = {} /\ Go(p, Locked(tab, e, nr), WithSlot(r, "read", e)) /\ UNCHANGED <<fd, tainted>>
  <2>1. PICK v, new, x : /\ v = LockedInode(tab[e], nr) /\ new = Locked(tab, e, nr)
                         /\ x = WithSlot(r, "read", e)
    OBVIOUS
  <2>2. tab[e] = [f \in InodeFields |-> tab[e][f]] /\ tab[e].dirt \in BOOLEAN
    BY <1>5 DEF TableOK
  <2>3. v = [f \in InodeFields |-> v[f]] /\ v.num = nr /\ v.lock = TRUE /\ v.count = 1 /\ v.dirt = tab[e].dirt
    BY <1>5, <2>1, <2>2 DEF InodeFields, LockedInode
  <2>4. nr # ROOT_INO
    <3>1. RootsSame(tab) /\ \E s \in Slot : itab[s].num = ROOT_INO
      BY <1>5 DEF TabOK, Inv
    <3> QED BY <1>1, <1>7, <3>1 DEF RootsSame, Hits
  <2>5. new = Replaced(tab, e, v)
    BY <1>5, <2>1, SlotForms
  <2>6. TabOK(p, new)
    BY <1>3, <2>2, <2>3, <2>4, <2>5, FillSlot
  <2>7. Balanced(p, new, e, o, fd[p])
    BY <2>3, <2>5, FillBalanced
  <2>8. Holds(x, e, o) /\ x.pc = "read" /\ (Opening(x) => Opening(r))
    <3>1. PICK pc : pc = "read"
      OBVIOUS
    <3>2. x = WithSlot(r, pc, e) /\ pc \in {"scan", "read"}
      BY <2>1, <3>1
    <3> QED BY <1>2, <1>3, <3>1, <3>2, Igetting
  <2>9. Go(p, new, x) /\ UNCHANGED fd /\ Rest
    BY <1>6, <1>7, <2>1, RestSame
  <2> QED BY <1>1, <2>6, <2>7, <2>8, <2>9, GoOn
<1>8. CASE Go(p, tab, WithSlot(r, "scan", e)) /\ UNCHANGED <<fd, tainted>>
  <2>1. PICK x, pc : pc = "scan" /\ x = WithSlot(r, pc, e)
    OBVIOUS
  <2>2. pc \in {"scan", "read"}
    BY <2>1
  <2>3. Holds(x, e, o) /\ x.e = e /\ (Opening(x) => Opening(r))
    BY <1>2, <1>3, <2>1, <2>2, Igetting
  <2>4. Go(p, tab, x) /\ UNCHANGED fd /\ Rest
    BY <1>6, <1>8, <2>1, RestSame
  <2> QED BY <1>1, <1>5, <2>3, <2>4, GoOn
<1>9. CASE \E s \in hit : Got(p, Get(SetSlot(tab, e, Unused), s), s)
  <2>1. PICK s \in hit : Got(p, Get(SetSlot(tab, e, Unused), s), s)
    BY <1>9
  <2>2. s \in Slot /\ tab[s].num = nr
    BY <1>1 DEF Hits
  <2>3. s # e
    BY <1>3, <1>5, <2>2
  <2>4. PICK m, new : m = SetSlot(tab, e, Unused) /\ new = Get(m, s)
    OBVIOUS
  <2>5. TabOK(p, m) /\ Balanced(p, m, NULL, o, fd[p]) /\ m[s] = tab[s]
    BY <2>2, <2>3, <2>4, SlotBack
  <2>6. TabOK(p, new) /\ Balanced(p, new, s, o, fd[p])
    BY <1>3, <2>2, <2>4, <2>5, BalancedGet
  <2>7. new[s].count # 0
    BY <2>2, <2>6, BalancedUsed
  <2>8. Given(p, new, s, o)
    BY <1>1, <1>2, <1>3, <1>4, <2>6, <2>7 DEF Given, Beside
  <2>9. Got(p, new, s)
    BY <2>1, <2>4, Zenon
  <2> QED BY <1>6, <2>2, <2>8, <2>9, GotKeeps
<1> QED BY <1>1, <1>7, <1>8, <1>9, Zenon DEF iget, Locked, SetSlot, WithSlot

LEMMA WaitInodeKeeps ==
  ASSUME Inv, NEW p \in Proc, WaitInode(p)
  PROVE  Inv'
<1>1. PICK e, o : e = pr[p].e /\ o = Beside(pr[p])
  OBVIOUS
<1>2. pr[p].pc = "scan" /\ iget(p, itab, e)
  BY <1>1 DEF WaitInode, At
<1>3. e \in Slot /\ Balanced(p, itab, e, o, fd[p])
  BY <1>1, <1>2, Reading
<1>4. Asks(p)
  BY <1>2, Reading, Now DEF Asks
<1>5. itab[e].count # 0
  BY <1>3, BalancedUsed
<1>6. itab[e].num = 0 /\ itab[e].count <= 1 /\ itab[e].count \in Nat
  BY <1>1, <1>2, <1>3, Counts DEF Inv, Fresh
<1>7. itab[e].count = 1
  BY <1>5, <1>6
<1>8. ASSUME NEW q \in Proc \ {p}, pr[q].pc = "scan" PROVE pr[q].e # e
  <2> SUFFICES ASSUME pr[q].e = e PROVE FALSE
    OBVIOUS
  <2>1. itab[e].count > 1
    BY <1>1, <1>3, TwoUsers
  <2> QED BY <1>7, <2>1
<1>9. NewSlot(p, itab, e)
  <2>1. TableOK(itab)
    BY DEF Inv
  <2> QED BY <1>6, <1>7, <1>8, <2>1, TabNow DEF NewSlot
<1> QED BY <1>1, <1>2, <1>3, <1>4, <1>9, igetKeeps

\* find_first_zero finds a bit that is not set.
LEMMA FirstZeroFree ==
  ASSUME Inv, imap # Ino
  PROVE  FirstZero(Ino, imap) \in Ino \ imap
<1>1. PICK S : S = Ino \ imap
  OBVIOUS
<1>2. S # {} /\ S \in SUBSET Nat
  <2>1. imap \subseteq Ino
    BY DEF Inv
  <2>2. NInodes \in Nat
    BY FileSystemAssumption
  <2>3. Ino \subseteq Nat
    BY <2>2 DEF Ino
  <2> QED BY <1>1, <2>1, <2>3
<1>3. \E n \in S : \A m \in S : n <= m
  BY <1>2, MinNat
<1> QED BY <1>1, <1>3 DEF FirstZero

\* What new_inode puts into its slot.
NewInode(n, d) == [num |-> n, count |-> 1, dirt |-> TRUE, lock |-> FALSE, d |-> d]

WithKind(u, x) == [u EXCEPT !.d.kind = x]
WithLinks(u, x) == [u EXCEPT !.d.nlinks = x]

LEMMA NewInodeForms ==
  ASSUME NEW n, NEW d, NEW x
  PROVE  /\ \E y : WithKind(NewInode(n, d), x) = NewInode(n, y)
         /\ \E y : WithLinks(NewInode(n, d), x) = NewInode(n, y)
<1>1. ASSUME NEW y PROVE [NewInode(n, d) EXCEPT !.d = y] = NewInode(n, y)
  <2>1. PICK u, v : u = NewInode(n, d) /\ v = NewInode(n, y)
    OBVIOUS
  <2>2. /\ u = [f \in InodeFields |-> u[f]] /\ v = [f \in InodeFields |-> v[f]]
        /\ u.num = v.num /\ u.count = v.count /\ u.dirt = v.dirt /\ u.lock = v.lock /\ v.d = y
    BY <2>1 DEF NewInode, InodeFields
  <2>3. [u EXCEPT !.d = y] = v
    BY <2>2 DEF InodeFields
  <2> QED BY <2>1, <2>3, Zenon
<1>2. NewInode(n, d).d = d
  BY DEF NewInode
<1>3. WithKind(NewInode(n, d), x) = [NewInode(n, d) EXCEPT !.d = [NewInode(n, d).d EXCEPT !.kind = x]]
  BY DEF WithKind
<1>4. WithLinks(NewInode(n, d), x) = [NewInode(n, d) EXCEPT !.d = [NewInode(n, d).d EXCEPT !.nlinks = x]]
  BY DEF WithLinks
<1> QED BY <1>1, <1>2, <1>3, <1>4, Zenon

LEMMA SlotMade ==
  ASSUME Inv, NEW p \in Proc, NEW tab, NEW e \in Slot, NewSlot(p, tab, e), NEW o, NEW g, Balanced(p, tab, e, o, g),
         NEW n, n # 0, n # ROOT_INO, NEW d, NEW new, new = SetSlot(tab, e, NewInode(n, d))
  PROVE  TabOK(p, new) /\ Balanced(p, new, e, o, g)
<1>1. PICK v : v = NewInode(n, d)
  OBVIOUS
<1>2. /\ v = [f \in InodeFields |-> v[f]] /\ v.count = 1 /\ v.num = n /\ v.dirt = TRUE /\ v.lock = FALSE
  <2>1. v.count = 1 /\ v.num = n /\ v.dirt = TRUE /\ v.lock = FALSE
    BY <1>1 DEF NewInode
  <2>2. v = [f \in InodeFields |-> v[f]]
    BY <1>1 DEF NewInode, InodeFields
  <2> QED BY <2>1, <2>2
<1>3. TableOK(tab)
  BY DEF NewSlot
<1>4. new = Replaced(tab, e, v)
  BY <1>1, <1>3, SlotForms
<1>5. v.num # 0 /\ v.num # ROOT_INO /\ v.dirt \in BOOLEAN /\ v.lock \in BOOLEAN
  BY <1>2
<1>6. TabOK(p, new)
  BY <1>2, <1>4, <1>5, FillSlot
<1>7. Balanced(p, new, e, o, g)
  BY <1>2, <1>4, FillBalanced
<1> QED BY <1>6, <1>7

\* The process has its new inode and the directory.
LEMMA MadeHolds ==
  ASSUME NEW r, IsRecord(r), r.puts = <<>>, r.old = NULL, r.e = NULL, r.op \in {"creat", "mkdir"},
         NEW a \in Slot, r.dir = a, NEW e \in Slot, NEW x, IsRecord(x), x.puts = <<>>,
         x.old = NULL, x.e = NULL, x.op = r.op, x.dir = a, x.then = r.then, x.ino = e,
         x.pc = "add" \/ (x.pc = "mkblk" /\ x.op = "mkdir")
  PROVE  Holds(x, e, a) /\ x.pc # "scan" /\ (Opening(x) => Opening(r))
<1>1. a # NULL /\ e # NULL /\ a \in SlotOrNULL /\ e \in SlotOrNULL
  BY NotSlot DEF SlotOrNULL
<1>2. Only(x, {"dir", "ino"}) /\ x.op # "link"
  BY <1>1, OnlyParts
<1>3. Keeps(x.pc, x)
  <2>1. CASE x.pc = "add"
    <3>1. Only(x, {"dir", IF x.op = "link" THEN "old" ELSE "ino"})
      BY <1>2
    <3> QED BY <2>1, <3>1 DEF Keeps
  <2>2. CASE x.pc = "mkblk"
    BY <1>2, <2>2 DEF Keeps
  <2> QED BY <2>1, <2>2
<1>4. Pair(x, a, e)
  BY DEF Pair
<1>5. Holds(x, a, e)
  BY <1>1, <1>3, <1>4, NewPair
<1>6. Holds(x, e, a)
  BY <1>5, HoldsSwap
<1>7. Opening(x) => Opening(r)
  BY DEF Opening
<1> QED BY <1>6, <1>7

\* p has the directory in which it will make an entry.
Makes(p, a) ==
  /\ RecordOK(pr[p]) /\ IsRecord(pr[p]) /\ pr[p].puts = <<>> /\ pr[p].ino = NULL /\ pr[p].old = NULL
  /\ pr[p].e = NULL /\ pr[p].op \in {"creat", "mkdir"} /\ pr[p].dir = a

\* The records with which it goes on.
ToAdd(r, e) == [r EXCEPT !.pc = "add", !.ino = e, !.i = 1]
ToBlock(r, e, b) == [r EXCEPT !.pc = "mkblk", !.ino = e, !.blk = b]

LEMMA new_inodeKeeps ==
  ASSUME Inv, NEW p \in Proc, NEW tab, NEW e \in Slot, NewSlot(p, tab, e), NEW a \in Slot, Makes(p, a),
         Balanced(p, tab, e, a, fd[p]), new_inode(p, tab, e)
  PROVE  Inv'
<1>1. PICK r, n, d : r = pr[p] /\ n = FirstZero(Ino, imap) /\ d = [NoInode EXCEPT !.nlinks = 1]
  OBVIOUS
<1>2. /\ IsRecord(r) /\ r.puts = <<>> /\ r.ino = NULL /\ r.old = NULL
      /\ r.e = NULL /\ r.op \in {"creat", "mkdir"} /\ r.dir = a
  BY <1>1 DEF Makes
<1>3. UNCHANGED <<fd, tainted>>
  BY DEF new_inode
<1>4. CASE Go(p, SetSlot(tab, e, Unused), Leave(<<r.dir>>)) /\ UNCHANGED imap
  <2>1. PICK new, y : new = SetSlot(tab, e, Unused) /\ y = Leave(<<a>>)
    OBVIOUS
  <2>2. TabOK(p, new) /\ Balanced(p, new, NULL, a, fd[p])
    BY <2>1, SlotBack
  <2>3. Balanced(p, new, a, NULL, fd[p])
    BY <2>2, BalancedSwap
  <2>4. Leaves(y, a, NULL)
    BY <2>1, LeaveOne
  <2>5. Go(p, new, y) /\ Rest
    BY <1>2, <1>3, <1>4, <2>1, RestSame
  <2> QED BY <1>3, <2>2, <2>3, <2>4, <2>5, LeaveStep
<1>5. ASSUME imap # Ino, imap' = imap \cup {n}
      PROVE  n # 0 /\ n # ROOT_INO /\ Rest
  <2>1. n \in Ino \ imap
    BY <1>1, <1>5, FirstZeroFree
  <2>2. n # 0
    BY <2>1, FileSystemAssumption DEF Ino
  <2>3. n # ROOT_INO /\ Rest
    BY <1>3, <1>5, <2>1 DEF Inv, Rest
  <2> QED BY <2>2, <2>3
<1>6. CASE /\ imap # Ino /\ imap' = imap \cup {n}
           /\ Go(p, SetSlot(tab, e, WithKind(NewInode(n, d), "reg")), ToAdd(r, e))
  <2>1. PICK d1 : WithKind(NewInode(n, d), "reg") = NewInode(n, d1)
    BY NewInodeForms
  <2>2. PICK new, x : new = SetSlot(tab, e, NewInode(n, d1)) /\ x = ToAdd(r, e)
    OBVIOUS
  <2>3. Go(p, new, x)
    BY <1>6, <2>1, <2>2, Zenon
  <2>4. n # 0 /\ n # ROOT_INO /\ Rest
    BY <1>5, <1>6
  <2>5. TabOK(p, new) /\ Balanced(p, new, e, a, fd[p])
    BY <2>2, <2>4, SlotMade
  <2>6. /\ IsRecord(x) /\ x.puts = <<>> /\ x.old = NULL /\ x.e = NULL /\ x.op = r.op /\ x.dir = a
        /\ x.then = r.then /\ x.ino = e /\ x.pc = "add"
    BY <1>2, <2>2, FieldsAre DEF IsRecord, ToAdd
  <2>7. Holds(x, e, a) /\ x.pc # "scan" /\ (Opening(x) => Opening(r))
    BY <1>2, <2>6, MadeHolds
  <2> QED BY <1>1, <1>3, <2>3, <2>4, <2>5, <2>7, GoOn
<1>7. CASE /\ imap # Ino /\ r.op = "mkdir" /\ imap' = imap \cup {n}
           /\ Go(p, SetSlot(tab, e, NewInode(n, d)), ToBlock(r, e, NewBlock))
  <2>1. PICK new, x : new = SetSlot(tab, e, NewInode(n, d)) /\ x = ToBlock(r, e, NewBlock)
    OBVIOUS
  <2>3. Go(p, new, x)
    BY <1>7, <2>1, Zenon
  <2>4. n # 0 /\ n # ROOT_INO /\ Rest
    BY <1>5, <1>7
  <2>5. TabOK(p, new) /\ Balanced(p, new, e, a, fd[p])
    BY <2>1, <2>4, SlotMade
  <2>6. /\ IsRecord(x) /\ x.puts = <<>> /\ x.old = NULL /\ x.e = NULL /\ x.op = r.op /\ x.dir = a
        /\ x.then = r.then /\ x.ino = e /\ x.pc = "mkblk"
    BY <1>2, <2>1, FieldsAre DEF IsRecord, ToBlock
  <2>7. Holds(x, e, a) /\ x.pc # "scan" /\ (Opening(x) => Opening(r))
    BY <1>2, <1>7, <2>6, MadeHolds
  <2> QED BY <1>1, <1>3, <2>3, <2>4, <2>5, <2>7, GoOn
<1>8. CASE /\ imap # Ino /\ imap' = imap \cup {n}
           /\ Go(p, SetSlot(tab, e, WithLinks(NewInode(n, d), 0)), Leave(<<r.dir, e>>))
  <2>1. PICK d1 : WithLinks(NewInode(n, d), 0) = NewInode(n, d1)
    BY NewInodeForms
  <2>2. PICK new, y : new = SetSlot(tab, e, NewInode(n, d1)) /\ y = Leave(<<a, e>>)
    OBVIOUS
  <2>3. Go(p, new, y)
    BY <1>2, <1>8, <2>1, <2>2, Zenon
  <2>4. n # 0 /\ n # ROOT_INO /\ Rest
    BY <1>5, <1>8
  <2>5. TabOK(p, new) /\ Balanced(p, new, e, a, fd[p])
    BY <2>2, <2>4, SlotMade
  <2>6. Balanced(p, new, a, e, fd[p])
    BY <2>5, BalancedSwap
  <2>7. Leaves(y, a, e)
    BY <2>2, LeaveTwo
  <2> QED BY <1>3, <2>3, <2>4, <2>5, <2>6, <2>7, LeaveStep
<1> QED BY <1>1, <1>4, <1>6, <1>7, <1>8, Zenon DEF new_inode, SetSlot, NewInode, WithKind, WithLinks, ToAdd, ToBlock

\* Nothing the invariant is about changes: a panic.
LEMMA PanicKeeps ==
  ASSUME Inv, NEW p \in Proc, UNCHANGED <<itab, pr, fd, imap, tainted>>
  PROVE  Inv'
<1>1. PICK r, g : r = pr[p] /\ g = fd[p]
  OBVIOUS
<1>2. TabOK(p, itab) /\ RecordOK(r) /\ g \in SlotOrNULL /\ (Opening(r) => g = NULL)
  BY <1>1, Now, TabNow, FileNow
<1>3. Counted(p, itab, r, g)
  <2>1. ASSUME NEW s \in Slot PROVE itab[s].count = itab[s].count + Own(r, g, s) - Own(pr[p], fd[p], s)
    <3>1. Own(r, g, s) = Own(pr[p], fd[p], s)
      BY <1>1
    <3>2. Own(pr[p], fd[p], s) \in Nat /\ itab[s].count \in Nat
      BY OwnNat, Counts
    <3> QED BY <3>1, <3>2
  <2> QED BY <2>1 DEF Counted
<1>4. FreshIn(p, itab, r)
  BY <1>1 DEF Inv, Fresh, FreshIn
<1>5. Ready(p, itab, r, g)
  BY <1>2, <1>3, <1>4 DEF Ready, TabOK
<1>6. Ready(p, itab', r, g)
  BY <1>5, Zenon
<1>7. pr' = [pr EXCEPT ![p] = r] /\ fd' = [fd EXCEPT ![p] = g]
  BY <1>1 DEF Inv
<1>8. tainted' \in BOOLEAN /\ ROOT_INO \in imap' /\ imap' \subseteq Ino
  BY DEF Inv
<1>9. tainted' \/ Clean(itab')
  BY <1>2 DEF TabOK, Clean
<1> QED BY <1>6, <1>7, <1>8, <1>9, Settle

LEMMA get_empty_inodeKeeps ==
  ASSUME Inv, NEW p \in Proc, get_empty_inode(p)
  PROVE  Inv'
<1>1. PICK r, o : r = pr[p] /\ o = Beside(pr[p])
  OBVIOUS
<1>2. /\ RecordOK(r) /\ IsRecord(r) /\ r.pc = "empty" /\ r.puts = <<>> /\ Wants(r) /\ r.ino = NULL /\ r.e = NULL
  BY <1>1, Now DEF get_empty_inode, At, Keeps
<1>3. CASE UNCHANGED <<itab, pr, fd, imap, tainted>>
  BY <1>3, PanicKeeps
<1>4. ASSUME NEW e \in Slot, itab[e].count = 0,
             IF r.goal = "iget" THEN iget(p, Taken(e), e) ELSE new_inode(p, Taken(e), e)
      PROVE  Inv'
  <2>1. PICK tab : tab = Taken(e)
    OBVIOUS
  <2>2. /\ NewSlot(p, tab, e)
        /\ \A b : Balanced(p, itab, NULL, b, fd[p]) => Balanced(p, tab, e, b, fd[p])
    BY <1>4, <2>1, TakeSlot
  <2>3. CASE r.goal = "iget"
    <3>1. PICK z : z = NULL
      OBVIOUS
    <3>2. Pair(r, z, o)
      BY <1>1, <1>2, <2>3, <3>1, BesideOK
    <3>3. Holds(r, z, o)
      BY <1>2, <3>2, HoldsPair
    <3>4. Balanced(p, itab, z, o, fd[p])
      BY <1>1, <3>3, BalancedNow
    <3>5. Balanced(p, tab, e, o, fd[p])
      BY <2>2, <3>1, <3>4
    <3>6. Asks(p)
      BY <1>1, <1>2, <2>3 DEF Asks
    <3>7. iget(p, tab, e)
      BY <1>4, <2>1, <2>3, Zenon
    <3> QED BY <1>1, <2>2, <3>5, <3>6, <3>7, igetKeeps
  <2>4. CASE r.goal # "iget"
    <3>1. PICK a : a = r.dir
      OBVIOUS
    <3>2. r.op \in {"creat", "mkdir"} /\ a # NULL /\ r.old = NULL
      BY <1>2, <2>4, <3>1 DEF Wants
    <3>3. a \in Slot
      BY <1>1, <3>1, <3>2, Now
    <3>4. Balanced(p, itab, a, NULL, fd[p])
      BY <1>1, <1>2, <3>1, <3>2, HasDirOld
    <3>5. Balanced(p, itab, NULL, a, fd[p])
      BY <3>4, BalancedSwap
    <3>6. Balanced(p, tab, e, a, fd[p])
      BY <2>2, <3>5
    <3>7. Makes(p, a)
      BY <1>1, <1>2, <3>1, <3>2 DEF Makes
    <3>8. new_inode(p, tab, e)
      BY <1>4, <2>1, <2>4, Zenon
    <3> QED BY <2>2, <3>3, <3>6, <3>7, <3>8, new_inodeKeeps
  <2> QED BY <2>3, <2>4
<1> QED BY <1>1, <1>3, <1>4, Zenon DEF get_empty_inode, Taken

\* The system call, when a name has been looked up.
LEMMA CallIs ==
  ASSUME Inv, NEW p \in Proc, NEW r, r = pr[p], r.pc = "find", NEW op \in Call(p)
  PROVE  /\ op = "walk" \/ op \in {"open", "creat", "mkdir", "rmdir", "unlink", "link"}
         /\ op = "walk" => Tail(r.path) \in Seq(Name) \ {<<>>}
         /\ op # "walk" => Tail(r.path) = <<>>
         /\ op \in {"open", "creat"} => fd[p] = NULL
         /\ op \in {"walk", "link"} \/ r.old = NULL
         /\ r.op \notin {"open", "creat"}
<1>1. Walking(r) /\ r.path \in Seq(Name) \ {<<>>}
  BY Now DEF Keeps
<1>2. (r.op = "none" /\ r.old = NULL) \/ r.op = "link"
  BY <1>1 DEF Walking
<1>3. CASE Len(r.path) = 1
  <2>1. Tail(r.path) = <<>>
    <3>1. PICK s : s = r.path
      OBVIOUS
    <3>2. s \in Seq(Name) /\ s # <<>> /\ Len(s) = 1
      BY <1>1, <1>3, <3>1
    <3>3. PICK u \in Seq(Name) : u = Tail(s) /\ Len(u) = Len(s) - 1
      BY <3>2, HeadTailProperties
    <3>4. Len(u) = 0
      BY <3>2, <3>3
    <3>5. u = <<>>
      BY <3>4
    <3> QED BY <3>1, <3>3, <3>5
  <2>2. CASE r.op # "none"
    BY <1>2, <1>3, <2>1, <2>2 DEF Call, Last
  <2>3. CASE r.op = "none"
    <3>1. op \in Ops /\ (op \in {"open", "creat"} => fd[p] = NULL)
      BY <1>3, <2>3 DEF Call, Last
    <3>2. op \in {"open", "creat", "mkdir", "rmdir", "unlink", "link"}
      BY <3>1, FileSystemAssumption
    <3> QED BY <1>2, <2>1, <2>3, <3>1, <3>2
  <2> QED BY <2>2, <2>3
<1>4. CASE Len(r.path) # 1
  <2>1. op = "walk"
    BY <1>4 DEF Call, Last
  <2>2. Tail(r.path) \in Seq(Name) \ {<<>>}
    <3>1. PICK s : s = r.path
      OBVIOUS
    <3>2. s \in Seq(Name) /\ s # <<>> /\ Len(s) # 1
      BY <1>1, <1>4, <3>1
    <3>3. PICK u \in Seq(Name) : u = Tail(s) /\ Len(u) = Len(s) - 1
      BY <3>2, HeadTailProperties
    <3>4. Len(s) \in Nat /\ Len(u) # 0
      BY <3>2, <3>3
    <3>5. u # <<>>
      BY <3>4
    <3> QED BY <3>1, <3>3, <3>5
  <2> QED BY <1>2, <2>1, <2>2
<1> QED BY <1>3, <1>4

\* The record of a process that has found its name.
Found1(r, op, n) == [r EXCEPT !.op = IF op = "walk" THEN @ ELSE op, !.path = Tail(@),
                              !.inr = n, !.goal = "iget", !.i = 0, !.n = 0]
WithoutDir(r) == [r EXCEPT !.dir = NULL]
ToEmpty(r, b) == [r EXCEPT !.pc = "empty", !.blk = b]

LEMMA FoundRecord ==
  ASSUME NEW r, IsRecord(r), NEW op, NEW n, NEW b, NEW x, x = Found1(r, op, n),
         NEW y, y = WithoutDir(x), NEW z, z = ToEmpty(x, b), NEW o1, o1 = IF op = "walk" THEN r.op ELSE op
  PROVE  /\ IsRecord(y) /\ y.dir = NULL /\ y.ino = r.ino /\ y.old = r.old /\ y.e = r.e /\ y.op = o1
         /\ y.path = Tail(r.path) /\ y.inr = n /\ y.goal = "iget"
         /\ IsRecord(z) /\ z.dir = r.dir /\ z.ino = r.ino /\ z.old = r.old /\ z.e = r.e /\ z.op = o1
         /\ z.path = Tail(r.path) /\ z.inr = n /\ z.goal = "iget" /\ z.puts = r.puts /\ z.then = r.then
         /\ z.pc = "empty"
<1>1. /\ IsRecord(x) /\ x.dir = r.dir /\ x.ino = r.ino /\ x.old = r.old /\ x.e = r.e /\ x.op = o1
      /\ x.path = Tail(r.path) /\ x.inr = n /\ x.goal = "iget" /\ x.puts = r.puts /\ x.then = r.then
  BY FieldsAre DEF IsRecord, Found1
<1>2. /\ IsRecord(y) /\ y.dir = NULL /\ y.ino = x.ino /\ y.old = x.old /\ y.e = x.e /\ y.op = x.op
      /\ y.path = x.path /\ y.inr = x.inr /\ y.goal = x.goal
  BY <1>1, FieldsAre DEF IsRecord, WithoutDir
<1>3. /\ IsRecord(z) /\ z.dir = x.dir /\ z.ino = x.ino /\ z.old = x.old /\ z.e = x.e /\ z.op = x.op
      /\ z.path = x.path /\ z.inr = x.inr /\ z.goal = x.goal /\ z.puts = x.puts /\ z.then = x.then
      /\ z.pc = "empty"
  BY <1>1, FieldsAre DEF IsRecord, ToEmpty
<1> QED BY <1>1, <1>2, <1>3

LEMMA FoundKeeps ==
  ASSUME Inv, NEW p \in Proc, pr[p].pc = "find", NEW n, n # 0, NEW b, Found(p, n, b), UNCHANGED <<imap, fd>>
  PROVE  Inv'
<1>1. PICK r, a, o, g : r = pr[p] /\ a = pr[p].dir /\ o = pr[p].old /\ g = fd[p]
  OBVIOUS
<1>2. /\ IsRecord(r) /\ r.puts = <<>> /\ r.dir # NULL /\ r.ino = NULL /\ r.e = NULL /\ Walking(r)
      /\ r.path \in Seq(Name) \ {<<>>}
  BY <1>1, Now DEF Keeps
<1>3. a \in Slot /\ o \in SlotOrNULL /\ Balanced(p, itab, a, o, fd[p])
  BY <1>1, <1>2, HasDirOld
<1>4. g \in SlotOrNULL /\ (Opening(r) => g = NULL) /\ fd' = [fd EXCEPT ![p] = g]
  BY <1>1, FileNow
<1>5. TabOK(p, itab) /\ Balanced(p, itab, a, o, g)
  BY <1>1, <1>3, TabNow
<1>6. UNCHANGED tainted /\ Rest
  BY RestSame DEF Found
<1>7. PICK op \in Call(p) :
        \/ /\ op \in {"walk", "open", "creat"} \/ (op = "link" /\ r.old = NULL)
           /\ Go(p, itab, PutThen(WithoutDir(Found1(r, op, n)), r.dir, "empty"))
        \/ /\ op \in {"unlink", "rmdir"}
           /\ Go(p, itab, ToEmpty(Found1(r, op, n), b))
        \/ Go(p, itab, Leave(<<r.dir>> \o Opt(r.old)))
  BY <1>1, Zenon DEF Found, WithoutDir, Found1, ToEmpty
<1>8. /\ op = "walk" \/ op \in {"open", "creat", "mkdir", "rmdir", "unlink", "link"}
      /\ op = "walk" => Tail(r.path) \in Seq(Name) \ {<<>>}
      /\ op # "walk" => Tail(r.path) = <<>>
      /\ op \in {"open", "creat"} => g = NULL
      /\ op \in {"walk", "link"} \/ r.old = NULL
      /\ r.op \notin {"open", "creat"}
  BY <1>1, CallIs
<1>9. PICK x, y, z, o1 : /\ x = Found1(r, op, n) /\ y = WithoutDir(x) /\ z = ToEmpty(x, b)
                         /\ o1 = IF op = "walk" THEN r.op ELSE op
  OBVIOUS
<1>10. /\ IsRecord(y) /\ y.dir = NULL /\ y.ino = NULL /\ y.old = o /\ y.e = NULL /\ y.op = o1
       /\ y.path = Tail(r.path) /\ y.inr = n /\ y.goal = "iget"
       /\ IsRecord(z) /\ z.dir = a /\ z.ino = NULL /\ z.old = o /\ z.e = NULL /\ z.op = o1
       /\ z.path = Tail(r.path) /\ z.inr = n /\ z.goal = "iget" /\ z.puts = <<>> /\ z.then = r.then
       /\ z.pc = "empty"
  BY <1>1, <1>2, <1>9, FoundRecord
<1>11. CASE /\ op \in {"walk", "open", "creat"} \/ (op = "link" /\ r.old = NULL)
            /\ Go(p, itab, PutThen(y, a, "empty"))
  <2>1. Wants(y)
    <3>1. CASE op = "walk"
      <4>1. y.path \in Seq(Name) \ {<<>>} /\ y.op = r.op
        BY <1>8, <1>9, <1>10, <3>1
      <4>2. Walking(y)
        BY <1>1, <1>2, <1>10, <4>1 DEF Walking
      <4> QED BY <1>10, <4>1, <4>2 DEF Wants
    <3>2. CASE op # "walk"
      <4>1. y.path = <<>> /\ y.op = op /\ y.old = NULL /\ op \notin {"unlink", "rmdir"}
        BY <1>1, <1>8, <1>9, <1>10, <1>11, <3>2
      <4> QED BY <1>10, <4>1 DEF Wants
    <3> QED BY <3>1, <3>2
  <2>2. PICK pc, w : pc = "empty" /\ w = PutThen(y, a, pc)
    OBVIOUS
  <2>3. Keeps(pc, y) /\ pc \in {"empty", "opened", "linked", "mkfail"}
    BY <1>10, <2>1, <2>2 DEF Keeps
  <2>4. Pair(y, NULL, o)
    BY <1>10 DEF Pair
  <2>5. Holds(w, a, o) /\ w.pc = "iput" /\ (Opening(w) => y.op \in {"open", "creat"} \/ pc = "opened")
    BY <1>3, <1>10, <2>2, <2>3, <2>4, PutThenHolds
  <2>6. Opening(w) => g = NULL
    BY <1>8, <1>9, <1>10, <2>2, <2>5
  <2>7. Go(p, itab, w)
    BY <1>11, <2>2
  <2> QED BY <1>4, <1>5, <1>6, <2>5, <2>6, <2>7, Continue
<1>12. CASE op \in {"unlink", "rmdir"} /\ Go(p, itab, z)
  <2>1. z.path = <<>> /\ z.op = op /\ z.old = NULL /\ o = NULL /\ z.dir # NULL
    BY <1>1, <1>2, <1>8, <1>9, <1>10, <1>12
  <2>2. Wants(z)
    BY <1>10, <1>12, <2>1 DEF Wants
  <2>3. Keeps(z.pc, z)
    BY <1>10, <2>2 DEF Keeps
  <2>4. Pair(z, a, o) /\ a \in SlotOrNULL
    BY <1>3, <1>10 DEF Pair, SlotOrNULL
  <2>5. z.pc # "write" /\ z.pc # "scan"
    BY <1>10
  <2>6. Holds(z, a, o)
    BY <1>3, <1>10, <2>3, <2>4, <2>5, NewPair
  <2>7. Opening(z) => g = NULL
    BY <1>4, <1>10, <1>12, <2>1 DEF Opening
  <2> QED BY <1>4, <1>5, <1>6, <1>12, <2>5, <2>6, <2>7, Continue
<1>13. CASE Go(p, itab, Leave(<<r.dir>> \o Opt(r.old)))
  <2>1. PICK w : w = Leave(<<a>> \o Opt(o))
    OBVIOUS
  <2>2. Leaves(w, a, o)
    BY <1>3, <2>1, LeaveOpt
  <2>3. Go(p, itab, w)
    BY <1>1, <1>13, <2>1, Zenon
  <2> QED BY <1>3, <1>5, <1>6, <2>2, <2>3, LeaveStep
<1> QED BY <1>1, <1>7, <1>9, <1>11, <1>12, <1>13, Zenon

\* The record of a process that will make the name.
ToMake(r, op) == [r EXCEPT !.op = op, !.goal = "add", !.n = 0,
                           !.pc = IF op = "link" THEN "add" ELSE "empty",
                           !.i = IF op = "link" THEN 1 ELSE 0]

LEMMA MissingKeeps ==
  ASSUME Inv, NEW p \in Proc, pr[p].pc = "find", Missing(p), UNCHANGED <<imap, fd>>
  PROVE  Inv'
<1>1. PICK r, a, o, g : r = pr[p] /\ a = pr[p].dir /\ o = pr[p].old /\ g = fd[p]
  OBVIOUS
<1>2. /\ IsRecord(r) /\ r.puts = <<>> /\ r.dir # NULL /\ r.ino = NULL /\ r.e = NULL /\ Walking(r)
      /\ r.path \in Seq(Name) \ {<<>>}
  BY <1>1, Now DEF Keeps
<1>3. a \in Slot /\ o \in SlotOrNULL /\ Balanced(p, itab, a, o, fd[p])
  BY <1>1, <1>2, HasDirOld
<1>4. g \in SlotOrNULL /\ (Opening(r) => g = NULL) /\ fd' = [fd EXCEPT ![p] = g]
  BY <1>1, FileNow
<1>5. TabOK(p, itab) /\ Balanced(p, itab, a, o, g)
  BY <1>1, <1>3, TabNow
<1>6. Rest
  BY RestSame DEF Missing
<1>7. PICK op \in Call(p) :
        \/ Go(p, itab, Leave(<<r.dir>> \o Opt(r.old)))
        \/ /\ op \notin {"walk", "open", "unlink", "rmdir"} /\ ~(op = "link" /\ r.old = NULL)
           /\ Go(p, itab, ToMake(r, op))
  BY <1>1, Zenon DEF Missing, ToMake
<1>8. /\ op = "walk" \/ op \in {"open", "creat", "mkdir", "rmdir", "unlink", "link"}
      /\ op \in {"open", "creat"} => g = NULL
      /\ op \in {"walk", "link"} \/ r.old = NULL
  BY <1>1, CallIs
<1>9. CASE Go(p, itab, Leave(<<r.dir>> \o Opt(r.old)))
  <2>1. PICK w : w = Leave(<<a>> \o Opt(o))
    OBVIOUS
  <2>2. Leaves(w, a, o)
    BY <1>3, <2>1, LeaveOpt
  <2>3. Go(p, itab, w)
    BY <1>1, <1>9, <2>1, Zenon
  <2> QED BY <1>3, <1>5, <1>6, <2>2, <2>3, LeaveStep
<1>10. CASE /\ op \notin {"walk", "open", "unlink", "rmdir"} /\ ~(op = "link" /\ r.old = NULL)
            /\ Go(p, itab, ToMake(r, op))
  <2>1. PICK x : x = ToMake(r, op)
    OBVIOUS
  <2>2. /\ IsRecord(x) /\ x.op = op /\ x.goal = "add" /\ x.pc = (IF op = "link" THEN "add" ELSE "empty")
        /\ x.dir = r.dir /\ x.old = r.old /\ x.ino = r.ino /\ x.e = r.e /\ x.puts = r.puts /\ x.then = r.then
    BY <1>2, <2>1, FieldsAre DEF IsRecord, ToMake
  <2>3. op \in {"creat", "mkdir", "link"} /\ (op = "link" => o # NULL) /\ (op # "link" => o = NULL)
    BY <1>1, <1>8, <1>10
  <2>4. x.dir = a /\ x.old = o /\ x.ino = NULL /\ x.e = NULL /\ x.puts = <<>> /\ a # NULL
    BY <1>1, <1>2, <2>2
  <2>5. Keeps(x.pc, x)
    <3>1. CASE op = "link"
      <4>1. Only(x, {"dir", "old"})
        BY <2>3, <2>4, <3>1, OnlyParts
      <4>2. Only(x, {"dir", IF x.op = "link" THEN "old" ELSE "ino"})
        BY <2>2, <3>1, <4>1
      <4> QED BY <2>2, <3>1, <4>2 DEF Keeps
    <3>2. CASE op # "link"
      <4>1. Wants(x)
        BY <2>2, <2>3, <2>4, <3>2 DEF Wants
      <4> QED BY <2>2, <2>4, <3>2, <4>1 DEF Keeps
    <3> QED BY <3>1, <3>2
  <2>6. x.pc # "write" /\ x.pc # "scan" /\ x.pc # "opened" /\ x.pc # "otrunc"
    BY <2>2
  <2>7. Pair(x, a, o) /\ a \in SlotOrNULL
    BY <1>3, <2>4 DEF Pair, SlotOrNULL
  <2>8. Holds(x, a, o)
    BY <1>3, <2>2, <2>4, <2>5, <2>6, <2>7, NewPair
  <2>9. Opening(x) => g = NULL
    BY <1>4, <1>8, <2>2, <2>6 DEF Opening
  <2>10. Go(p, itab, x)
    BY <1>10, <2>1
  <2> QED BY <1>4, <1>5, <1>6, <2>6, <2>8, <2>9, <2>10, Continue
<1> QED BY <1>7, <1>9, <1>10

LEMMA find_entryKeeps ==
  ASSUME Inv, NEW p \in Proc, find_entry(p)
  PROVE  Inv'
<1>1. PICK r, a, o : r = pr[p] /\ a = pr[p].dir /\ o = pr[p].old
  OBVIOUS
<1>2. r.pc = "find" /\ UNCHANGED <<imap, fd>>
  BY <1>1 DEF find_entry, At
<1>3. CASE Missing(p)
  BY <1>1, <1>2, <1>3, MissingKeeps
<1>4. CASE \E n, b : n # 0 /\ Found(p, n, b)
  BY <1>1, <1>2, <1>4, FoundKeeps
<1>5. CASE Go(p, itab, [r EXCEPT !.i = @ + 1]) /\ UNCHANGED tainted
  <2>1. PICK x : x = [r EXCEPT !.i = @ + 1]
    OBVIOUS
  <2>2. /\ IsRecord(r) /\ r.puts = <<>> /\ r.dir # NULL /\ r.ino = NULL /\ r.e = NULL /\ Keeps("find", r)
    BY <1>1, <1>2, Now DEF Keeps
  <2>3. SameLocals(r, x) /\ IsRecord(x) /\ x.puts = <<>> /\ x.then = r.then /\ x.pc = "find"
    BY <1>2, <2>1, <2>2, FieldsAre DEF IsRecord, SameLocals
  <2>4. Holds(r, a, o) /\ Balanced(p, itab, a, o, fd[p])
    BY <1>1, <2>2, HasDirOld
  <2>5. x.pc \notin {"write", "scan", "opened", "otrunc"} /\ Keeps(x.pc, r)
    BY <2>2, <2>3
  <2>6. Go(p, itab, x) /\ Rest
    BY <1>2, <1>5, <2>1, RestSame
  <2> QED BY <1>1, <1>2, <2>2, <2>3, <2>4, <2>5, <2>6, TabNow, MoveOn
<1> QED BY <1>1, <1>3, <1>4, <1>5, Zenon DEF find_entry

\* A process that is putting inodes: the first is s.
LEMMA Putting ==
  ASSUME Inv, NEW p \in Proc, pr[p].pc \in {"iput", "trunc"} \/ pr[p].puts # <<>>
  PROVE  /\ RecordOK(pr[p]) /\ pr[p].puts # <<>> /\ 1 \in 1 .. Len(pr[p].puts)
         /\ Head(pr[p].puts) = pr[p].puts[1] /\ Head(pr[p].puts) \in Slot
         /\ pr[p].pc \in {"iput", "trunc", "write"} /\ Keeps(pr[p].then, pr[p])
         /\ pr[p].then \in {"user", "empty", "opened", "linked", "mkfail"}
<1>1. PICK r : r = pr[p]
  OBVIOUS
<1>2. RecordOK(r)
  BY <1>1 DEF Inv
<1>3. r.puts # <<>>
  BY <1>1, <1>2 DEF RecordOK, Keeps
<1>4. /\ r.pc \in {"iput", "trunc", "write"} /\ Keeps(r.then, r)
      /\ r.then \in {"user", "empty", "opened", "linked", "mkfail"}
  BY <1>2, <1>3 DEF RecordOK
<1>5. PutsOK(r)
  BY <1>2 DEF RecordOK, PutsOK
<1>6. Len(r.puts) \in 0 .. 2 /\ Len(r.puts) # 0 /\ \A k \in 1 .. Len(r.puts) : r.puts[k] \in Slot
  BY <1>3, <1>5, PutFacts
<1>7. 1 \in 1 .. Len(r.puts)
  BY <1>6
<1>8. Head(r.puts) = r.puts[1]
  BY <1>5, <1>7 DEF PutsOK
<1> QED BY <1>1, <1>2, <1>3, <1>4, <1>6, <1>7, <1>8

\* The reference it gives up.
LEMMA PutCounts ==
  ASSUME Inv, NEW p \in Proc, pr[p].pc \in {"iput", "trunc"}, NEW s, s = Head(pr[p].puts), NEW x, x = Put(pr[p], 1)
  PROVE  /\ s \in Slot /\ RecordOK(x) /\ x.pc # "scan" /\ (Opening(x) => Opening(pr[p]))
         /\ \A t \in Slot : Own(x, fd[p], t) = Own(pr[p], fd[p], t) - One(s = t)
         /\ itab[s].count \in Nat /\ itab[s].count >= 1 + One(itab[s].num = ROOT_INO)
<1>1. PICK r, g, n : r = pr[p] /\ g = fd[p] /\ n = 1
  OBVIOUS
<1>2. RecordOK(r) /\ n \in 1 .. Len(r.puts) /\ s = r.puts[1] /\ s \in Slot
  BY <1>1, Putting
<1>3. /\ RecordOK(Put(r, n)) /\ Put(r, n).pc # "scan" /\ (Opening(Put(r, n)) => Opening(r))
      /\ \A h, t : t \in Slot => Own(Put(r, n), h, t) = Own(r, h, t) - Same(r, n, t)
  BY <1>2, AfterPut
<1>4. x = Put(r, n)
  BY <1>1
<1>5. ASSUME NEW t \in Slot PROVE Own(x, g, t) = Own(r, g, t) - One(s = t)
  <2>1. Same(r, n, t) = One(s = t)
    BY <1>1, <1>2, SameCount
  <2> QED BY <1>3, <1>4, <2>1
<1>6. itab[s].count \in Nat /\ itab[s].count >= Own(r, g, s) + One(itab[s].num = ROOT_INO)
  BY <1>1, <1>2, Counts
<1>7. Own(x, g, s) \in Nat /\ Own(r, g, s) \in Nat /\ Own(x, g, s) = Own(r, g, s) - One(s = s)
  BY <1>2, <1>5, OwnNat
<1>8. One(s = s) = 1 /\ One(itab[s].num = ROOT_INO) \in Nat
  BY DEF One
<1>9. itab[s].count >= 1 + One(itab[s].num = ROOT_INO)
  BY <1>6, <1>7, <1>8
<1> QED BY <1>1, <1>2, <1>3, <1>4, <1>5, <1>6, <1>9

\* The slot s has a user less: v is what it becomes.
LEMMA PutTab ==
  ASSUME Inv, NEW p \in Proc, pr[p].pc \in {"iput", "trunc"}, NEW s, s = Head(pr[p].puts), NEW x, x = Put(pr[p], 1),
         NEW v, v = [f \in InodeFields |-> v[f]], v.dirt \in BOOLEAN, v.lock \in BOOLEAN,
         v.count = itab[s].count - 1, v.count = 0 => ~v.dirt /\ ~v.lock,
         v.num = itab[s].num \/ (v.num = 0 /\ itab[s].count <= 1),
         NEW new, new = Replaced(itab, s, v)
  PROVE  TabOK(p, new) /\ Counted(p, new, x, fd[p])
<1>1. /\ s \in Slot /\ itab[s].count \in Nat /\ itab[s].count >= 1 + One(itab[s].num = ROOT_INO)
      /\ \A t \in Slot : Own(x, fd[p], t) = Own(pr[p], fd[p], t) - One(s = t)
  BY PutCounts
<1>2. TabOK(p, itab)
  BY TabNow
<1>3. /\ new = [t \in Slot |-> new[t]] /\ new[s] = v /\ \A t \in Slot : t # s => new[t] = itab[t]
  BY <1>1 DEF Replaced
<1>4. itab[s].count >= 1 /\ v.count \in Nat
  <2>1. One(itab[s].num = ROOT_INO) \in Nat
    BY DEF One
  <2> QED BY <1>1, <2>1
<1>5. v.num = ROOT_INO <=> itab[s].num = ROOT_INO
  <2>1. CASE v.num = itab[s].num
    BY <2>1
  <2>2. CASE v.num = 0 /\ itab[s].count <= 1
    <3>1. itab[s].num # ROOT_INO
      BY <1>1, <2>2 DEF One
    <3>2. v.num # ROOT_INO
      BY <2>2 DEF ROOT_INO
    <3> QED BY <3>1, <3>2
  <2> QED BY <2>1, <2>2
<1>6. itab[s].num = 0 => v.num = 0 /\ itab[s].count <= 1
  BY <1>1, <1>2 DEF TabOK
<1>7. v.num = 0 => v.count <= 1
  BY <1>1, <1>4, <1>6
<1>8. TableOK(new)
  <2>1. TableOK(itab)
    BY DEF Inv
  <2> QED BY <1>3, <1>4, <2>1 DEF TableOK
<1>9. RootsSame(new)
  BY <1>3, <1>5 DEF RootsSame
<1>10. \A t \in Slot : new[t].num = 0 => new[t].count <= 1
  BY <1>2, <1>3, <1>7 DEF TabOK
<1>11. ASSUME NEW q \in Proc \ {p}, pr[q].pc = "scan" PROVE new[pr[q].e].num = 0
  <2>1. pr[q].e \in Slot /\ itab[pr[q].e].num = 0
    BY <1>2, <1>11, ScanSlot DEF Inv, TabOK
  <2> QED BY <1>3, <1>6, <2>1
<1>12. tainted \/ Clean(new)
  BY <1>2, <1>3 DEF TabOK, Clean
<1>13. TabOK(p, new)
  BY <1>8, <1>9, <1>10, <1>11, <1>12 DEF TabOK
<1>14. ASSUME NEW t \in Slot
       PROVE  new[t].count = itab[t].count + Own(x, fd[p], t) - Own(pr[p], fd[p], t)
  <2>1. Own(x, fd[p], t) = Own(pr[p], fd[p], t) - One(s = t) /\ Own(pr[p], fd[p], t) \in Nat /\ itab[t].count \in Nat
    BY <1>1, OwnNat, Counts
  <2>2. CASE t = s
    <3>1. One(s = t) = 1 /\ new[t].count = itab[t].count - 1
      BY <1>3, <2>2 DEF One
    <3> QED BY <2>1, <3>1
  <2>3. CASE t # s
    <3>1. One(s = t) = 0 /\ new[t].count = itab[t].count
      BY <1>3, <2>3 DEF One
    <3> QED BY <2>1, <3>1
  <2> QED BY <2>2, <2>3
<1> QED BY <1>13, <1>14 DEF Counted

LEMMA PutKeeps ==
  ASSUME Inv, NEW p \in Proc, pr[p].pc \in {"iput", "trunc"}, NEW s, s = Head(pr[p].puts),
         NEW v, v = [f \in InodeFields |-> v[f]], v.dirt \in BOOLEAN, v.lock \in BOOLEAN,
         v.count = itab[s].count - 1, v.count = 0 => ~v.dirt /\ ~v.lock,
         v.num = itab[s].num \/ (v.num = 0 /\ itab[s].count <= 1),
         NEW new, new = Replaced(itab, s, v), Go(p, new, Put(pr[p], 1)), UNCHANGED fd, Rest
  PROVE  Inv'
<1>1. PICK x, g : x = Put(pr[p], 1) /\ g = fd[p]
  OBVIOUS
<1>2. RecordOK(x) /\ x.pc # "scan" /\ (Opening(x) => Opening(pr[p]))
  BY <1>1, PutCounts
<1>3. TabOK(p, new) /\ Counted(p, new, x, fd[p])
  BY <1>1, PutTab
<1>4. g \in SlotOrNULL /\ (Opening(pr[p]) => g = NULL) /\ fd' = [fd EXCEPT ![p] = g]
  BY <1>1, FileNow
<1>5. Counted(p, new, x, g) /\ Go(p, new, x)
  BY <1>1, <1>3
<1> QED BY <1>2, <1>3, <1>4, <1>5, Proceed

LEMMA free_inodeKeeps ==
  ASSUME Inv, NEW p \in Proc, pr[p].pc \in {"iput", "trunc"}, NEW s, s = Head(pr[p].puts), NEW zones,
         free_inode(p, s, zones)
  PROVE  Inv'
<1>1. /\ s \in Slot /\ itab[s].count \in Nat /\ itab[s].count >= 1 + One(itab[s].num = ROOT_INO)
  <2>1. PICK x : x = Put(pr[p], 1)
    OBVIOUS
  <2> QED BY <2>1, PutCounts
<1>2. CASE itab[s].count > 1
  <2>1. UNCHANGED <<itab, pr, fd, imap, tainted>>
    BY <1>2 DEF free_inode
  <2> QED BY <2>1, PanicKeeps
<1>3. CASE ~(itab[s].count > 1)
  <2>1. PICK v, new : v = Unused /\ new = SetSlot(itab, s, v)
    OBVIOUS
  <2>2. /\ Go(p, new, Put(pr[p], 1)) /\ UNCHANGED fd /\ imap' = imap \ {itab[s].num}
        /\ tainted' = (tainted \/ itab[s].lock \/ Wanted(p, itab[s].num))
    BY <1>3, <2>1, Zenon DEF free_inode, SetSlot
  <2>3. itab[s].count = 1 /\ itab[s].num # ROOT_INO
    BY <1>1, <1>3 DEF One
  <2>4. Rest
    BY <2>2, <2>3 DEF Inv, Rest
  <2>5. TableOK(itab)
    BY DEF Inv
  <2>6. new = Replaced(itab, s, v)
    BY <1>1, <2>1, <2>5, SlotForms
  <2>7. v = [f \in InodeFields |-> v[f]] /\ v.count = 0 /\ v.num = 0 /\ v.dirt = FALSE /\ v.lock = FALSE
    BY <2>1, UnusedFields
  <2>8. v.dirt \in BOOLEAN /\ v.lock \in BOOLEAN /\ ~v.dirt /\ ~v.lock
    BY <2>7
  <2>9. v.count = itab[s].count - 1 /\ itab[s].count <= 1
    BY <2>3, <2>7
  <2> QED BY <2>2, <2>4, <2>6, <2>7, <2>8, <2>9, PutKeeps
<1> QED BY <1>2, <1>3

\* It goes on putting the same inodes.
LEMMA StillPutting ==
  ASSUME Inv, NEW p \in Proc, NEW r, r = pr[p], r.puts # <<>>, NEW x, IsRecord(x), SameLocals(r, x), x.puts = r.puts,
         x.then = r.then, x.pc \in {"iput", "trunc", "write"}, NEW tab, Touched(itab, tab)
  PROVE  /\ RecordOK(x) /\ Counted(p, tab, x, fd[p]) /\ TabOK(p, tab) /\ x.pc # "scan"
         /\ Opening(x) => Opening(r)
<1>1. /\ RecordOK(r) /\ Keeps(r.then, r) /\ r.then \in {"user", "empty", "opened", "linked", "mkfail"}
  BY Putting
<1>2. Keeps(r.then, x)
  BY <1>1, KeepsSame
<1>3. RecordOK(x)
  <2>1. {x.dir, x.ino, x.old, x.e} \subseteq SlotOrNULL
    BY <1>1 DEF RecordOK, SameLocals
  <2>2. x.puts \in Seq(Slot) /\ Len(x.puts) <= 2
    BY <1>1 DEF RecordOK
  <2> QED BY <1>1, <1>2, <2>1, <2>2 DEF RecordOK, IsRecord
<1>4. TabOK(p, tab) /\ \A s \in Slot : tab[s].count = itab[s].count
  BY TabNow, TouchedTab
<1>5. ASSUME NEW s \in Slot PROVE tab[s].count = itab[s].count + Own(x, fd[p], s) - Own(r, fd[p], s)
  <2>1. Own(x, fd[p], s) = Own(r, fd[p], s)
    BY Zenon DEF Own, Fields4, PutsOf, SameLocals
  <2>2. Own(r, fd[p], s) \in Nat /\ itab[s].count \in Nat
    BY OwnNat, Counts
  <2> QED BY <1>4, <2>1, <2>2
<1>6. Counted(p, tab, x, fd[p])
  BY <1>5 DEF Counted
<1>7. Opening(x) => Opening(r)
  BY DEF Opening, SameLocals
<1> QED BY <1>3, <1>4, <1>6, <1>7

\* The next step of it ends in Go, or not.
LEMMA StillPuttingGo ==
  ASSUME Inv, NEW p \in Proc, NEW r, r = pr[p], r.puts # <<>>, NEW x, IsRecord(x), SameLocals(r, x), x.puts = r.puts,
         x.then = r.then, x.pc \in {"iput", "trunc", "write"}, NEW tab, Touched(itab, tab),
         Go(p, tab, x) \/ (itab' = tab /\ pr' = [pr EXCEPT ![p] = x]), UNCHANGED fd, Rest
  PROVE  Inv'
<1>1. /\ RecordOK(x) /\ Counted(p, tab, x, fd[p]) /\ TabOK(p, tab) /\ x.pc # "scan"
      /\ Opening(x) => Opening(r)
  BY StillPutting
<1>2. PICK g : g = fd[p]
  OBVIOUS
<1>3. g \in SlotOrNULL /\ (Opening(pr[p]) => g = NULL) /\ fd' = [fd EXCEPT ![p] = g]
  BY <1>2, FileNow
<1>4. Counted(p, tab, x, g) /\ (Opening(x) => g = NULL)
  BY <1>1, <1>2, <1>3
<1>5. CASE Go(p, tab, x)
  BY <1>1, <1>3, <1>4, <1>5, Proceed
<1>6. CASE itab' = tab /\ pr' = [pr EXCEPT ![p] = x]
  <2>1. FreshIn(p, tab, x)
    BY <1>1 DEF TabOK, FreshIn
  <2>2. Ready(p, tab, x, g)
    BY <1>1, <1>3, <1>4, <2>1 DEF Ready, TabOK
  <2>3. Ready(p, itab', x, g)
    BY <1>6, <2>2, Zenon
  <2>4. tainted' \in BOOLEAN /\ ROOT_INO \in imap' /\ imap' \subseteq Ino /\ (tainted => tainted')
    BY DEF Rest
  <2>5. tainted \/ Clean(itab')
    BY <1>1, <1>6, Zenon DEF TabOK
  <2> QED BY <1>3, <1>6, <2>3, <2>4, <2>5, Settle
<1> QED BY <1>5, <1>6

LEMMA TouchedSame ==
  ASSUME Inv
  PROVE  Touched(itab, itab)
BY DEF Inv, TableOK, Touched

LEMMA TouchedForms ==
  ASSUME Inv, NEW s \in Slot, itab[s].count # 0, NEW x
  PROVE  /\ Touched(itab, SetD(itab, s, x))
         /\ x \in BOOLEAN => Touched(itab, SetLock(itab, s, x))
<1>1. PICK tab : tab = itab
  OBVIOUS
<1>2. TableOK(tab) /\ tab[s].count # 0
  BY <1>1 DEF Inv
<1>3. PICK dirt, lock, d : dirt = tab[s].dirt /\ lock = tab[s].lock /\ d = tab[s].d
  OBVIOUS
<1>4. /\ dirt \in BOOLEAN /\ lock \in BOOLEAN
      /\ SetLock(tab, s, x) = Changed(tab, s, dirt, x, d) /\ SetD(tab, s, x) = Changed(tab, s, dirt, lock, x)
  BY <1>2, <1>3, Forms
<1>5. Touched(tab, SetD(tab, s, x))
  <2>1. PICK v, new : v = WithContent(tab[s], dirt, lock, x) /\ new = SetD(tab, s, x)
    OBVIOUS
  <2>2. Edited(tab[s], v)
    BY <1>2, <1>4, <2>1, ContentEdited
  <2>3. new = Replaced(tab, s, v)
    BY <1>4, <2>1, Zenon DEF Changed
  <2>4. Touched(tab, new)
    BY <1>2, <2>2, <2>3, TouchOne
  <2> QED BY <2>1, <2>4
<1>6. ASSUME x \in BOOLEAN PROVE Touched(tab, SetLock(tab, s, x))
  <2>1. PICK v, new : v = WithContent(tab[s], dirt, x, d) /\ new = SetLock(tab, s, x)
    OBVIOUS
  <2>2. Edited(tab[s], v)
    BY <1>2, <1>4, <1>6, <2>1, ContentEdited
  <2>3. new = Replaced(tab, s, v)
    BY <1>4, <2>1, Zenon DEF Changed
  <2>4. Touched(tab, new)
    BY <1>2, <2>2, <2>3, TouchOne
  <2> QED BY <2>1, <2>4
<1> QED BY <1>1, <1>5, <1>6, Zenon

\* The forms in which iput changes the inode and the process.
Dropped(tab, s) == [tab EXCEPT ![s].count = @ - 1]
ToTrunc(r, b) == [r EXCEPT !.pc = "trunc", !.blk = b]
ToWrite(r, s) == [r EXCEPT !.pc = "write", !.w = s]

LEMMA iputKeeps ==
  ASSUME Inv, NEW p \in Proc, iput(p)
  PROVE  Inv'
<1>1. PICK r, s, u : r = pr[p] /\ s = Head(pr[p].puts) /\ u = itab[s]
  OBVIOUS
<1>2. r.pc = "iput" /\ ~u.lock
  BY <1>1 DEF iput, At
<1>3. RecordOK(r) /\ r.puts # <<>> /\ s \in Slot
  BY <1>1, <1>2, Putting
<1>4. IsRecord(r)
  BY <1>3 DEF RecordOK, IsRecord
<1>5. /\ u = [f \in InodeFields |-> u[f]] /\ u.count \in Nat /\ u.dirt \in BOOLEAN /\ u.lock \in BOOLEAN
      /\ itab = [t \in Slot |-> itab[t]]
  BY <1>1, <1>3 DEF Inv, TableOK
<1>6. CASE /\ u.count > 1 \/ (u.d.nlinks > 0 /\ ~MustWrite(u))
           /\ Go(p, Dropped(itab, s), Put(r, 1)) /\ UNCHANGED <<imap, fd, tainted>>
  <2>1. PICK v, new : v = [u EXCEPT !.count = u.count - 1] /\ new = Dropped(itab, s)
    OBVIOUS
  <2>2. v = [f \in InodeFields |-> v[f]] /\ v.count = u.count - 1 /\ v.num = u.num /\ v.dirt = u.dirt /\ v.lock = u.lock
    BY <1>5, <2>1 DEF InodeFields
  <2>3. new = Replaced(itab, s, v)
    <3>1. new = [itab EXCEPT ![s] = v]
      BY <1>1, <1>3, <1>5, <2>1 DEF Dropped
    <3>2. new = SetSlot(itab, s, v)
      BY <3>1, Zenon DEF SetSlot
    <3>3. TableOK(itab)
      BY DEF Inv
    <3> QED BY <1>3, <3>2, <3>3, SlotForms
  <2>4. v.count = 0 => ~v.dirt /\ ~v.lock
    <3>1. ASSUME v.count = 0 PROVE ~u.dirt
      <4>1. ~(u.count > 1)
        BY <1>5, <2>2, <3>1
      <4> QED BY <1>6, <4>1 DEF MustWrite
    <3> QED BY <1>2, <2>2, <3>1
  <2>5. Go(p, new, Put(pr[p], 1)) /\ Rest
    BY <1>1, <1>6, <2>1, RestSame
  <2>6. v.dirt \in BOOLEAN /\ v.lock \in BOOLEAN /\ v.count = itab[s].count - 1 /\ v.num = itab[s].num
    BY <1>1, <1>5, <2>2
  <2>7. pr[p].pc \in {"iput", "trunc"}
    BY <1>1, <1>2
  <2> QED BY <1>1, <1>6, <2>2, <2>3, <2>4, <2>5, <2>6, <2>7, PutKeeps
<1>7. CASE free_inode(p, s, zmap)
  BY <1>1, <1>2, <1>7, free_inodeKeeps
<1>8. CASE /\ pr' = [pr EXCEPT ![p].pc = "trunc", ![p].blk = Head(u.d.zone)]
           /\ tainted' = (tainted \/ Wanted(p, u.num)) /\ UNCHANGED <<itab, imap, fd>>
  <2>1. PICK x, b : b = Head(u.d.zone) /\ x = ToTrunc(r, b)
    OBVIOUS
  <2>2. /\ IsRecord(x) /\ SameLocals(r, x) /\ x.puts = r.puts /\ x.then = r.then /\ x.pc = "trunc"
    BY <1>4, <2>1, FieldsAre DEF IsRecord, SameLocals, ToTrunc
  <2>3. pr' = [pr EXCEPT ![p] = x]
    <3>1. pr = [q \in Proc |-> pr[q]]
      BY DEF Inv
    <3> QED BY <1>1, <1>8, <2>1, <3>1 DEF ToTrunc
  <2>4. Rest
    BY <1>8, RestSame
  <2>5. PICK tab : tab = itab
    OBVIOUS
  <2>6. Touched(itab, tab) /\ itab' = tab /\ UNCHANGED fd
    BY <1>8, <2>5, TouchedSame
  <2> QED BY <1>1, <1>3, <2>2, <2>3, <2>4, <2>6, StillPuttingGo
<1>9. CASE /\ u.count = 1 /\ Go(p, SetLock(itab, s, TRUE), ToWrite(r, s))
           /\ UNCHANGED <<imap, fd, tainted>>
  <2>1. PICK x, b, tab : b = TRUE /\ tab = SetLock(itab, s, b) /\ x = ToWrite(r, s)
    OBVIOUS
  <2>2. /\ IsRecord(x) /\ SameLocals(r, x) /\ x.puts = r.puts /\ x.then = r.then /\ x.pc = "write"
    BY <1>4, <2>1, FieldsAre DEF IsRecord, SameLocals, ToWrite
  <2>3. Touched(itab, tab)
    <3>1. itab[s].count # 0 /\ b \in BOOLEAN
      BY <1>1, <1>9, <2>1
    <3> QED BY <1>3, <2>1, <3>1, TouchedForms
  <2>4. Go(p, tab, x) /\ Rest
    BY <1>9, <2>1, RestSame
  <2> QED BY <1>1, <1>3, <1>9, <2>2, <2>3, <2>4, StillPuttingGo
<1> QED BY <1>1, <1>6, <1>7, <1>8, <1>9, Zenon DEF iput, Dropped, SetLock, ToWrite

ZoneLess(tab, s, z) == [tab EXCEPT ![s].d.zone = z]

LEMMA TruncateInPutKeeps ==
  ASSUME Inv, NEW p \in Proc, pr[p].pc = "trunc", NEW z, TruncateInPut(p, z)
  PROVE  Inv'
<1>1. PICK r, s, rest : r = pr[p] /\ s = Head(pr[p].puts) /\ rest = Tail(itab[s].d.zone)
  OBVIOUS
<1>2. RecordOK(r) /\ r.puts # <<>> /\ s \in Slot
  BY <1>1, Putting
<1>3. IsRecord(r)
  BY <1>2 DEF RecordOK, IsRecord
<1>4. itab[s].count # 0
  <2>1. PICK x : x = Put(pr[p], 1)
    OBVIOUS
  <2>2. itab[s].count \in Nat /\ itab[s].count >= 1 + One(itab[s].num = ROOT_INO)
    BY <1>1, <2>1, PutCounts
  <2> QED BY <2>2 DEF One
<1>5. CASE /\ itab' = ZoneLess(itab, s, rest) /\ pr' = [pr EXCEPT ![p].blk = Head(rest)]
           /\ UNCHANGED <<imap, fd, tainted>>
  <2>1. PICK x, b, d, tab : /\ b = Head(rest) /\ x = [r EXCEPT !.blk = b]
                            /\ d = [itab[s].d EXCEPT !.zone = rest] /\ tab = SetD(itab, s, d)
    OBVIOUS
  <2>2. /\ IsRecord(x) /\ SameLocals(r, x) /\ x.puts = r.puts /\ x.then = r.then /\ x.pc = "trunc"
    BY <1>1, <1>3, <2>1, FieldsAre DEF IsRecord, SameLocals
  <2>3. pr' = [pr EXCEPT ![p] = x]
    <3>1. pr = [q \in Proc |-> pr[q]]
      BY DEF Inv
    <3> QED BY <1>1, <1>5, <2>1, <3>1
  <2>4. itab' = tab
    <3>1. itab = [t \in Slot |-> itab[t]] /\ itab[s] = [f \in InodeFields |-> itab[s][f]]
      BY <1>2 DEF Inv, TableOK
    <3>2. ZoneLess(itab, s, rest) = [itab EXCEPT ![s].d = d]
      BY <1>2, <2>1, <3>1 DEF InodeFields, ZoneLess
    <3> QED BY <1>5, <2>1, <3>2, Zenon DEF SetD
  <2>5. Touched(itab, tab)
    BY <1>2, <1>4, <2>1, TouchedForms
  <2>6. Rest /\ UNCHANGED fd
    BY <1>5, RestSame
  <2>7. x.pc \in {"iput", "trunc", "write"}
    BY <2>2
  <2> QED BY <1>1, <1>2, <2>2, <2>3, <2>4, <2>5, <2>6, <2>7, StillPuttingGo
<1>6. ASSUME NEW zones, free_inode(p, s, zones) PROVE Inv'
  BY <1>1, <1>6, free_inodeKeeps
<1> QED BY <1>1, <1>5, <1>6, Zenon DEF TruncateInPut, ZoneLess

LEMMA TruncateInOpenKeeps ==
  ASSUME Inv, NEW p \in Proc, pr[p].pc = "otrunc", NEW z, TruncateInOpen(p, z)
  PROVE  Inv'
<1>1. PICK r, s : r = pr[p] /\ s = pr[p].ino
  OBVIOUS
<1>2. r.pc = "otrunc" /\ r.puts = <<>> /\ Only(r, {"ino"})
  BY <1>1, Now DEF Keeps
<1>3. s \in Slot /\ Balanced(p, itab, s, NULL, fd[p]) /\ itab[s].count # 0
  BY <1>1, <1>2, HasIno
<1>4. fd[p] = NULL
  BY <1>1, <1>2, FileNow DEF Opening
<1>5. PICK d, n1, n2 : /\ d = [itab[s].d EXCEPT !.zone = <<>>]
                       /\ n1 = SetD(itab, s, d) /\ n2 = SetDirt(n1, s, TRUE)
  OBVIOUS
<1>6. itab = [t \in Slot |-> itab[t]] /\ itab[s] = [f \in InodeFields |-> itab[s][f]]
  BY <1>3 DEF Inv, TableOK
<1>7. [itab EXCEPT ![s].d.zone = <<>>] = [itab EXCEPT ![s].d = d]
  BY <1>3, <1>5, <1>6 DEF InodeFields
<1>8. [itab EXCEPT ![s].d.zone = <<>>, ![s].dirt = TRUE] = n2
  BY <1>5, <1>7, Zenon DEF SetDirt, SetD
<1>9. Go(p, n2, User) /\ fd' = [fd EXCEPT ![p] = s] /\ UNCHANGED <<imap, tainted>>
  BY <1>1, <1>8, Zenon DEF TruncateInOpen
<1>10. Balanced(p, itab, NULL, NULL, s)
  BY <1>3, <1>4, BalancedOpen
<1>11. TabOK(p, n1) /\ Balanced(p, n1, NULL, NULL, s) /\ n1[s].count # 0
  BY <1>3, <1>5, <1>10, TabNow, TouchField
<1>12. TabOK(p, n2) /\ Balanced(p, n2, NULL, NULL, s)
  BY <1>3, <1>5, <1>11, TouchField
<1>13. Rest
  BY <1>9, RestSame
<1>14. User.pc # "scan" /\ s \in SlotOrNULL
  BY <1>3, UserOK DEF SlotOrNULL
<1> QED BY <1>9, <1>12, <1>13, <1>14, HoldsUser, UserCloses, Continue

LEMMA truncateKeeps ==
  ASSUME Inv, NEW p \in Proc, truncate(p)
  PROVE  Inv'
<1>1. ASSUME NEW z, Truncate(p, z) PROVE Inv'
  BY <1>1, TruncateInPutKeeps, TruncateInOpenKeeps DEF Truncate
<1>2. CASE UNCHANGED <<itab, pr, fd, imap, tainted>>
  BY <1>2, PanicKeeps
<1> QED BY <1>1, <1>2 DEF truncate

Written(tab, w) == [tab EXCEPT ![w].dirt = FALSE, ![w].lock = FALSE]

LEMMA WrittenTouched ==
  ASSUME Inv, NEW w
  PROVE  Touched(itab, Written(itab, w))
<1>1. PICK tab, new : tab = itab /\ new = Written(itab, w)
  OBVIOUS
<1>2. TableOK(tab)
  BY <1>1 DEF Inv
<1>3. PICK n1 : n1 = SetDirt(tab, w, FALSE)
  OBVIOUS
<1>4. new = SetLock(n1, w, FALSE)
  BY <1>1, <1>3, Zenon DEF Written, SetDirt, SetLock
<1>5. CASE w \notin Slot
  <2>1. tab = [t \in Slot |-> tab[t]]
    BY <1>2 DEF TableOK
  <2>2. n1 = tab
    BY <1>3, <1>5, <2>1 DEF SetDirt
  <2>3. new = tab
    BY <1>4, <1>5, <2>1, <2>2 DEF SetLock
  <2> QED BY <1>1, <2>3, TouchedSame
<1>6. CASE w \in Slot
  <2>1. /\ tab = [t \in Slot |-> tab[t]] /\ tab[w] = [f \in InodeFields |-> tab[w][f]]
    BY <1>2, <1>6 DEF TableOK
  <2>2. /\ n1 = [t \in Slot |-> n1[t]] /\ \A t \in Slot : t # w => n1[t] = tab[t]
        /\ n1[w] = [tab[w] EXCEPT !.dirt = FALSE]
    BY <1>3, <1>6, <2>1 DEF SetDirt
  <2>3. n1[w] = [f \in InodeFields |-> n1[w][f]] /\ n1[w].num = tab[w].num /\ n1[w].count = tab[w].count /\ n1[w].dirt = FALSE
    BY <2>1, <2>2 DEF InodeFields
  <2>4. /\ new = [t \in Slot |-> new[t]] /\ \A t \in Slot : t # w => new[t] = n1[t]
        /\ new[w] = [n1[w] EXCEPT !.lock = FALSE]
    BY <1>4, <1>6, <2>2 DEF SetLock
  <2>5. /\ new[w] = [f \in InodeFields |-> new[w][f]] /\ new[w].num = tab[w].num /\ new[w].count = tab[w].count
        /\ new[w].dirt = FALSE /\ new[w].lock = FALSE
    BY <2>3, <2>4 DEF InodeFields
  <2>6. Edited(tab[w], new[w])
    BY <2>5 DEF Edited
  <2>7. \A t \in Slot : new[t] = tab[t] \/ Edited(tab[t], new[t])
    BY <2>2, <2>4, <2>6
  <2> QED BY <1>1, <2>4, <2>7, Zenon DEF Touched
<1> QED BY <1>5, <1>6

LEMMA write_inodeKeeps ==
  ASSUME Inv, NEW p \in Proc, write_inode(p)
  PROVE  Inv'
<1>1. PICK r, new : r = pr[p] /\ new = Written(itab, pr[p].w)
  OBVIOUS
<1>2. Touched(itab, new)
  BY <1>1, WrittenTouched
<1>3. /\ r.pc = "write" /\ UNCHANGED <<imap, fd, tainted>>
      /\ Go(p, new, IF r.puts = <<>> THEN User ELSE [r EXCEPT !.pc = "iput", !.w = NULL])
  BY <1>1, Zenon DEF write_inode, At, Written
<1>4. Rest
  BY <1>3, RestSame
<1>5. RecordOK(r) /\ IsRecord(r)
  BY <1>1, Now
<1>6. CASE r.puts = <<>>
  <2>1. Only(r, {})
    <3>1. Keeps("user", r)
      BY <1>3, <1>5, <1>6 DEF RecordOK
    <3> QED BY <3>1 DEF Keeps
  <2>2. Balanced(p, itab, NULL, NULL, fd[p])
    BY <1>1, <1>6, <2>1, HasNothing
  <2>3. TabOK(p, new) /\ Balanced(p, new, NULL, NULL, fd[p])
    BY <1>2, <2>2, TabNow, BalancedTouched
  <2>4. Go(p, new, User) /\ User.pc # "scan"
    BY <1>3, <1>6, UserOK
  <2> QED BY <1>3, <1>4, <2>3, <2>4, HoldsUser, UserCloses, GoOn
<1>7. CASE r.puts # <<>>
  <2>1. PICK x : x = [r EXCEPT !.pc = "iput", !.w = NULL]
    OBVIOUS
  <2>2. /\ IsRecord(x) /\ SameLocals(r, x) /\ x.puts = r.puts /\ x.then = r.then /\ x.pc = "iput"
    BY <1>5, <2>1, FieldsAre DEF IsRecord, SameLocals
  <2>3. Go(p, new, x)
    BY <1>3, <1>7, <2>1
  <2>4. x.pc \in {"iput", "trunc", "write"}
    BY <2>2
  <2> QED BY <1>1, <1>2, <1>3, <1>4, <1>7, <2>2, <2>3, <2>4, StillPuttingGo
<1> QED BY <1>6, <1>7

-----------------------------------------------------------------------------
(* The invariant.                                                          *)

LEMMA InitHolds == Init => Inv
<1> SUFFICES ASSUME Init PROVE Inv
  OBVIOUS
<1>1. PICK root \in Slot : itab = [t \in Slot |-> IF t # root THEN Unused ELSE
        [num |-> ROOT_INO, count |-> 1, dirt |-> FALSE, lock |-> FALSE, d |-> RootDir]]
  BY DEF Init
<1>2. PICK u : u = [num |-> ROOT_INO, count |-> 1, dirt |-> FALSE, lock |-> FALSE, d |-> RootDir]
  OBVIOUS
<1>3. /\ u = [f \in InodeFields |-> u[f]] /\ u.num = ROOT_INO /\ u.count = 1 /\ u.dirt = FALSE /\ u.lock = FALSE
  BY <1>2 DEF InodeFields
<1>4. PICK v : v = Unused
  OBVIOUS
<1>5. /\ v = [f \in InodeFields |-> v[f]] /\ v.count = 0 /\ v.num = 0 /\ v.dirt = FALSE /\ v.lock = FALSE
  BY <1>4, UnusedFields
<1>6. itab = [t \in Slot |-> IF t # root THEN v ELSE u]
  BY <1>1, <1>2, <1>4, Zenon
<1>7. itab = [t \in Slot |-> itab[t]] /\ itab[root] = u /\ \A t \in Slot : t # root => itab[t] = v
  BY <1>6
<1>8. /\ pr = [p \in Proc |-> User] /\ fd = [p \in Proc |-> NULL] /\ imap = {ROOT_INO} /\ tainted = FALSE
  BY DEF Init
<1>9. TableOK(itab)
  <2>1. u.count \in Nat /\ u.dirt \in BOOLEAN /\ u.lock \in BOOLEAN
    <3>1. u.count = 1 /\ u.dirt \in BOOLEAN /\ u.lock \in BOOLEAN
      BY <1>3, Zenon
    <3>2. u.count \in Nat
      BY <3>1
    <3> QED BY <3>1, <3>2
  <2>2. v.count \in Nat /\ v.dirt \in BOOLEAN /\ v.lock \in BOOLEAN
    <3>1. v.count = 0 /\ v.dirt \in BOOLEAN /\ v.lock \in BOOLEAN
      BY <1>5, Zenon
    <3>2. v.count \in Nat
      BY <3>1
    <3> QED BY <3>1, <3>2
  <2>3. ASSUME NEW s \in Slot
        PROVE  /\ itab[s] = [f \in InodeFields |-> itab[s][f]]
               /\ itab[s].count \in Nat /\ itab[s].dirt \in BOOLEAN /\ itab[s].lock \in BOOLEAN
    <3>1. CASE s = root
      BY <1>3, <1>7, <2>1, <3>1, Zenon
    <3>2. CASE s # root
      BY <1>5, <1>7, <2>2, <3>2, Zenon
    <3> QED BY <3>1, <3>2
  <2> QED BY <1>7, <2>3, Zenon DEF TableOK
<1>10. pr = [p \in Proc |-> pr[p]] /\ \A p \in Proc : RecordOK(pr[p])
  BY <1>8, UserOK
<1>11. fd \in [Proc -> SlotOrNULL] /\ \A p \in Proc : Opening(pr[p]) => fd[p] = NULL
  BY <1>8 DEF SlotOrNULL
<1>12. ROOT_INO \in imap /\ imap \subseteq Ino
  <2>1. NInodes \in Nat /\ NInodes > 0
    BY FileSystemAssumption
  <2>2. ROOT_INO \in Ino
    BY <2>1 DEF ROOT_INO, Ino
  <2> QED BY <1>8, <2>2
<1>13. \E s \in Slot : itab[s].num = ROOT_INO
  BY <1>3, <1>7
<1>14. ASSUME NEW s \in Slot PROVE Refs(s)
  <2>1. \A q \in Proc : PutsOK(pr[q])
    BY <1>10 DEF RecordOK, PutsOK
  <2>2. \A q \in Proc : pr[q] = User /\ fd[q] = NULL
    BY <1>8
  <2>3. /\ User.dir # s /\ User.ino # s /\ User.old # s /\ User.e # s /\ NULL # s
        /\ User.puts = <<>> /\ Len(<<>>) = 0
    BY UserOK, NotSlot
  <2>4. /\ Held(pr, "dir", s) = {} /\ Held(pr, "ino", s) = {} /\ Held(pr, "old", s) = {} /\ Held(pr, "e", s) = {}
        /\ Files(fd, s) = {}
    BY <2>2, <2>3 DEF Held, Files
  <2>5. Puts(pr, 1, s) = {} /\ Puts(pr, 2, s) = {}
    BY <2>2, <2>3 DEF Puts
  <2>6. Cardinality({}) = 0
    BY FS_EmptySet
  <2>7. itab[s].count = One(itab[s].num = ROOT_INO)
    BY <1>3, <1>5, <1>7 DEF One, ROOT_INO
  <2>8. One(itab[s].num = ROOT_INO) \in Nat
    BY DEF One
  <2>9. itab[s].count = Total(itab, pr, fd, s)
    BY <2>4, <2>5, <2>6, <2>7, <2>8 DEF Total
  <2> QED BY <2>1, <2>9, RefsTotal
<1>15. Fresh(itab, pr)
  <2>1. \A s \in Slot : itab[s].num = 0 => itab[s].count <= 1
    BY <1>3, <1>5, <1>7
  <2>2. \A p \in Proc : pr[p].pc # "scan"
    BY <1>8, UserOK
  <2> QED BY <2>1, <2>2 DEF Fresh
<1>16. tainted \in BOOLEAN /\ FreeClean
  BY <1>3, <1>5, <1>7, <1>8 DEF FreeClean
<1> QED BY <1>9, <1>10, <1>11, <1>12, <1>13, <1>14, <1>15, <1>16 DEF Inv

LEMMA StepKeeps ==
  ASSUME Inv, NEW p \in Proc, Step(p)
  PROVE  Inv'
BY SyscallKeeps, find_entryKeeps, get_empty_inodeKeeps, WaitInodeKeeps, read_inodeKeeps, MkdirBlockKeeps,
   add_entryKeeps, create_blockKeeps, OpenNewKeeps, LinkOldKeeps, MkdirFailsKeeps, empty_dirKeeps, iputKeeps,
   write_inodeKeeps, sys_closeKeeps, file_readKeeps, file_writeKeeps, FileBlockKeeps, FileCopiedKeeps,
   sync_inodesKeeps DEF Step

\* The number of references to s.
References(tab, prs, fds, s) ==
  Cardinality(Held(prs, "dir", s)) + Cardinality(Held(prs, "ino", s))
  + Cardinality(Held(prs, "old", s)) + Cardinality(Held(prs, "e", s)) + Cardinality(Files(fds, s))
  + Cardinality(PutPlaces(prs, s)) + One(tab[s].num = ROOT_INO)

LEMMA StutterKeeps ==
  ASSUME Inv, UNCHANGED vars
  PROVE  Inv'
<1>1. itab' = itab /\ pr' = pr /\ fd' = fd /\ imap' = imap /\ tainted' = tainted
  BY DEF vars
<1>2. ASSUME NEW s \in Slot PROVE Refs(s)'
  <2>1. Refs(s) <=> itab[s].count = References(itab, pr, fd, s)
    BY Zenon DEF Refs, References, Held, Files, PutPlaces, One
  <2>2. Refs(s)' <=> itab'[s].count = References(itab', pr', fd', s)
    BY Zenon DEF Refs, References, Held, Files, PutPlaces, One
  <2>3. Refs(s)
    BY DEF Inv
  <2> QED BY <1>1, <2>1, <2>2, <2>3, Zenon
<1>3. Fresh(itab', pr')
  <2>1. Fresh(itab, pr)
    BY DEF Inv
  <2> QED BY <1>1, <2>1, Zenon
<1>4. FreeClean'
  BY <1>1 DEF Inv, FreeClean
<1>5. TableOK(itab')
  <2>1. TableOK(itab)
    BY DEF Inv
  <2> QED BY <1>1, <2>1, Zenon
<1> QED BY <1>1, <1>2, <1>3, <1>4, <1>5 DEF Inv

\* Every inode of the table has as many references as i_count says, and what
\* each process holds is what the place it is at needs: the type and place
\* invariant from which the two properties follow (inode.c, namei.c).
THEOREM FilesystemInvariant == Spec => []Inv
<1>1. Inv /\ [Next]_vars => Inv'
  BY truncateKeeps, StepKeeps, StutterKeeps DEF Next
<1> QED BY <1>1, InitHolds, PTL DEF Spec

\* i_count is the number of references to an inode, whatever the processes do:
\* every path through open_namei, mkdir, rmdir, unlink, link and iget, with its
\* error exits and its sleeps, gives back exactly what it has taken.
THEOREM InodesCounted == Spec => []InodeCount
<1>1. Inv => InodeCount
  BY DEF Inv, InodeCount
<1> QED BY <1>1, FilesystemInvariant, PTL

\* A slot nobody uses is neither dirty nor locked, so get_empty_inode loses no
\* change when it clears the slot, as long as nobody has acted on a stale lookup.
THEOREM FreeSlotsClean == Spec => []FreeClean
<1>1. Inv => FreeClean
  BY DEF Inv
<1> QED BY <1>1, FilesystemInvariant, PTL

=============================================================================
