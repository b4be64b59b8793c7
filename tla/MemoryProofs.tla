---------------------------- MODULE MemoryProofs ----------------------------
(***************************************************************************)
(* Pages are counted, shared and seen rightly, for any number of tasks up  *)
(* to what a byte of mem_map counts, any number of pages, addresses and    *)
(* files.  Inv of Memory is the inductive invariant.  The first part knows *)
(* nothing of page tables: r says which page a place names, map counts     *)
(* the places, and pages are taken, given back, moved and shared.  The     *)
(* second part shows that the actions do just that to the places they      *)
(* change, and the third what the tasks see.                               *)
(***************************************************************************)
EXTENDS Memory, SetLemmas

-----------------------------------------------------------------------------
(* Places and the pages they name.                                         *)

\* The places that name page p.
Users(r, p) == {n \in Name : r[n] = p}

\* The places of N that name page p.
Among(N, r, p) == {n \in N : r[n] = p}

\* There are finitely many places.
LEMMA FiniteNames ==
  /\ IsFiniteSet(Name) /\ IsFiniteSet(Task) /\ IsFiniteSet(Addr) /\ IsFiniteSet(Page)
  /\ IsFiniteSet(Task \X Addr)
<1>1. NPages \in Nat /\ NAddr \in Nat
  BY MemoryAssumption
<1>2. IsFiniteSet(Task) /\ IsFiniteSet(Addr) /\ IsFiniteSet(Page)
  BY <1>1, MemoryAssumption, FS_Interval DEF Addr, Page
<1>3. IsFiniteSet(Task \X Addr)
  BY <1>2, FS_Product
<1>4. ASSUME NEW A, NEW B, NEW c, NEW d, IsFiniteSet(A \X B)
      PROVE  IsFiniteSet(A \X B \X {c, d})
  <2>1. ASSUME NEW e PROVE IsFiniteSet(A \X B \X {e})
    <3> DEFINE g == [x \in A \X B |-> <<x[1], x[2], e>>]
               T == A \X B \X {e}
    <3>1. g \in [A \X B -> T] /\ \A z \in T : \E x \in A \X B : g[x] = z
      <4>1. g \in [A \X B -> T]
        OBVIOUS
      <4>2. ASSUME NEW z \in T PROVE \E x \in A \X B : g[x] = z
        <5>1. <<z[1], z[2]>> \in A \X B /\ g[<<z[1], z[2]>>] = z
          OBVIOUS
        <5> QED BY <5>1
      <4> QED BY <4>1, <4>2
    <3>2. g \in Surjection(A \X B, T)
      BY <3>1 DEF Surjection
    <3> QED BY <3>2, <1>4, FS_Surjection
  <2>2. A \X B \X {c, d} = (A \X B \X {c}) \cup (A \X B \X {d})
    OBVIOUS
  <2>3. IsFiniteSet((A \X B \X {c}) \cup (A \X B \X {d}))
    BY <2>1, FS_Union
  <2> QED BY <2>2, <2>3
<1>5. IsFiniteSet({0})
  BY FS_Singleton
<1>6. IsFiniteSet(Task \X {0}) /\ IsFiniteSet(Page \X {0})
  BY <1>2, <1>5, FS_Product
<1>7. IsFiniteSet(Task \X Addr \X {"pte", "dir"})
  BY <1>3, <1>4
<1>8. IsFiniteSet(Task \X {0} \X {"task", "held"})
  BY <1>4, <1>6
<1>9. IsFiniteSet(Page \X {0} \X {"pipe"})
  <2>1. IsFiniteSet(Page \X {0} \X {"pipe", "pipe"})
    BY <1>4, <1>6
  <2>2. {"pipe", "pipe"} = {"pipe"}
    OBVIOUS
  <2> QED BY <2>1, <2>2
<1>10. IsFiniteSet(Name)
  <2> DEFINE P == Task \X Addr \X {"pte", "dir"}
             Q == Task \X {0} \X {"task", "held"}
             R == Page \X {0} \X {"pipe"}
  <2>1. Name = (P \cup Q) \cup R
    BY DEF Name
  <2>2. IsFiniteSet(P) /\ IsFiniteSet(Q) /\ IsFiniteSet(R)
    BY <1>7, <1>8, <1>9
  <2> HIDE DEF P, Q, R
  <2>3. IsFiniteSet(P \cup Q)
    BY <2>2, FS_Union
  <2>4. IsFiniteSet((P \cup Q) \cup R)
    BY <2>2, <2>3, FS_Union
  <2> QED BY <2>1, <2>4
<1> QED BY <1>2, <1>3, <1>10

\* Places come in five kinds.
LEMMA Names ==
  /\ \A t \in Task, a \in Addr : <<t, a, "pte">> \in Name /\ <<t, a, "dir">> \in Name
  /\ \A t \in Task : <<t, 0, "task">> \in Name /\ <<t, 0, "held">> \in Name
  /\ \A p \in Page : <<p, 0, "pipe">> \in Name
  /\ \A n \in Name :
       \/ \E t \in Task, a \in Addr : n = <<t, a, "pte">>
       \/ \E t \in Task, a \in Addr : n = <<t, a, "dir">>
       \/ \E t \in Task : n = <<t, 0, "task">>
       \/ \E t \in Task : n = <<t, 0, "held">>
       \/ \E p \in Page : n = <<p, 0, "pipe">>
BY DEF Name

\* The users of a page are counted.
LEMMA UsersCounted ==
  ASSUME NEW r, NEW p
  PROVE  IsFiniteSet(Users(r, p)) /\ Cardinality(Users(r, p)) \in Nat
<1>1. Users(r, p) \in SUBSET Name
  BY DEF Users
<1>2. IsFiniteSet(Users(r, p))
  BY <1>1, FiniteNames, FS_Subset
<1> QED BY <1>2, FS_CardinalityType

\* What map counts.
LEMMA CountsAre ==
  ASSUME NEW map, NEW r, Counts(map, r)
  PROVE  \A p \in Page : map[p] = Cardinality(Users(r, p)) /\ p # 0
BY MemoryAssumption DEF Counts, Users, Page

\* A place that names nothing comes to name page p.
LEMMA CountTake ==
  ASSUME NEW r \in [Name -> 0 .. NPages], NEW n \in Name, r[n] = 0, NEW p \in Page,
         NEW map \in [Page -> Nat], Counts(map, r)
  PROVE  Counts([map EXCEPT ![p] = map[p] + 1], [r EXCEPT ![n] = p])
<1> DEFINE s == [r EXCEPT ![n] = p]
<1>1. ASSUME NEW q \in Page PROVE [map EXCEPT ![p] = map[p] + 1][q] = Cardinality(Users(s, q))
  <2>0. map[q] = Cardinality(Users(r, q)) /\ q # 0
    BY CountsAre
  <2>1. CASE q = p
    <3>1. Users(s, q) = Users(r, q) \cup {n} /\ n \notin Users(r, q)
      BY <2>0, <2>1 DEF Users
    <3>2. Cardinality(Users(r, q) \cup {n}) = Cardinality(Users(r, q)) + 1
      BY <3>1, UsersCounted, FS_AddElement
    <3> QED BY <2>0, <2>1, <3>1, <3>2
  <2>2. CASE q # p
    <3>1. Users(s, q) = Users(r, q)
      BY <2>0, <2>2 DEF Users
    <3> QED BY <2>0, <2>2, <3>1
  <2> QED BY <2>1, <2>2
<1> QED BY <1>1 DEF Counts, Users

\* A place that names page p no longer does.
LEMMA CountDrop ==
  ASSUME NEW r \in [Name -> 0 .. NPages], NEW n \in Name, NEW p \in Page, r[n] = p,
         NEW map \in [Page -> Nat], Counts(map, r)
  PROVE  /\ Counts([map EXCEPT ![p] = map[p] - 1], [r EXCEPT ![n] = 0])
         /\ map[p] > 0
<1> DEFINE s == [r EXCEPT ![n] = 0]
<1>0. \A q \in Page : map[q] = Cardinality(Users(r, q)) /\ q # 0
  BY CountsAre
<1>1. n \in Users(r, p) /\ Users(s, p) = Users(r, p) \ {n}
  BY <1>0 DEF Users
<1>2. Cardinality(Users(r, p) \ {n}) = Cardinality(Users(r, p)) - 1
  BY <1>1, UsersCounted, FS_RemoveElement
<1>3. Cardinality(Users(r, p)) # 0
  BY <1>1, UsersCounted, FS_EmptySet
<1>4. ASSUME NEW q \in Page PROVE [map EXCEPT ![p] = map[p] - 1][q] = Cardinality(Users(s, q))
  <2>1. CASE q = p
    BY <1>0, <1>1, <1>2, <2>1
  <2>2. CASE q # p
    <3>1. Users(s, q) = Users(r, q)
      BY <1>0, <2>2 DEF Users
    <3> QED BY <1>0, <2>2, <3>1
  <2> QED BY <2>1, <2>2
<1>5. map[p] > 0
  BY <1>0, <1>3
<1> QED BY <1>4, <1>5 DEF Counts, Users

\* Many places no longer name what they named.
LEMMA CountDropAll ==
  ASSUME NEW r \in [Name -> 0 .. NPages], NEW N \in SUBSET Name, NEW map \in [Page -> Nat], Counts(map, r),
         NEW s \in [Name -> 0 .. NPages], \A n \in Name : s[n] = IF n \in N THEN 0 ELSE r[n],
         NEW new \in [Page -> Int], \A p \in Page : new[p] = map[p] - Cardinality(Among(N, r, p))
  PROVE  Counts(new, s) /\ new \in [Page -> Nat]
<1>1. ASSUME NEW p \in Page PROVE new[p] = Cardinality(Users(s, p)) /\ new[p] \in Nat
  <2> DEFINE D == Among(N, r, p)
  <2>1. map[p] = Cardinality(Users(r, p)) /\ p # 0
    BY CountsAre
  <2>2. D \in SUBSET Users(r, p)
    BY DEF Users, Among
  <2>3. Users(s, p) = Users(r, p) \ D
    BY <2>1 DEF Users, Among
  <2>4. new[p] = map[p] - Cardinality(D)
    OBVIOUS
  <2> HIDE DEF D
  <2>5. /\ Cardinality(Users(r, p) \ D) = Cardinality(Users(r, p)) - Cardinality(D)
        /\ Cardinality(D) \in Nat /\ Cardinality(D) <= Cardinality(Users(r, p))
    BY <2>2, UsersCounted, Without
  <2>6. Cardinality(Users(r, p)) \in Nat
    BY UsersCounted
  <2> QED BY <2>1, <2>3, <2>4, <2>5, <2>6
<1> QED BY <1>1 DEF Counts, Users

\* A page with one user.
LEMMA SoleUser ==
  ASSUME NEW r \in [Name -> 0 .. NPages], NEW n \in Name, NEW p \in Page, r[n] = p,
         NEW map \in [Page -> Nat], Counts(map, r)
  PROVE  map[p] = 1 <=> \A m \in Name : r[m] = p => m = n
<1>1. map[p] = Cardinality(Users(r, p)) /\ n \in Users(r, p)
  BY DEF Counts, Users
<1>2. (\A m \in Name : r[m] = p => m = n) <=> Users(r, p) = {n}
  BY <1>1 DEF Users
<1>3. Users(r, p) = {n} => Cardinality(Users(r, p)) = 1
  BY FS_Singleton
<1>4. ASSUME Cardinality(Users(r, p)) = 1 PROVE Users(r, p) = {n}
  <2>1. Cardinality(Users(r, p) \ {n}) = 0
    <3>1. PICK S : S = Users(r, p) /\ IsFiniteSet(S) /\ n \in S /\ Cardinality(S) = 1
      BY <1>1, <1>4, UsersCounted
    <3>2. Cardinality(S \ {n}) = 1 - 1
      BY <3>1, FS_RemoveElement
    <3> QED BY <3>1, <3>2
  <2>2. IsFiniteSet(Users(r, p) \ {n})
    BY UsersCounted, FS_RemoveElement
  <2>3. Users(r, p) \ {n} = {}
    BY <2>1, <2>2, FS_EmptySet
  <2> QED BY <1>1, <2>3
<1> QED BY <1>1, <1>2, <1>3, <1>4

\* A free page has no user.
LEMMA NoUser ==
  ASSUME NEW r, NEW p \in Page, NEW map \in [Page -> Nat], Counts(map, r), map[p] = 0
  PROVE  \A m \in Name : r[m] # p
<1>1. Cardinality(Users(r, p)) = 0
  BY DEF Counts, Users
<1>2. Users(r, p) = {}
  BY <1>1, UsersCounted, FS_EmptySet
<1> QED BY <1>2 DEF Users

\* Fewer places may write, or fewer name a page.
LEMMA OwnLess ==
  ASSUME NEW r, NEW w, Owned(r, w), NEW s, NEW v, \A n \in Name : s[n] \in {0, r[n]} /\ (n \in v => n \in w)
  PROVE  Owned(s, v)
BY DEF Owned

\* A place names a page that nobody else does.
LEMMA OwnTake ==
  ASSUME NEW r \in [Name -> 0 .. NPages], NEW w, Owned(r, w), NEW n \in Name, NEW p,
         \A m \in Name \ {n} : r[m] # p
  PROVE  Owned([r EXCEPT ![n] = p], w \cup {n})
<1> DEFINE s == [r EXCEPT ![n] = p]
<1>1. s[n] = p /\ \A m \in Name \ {n} : s[m] = r[m]
  OBVIOUS
<1> HIDE DEF s
<1>2. Owned(s, w \cup {n})
  BY <1>1 DEF Owned
<1> QED BY <1>2 DEF s

\* The only place that names a page may write.
LEMMA OwnSole ==
  ASSUME NEW r \in [Name -> 0 .. NPages], NEW w, Owned(r, w), NEW n \in Name,
         \A m \in Name : r[m] = r[n] => m = n
  PROVE  Owned(r, w \cup {n})
BY DEF Owned

\* Two entries for an address share a page when neither may write.
LEMMA OwnShare ==
  ASSUME NEW r \in [Name -> 0 .. NPages], NEW w, Owned(r, w), NEW n \in Name, NEW m \in Name,
         n[3] = "pte", m[3] = "pte", n[2] = m[2], r[m] # 0
  PROVE  Owned([r EXCEPT ![n] = r[m]], w \ {n, m})
<1> DEFINE s == [r EXCEPT ![n] = r[m]]
<1>1. s[n] = r[m] /\ \A x \in Name \ {n} : s[x] = r[x]
  OBVIOUS
<1> HIDE DEF s
<1>2. Owned(s, w \ {n, m})
  BY <1>1 DEF Owned
<1> QED BY <1>2 DEF s

-----------------------------------------------------------------------------
(* get_free_page.                                                          *)

\* The n-th element of a finite set of pages, from its end: there is one as
\* long as the set has n elements.
LEMMA NthLast ==
  ASSUME NEW F \in SUBSET Page
  PROVE  \A n \in 1 .. Cardinality(F) : \E p \in F : Cardinality({q \in F : q >= p}) = n
<1> DEFINE From(p) == {q \in F : q >= p}
           Bad == {n \in 1 .. Cardinality(F) : ~\E p \in F : Cardinality(From(p)) = n}
<1>0. IsFiniteSet(F) /\ Cardinality(F) \in Nat /\ F \in SUBSET Nat /\ \A p \in F : p <= NPages
  <2>1. IsFiniteSet(F)
    BY FiniteNames, FS_Subset
  <2> QED BY <2>1, FS_CardinalityType, MemoryAssumption DEF Page
<1>1. SUFFICES ASSUME Bad # {} PROVE FALSE
  OBVIOUS
<1>2. PICK n \in 1 .. Cardinality(F) :
        /\ ~\E p \in F : Cardinality(From(p)) = n
        /\ \A m \in 1 .. Cardinality(F) : m < n => \E p \in F : Cardinality(From(p)) = m
  <2>1. Bad \in SUBSET Nat /\ Bad # {}
    BY <1>0, <1>1
  <2> DEFINE n == Min(Bad)
  <2>2. n \in Bad /\ \A y \in Bad : n <= y
    BY <2>1, MinNat
  <2> HIDE DEF From
  <2>3. n \in 1 .. Cardinality(F) /\ ~\E p \in F : Cardinality(From(p)) = n
    BY <2>2
  <2>4. ASSUME NEW m \in 1 .. Cardinality(F), m < n PROVE \E p \in F : Cardinality(From(p)) = m
    <3>1. m \notin Bad
      BY <1>0, <2>2, <2>4
    <3> QED BY <3>1
  <2> HIDE DEF n
  <2> QED BY <2>3, <2>4
<1>3. ASSUME NEW G \in SUBSET F, G # {} PROVE Max(G) \in G /\ \A y \in G : Max(G) >= y
  BY <1>0, <1>3, MaxNat, MemoryAssumption
<1>4. \A p \in F : IsFiniteSet(From(p)) /\ Cardinality(From(p)) \in Nat /\ From(p) \in SUBSET F
  <2> SUFFICES ASSUME NEW p \in F
               PROVE  IsFiniteSet(From(p)) /\ Cardinality(From(p)) \in Nat /\ From(p) \in SUBSET F
    OBVIOUS
  <2>1. From(p) \in SUBSET F
    OBVIOUS
  <2> HIDE DEF From
  <2>2. IsFiniteSet(From(p))
    BY <1>0, <2>1, FS_Subset
  <2> QED BY <2>1, <2>2, FS_CardinalityType
<1>5. CASE n = 1
  <2>1. F # {}
    BY <1>0, <1>5, FS_EmptySet
  <2>2. PICK p \in F : \A y \in F : p >= y
    BY <1>3, <2>1
  <2>3. From(p) = {p}
    <3>1. ASSUME NEW q \in F PROVE q >= p <=> q = p
      <4>1. p \in Nat /\ q \in Nat /\ p >= q
        BY <1>0, <2>2
      <4> QED BY <4>1
    <3> QED BY <3>1
  <2>4. Cardinality(From(p)) = 1
    BY <2>3, FS_Singleton
  <2> QED BY <1>2, <1>5, <2>4
<1>6. CASE n # 1
  <2>1. n - 1 \in 1 .. Cardinality(F) /\ n - 1 < n
    BY <1>0, <1>6
  <2>2. PICK p \in F : Cardinality(From(p)) = n - 1
    BY <1>2, <2>1
  <2> DEFINE G == F \ From(p)
  <2>3. G # {}
    <3> SUFFICES ASSUME G = {} PROVE FALSE
      OBVIOUS
    <3>1. F = From(p)
      BY <1>4
    <3>2. Cardinality(F) = n - 1
      BY <2>2, <3>1
    <3> QED BY <1>0, <3>2
  <2>4. PICK x \in G : \A y \in G : x >= y
    BY <1>3, <2>3
  <2>5. x \in F /\ From(x) = From(p) \cup {x} /\ x \notin From(p)
    <3>1. x \in Nat /\ p \in Nat /\ x < p /\ x \in F
      BY <1>0
    <3>2. ASSUME NEW y \in F PROVE y >= x <=> y >= p \/ y = x
      <4>1. y \in Nat
        BY <1>0
      <4>2. y >= p \/ y \in G
        OBVIOUS
      <4> QED BY <2>4, <3>1, <4>1, <4>2
    <3> QED BY <3>1, <3>2
  <2> HIDE DEF From, G
  <2>6. Cardinality(From(p) \cup {x}) = Cardinality(From(p)) + 1
    BY <1>4, <2>5, FS_AddElement
  <2>7. Cardinality(From(x)) = n
    BY <1>0, <2>2, <2>5, <2>6
  <2> QED BY <1>2, <2>5, <2>7
<1> QED BY <1>5, <1>6

\* The n-th page get_free_page takes is free, and no other call takes it.
LEMMA NthFreeIs ==
  ASSUME NEW map, NEW n \in Nat \ {0}
  PROVE  /\ Cardinality(Free(map)) < n => NthFree(map, n) = 0
         /\ Cardinality(Free(map)) >= n =>
              /\ NthFree(map, n) \in Page /\ map[NthFree(map, n)] = 0
              /\ Cardinality({q \in Free(map) : q >= NthFree(map, n)}) = n
<1>1. Free(map) \in SUBSET Page
  BY DEF Free
<1>2. IsFiniteSet(Free(map)) /\ Cardinality(Free(map)) \in Nat
  <2>1. IsFiniteSet(Free(map))
    BY <1>1, FiniteNames, FS_Subset
  <2> QED BY <2>1, FS_CardinalityType
<1>3. CASE Cardinality(Free(map)) < n
  BY <1>2, <1>3 DEF NthFree
<1>4. CASE Cardinality(Free(map)) >= n
  <2>1. n \in 1 .. Cardinality(Free(map)) /\ ~(Cardinality(Free(map)) < n)
    BY <1>2, <1>4
  <2>2. \E p \in Free(map) : Cardinality({q \in Free(map) : q >= p}) = n
    BY <1>1, <2>1, NthLast
  <2>3. /\ NthFree(map, n) \in Free(map)
        /\ Cardinality({q \in Free(map) : q >= NthFree(map, n)}) = n
    BY <2>1, <2>2 DEF NthFree
  <2> QED BY <1>4, <2>1, <2>3 DEF Free
<1> QED BY <1>2, <1>3, <1>4

\* get_free_page takes a free page, or finds none.
LEMMA FreePage ==
  ASSUME NEW map
  PROVE  /\ get_free_page(map) # 0 => get_free_page(map) \in Page /\ map[get_free_page(map)] = 0
         /\ get_free_page(map) \in 0 .. NPages
         /\ Free(map) # {} => get_free_page(map) # 0
<1>1. IsFiniteSet(Free(map)) /\ Cardinality(Free(map)) \in Nat
  <2>1. Free(map) \in SUBSET Page
    BY DEF Free
  <2>2. IsFiniteSet(Free(map))
    BY <2>1, FiniteNames, FS_Subset
  <2> QED BY <2>2, FS_CardinalityType
<1>2. get_free_page(map) = NthFree(map, 1)
  BY DEF get_free_page
<1>3. Cardinality(Free(map)) < 1 \/ Cardinality(Free(map)) >= 1
  BY <1>1
<1>4. /\ Cardinality(Free(map)) < 1 => NthFree(map, 1) = 0
      /\ Cardinality(Free(map)) >= 1 => NthFree(map, 1) \in Page /\ map[NthFree(map, 1)] = 0
  <2>1. PICK n \in Nat \ {0} : n = 1
    OBVIOUS
  <2>2. /\ Cardinality(Free(map)) < n => NthFree(map, n) = 0
        /\ Cardinality(Free(map)) >= n => NthFree(map, n) \in Page /\ map[NthFree(map, n)] = 0
    BY NthFreeIs
  <2> QED BY <2>1, <2>2
<1>5. Free(map) # {} => Cardinality(Free(map)) >= 1
  BY <1>1, FS_EmptySet
<1> QED BY <1>2, <1>3, <1>4, <1>5, MemoryAssumption DEF Page

-----------------------------------------------------------------------------
(* Counting and owning together.                                           *)

\* map counts the places r, of which those in w may write.
Sound(map, r, w) ==
  map \in [Page -> Nat] /\ r \in [Name -> 0 .. NPages] /\ Counts(map, r) /\ Owned(r, w)

\* A page is a number and not 0.
LEMMA Pages == 0 \notin Page /\ 0 .. NPages = Page \cup {0} /\ Page \subseteq Nat /\ NPages \in Nat
BY MemoryAssumption DEF Page

\* One more use of a page.
LEMMA UseIs ==
  ASSUME NEW map \in [Page -> Nat], NEW p \in Page
  PROVE  Use(map, p) = [map EXCEPT ![p] = map[p] + 1] /\ Use(map, p) \in [Page -> Nat]
<1>1. Use(map, p) = [map EXCEPT ![p] = map[p] + 1]
  BY Pages DEF Use
<1>2. map[p] + 1 \in Nat
  OBVIOUS
<1> QED BY <1>1, <1>2

\* The same page is named, and fewer places may write.
LEMMA SoundLess ==
  ASSUME NEW map, NEW r, NEW w, Sound(map, r, w), NEW v, \A n \in Name : n \in v => n \in w
  PROVE  Sound(map, r, v)
<1>1. Owned(r, v)
  BY OwnLess DEF Sound
<1> QED BY <1>1 DEF Sound

\* A place that names nothing gets a page that is free.
LEMMA SoundTake ==
  ASSUME NEW map, NEW r, NEW w, Sound(map, r, w), NEW n \in Name, r[n] = 0, NEW p \in Page, map[p] = 0
  PROVE  Sound(Use(map, p), [r EXCEPT ![n] = p], w \cup {n})
<1>1. map \in [Page -> Nat] /\ r \in [Name -> 0 .. NPages] /\ Counts(map, r) /\ Owned(r, w)
  BY DEF Sound
<1>2. Use(map, p) = [map EXCEPT ![p] = map[p] + 1] /\ Use(map, p) \in [Page -> Nat]
  BY <1>1, UseIs
<1>3. Counts(Use(map, p), [r EXCEPT ![n] = p])
  <2>1. Counts([map EXCEPT ![p] = map[p] + 1], [r EXCEPT ![n] = p])
    BY <1>1, CountTake
  <2> QED BY <1>2, <2>1
<1>4. \A m \in Name : r[m] # p
  BY <1>1, NoUser
<1>5. Owned([r EXCEPT ![n] = p], w \cup {n})
  BY <1>1, <1>4, OwnTake
<1>6. [r EXCEPT ![n] = p] \in [Name -> 0 .. NPages]
  BY <1>1, Pages
<1> QED BY <1>2, <1>3, <1>5, <1>6 DEF Sound

\* A place gives back what it names.
LEMMA SoundDrop ==
  ASSUME NEW map, NEW r, NEW w, Sound(map, r, w), NEW n \in Name
  PROVE  Sound(free_page(map, r[n]), [r EXCEPT ![n] = 0], w)
<1>1. map \in [Page -> Nat] /\ r \in [Name -> 0 .. NPages] /\ Counts(map, r) /\ Owned(r, w)
  BY DEF Sound
<1>2. CASE r[n] = 0
  <2>1. [r EXCEPT ![n] = 0] = r /\ free_page(map, r[n]) = map
    BY <1>1, <1>2 DEF free_page
  <2> QED BY <2>1
<1>3. CASE r[n] # 0
  <2>1. PICK p \in Page : r[n] = p
    BY <1>1, <1>3, Pages
  <2>2. Counts([map EXCEPT ![p] = map[p] - 1], [r EXCEPT ![n] = 0]) /\ map[p] > 0
    BY <1>1, <2>1, CountDrop
  <2>3. free_page(map, r[n]) = [map EXCEPT ![p] = map[p] - 1]
    BY <1>1, <1>3, <2>1 DEF free_page
  <2>4. [map EXCEPT ![p] = map[p] - 1] \in [Page -> Nat]
    BY <1>1, <2>2
  <2>5. [r EXCEPT ![n] = 0] \in [Name -> 0 .. NPages]
    BY <1>1, Pages
  <2>6. Owned([r EXCEPT ![n] = 0], w)
    <3>1. \A m \in Name : [r EXCEPT ![n] = 0][m] \in {0, r[m]}
      BY <1>1
    <3> QED BY <1>1, <3>1, OwnLess
  <2> QED BY <2>2, <2>3, <2>4, <2>5, <2>6 DEF Sound
<1> QED BY <1>2, <1>3

\* A page in use has a count; one that only one place names has count 1.
LEMMA SoundCount ==
  ASSUME NEW map, NEW r, NEW w, Sound(map, r, w), NEW n \in Name, r[n] # 0
  PROVE  /\ r[n] \in Page /\ map[r[n]] \in Nat /\ map[r[n]] > 0
         /\ map[r[n]] = 1 <=> \A m \in Name : r[m] = r[n] => m = n
         /\ n[3] # "pte" \/ n \in w => map[r[n]] = 1
<1>1. map \in [Page -> Nat] /\ r \in [Name -> 0 .. NPages] /\ Counts(map, r) /\ Owned(r, w)
  BY DEF Sound
<1>2. PICK p \in Page : r[n] = p
  BY <1>1, Pages
<1>3. map[p] > 0
  BY <1>1, <1>2, CountDrop
<1>4. map[p] = 1 <=> \A m \in Name : r[m] = p => m = n
  BY <1>1, <1>2, SoleUser
<1>5. n[3] # "pte" \/ n \in w => \A m \in Name : r[m] = p => m = n
  BY <1>1, <1>2 DEF Owned
<1> QED BY <1>1, <1>2, <1>3, <1>4, <1>5

\* A place that is not an entry hands its page to one that names nothing.
LEMMA SoundMove ==
  ASSUME NEW map, NEW r, NEW w, Sound(map, r, w), NEW n \in Name, NEW m \in Name,
         r[n] # 0, n[3] # "pte", r[m] = 0
  PROVE  Sound(map, [[r EXCEPT ![n] = 0] EXCEPT ![m] = r[n]], w \cup {m})
<1>1. map \in [Page -> Nat] /\ r \in [Name -> 0 .. NPages]
  BY DEF Sound
<1>2. PICK p : p = r[n]
  OBVIOUS
<1>3. p \in Page /\ map[p] = 1
  BY <1>2, SoundCount
<1> DEFINE s == [r EXCEPT ![n] = 0]
           free == free_page(map, p)
<1>4. Sound(free, s, w)
  BY <1>2, SoundDrop
<1>5. free[p] = 0 /\ Use(free, p) = map
  <2>1. p # 0
    BY <1>3, Pages
  <2>2. free = [map EXCEPT ![p] = 0]
    BY <1>1, <1>3, <2>1 DEF free_page
  <2>3. Use(free, p) = [free EXCEPT ![p] = free[p] + 1]
    BY <2>1 DEF Use
  <2> HIDE DEF free
  <2>4. free[p] = 0 /\ free[p] + 1 = 1
    BY <1>1, <1>3, <2>2
  <2>5. [free EXCEPT ![p] = 1] = map
    BY <1>1, <1>3, <2>2
  <2> QED BY <2>3, <2>4, <2>5
<1>6. s[m] = 0
  BY <1>1
<1> HIDE DEF s, free
<1>7. Sound(Use(free, p), [s EXCEPT ![m] = p], w \cup {m})
  BY <1>3, <1>4, <1>5, <1>6, SoundTake
<1> QED BY <1>2, <1>5, <1>7 DEF s

\* An entry that names nothing gets the page of an entry for the same address.
LEMMA SoundShare ==
  ASSUME NEW map, NEW r, NEW w, Sound(map, r, w), NEW n \in Name, NEW m \in Name,
         r[n] = 0, r[m] # 0, n[3] = "pte", m[3] = "pte", n[2] = m[2]
  PROVE  Sound(Use(map, r[m]), [r EXCEPT ![n] = r[m]], w \ {n, m})
<1>1. map \in [Page -> Nat] /\ r \in [Name -> 0 .. NPages] /\ Counts(map, r) /\ Owned(r, w)
  BY DEF Sound
<1>2. PICK p \in Page : r[m] = p
  BY <1>1, Pages
<1>3. Use(map, p) = [map EXCEPT ![p] = map[p] + 1] /\ Use(map, p) \in [Page -> Nat]
  BY <1>1, UseIs
<1>4. Counts(Use(map, p), [r EXCEPT ![n] = p])
  <2>1. Counts([map EXCEPT ![p] = map[p] + 1], [r EXCEPT ![n] = p])
    BY <1>1, CountTake
  <2> QED BY <1>3, <2>1
<1>5. Owned([r EXCEPT ![n] = r[m]], w \ {n, m})
  BY <1>1, OwnShare
<1>6. [r EXCEPT ![n] = p] \in [Name -> 0 .. NPages]
  BY <1>1, Pages
<1> QED BY <1>2, <1>3, <1>4, <1>5, <1>6 DEF Sound

\* The only place that names a page may write.
LEMMA SoundSole ==
  ASSUME NEW map, NEW r, NEW w, Sound(map, r, w), NEW n \in Name, r[n] # 0, map[r[n]] = 1
  PROVE  Sound(map, r, w \cup {n})
<1>1. \A m \in Name : r[m] = r[n] => m = n
  BY SoundCount
<1>2. Owned(r, w \cup {n})
  BY <1>1, OwnSole DEF Sound
<1> QED BY <1>2 DEF Sound

-----------------------------------------------------------------------------
(* The places of a state.                                                  *)

\* The pages that page table entries, page tables, task structures, sleeping
\* tasks and pipes name.
RefOf(pt, dr, tk, hd, pp) ==
  [n \in Name |->
     IF n[3] = "pte" THEN pt[n[1]][n[2]].page
     ELSE IF n[3] = "dir" THEN dr[n[1]][n[2]]
     ELSE IF n[3] = "task" THEN tk[n[1]]
     ELSE IF n[3] = "held" THEN hd[n[1]]
     ELSE IF n[1] \in pp THEN n[1] ELSE 0]

\* What r says of the five kinds of places.
RefsAre(r, pt, dr, tk, hd, pp) ==
  /\ r \in [Name -> 0 .. NPages]
  /\ \A t \in Task, a \in Addr : r[<<t, a, "pte">>] = pt[t][a].page /\ r[<<t, a, "dir">>] = dr[t][a]
  /\ \A t \in Task : r[<<t, 0, "task">>] = tk[t] /\ r[<<t, 0, "held">>] = hd[t]
  /\ \A p \in Page : r[<<p, 0, "pipe">>] = IF p \in pp THEN p ELSE 0

\* The pages are named as the variables say, and by no other function.
LEMMA RefOfIs ==
  ASSUME NEW pt \in [Task -> [Addr -> Entry]], NEW dr \in [Task -> [Addr -> 0 .. NPages]],
         NEW tk \in [Task -> 0 .. NPages], NEW hd \in [Task -> 0 .. NPages], NEW pp \in SUBSET Page
  PROVE  /\ RefsAre(RefOf(pt, dr, tk, hd, pp), pt, dr, tk, hd, pp)
         /\ \A r : RefsAre(r, pt, dr, tk, hd, pp) => r = RefOf(pt, dr, tk, hd, pp)
<1> DEFINE s == RefOf(pt, dr, tk, hd, pp)
<1>1. /\ \A t \in Task, a \in Addr : s[<<t, a, "pte">>] = pt[t][a].page /\ s[<<t, a, "dir">>] = dr[t][a]
      /\ \A t \in Task : s[<<t, 0, "task">>] = tk[t] /\ s[<<t, 0, "held">>] = hd[t]
      /\ \A p \in Page : s[<<p, 0, "pipe">>] = IF p \in pp THEN p ELSE 0
  BY Names DEF RefOf
<1>2. DOMAIN s = Name /\ s = [n \in Name |-> s[n]]
  BY DEF RefOf
<1> HIDE DEF s
<1>3. \A t \in Task, a \in Addr : pt[t][a].page \in 0 .. NPages /\ dr[t][a] \in 0 .. NPages
  BY DEF Entry
<1>4. ASSUME NEW n \in Name PROVE s[n] \in 0 .. NPages
  <2>1. ASSUME NEW t \in Task, NEW a \in Addr, n = <<t, a, "pte">> PROVE s[n] \in 0 .. NPages
    BY <1>1, <1>3, Pages, <2>1
  <2>2. ASSUME NEW t \in Task, NEW a \in Addr, n = <<t, a, "dir">> PROVE s[n] \in 0 .. NPages
    BY <1>1, <1>3, <2>2
  <2>3. ASSUME NEW t \in Task, n = <<t, 0, "task">> PROVE s[n] \in 0 .. NPages
    BY <1>1, <1>3, Pages, <2>3
  <2>4. ASSUME NEW t \in Task, n = <<t, 0, "held">> PROVE s[n] \in 0 .. NPages
    BY <1>1, <1>3, Pages, <2>4
  <2>5. ASSUME NEW p \in Page, n = <<p, 0, "pipe">> PROVE s[n] \in 0 .. NPages
    BY <1>1, <1>3, Pages, <2>5
  <2> QED BY <2>1, <2>2, <2>3, <2>4, <2>5, Names
<1>5. s \in [Name -> 0 .. NPages]
  BY <1>2, <1>4
<1>6. ASSUME NEW r, RefsAre(r, pt, dr, tk, hd, pp) PROVE r = s
  <2>1. ASSUME NEW n \in Name PROVE r[n] = s[n]
    <3>1. ASSUME NEW t \in Task, NEW a \in Addr, n = <<t, a, "pte">> PROVE r[n] = s[n]
      BY <1>1, <1>6, <3>1 DEF RefsAre
    <3>2. ASSUME NEW t \in Task, NEW a \in Addr, n = <<t, a, "dir">> PROVE r[n] = s[n]
      BY <1>1, <1>6, <3>2 DEF RefsAre
    <3>3. ASSUME NEW t \in Task, n = <<t, 0, "task">> PROVE r[n] = s[n]
      BY <1>1, <1>6, <3>3 DEF RefsAre
    <3>4. ASSUME NEW t \in Task, n = <<t, 0, "held">> PROVE r[n] = s[n]
      BY <1>1, <1>6, <3>4 DEF RefsAre
    <3>5. ASSUME NEW p \in Page, n = <<p, 0, "pipe">> PROVE r[n] = s[n]
      BY <1>1, <1>6, <3>5 DEF RefsAre
    <3> QED BY <3>1, <3>2, <3>3, <3>4, <3>5, Names
  <2>2. r \in [Name -> 0 .. NPages]
    BY <1>6 DEF RefsAre
  <2> QED BY <1>5, <2>1, <2>2
<1> QED BY <1>1, <1>5, <1>6 DEF RefsAre, s

\* The references of the current and of the next state.
LEMMA RefState ==
  /\ ref = RefOf(pte, dir, task, held, pipes)
  /\ ref' = RefOf(pte', dir', task', held', pipes')
BY DEF ref, Ref, RefOf

\* Writable entries.
LEMMA WritableIs ==
  ASSUME NEW t \in Task, NEW a \in Addr
  PROVE  /\ <<t, a, "pte">> \in Writable <=> pte[t][a].rw
         /\ <<t, a, "pte">> \in Writable' <=> (pte[t][a].rw)'
BY Names DEF Writable

\* An entry is changed.
LEMMA SetEntry ==
  ASSUME NEW r, NEW pt, NEW dr, NEW tk, NEW hd, NEW pp, RefsAre(r, pt, dr, tk, hd, pp),
         NEW t \in Task, NEW a \in Addr, NEW q \in 0 .. NPages, NEW new,
         \A u \in Task, b \in Addr : new[u][b].page = IF u = t /\ b = a THEN q ELSE pt[u][b].page
  PROVE  RefsAre([r EXCEPT ![<<t, a, "pte">>] = q], new, dr, tk, hd, pp)
<1> DEFINE n == <<t, a, "pte">>
           s == [r EXCEPT ![n] = q]
<1>1. s \in [Name -> 0 .. NPages] /\ s[n] = q /\ \A m \in Name : m # n => s[m] = r[m]
  BY Names DEF RefsAre
<1>2. \A u \in Task, b \in Addr : s[<<u, b, "pte">>] = new[u][b].page /\ s[<<u, b, "dir">>] = r[<<u, b, "dir">>]
  <2> SUFFICES ASSUME NEW u \in Task, NEW b \in Addr
               PROVE  s[<<u, b, "pte">>] = new[u][b].page /\ s[<<u, b, "dir">>] = r[<<u, b, "dir">>]
    OBVIOUS
  <2>1. <<u, b, "dir">> # n /\ <<u, b, "pte">> \in Name /\ <<u, b, "dir">> \in Name
    BY Names
  <2>2. CASE u = t /\ b = a
    BY <1>1, <2>1, <2>2
  <2>3. CASE ~(u = t /\ b = a)
    <3>1. <<u, b, "pte">> # n
      BY <2>3
    <3>2. r[<<u, b, "pte">>] = pt[u][b].page
      BY DEF RefsAre
    <3> HIDE DEF n, s
    <3> QED BY <1>1, <2>1, <2>3, <3>1, <3>2
  <2> QED BY <2>2, <2>3
<1>3. /\ \A u \in Task : s[<<u, 0, "task">>] = r[<<u, 0, "task">>] /\ s[<<u, 0, "held">>] = r[<<u, 0, "held">>]
      /\ \A p \in Page : s[<<p, 0, "pipe">>] = r[<<p, 0, "pipe">>]
  BY <1>1, Names
<1> HIDE DEF n, s
<1> QED BY <1>1, <1>2, <1>3 DEF RefsAre, n, s

\* A page table is changed.
LEMMA SetTable ==
  ASSUME NEW r, NEW pt, NEW dr, NEW tk, NEW hd, NEW pp, RefsAre(r, pt, dr, tk, hd, pp),
         NEW t \in Task, NEW a \in Addr, NEW q \in 0 .. NPages, NEW new,
         \A u \in Task, b \in Addr : new[u][b] = IF u = t /\ b = a THEN q ELSE dr[u][b]
  PROVE  RefsAre([r EXCEPT ![<<t, a, "dir">>] = q], pt, new, tk, hd, pp)
<1> DEFINE n == <<t, a, "dir">>
           s == [r EXCEPT ![n] = q]
<1>1. s \in [Name -> 0 .. NPages] /\ s[n] = q /\ \A m \in Name : m # n => s[m] = r[m]
  BY Names DEF RefsAre
<1>2. \A u \in Task, b \in Addr : s[<<u, b, "dir">>] = new[u][b] /\ s[<<u, b, "pte">>] = r[<<u, b, "pte">>]
  <2> SUFFICES ASSUME NEW u \in Task, NEW b \in Addr
               PROVE  s[<<u, b, "dir">>] = new[u][b] /\ s[<<u, b, "pte">>] = r[<<u, b, "pte">>]
    OBVIOUS
  <2>1. <<u, b, "pte">> # n /\ <<u, b, "dir">> \in Name /\ <<u, b, "pte">> \in Name
    BY Names
  <2>2. CASE u = t /\ b = a
    BY <1>1, <2>1, <2>2
  <2>3. CASE ~(u = t /\ b = a)
    <3>1. <<u, b, "dir">> # n
      BY <2>3
    <3>2. r[<<u, b, "dir">>] = dr[u][b]
      BY DEF RefsAre
    <3> HIDE DEF n, s
    <3> QED BY <1>1, <2>1, <2>3, <3>1, <3>2
  <2> QED BY <2>2, <2>3
<1>3. /\ \A u \in Task : s[<<u, 0, "task">>] = r[<<u, 0, "task">>] /\ s[<<u, 0, "held">>] = r[<<u, 0, "held">>]
      /\ \A p \in Page : s[<<p, 0, "pipe">>] = r[<<p, 0, "pipe">>]
  BY <1>1, Names
<1> HIDE DEF n, s
<1> QED BY <1>1, <1>2, <1>3 DEF RefsAre, n, s

\* A slot is filled or emptied.
LEMMA SetTask ==
  ASSUME NEW r, NEW pt, NEW dr, NEW tk, NEW hd, NEW pp, RefsAre(r, pt, dr, tk, hd, pp),
         NEW t \in Task, NEW q \in 0 .. NPages, NEW new,
         \A u \in Task : new[u] = IF u = t THEN q ELSE tk[u]
  PROVE  RefsAre([r EXCEPT ![<<t, 0, "task">>] = q], pt, dr, new, hd, pp)
BY Names DEF RefsAre

\* A task gets a page for itself, or gives it up.
LEMMA SetHeld ==
  ASSUME NEW r, NEW pt, NEW dr, NEW tk, NEW hd, NEW pp, RefsAre(r, pt, dr, tk, hd, pp),
         NEW t \in Task, NEW q \in 0 .. NPages, NEW new,
         \A u \in Task : new[u] = IF u = t THEN q ELSE hd[u]
  PROVE  RefsAre([r EXCEPT ![<<t, 0, "held">>] = q], pt, dr, tk, new, pp)
BY Names DEF RefsAre

\* A pipe is made or goes.
LEMMA SetPipe ==
  ASSUME NEW r, NEW pt, NEW dr, NEW tk, NEW hd, NEW pp, RefsAre(r, pt, dr, tk, hd, pp),
         NEW p \in Page, NEW q \in {0, p}, NEW new,
         \A o \in Page : o \in new <=> (IF o = p THEN q = p ELSE o \in pp)
  PROVE  RefsAre([r EXCEPT ![<<p, 0, "pipe">>] = q], pt, dr, tk, hd, new)
BY Names, Pages DEF RefsAre

\* Entries change, but not the pages in them.
LEMMA SamePages ==
  ASSUME NEW r, NEW pt, NEW dr, NEW tk, NEW hd, NEW pp, RefsAre(r, pt, dr, tk, hd, pp),
         NEW new, \A u \in Task, b \in Addr : new[u][b].page = pt[u][b].page
  PROVE  RefsAre(r, new, dr, tk, hd, pp)
BY DEF RefsAre

-----------------------------------------------------------------------------
(* The invariant, task by task.                                            *)

\* What the task has where it is.
Placed(t) ==
  /\ pc[t] = "none" <=> task[t] = 0
  /\ pc[t] \in Gone => pte[t] = NoEntry /\ dir[t] = NoTable
  /\ pc[t] \in Holding <=> held[t] # 0
  /\ pc[t] \in Busy <=> at[t] # 0
  /\ pc[t] = "exec" => file[t] \in File
  /\ pc[t] \in {"loading", "filling"} => pte[t][at[t]] = Absent /\ executable[t] \in File
  /\ pc[t] = "faulted" => pte[t][at[t]].page # 0
  /\ \A a \in Addr : pte[t][a].page = 0 => pte[t][a] = Absent

\* What the task finds at address a, and why.
SeesAt(t, a) ==
  /\ /\ a \in Backed /\ pte[t][a].page # 0 /\ Clean(pte[t][a]) /\ executable[t] \in File
     /\ ~raced /\ <<t, a>> \notin loose /\ pc[t] # "closing"
     => view[t][a] = <<executable[t], a>>
  /\ /\ pte[t][a] # Absent /\ pc[t] # "closing"
     /\ a \notin Backed \/ ~raced
     => content[pte[t][a].page] = view[t][a]

\* Where a system call stores, if the executable does not back the address.
StoresTo(t) ==
  pc[t] \in {"verified", "faulted"} /\ at[t] \notin Backed /\ pte[t][at[t]].page # 0 => pte[t][at[t]].rw

\* What the task finds in its pages.
Sees(t) ==
  /\ StoresTo(t)
  /\ pc[t] \in {"exec", "closing"} => content[held[t]] = Args
  /\ \A a \in Addr : SeesAt(t, a)

\* Inv, with its parts about one task together.
Whole == Types /\ Sound(mem_map, ref, Writable) /\ \A t \in Task : Placed(t) /\ Sees(t)

\* The addresses the executable backs are addresses.
LEMMA Addresses == Backed \subseteq Addr /\ Stack \in Addr /\ Stack \notin Backed /\ 0 \notin Addr /\ 0 .. NAddr = Addr \cup {0}
BY MemoryAssumption DEF Backed, Addr, Stack

\* It is the same invariant.
LEMMA WholeIsInv == Whole <=> Inv
<1>1. Types => (Sound(mem_map, ref, Writable) <=> Counts(mem_map, ref) /\ Owned(ref, Writable))
  <2> SUFFICES ASSUME Types PROVE ref \in [Name -> 0 .. NPages] /\ mem_map \in [Page -> Nat]
    BY DEF Sound
  <2>1. RefsAre(RefOf(pte, dir, task, held, pipes), pte, dir, task, held, pipes)
    BY RefOfIs DEF Types
  <2> QED BY <2>1, RefState DEF RefsAre, Types
<1>2. (\A t \in Task : Placed(t)) <=> PlaceOK
  BY DEF Placed, PlaceOK
<1>3. (\A t \in Task : Sees(t)) <=> ViewOK /\ ViewIntactUnlessRaced
  <2>1. ASSUME ViewOK, ViewIntactUnlessRaced, NEW t \in Task PROVE Sees(t)
    <3>1. \A a \in Addr : Present(t, a) /\ pc[t] # "closing" => <<t, a>> \in Visible
      BY DEF Visible
    <3>2. \A a \in Addr : pte[t][a] # Absent /\ pc[t] # "closing" /\ (a \notin Backed \/ ~raced)
            => content[pte[t][a].page] = view[t][a]
      BY <2>1, <3>1 DEF ViewIntactUnlessRaced, Present
    <3> QED BY <2>1, <3>2 DEF ViewOK, Sees, SeesAt, StoresTo
  <2>2. ASSUME \A t \in Task : Sees(t) PROVE ViewOK
    BY <2>2, Addresses DEF ViewOK, Sees, SeesAt, StoresTo
  <2>3. ASSUME \A t \in Task : Sees(t) PROVE ViewIntactUnlessRaced
    <3> SUFFICES ASSUME NEW x \in Visible, x[2] \notin Backed \/ ~raced
                 PROVE  content[pte[x[1]][x[2]].page] = view[x[1]][x[2]]
      BY DEF ViewIntactUnlessRaced
    <3>1. x[1] \in Task /\ x[2] \in Addr /\ pte[x[1]][x[2]] # Absent /\ pc[x[1]] # "closing"
      BY DEF Visible, Present
    <3> QED BY <2>3, <3>1 DEF Sees, SeesAt
  <2> QED BY <2>1, <2>2, <2>3
<1> QED BY <1>1, <1>2, <1>3 DEF Whole, Inv

\* Pages as the current state names them.
LEMMA Now ==
  ASSUME Whole
  PROVE  Sound(mem_map, ref, Writable) /\ RefsAre(ref, pte, dir, task, held, pipes)
<1>1. RefsAre(RefOf(pte, dir, task, held, pipes), pte, dir, task, held, pipes)
  BY RefOfIs DEF Types, Whole
<1> QED BY <1>1, RefState DEF Whole

\* Pages as the next state names them.
LEMMA After ==
  ASSUME Types', NEW r, NEW w, Sound(mem_map', r, w), RefsAre(r, pte', dir', task', held', pipes'),
         \A t \in Task, a \in Addr : pte'[t][a].rw => <<t, a, "pte">> \in w
  PROVE  Sound(mem_map, ref, Writable)' /\ r = ref'
<1>1. r = ref'
  BY RefOfIs, RefState DEF Types
<1>2. \A n \in Name : n \in Writable' => n \in w
  BY Names DEF Writable
<1>3. Sound(mem_map', r, Writable')
  BY <1>2, SoundLess
<1> QED BY <1>1, <1>3

-----------------------------------------------------------------------------
(* What a step leaves alone.                                               *)

\* The step changes nothing the task u has.
Frame(u) ==
  /\ pte'[u] = pte[u] /\ dir'[u] = dir[u] /\ task'[u] = task[u] /\ held'[u] = held[u]
  /\ pc'[u] = pc[u] /\ at'[u] = at[u] /\ executable'[u] = executable[u] /\ file'[u] = file[u]
  /\ view'[u] = view[u] /\ \A a \in Backed : <<u, a>> \in loose => <<u, a>> \in loose'

\* The pages the task has are as before, where that matters.
SameContent(u) ==
  /\ \A a \in Addr : pte[u][a].page # 0 /\ (a \notin Backed \/ ~raced')
       => content'[pte[u][a].page] = content[pte[u][a].page]
  /\ held[u] # 0 => content'[held[u]] = content[held[u]]

\* A task the step does not touch still sees what it saw.
LEMMA Framed ==
  ASSUME NEW u \in Task, Placed(u), Sees(u), Frame(u), SameContent(u), raced => raced'
  PROVE  Placed(u)' /\ Sees(u)'
<1>1. Placed(u)'
  BY DEF Placed, Frame
<1>2. ASSUME NEW a \in Addr PROVE SeesAt(u, a)'
  <2>1. SeesAt(u, a) /\ pte'[u][a] = pte[u][a] /\ view'[u][a] = view[u][a]
    BY DEF Sees, Frame
  <2>2. pte[u][a] # Absent /\ (a \notin Backed \/ ~raced') => content'[pte[u][a].page] = content[pte[u][a].page]
    BY DEF Placed, SameContent
  <2> QED BY <2>1, <2>2 DEF SeesAt, Frame, Clean
<1>3. (pc[u] \in {"exec", "closing"} => content[held[u]] = Args)'
  BY DEF Sees, Frame, SameContent, Placed, Holding
<1>4. StoresTo(u)'
  BY DEF Sees, Frame, StoresTo
<1> QED BY <1>1, <1>2, <1>3, <1>4 DEF Sees

\* A page some place names in the next state is not wiped.
LEMMA KeptIs ==
  ASSUME NEW c, Sound(mem_map, ref, Writable)', NEW n \in Name, ref'[n] # 0
  PROVE  Kept(c)[ref'[n]] = c[ref'[n]]
<1>1. PICK p : p = ref'[n]
  OBVIOUS
<1>2. p \in Page /\ mem_map'[p] > 0
  BY <1>1, SoundCount
<1>3. mem_map'[p] # 0
  BY <1>2
<1> QED BY <1>1, <1>2, <1>3 DEF Kept

\* Only pages nobody names are wiped, or given other contents.
LEMMA KeptContent ==
  ASSUME Types', Sound(mem_map, ref, Writable)', content' = Kept(content), NEW u \in Task, Frame(u)
  PROVE  SameContent(u)
<1>1. RefsAre(ref', pte', dir', task', held', pipes')
  BY RefOfIs, RefState DEF Types
<1>2. \A a \in Addr : ref'[<<u, a, "pte">>] = pte[u][a].page /\ <<u, a, "pte">> \in Name
  BY <1>1, Names DEF RefsAre, Frame
<1>3. ref'[<<u, 0, "held">>] = held[u] /\ <<u, 0, "held">> \in Name
  BY <1>1, Names DEF RefsAre, Frame
<1>4. \A n \in Name : ref'[n] # 0 => content'[ref'[n]] = content[ref'[n]]
  BY KeptIs
<1>5. \A a \in Addr : pte[u][a].page # 0 => content'[pte[u][a].page] = content[pte[u][a].page]
  BY <1>2, <1>4
<1>6. held[u] # 0 => content'[held[u]] = content[held[u]]
  BY <1>3, <1>4
<1> QED BY <1>5, <1>6 DEF SameContent

\* The step changes the contents of one page, which the task does not name.
LEMMA OneContent ==
  ASSUME Whole, NEW p \in Page, NEW x, content' = [content EXCEPT ![p] = x], NEW u \in Task,
         \A a \in Addr : ref[<<u, a, "pte">>] # p, ref[<<u, 0, "held">>] # p
  PROVE  SameContent(u)
<1>1. RefsAre(ref, pte, dir, task, held, pipes) /\ content \in [Page -> Contents]
  BY Now DEF Whole, Types
<1>2. \A a \in Addr : pte[u][a].page # p
  BY <1>1 DEF RefsAre
<1>3. held[u] # p
  BY <1>1 DEF RefsAre
<1>4. \A q : q # p => content'[q] = content[q]
  BY <1>1
<1> QED BY <1>2, <1>3, <1>4 DEF SameContent

\* Nothing is wiped.
LEMMA AllContent ==
  ASSUME content' = content, NEW u \in Task
  PROVE  SameContent(u)
BY DEF SameContent

-----------------------------------------------------------------------------
(* exit.                                                                   *)

\* The places of the page tables of t.
Tabled(t) == {n \in Name : n[1] = t /\ n[3] \in {"pte", "dir"}}

\* The places r without those of the page tables of t.
Cleared(r, t) == [n \in Name |-> IF n \in Tabled(t) THEN 0 ELSE r[n]]

\* The places of the page tables of t that name page p.
LEMMA TabledCount ==
  ASSUME NEW r, NEW tk, NEW hd, NEW pp, RefsAre(r, pte, dir, tk, hd, pp), NEW t \in Task, NEW p \in Page
  PROVE  /\ Cardinality(Among(Tabled(t), r, p)) = Entries(t, p) + Cardinality({a \in Addr : dir[t][a] = p})
         /\ Entries(t, p) \in Nat /\ Cardinality({a \in Addr : dir[t][a] = p}) \in Nat
<1> DEFINE E == {a \in Addr : pte[t][a].page = p}
           D == {a \in Addr : dir[t][a] = p}
           NE == {n \in Tabled(t) : r[n] = p /\ n[3] = "pte"}
           ND == {n \in Tabled(t) : r[n] = p /\ n[3] = "dir"}
           e == [a \in E |-> <<t, a, "pte">>]
           d == [a \in D |-> <<t, a, "dir">>]
<1>1. IsFiniteSet(E) /\ IsFiniteSet(D)
  <2>1. E \subseteq Addr /\ D \subseteq Addr
    OBVIOUS
  <2> HIDE DEF E, D
  <2> QED BY <2>1, FiniteNames, FS_Subset
<1>2. IsFiniteSet(NE) /\ Cardinality(NE) = Cardinality(E)
  <2>1. \A a \in E : <<t, a, "pte">> \in NE
    BY Names DEF Tabled, RefsAre
  <2>2. \A n \in NE : \E a \in E : n = <<t, a, "pte">>
    <3> SUFFICES ASSUME NEW n \in NE PROVE \E a \in E : n = <<t, a, "pte">>
      OBVIOUS
    <3>1. n \in Name /\ n[1] = t /\ n[3] = "pte" /\ r[n] = p
      BY DEF Tabled
    <3>2. PICK a \in Addr : n = <<t, a, "pte">>
      BY <3>1, Names
    <3>3. r[<<t, a, "pte">>] = pte[t][a].page
      BY DEF RefsAre
    <3>4. a \in E
      BY <3>1, <3>2, <3>3
    <3> QED BY <3>2, <3>4
  <2>3. e \in [E -> NE] /\ (\A x, y \in E : e[x] = e[y] => x = y) /\ \A z \in NE : \E x \in E : e[x] = z
    BY <2>1, <2>2
  <2> HIDE DEF E, NE, e
  <2> QED BY <1>1, <2>3, SameSize
<1>3. IsFiniteSet(ND) /\ Cardinality(ND) = Cardinality(D)
  <2>1. \A a \in D : <<t, a, "dir">> \in ND
    BY Names DEF Tabled, RefsAre
  <2>2. \A n \in ND : \E a \in D : n = <<t, a, "dir">>
    <3> SUFFICES ASSUME NEW n \in ND PROVE \E a \in D : n = <<t, a, "dir">>
      OBVIOUS
    <3>1. n \in Name /\ n[1] = t /\ n[3] = "dir" /\ r[n] = p
      BY DEF Tabled
    <3>2. PICK a \in Addr : n = <<t, a, "dir">>
      BY <3>1, Names
    <3>3. r[<<t, a, "dir">>] = dir[t][a]
      BY DEF RefsAre
    <3>4. a \in D
      BY <3>1, <3>2, <3>3
    <3> QED BY <3>2, <3>4
  <2>3. d \in [D -> ND] /\ (\A x, y \in D : d[x] = d[y] => x = y) /\ \A z \in ND : \E x \in D : d[x] = z
    BY <2>1, <2>2
  <2> HIDE DEF D, ND, d
  <2> QED BY <1>1, <2>3, SameSize
<1>4. NE \cap ND = {} /\ NE \cup ND = Among(Tabled(t), r, p)
  BY DEF Tabled, Among
<1>5. Entries(t, p) = Cardinality(E)
  BY DEF Entries
<1> HIDE DEF E, D, NE, ND
<1>6. Cardinality(NE \cup ND) = Cardinality(NE) + Cardinality(ND)
  BY <1>2, <1>3, <1>4, DisjointUnion
<1>7. Cardinality(E) \in Nat /\ Cardinality(D) \in Nat
  BY <1>1, FS_CardinalityType
<1> QED BY <1>2, <1>3, <1>4, <1>5, <1>6, <1>7 DEF D

\* free_page_tables gives back what the page tables name, and the tables.
LEMMA SoundClear ==
  ASSUME NEW map, NEW r, NEW w, Sound(map, r, w), NEW t \in Task,
         NEW tk, NEW hd, NEW pp, RefsAre(r, pte, dir, tk, hd, pp)
  PROVE  Sound(free_page_tables(map, t), Cleared(r, t), w)
<1>1. map \in [Page -> Nat] /\ r \in [Name -> 0 .. NPages] /\ Counts(map, r) /\ Owned(r, w)
  BY DEF Sound
<1> DEFINE N == Tabled(t)
           s == Cleared(r, t)
           new == free_page_tables(map, t)
<1>2. N \in SUBSET Name
  BY DEF Tabled
<1>3. s \in [Name -> 0 .. NPages] /\ \A n \in Name : s[n] = IF n \in N THEN 0 ELSE r[n]
  BY <1>1, Pages DEF Cleared
<1>4. new \in [Page -> Int] /\ \A p \in Page : new[p] = map[p] - Cardinality(Among(N, r, p))
  <2>1. ASSUME NEW p \in Page
        PROVE  new[p] = map[p] - Cardinality(Among(N, r, p)) /\ new[p] \in Int
    <3>1. /\ Cardinality(Among(N, r, p)) = Entries(t, p) + Cardinality({a \in Addr : dir[t][a] = p})
          /\ Entries(t, p) \in Nat /\ Cardinality({a \in Addr : dir[t][a] = p}) \in Nat
      BY TabledCount
    <3>2. new[p] = map[p] - Entries(t, p) - Cardinality({a \in Addr : dir[t][a] = p}) /\ map[p] \in Nat
      BY <1>1 DEF free_page_tables
    <3> QED BY <3>1, <3>2
  <2>2. new = [p \in Page |-> new[p]]
    BY DEF free_page_tables
  <2> HIDE DEF new
  <2> QED BY <2>1, <2>2
<1> HIDE DEF N, s, new
<1>5. Counts(new, s) /\ new \in [Page -> Nat]
  <2>1. r \in [Name -> 0 .. NPages] /\ map \in [Page -> Nat] /\ s \in [Name -> 0 .. NPages] /\ new \in [Page -> Int]
    BY <1>1, <1>3, <1>4
  <2>2. Counts(map, r)
    BY <1>1
  <2>3. \A n \in Name : s[n] = IF n \in N THEN 0 ELSE r[n]
    BY <1>3
  <2>4. \A p \in Page : new[p] = map[p] - Cardinality(Among(N, r, p))
    BY <1>4
  <2> QED BY <1>2, <2>1, <2>2, <2>3, <2>4, CountDropAll, SMTT(30)
<1>6. Owned(s, w)
  BY <1>1, <1>3, OwnLess
<1>7. Sound(new, s, w)
  BY <1>3, <1>5, <1>6 DEF Sound
<1> QED BY <1>7 DEF s, new

\* The places that are left.
LEMMA ClearedRefs ==
  ASSUME NEW r, NEW pt, NEW dr, NEW tk, NEW hd, NEW pp, RefsAre(r, pt, dr, tk, hd, pp), NEW t \in Task,
         NEW ptnew, \A u \in Task, b \in Addr : ptnew[u][b].page = IF u = t THEN 0 ELSE pt[u][b].page,
         NEW drnew, \A u \in Task, b \in Addr : drnew[u][b] = IF u = t THEN 0 ELSE dr[u][b]
  PROVE  RefsAre(Cleared(r, t), ptnew, drnew, tk, hd, pp)
<1>1. \A u \in Task, b \in Addr : /\ <<u, b, "pte">> \in Tabled(t) <=> u = t
                                  /\ <<u, b, "dir">> \in Tabled(t) <=> u = t
  BY Names DEF Tabled
<1>2. /\ \A u \in Task : <<u, 0, "task">> \notin Tabled(t) /\ <<u, 0, "held">> \notin Tabled(t)
      /\ \A p \in Page : <<p, 0, "pipe">> \notin Tabled(t)
  BY DEF Tabled
<1>3. Cleared(r, t) \in [Name -> 0 .. NPages] /\ \A n \in Name : Cleared(r, t)[n] = IF n \in Tabled(t) THEN 0 ELSE r[n]
  BY Pages DEF Cleared, RefsAre
<1>4. \A u \in Task, b \in Addr : /\ Cleared(r, t)[<<u, b, "pte">>] = ptnew[u][b].page
                                  /\ Cleared(r, t)[<<u, b, "dir">>] = drnew[u][b]
  <2> SUFFICES ASSUME NEW u \in Task, NEW b \in Addr
               PROVE  /\ Cleared(r, t)[<<u, b, "pte">>] = ptnew[u][b].page
                      /\ Cleared(r, t)[<<u, b, "dir">>] = drnew[u][b]
    OBVIOUS
  <2>1. <<u, b, "pte">> \in Name /\ <<u, b, "dir">> \in Name
    BY Names
  <2>2. r[<<u, b, "pte">>] = pt[u][b].page /\ r[<<u, b, "dir">>] = dr[u][b]
    BY DEF RefsAre
  <2> QED BY <1>1, <1>3, <2>1, <2>2
<1>5. /\ \A u \in Task : Cleared(r, t)[<<u, 0, "task">>] = tk[u] /\ Cleared(r, t)[<<u, 0, "held">>] = hd[u]
      /\ \A p \in Page : Cleared(r, t)[<<p, 0, "pipe">>] = IF p \in pp THEN p ELSE 0
  BY <1>2, <1>3, Names DEF RefsAre
<1> QED BY <1>3, <1>4, <1>5 DEF RefsAre

\* The constants of the entries and contents are well typed.
LEMMA Consts ==
  /\ Absent \in Entry /\ Absent.page = 0 /\ Absent.rw = FALSE /\ Absent.dirty = FALSE
  /\ NoEntry \in [Addr -> Entry] /\ NoTable \in [Addr -> 0 .. NPages]
  /\ \A a \in Addr : NoEntry[a] = Absent /\ NoTable[a] = 0
  /\ Zero \in Contents /\ Args \in Contents
  /\ \A f \in File, a \in Addr : <<f, a>> \in Contents
  /\ \A t \in Task : <<t, 0>> \in Contents /\ <<t, 1>> \in Contents
<1>1. Absent \in Entry /\ Absent.page = 0 /\ Absent.rw = FALSE /\ Absent.dirty = FALSE
  BY Pages DEF Absent, Entry
<1>2. NoEntry \in [Addr -> Entry] /\ NoTable \in [Addr -> 0 .. NPages]
  BY <1>1, Pages DEF NoEntry, NoTable
<1>3. \A a \in Addr : NoEntry[a] = Absent /\ NoTable[a] = 0
  BY DEF NoEntry, NoTable
<1>4. /\ Zero \in Contents /\ Args \in Contents
      /\ \A f \in File, a \in Addr : <<f, a>> \in Contents
      /\ \A t \in Task : <<t, 0>> \in Contents /\ <<t, 1>> \in Contents
  BY DEF Contents, Zero, Args
<1> QED BY <1>1, <1>2, <1>3, <1>4

\* What is kept is still what a page may hold.
LEMMA KeptType ==
  ASSUME NEW c \in [Page -> Contents]
  PROVE  Kept(c) \in [Page -> Contents]
BY Consts DEF Kept

\* do_exit, wherever it is called: map counts what is left once the page the
\* task held is given back.
LEMMA ExitKeeps ==
  ASSUME Whole, NEW t \in Task, task[t] # 0, NEW map,
         Sound(map, [ref EXCEPT ![<<t, 0, "held">>] = 0], Writable), Exit(t, map)
  PROVE  Whole'
<1> DEFINE n == <<t, 0, "held">>
           r1 == [ref EXCEPT ![n] = 0]
           r2 == Cleared(r1, t)
<1>1. Types /\ RefsAre(ref, pte, dir, task, held, pipes)
  BY Now DEF Whole
<1>2. RefsAre(r1, pte, dir, task, held', pipes)
  <2>1. \A u \in Task : held'[u] = IF u = t THEN 0 ELSE held[u]
    BY <1>1 DEF Types, Exit
  <2> QED BY <1>1, <2>1, SetHeld, Pages
<1>3. /\ \A u \in Task : u # t => pte'[u] = pte[u] /\ dir'[u] = dir[u]
      /\ pte'[t] = NoEntry /\ dir'[t] = NoTable
  BY <1>1 DEF Types, Exit
<1>4. RefsAre(r2, pte', dir', task', held', pipes')
  <2>1. \A u \in Task, b \in Addr : pte'[u][b].page = IF u = t THEN 0 ELSE pte[u][b].page
    BY <1>3, Consts
  <2>2. \A u \in Task, b \in Addr : dir'[u][b] = IF u = t THEN 0 ELSE dir[u][b]
    BY <1>3, Consts
  <2>3. task' = task /\ pipes' = pipes
    BY DEF Exit
  <2> HIDE DEF r1
  <2>4. RefsAre(Cleared(r1, t), pte', dir', task, held', pipes)
    BY <1>2, <2>1, <2>2, ClearedRefs
  <2> QED BY <2>3, <2>4
<1>5. Sound(mem_map', r2, Writable)
  <2>1. mem_map' = free_page_tables(map, t)
    BY DEF Exit
  <2>2. RefsAre(r1, pte, dir, task, held', pipes)
    BY <1>2
  <2>3. Sound(map, r1, Writable)
    OBVIOUS
  <2> HIDE DEF r1
  <2> QED BY <2>1, <2>2, <2>3, SoundClear
<1>6. Types'
  <2>1. mem_map' \in [Page -> Nat]
    BY <1>5 DEF Sound
  <2>2. content' \in [Page -> Contents]
    BY <1>1, KeptType DEF Types, Exit
  <2>3. pte' \in [Task -> [Addr -> Entry]] /\ dir' \in [Task -> [Addr -> 0 .. NPages]]
    BY <1>1, Consts DEF Types, Exit
  <2>4. view' \in [Task -> [Addr -> Contents]]
    BY <1>1, Consts DEF Types, Exit
  <2>5. /\ task' \in [Task -> 0 .. NPages] /\ pipes' \subseteq Page
        /\ executable' \in [Task -> File \cup {NULL}] /\ file' \in [Task -> File \cup {NULL}]
        /\ raced' \in BOOLEAN /\ loose' \subseteq Task \X Backed
    BY <1>1 DEF Types, Exit, Tight
  <2>6. pc' \in [Task -> Place] /\ held' \in [Task -> 0 .. NPages] /\ at' \in [Task -> 0 .. NAddr]
    BY <1>1, Pages, Addresses DEF Types, Exit, Place, InCall
  <2> QED BY <2>1, <2>2, <2>3, <2>4, <2>5, <2>6 DEF Types
<1>7. Sound(mem_map, ref, Writable)'
  <2>1. \A u \in Task, a \in Addr : pte'[u][a].rw => <<u, a, "pte">> \in Writable
    BY <1>3, Consts, WritableIs
  <2> HIDE DEF r2
  <2> QED BY <1>4, <1>5, <1>6, <2>1, After
<1>8. ASSUME NEW u \in Task PROVE Placed(u)' /\ Sees(u)'
  <2>1. CASE u # t
    <3>1. Frame(u)
      BY <1>1, <2>1 DEF Frame, Types, Exit, Tight
    <3>2. SameContent(u)
      BY <1>6, <1>7, <3>1, KeptContent DEF Exit
    <3>3. Placed(u) /\ Sees(u) /\ (raced => raced')
      BY DEF Whole, Exit
    <3> QED BY <3>1, <3>2, <3>3, Framed
  <2>2. CASE u = t
    <3>1. pc'[t] = "exiting" /\ held'[t] = 0 /\ at'[t] = 0 /\ task'[t] # 0 /\ pte'[t] = NoEntry /\ dir'[t] = NoTable
      BY <1>1, <1>3 DEF Types, Exit
    <3>2. Placed(t)'
      BY <3>1, Consts DEF Placed, Gone, Holding, Busy, InCall
    <3>3. \A a \in Addr : pte'[t][a] = Absent
      BY <3>1, Consts
    <3>4. ASSUME NEW a \in Addr PROVE SeesAt(t, a)'
      BY <3>3, Consts DEF SeesAt
    <3>5. Sees(t)'
      BY <3>1, <3>4 DEF Sees, StoresTo
    <3> QED BY <2>2, <3>2, <3>5
  <2> QED BY <2>1, <2>2
<1> QED BY <1>6, <1>7, <1>8 DEF Whole

\* The same where the task holds no page.
LEMMA ExitNow ==
  ASSUME Whole, NEW t \in Task, pc[t] \notin Gone, pc[t] \notin Holding, Exit(t, mem_map)
  PROVE  Whole'
<1>1. Types /\ RefsAre(ref, pte, dir, task, held, pipes) /\ Sound(mem_map, ref, Writable)
  BY Now DEF Whole
<1>2. Placed(t)
  BY DEF Whole
<1>3. held[t] = 0 /\ task[t] # 0
  BY <1>2 DEF Placed, Gone
<1>4. [ref EXCEPT ![<<t, 0, "held">>] = 0] = ref
  BY <1>1, <1>3, Names DEF RefsAre
<1> QED BY <1>1, <1>3, <1>4, ExitKeeps

\* Nothing that names a page changes.
LEMMA SameSound ==
  ASSUME Whole, UNCHANGED <<mem_map, pte, dir, task, held, pipes>>
  PROVE  Sound(mem_map, ref, Writable)'
<1>1. ref' = ref /\ Writable' = Writable
  BY DEF ref, Ref, Writable
<1> QED BY <1>1 DEF Whole

\* A task without pages sees nothing.
LEMMA SeesNothing ==
  ASSUME NEW t \in Task, pte'[t] = NoEntry, pc'[t] \in Gone
  PROVE  Sees(t)'
<1>1. \A a \in Addr : pte'[t][a] = Absent
  BY Consts
<1>2. ASSUME NEW a \in Addr PROVE SeesAt(t, a)'
  BY <1>1, Consts DEF SeesAt
<1> QED BY <1>2 DEF Sees, Gone, StoresTo

\* The end of do_exit.
LEMMA ExitDoneKeeps ==
  ASSUME Whole, NEW t \in Task, ExitDone(t)
  PROVE  Whole'
<1>1. Types
  BY DEF Whole
<1>2. Types'
  BY <1>1 DEF Types, ExitDone, Place, InCall
<1>3. Sound(mem_map, ref, Writable)'
  BY SameSound DEF ExitDone
<1>4. ASSUME NEW u \in Task PROVE Placed(u)' /\ Sees(u)'
  <2>0. Placed(u) /\ Sees(u) /\ (raced => raced')
    BY DEF Whole, ExitDone
  <2>1. CASE u # t
    <3>1. Frame(u)
      BY <1>1, <2>1 DEF Frame, Types, ExitDone
    <3>2. SameContent(u)
      BY AllContent DEF ExitDone
    <3> QED BY <2>0, <3>1, <3>2, Framed
  <2>2. CASE u = t
    <3>1. pc[t] = "exiting" /\ pc'[t] = "zombie" /\ held' = held /\ at' = at /\ pte' = pte /\ dir' = dir /\ task' = task
      BY <1>1 DEF Types, ExitDone
    <3>2. Placed(t)'
      BY <2>0, <2>2, <3>1 DEF Placed, Gone, Holding, Busy, InCall
    <3>3. Sees(t)'
      BY <2>0, <2>2, <3>1, SeesNothing DEF Placed, Gone
    <3> QED BY <2>2, <3>2, <3>3
  <2> QED BY <2>1, <2>2
<1> QED BY <1>2, <1>3, <1>4 DEF Whole

\* release gives back the page of the task structure.
LEMMA ReleaseKeeps ==
  ASSUME Whole, NEW t \in Task, release(t)
  PROVE  Whole'
<1>1. Types /\ RefsAre(ref, pte, dir, task, held, pipes) /\ Sound(mem_map, ref, Writable)
  BY Now DEF Whole
<1> DEFINE n == <<t, 0, "task">>
           r == [ref EXCEPT ![n] = 0]
<1>2. RefsAre(r, pte', dir', task', held', pipes')
  <2>1. \A u \in Task : task'[u] = IF u = t THEN 0 ELSE task[u]
    BY <1>1 DEF Types, release
  <2>2. RefsAre(r, pte, dir, task', held, pipes)
    BY <1>1, <2>1, SetTask, Pages
  <2> QED BY <2>2 DEF release
<1>3. Sound(mem_map', r, Writable)
  <2>1. n \in Name /\ ref[n] = task[t]
    BY <1>1, Names DEF RefsAre
  <2>2. Sound(free_page(mem_map, ref[n]), [ref EXCEPT ![n] = 0], Writable)
    BY <1>1, <2>1, SoundDrop
  <2> QED BY <2>1, <2>2 DEF release
<1>4. Types'
  <2>1. mem_map' \in [Page -> Nat]
    BY <1>3 DEF Sound
  <2>2. task' \in [Task -> 0 .. NPages]
    BY <1>1, Pages DEF Types, release
  <2> QED BY <1>1, <2>1, <2>2 DEF Types, release, Place, InCall
<1>5. Sound(mem_map, ref, Writable)'
  <2>1. \A u \in Task, a \in Addr : pte'[u][a].rw => <<u, a, "pte">> \in Writable
    BY WritableIs DEF release
  <2> HIDE DEF r
  <2> QED BY <1>2, <1>3, <1>4, <2>1, After
<1>6. ASSUME NEW u \in Task PROVE Placed(u)' /\ Sees(u)'
  <2>0. Placed(u) /\ Sees(u) /\ (raced => raced')
    BY DEF Whole, release
  <2>1. CASE u # t
    <3>1. Frame(u)
      BY <1>1, <2>1 DEF Frame, Types, release
    <3>2. SameContent(u)
      BY AllContent DEF release
    <3> QED BY <2>0, <3>1, <3>2, Framed
  <2>2. CASE u = t
    <3>1. pc[t] = "zombie" /\ pc'[t] = "none" /\ held' = held /\ at' = at /\ pte' = pte /\ dir' = dir /\ task'[t] = 0
      BY <1>1 DEF Types, release
    <3>2. Placed(t)'
      BY <2>0, <2>2, <3>1 DEF Placed, Gone, Holding, Busy, InCall
    <3>3. Sees(t)'
      BY <2>0, <2>2, <3>1, SeesNothing DEF Placed, Gone
    <3> QED BY <2>2, <3>2, <3>3
  <2> QED BY <2>1, <2>2
<1> QED BY <1>4, <1>5, <1>6 DEF Whole

-----------------------------------------------------------------------------
(* Pipes.                                                                  *)

\* A step that only changes mem_map and the pipes.
LEMMA PipeStep ==
  ASSUME Whole, UNCHANGED <<content, task, dir, pte, executable, pc, held, at, file, view, loose, raced>>,
         NEW p \in Page, NEW q \in {0, p}, \A o \in Page : o \in pipes' <=> (IF o = p THEN q = p ELSE o \in pipes),
         pipes' \subseteq Page, NEW w, Sound(mem_map', [ref EXCEPT ![<<p, 0, "pipe">>] = q], w),
         \A n \in Name : n \in Writable => n \in w
  PROVE  Whole'
<1>1. Types /\ RefsAre(ref, pte, dir, task, held, pipes)
  BY Now DEF Whole
<1> DEFINE r == [ref EXCEPT ![<<p, 0, "pipe">>] = q]
<1>2. RefsAre(r, pte', dir', task', held', pipes')
  <2>1. RefsAre(r, pte, dir, task, held, pipes')
    BY <1>1, SetPipe
  <2> QED BY <2>1
<1>3. Types'
  <2>1. mem_map' \in [Page -> Nat]
    BY DEF Sound
  <2> QED BY <1>1, <2>1 DEF Types
<1>4. Sound(mem_map, ref, Writable)'
  <2>1. \A u \in Task, a \in Addr : pte'[u][a].rw => <<u, a, "pte">> \in w
    BY WritableIs, Names
  <2> HIDE DEF r
  <2>2. Sound(mem_map', r, w)
    BY DEF r
  <2> QED BY <1>2, <1>3, <2>1, <2>2, After
<1>5. ASSUME NEW u \in Task PROVE Placed(u)' /\ Sees(u)'
  <2>1. Placed(u) /\ Sees(u) /\ (raced => raced') /\ Frame(u)
    BY DEF Whole, Frame
  <2>2. SameContent(u)
    BY AllContent
  <2> QED BY <2>1, <2>2, Framed
<1> QED BY <1>3, <1>4, <1>5 DEF Whole

\* The page of a new pipe.
LEMMA GetPipeKeeps ==
  ASSUME Whole, NEW t \in Task, get_pipe_inode(t)
  PROVE  Whole'
<1>1. Sound(mem_map, ref, Writable) /\ RefsAre(ref, pte, dir, task, held, pipes) /\ pipes \subseteq Page
  BY Now DEF Whole, Types
<1>2. PICK p \in Page : p = get_free_page(mem_map) /\ mem_map[p] = 0
  BY FreePage DEF get_pipe_inode
<1> DEFINE n == <<p, 0, "pipe">>
<1>3. n \in Name /\ \A m \in Name : ref[m] # p
  BY <1>1, <1>2, Names, NoUser DEF Sound
<1>4. p \notin pipes /\ ref[n] = 0
  BY <1>1, <1>3, Pages DEF RefsAre
<1>5. Sound(Use(mem_map, p), [ref EXCEPT ![n] = p], Writable \cup {n})
  BY <1>1, <1>2, <1>3, <1>4, SoundTake
<1>6. mem_map' = Use(mem_map, p) /\ pipes' = pipes \cup {p}
  BY <1>2 DEF get_pipe_inode
<1>7. UNCHANGED <<content, task, dir, pte, executable, pc, held, at, file, view, loose, raced>>
  BY DEF get_pipe_inode
<1>8. \A o \in Page : o \in pipes' <=> (IF o = p THEN p = p ELSE o \in pipes)
  BY <1>6
<1>9. pipes' \subseteq Page
  BY <1>1, <1>6
<1> HIDE DEF n
<1>10. Sound(mem_map', [ref EXCEPT ![n] = p], Writable \cup {n}) /\ \A m \in Name : m \in Writable => m \in Writable \cup {n}
  BY <1>5, <1>6
<1> QED BY <1>7, <1>8, <1>9, <1>10, PipeStep DEF n

\* The page of a pipe that goes.
LEMMA IputKeeps ==
  ASSUME Whole, NEW t \in Task, NEW p \in Page, IputPipe(t, p)
  PROVE  Whole'
<1>1. Sound(mem_map, ref, Writable) /\ RefsAre(ref, pte, dir, task, held, pipes) /\ pipes \subseteq Page
  BY Now DEF Whole, Types
<1> DEFINE n == <<p, 0, "pipe">>
<1>2. n \in Name /\ ref[n] = p
  BY <1>1, Names DEF RefsAre, IputPipe
<1>3. Sound(free_page(mem_map, ref[n]), [ref EXCEPT ![n] = 0], Writable)
  BY <1>1, <1>2, SoundDrop
<1>4. mem_map' = free_page(mem_map, p) /\ pipes' = pipes \ {p}
  BY DEF IputPipe
<1>5. UNCHANGED <<content, task, dir, pte, executable, pc, held, at, file, view, loose, raced>>
  BY DEF IputPipe
<1>6. \A o \in Page : o \in pipes' <=> (IF o = p THEN 0 = p ELSE o \in pipes)
  BY <1>4, Pages
<1>7. pipes' \subseteq Page
  BY <1>1, <1>4
<1> HIDE DEF n
<1>8. Sound(mem_map', [ref EXCEPT ![n] = 0], Writable)
  BY <1>2, <1>3, <1>4
<1> QED BY <1>5, <1>6, <1>7, <1>8, PipeStep DEF n

-----------------------------------------------------------------------------
(* exec up to the change of programs, and the page of an executable.       *)

\* The task still finds at an address what it found there.
LEMMA SeesStill ==
  ASSUME NEW t \in Task, NEW a \in Addr, SeesAt(t, a), view'[t][a] = view[t][a],
         pte'[t][a].page = pte[t][a].page, pte'[t][a].dirty = pte[t][a].dirty,
         pte'[t][a] # Absent => pte[t][a] # Absent,
         executable'[t] = executable[t], raced => raced',
         pte[t][a] # Absent /\ (a \notin Backed \/ ~raced') => content'[pte[t][a].page] = content[pte[t][a].page],
         a \in Backed /\ <<t, a>> \in loose => <<t, a>> \in loose',
         pc[t] = "closing" => pc'[t] = "closing"
  PROVE  SeesAt(t, a)'
BY DEF SeesAt, Clean

\* A page in an entry is not wiped.
LEMMA KeptEntry ==
  ASSUME Types', Sound(mem_map, ref, Writable)', NEW c, NEW u \in Task, NEW a \in Addr, pte'[u][a].page # 0
  PROVE  Kept(c)[pte'[u][a].page] = c[pte'[u][a].page]
<1>1. RefsAre(ref', pte', dir', task', held', pipes')
  BY RefOfIs, RefState DEF Types
<1>2. ref'[<<u, a, "pte">>] = pte'[u][a].page /\ <<u, a, "pte">> \in Name
  BY <1>1, Names DEF RefsAre
<1>3. ASSUME NEW n \in Name, ref'[n] # 0 PROVE Kept(c)[ref'[n]] = c[ref'[n]]
  BY <1>3, KeptIs
<1> QED BY <1>2, <1>3

\* A task gets a free page that only it knows.
LEMMA HoldNew ==
  ASSUME Whole, NEW t \in Task, held[t] = 0, get_free_page(mem_map) # 0,
         mem_map' = Use(mem_map, get_free_page(mem_map)), held' = [held EXCEPT ![t] = get_free_page(mem_map)],
         UNCHANGED <<task, dir, pte, pipes>>, Types'
  PROVE  /\ Sound(mem_map, ref, Writable)'
         /\ get_free_page(mem_map) \in Page /\ \A n \in Name : ref[n] # get_free_page(mem_map)
<1>1. Types /\ RefsAre(ref, pte, dir, task, held, pipes) /\ Sound(mem_map, ref, Writable)
  BY Now DEF Whole
<1>2. PICK p \in Page : p = get_free_page(mem_map) /\ mem_map[p] = 0
  BY FreePage
<1> DEFINE n == <<t, 0, "held">>
           r == [ref EXCEPT ![n] = p]
<1>3. n \in Name /\ ref[n] = 0
  BY <1>1, Names DEF RefsAre
<1>4. \A m \in Name : ref[m] # p
  BY <1>1, <1>2, NoUser DEF Sound
<1>5. RefsAre(r, pte', dir', task', held', pipes')
  <2>1. \A u \in Task : held'[u] = IF u = t THEN p ELSE held[u]
    BY <1>1, <1>2 DEF Types
  <2>2. RefsAre(r, pte, dir, task, held', pipes)
    BY <1>1, <2>1, SetHeld, Pages
  <2> QED BY <2>2
<1>6. Sound(mem_map', r, Writable \cup {n})
  BY <1>1, <1>2, <1>3, SoundTake
<1>7. \A u \in Task, a \in Addr : pte'[u][a].rw => <<u, a, "pte">> \in Writable \cup {n}
  BY WritableIs
<1> HIDE DEF r, n
<1>8. Sound(mem_map, ref, Writable)'
  BY <1>5, <1>6, <1>7, After
<1> QED BY <1>2, <1>4, <1>8

\* do_no_page gets a page to read into.
LEMMA LoadKeeps ==
  ASSUME Whole, NEW t \in Task, NEW a \in Addr, do_no_page(t, a)
  PROVE  Whole'
<1>1. Types /\ Placed(t)
  BY DEF Whole
<1>2. pc[t] \in {"user", "verified"} /\ pte[t][a] = Absent /\ executable[t] \in File /\ held[t] = 0
  BY <1>1, MemoryAssumption DEF do_no_page, Faults, Present, Anonymous, Types, Placed, Holding
<1>3. CASE get_free_page(mem_map) = 0
  <2>1. Exit(t, mem_map)
    BY <1>3 DEF do_no_page
  <2> QED BY <1>2, <2>1, ExitNow DEF Gone, Holding
<1>4. CASE get_free_page(mem_map) # 0
  <2> DEFINE p == get_free_page(mem_map)
  <2> DEFINE go == IF pc[t] = "user" THEN "loading" ELSE "filling"
  <2>1. /\ mem_map' = Use(mem_map, p) /\ pc' = [pc EXCEPT ![t] = go]
        /\ held' = [held EXCEPT ![t] = p] /\ at' = [at EXCEPT ![t] = a]
        /\ UNCHANGED <<content, task, dir, pte, executable, file, view, pipes, loose, raced>>
    BY <1>4 DEF do_no_page
  <2>2. p \in Page
    BY <1>4, FreePage
  <2> HIDE DEF p
  <2>3. Types'
    <3>1. mem_map' \in [Page -> Nat]
      BY <1>1, <2>1, <2>2, UseIs DEF Types
    <3>2. pc' \in [Task -> Place] /\ held' \in [Task -> 0 .. NPages] /\ at' \in [Task -> 0 .. NAddr]
      BY <1>1, <2>1, <2>2, Pages, Addresses DEF Types, Place, InCall
    <3> QED BY <1>1, <2>1, <3>1, <3>2 DEF Types
  <2>4. Sound(mem_map, ref, Writable)'
    BY <1>2, <1>4, <2>1, <2>3, HoldNew DEF p
  <2>5. ASSUME NEW u \in Task PROVE Placed(u)' /\ Sees(u)'
    <3>0. Placed(u) /\ Sees(u) /\ (raced => raced') /\ SameContent(u)
      BY <2>1, AllContent DEF Whole
    <3>1. CASE u # t
      <4>1. Frame(u)
        BY <1>1, <2>1, <3>1 DEF Frame, Types
      <4> QED BY <3>0, <4>1, Framed
    <3>2. CASE u = t
      <4>1. pc'[t] \in {"loading", "filling"} /\ held'[t] # 0 /\ at'[t] = a /\ a # 0
        BY <1>1, <2>1, <2>2, Pages, Addresses DEF Types
      <4>2. Placed(t)'
        BY <1>1, <1>2, <2>1, <4>1 DEF Placed, Gone, Holding, Busy, InCall
      <4>3. ASSUME NEW b \in Addr PROVE SeesAt(t, b)'
        <5>1. SeesAt(t, b)
          BY <3>0, <3>2 DEF Sees
        <5> QED BY <1>2, <2>1, <5>1, SeesStill
      <4>4. Sees(t)'
        BY <4>1, <4>3 DEF Sees, StoresTo
      <4> QED BY <3>2, <4>2, <4>4
    <3> QED BY <3>1, <3>2
  <2> QED BY <2>3, <2>4, <2>5 DEF Whole
<1> QED BY <1>3, <1>4

\* do_execve copies the arguments to a page.
LEMMA ExecveKeeps ==
  ASSUME Whole, NEW t \in Task, NEW f \in File, do_execve(t, f)
  PROVE  Whole'
<1>1. Types /\ Placed(t)
  BY DEF Whole
<1> DEFINE p == get_free_page(mem_map)
<1>2. /\ p # 0 /\ mem_map' = Use(mem_map, p) /\ content' = [content EXCEPT ![p] = Args]
      /\ held' = [held EXCEPT ![t] = p] /\ file' = [file EXCEPT ![t] = f] /\ pc' = [pc EXCEPT ![t] = "exec"]
      /\ UNCHANGED <<task, dir, pte, executable, at, view, pipes, loose, raced>> /\ pc[t] = "user"
  BY DEF do_execve
<1>3. p \in Page
  BY <1>2, FreePage
<1>4. held[t] = 0 /\ at[t] = 0
  BY <1>1, <1>2 DEF Placed, Holding, Busy, InCall
<1> HIDE DEF p
<1>5. Types'
  <2>1. mem_map' \in [Page -> Nat]
    BY <1>1, <1>2, <1>3, UseIs DEF Types
  <2>2. pc' \in [Task -> Place] /\ held' \in [Task -> 0 .. NPages] /\ file' \in [Task -> File \cup {NULL}]
    BY <1>1, <1>2, <1>3, Pages DEF Types, Place, InCall
  <2>3. content' \in [Page -> Contents]
    BY <1>1, <1>2, Consts DEF Types
  <2> QED BY <1>1, <1>2, <2>1, <2>2, <2>3 DEF Types
<1>6. Sound(mem_map, ref, Writable)' /\ \A n \in Name : ref[n] # p
  BY <1>2, <1>4, <1>5, HoldNew DEF p
<1>7. ASSUME NEW u \in Task PROVE Placed(u)' /\ Sees(u)'
  <2>0. Placed(u) /\ Sees(u) /\ (raced => raced') /\ SameContent(u)
    <3>1. (\A a \in Addr : ref[<<u, a, "pte">>] # p) /\ ref[<<u, 0, "held">>] # p
      BY <1>6, Names
    <3>2. SameContent(u)
      BY <1>2, <1>3, <3>1, OneContent
    <3> QED BY <1>2, <3>2 DEF Whole
  <2>1. CASE u # t
    <3>1. Frame(u)
      BY <1>1, <1>2, <2>1 DEF Frame, Types
    <3> QED BY <2>0, <3>1, Framed
  <2>2. CASE u = t
    <3>1. pc'[t] = "exec" /\ held'[t] = p /\ file'[t] = f /\ at'[t] = 0 /\ content'[p] = Args
      BY <1>1, <1>2, <1>3, <1>4 DEF Types
    <3>2. Placed(t)'
      BY <1>1, <1>2, <3>1 DEF Placed, Gone, Holding, Busy, InCall
    <3>3. ASSUME NEW b \in Addr PROVE SeesAt(t, b)'
      <4>1. /\ SeesAt(t, b)
            /\ pte[t][b] # Absent /\ (b \notin Backed \/ ~raced') => content'[pte[t][b].page] = content[pte[t][b].page]
        BY <2>0, <2>2 DEF Sees, SameContent, Placed
      <4> QED BY <1>2, <2>0, <4>1, SeesStill
    <3>4. Sees(t)'
      BY <3>1, <3>3 DEF Sees, StoresTo
    <3> QED BY <2>2, <3>2, <3>4
  <2> QED BY <2>1, <2>2
<1> QED BY <1>5, <1>6, <1>7 DEF Whole

\* exec changes programs.
LEMMA SwitchKeeps ==
  ASSUME Whole, NEW t \in Task, ExecSwitch(t)
  PROVE  Whole'
<1>1. Types
  BY DEF Whole
<1>2. Types'
  <2>1. executable' \in [Task -> File \cup {NULL}] /\ file' \in [Task -> File \cup {NULL}]
    BY <1>1 DEF Types, ExecSwitch
  <2>2. pc' \in [Task -> Place]
    BY <1>1 DEF Types, ExecSwitch, Place, InCall
  <2> QED BY <1>1, <2>1, <2>2 DEF Types, ExecSwitch
<1>3. Sound(mem_map, ref, Writable)'
  BY SameSound DEF ExecSwitch
<1>4. ASSUME NEW u \in Task PROVE Placed(u)' /\ Sees(u)'
  <2>0. Placed(u) /\ Sees(u) /\ (raced => raced') /\ SameContent(u)
    BY AllContent DEF Whole, ExecSwitch
  <2>1. CASE u # t
    <3>1. Frame(u)
      BY <1>1, <2>1 DEF Frame, Types, ExecSwitch
    <3> QED BY <2>0, <3>1, Framed
  <2>2. CASE u = t
    <3>1. /\ pc[t] = "exec" /\ pc'[t] = "closing"
          /\ held' = held /\ at' = at /\ pte' = pte /\ dir' = dir /\ task' = task /\ content' = content
      BY <1>1 DEF Types, ExecSwitch
    <3>2. Placed(t)' /\ at'[t] = 0
      BY <2>0, <2>2, <3>1 DEF Placed, Gone, Holding, Busy, InCall
    <3>3. ASSUME NEW b \in Addr PROVE SeesAt(t, b)'
      BY <3>1, <3>2 DEF SeesAt
    <3>4. Sees(t)'
      BY <2>0, <2>2, <3>1, <3>3 DEF Sees, StoresTo
    <3> QED BY <2>2, <3>2, <3>4
  <2> QED BY <2>1, <2>2
<1> QED BY <1>2, <1>3, <1>4 DEF Whole

\* exec fails after it has copied the arguments.
LEMMA ExecErrorKeeps ==
  ASSUME Whole, NEW t \in Task, ExecError(t)
  PROVE  Whole'
<1>1. Types /\ RefsAre(ref, pte, dir, task, held, pipes) /\ Sound(mem_map, ref, Writable)
  BY Now DEF Whole
<1> DEFINE n == <<t, 0, "held">>
           r == [ref EXCEPT ![n] = 0]
<1>2. RefsAre(r, pte', dir', task', held', pipes')
  <2>1. \A u \in Task : held'[u] = IF u = t THEN 0 ELSE held[u]
    BY <1>1 DEF Types, ExecError
  <2>2. RefsAre(r, pte, dir, task, held', pipes)
    BY <1>1, <2>1, SetHeld, Pages
  <2> QED BY <2>2 DEF ExecError
<1>3. Sound(mem_map', r, Writable)
  <2>1. n \in Name /\ ref[n] = held[t]
    BY <1>1, Names DEF RefsAre
  <2>2. Sound(free_page(mem_map, ref[n]), [ref EXCEPT ![n] = 0], Writable)
    BY <1>1, <2>1, SoundDrop
  <2> QED BY <2>1, <2>2 DEF ExecError
<1>4. Types'
  <2>1. mem_map' \in [Page -> Nat]
    BY <1>3 DEF Sound
  <2>2. held' \in [Task -> 0 .. NPages] /\ file' \in [Task -> File \cup {NULL}] /\ pc' \in [Task -> Place]
    BY <1>1, Pages DEF Types, ExecError, Place, InCall
  <2>3. content' \in [Page -> Contents]
    BY <1>1, KeptType DEF Types, ExecError
  <2> QED BY <1>1, <2>1, <2>2, <2>3 DEF Types, ExecError
<1>5. Sound(mem_map, ref, Writable)'
  <2>1. \A u \in Task, a \in Addr : pte'[u][a].rw => <<u, a, "pte">> \in Writable
    BY WritableIs DEF ExecError
  <2> HIDE DEF r
  <2> QED BY <1>2, <1>3, <1>4, <2>1, After
<1>6. ASSUME NEW u \in Task PROVE Placed(u)' /\ Sees(u)'
  <2>0. Placed(u) /\ Sees(u) /\ (raced => raced')
    BY DEF Whole, ExecError
  <2>1. CASE u # t
    <3>1. Frame(u)
      BY <1>1, <2>1 DEF Frame, Types, ExecError
    <3>2. SameContent(u)
      BY <1>4, <1>5, <3>1, KeptContent DEF ExecError
    <3> QED BY <2>0, <3>1, <3>2, Framed
  <2>2. CASE u = t
    <3>1. /\ pc[t] = "exec" /\ pc'[t] = "user" /\ held'[t] = 0 /\ content' = Kept(content)
          /\ UNCHANGED <<task, dir, pte, executable, at, view, pipes, loose, raced>>
      BY <1>1 DEF Types, ExecError
    <3>2. Placed(t)'
      BY <2>0, <2>2, <3>1 DEF Placed, Gone, Holding, Busy, InCall
    <3>3. ASSUME NEW b \in Addr PROVE SeesAt(t, b)'
      <4>1. pte[t][b] # Absent => content'[pte[t][b].page] = content[pte[t][b].page]
        BY <1>4, <1>5, <2>0, <2>2, <3>1, KeptEntry DEF Placed
      <4>2. SeesAt(t, b)
        BY <2>0, <2>2 DEF Sees
      <4> QED BY <2>0, <3>1, <4>1, <4>2, SeesStill
    <3>4. Sees(t)'
      BY <3>1, <3>3 DEF Sees, StoresTo
    <3> QED BY <2>2, <3>2, <3>4
  <2> QED BY <2>1, <2>2
<1> QED BY <1>4, <1>5, <1>6 DEF Whole

-----------------------------------------------------------------------------
(* Stores, and pages made writable.                                        *)

\* The fields of an entry.
LEMMA Fields ==
  ASSUME NEW e \in Entry
  PROVE  /\ e.page \in 0 .. NPages /\ e.rw \in BOOLEAN /\ e.dirty \in BOOLEAN
         /\ [e EXCEPT !.dirty = TRUE] \in Entry /\ [e EXCEPT !.dirty = TRUE].page = e.page
         /\ [e EXCEPT !.dirty = TRUE].rw = e.rw /\ [e EXCEPT !.dirty = TRUE].dirty = TRUE
         /\ \A x \in BOOLEAN :
              /\ [e EXCEPT !.rw = x] \in Entry /\ [e EXCEPT !.rw = x].page = e.page
              /\ [e EXCEPT !.rw = x].rw = x /\ [e EXCEPT !.rw = x].dirty = e.dirty
<1>1. e = [page |-> e.page, rw |-> e.rw, dirty |-> e.dirty] /\ e.page \in 0 .. NPages /\ e.rw \in BOOLEAN /\ e.dirty \in BOOLEAN
  BY DEF Entry
<1>2. [e EXCEPT !.dirty = TRUE] \in Entry
  BY DEF Entry
<1>3. \A x \in BOOLEAN : [e EXCEPT !.rw = x] \in Entry
  BY DEF Entry
<1>4. /\ [e EXCEPT !.dirty = TRUE].page = e.page
      /\ [e EXCEPT !.dirty = TRUE].rw = e.rw /\ [e EXCEPT !.dirty = TRUE].dirty = TRUE
  BY DEF Entry
<1>5. ASSUME NEW x \in BOOLEAN
      PROVE  [e EXCEPT !.rw = x].page = e.page /\ [e EXCEPT !.rw = x].rw = x /\ [e EXCEPT !.rw = x].dirty = e.dirty
  BY DEF Entry
<1> QED BY <1>1, <1>2, <1>3, <1>4, <1>5

\* One entry of a task is changed.
LEMMA OneEntry ==
  ASSUME NEW pt \in [Task -> [Addr -> Entry]], NEW t \in Task, NEW a \in Addr, NEW e \in Entry,
         NEW new, new = [pt EXCEPT ![t] = [pt[t] EXCEPT ![a] = e]]
  PROVE  /\ new \in [Task -> [Addr -> Entry]] /\ new[t][a] = e
         /\ \A u \in Task, b \in Addr : u # t \/ b # a => new[u][b] = pt[u][b]
         /\ \A u \in Task : u # t => new[u] = pt[u]
OBVIOUS

\* A store to a page that no other task sees, or that makes raced true.
LEMMA StoreKeeps ==
  ASSUME Whole, NEW t \in Task, NEW a \in Addr, Store(t, a), pte[t][a].page # 0,
         pc[t] \in {"user", "verified", "faulted"}, raced' \in BOOLEAN, raced => raced',
         a \notin Backed \/ ~raced' => pte[t][a].rw \/ mem_map[pte[t][a].page] = 1
  PROVE  Whole'
<1>1. Types /\ RefsAre(ref, pte, dir, task, held, pipes) /\ Sound(mem_map, ref, Writable)
  BY Now DEF Whole
<1>0. PICK e \in Entry : e = pte[t][a]
  BY <1>1 DEF Types
<1>2. PICK p \in Page : p = pte[t][a].page
  BY <1>0, Pages, Fields
<1>3. /\ pte' \in [Task -> [Addr -> Entry]]
      /\ pte'[t][a].page = p /\ pte'[t][a].rw = pte[t][a].rw /\ pte'[t][a].dirty = TRUE
      /\ \A u \in Task, b \in Addr : u # t \/ b # a => pte'[u][b] = pte[u][b]
      /\ \A u \in Task : u # t => pte'[u] = pte[u]
  <2>1. PICK d \in Entry : d = [e EXCEPT !.dirty = TRUE] /\ d.page = e.page /\ d.rw = e.rw /\ d.dirty = TRUE
    BY Fields
  <2>2. pte' = [pte EXCEPT ![t] = [pte[t] EXCEPT ![a] = d]] /\ pte \in [Task -> [Addr -> Entry]]
    BY <1>0, <1>1, <2>1 DEF Types, Store
  <2>3. /\ pte' \in [Task -> [Addr -> Entry]] /\ pte'[t][a] = d
        /\ \A u \in Task, b \in Addr : u # t \/ b # a => pte'[u][b] = pte[u][b]
        /\ \A u \in Task : u # t => pte'[u] = pte[u]
    BY <2>2, OneEntry
  <2> QED BY <1>0, <1>2, <2>1, <2>3
<1>4. /\ content' = [content EXCEPT ![p] = Bytes(t, a)]
      /\ view' = [view EXCEPT ![t] = [view[t] EXCEPT ![a] = Bytes(t, a)]]
      /\ pc' = [pc EXCEPT ![t] = "user"] /\ at' = [at EXCEPT ![t] = 0]
      /\ loose' = loose \ {<<t, a>>}
      /\ UNCHANGED <<mem_map, task, dir, executable, held, file, pipes>>
  BY <1>1, <1>2 DEF Store, Types
<1>5. Bytes(t, a) \in Contents
  BY Consts DEF Bytes
<1>6. Types'
  <2>1. content' \in [Page -> Contents]
    BY <1>1, <1>4, <1>5 DEF Types
  <2>2. view' \in [Task -> [Addr -> Contents]]
    BY <1>1, <1>4, <1>5 DEF Types
  <2>3. pc' \in [Task -> Place] /\ at' \in [Task -> 0 .. NAddr]
    BY <1>1, <1>4, Addresses DEF Types, Place, InCall
  <2> QED BY <1>1, <1>3, <1>4, <2>1, <2>2, <2>3 DEF Types
<1>7. Sound(mem_map, ref, Writable)'
  <2>1. \A u \in Task, b \in Addr : pte'[u][b].page = pte[u][b].page
    BY <1>2, <1>3
  <2>2. RefsAre(ref, pte', dir, task, held, pipes)
    BY <1>1, <2>1, SamePages
  <2>3. RefsAre(ref, pte', dir', task', held', pipes') /\ Sound(mem_map', ref, Writable)
    BY <1>1, <1>4, <2>2
  <2>4. \A u \in Task, b \in Addr : pte'[u][b].rw => <<u, b, "pte">> \in Writable
    BY <1>3, WritableIs
  <2> QED BY <1>6, <2>3, <2>4, After
<1>8. \* who else has the page
      /\ \A u \in Task, b \in Addr : (u # t \/ b # a) /\ pte[u][b].page = p
           => b = a /\ ~pte[t][a].rw /\ mem_map[p] # 1
      /\ \A u \in Task : held[u] # p
  <2>1. <<t, a, "pte">> \in Name /\ ref[<<t, a, "pte">>] = p /\ p # 0
    BY <1>1, <1>2, Names, Pages DEF RefsAre
  <2>2. Owned(ref, Writable)
    BY <1>1 DEF Sound
  <2>3. ASSUME NEW u \in Task, NEW b \in Addr, u # t \/ b # a, pte[u][b].page = p
        PROVE  b = a /\ ~pte[t][a].rw /\ mem_map[p] # 1
    <3>1. <<u, b, "pte">> \in Name /\ ref[<<u, b, "pte">>] = p /\ <<u, b, "pte">> # <<t, a, "pte">>
      BY <1>1, <2>3, Names DEF RefsAre
    <3>2. <<t, a, "pte">>[2] = <<u, b, "pte">>[2] /\ <<t, a, "pte">> \notin Writable
      BY <2>1, <2>2, <3>1 DEF Owned
    <3>3. mem_map[p] # 1
      <4>1. PICK n : n = <<t, a, "pte">> /\ n \in Name /\ ref[n] = p
        BY <2>1
      <4>2. mem_map[p] = 1 <=> \A m \in Name : ref[m] = p => m = n
        BY <1>1, <4>1, SoleUser DEF Sound
      <4> QED BY <3>1, <4>1, <4>2
    <3> QED BY <3>2, <3>3, WritableIs
  <2>4. ASSUME NEW u \in Task, held[u] = p PROVE FALSE
    <3>1. <<u, 0, "held">> \in Name /\ ref[<<u, 0, "held">>] = p /\ <<u, 0, "held">> # <<t, a, "pte">>
      BY <1>1, <2>4, Names DEF RefsAre
    <3>2. <<u, 0, "held">>[3] = "pte"
      BY <2>1, <2>2, <3>1 DEF Owned
    <3> QED BY <3>2
  <2> QED BY <2>3, <2>4
<1>9. \A q : q # p => content'[q] = content[q]
  BY <1>1, <1>4 DEF Types
<1>10. content'[p] = Bytes(t, a)
  BY <1>1, <1>4 DEF Types
<1>11. ASSUME NEW u \in Task PROVE Placed(u)' /\ Sees(u)'
  <2>0. Placed(u) /\ Sees(u) /\ (raced => raced')
    BY <1>4 DEF Whole
  <2>1. CASE u # t
    <3>1. Frame(u)
      BY <1>1, <1>3, <1>4, <2>1 DEF Frame, Types
    <3>2. SameContent(u)
      <4>1. \A b \in Addr : pte[u][b].page = p => ~(a \notin Backed \/ ~raced') /\ b = a
        BY <1>2, <1>8, <2>1
      <4> QED BY <1>8, <1>9, <4>1 DEF SameContent
    <3> QED BY <2>0, <3>1, <3>2, Framed
  <2>2. CASE u = t
    <3>1. pc'[t] = "user" /\ at'[t] = 0
      BY <1>1, <1>4 DEF Types
    <3>2. \A b \in Addr : pte'[t][b].page = 0 => pte'[t][b] = Absent
      BY <1>2, <1>3, <2>0, <2>2, Pages DEF Placed
    <3>3. Placed(t)'
      BY <1>4, <2>0, <2>2, <3>1, <3>2 DEF Placed, Gone, Holding, Busy, InCall
    <3>4. ASSUME NEW b \in Addr PROVE SeesAt(t, b)'
      <4>1. CASE b = a
        <5>1. view'[t][a] = Bytes(t, a)
          BY <1>1, <1>4 DEF Types
        <5> QED BY <1>3, <1>10, <4>1, <5>1 DEF SeesAt, Clean
      <4>2. CASE b # a
        <5>1. pte'[t][b] = pte[t][b] /\ view'[t][b] = view[t][b] /\ SeesAt(t, b)
          BY <1>1, <1>3, <1>4, <2>0, <2>2, <4>2 DEF Types, Sees
        <5>2. content'[pte[t][b].page] = content[pte[t][b].page]
          BY <1>8, <1>9, <4>2
        <5>3. pc[t] # "closing" /\ (<<t, b>> \in loose => <<t, b>> \in loose')
          BY <1>4, <4>2
        <5> QED BY <1>4, <5>1, <5>2, <5>3, SeesStill
      <4> QED BY <4>1, <4>2
    <3>5. Sees(t)'
      BY <3>1, <3>4 DEF Sees, StoresTo
    <3> QED BY <2>2, <3>3, <3>5
  <2> QED BY <2>1, <2>2
<1> QED BY <1>6, <1>7, <1>11 DEF Whole

\* A user store.
LEMMA WriteKeeps ==
  ASSUME Whole, NEW t \in Task, NEW a \in Addr, Write(t, a)
  PROVE  Whole'
<1>1. Placed(t) /\ pte[t][a].rw /\ Store(t, a)
  BY DEF Whole, Write
<1>2. pte[t][a].page # 0
  BY <1>1, Consts DEF Placed
<1>3. raced' = raced /\ raced \in BOOLEAN /\ pc[t] = "user"
  BY DEF Whole, Types, Write
<1> QED BY <1>1, <1>2, <1>3, StoreKeeps

\* The store of a system call.
LEMMA PutFsKeeps ==
  ASSUME Whole, NEW t \in Task, put_fs(t)
  PROVE  Whole'
<1>1. /\ Placed(t) /\ Sees(t) /\ Types /\ pc[t] \in {"verified", "faulted"} /\ Store(t, at[t])
      /\ pte[t][at[t]] # Absent
      /\ raced' = (raced \/ (ReadOnly(t, at[t]) /\ ~Unshared(pte[t][at[t]])))
  BY DEF Whole, put_fs, Present
<1>2. PICK a \in Addr : a = at[t]
  BY <1>1, Addresses DEF Placed, Busy, InCall, Types
<1>3. pte[t][a].page # 0
  BY <1>1, <1>2 DEF Placed
<1>4. a \notin Backed => pte[t][a].rw
  BY <1>1, <1>2, <1>3 DEF Sees, StoresTo
<1>5. ~raced' => pte[t][a].rw \/ mem_map[pte[t][a].page] = 1
  BY <1>1, <1>2 DEF ReadOnly, Present, Unshared
<1>6. raced' \in BOOLEAN /\ (raced => raced')
  BY <1>1 DEF Types
<1> QED BY <1>1, <1>2, <1>3, <1>4, <1>5, <1>6, StoreKeeps

\* The call returns.
LEMMA ReturnsKeeps ==
  ASSUME Whole, NEW t \in Task, CallReturns(t)
  PROVE  Whole'
<1>1. Types /\ Placed(t)
  BY DEF Whole
<1>2. /\ pc[t] = "verified" /\ pc' = [pc EXCEPT ![t] = "user"] /\ at' = [at EXCEPT ![t] = 0]
      /\ UNCHANGED <<mem_map, content, task, dir, pte, executable, held, file, view, pipes, loose, raced>>
  BY DEF CallReturns
<1>3. Types'
  <2>1. pc' \in [Task -> Place] /\ at' \in [Task -> 0 .. NAddr]
    BY <1>1, <1>2, Addresses DEF Types, Place, InCall
  <2> QED BY <1>1, <1>2, <2>1 DEF Types
<1>4. Sound(mem_map, ref, Writable)'
  BY <1>2, SameSound
<1>5. ASSUME NEW u \in Task PROVE Placed(u)' /\ Sees(u)'
  <2>0. Placed(u) /\ Sees(u) /\ (raced => raced') /\ SameContent(u)
    BY <1>2, AllContent DEF Whole
  <2>1. CASE u # t
    <3>1. Frame(u)
      BY <1>1, <1>2, <2>1 DEF Frame, Types
    <3> QED BY <2>0, <3>1, Framed
  <2>2. CASE u = t
    <3>1. pc'[t] = "user" /\ at'[t] = 0
      BY <1>1, <1>2 DEF Types
    <3>2. Placed(t)'
      BY <1>1, <1>2, <3>1 DEF Placed, Gone, Holding, Busy, InCall
    <3>3. ASSUME NEW b \in Addr PROVE SeesAt(t, b)'
      <4>1. SeesAt(t, b)
        BY <2>0, <2>2 DEF Sees
      <4> QED BY <1>2, <4>1, SeesStill
    <3>4. Sees(t)'
      BY <3>1, <3>3 DEF Sees, StoresTo
    <3> QED BY <2>2, <3>2, <3>4
  <2> QED BY <2>1, <2>2
<1> QED BY <1>3, <1>4, <1>5 DEF Whole

\* A writable entry for page p.
LEMMA NewEntry ==
  ASSUME NEW p \in Page
  PROVE  LET e == [page |-> p, rw |-> TRUE, dirty |-> FALSE]
         IN  e \in Entry /\ e.page = p /\ e.rw = TRUE /\ e.dirty = FALSE
BY Pages DEF Entry

\* An entry drops its page for a free one.
LEMMA SoundCopy ==
  ASSUME NEW map, NEW r, NEW w, Sound(map, r, w), NEW n \in Name, r[n] # 0, NEW p \in Page, map[p] = 0
  PROVE  Sound(LeaveOld(Use(map, p), r[n]), [r EXCEPT ![n] = p], w \cup {n})
<1>1. map \in [Page -> Nat] /\ r \in [Name -> 0 .. NPages]
  BY DEF Sound
<1>2. PICK q \in Page : q = r[n] /\ map[q] > 0
  BY SoundCount
<1>3. q # p /\ q # 0
  BY <1>1, <1>2, Pages
<1> DEFINE free == free_page(map, q)
           s == [r EXCEPT ![n] = 0]
<1>4. Sound(free, s, w)
  BY <1>2, SoundDrop
<1>5. free = [map EXCEPT ![q] = map[q] - 1]
  BY <1>1, <1>2, <1>3 DEF free_page
<1>6. free[p] = 0 /\ s[n] = 0
  BY <1>1, <1>3, <1>5
<1>7. Use(free, p) = LeaveOld(Use(map, p), q)
  <2>1. Use(map, p) = [map EXCEPT ![p] = map[p] + 1] /\ Use(free, p) = [free EXCEPT ![p] = free[p] + 1]
    BY Pages DEF Use
  <2>2. LeaveOld(Use(map, p), q) = [Use(map, p) EXCEPT ![q] = Use(map, p)[q] - 1]
    BY DEF LeaveOld
  <2>3. Use(map, p)[q] = map[q] /\ free[p] = map[p]
    BY <1>1, <1>3, <1>5, <2>1
  <2>4. ASSUME NEW o \in Page PROVE Use(free, p)[o] = LeaveOld(Use(map, p), q)[o]
    <3> DEFINE one == Use(map, p)
               two == LeaveOld(one, q)
               three == Use(free, p)
    <3>1. DOMAIN one = Page /\ DOMAIN two = Page /\ DOMAIN free = Page /\ DOMAIN three = Page
      BY <1>1, <1>5, <2>1, <2>2
    <3>2. two[q] = map[q] - 1 /\ (o # q => two[o] = one[o])
      BY <2>2, <2>3, <3>1
    <3>3. one[p] = map[p] + 1 /\ (o # p => one[o] = map[o])
      BY <1>1, <2>1
    <3>4. three[p] = map[p] + 1 /\ (o # p => three[o] = free[o])
      BY <2>1, <2>3, <3>1
    <3>5. free[q] = map[q] - 1 /\ (o # q => free[o] = map[o])
      BY <1>1, <1>5
    <3> HIDE DEF one, two, three, free
    <3>6. three[o] = two[o]
      BY <1>3, <3>2, <3>3, <3>4, <3>5
    <3> QED BY <3>6 DEF one, two, three
  <2>5. Use(free, p) = [o \in Page |-> Use(free, p)[o]]
    BY <1>1, <1>5, <2>1
  <2>6. LeaveOld(Use(map, p), q) = [o \in Page |-> LeaveOld(Use(map, p), q)[o]]
    BY <1>1, <2>1, <2>2
  <2> QED BY <2>4, <2>5, <2>6
<1>8. [s EXCEPT ![n] = p] = [r EXCEPT ![n] = p]
  BY <1>1
<1> HIDE DEF free, s
<1>9. Sound(Use(free, p), [s EXCEPT ![n] = p], w \cup {n})
  BY <1>4, <1>6, SoundTake
<1> QED BY <1>2, <1>7, <1>8, <1>9

\* un_wp_page.
LEMMA UnWpKeeps ==
  ASSUME Whole, NEW t \in Task, NEW a \in Addr, NEW next \in {"user", "verified"}, un_wp_page(t, a, next),
         pte[t][a].page # 0, pc[t] = "user"
  PROVE  Whole'
<1>1. Types /\ RefsAre(ref, pte, dir, task, held, pipes) /\ Sound(mem_map, ref, Writable)
  BY Now DEF Whole
<1>2. PICK e \in Entry : e = pte[t][a]
  BY <1>1 DEF Types
<1>3. PICK q \in Page : q = e.page
  BY <1>2, Pages, Fields
<1> DEFINE n == <<t, a, "pte">>
           p == get_free_page(mem_map)
<1>4. n \in Name /\ ref[n] = q /\ q # 0
  BY <1>1, <1>2, <1>3, Names, Pages DEF RefsAre
<1>5. CASE mem_map[q] # 1 /\ p = 0
  <2>1. Exit(t, mem_map)
    BY <1>2, <1>3, <1>5 DEF un_wp_page, Unshared
  <2> QED BY <2>1, ExitNow DEF Gone, Holding
<1>6. CASE ~(mem_map[q] # 1 /\ p = 0)
  <2>1. PICK x \in Entry : /\ pte' = [pte EXCEPT ![t] = [pte[t] EXCEPT ![a] = x]] /\ x.page \in Page /\ x.rw = TRUE
                           /\ Sound(mem_map', [ref EXCEPT ![n] = x.page], Writable \cup {n})
                           /\ content' \in [Page -> Contents] /\ content'[x.page] = content[q]
                           /\ \A u \in Task : SameContent(u)
                           /\ \A b \in Addr : b # a /\ pte[t][b].page # 0 => content'[pte[t][b].page] = content[pte[t][b].page]
                           /\ loose' \in {loose, loose \cup {<<t, a>>}} /\ loose' \subseteq Task \X Backed
                           /\ a \in Backed /\ e.dirty => x.dirty \/ <<t, a>> \in loose'
    <3>1. CASE mem_map[q] = 1
      <4>1. PICK x \in Entry : x = [e EXCEPT !.rw = TRUE] /\ x.page = q /\ x.rw = TRUE /\ x.dirty = e.dirty
        BY <1>3, Fields
      <4>2. pte' = [pte EXCEPT ![t] = [pte[t] EXCEPT ![a] = x]] /\ mem_map' = mem_map /\ content' = content
            /\ loose' = loose
        BY <1>1, <1>2, <1>3, <1>6, <3>1, <4>1 DEF un_wp_page, Unshared, Types
      <4>3. Sound(mem_map, ref, Writable \cup {n})
        BY <1>1, <1>4, <3>1, SoundSole
      <4>4. [ref EXCEPT ![n] = q] = ref
        BY <1>1, <1>4 DEF RefsAre
      <4>5. \A u \in Task : SameContent(u)
        BY <4>2, AllContent
      <4>6. content' \in [Page -> Contents] /\ content'[q] = content[q]
        BY <1>1, <4>2 DEF Types
      <4>7. loose' \subseteq Task \X Backed
        BY <1>1, <4>2 DEF Types
      <4> QED BY <4>1, <4>2, <4>3, <4>4, <4>5, <4>6, <4>7
    <3>2. CASE mem_map[q] # 1
      <4>1. p \in Page /\ mem_map[p] = 0
        BY <1>6, <3>2, FreePage
      <4> HIDE DEF p
      <4>2. PICK x \in Entry : x = [page |-> p, rw |-> TRUE, dirty |-> FALSE] /\ x.page = p /\ x.rw = TRUE
        BY <4>1, NewEntry
      <4>3. /\ pte' = [pte EXCEPT ![t] = [pte[t] EXCEPT ![a] = x]] /\ mem_map' = LeaveOld(Use(mem_map, p), q)
            /\ content' = [content EXCEPT ![p] = content[q]]
            /\ loose' = IF e.dirty /\ a \in Backed THEN loose \cup {<<t, a>>} ELSE loose
        <5>1. /\ pte' = [pte EXCEPT ![t][a] = x] /\ mem_map' = LeaveOld(Use(mem_map, p), q)
              /\ content' = Copied(p, q)
              /\ loose' = IF e.dirty /\ a \in Backed THEN loose \cup {<<t, a>>} ELSE loose
          BY <1>2, <1>3, <1>6, <3>2, <4>1, <4>2 DEF un_wp_page, Unshared, p
        <5> QED BY <1>1, <5>1 DEF Types, Copied
      <4>4. Sound(LeaveOld(Use(mem_map, p), ref[n]), [ref EXCEPT ![n] = p], Writable \cup {n})
        BY <1>1, <1>4, <4>1, SoundCopy
      <4>5. \A m \in Name : ref[m] # p
        BY <1>1, <4>1, NoUser DEF Sound
      <4>6. ASSUME NEW u \in Task PROVE SameContent(u)
        <5>1. (\A b \in Addr : ref[<<u, b, "pte">>] # p) /\ ref[<<u, 0, "held">>] # p
          BY <4>5, Names
        <5> QED BY <4>1, <4>3, <5>1, OneContent
      <4>7. content' \in [Page -> Contents] /\ content'[p] = content[q] /\ \A o : o # p => content'[o] = content[o]
        BY <1>1, <4>1, <4>3 DEF Types
      <4>8. ASSUME NEW b \in Addr PROVE pte[t][b].page # p
        <5>1. ref[<<t, b, "pte">>] # p
          BY <4>5, Names
        <5>2. ref[<<t, b, "pte">>] = pte[t][b].page
          BY <1>1 DEF RefsAre
        <5> QED BY <5>1, <5>2
      <4>9. /\ loose' \in {loose, loose \cup {<<t, a>>}} /\ loose' \subseteq Task \X Backed
            /\ a \in Backed /\ e.dirty => <<t, a>> \in loose'
        BY <1>1, <4>3 DEF Types
      <4> QED BY <1>4, <4>1, <4>2, <4>3, <4>4, <4>6, <4>7, <4>8, <4>9
    <3> QED BY <3>1, <3>2
  <2> DEFINE where == IF next = "user" THEN 0 ELSE a
  <2>2. /\ pc' = [pc EXCEPT ![t] = next] /\ at' = [at EXCEPT ![t] = where]
        /\ UNCHANGED <<task, dir, executable, held, file, view, pipes, raced>>
    BY <1>2, <1>3, <1>6 DEF un_wp_page, Unshared
  <2>3. /\ pte' \in [Task -> [Addr -> Entry]] /\ pte'[t][a] = x
        /\ \A u \in Task, b \in Addr : u # t \/ b # a => pte'[u][b] = pte[u][b]
        /\ \A u \in Task : u # t => pte'[u] = pte[u]
    BY <1>1, <2>1, OneEntry DEF Types
  <2>4. Types'
    <3>1. mem_map' \in [Page -> Nat]
      BY <2>1 DEF Sound
    <3>2. pc' \in [Task -> Place] /\ at' \in [Task -> 0 .. NAddr]
      BY <1>1, <2>2, Addresses DEF Types, Place, InCall
    <3> QED BY <1>1, <2>1, <2>2, <2>3, <3>1, <3>2 DEF Types
  <2>5. Sound(mem_map, ref, Writable)'
    <3> DEFINE r == [ref EXCEPT ![n] = x.page]
    <3>1. RefsAre(r, pte', dir', task', held', pipes')
      <4>1. \A u \in Task, b \in Addr : pte'[u][b].page = IF u = t /\ b = a THEN x.page ELSE pte[u][b].page
        BY <2>3
      <4>2. x.page \in 0 .. NPages
        BY <2>1, Pages
      <4>3. RefsAre(r, pte', dir, task, held, pipes)
        BY <1>1, <4>1, <4>2, SetEntry
      <4> QED BY <2>2, <4>3
    <3>2. \A u \in Task, b \in Addr : pte'[u][b].rw => <<u, b, "pte">> \in Writable \cup {n}
      BY <2>3, WritableIs
    <3>3. Sound(mem_map', r, Writable \cup {n})
      BY <2>1
    <3> HIDE DEF r, n
    <3> QED BY <2>4, <3>1, <3>2, <3>3, After
  <2>6. ASSUME NEW u \in Task PROVE Placed(u)' /\ Sees(u)'
    <3>0. Placed(u) /\ Sees(u) /\ (raced => raced') /\ SameContent(u)
      BY <2>1, <2>2 DEF Whole
    <3>1. CASE u # t
      <4>1. Frame(u)
        BY <1>1, <2>1, <2>2, <2>3, <3>1 DEF Frame, Types
      <4> QED BY <3>0, <4>1, Framed
    <3>2. CASE u = t
      <4>1. pc'[t] = next /\ at'[t] = where /\ a # 0
        BY <1>1, <2>2, Addresses DEF Types
      <4>2. \A b \in Addr : pte'[t][b].page = 0 => pte'[t][b] = Absent
        BY <2>1, <2>3, <3>0, <3>2, Pages DEF Placed
      <4>3. pte'[t][a].page # 0 /\ held'[t] = 0 /\ task'[t] # 0
        BY <2>1, <2>2, <2>3, <3>0, <3>2, Pages DEF Placed, Holding
      <4>4. Placed(t)'
        BY <4>1, <4>2, <4>3 DEF Placed, Gone, Holding, Busy, InCall
      <4>5. ASSUME NEW b \in Addr PROVE SeesAt(t, b)'
        <5>1. SeesAt(t, b) /\ view'[t][b] = view[t][b]
          BY <2>2, <3>0, <3>2 DEF Sees
        <5>2. CASE b = a
          <6>1. pc[t] # "closing" /\ pte[t][a] # Absent
            BY <1>4, <1>2, <1>3, Consts
          <6>2. a \notin Backed \/ ~raced => content[q] = view[t][a]
            BY <1>2, <1>3, <5>1, <5>2, <6>1 DEF SeesAt
          <6>3. Clean(pte'[t][a]) /\ a \in Backed /\ <<t, a>> \notin loose' => Clean(pte[t][a]) /\ <<t, a>> \notin loose
            BY <1>2, <2>1, <2>3 DEF Clean
          <6> QED BY <1>2, <1>3, <1>4, <2>1, <2>2, <2>3, <4>1, <5>1, <5>2, <6>1, <6>2, <6>3 DEF SeesAt
        <5>3. CASE b # a
          <6>1. pte'[t][b] = pte[t][b] /\ executable' = executable
            BY <2>2, <2>3, <5>3
          <6>2. pte[t][b] # Absent => content'[pte[t][b].page] = content[pte[t][b].page]
            BY <2>1, <3>0, <3>2, <5>3 DEF Placed
          <6>3. pc[t] # "closing" /\ (<<t, b>> \in loose => <<t, b>> \in loose')
            BY <2>1
          <6> QED BY <3>0, <5>1, <6>1, <6>2, <6>3, SeesStill
        <5> QED BY <5>2, <5>3
      <4>6. Sees(t)'
        BY <2>1, <2>3, <4>1, <4>5 DEF Sees, StoresTo
      <4> QED BY <3>2, <4>4, <4>6
    <3> QED BY <3>1, <3>2
  <2> QED BY <2>4, <2>5, <2>6 DEF Whole
<1> QED BY <1>5, <1>6

\* A write fault.
LEMMA WpKeeps ==
  ASSUME Whole, NEW t \in Task, NEW a \in Addr, do_wp_page(t, a)
  PROVE  Whole'
<1>1. Placed(t) /\ pte[t][a] # Absent /\ un_wp_page(t, a, "user") /\ pc[t] = "user"
  BY DEF Whole, do_wp_page, ReadOnly, Present
<1>2. pte[t][a].page # 0
  BY <1>1 DEF Placed
<1> QED BY <1>1, <1>2, UnWpKeeps

\* write_verify.
LEMMA VerifyKeeps ==
  ASSUME Whole, NEW t \in Task, NEW a \in Addr, verify_area(t, a)
  PROVE  Whole'
<1>1. Placed(t) /\ pc[t] = "user" /\ Types
  BY DEF Whole, verify_area
<1>3. CASE ReadOnly(t, a)
  <2>1. un_wp_page(t, a, "verified") /\ pte[t][a].page # 0
    BY <1>1, <1>3 DEF verify_area, ReadOnly, Present, Placed
  <2> QED BY <1>1, <2>1, UnWpKeeps
<1>4. CASE ~ReadOnly(t, a)
  <2>1. /\ pc' = [pc EXCEPT ![t] = "verified"] /\ at' = [at EXCEPT ![t] = a]
        /\ UNCHANGED <<mem_map, content, task, dir, pte, executable, held, file, view, pipes, loose, raced>>
    BY <1>4 DEF verify_area
  <2>2. Types'
    <3>1. pc' \in [Task -> Place] /\ at' \in [Task -> 0 .. NAddr]
      BY <1>1, <2>1, Addresses DEF Types, Place, InCall
    <3> QED BY <1>1, <2>1, <3>1 DEF Types
  <2>3. Sound(mem_map, ref, Writable)'
    BY <2>1, SameSound
  <2>4. pte[t][a].page # 0 => pte[t][a].rw
    BY <1>1, <1>4, Consts DEF ReadOnly, Present
  <2>5. ASSUME NEW u \in Task PROVE Placed(u)' /\ Sees(u)'
    <3>0. Placed(u) /\ Sees(u) /\ (raced => raced') /\ SameContent(u)
      BY <2>1, AllContent DEF Whole
    <3>1. CASE u # t
      <4>1. Frame(u)
        BY <1>1, <2>1, <3>1 DEF Frame, Types
      <4> QED BY <3>0, <4>1, Framed
    <3>2. CASE u = t
      <4>1. pc'[t] = "verified" /\ at'[t] = a /\ a # 0
        BY <1>1, <2>1, Addresses DEF Types
      <4>2. Placed(t)'
        BY <1>1, <2>1, <4>1 DEF Placed, Gone, Holding, Busy, InCall
      <4>3. ASSUME NEW b \in Addr PROVE SeesAt(t, b)'
        <5>1. SeesAt(t, b)
          BY <3>0, <3>2 DEF Sees
        <5> QED BY <1>1, <2>1, <5>1, SeesStill
      <4>4. Sees(t)'
        BY <2>1, <2>4, <4>1, <4>3 DEF Sees, StoresTo
      <4> QED BY <3>2, <4>2, <4>4
    <3> QED BY <3>1, <3>2
  <2> QED BY <2>2, <2>3, <2>5 DEF Whole
<1> QED BY <1>3, <1>4

-----------------------------------------------------------------------------
(* Pages put into an address space.                                        *)

\* put_page and share_page: the page table of the address.
LEMMA SoundTable ==
  ASSUME NEW map, NEW r, NEW w, Sound(map, r, w), NEW t \in Task, NEW a \in Addr,
         r[<<t, a, "dir">>] = dir[t][a], TableFor(t, a, map) # 0
  PROVE  /\ Sound(TableMap(t, a, map), [r EXCEPT ![<<t, a, "dir">>] = TableFor(t, a, map)], w \cup {<<t, a, "dir">>})
         /\ TableFor(t, a, map) \in Page
<1> DEFINE n == <<t, a, "dir">>
<1>1. n \in Name /\ r \in [Name -> 0 .. NPages]
  BY Names DEF Sound
<1>2. CASE dir[t][a] # 0
  <2>1. TableFor(t, a, map) = r[n] /\ TableMap(t, a, map) = map
    BY <1>2 DEF TableFor, TableMap
  <2>2. [r EXCEPT ![n] = r[n]] = r
    BY <1>1
  <2>3. r[n] \in Page /\ (n[3] # "pte" \/ n \in w => map[r[n]] = 1)
    BY <1>1, <1>2, SoundCount
  <2>4. Sound(map, r, w \cup {n})
    BY <1>1, <1>2, <2>3, SoundSole
  <2> QED BY <2>1, <2>2, <2>3, <2>4
<1>3. CASE dir[t][a] = 0
  <2>1. PICK p \in Page : p = get_free_page(map) /\ map[p] = 0
    BY <1>3, FreePage DEF TableFor
  <2>2. TableFor(t, a, map) = p /\ TableMap(t, a, map) = Use(map, p)
    BY <1>3, <2>1 DEF TableFor, TableMap
  <2>3. Sound(Use(map, p), [r EXCEPT ![n] = p], w \cup {n})
    BY <1>1, <1>3, <2>1, SoundTake
  <2> QED BY <2>2, <2>3
<1> QED BY <1>2, <1>3

\* put_page: p is a page that the task holds, or could be said to hold.
LEMMA PutKeeps ==
  ASSUME Whole, NEW t \in Task, NEW a \in Addr, NEW p \in Page, NEW map, NEW c \in Contents,
         put_page(t, a, p, map, c), pc[t] \in {"user", "loading", "verified", "filling"}, pte[t][a] = Absent,
         Sound(map, [ref EXCEPT ![<<t, 0, "held">>] = p], Writable), held[t] \in {0, p},
         a \in Backed /\ executable[t] \in File => c = <<executable[t], a>>
  PROVE  Whole'
<1>1. Types /\ RefsAre(ref, pte, dir, task, held, pipes) /\ ref \in [Name -> 0 .. NPages]
  BY Now DEF Whole, Sound
<1> DEFINE h == <<t, 0, "held">>
           n == <<t, a, "pte">>
           d == <<t, a, "dir">>
           rh == [ref EXCEPT ![h] = p]
           hd == [held EXCEPT ![t] = p]
           table == TableFor(t, a, map)
<1>2. h \in Name /\ n \in Name /\ d \in Name /\ h # n /\ h # d /\ n # d /\ h[3] # "pte" /\ p # 0
  BY Names, Pages
<1>3. RefsAre(rh, pte, dir, task, hd, pipes)
  <2>1. \A u \in Task : hd[u] = IF u = t THEN p ELSE held[u]
    BY <1>1 DEF Types
  <2> HIDE DEF hd
  <2> QED BY <1>1, <2>1, SetHeld, Pages
<1>4. rh[h] = p /\ rh[n] = 0 /\ rh[d] = dir[t][a] /\ rh \in [Name -> 0 .. NPages]
  BY <1>1, <1>2, Consts, Pages DEF RefsAre
<1>5. Placed(t)
  BY DEF Whole
<1>6. task[t] # 0
  BY <1>5 DEF Placed
<1>7. CASE table = 0
  <2>1. Exit(t, free_page(map, p))
    BY <1>7 DEF put_page
  <2>2. Sound(map, rh, Writable)
    OBVIOUS
  <2>3. [rh EXCEPT ![h] = 0] = [ref EXCEPT ![h] = 0]
    BY <1>1
  <2>4. Sound(free_page(map, rh[h]), [rh EXCEPT ![h] = 0], Writable)
    BY <1>2, <2>2, SoundDrop
  <2> QED BY <1>4, <1>6, <2>1, <2>3, <2>4, ExitKeeps
<1>8. CASE table # 0
  <2> DEFINE rd == [rh EXCEPT ![d] = table]
             rm == [[rd EXCEPT ![h] = 0] EXCEPT ![n] = p]
             w == (Writable \cup {d}) \cup {n}
             where == IF BackTo(t) = "faulted" THEN a ELSE 0
  <2>1. /\ dir' = [dir EXCEPT ![t][a] = table] /\ mem_map' = TableMap(t, a, map)
        /\ pte' = [pte EXCEPT ![t][a] = [page |-> p, rw |-> TRUE, dirty |-> FALSE]]
        /\ content' = [content EXCEPT ![p] = c] /\ view' = [view EXCEPT ![t][a] = c]
        /\ pc' = [pc EXCEPT ![t] = BackTo(t)] /\ held' = [held EXCEPT ![t] = 0]
        /\ at' = [at EXCEPT ![t] = where]
        /\ UNCHANGED <<task, executable, file, pipes, loose, raced>>
    BY <1>8 DEF put_page
  <2>2. Sound(mem_map', rd, Writable \cup {d}) /\ table \in Page
    <3>1. Sound(map, rh, Writable)
      OBVIOUS
    <3> HIDE DEF rh
    <3>2. /\ Sound(TableMap(t, a, map), [rh EXCEPT ![<<t, a, "dir">>] = table], Writable \cup {<<t, a, "dir">>})
          /\ table \in Page
      BY <1>4, <1>8, <3>1, SoundTable
    <3> QED BY <2>1, <3>2
  <2>3. rd[h] = p /\ rd[n] = 0 /\ rd \in [Name -> 0 .. NPages]
    BY <1>2, <1>4, <2>2, Pages
  <2>4. Sound(mem_map', rm, w)
    <3> HIDE DEF rd
    <3>1. Sound(mem_map', [[rd EXCEPT ![h] = 0] EXCEPT ![n] = rd[h]], (Writable \cup {d}) \cup {n})
      BY <1>2, <2>2, <2>3, SoundMove
    <3> QED BY <2>3, <3>1
  <2>5. PICK e \in Entry : e = [page |-> p, rw |-> TRUE, dirty |-> FALSE] /\ e.page = p /\ e.rw = TRUE /\ e.dirty = FALSE
    BY NewEntry
  <2>6. /\ pte' \in [Task -> [Addr -> Entry]] /\ pte'[t][a] = e
        /\ \A u \in Task, b \in Addr : u # t \/ b # a => pte'[u][b] = pte[u][b]
        /\ \A u \in Task : u # t => pte'[u] = pte[u]
    <3>1. pte' = [pte EXCEPT ![t] = [pte[t] EXCEPT ![a] = e]]
      BY <1>1, <2>1, <2>5 DEF Types
    <3> QED BY <1>1, <3>1, OneEntry DEF Types
  <2>7. /\ dir' \in [Task -> [Addr -> 0 .. NPages]]
        /\ \A u \in Task, b \in Addr : dir'[u][b] = IF u = t /\ b = a THEN table ELSE dir[u][b]
        /\ \A u \in Task : u # t => dir'[u] = dir[u]
    BY <1>1, <2>1, <2>2, Pages DEF Types
  <2>8. RefsAre(rm, pte', dir', task', held', pipes')
    <3>1. RefsAre(rd, pte, dir', task, hd, pipes)
      <4>1. table \in 0 .. NPages
        BY <2>2, Pages
      <4> HIDE DEF rh, table, hd
      <4> QED BY <1>3, <2>7, <4>1, SetTable
    <3>2. RefsAre([rd EXCEPT ![h] = 0], pte, dir', task, held', pipes)
      <4>1. \A u \in Task : held'[u] = IF u = t THEN 0 ELSE hd[u]
        BY <1>1, <2>1 DEF Types
      <4> HIDE DEF rd, hd
      <4> QED BY <3>1, <4>1, SetHeld, Pages
    <3>3. RefsAre(rm, pte', dir', task, held', pipes)
      <4>1. \A u \in Task, b \in Addr : pte'[u][b].page = IF u = t /\ b = a THEN p ELSE pte[u][b].page
        BY <2>5, <2>6
      <4>2. PICK s : s = [rd EXCEPT ![h] = 0] /\ RefsAre(s, pte, dir', task, held', pipes)
        BY <3>2
      <4>3. p \in 0 .. NPages
        BY Pages
      <4>4. RefsAre([s EXCEPT ![n] = p], pte', dir', task, held', pipes)
        <5>1. PICK new, dr2, hd2 : new = pte' /\ dr2 = dir' /\ hd2 = held'
          OBVIOUS
        <5>4. \A u \in Task, b \in Addr : new[u][b].page = IF u = t /\ b = a THEN p ELSE pte[u][b].page
          BY <4>1, <5>1
        <5>5. RefsAre(s, pte, dr2, task, hd2, pipes)
          BY <4>2, <5>1
        <5>6. RefsAre([s EXCEPT ![<<t, a, "pte">>] = p], new, dr2, task, hd2, pipes)
          BY ONLY <4>3, <5>4, <5>5, SetEntry
        <5> QED BY <5>1, <5>6
      <4> HIDE DEF rd, n
      <4> QED BY <4>2, <4>4
    <3> QED BY <2>1, <3>3
  <2>9. Types'
    <3>1. mem_map' \in [Page -> Nat]
      BY <2>2 DEF Sound
    <3>2. pc' \in [Task -> Place] /\ at' \in [Task -> 0 .. NAddr] /\ held' \in [Task -> 0 .. NPages]
      BY <1>1, <2>1, Addresses, Pages DEF Types, Place, InCall, BackTo
    <3>3. content' \in [Page -> Contents] /\ view' \in [Task -> [Addr -> Contents]]
      BY <1>1, <2>1 DEF Types
    <3> QED BY <1>1, <2>1, <2>6, <2>7, <3>1, <3>2, <3>3 DEF Types
  <2>10. Sound(mem_map, ref, Writable)'
    <3>1. \A u \in Task, b \in Addr : pte'[u][b].rw => <<u, b, "pte">> \in w
      BY <2>6, WritableIs
    <3> HIDE DEF rm, w
    <3> QED BY <2>4, <2>8, <2>9, <3>1, After
  <2>11. /\ \A u \in Task, b \in Addr : pte[u][b].page # p
         /\ \A u \in Task : u # t => held[u] # p
    <3>1. Sound(map, rh, Writable)
      OBVIOUS
    <3>2. \A m \in Name : rh[m] = p => m = h
      <4>1. PICK s : s = rh /\ Sound(map, s, Writable) /\ s[h] = p
        BY <1>4, <3>1
      <4> HIDE DEF h, rh
      <4>2. s[h] # 0 /\ Sound(map, s, Writable)
        BY <1>2, <4>1
      <4>3. map[s[h]] = 1 /\ (map[s[h]] = 1 <=> \A m \in Name : s[m] = s[h] => m = h)
        BY <1>2, <4>2, SoundCount
      <4> QED BY <4>1, <4>3
    <3>3. ASSUME NEW u \in Task, NEW b \in Addr PROVE pte[u][b].page # p
      <4>1. <<u, b, "pte">> \in Name /\ <<u, b, "pte">> # h
        BY Names
      <4>2. rh[<<u, b, "pte">>] = pte[u][b].page
        BY <1>3 DEF RefsAre
      <4> QED BY <3>2, <4>1, <4>2
    <3>4. ASSUME NEW u \in Task, u # t PROVE held[u] # p
      <4>1. <<u, 0, "held">> \in Name /\ <<u, 0, "held">> # h
        BY <3>4, Names
      <4>2. rh[<<u, 0, "held">>] = held[u]
        BY <1>1, <1>3, <3>4 DEF RefsAre, Types
      <4> QED BY <3>2, <4>1, <4>2
    <3> QED BY <3>3, <3>4
  <2>12. content'[p] = c /\ \A q : q # p => content'[q] = content[q]
    BY <1>1, <2>1 DEF Types
  <2>13. ASSUME NEW u \in Task PROVE Placed(u)' /\ Sees(u)'
    <3>0. Placed(u) /\ Sees(u) /\ (raced => raced')
      BY <2>1 DEF Whole
    <3>1. CASE u # t
      <4>1. Frame(u)
        BY <1>1, <2>1, <2>6, <2>7, <3>1 DEF Frame, Types
      <4>2. SameContent(u)
        BY <2>11, <2>12, <3>1 DEF SameContent
      <4> QED BY <3>0, <4>1, <4>2, Framed
    <3>2. CASE u = t
      <4>1. /\ (pc'[t] = "user" /\ at'[t] = 0) \/ (pc'[t] = "faulted" /\ at'[t] = a)
            /\ held'[t] = 0 /\ task'[t] # 0 /\ a # 0
        BY <1>1, <1>6, <2>1, Addresses DEF Types, BackTo
      <4>2. \A b \in Addr : pte'[t][b].page = 0 => pte'[t][b] = Absent
        BY <1>2, <2>5, <2>6, <1>5 DEF Placed
      <4>3. Placed(t)'
        BY <1>2, <2>5, <2>6, <4>1, <4>2 DEF Placed, Gone, Holding, Busy, InCall
      <4>4. ASSUME NEW b \in Addr PROVE SeesAt(t, b)'
        <5>1. CASE b = a
          <6>1. view'[t][a] = c /\ pte'[t][a].page = p /\ executable' = executable
            BY <1>1, <2>1, <2>5, <2>6 DEF Types
          <6> QED BY <2>12, <5>1, <6>1 DEF SeesAt
        <5>2. CASE b # a
          <6>1. SeesAt(t, b) /\ view'[t][b] = view[t][b] /\ pte'[t][b] = pte[t][b] /\ executable' = executable
            BY <1>1, <2>1, <2>6, <3>0, <3>2, <5>2 DEF Sees, Types
          <6>2. content'[pte[t][b].page] = content[pte[t][b].page]
            BY <2>11, <2>12
          <6>3. loose' = loose /\ pc[t] # "closing"
            BY <2>1
          <6> QED BY <3>0, <6>1, <6>2, <6>3, SeesStill
        <5> QED BY <5>1, <5>2
      <4>5. Sees(t)'
        BY <2>5, <2>6, <4>1, <4>4 DEF Sees, StoresTo
      <4> QED BY <3>2, <4>3, <4>5
    <3> QED BY <3>1, <3>2
  <2> QED BY <2>9, <2>10, <2>13 DEF Whole
<1> QED BY <1>7, <1>8

\* A page of zeroes for an address that has none.
LEMMA EmptyKeeps ==
  ASSUME Whole, NEW t \in Task, NEW a \in Addr, get_empty_page(t, a)
  PROVE  Whole'
<1>1. Types /\ Placed(t) /\ Sound(mem_map, ref, Writable) /\ RefsAre(ref, pte, dir, task, held, pipes)
  BY Now DEF Whole
<1>2. pc[t] \in {"user", "verified"} /\ pte[t][a] = Absent /\ (executable[t] = NULL \/ a \notin Backed)
  BY DEF get_empty_page, Faults, Present, Anonymous
<1>3. held[t] = 0
  BY <1>1, <1>2 DEF Placed, Holding
<1> DEFINE p == get_free_page(mem_map)
<1>4. CASE p = 0
  <2>1. Exit(t, mem_map)
    BY <1>4 DEF get_empty_page
  <2> QED BY <1>2, <2>1, ExitNow DEF Gone, Holding
<1>5. CASE p # 0
  <2>1. put_page(t, a, p, Use(mem_map, p), Zero)
    BY <1>5 DEF get_empty_page
  <2>2. p \in Page /\ mem_map[p] = 0
    BY <1>5, FreePage
  <2> HIDE DEF p
  <2> DEFINE h == <<t, 0, "held">>
  <2>3. h \in Name /\ ref[h] = 0
    BY <1>1, <1>3, Names DEF RefsAre
  <2>4. Sound(Use(mem_map, p), [ref EXCEPT ![h] = p], Writable \cup {h})
    BY <1>1, <2>2, <2>3, SoundTake
  <2>5. Sound(Use(mem_map, p), [ref EXCEPT ![h] = p], Writable)
    <3>1. \A m \in Name : m \in Writable => m \in Writable \cup {h}
      OBVIOUS
    <3> HIDE DEF h
    <3> QED BY <2>4, <3>1, SoundLess
  <2>6. Zero \in Contents /\ (a \in Backed /\ executable[t] \in File => Zero = <<executable[t], a>>)
    BY <1>2, Consts, MemoryAssumption
  <2> QED BY <1>2, <1>3, <2>1, <2>2, <2>5, <2>6, PutKeeps
<1> QED BY <1>4, <1>5

\* do_no_page maps the page it has read.
LEMMA LoadedKeeps ==
  ASSUME Whole, NEW t \in Task, Loaded(t)
  PROVE  Whole'
<1>1. Types /\ Placed(t) /\ Sound(mem_map, ref, Writable) /\ RefsAre(ref, pte, dir, task, held, pipes)
  BY Now DEF Whole
<1>2. pc[t] \in {"loading", "filling"} /\ put_page(t, at[t], held[t], mem_map, <<executable[t], at[t]>>)
  BY DEF Loaded
<1>3. PICK a \in Addr : a = at[t]
  BY <1>1, <1>2, Addresses DEF Placed, Busy, InCall, Types
<1>4. PICK p \in Page : p = held[t]
  BY <1>1, <1>2, Pages DEF Placed, Holding, Types
<1>5. pte[t][a] = Absent /\ <<executable[t], a>> \in Contents
  BY <1>1, <1>2, <1>3, Consts DEF Placed
<1>6. [ref EXCEPT ![<<t, 0, "held">>] = p] = ref
  BY <1>1, <1>4, Names DEF RefsAre
<1> QED BY <1>1, <1>2, <1>3, <1>4, <1>5, <1>6, PutKeeps

\* exec leaves the old program.
LEMMA ClosedKeeps ==
  ASSUME Whole, NEW t \in Task, ExecClosed(t)
  PROVE  Whole'
<1>1. Types /\ Placed(t) /\ Sees(t) /\ Sound(mem_map, ref, Writable) /\ RefsAre(ref, pte, dir, task, held, pipes)
  BY Now DEF Whole
<1> DEFINE map == free_page_tables(mem_map, t)
           d == get_free_page(map)
           h == <<t, 0, "held">>
           n == <<t, Stack, "pte">>
           m == <<t, Stack, "dir">>
           rc == Cleared(ref, t)
           rd == [rc EXCEPT ![m] = d]
<1>2. PICK p \in Page : p = held[t]
  BY <1>1, Pages DEF Placed, Holding, Types, ExecClosed
<1> DEFINE rm == [[rd EXCEPT ![h] = 0] EXCEPT ![n] = p]
           w == (Writable \cup {m}) \cup {n}
<1>3. PICK e \in Entry : e = [page |-> p, rw |-> TRUE, dirty |-> FALSE] /\ e.page = p /\ e.rw = TRUE /\ e.dirty = FALSE
  BY NewEntry
<1>4. /\ pc[t] = "closing" /\ mem_map' = Use(map, d)
      /\ dir' = [dir EXCEPT ![t] = [NoTable EXCEPT ![Stack] = d]]
      /\ content' = Kept(content)
      /\ pte' = [pte EXCEPT ![t] = [NoEntry EXCEPT ![Stack] = e]]
      /\ view' = [view EXCEPT ![t] = [a \in Addr |-> IF a = Stack THEN Args ELSE Zero]]
      /\ held' = [held EXCEPT ![t] = 0] /\ pc' = [pc EXCEPT ![t] = "user"] /\ loose' = Tight(t)
      /\ UNCHANGED <<task, executable, at, file, pipes, raced>>
  BY <1>2, <1>3 DEF ExecClosed
<1>5. h \in Name /\ n \in Name /\ m \in Name /\ h # n /\ h # m /\ n # m /\ h[3] # "pte" /\ p # 0
  BY Names, Pages, Addresses
<1>6. Sound(map, rc, Writable)
  BY <1>1, SoundClear
<1>7. RefsAre(rc, [pte EXCEPT ![t] = NoEntry], [dir EXCEPT ![t] = NoTable], task, held, pipes)
  <2> DEFINE pt == [pte EXCEPT ![t] = NoEntry]
             dr == [dir EXCEPT ![t] = NoTable]
  <2>1. \A u \in Task, b \in Addr : pt[u][b].page = IF u = t THEN 0 ELSE pte[u][b].page
    BY <1>1, Consts DEF Types
  <2>2. \A u \in Task, b \in Addr : dr[u][b] = IF u = t THEN 0 ELSE dir[u][b]
    BY <1>1, Consts DEF Types
  <2> HIDE DEF pt, dr
  <2>3. RefsAre(rc, pt, dr, task, held, pipes)
    BY <1>1, <2>1, <2>2, ClearedRefs
  <2> QED BY <2>3 DEF pt, dr
<1>8. rc[h] = p /\ rc[n] = 0 /\ rc[m] = 0 /\ rc \in [Name -> 0 .. NPages]
  <2>1. /\ rc \in [Name -> 0 .. NPages] /\ rc[h] = held[t]
        /\ rc[n] = [pte EXCEPT ![t] = NoEntry][t][Stack].page
        /\ rc[m] = [dir EXCEPT ![t] = NoTable][t][Stack]
    <3> HIDE DEF rc
    <3> QED BY <1>7, Addresses DEF RefsAre
  <2>2. [pte EXCEPT ![t] = NoEntry][t][Stack].page = 0 /\ [dir EXCEPT ![t] = NoTable][t][Stack] = 0
    BY <1>1, Consts, Addresses DEF Types
  <2> QED BY <1>2, <2>1, <2>2
<1>9. d \in 0 .. NPages
  BY FreePage
<1> HIDE DEF map, rc
<1>10. Sound(mem_map', rd, Writable \cup {m})
  <2>1. CASE d = 0
    <3>1. rd = rc /\ Use(map, d) = map
      BY <1>5, <1>8, <2>1 DEF Use
    <3>2. Owned(rc, Writable) /\ m[3] = "dir"
      BY <1>6 DEF Sound
    <3>3. Owned(rc, Writable \cup {m})
      BY <3>2 DEF Owned
    <3> QED BY <1>4, <1>6, <3>1, <3>3 DEF Sound
  <2>2. CASE d # 0
    <3>1. d \in Page /\ map[d] = 0
      BY <2>2, FreePage
    <3> HIDE DEF d
    <3> QED BY <1>4, <1>5, <1>6, <1>8, <3>1, SoundTake
  <2> QED BY <2>1, <2>2
<1> HIDE DEF d
<1>11. rd[h] = p /\ rd[n] = 0 /\ rd \in [Name -> 0 .. NPages]
  BY <1>5, <1>8, <1>9
<1>12. Sound(mem_map', rm, w)
  <2> HIDE DEF rd
  <2>1. Sound(mem_map', [[rd EXCEPT ![h] = 0] EXCEPT ![n] = rd[h]], (Writable \cup {m}) \cup {n})
    BY <1>5, <1>10, <1>11, SoundMove
  <2> QED BY <1>11, <2>1
<1>13. /\ pte' \in [Task -> [Addr -> Entry]] /\ dir' \in [Task -> [Addr -> 0 .. NPages]]
       /\ pte'[t][Stack] = e /\ \A b \in Addr : b # Stack => pte'[t][b] = Absent
       /\ dir'[t][Stack] = d /\ \A b \in Addr : b # Stack => dir'[t][b] = 0
       /\ \A u \in Task : u # t => pte'[u] = pte[u] /\ dir'[u] = dir[u]
  BY <1>1, <1>4, <1>9, Consts, Addresses DEF Types
<1>14. RefsAre(rm, pte', dir', task', held', pipes')
  <2> DEFINE pt == [pte EXCEPT ![t] = NoEntry]
             dr == [dir EXCEPT ![t] = NoTable]
  <2>1. RefsAre(rd, pt, dir', task, held, pipes)
    <3>1. \A u \in Task, b \in Addr : dir'[u][b] = IF u = t /\ b = Stack THEN d ELSE dr[u][b]
      BY <1>1, <1>13, Consts DEF Types
    <3>2. RefsAre(rc, pt, dr, task, held, pipes) /\ Stack \in Addr
      BY <1>7, Addresses
    <3> HIDE DEF pt, dr
    <3> QED BY <1>9, <3>1, <3>2, SetTable
  <2>2. RefsAre([rd EXCEPT ![h] = 0], pt, dir', task, held', pipes)
    <3>1. \A u \in Task : held'[u] = IF u = t THEN 0 ELSE held[u]
      BY <1>1, <1>4 DEF Types
    <3> HIDE DEF pt, rd
    <3> QED BY <2>1, <3>1, SetHeld, Pages
  <2>3. RefsAre(rm, pte', dir', task, held', pipes)
    <3>1. \A u \in Task, b \in Addr : pte'[u][b].page = IF u = t /\ b = Stack THEN p ELSE pt[u][b].page
      BY <1>1, <1>3, <1>13, Consts DEF Types
    <3>2. PICK s : s = [rd EXCEPT ![h] = 0] /\ RefsAre(s, pt, dir', task, held', pipes)
      BY <2>2
    <3>3. p \in 0 .. NPages /\ Stack \in Addr
      BY Pages, Addresses
    <3> HIDE DEF pt, rd
    <3>4. PICK new, dr2, hd2 : new = pte' /\ dr2 = dir' /\ hd2 = held'
      OBVIOUS
    <3>5. \A u \in Task, b \in Addr : new[u][b].page = IF u = t /\ b = Stack THEN p ELSE pt[u][b].page
      BY <3>1, <3>4
    <3>6. RefsAre(s, pt, dr2, task, hd2, pipes)
      BY <3>2, <3>4
    <3>7. RefsAre([s EXCEPT ![<<t, Stack, "pte">>] = p], new, dr2, task, hd2, pipes)
      BY ONLY <3>3, <3>5, <3>6, SetEntry
    <3> QED BY <3>2, <3>4, <3>7
  <2> QED BY <1>4, <2>3
<1>15. Types'
  <2>1. mem_map' \in [Page -> Nat]
    BY <1>10 DEF Sound
  <2>2. pc' \in [Task -> Place] /\ held' \in [Task -> 0 .. NPages]
    BY <1>1, <1>4, Pages DEF Types, Place, InCall
  <2>3. content' \in [Page -> Contents] /\ view' \in [Task -> [Addr -> Contents]]
    BY <1>1, <1>4, Consts, KeptType DEF Types
  <2>4. loose' \subseteq Task \X Backed
    BY <1>1, <1>4 DEF Types, Tight
  <2> QED BY <1>1, <1>4, <1>13, <2>1, <2>2, <2>3, <2>4 DEF Types
<1>16. Sound(mem_map, ref, Writable)'
  <2>1. \A u \in Task, b \in Addr : pte'[u][b].rw => <<u, b, "pte">> \in w
    BY <1>13, WritableIs, Consts
  <2> HIDE DEF rm, w
  <2> QED BY <1>12, <1>14, <1>15, <2>1, After
<1>17. content'[p] = Args
  <2>1. content[p] = Args
    BY <1>1, <1>2, <1>4 DEF Sees
  <2>2. pte'[t][Stack].page = p
    BY <1>3, <1>13
  <2> QED BY <1>4, <1>5, <1>15, <1>16, <2>1, <2>2, KeptEntry, Addresses
<1>18. ASSUME NEW u \in Task PROVE Placed(u)' /\ Sees(u)'
  <2>0. Placed(u) /\ Sees(u) /\ (raced => raced')
    BY <1>4 DEF Whole
  <2>1. CASE u # t
    <3>1. Frame(u)
      BY <1>1, <1>4, <1>13, <2>1 DEF Frame, Types, Tight
    <3>2. SameContent(u)
      BY <1>4, <1>15, <1>16, <3>1, KeptContent
    <3> QED BY <2>0, <3>1, <3>2, Framed
  <2>2. CASE u = t
    <3>1. pc'[t] = "user" /\ at'[t] = 0 /\ held'[t] = 0 /\ task'[t] # 0
      BY <1>1, <1>4 DEF Types, Placed, Busy, InCall
    <3>2. \A b \in Addr : pte'[t][b].page = 0 => pte'[t][b] = Absent
      BY <1>3, <1>5, <1>13
    <3>3. Placed(t)'
      BY <3>1, <3>2 DEF Placed, Gone, Holding, Busy, InCall
    <3>4. ASSUME NEW b \in Addr PROVE SeesAt(t, b)'
      <4>1. CASE b = Stack
        <5>1. view'[t][b] = Args /\ pte'[t][b].page = p
          BY <1>1, <1>3, <1>4, <1>13, <4>1 DEF Types
        <5> QED BY <1>17, <4>1, <5>1, Addresses DEF SeesAt
      <4>2. CASE b # Stack
        BY <1>13, <4>2, Consts DEF SeesAt
      <4> QED BY <4>1, <4>2
    <3>5. Sees(t)'
      BY <3>1, <3>4 DEF Sees, StoresTo
    <3> QED BY <2>2, <3>3, <3>5
  <2> QED BY <2>1, <2>2
<1> QED BY <1>15, <1>16, <1>18 DEF Whole

\* A page another task has is shared with it.
LEMMA ShareKeeps ==
  ASSUME Whole, NEW t \in Task, NEW a \in Addr, share_page(t, a)
  PROVE  Whole'
<1>1. Types /\ Placed(t) /\ Sound(mem_map, ref, Writable) /\ RefsAre(ref, pte, dir, task, held, pipes)
  BY Now DEF Whole
<1>2. /\ pc[t] = "user" \/ (pc[t] = "verified" /\ at[t] = a)
      /\ pte[t][a] = Absent /\ executable[t] \in File /\ a \in Backed
  BY <1>1, MemoryAssumption DEF share_page, Faults, Present, Anonymous, Types
<1> DEFINE table == TableFor(t, a, mem_map)
<1>3. CASE table = 0
  <2>1. Exit(t, mem_map)
    BY <1>3 DEF share_page
  <2> QED BY <1>2, <2>1, ExitNow DEF Gone, Holding
<1>4. CASE table # 0
  <2>1. PICK u \in Sharers(t, a) :
          /\ dir' = [dir EXCEPT ![t][a] = table]
          /\ mem_map' = Count(TableMap(t, a, mem_map), pte[u][a].page)
          /\ pte' = [pte EXCEPT ![u][a] = ShareProtect(@), ![t][a] = [pte[u][a] EXCEPT !.rw = FALSE]]
          /\ view' = [view EXCEPT ![t][a] = <<executable[t], a>>]
          /\ pc' = [pc EXCEPT ![t] = BackTo(t)]
          /\ raced' = (raced \/ <<u, a>> \in loose \/ pc[u] = "closing")
          /\ UNCHANGED <<content, task, executable, held, at, pipes, file, loose>>
    BY <1>4 DEF share_page
  <2>2. u \in Task /\ u # t /\ executable[u] = executable[t] /\ pte[u][a] # Absent /\ Clean(pte[u][a])
    BY DEF Sharers, Present
  <2>3. Placed(u) /\ Sees(u)
    BY <2>2 DEF Whole
  <2>4. PICK e \in Entry : e = [pte[u][a] EXCEPT !.rw = FALSE] /\ e.page = pte[u][a].page /\ e.rw = FALSE /\ e.dirty = pte[u][a].dirty
    <3>1. PICK x \in Entry : x = pte[u][a]
      BY <1>1, <2>2 DEF Types
    <3>2. /\ [x EXCEPT !.rw = FALSE] \in Entry /\ [x EXCEPT !.rw = FALSE].page = x.page
          /\ [x EXCEPT !.rw = FALSE].rw = FALSE /\ [x EXCEPT !.rw = FALSE].dirty = x.dirty
      BY Fields
    <3> QED BY <3>1, <3>2
  <2>5. pte' = [[pte EXCEPT ![u] = [pte[u] EXCEPT ![a] = e]] EXCEPT ![t] = [pte[t] EXCEPT ![a] = e]]
    <3>1. ShareProtect(pte[u][a]) = e
      BY <2>4 DEF ShareProtect
    <3> QED BY <1>1, <2>1, <2>2, <2>4, <3>1 DEF Types
  <2>6. /\ pte' \in [Task -> [Addr -> Entry]] /\ pte'[t][a] = e /\ pte'[u][a] = e
        /\ \A x \in Task, b \in Addr : (x # t /\ x # u) \/ b # a => pte'[x][b] = pte[x][b]
        /\ \A x \in Task : x # t /\ x # u => pte'[x] = pte[x]
    BY <1>1, <2>2, <2>5 DEF Types
  <2>7. PICK p \in Page : p = pte[u][a].page
    <3>1. pte[u][a].page # 0
      BY <2>2, <2>3 DEF Placed
    <3>2. e.page \in 0 .. NPages
      BY Fields
    <3> QED BY <2>4, <3>1, <3>2, Pages
  <2> DEFINE n == <<t, a, "pte">>
             m == <<u, a, "pte">>
             d == <<t, a, "dir">>
             rd == [ref EXCEPT ![d] = table]
             rs == [rd EXCEPT ![n] = p]
             w == (Writable \cup {d}) \ {n, m}
  <2>8. n \in Name /\ m \in Name /\ d \in Name /\ d # n /\ d # m /\ n[3] = "pte" /\ m[3] = "pte" /\ n[2] = m[2] /\ p # 0
    BY <2>2, Names, Pages
  <2>9. ref[n] = 0 /\ ref[m] = p /\ ref[d] = dir[t][a] /\ ref \in [Name -> 0 .. NPages]
    BY <1>1, <1>2, <2>2, <2>7, Consts DEF RefsAre
  <2>10. Sound(TableMap(t, a, mem_map), rd, Writable \cup {d}) /\ table \in Page
    BY <1>1, <1>4, <2>9, SoundTable
  <2>11. rd[n] = 0 /\ rd[m] = p /\ rd \in [Name -> 0 .. NPages]
    BY <2>8, <2>9, <2>10, Pages
  <2>12. Sound(mem_map', rs, w)
    <3> HIDE DEF rd, n, m, d
    <3>1. Sound(Use(TableMap(t, a, mem_map), rd[m]), [rd EXCEPT ![n] = rd[m]], (Writable \cup {d}) \ {n, m})
      BY <2>8, <2>10, <2>11, SoundShare
    <3>2. mem_map' = Use(TableMap(t, a, mem_map), p)
      BY <2>1, <2>7 DEF Count
    <3> QED BY <2>11, <3>1, <3>2
  <2>13. /\ dir' \in [Task -> [Addr -> 0 .. NPages]]
         /\ \A x \in Task, b \in Addr : dir'[x][b] = IF x = t /\ b = a THEN table ELSE dir[x][b]
         /\ \A x \in Task : x # t => dir'[x] = dir[x]
    BY <1>1, <2>1, <2>10, Pages DEF Types
  <2>14. RefsAre(rs, pte', dir', task', held', pipes')
    <3>1. RefsAre(rd, pte, dir', task, held, pipes)
      <4>1. table \in 0 .. NPages
        BY <2>10, Pages
      <4> HIDE DEF table
      <4> QED BY <1>1, <2>13, <4>1, SetTable
    <3>2. PICK new, dr2 : new = pte' /\ dr2 = dir'
      OBVIOUS
    <3>3. \A x \in Task, b \in Addr : new[x][b].page = IF x = t /\ b = a THEN p ELSE pte[x][b].page
      BY <2>4, <2>6, <2>7, <3>2
    <3>4. p \in 0 .. NPages
      BY Pages
    <3> HIDE DEF rd
    <3>5. RefsAre(rd, pte, dr2, task, held, pipes)
      BY <3>1, <3>2
    <3>6. RefsAre([rd EXCEPT ![<<t, a, "pte">>] = p], new, dr2, task, held, pipes)
      BY ONLY <3>3, <3>4, <3>5, SetEntry
    <3> QED BY <2>1, <3>2, <3>6
  <2>15. Types'
    <3>1. mem_map' \in [Page -> Nat]
      BY <2>12 DEF Sound
    <3>2. view' \in [Task -> [Addr -> Contents]]
      BY <1>1, <1>2, <2>1, Consts DEF Types
    <3>3. raced' \in BOOLEAN
      BY <1>1, <2>1 DEF Types
    <3>4. pc' \in [Task -> Place]
      BY <1>1, <2>1 DEF Types, Place, InCall, BackTo
    <3> QED BY <1>1, <2>1, <2>6, <2>13, <3>1, <3>2, <3>3, <3>4 DEF Types
  <2>16. Sound(mem_map, ref, Writable)'
    <3>1. \A x \in Task, b \in Addr : pte'[x][b].rw => <<x, b, "pte">> \in w
      <4> SUFFICES ASSUME NEW x \in Task, NEW b \in Addr, pte'[x][b].rw PROVE <<x, b, "pte">> \in w
        OBVIOUS
      <4>1. (x # t /\ x # u) \/ b # a
        BY <2>4, <2>6
      <4>2. <<x, b, "pte">> \in Writable /\ <<x, b, "pte">> # n /\ <<x, b, "pte">> # m
        BY <2>6, <4>1, WritableIs
      <4> QED BY <4>2
    <3> HIDE DEF rs, w
    <3> QED BY <2>12, <2>14, <2>15, <3>1, After
  <2>17. ~raced' => content[p] = <<executable[t], a>>
    <3> SUFFICES ASSUME ~raced' PROVE content[p] = <<executable[t], a>>
      OBVIOUS
    <3>1. ~raced /\ <<u, a>> \notin loose
      BY <2>1
    <3>2. pc[u] # "closing"
      BY <2>1
    <3>3. SeesAt(u, a)
      BY <2>3 DEF Sees
    <3>4. view[u][a] = <<executable[u], a>>
      BY <1>2, <2>2, <2>7, <2>8, <3>1, <3>2, <3>3 DEF SeesAt
    <3>5. content[p] = view[u][a]
      BY <2>2, <2>7, <3>1, <3>2, <3>3 DEF SeesAt
    <3> QED BY <2>2, <3>4, <3>5
  <2>18. ASSUME NEW x \in Task PROVE Placed(x)' /\ Sees(x)'
    <3>0. Placed(x) /\ Sees(x) /\ (raced => raced') /\ SameContent(x)
      BY <2>1, AllContent DEF Whole
    <3>1. CASE x # t /\ x # u
      <4>1. Frame(x)
        BY <1>1, <2>1, <2>6, <2>13, <3>1 DEF Frame, Types
      <4> QED BY <3>0, <4>1, Framed
    <3>2. CASE x = t
      <4>1. /\ (pc[t] = "user" /\ pc'[t] = "user") \/ (pc'[t] = "faulted" /\ at[t] = a)
            /\ task' = task /\ held' = held /\ at' = at /\ a # 0 /\ pte'[t][a].page # 0
        BY <1>1, <1>2, <2>1, <2>4, <2>6, <2>7, Pages, Addresses DEF Types, BackTo, InCall
      <4>2. ASSUME NEW b \in Addr, pte'[t][b].page = 0 PROVE pte'[t][b] = Absent
        <5>1. e.page # 0
          BY <2>4, <2>7, Pages
        <5>2. b # a
          BY <2>6, <4>2, <5>1
        <5>3. pte'[t][b] = pte[t][b]
          BY <2>6, <5>2
        <5> QED BY <1>1, <4>2, <5>3 DEF Placed
      <4>3. Placed(t)'
        BY <1>1, <1>2, <4>1, <4>2 DEF Placed, Gone, Holding, Busy, InCall
      <4>4. ASSUME NEW b \in Addr PROVE SeesAt(t, b)'
        <5>1. CASE b = a
          <6>1. view'[t][a] = <<executable[t], a>> /\ pte'[t][a].page = p /\ executable' = executable /\ content' = content
            BY <1>1, <2>1, <2>4, <2>6, <2>7 DEF Types
          <6> QED BY <1>2, <2>17, <5>1, <6>1 DEF SeesAt
        <5>2. CASE b # a
          <6>1. SeesAt(t, b) /\ view'[t][b] = view[t][b] /\ pte'[t][b] = pte[t][b]
            BY <1>1, <2>1, <2>6, <3>0, <3>2, <5>2 DEF Sees, Types
          <6>2. pc[t] # "closing"
            BY <1>2
          <6> QED BY <2>1, <3>0, <6>1, <6>2, SeesStill
        <5> QED BY <5>1, <5>2
      <4>5. Sees(t)'
        BY <1>2, <4>1, <4>4 DEF Sees, StoresTo
      <4> QED BY <3>2, <4>3, <4>5
    <3>3. CASE x = u
      <4>1. /\ pc'[u] = pc[u] /\ task' = task /\ held' = held /\ at' = at /\ content' = content
            /\ executable' = executable /\ file' = file /\ view'[u] = view[u] /\ dir'[u] = dir[u]
            /\ loose' = loose
        BY <1>1, <2>1, <2>2, <2>13 DEF Types
      <4>2. ASSUME NEW b \in Addr
            PROVE  /\ pte'[u][b].page = pte[u][b].page /\ pte'[u][b].dirty = pte[u][b].dirty
                   /\ pte'[u][b].page = 0 => pte'[u][b] = Absent
                   /\ b # a => pte'[u][b] = pte[u][b]
        <5>1. e.page # 0
          BY <2>4, <2>7, Pages
        <5>2. CASE b = a
          BY <2>4, <2>6, <5>1, <5>2
        <5>3. CASE b # a
          <6>1. pte'[u][b] = pte[u][b]
            BY <2>2, <2>6, <5>3
          <6> QED BY <2>3, <5>3, <6>1 DEF Placed
        <5> QED BY <5>2, <5>3
      <4>3. pc[u] \notin Gone /\ (pc[u] \in {"loading", "filling"} => at[u] # a)
        BY <2>2, <2>3, Consts DEF Placed
      <4>4. pc[u] \in Busy => at[u] \in Addr
        BY <1>1, <2>2, <2>3, Addresses DEF Types, Placed, Busy, InCall
      <4>5. Placed(u)'
        BY <2>3, <4>1, <4>2, <4>3, <4>4 DEF Placed, Busy, InCall
      <4>6. ASSUME NEW b \in Addr PROVE SeesAt(u, b)'
        <5>1. SeesAt(u, b) /\ (pte'[u][b] # Absent => pte[u][b] # Absent)
          BY <2>2, <2>3, <4>2 DEF Sees
        <5> QED BY <2>2, <3>0, <4>1, <4>2, <5>1, SeesStill
      <4>7. StoresTo(u)'
        <5> SUFFICES ASSUME pc[u] \in {"verified", "faulted"}, at[u] \notin Backed, pte'[u][at[u]].page # 0
                     PROVE  pte'[u][at[u]].rw
          BY <4>1 DEF StoresTo
        <5>1. at[u] # a /\ at[u] \in Addr
          BY <1>2, <4>4 DEF Busy, InCall
        <5>2. pte'[u][at[u]] = pte[u][at[u]]
          BY <4>2, <5>1
        <5> QED BY <2>3, <5>2 DEF Sees, StoresTo
      <4>8. Sees(u)'
        BY <2>3, <4>1, <4>6, <4>7 DEF Sees
      <4> QED BY <3>3, <4>5, <4>8
    <3> QED BY <3>1, <3>2, <3>3
  <2> QED BY <2>15, <2>16, <2>18 DEF Whole
<1> QED BY <1>3, <1>4

-----------------------------------------------------------------------------
(* fork.                                                                   *)

\* The addresses at which task t has page p.
Shared(r, t, p) == {a \in Addr : r[<<t, a, "pte">>] = p}

\* The places at which task c gets page p from task t.
Copies(c, A) == {n \in Name : n[1] = c /\ n[3] = "pte" /\ n[2] \in A}

\* There are as many of them as addresses.
LEMMA CopiesCount ==
  ASSUME NEW c \in Task, NEW A \in SUBSET Addr
  PROVE  IsFiniteSet(Copies(c, A)) /\ Cardinality(Copies(c, A)) = Cardinality(A) /\ Cardinality(A) \in Nat
<1> DEFINE f == [a \in A |-> <<c, a, "pte">>]
<1>1. IsFiniteSet(A)
  BY FiniteNames, FS_Subset
<1>2. f \in [A -> Copies(c, A)]
  BY Names DEF Copies
<1>3. \A x, y \in A : f[x] = f[y] => x = y
  OBVIOUS
<1>4. ASSUME NEW n \in Copies(c, A) PROVE \E x \in A : f[x] = n
  <2>1. n \in Name /\ n[1] = c /\ n[3] = "pte" /\ n[2] \in A
    BY DEF Copies
  <2>2. PICK u \in Task, a \in Addr : n = <<u, a, "pte">>
    BY <2>1, Names
  <2>3. u = c /\ a \in A
    BY <2>1, <2>2
  <2> QED BY <2>2, <2>3
<1> HIDE DEF f
<1>5. IsFiniteSet(Copies(c, A)) /\ Cardinality(Copies(c, A)) = Cardinality(A)
  BY <1>1, <1>2, <1>3, <1>4, SameSize
<1> QED BY <1>1, <1>5, FS_CardinalityType

\* The child's new places are those in N, each with a free page of its own,
\* and its entries, which it shares with the father's: map, r and w become new,
\* s and v.
Forked(map, r, w, t, c, N, new, s, v) ==
  /\ \A n \in N : n[3] # "pte" /\ r[n] = 0
  /\ \A n \in N : s[n] \in Page /\ map[s[n]] = 0
  /\ \A n, m \in N : s[n] = s[m] => n = m
  /\ \A a \in Addr : s[<<c, a, "pte">>] = r[<<t, a, "pte">>] /\ r[<<c, a, "pte">>] = 0
  /\ \A n \in Name : n \notin N /\ ~(n[1] = c /\ n[3] = "pte") => s[n] = r[n]
  /\ \A p \in Page : new[p] = IF \E n \in N : s[n] = p THEN 1 ELSE map[p] + Cardinality(Shared(r, t, p))
  /\ \A n \in Name : n \in v => n \in w /\ n[1] # t /\ n[1] # c

\* Then the pages are still counted and owned.
LEMMA SoundFork ==
  ASSUME NEW map, NEW r, NEW w, Sound(map, r, w), NEW t \in Task, NEW c \in Task, t # c,
         NEW N \in SUBSET Name, NEW s \in [Name -> 0 .. NPages], NEW new \in [Page -> Nat], NEW v,
         Forked(map, r, w, t, c, N, new, s, v)
  PROVE  Sound(new, s, v)
<1>0. /\ \A n \in N : n[3] # "pte" /\ r[n] = 0
      /\ \A n \in N : s[n] \in Page /\ map[s[n]] = 0
      /\ \A n, m \in N : s[n] = s[m] => n = m
      /\ \A a \in Addr : s[<<c, a, "pte">>] = r[<<t, a, "pte">>] /\ r[<<c, a, "pte">>] = 0
      /\ \A n \in Name : n \notin N /\ ~(n[1] = c /\ n[3] = "pte") => s[n] = r[n]
      /\ \A p \in Page : new[p] = IF \E n \in N : s[n] = p THEN 1 ELSE map[p] + Cardinality(Shared(r, t, p))
      /\ \A n \in Name : n \in v => n \in w /\ n[1] # t /\ n[1] # c
  BY DEF Forked
<1> USE <1>0
<1>1. map \in [Page -> Nat] /\ r \in [Name -> 0 .. NPages] /\ Counts(map, r) /\ Owned(r, w)
  BY DEF Sound
<1>2. \A n \in N, m \in Name : r[m] # s[n]
  <2> SUFFICES ASSUME NEW n \in N, NEW m \in Name PROVE r[m] # s[n]
    OBVIOUS
  <2>1. PICK p \in Page : p = s[n] /\ map[p] = 0
    OBVIOUS
  <2>2. \A o \in Name : r[o] # p
    BY ONLY <1>1, <2>1, NoUser
  <2> QED BY <2>1, <2>2
<1>3. \A n \in Name : n \notin N => \/ n[1] # c \/ n[3] # "pte"
                                    \/ \E a \in Addr : n = <<c, a, "pte">> /\ s[n] = r[<<t, a, "pte">>]
  <2> SUFFICES ASSUME NEW n \in Name, n[1] = c, n[3] = "pte"
               PROVE  \E a \in Addr : n = <<c, a, "pte">> /\ s[n] = r[<<t, a, "pte">>]
    OBVIOUS
  <2>1. PICK u \in Task, a \in Addr : n = <<u, a, "pte">>
    BY Names
  <2> QED BY <2>1
<1>4. \* a place with a new page is the only one with it
      ASSUME NEW n \in N, NEW m \in Name, s[m] = s[n] PROVE m = n
  <2>1. CASE m \in N
    BY <1>4, <2>1
  <2>2. CASE m \notin N /\ m[1] = c /\ m[3] = "pte"
    <3>1. PICK a \in Addr : s[m] = r[<<t, a, "pte">>]
      BY <1>3, <2>2
    <3> QED BY <1>2, <1>4, <3>1, Names
  <2>3. CASE m \notin N /\ ~(m[1] = c /\ m[3] = "pte")
    <3>1. s[m] = r[m]
      BY <2>3
    <3> QED BY <1>2, <1>4, <3>1
  <2> QED BY <2>1, <2>2, <2>3
<1>5. ASSUME NEW p \in Page PROVE new[p] = Cardinality(Users(s, p))
  <2>1. CASE \E n \in N : s[n] = p
    <3>1. PICK n \in N : s[n] = p
      BY <2>1
    <3>2. Users(s, p) = {n}
      BY <1>4, <3>1 DEF Users
    <3>3. Cardinality({n}) = 1
      BY FS_Singleton
    <3> QED BY <2>1, <3>2, <3>3
  <2>2. CASE ~\E n \in N : s[n] = p
    <3> DEFINE A == Shared(r, t, p)
               K == Copies(c, A)
               U == Users(r, p)
    <3>1. A \in SUBSET Addr
      BY DEF Shared
    <3>2. p # 0
      BY Pages
    <3>3. ASSUME NEW n \in Name PROVE s[n] = p <=> r[n] = p \/ n \in K
      <4>1. CASE n \in N
        <5>1. n \notin K /\ r[n] = 0
          BY <4>1 DEF Copies
        <5> QED BY <2>2, <3>2, <4>1, <5>1
      <4>2. CASE n \notin N /\ n[1] = c /\ n[3] = "pte"
        <5>1. PICK a \in Addr : n = <<c, a, "pte">> /\ s[n] = r[<<t, a, "pte">>]
          BY <1>3, <4>2
        <5>2. n \in K <=> r[<<t, a, "pte">>] = p
          BY <5>1 DEF Copies, Shared
        <5>3. r[n] = 0
          BY <5>1
        <5> QED BY <3>2, <5>1, <5>2, <5>3
      <4>3. CASE n \notin N /\ ~(n[1] = c /\ n[3] = "pte")
        <5>1. s[n] = r[n] /\ n \notin K
          BY <4>3 DEF Copies
        <5> QED BY <5>1
      <4> QED BY <4>1, <4>2, <4>3
    <3>4. U \cap K = {}
      <4> SUFFICES ASSUME NEW n \in Name, r[n] = p, n \in K PROVE FALSE
        BY DEF Users
      <4>1. n[1] = c /\ n[3] = "pte" /\ n \notin N
        BY DEF Copies
      <4>2. PICK a \in Addr : n = <<c, a, "pte">>
        BY <1>3, <4>1
      <4> QED BY <3>2, <4>2
    <3>5. Users(s, p) = U \cup K
      BY <3>3 DEF Users, Copies
    <3>6. new[p] = map[p] + Cardinality(A) /\ map[p] = Cardinality(U)
      BY <1>1, <2>2, CountsAre
    <3> HIDE DEF A, K, U
    <3>7. IsFiniteSet(K) /\ Cardinality(K) = Cardinality(A)
      BY <3>1, CopiesCount DEF K
    <3>8. IsFiniteSet(U)
      BY UsersCounted DEF U
    <3>9. Cardinality(U \cup K) = Cardinality(U) + Cardinality(K)
      BY <3>4, <3>7, <3>8, DisjointUnion
    <3> QED BY <3>5, <3>6, <3>7, <3>9
  <2> QED BY <2>1, <2>2
<1>6. Counts(new, s)
  BY <1>5 DEF Counts, Users
<1>7. Owned(s, v)
  <2> SUFFICES ASSUME NEW n \in Name, NEW m \in Name, s[n] # 0, s[n] = s[m], n # m
               PROVE  n[3] = "pte" /\ m[3] = "pte" /\ n[2] = m[2] /\ n \notin v
    BY DEF Owned
  <2>1. n \notin N /\ m \notin N
    BY <1>4
  <2> DEFINE From(k, x) == \/ x = k /\ ~(k[1] = c /\ k[3] = "pte")
                           \/ k[1] = c /\ k[3] = "pte" /\ x[1] = t /\ x[3] = "pte" /\ x[2] = k[2]
  <2>6. ASSUME NEW k \in Name, k \notin N PROVE \E x \in Name : s[k] = r[x] /\ From(k, x)
    <3>1. CASE k[1] = c /\ k[3] = "pte"
      <4>1. PICK a \in Addr : k = <<c, a, "pte">> /\ s[k] = r[<<t, a, "pte">>]
        BY <1>3, <2>6, <3>1
      <4>2. <<t, a, "pte">> \in Name /\ From(k, <<t, a, "pte">>)
        BY <4>1, Names
      <4> QED BY <4>1, <4>2
    <3>2. CASE ~(k[1] = c /\ k[3] = "pte")
      <4>1. s[k] = r[k] /\ From(k, k)
        BY <2>6, <3>2
      <4> QED BY <4>1
    <3> QED BY <3>1, <3>2
  <2>2. PICK x \in Name : s[n] = r[x] /\ From(n, x)
    BY <2>1, <2>6
  <2>3. PICK y \in Name : s[m] = r[y] /\ From(m, y)
    BY <2>1, <2>6
  <2>4. CASE x = y
    <3>1. n[3] = "pte" /\ m[3] = "pte" /\ n[2] = m[2] /\ (n[1] = t \/ n[1] = c)
      <4>1. CASE x = n
        BY <2>2, <2>3, <2>4, <4>1
      <4>2. CASE y = m
        BY <2>2, <2>3, <2>4, <4>2
      <4>3. CASE x # n /\ y # m
        <5>1. n[1] = c /\ n[3] = "pte" /\ m[1] = c /\ m[3] = "pte" /\ n[2] = m[2]
          BY <2>2, <2>3, <2>4, <4>3
        <5>2. n = m
          BY <5>1, Names
        <5> QED BY <5>2
      <4> QED BY <4>1, <4>2, <4>3
    <3> QED BY <3>1
  <2>5. CASE x # y
    <3>2. r[x] # 0 /\ r[x] = r[y] /\ Owned(r, w)
      BY <1>1, <2>2, <2>3
    <3>1. x[3] = "pte" /\ y[3] = "pte" /\ x[2] = y[2] /\ x \notin w
      BY <2>5, <3>2 DEF Owned
    <3> QED BY <2>2, <2>3, <3>1
  <2> QED BY <2>4, <2>5
<1> QED BY <1>6, <1>7 DEF Sound

\* The page tables of t up to address a.
UpTo(T, a) == {b \in T : b <= a}

\* The n-th page tables are different ones, and no more than there are.
LEMMA Ranks ==
  ASSUME NEW T \in SUBSET Addr
  PROVE  /\ IsFiniteSet(T) /\ Cardinality(T) \in Nat
         /\ \A a \in T : Cardinality(UpTo(T, a)) \in 1 .. Cardinality(T)
         /\ \A a, b \in T : Cardinality(UpTo(T, a)) = Cardinality(UpTo(T, b)) => a = b
<1>1. IsFiniteSet(T) /\ T \subseteq Nat
  <2>1. IsFiniteSet(T)
    BY FiniteNames, FS_Subset
  <2> QED BY <2>1, MemoryAssumption DEF Addr
<1>2. Cardinality(T) \in Nat
  BY <1>1, FS_CardinalityType
<1>3. ASSUME NEW a \in T PROVE IsFiniteSet(UpTo(T, a)) /\ UpTo(T, a) \subseteq T /\ a \in UpTo(T, a) /\ Cardinality(UpTo(T, a)) \in 1 .. Cardinality(T)
  <2>1. UpTo(T, a) \subseteq T /\ a \in UpTo(T, a)
    BY <1>1 DEF UpTo
  <2>2. IsFiniteSet(UpTo(T, a)) /\ Cardinality(UpTo(T, a)) <= Cardinality(T)
    BY <1>1, <2>1, FS_Subset
  <2>3. Cardinality(UpTo(T, a)) \in Nat
    BY <2>2, FS_CardinalityType
  <2>4. Cardinality(UpTo(T, a)) # 0
    BY <2>1, <2>2, FS_EmptySet
  <2> QED BY <1>2, <2>1, <2>2, <2>3, <2>4
<1>4. ASSUME NEW a \in T, NEW b \in T, a < b PROVE Cardinality(UpTo(T, a)) # Cardinality(UpTo(T, b))
  <2>1. UpTo(T, a) \subseteq UpTo(T, b) /\ b \notin UpTo(T, a) /\ b \in UpTo(T, b)
    <3>1. ASSUME NEW x \in T, x <= a PROVE x <= b
      <4>1. x \in Nat /\ a \in Nat /\ b \in Nat
        BY <1>1
      <4> QED BY <1>4, <3>1, <4>1
    <3>2. ~(b <= a) /\ b <= b
      <4>1. a \in Nat /\ b \in Nat
        BY <1>1
      <4> QED BY <1>4, <4>1
    <3> QED BY <3>1, <3>2 DEF UpTo
  <2>2. UpTo(T, a) # UpTo(T, b)
    BY <2>1
  <2> QED BY <1>3, <2>1, <2>2, FS_Subset
<1>5. ASSUME NEW a \in T, NEW b \in T, Cardinality(UpTo(T, a)) = Cardinality(UpTo(T, b)) PROVE a = b
  <2>1. a \in Nat /\ b \in Nat
    BY <1>1
  <2>2. ~(a < b) /\ ~(b < a)
    BY <1>4, <1>5
  <2> QED BY <2>1, <2>2
<1> QED BY <1>1, <1>2, <1>3, <1>5

\* Two calls of get_free_page in a row take different pages.
LEMMA FreeDistinct ==
  ASSUME NEW map, NEW i \in 1 .. Cardinality(Free(map)), NEW j \in 1 .. Cardinality(Free(map)),
         Cardinality(Free(map)) \in Nat
  PROVE  /\ NthFree(map, i) \in Page /\ map[NthFree(map, i)] = 0
         /\ NthFree(map, i) = NthFree(map, j) => i = j
<1>1. i \in Nat \ {0} /\ j \in Nat \ {0} /\ Cardinality(Free(map)) >= i /\ Cardinality(Free(map)) >= j
  OBVIOUS
<1>2. /\ NthFree(map, i) \in Page /\ map[NthFree(map, i)] = 0
      /\ Cardinality({q \in Free(map) : q >= NthFree(map, i)}) = i
  BY <1>1, NthFreeIs
<1>3. Cardinality({q \in Free(map) : q >= NthFree(map, j)}) = j
  BY <1>1, NthFreeIs
<1> QED BY <1>2, <1>3

\* An entry that fork makes read-only.
LEMMA Protected ==
  ASSUME NEW e \in Entry
  PROVE  /\ Protect(e) \in Entry /\ Protect(e).page = e.page /\ Protect(e).rw = FALSE /\ Protect(e).dirty = e.dirty
         /\ e = Absent => Protect(e) = Absent
<1>1. /\ [e EXCEPT !.rw = FALSE] \in Entry /\ [e EXCEPT !.rw = FALSE].page = e.page
      /\ [e EXCEPT !.rw = FALSE].rw = FALSE /\ [e EXCEPT !.rw = FALSE].dirty = e.dirty
  BY Fields
<1>2. ASSUME e = Absent PROVE [e EXCEPT !.rw = FALSE] = e
  <2>1. \A x, y \in Entry : x.page = y.page /\ x.rw = y.rw /\ x.dirty = y.dirty => x = y
    BY DEF Entry
  <2>2. PICK f \in Entry : f = [e EXCEPT !.rw = FALSE] /\ f.page = e.page /\ f.rw = FALSE /\ f.dirty = e.dirty
    BY <1>1
  <2>3. f = e
    BY <1>2, <2>1, <2>2, Consts
  <2> QED BY <2>2, <2>3
<1> QED BY <1>1, <1>2 DEF Protect

\* fork fails when it has written part of the new page tables.
LEMMA ForkFailsKeeps ==
  ASSUME Whole, NEW t \in Task, NEW c \in Task, ForkFails(t, c)
  PROVE  Whole'
<1>1. Types /\ Placed(t) /\ Sound(mem_map, ref, Writable) /\ RefsAre(ref, pte, dir, task, held, pipes)
  BY Now DEF Whole
<1>2. UNCHANGED <<mem_map, content, task, dir, executable, pc, held, at, file, view, pipes, loose, raced>> /\ pc[t] = "user"
  BY DEF ForkFails
<1>3. \A u \in Task : u # t => pte'[u] = pte[u]
  BY <1>1 DEF Types, ForkFails
<1>4. \A a \in Addr : pte'[t][a] \in {pte[t][a], Protect(pte[t][a])}
  BY <1>1 DEF Types, ForkFails
<1>5. \A a \in Addr : /\ pte'[t][a] \in Entry /\ pte'[t][a].page = pte[t][a].page /\ pte'[t][a].dirty = pte[t][a].dirty
                      /\ pte'[t][a].rw => pte[t][a].rw
                      /\ pte[t][a] = Absent => pte'[t][a] = Absent
  <2> SUFFICES ASSUME NEW a \in Addr
               PROVE  /\ pte'[t][a] \in Entry /\ pte'[t][a].page = pte[t][a].page /\ pte'[t][a].dirty = pte[t][a].dirty
                      /\ pte'[t][a].rw => pte[t][a].rw
                      /\ pte[t][a] = Absent => pte'[t][a] = Absent
    OBVIOUS
  <2>1. pte[t][a] \in Entry
    BY <1>1 DEF Types
  <2> QED BY <1>4, <2>1, Protected
<1>6. Types'
  <2>1. \A u \in Task : pte'[u] \in [Addr -> Entry]
    <3>1. pte'[t] = [a \in Addr |-> pte'[t][a]]
      BY <1>1 DEF Types, ForkFails
    <3>2. pte'[t] \in [Addr -> Entry]
      BY <1>5, <3>1
    <3> QED BY <1>1, <1>3, <3>2 DEF Types
  <2>2. pte' = [u \in Task |-> pte'[u]]
    BY <1>1 DEF Types, ForkFails
  <2>3. pte' \in [Task -> [Addr -> Entry]]
    BY <2>1, <2>2
  <2> QED BY <1>1, <1>2, <2>3 DEF Types
<1>7. Sound(mem_map, ref, Writable)'
  <2>1. \A u \in Task, b \in Addr : pte'[u][b].page = pte[u][b].page
    BY <1>3, <1>5
  <2>2. RefsAre(ref, pte', dir, task, held, pipes)
    BY <1>1, <2>1, SamePages
  <2>3. RefsAre(ref, pte', dir', task', held', pipes') /\ Sound(mem_map', ref, Writable)
    BY <1>1, <1>2, <2>2
  <2>4. \A u \in Task, b \in Addr : pte'[u][b].rw => <<u, b, "pte">> \in Writable
    BY <1>3, <1>5, WritableIs
  <2> QED BY <1>6, <2>3, <2>4, After
<1>8. ASSUME NEW u \in Task PROVE Placed(u)' /\ Sees(u)'
  <2>0. Placed(u) /\ Sees(u) /\ (raced => raced') /\ SameContent(u)
    BY <1>2, AllContent DEF Whole
  <2>1. CASE u # t
    <3>1. Frame(u)
      BY <1>2, <1>3, <2>1 DEF Frame
    <3> QED BY <2>0, <3>1, Framed
  <2>2. CASE u = t
    <3>1. Placed(t)'
      BY <1>1, <1>2, <1>5 DEF Placed, Gone, Holding, Busy, InCall
    <3>2. ASSUME NEW b \in Addr PROVE SeesAt(t, b)'
      <4>1. SeesAt(t, b) /\ (pte'[t][b] # Absent => pte[t][b] # Absent)
        BY <1>5, <2>0, <2>2 DEF Sees
      <4> QED BY <1>2, <1>5, <2>0, <4>1, SeesStill
    <3>3. Sees(t)'
      BY <1>2, <3>2 DEF Sees, StoresTo
    <3> QED BY <2>2, <3>1, <3>3
  <2> QED BY <2>1, <2>2
<1> QED BY <1>6, <1>7, <1>8 DEF Whole

\* fork.
LEMMA ForkKeeps ==
  ASSUME Whole, NEW t \in Task, NEW c \in Task, fork(t, c)
  PROVE  Whole'
<1>1. Types /\ Placed(t) /\ Placed(c) /\ Sees(t) /\ Sound(mem_map, ref, Writable) /\ RefsAre(ref, pte, dir, task, held, pipes)
  BY Now DEF Whole
<1> DEFINE T == Tables(t)
           F == Free(mem_map)
           D(a) == NthFree(mem_map, 1 + Cardinality(UpTo(T, a)))
           q == NthFree(mem_map, 1)
<1>2. /\ pc[t] = "user" /\ pc[c] = "none" /\ Cardinality(F) > Cardinality(T)
      /\ task' = [task EXCEPT ![c] = q]
      /\ dir' = [dir EXCEPT ![c] = [a \in Addr |-> IF a \in T THEN D(a) ELSE 0]]
      /\ pte' = [pte EXCEPT ![t] = [a \in Addr |-> Protect(pte[t][a])], ![c] = [a \in Addr |-> Protect(pte[t][a])]]
      /\ executable' = [executable EXCEPT ![c] = executable[t]]
      /\ pc' = [pc EXCEPT ![c] = "user"] /\ view' = [view EXCEPT ![c] = view[t]]
      /\ loose' = loose \cup {<<c, a>> : a \in {b \in Backed : <<t, b>> \in loose}}
      /\ UNCHANGED <<content, held, at, file, pipes, raced>>
  BY DEF fork, Protect, NewTable, UpTo, get_free_page
<1>3. t # c /\ c # t
  BY <1>2
<1>4. T \in SUBSET Addr /\ \A a \in Addr : a \in T <=> dir[t][a] # 0
  BY DEF Tables
<1>5. Cardinality(F) \in Nat
  <2>1. F \in SUBSET Page
    BY DEF Free
  <2>2. IsFiniteSet(F)
    BY <2>1, FiniteNames, FS_Subset
  <2> QED BY <2>2, FS_CardinalityType
<1>6. /\ q \in Page /\ mem_map[q] = 0
      /\ \A a \in T : D(a) \in Page /\ mem_map[D(a)] = 0 /\ D(a) # q
      /\ \A a, b \in T : D(a) = D(b) => a = b
  <2> HIDE DEF T, F
  <2>1. /\ Cardinality(T) \in Nat
        /\ \A a \in T : Cardinality(UpTo(T, a)) \in 1 .. Cardinality(T)
        /\ \A a, b \in T : Cardinality(UpTo(T, a)) = Cardinality(UpTo(T, b)) => a = b
    BY <1>4, Ranks
  <2>2. 1 \in 1 .. Cardinality(F) /\ \A k \in 1 .. Cardinality(T) : 1 + k \in 1 .. Cardinality(F) /\ 1 + k # 1
    BY <1>2, <1>5, <2>1
  <2>3. \A i, j \in 1 .. Cardinality(F) : /\ NthFree(mem_map, i) \in Page /\ mem_map[NthFree(mem_map, i)] = 0
                                          /\ NthFree(mem_map, i) = NthFree(mem_map, j) => i = j
    BY <1>5, FreeDistinct DEF F
  <2>4. q \in Page /\ mem_map[q] = 0
    BY <2>2, <2>3
  <2>5. ASSUME NEW a \in T PROVE D(a) \in Page /\ mem_map[D(a)] = 0 /\ D(a) # q
    <3>1. PICK k \in 1 .. Cardinality(T) : k = Cardinality(UpTo(T, a))
      BY <2>1
    <3>2. 1 + k \in 1 .. Cardinality(F) /\ 1 + k # 1 /\ 1 \in 1 .. Cardinality(F)
      BY <2>2
    <3>3. NthFree(mem_map, 1 + k) \in Page /\ mem_map[NthFree(mem_map, 1 + k)] = 0 /\ NthFree(mem_map, 1 + k) # NthFree(mem_map, 1)
      BY <2>3, <3>2
    <3> QED BY <3>1, <3>3
  <2>6. ASSUME NEW a \in T, NEW b \in T, D(a) = D(b) PROVE a = b
    <3>1. PICK k \in 1 .. Cardinality(T) : k = Cardinality(UpTo(T, a))
      BY <2>1
    <3>2. PICK l \in 1 .. Cardinality(T) : l = Cardinality(UpTo(T, b))
      BY <2>1
    <3>3. 1 + k \in 1 .. Cardinality(F) /\ 1 + l \in 1 .. Cardinality(F)
      BY <2>2
    <3>4. NthFree(mem_map, 1 + k) = NthFree(mem_map, 1 + l)
      BY <2>6, <3>1, <3>2
    <3>5. 1 + k = 1 + l
      BY <2>3, <3>3, <3>4
    <3>6. k = l
      BY <2>1, <3>5
    <3> QED BY <2>1, <3>1, <3>2, <3>6
  <2> QED BY <2>4, <2>5, <2>6
<1> HIDE DEF D, q, F, T
<1>7. \A a \in Addr : /\ pte[t][a] \in Entry /\ Protect(pte[t][a]) \in Entry
                      /\ Protect(pte[t][a]).page = pte[t][a].page /\ Protect(pte[t][a]).rw = FALSE
                      /\ Protect(pte[t][a]).dirty = pte[t][a].dirty
                      /\ pte[t][a] = Absent => Protect(pte[t][a]) = Absent
  <2>1. \A a \in Addr : pte[t][a] \in Entry
    BY <1>1 DEF Types
  <2> QED BY <2>1, Protected
<1>8. /\ pte' \in [Task -> [Addr -> Entry]]
      /\ \A a \in Addr : pte'[t][a] = Protect(pte[t][a]) /\ pte'[c][a] = Protect(pte[t][a])
      /\ \A u \in Task : u # t /\ u # c => pte'[u] = pte[u]
  BY <1>1, <1>2, <1>3, <1>7 DEF Types
<1>9. /\ dir' \in [Task -> [Addr -> 0 .. NPages]] /\ task' \in [Task -> 0 .. NPages]
      /\ \A a \in Addr : dir'[c][a] = IF a \in T THEN D(a) ELSE 0
      /\ \A u \in Task : u # c => dir'[u] = dir[u] /\ task'[u] = task[u]
      /\ task'[c] = q
  BY <1>1, <1>2, <1>6, Pages DEF Types
<1>10. mem_map' \in [Page -> Nat] /\ \A p \in Page :
         mem_map'[p] = IF p = q \/ \E a \in T : p = D(a) THEN 1 ELSE mem_map[p] + Entries(t, p)
  <2>1. mem_map' = [p \in Page |-> IF p = task'[c] \/ \E a \in Addr : p = dir'[c][a] THEN 1 ELSE mem_map[p] + Entries(t, p)]
    BY DEF fork
  <2>2. \A p \in Page : (\E a \in Addr : p = dir'[c][a]) <=> \E a \in T : p = D(a)
    BY <1>4, <1>9, Pages
  <2>3. \A p \in Page : Entries(t, p) \in Nat /\ mem_map[p] \in Nat
    BY <1>1, TabledCount DEF Types
  <2> QED BY <1>9, <2>1, <2>2, <2>3
<1>11. Types'
  <2>1. /\ executable' \in [Task -> File \cup {NULL}] /\ pc' \in [Task -> Place]
        /\ view' \in [Task -> [Addr -> Contents]]
    BY <1>1, <1>2 DEF Types, Place, InCall
  <2>2. loose' \subseteq Task \X Backed
    <3>1. loose \subseteq Task \X Backed
      BY <1>1 DEF Types
    <3>2. \A b \in Backed : <<c, b>> \in Task \X Backed
      OBVIOUS
    <3>3. loose' = loose \cup {<<c, a>> : a \in {b \in Backed : <<t, b>> \in loose}}
      BY <1>2
    <3> QED BY <3>1, <3>2, <3>3
  <2> QED BY <1>1, <1>2, <1>8, <1>9, <1>10, <2>1, <2>2 DEF Types
<1>12. RefsAre(ref', pte', dir', task', held', pipes')
  BY <1>11, RefOfIs, RefState DEF Types
<1>13. held[c] = 0 /\ task[c] = 0 /\ \A a \in Addr : pte[c][a].page = 0 /\ dir[c][a] = 0
  BY <1>1, <1>2, Consts DEF Placed, Gone, Holding
<1> DEFINE N == {n \in Name : n = <<c, 0, "task">> \/ (n[1] = c /\ n[3] = "dir" /\ n[2] \in T)}
           new(n) == IF n[3] = "task" THEN q ELSE D(n[2])
<1>14. Sound(mem_map', ref', Writable')
  <2>1. ASSUME NEW n \in N
        PROVE  n[3] # "pte" /\ ref[n] = 0 /\ ref'[n] = new(n) /\ n \in Name
    <3>1. CASE n = <<c, 0, "task">>
      BY <1>1, <1>9, <1>12, <1>13, <3>1 DEF RefsAre
    <3>2. CASE n[1] = c /\ n[3] = "dir" /\ n[2] \in T
      <4>1. PICK a \in Addr : n = <<c, a, "dir">> /\ a \in T
        BY <3>2, Names
      <4>2. ref[n] = dir[c][a] /\ ref'[n] = dir'[c][a]
        BY <1>1, <1>12, <4>1 DEF RefsAre
      <4> QED BY <1>9, <1>13, <4>1, <4>2
    <3> QED BY <3>1, <3>2
  <2>2. ASSUME NEW n \in N PROVE ref'[n] \in Page /\ mem_map[ref'[n]] = 0
    <3>1. n = <<c, 0, "task">> \/ (n[3] = "dir" /\ n[2] \in T)
      OBVIOUS
    <3> QED BY <1>6, <2>1, <3>1
  <2>3. ASSUME NEW n \in N, NEW m \in N, ref'[n] = ref'[m] PROVE n = m
    <3>0. new(n) = new(m)
      BY <2>1, <2>3
    <3>1. CASE n = <<c, 0, "task">> /\ m = <<c, 0, "task">>
      BY <3>1
    <3>2. CASE n = <<c, 0, "task">> /\ m[1] = c /\ m[3] = "dir" /\ m[2] \in T
      BY <1>6, <3>0, <3>2
    <3>3. CASE m = <<c, 0, "task">> /\ n[1] = c /\ n[3] = "dir" /\ n[2] \in T
      BY <1>6, <3>0, <3>3
    <3>4. CASE n[1] = c /\ n[3] = "dir" /\ n[2] \in T /\ m[1] = c /\ m[3] = "dir" /\ m[2] \in T
      <4>1. n[2] = m[2]
        BY <1>6, <3>0, <3>4
      <4>2. PICK a \in Addr : n = <<c, a, "dir">>
        BY <3>4, Names
      <4>3. PICK b \in Addr : m = <<c, b, "dir">>
        BY <3>4, Names
      <4> QED BY <4>1, <4>2, <4>3
    <3> QED BY <3>1, <3>2, <3>3, <3>4
  <2>4. ASSUME NEW a \in Addr PROVE ref'[<<c, a, "pte">>] = ref[<<t, a, "pte">>] /\ ref[<<c, a, "pte">>] = 0
    <3>1. /\ ref'[<<c, a, "pte">>] = pte'[c][a].page /\ ref[<<c, a, "pte">>] = pte[c][a].page
          /\ ref[<<t, a, "pte">>] = pte[t][a].page
      BY <1>1, <1>12 DEF RefsAre
    <3> QED BY <1>7, <1>8, <1>13, <3>1
  <2>5. ASSUME NEW n \in Name, n \notin N, ~(n[1] = c /\ n[3] = "pte") PROVE ref'[n] = ref[n]
    <3>1. ASSUME NEW u \in Task, NEW a \in Addr, n = <<u, a, "pte">> PROVE ref'[n] = ref[n]
      <4>1. u # c /\ ref[n] = pte[u][a].page /\ ref'[n] = pte'[u][a].page
        BY <1>1, <1>12, <2>5, <3>1 DEF RefsAre
      <4>2. CASE u = t
        BY <1>7, <1>8, <4>1, <4>2
      <4>3. CASE u # t
        BY <1>8, <4>1, <4>3
      <4> QED BY <4>2, <4>3
    <3>2. ASSUME NEW u \in Task, NEW a \in Addr, n = <<u, a, "dir">> PROVE ref'[n] = ref[n]
      <4>1. ref[n] = dir[u][a] /\ ref'[n] = dir'[u][a]
        BY <1>1, <1>12, <3>2 DEF RefsAre
      <4>2. CASE u = c
        <5>1. a \notin T
          BY <2>5, <3>2, <4>2
        <5> QED BY <1>9, <1>13, <4>1, <4>2, <5>1
      <4>3. CASE u # c
        BY <1>9, <4>1, <4>3
      <4> QED BY <4>2, <4>3
    <3>3. ASSUME NEW u \in Task, n = <<u, 0, "task">> PROVE ref'[n] = ref[n]
      <4>1. u # c
        BY <2>5, <3>3
      <4> QED BY <1>1, <1>9, <1>12, <3>3, <4>1 DEF RefsAre
    <3>4. ASSUME NEW u \in Task, n = <<u, 0, "held">> PROVE ref'[n] = ref[n]
      BY <1>1, <1>2, <1>12, <3>4 DEF RefsAre
    <3>5. ASSUME NEW p \in Page, n = <<p, 0, "pipe">> PROVE ref'[n] = ref[n]
      BY <1>1, <1>2, <1>12, <3>5 DEF RefsAre
    <3> QED BY <3>1, <3>2, <3>3, <3>4, <3>5, Names
  <2>6. ASSUME NEW p \in Page
        PROVE  mem_map'[p] = IF \E n \in N : ref'[n] = p THEN 1 ELSE mem_map[p] + Cardinality(Shared(ref, t, p))
    <3>1. (\E n \in N : ref'[n] = p) <=> p = q \/ \E a \in T : p = D(a)
      <4>1. ASSUME p = q PROVE \E n \in N : ref'[n] = p
        <5>1. <<c, 0, "task">> \in N
          BY Names
        <5>2. ref'[<<c, 0, "task">>] = q
          BY <1>9, <1>12 DEF RefsAre
        <5> QED BY <4>1, <5>1, <5>2
      <4>2. ASSUME NEW a \in T, p = D(a) PROVE \E n \in N : ref'[n] = p
        <5>1. a \in Addr /\ <<c, a, "dir">> \in N
          BY <1>4, Names
        <5>2. ref'[<<c, a, "dir">>] = D(a)
          BY <1>9, <1>12, <5>1 DEF RefsAre
        <5> QED BY <4>2, <5>1, <5>2
      <4>3. ASSUME NEW n \in N, ref'[n] = p PROVE p = q \/ \E a \in T : p = D(a)
        <5>1. n = <<c, 0, "task">> \/ (n[3] = "dir" /\ n[2] \in T)
          OBVIOUS
        <5> QED BY <2>1, <4>3, <5>1
      <4> QED BY <4>1, <4>2, <4>3
    <3>2. Entries(t, p) = Cardinality(Shared(ref, t, p))
      <4>1. {a \in Addr : pte[t][a].page = p} = Shared(ref, t, p)
        BY <1>1 DEF RefsAre, Shared
      <4> QED BY <4>1 DEF Entries
    <3> QED BY <1>10, <3>1, <3>2
  <2>7. \A n \in Name : n \in Writable' => n \in Writable /\ n[1] # t /\ n[1] # c
    <3> SUFFICES ASSUME NEW n \in Name, n \in Writable' PROVE n \in Writable /\ n[1] # t /\ n[1] # c
      OBVIOUS
    <3>1. n[3] = "pte" /\ pte'[n[1]][n[2]].rw
      BY DEF Writable
    <3>2. PICK u \in Task, a \in Addr : n = <<u, a, "pte">>
      BY <3>1, Names
    <3>3. pte'[u][a].rw
      BY <3>1, <3>2
    <3>4. u # t /\ u # c
      BY <1>7, <1>8, <3>3
    <3>5. pte[u][a].rw
      BY <1>8, <3>3, <3>4
    <3> QED BY <3>2, <3>4, <3>5, WritableIs
  <2>8. N \in SUBSET Name /\ ref' \in [Name -> 0 .. NPages]
    BY <1>12 DEF RefsAre
  <2>9. \A n \in N : n[3] # "pte" /\ ref[n] = 0
    BY <2>1
  <2> HIDE DEF N, new
  <2>10. PICK s, m2, v : s = ref' /\ m2 = mem_map' /\ v = Writable'
    OBVIOUS
  <2>11. /\ s \in [Name -> 0 .. NPages] /\ m2 \in [Page -> Nat]
         /\ \A n \in N : s[n] \in Page /\ mem_map[s[n]] = 0
         /\ \A n, m \in N : s[n] = s[m] => n = m
         /\ \A a \in Addr : s[<<c, a, "pte">>] = ref[<<t, a, "pte">>] /\ ref[<<c, a, "pte">>] = 0
         /\ \A n \in Name : n \notin N /\ ~(n[1] = c /\ n[3] = "pte") => s[n] = ref[n]
         /\ \A n \in Name : n \in v => n \in Writable /\ n[1] # t /\ n[1] # c
    BY <1>10, <2>2, <2>3, <2>4, <2>5, <2>7, <2>8, <2>10
  <2>12. \A p \in Page : m2[p] = IF \E n \in N : s[n] = p THEN 1 ELSE mem_map[p] + Cardinality(Shared(ref, t, p))
    BY <2>6, <2>10
  <2>13. Sound(mem_map, ref, Writable) /\ N \in SUBSET Name /\ t # c
    BY <1>1, <1>3, <2>8
  <2>14. Sound(m2, s, v)
    <3>1. Forked(mem_map, ref, Writable, t, c, N, m2, s, v)
      BY <2>9, <2>11, <2>12 DEF Forked
    <3>2. s \in [Name -> 0 .. NPages] /\ m2 \in [Page -> Nat]
      BY <2>11
    <3> QED BY ONLY <2>13, <3>1, <3>2, t \in Task, c \in Task, SoundFork
  <2> QED BY <2>10, <2>14
<1>15. ASSUME NEW u \in Task PROVE Placed(u)' /\ Sees(u)'
  <2>0. Placed(u) /\ Sees(u) /\ (raced => raced') /\ SameContent(u)
    BY <1>2, AllContent DEF Whole
  <2>1. CASE u # t /\ u # c
    <3>1. Frame(u)
      BY <1>1, <1>2, <1>8, <1>9, <2>1 DEF Frame, Types
    <3> QED BY <2>0, <3>1, Framed
  <2>2. CASE u = t
    <3>1. /\ dir'[t] = dir[t] /\ task'[t] = task[t] /\ pc'[t] = "user" /\ executable'[t] = executable[t] /\ view'[t] = view[t]
          /\ held' = held /\ at' = at /\ content' = content
      BY <1>1, <1>2, <1>3, <1>9 DEF Types
    <3>2. Placed(t)'
      BY <1>1, <1>2, <1>7, <1>8, <3>1 DEF Placed, Gone, Holding, Busy, InCall
    <3>3. ASSUME NEW b \in Addr PROVE SeesAt(t, b)'
      <4>1. SeesAt(t, b) /\ (pte'[t][b] # Absent => pte[t][b] # Absent)
        BY <1>7, <1>8, <2>0, <2>2 DEF Sees
      <4> QED BY <1>2, <1>7, <1>8, <2>0, <3>1, <4>1, SeesStill
    <3>4. Sees(t)'
      BY <3>1, <3>3 DEF Sees, StoresTo
    <3> QED BY <2>2, <3>2, <3>4
  <2>3. CASE u = c
    <3>1. /\ pc'[c] = "user" /\ executable'[c] = executable[t] /\ view'[c] = view[t] /\ task'[c] # 0
          /\ held'[c] = 0 /\ at'[c] = 0 /\ content' = content /\ raced' = raced
      BY <1>1, <1>2, <1>6, <1>9, <1>13, Pages DEF Types, Placed, Busy, InCall
    <3>2. \A b \in Addr : pte'[c][b].page = 0 => pte'[c][b] = Absent
      BY <1>1, <1>7, <1>8 DEF Placed
    <3>3. Placed(c)'
      BY <3>1, <3>2 DEF Placed, Gone, Holding, Busy, InCall
    <3>4. ASSUME NEW b \in Addr PROVE SeesAt(c, b)'
      <4>1. SeesAt(t, b)
        BY <1>1 DEF Sees
      <4>2. /\ pte'[c][b].page = pte[t][b].page /\ pte'[c][b].dirty = pte[t][b].dirty
            /\ pte'[c][b] # Absent => pte[t][b] # Absent
        BY <1>7, <1>8
      <4> QED BY <1>2, <3>1, <4>1, <4>2 DEF SeesAt, Clean
    <3>5. Sees(c)'
      BY <3>1, <3>4 DEF Sees, StoresTo
    <3> QED BY <2>3, <3>3, <3>5
  <2> QED BY <2>1, <2>2, <2>3
<1> QED BY <1>11, <1>14, <1>15 DEF Whole

-----------------------------------------------------------------------------
(* The invariant.                                                          *)

\* Task 1 has its task structure, a page table and a page of its own.
LEMMA InitWhole ==
  ASSUME Init
  PROVE  Whole
<1>0. 1 \in Page /\ 2 \in Page /\ 3 \in Page /\ First \in Task /\ Stack \in Addr
  BY MemoryAssumption, Addresses DEF Page
<1>1. PICK e \in Entry : e = [page |-> 3, rw |-> TRUE, dirty |-> FALSE] /\ e.page = 3 /\ e.rw = TRUE
  BY <1>0, NewEntry
<1>2. \A t \in Task, a \in Addr : pte[t][a] = IF t = First /\ a = Stack THEN e ELSE Absent
  BY <1>1 DEF Init
<1>3. \A t \in Task, a \in Addr : dir[t][a] = IF t = First /\ a = Stack THEN 2 ELSE 0
  BY DEF Init
<1>4. Types
  <2>1. pte \in [Task -> [Addr -> Entry]]
    BY <1>1, Consts DEF Init
  <2>2. dir \in [Task -> [Addr -> 0 .. NPages]] /\ task \in [Task -> 0 .. NPages] /\ held \in [Task -> 0 .. NPages]
    BY <1>0, Pages DEF Init
  <2>3. mem_map \in [Page -> Nat] /\ content \in [Page -> Contents] /\ view \in [Task -> [Addr -> Contents]]
    BY Consts DEF Init
  <2>4. pc \in [Task -> Place] /\ at \in [Task -> 0 .. NAddr]
    BY Addresses DEF Init, Place, InCall
  <2>5. /\ executable \in [Task -> File \cup {NULL}] /\ file \in [Task -> File \cup {NULL}]
        /\ raced \in BOOLEAN /\ pipes \subseteq Page /\ loose \subseteq Task \X Backed
    BY DEF Init
  <2> QED BY <2>1, <2>2, <2>3, <2>4, <2>5 DEF Types
<1>5. Sound(mem_map, ref, Writable)
  <2> DEFINE m0 == [p \in Page |-> 0]
             r0 == [n \in Name |-> 0]
             n1 == <<First, 0, "task">>
             n2 == <<First, Stack, "dir">>
             n3 == <<First, Stack, "pte">>
             m1 == Use(m0, 1)
             m2 == Use(m1, 2)
             m3 == Use(m2, 3)
             r1 == [r0 EXCEPT ![n1] = 1]
             r2 == [r1 EXCEPT ![n2] = 2]
             r3 == [r2 EXCEPT ![n3] = 3]
             w == (({} \cup {n1}) \cup {n2}) \cup {n3}
  <2>1. n1 \in Name /\ n2 \in Name /\ n3 \in Name /\ n1 # n2 /\ n1 # n3 /\ n2 # n3
    BY <1>0, Names
  <2>2. Sound(m0, r0, {})
    <3>1. ASSUME NEW p \in Page PROVE Cardinality(Users(r0, p)) = 0
      <4>1. Users(r0, p) = {}
        BY Pages DEF Users
      <4> QED BY <4>1, FS_EmptySet
    <3>2. Counts(m0, r0)
      BY <3>1 DEF Counts, Users
    <3>3. Owned(r0, {})
      BY DEF Owned
    <3>4. m0 \in [Page -> Nat] /\ r0 \in [Name -> 0 .. NPages]
      BY Pages
    <3> QED BY <3>2, <3>3, <3>4 DEF Sound
  <2>3. m0[1] = 0 /\ m1[2] = 0 /\ m2[3] = 0
    BY <1>0 DEF Use
  <2>4. r0[n1] = 0 /\ r1[n2] = 0 /\ r2[n3] = 0
    BY <2>1
  <2>5. m3 = mem_map
    <3>1. m3 = [[[m0 EXCEPT ![1] = 1] EXCEPT ![2] = 1] EXCEPT ![3] = 1]
      <4>0. m0 \in [Page -> Nat]
        OBVIOUS
      <4> HIDE DEF m0, m1, m2, m3
      <4>1. m1 = [m0 EXCEPT ![1] = m0[1] + 1] /\ m1 \in [Page -> Nat]
        BY <1>0, <4>0, UseIs DEF m1
      <4>2. m2 = [m1 EXCEPT ![2] = m1[2] + 1] /\ m2 \in [Page -> Nat]
        BY <1>0, <4>1, UseIs DEF m2
      <4>3. m3 = [m2 EXCEPT ![3] = m2[3] + 1]
        BY <1>0, <4>2, UseIs DEF m3
      <4>4. m1 = [m0 EXCEPT ![1] = 1]
        BY <2>3, <4>1
      <4>5. m2 = [m1 EXCEPT ![2] = 1]
        BY <2>3, <4>2
      <4>6. m3 = [m2 EXCEPT ![3] = 1]
        BY <2>3, <4>3
      <4> QED BY <4>4, <4>5, <4>6
    <3>2. ASSUME NEW p \in Page PROVE m3[p] = IF p = 1 \/ p = 2 \/ p = 3 THEN 1 ELSE 0
      BY <3>1
    <3>3. \A p \in Page : p \in 1 .. 3 <=> p = 1 \/ p = 2 \/ p = 3
      BY Pages
    <3>4. m3 = [p \in Page |-> m3[p]] /\ mem_map = [p \in Page |-> IF p \in 1 .. 3 THEN 1 ELSE 0]
      BY <3>1 DEF Init
    <3> HIDE DEF m3
    <3> QED BY <3>2, <3>3, <3>4
  <2> HIDE DEF m0, r0, m1, r1, m2, r2
  <2>6. Sound(m1, r1, {} \cup {n1})
    BY <1>0, <2>1, <2>2, <2>3, <2>4, SoundTake DEF m1, r1
  <2>7. Sound(m2, r2, ({} \cup {n1}) \cup {n2})
    BY <1>0, <2>1, <2>3, <2>4, <2>6, SoundTake DEF m2, r2
  <2>8. Sound(m3, r3, w)
    BY <1>0, <2>1, <2>3, <2>4, <2>7, SoundTake
  <2>9. RefsAre(r3, pte, dir, task, held, pipes)
    <3> DEFINE pt == [t \in Task |-> NoEntry]
               dr == [t \in Task |-> NoTable]
               tk == [t \in Task |-> 0]
    <3>1. RefsAre(r0, pt, dr, tk, held, pipes)
      BY Consts, Names, Pages DEF RefsAre, r0, Init
    <3>2. RefsAre(r1, pt, dr, task, held, pipes)
      <4>1. \A u \in Task : task[u] = IF u = First THEN 1 ELSE tk[u]
        BY DEF Init
      <4>2. 1 \in 0 .. NPages
        BY <1>0, Pages
      <4> HIDE DEF pt, dr, tk
      <4> QED BY <1>0, <3>1, <4>1, <4>2, SetTask DEF r1
    <3>3. RefsAre(r2, pt, dir, task, held, pipes)
      <4>1. \A u \in Task, b \in Addr : dir[u][b] = IF u = First /\ b = Stack THEN 2 ELSE dr[u][b]
        BY <1>3, Consts
      <4>2. 2 \in 0 .. NPages
        BY <1>0, Pages
      <4> HIDE DEF pt, dr
      <4> QED BY <1>0, <3>2, <4>1, <4>2, SetTable DEF r2
    <3>4. \A u \in Task, b \in Addr : pte[u][b].page = IF u = First /\ b = Stack THEN 3 ELSE pt[u][b].page
      BY <1>1, <1>2, Consts
    <3>5. 3 \in 0 .. NPages
      BY <1>0, Pages
    <3> HIDE DEF pt
    <3> QED BY <1>0, <3>3, <3>4, <3>5, SetEntry
  <2>10. r3 = ref
    BY <1>4, <2>9, RefOfIs, RefState DEF Types
  <2>11. \A n \in Name : n \in Writable => n \in w
    <3> SUFFICES ASSUME NEW n \in Name, n \in Writable PROVE n = n3
      OBVIOUS
    <3>1. n[3] = "pte" /\ pte[n[1]][n[2]].rw
      BY DEF Writable
    <3>2. PICK u \in Task, a \in Addr : n = <<u, a, "pte">>
      BY <3>1, Names
    <3>3. u = First /\ a = Stack
      BY <1>2, <3>1, <3>2, Consts
    <3> QED BY <3>2, <3>3
  <2> HIDE DEF r3, w
  <2> QED BY <2>5, <2>8, <2>10, <2>11, SoundLess
<1>6. ASSUME NEW t \in Task PROVE Placed(t) /\ Sees(t)
  <2>1. /\ held[t] = 0 /\ at[t] = 0 /\ pc[t] = (IF t = First THEN "user" ELSE "none")
        /\ task[t] = (IF t = First THEN 1 ELSE 0) /\ executable[t] = NULL
    BY DEF Init
  <2>2. t # First => pte[t] = NoEntry /\ dir[t] = NoTable
    BY DEF Init, NoEntry, NoTable
  <2>3. \A a \in Addr : pte[t][a].page = 0 => pte[t][a] = Absent
    BY <1>1, <1>2
  <2>4. Placed(t)
    BY <2>1, <2>2, <2>3 DEF Placed, Gone, Holding, Busy, InCall
  <2>5. ASSUME NEW a \in Addr PROVE SeesAt(t, a)
    <3>1. view[t][a] = Zero /\ \A p \in Page : content[p] = Zero
      BY DEF Init
    <3>2. pte[t][a] # Absent => pte[t][a].page \in Page
      BY <1>0, <1>1, <1>2
    <3> QED BY <2>1, <3>1, <3>2, MemoryAssumption DEF SeesAt
  <2>6. Sees(t)
    BY <2>1, <2>5 DEF Sees, StoresTo
  <2> QED BY <2>4, <2>6
<1> QED BY <1>4, <1>5, <1>6 DEF Whole

\* Every step keeps it.
LEMMA StepWhole ==
  ASSUME Whole, [Next]_vars
  PROVE  Whole'
<1>1. ASSUME NEW t \in Task, Step(t) PROVE Whole'
  <2>1. CASE sys_exit(t)
    BY <2>1, ExitNow DEF sys_exit, Gone, Holding
  <2>2. CASE ExitDone(t)
    BY <2>2, ExitDoneKeeps
  <2>3. CASE release(t)
    BY <2>3, ReleaseKeeps
  <2>4. ASSUME NEW c \in Task, fork(t, c) PROVE Whole'
    BY <2>4, ForkKeeps
  <2>5. ASSUME NEW c \in Task, ForkFails(t, c) PROVE Whole'
    BY <2>5, ForkFailsKeeps
  <2>6. ASSUME NEW a \in Addr, get_empty_page(t, a) PROVE Whole'
    BY <2>6, EmptyKeeps
  <2>7. ASSUME NEW a \in Addr, share_page(t, a) PROVE Whole'
    BY <2>7, ShareKeeps
  <2>8. ASSUME NEW a \in Addr, do_no_page(t, a) PROVE Whole'
    BY <2>8, LoadKeeps
  <2>9. ASSUME NEW a \in Addr, Write(t, a) PROVE Whole'
    BY <2>9, WriteKeeps
  <2>10. ASSUME NEW a \in Addr, do_wp_page(t, a) PROVE Whole'
    BY <2>10, WpKeeps
  <2>11. ASSUME NEW a \in Addr, verify_area(t, a) PROVE Whole'
    BY <2>11, VerifyKeeps
  <2>12. CASE Loaded(t)
    BY <2>12, LoadedKeeps
  <2>13. CASE put_fs(t)
    BY <2>13, PutFsKeeps
  <2>20. CASE CallReturns(t)
    BY <2>20, ReturnsKeeps
  <2>14. ASSUME NEW f \in File, do_execve(t, f) PROVE Whole'
    BY <2>14, ExecveKeeps
  <2>15. CASE ExecError(t)
    BY <2>15, ExecErrorKeeps
  <2>16. CASE ExecSwitch(t)
    BY <2>16, SwitchKeeps
  <2>17. CASE ExecClosed(t)
    BY <2>17, ClosedKeeps
  <2>18. CASE get_pipe_inode(t)
    BY <2>18, GetPipeKeeps
  <2>19. ASSUME NEW p \in Page, IputPipe(t, p) PROVE Whole'
    BY <2>19, IputKeeps
  <2> QED BY <1>1, <2>1, <2>2, <2>3, <2>4, <2>5, <2>6, <2>7, <2>8, <2>9, <2>10, <2>11, <2>12, <2>13,
             <2>14, <2>15, <2>16, <2>17, <2>18, <2>19, <2>20 DEF Step
<1>2. CASE UNCHANGED vars
  <2>1. Types /\ Types'
    BY <1>2 DEF Whole, Types, vars
  <2>2. Sound(mem_map, ref, Writable)'
    BY <1>2, SameSound DEF vars
  <2>3. ASSUME NEW u \in Task PROVE Placed(u)' /\ Sees(u)'
    <3>1. Placed(u) /\ Sees(u) /\ (raced => raced') /\ Frame(u)
      BY <1>2 DEF Whole, Frame, vars
    <3>2. SameContent(u)
      BY <1>2, AllContent DEF vars
    <3> QED BY <3>1, <3>2, Framed
  <2> QED BY <2>1, <2>2, <2>3 DEF Whole
<1> QED BY <1>1, <1>2 DEF Next

\* The inductive invariant of Memory, for all constants: use counts, the
\* ownership of pages, the places tasks are in and what they see.
THEOREM MemoryInvariant == Spec => []Inv
<1>1. Init => Whole
  BY InitWhole
<1>2. Whole /\ [Next]_vars => Whole'
  BY StepWhole
<1>3. Whole => Inv
  BY WholeIsInv
<1> QED BY <1>1, <1>2, <1>3, PTL DEF Spec

-----------------------------------------------------------------------------
(* The properties.                                                         *)

\* References counts the places.
LEMMA ReferencesAre ==
  ASSUME Types, NEW p \in Page
  PROVE  References(p) = Cardinality(Users(ref, p))
<1>1. RefsAre(ref, pte, dir, task, held, pipes)
  BY RefOfIs, RefState DEF Types
<1> DEFINE A == {x \in Task \X Addr : pte[x[1]][x[2]].page = p}
           B == {x \in Task \X Addr : dir[x[1]][x[2]] = p}
           C == {t \in Task : task[t] = p}
           D == {t \in Task : held[t] = p}
           K(k) == {n \in Name : ref[n] = p /\ n[3] = k}
<1>2. IsFiniteSet(A) /\ IsFiniteSet(B) /\ IsFiniteSet(C) /\ IsFiniteSet(D)
  <2>1. A \in SUBSET (Task \X Addr) /\ B \in SUBSET (Task \X Addr) /\ C \in SUBSET Task /\ D \in SUBSET Task
    OBVIOUS
  <2> HIDE DEF A, B, C, D
  <2> QED BY <2>1, FiniteNames, FS_Subset
<1>3. IsFiniteSet(K("pte")) /\ Cardinality(K("pte")) = Cardinality(A)
  <2> DEFINE S == K("pte")
             f == [x \in A |-> <<x[1], x[2], "pte">>]
  <2>1. \A x \in A : <<x[1], x[2], "pte">> \in S
    BY <1>1, Names DEF RefsAre
  <2>2. \A x, y \in A : f[x] = f[y] => x = y
    OBVIOUS
  <2>3. ASSUME NEW n \in S PROVE \E x \in A : f[x] = n
    <3>1. PICK t \in Task, a \in Addr : n = <<t, a, "pte">>
      BY Names
    <3>2. pte[t][a].page = p
      BY <1>1, <3>1 DEF RefsAre
    <3>3. <<t, a>> \in A /\ f[<<t, a>>] = n
      BY <3>1, <3>2
    <3> QED BY <3>3
  <2>4. f \in [A -> S]
    BY <2>1
  <2> HIDE DEF A, S, f
  <2>5. IsFiniteSet(S) /\ Cardinality(S) = Cardinality(A)
    BY <1>2, <2>2, <2>3, <2>4, SameSize
  <2> QED BY <2>5 DEF S
<1>4. IsFiniteSet(K("dir")) /\ Cardinality(K("dir")) = Cardinality(B)
  <2> DEFINE S == K("dir")
             f == [x \in B |-> <<x[1], x[2], "dir">>]
  <2>1. \A x \in B : <<x[1], x[2], "dir">> \in S
    BY <1>1, Names DEF RefsAre
  <2>2. \A x, y \in B : f[x] = f[y] => x = y
    OBVIOUS
  <2>3. ASSUME NEW n \in S PROVE \E x \in B : f[x] = n
    <3>1. PICK t \in Task, a \in Addr : n = <<t, a, "dir">>
      BY Names
    <3>2. dir[t][a] = p
      BY <1>1, <3>1 DEF RefsAre
    <3>3. <<t, a>> \in B /\ f[<<t, a>>] = n
      BY <3>1, <3>2
    <3> QED BY <3>3
  <2>4. f \in [B -> S]
    BY <2>1
  <2> HIDE DEF B, S, f
  <2>5. IsFiniteSet(S) /\ Cardinality(S) = Cardinality(B)
    BY <1>2, <2>2, <2>3, <2>4, SameSize
  <2> QED BY <2>5 DEF S
<1>5. IsFiniteSet(K("task")) /\ Cardinality(K("task")) = Cardinality(C)
  <2> DEFINE S == K("task")
             f == [t \in C |-> <<t, 0, "task">>]
  <2>1. \A t \in C : <<t, 0, "task">> \in S
    BY <1>1, Names DEF RefsAre
  <2>2. \A x, y \in C : f[x] = f[y] => x = y
    OBVIOUS
  <2>3. ASSUME NEW n \in S PROVE \E x \in C : f[x] = n
    <3>1. PICK t \in Task : n = <<t, 0, "task">>
      BY Names
    <3>2. task[t] = p
      BY <1>1, <3>1 DEF RefsAre
    <3> QED BY <3>1, <3>2
  <2>4. f \in [C -> S]
    BY <2>1
  <2> HIDE DEF C, S, f
  <2>5. IsFiniteSet(S) /\ Cardinality(S) = Cardinality(C)
    BY <1>2, <2>2, <2>3, <2>4, SameSize
  <2> QED BY <2>5 DEF S
<1>6. IsFiniteSet(K("held")) /\ Cardinality(K("held")) = Cardinality(D)
  <2> DEFINE S == K("held")
             f == [t \in D |-> <<t, 0, "held">>]
  <2>1. \A t \in D : <<t, 0, "held">> \in S
    BY <1>1, Names DEF RefsAre
  <2>2. \A x, y \in D : f[x] = f[y] => x = y
    OBVIOUS
  <2>3. ASSUME NEW n \in S PROVE \E x \in D : f[x] = n
    <3>1. PICK t \in Task : n = <<t, 0, "held">>
      BY Names
    <3>2. held[t] = p
      BY <1>1, <3>1 DEF RefsAre
    <3> QED BY <3>1, <3>2
  <2>4. f \in [D -> S]
    BY <2>1
  <2> HIDE DEF D, S, f
  <2>5. IsFiniteSet(S) /\ Cardinality(S) = Cardinality(D)
    BY <1>2, <2>2, <2>3, <2>4, SameSize
  <2> QED BY <2>5 DEF S
<1>7. IsFiniteSet(K("pipe")) /\ Cardinality(K("pipe")) = IF p \in pipes THEN 1 ELSE 0
  <2>1. \A q \in Page : ref[<<q, 0, "pipe">>] = IF q \in pipes THEN q ELSE 0
    BY <1>1 DEF RefsAre
  <2>2. p # 0
    BY Pages
  <2>3. CASE p \in pipes
    <3>1. K("pipe") = {<<p, 0, "pipe">>}
      BY <2>1, <2>2, <2>3, Names
    <3> QED BY <2>3, <3>1, FS_Singleton
  <2>4. CASE p \notin pipes
    <3>1. K("pipe") = {}
      BY <2>1, <2>2, <2>4, Names
    <3> QED BY <2>4, <3>1, FS_EmptySet
  <2> QED BY <2>3, <2>4
<1>8. PICK P, Q, R, S, T : P = K("pte") /\ Q = K("dir") /\ R = K("task") /\ S = K("held") /\ T = K("pipe")
  OBVIOUS
<1>9. Users(ref, p) = (((P \cup Q) \cup R) \cup S) \cup T
  BY <1>8, Names DEF Users
<1>10. P \cap Q = {} /\ (P \cup Q) \cap R = {} /\ ((P \cup Q) \cup R) \cap S = {} /\ (((P \cup Q) \cup R) \cup S) \cap T = {}
  BY <1>8
<1>11. References(p) = Cardinality(A) + Cardinality(B) + Cardinality(C) + Cardinality(D) + (IF p \in pipes THEN 1 ELSE 0)
  BY DEF References
<1> HIDE DEF A, B, C, D, K
<1>12. /\ Cardinality(P) = Cardinality(A) /\ Cardinality(Q) = Cardinality(B) /\ Cardinality(R) = Cardinality(C)
       /\ Cardinality(S) = Cardinality(D) /\ Cardinality(T) = IF p \in pipes THEN 1 ELSE 0
       /\ IsFiniteSet(P) /\ IsFiniteSet(Q) /\ IsFiniteSet(R) /\ IsFiniteSet(S) /\ IsFiniteSet(T)
  BY <1>3, <1>4, <1>5, <1>6, <1>7, <1>8
<1>13. /\ IsFiniteSet(P \cup Q) /\ Cardinality(P \cup Q) = Cardinality(P) + Cardinality(Q)
  BY <1>10, <1>12, DisjointUnion
<1>14. IsFiniteSet((P \cup Q) \cup R) /\ Cardinality((P \cup Q) \cup R) = Cardinality(P \cup Q) + Cardinality(R)
  BY <1>10, <1>12, <1>13, DisjointUnion
<1>15. /\ IsFiniteSet(((P \cup Q) \cup R) \cup S)
       /\ Cardinality(((P \cup Q) \cup R) \cup S) = Cardinality((P \cup Q) \cup R) + Cardinality(S)
  BY <1>10, <1>12, <1>14, DisjointUnion
<1>16. Cardinality((((P \cup Q) \cup R) \cup S) \cup T) = Cardinality(((P \cup Q) \cup R) \cup S) + Cardinality(T)
  BY <1>10, <1>12, <1>15, DisjointUnion
<1> QED BY <1>9, <1>11, <1>12, <1>13, <1>14, <1>15, <1>16

\* A byte is enough for a use count.
LEMMA CountFits ==
  ASSUME NEW map, NEW r, NEW w, Sound(map, r, w), NEW p \in Page
  PROVE  map[p] \in 0 .. 255
<1>1. map[p] = Cardinality(Users(r, p)) /\ p # 0 /\ map[p] \in Nat /\ Owned(r, w)
  BY CountsAre, UsersCounted DEF Sound
<1>2. IsFiniteSet(Task) /\ Cardinality(Task) <= 255 /\ Cardinality(Task) \in Nat
  BY MemoryAssumption, FS_CardinalityType
<1>3. CASE \A n, m \in Users(r, p) : n = m
  <2>1. CASE Users(r, p) = {}
    <3>1. map[p] = 0
      BY <1>1, <2>1, FS_EmptySet
    <3> QED BY <3>1
  <2>2. CASE Users(r, p) # {}
    <3>1. PICK n \in Users(r, p) : TRUE
      BY <2>2
    <3>2. Users(r, p) = {n}
      BY <1>3, <3>1
    <3>3. map[p] = 1
      BY <1>1, <3>2, FS_Singleton
    <3> QED BY <3>3
  <2> QED BY <2>1, <2>2
<1>4. CASE \E n, m \in Users(r, p) : n # m
  <2>1. PICK n \in Users(r, p) : \E m \in Users(r, p) : n # m
    BY <1>4
  <2>2. \A k \in Users(r, p) : k \in Name /\ k[3] = "pte" /\ k[2] = n[2]
    BY <1>1, <2>1 DEF Users, Owned
  <2>3. PICK a \in Addr : a = n[2]
    <3>1. n \in Name /\ n[3] = "pte"
      BY <2>1, <2>2
    <3>2. PICK u \in Task, b \in Addr : n = <<u, b, "pte">>
      BY <3>1, Names
    <3> QED BY <3>2
  <2> DEFINE E == {k \in Name : k[3] = "pte" /\ k[2] = a}
             f == [t \in Task |-> <<t, a, "pte">>]
  <2>4. IsFiniteSet(E) /\ Cardinality(E) = Cardinality(Task)
    <3>1. f \in [Task -> E] /\ \A x, y \in Task : f[x] = f[y] => x = y
      BY Names
    <3>2. ASSUME NEW k \in E PROVE \E x \in Task : f[x] = k
      <4>1. PICK u \in Task, b \in Addr : k = <<u, b, "pte">>
        BY Names
      <4> QED BY <4>1
    <3> HIDE DEF E, f
    <3> QED BY <1>2, <3>1, <3>2, SameSize
  <2>5. Users(r, p) \in SUBSET E
    BY <2>2, <2>3
  <2>6. Cardinality(Users(r, p)) <= Cardinality(E)
    <3> HIDE DEF E
    <3> QED BY <2>4, <2>5, FS_Subset
  <2> QED BY <1>1, <1>2, <2>4, <2>6
<1> QED BY <1>3, <1>4

\* Type correctness; in particular a use count never leaves its byte of
\* mem_map, however fork and share_page add to it.
THEOREM MemoryTypes == Spec => []TypeOK
<1>1. Whole => TypeOK
  <2> SUFFICES ASSUME Whole PROVE TypeOK
    OBVIOUS
  <2>1. \A p \in Page : mem_map[p] \in 0 .. 255
    BY CountFits DEF Whole
  <2>2. mem_map \in [Page -> 0 .. 255]
    BY <2>1 DEF Whole, Types
  <2> QED BY <2>2 DEF Whole, Types, TypeOK
<1> QED BY <1>1, MemoryInvariant, WholeIsInv, PTL

\* mem_map counts every reference to a page, on the paths of get_free_page's
\* failures too: no page leaks, and no page in use is free.
THEOREM PagesCounted == Spec => []RefCount
<1>1. Whole => RefCount
  <2> SUFFICES ASSUME Whole, NEW p \in Page PROVE mem_map[p] = References(p)
    BY DEF RefCount
  <2>1. References(p) = Cardinality(Users(ref, p))
    BY ReferencesAre DEF Whole
  <2>2. mem_map[p] = Cardinality(Users(ref, p))
    BY CountsAre DEF Whole, Sound
  <2> QED BY <2>1, <2>2
<1> QED BY <1>1, MemoryInvariant, WholeIsInv, PTL

\* un_wp_page, fork and share_page: no page one task may write is in another
\* page table.
THEOREM WritersAlone == Spec => []WritableUnshared
<1>1. Whole => WritableUnshared
  <2> SUFFICES ASSUME Whole, NEW t \in Task, NEW a \in Addr, pte[t][a].rw
               PROVE  References(pte[t][a].page) = 1
    BY DEF WritableUnshared
  <2> DEFINE n == <<t, a, "pte">>
  <2>1. n \in Name /\ n \in Writable /\ ref[n] = pte[t][a].page
    BY Now, Names, WritableIs DEF RefsAre
  <2>2. pte[t][a].page # 0
    BY Consts DEF Whole, Placed
  <2>3. ref[n] \in Page /\ mem_map[ref[n]] = 1
    BY <2>1, <2>2, SoundCount DEF Whole
  <2>4. PICK p \in Page : p = pte[t][a].page /\ mem_map[p] = 1
    BY <2>1, <2>3
  <2>5. References(p) = Cardinality(Users(ref, p))
    BY ReferencesAre DEF Whole
  <2>6. mem_map[p] = Cardinality(Users(ref, p))
    BY CountsAre DEF Whole, Sound
  <2> QED BY <2>4, <2>5, <2>6
<1> QED BY <1>1, MemoryInvariant, WholeIsInv, PTL

\* Every task finds at an address what was put there, always where the
\* executable has no page, and elsewhere until a page that only looks clean
\* is shared or a system call stores into a shared page.
THEOREM ViewsIntact == Spec => []ViewIntactUnlessRaced
<1>1. Inv => ViewIntactUnlessRaced
  BY DEF Inv
<1> QED BY <1>1, MemoryInvariant, PTL

=============================================================================
