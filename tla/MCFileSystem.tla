---------------------------- MODULE MCFileSystem ----------------------------
(* Instances of FileSystem for TLC.                                        *)
EXTENDS FileSystem, TLC

CONSTANTS a, b, MaxTogether

MCPath == {<<a>>, <<b>>, <<a, a>>, <<a, b>>}

\* States are told apart up to the names of slots and blocks, which nothing
\* depends on: a slot is called by the inode in it (UniqueInode), a block by
\* its place in a file.  An inode in the table hides the one on disk, which
\* is equal or will be overwritten (CleanOnDisk, FreeClean), once it is read.
Number(s) == IF s = NULL THEN -1 ELSE itab[s].num
Place(x) ==
  LET of == {n \in Ino : x \in Zones(n)}
      n == CHOOSE m \in of : TRUE
  IN  IF x = 0 \/ of = {} THEN <<0, 0>>
      ELSE <<n, CHOOSE k \in 1 .. Len(Inode(n).zone) : Inode(n).zone[k] = x>>
View ==
  << [n \in Ino |->
       << [Inode(n) EXCEPT !.zone = [k \in DOMAIN @ |-> ent[@[k]]]],
          {<<itab[s].count, itab[s].dirt, itab[s].lock>> : s \in {t \in Slot : itab[t].num = n}} >>],
     [p \in Proc |->
       << Number(fd[p]),
          [pr[p] EXCEPT !.dir = Number(@), !.ino = Number(@), !.old = Number(@), !.e = Number(@),
             !.w = Number(@), !.blk = Place(@),
             !.puts = [k \in DOMAIN @ |-> Number(@[k])]] >>],
     imap, Cardinality(zmap), Cardinality(lost), panicked, tainted >>

\* Behaviours are followed until they are tainted, and two processes are in
\* the kernel only while there are few inodes and blocks.
Followed ==
  /\ ~tainted
  /\ \/ Cardinality({p \in Proc : pr[p].pc # "user"}) <= 1
     \/ Cardinality(imap) + Cardinality(zmap) + Cardinality({p \in Proc : fd[p] # NULL}) <= MaxTogether

Symmetry == Permutations(Proc)

=============================================================================
