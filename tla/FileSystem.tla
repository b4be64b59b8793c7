----------------------------- MODULE FileSystem -----------------------------
(***************************************************************************)
(* Inodes in memory and on disk, the bitmaps, directories and links:       *)
(* fs/inode.c, bitmap.c, truncate.c and namei.c, with open, close, and     *)
(* read and write as far as they allocate a block or hold its buffer.      *)
(*                                                                         *)
(* The kernel is not preempted, so an action is a piece of a system call   *)
(* between two places where it may sleep: reading a block (the buffer      *)
(* cache is coherent, see BufferCache), waiting for an inode, writing one. *)
(* A block of a directory holds one entry, besides "." and "..", so that   *)
(* directories grow.  There is one device, and all processes are root, so  *)
(* that permission() fails on deleted files only.                          *)
(***************************************************************************)
EXTENDS Integers, FiniteSets, Sequences

CONSTANTS
  Proc,
  Slot,       \* inode_table
  NInodes,    \* s_ninodes
  NBlocks,    \* data zones
  Name, Path, \* names, and the paths the processes use
  Ops,        \* the system calls the processes make
  MaxLinking, \* bound: processes in sys_link at a time
  NULL

ROOT_INO == 1
Ino == 1 .. NInodes
Block == 1 .. NBlocks

ASSUME FileSystemAssumption ==
  /\ MaxLinking \in Nat /\ NInodes \in Nat /\ NBlocks \in Nat /\ NInodes > 0 /\ NBlocks > 0
  /\ Path \subseteq Seq(Name) \ {<<>>}
  /\ Ops \subseteq {"open", "creat", "mkdir", "rmdir", "unlink", "link"}
  /\ NULL \notin Proc \cup Slot \cup Name
  /\ IsFiniteSet(Proc)

VARIABLES
  itab,      \* inode_table; d is the part that is also on disk
  disk,      \* the inodes on disk, or in buffers that will be written
  ent,       \* directory blocks: the entry in it; empty when the block is free
  imap, zmap,
  lost,      \* blocks free_block did not free, since their buffers were in use
  pr,        \* the processes: where they are and their local variables
  fd,        \* the inode of the open file of a process
  panicked,  \* "no", or the panic the system has stopped with
  tainted    \* history: did a process act on what had changed while it slept,
             \* or mkdir free a block that its inode goes on to name?

vars == <<itab, disk, ent, imap, zmap, lost, pr, fd, panicked, tainted>>

NoInode == [kind |-> "none", nlinks |-> 0, zone |-> <<>>, size |-> 0]
Unused == [num |-> 0, count |-> 0, dirt |-> FALSE, lock |-> FALSE, d |-> NoInode]
NoEntry == [name |-> NULL, ino |-> 0]

\* A process outside the kernel.  dir, ino, old and e are references that it
\* has to give back; puts are those it is giving back, after which it goes on
\* at then.  inr is an inode number it has read in a directory and not yet
\* turned into an inode; i goes through the n blocks a directory had when the
\* scan began; blk is the block of an entry it will clear, one it is
\* allocating or freeing, or one whose buffer it copies; goal tells why it takes a slot of inode_table.
User == [pc |-> "user", op |-> "none", path |-> <<>>,
         dir |-> NULL, ino |-> NULL, old |-> NULL, e |-> NULL, w |-> NULL,
         inr |-> 0, i |-> 0, n |-> 0, blk |-> 0, goal |-> "none", puts |-> <<>>, then |-> "user"]

DInode == [kind : {"none", "reg", "dir"}, nlinks : Nat, zone : Seq(Block), size : Nat]
SlotOrNULL == Slot \cup {NULL}

TypeOK ==
  /\ itab \in [Slot -> [num : 0 .. NInodes, count : Nat, dirt : BOOLEAN, lock : BOOLEAN, d : DInode]]
  /\ disk \in [Ino -> DInode]
  /\ ent \in [Block -> [name : Name \cup {NULL}, ino : 0 .. NInodes]]
  /\ imap \subseteq Ino /\ zmap \subseteq Block /\ lost \subseteq Block
  /\ fd \in [Proc -> SlotOrNULL]
  /\ pr \in [Proc ->
       [pc : {"user", "find", "empty", "scan", "read", "write", "iput", "trunc", "otrunc",
              "mkblk", "add", "addblk", "opened", "linked", "mkfail", "edir", "wrblk", "copy"},
        op : Ops \cup {"none"}, path : Seq(Name),
        dir : SlotOrNULL, ino : SlotOrNULL, old : SlotOrNULL, e : SlotOrNULL, w : SlotOrNULL,
        inr : 0 .. NInodes, i : Nat, n : Nat, blk : 0 .. NBlocks,
        goal : {"none", "iget", "add"}, puts : Seq(Slot),
        then : {"user", "empty", "opened", "linked", "mkfail"}]]
  /\ panicked \in {"no", "No free inodes in mem", "free_inode", "free_block"}
  /\ tainted \in BOOLEAN

\* The root directory is mounted and has one block; nothing else exists.
RootDir == [kind |-> "dir", nlinks |-> 2, zone |-> <<1>>, size |-> 0]
Init ==
  /\ \E s \in Slot : itab = [t \in Slot |-> IF t # s THEN Unused ELSE
       [num |-> ROOT_INO, count |-> 1, dirt |-> FALSE, lock |-> FALSE, d |-> RootDir]]
  /\ disk = [n \in Ino |-> IF n = ROOT_INO THEN RootDir ELSE NoInode]
  /\ ent = [b \in Block |-> NoEntry]
  /\ imap = {ROOT_INO} /\ zmap = {1} /\ lost = {}
  /\ pr = [p \in Proc |-> User]
  /\ fd = [p \in Proc |-> NULL]
  /\ panicked = "no" /\ tainted = FALSE

Root == CHOOSE s \in Slot : itab[s].num = ROOT_INO
Others(p) == Proc \ {p}
\* After a panic nobody runs.
At(p, pc) == panicked = "no" /\ pr[p].pc = pc
Opt(s) == IF s = NULL THEN <<>> ELSE <<s>>
Get(tab, s) == [tab EXCEPT ![s].count = @ + 1]

\* iput each of the slots, then leave the kernel.
Leave(slots) == [User EXCEPT !.pc = "iput", !.puts = slots]
\* iput one, then go on at pc.
PutThen(r, s, pc) == [r EXCEPT !.pc = "iput", !.puts = <<s>>, !.then = pc]

\* After n puts: the next inode to put, or where the process goes on.
Put(r, n) ==
  IF n < Len(r.puts) THEN [r EXCEPT !.puts = SubSeq(@, n + 1, Len(@)), !.pc = "iput", !.blk = 0]
  ELSE IF r.then = "user" THEN User
  ELSE [r EXCEPT !.puts = <<>>, !.pc = r.then, !.then = "user"]

\* The end of a step: tab is the inode table and r the process.  An iput of an
\* inode that is not locked and has other users does not sleep, so it is part
\* of the step.
Go(p, tab, r) ==
  LET same(k, s) == Cardinality({j \in 1 .. k : r.puts[j] = s})
      quick(k) == \A j \in 1 .. k : LET s == r.puts[j] IN ~tab[s].lock /\ tab[s].count > same(j, s)
      n == CHOOSE k \in 0 .. Len(r.puts) : quick(k) /\ (k < Len(r.puts) => ~quick(k + 1))
  IN  /\ itab' = [s \in Slot |-> [tab[s] EXCEPT !.count = @ - same(n, s)]]
      /\ pr' = [pr EXCEPT ![p] = IF n = 0 THEN r ELSE Put(r, n)]

\* find_first_zero
FirstZero(all, used) == CHOOSE n \in all \ used : \A m \in all \ used : n <= m
\* The block new_block returns; its bit is set before it sleeps.
NewBlock == FirstZero(Block, zmap)

-----------------------------------------------------------------------------
(* Walking a path.                                                         *)

\* get_dir, one turn: s is the next directory of the walk.
Deleted(tab, s) == tab[s].d.nlinks = 0
Enter(tab, r, s, path) ==
  IF tab[s].d.kind # "dir" \/ Deleted(tab, s)
    THEN Leave(<<s>> \o Opt(r.old))
    ELSE [r EXCEPT !.pc = "find", !.dir = s, !.path = path, !.i = 1, !.n = tab[s].d.size,
                   !.inr = 0, !.goal = "none", !.e = NULL]

\* A system call that takes a path begins.  Which one it is shows at the end
\* of the path: until then they all do the same.
Syscall(p) ==
  /\ At(p, "user")
  /\ \E path \in Path : Go(p, Get(itab, Root), Enter(itab, User, Root, path))
  /\ UNCHANGED <<disk, ent, imap, zmap, fd, panicked, tainted>>

Last(r) == Len(r.path) = 1
\* The system call, at the end of the path; for link it is its second path.
Call(p) ==
  IF ~Last(pr[p]) THEN {"walk"}
  ELSE IF pr[p].op # "none" THEN {pr[p].op}
  ELSE {op \in Ops : /\ op \in {"open", "creat"} => fd[p] = NULL
                     /\ op = "link" => Cardinality({q \in Proc : pr[q].op = "link"}) < MaxLinking}

\* The name was found in block b: iget it, with dir put back (get_dir, namei,
\* open_namei) or kept (unlink, rmdir); or fail, because it is there (mkdir,
\* link, and open_namei with O_EXCL).
Found(p, n, b) ==
  LET r == pr[p] IN
  /\ UNCHANGED tainted
  /\ \E op \in Call(p) :
       LET got == [r EXCEPT !.op = IF op = "walk" THEN @ ELSE op, !.path = Tail(@),
                             !.inr = n, !.goal = "iget", !.i = 0, !.n = 0] IN
       \/ /\ op \in {"walk", "open", "creat"} \/ (op = "link" /\ r.old = NULL)
          /\ Go(p, itab, PutThen([got EXCEPT !.dir = NULL], r.dir, "empty"))
       \/ /\ op \in {"unlink", "rmdir"}
          /\ Go(p, itab, [got EXCEPT !.pc = "empty", !.blk = b])
       \/ /\ op \in {"creat", "mkdir"} \/ (op = "link" /\ r.old # NULL)
          /\ Go(p, itab, Leave(<<r.dir>> \o Opt(r.old)))

\* The name was not found: an error, or the time to make it.  It may have come
\* into a block that was already read, or behind the end.
Missing(p) ==
  LET r == pr[p]
      d == itab[r.dir].d IN
  \E op \in Call(p) :
    LET fails == \/ op \in {"walk", "open", "unlink", "rmdir"}
                 \/ op = "link" /\ r.old = NULL
                 \/ op = "creat" /\ Deleted(itab, r.dir) IN
    \/ /\ fails
       /\ Go(p, itab, Leave(<<r.dir>> \o Opt(r.old)))
       /\ UNCHANGED tainted
    \/ /\ ~fails
       /\ Go(p, itab, [r EXCEPT !.op = op, !.goal = "add", !.n = 0,
                            !.pc = IF op = "link" THEN "add" ELSE "empty",
                            !.i = IF op = "link" THEN 1 ELSE 0])
       /\ tainted' = \/ tainted
                     \/ \E k \in 1 .. d.size :
                          ent[d.zone[k]].ino # 0 /\ ent[d.zone[k]].name = Head(r.path)

\* find_entry: a block of the directory has been read.
find_entry(p) ==
  LET r == pr[p]
      d == itab[r.dir].d
      here == ent[d.zone[r.i]] IN
  /\ At(p, "find")
  /\ \/ r.i > r.n /\ Missing(p)
     \/ /\ r.i <= r.n /\ here.ino # 0 /\ here.name = Head(r.path)
        /\ Found(p, here.ino, d.zone[r.i])
     \/ /\ r.i <= r.n /\ ~(here.ino # 0 /\ here.name = Head(r.path))
        /\ Go(p, itab, [r EXCEPT !.i = @ + 1])
        /\ UNCHANGED tainted
  /\ UNCHANGED <<disk, ent, imap, zmap, fd, panicked>>

-----------------------------------------------------------------------------
(* What the system calls do with the inode they asked for.                 *)

Opened(p, tab, s) ==
  /\ fd' = [fd EXCEPT ![p] = s]
  /\ Go(p, tab, User)
  /\ UNCHANGED <<ent, zmap, tainted>>

\* open_namei on an existing file, with O_TRUNC for creat.
open_namei(p, tab, s) ==
  LET denied == Deleted(tab, s) \/ (pr[p].op = "creat" /\ tab[s].d.kind = "dir")
      trunc == pr[p].op = "creat" /\ tab[s].d.zone # <<>> IN
  \/ /\ denied
     /\ Go(p, tab, Leave(<<s>>))
     /\ UNCHANGED <<ent, zmap, fd, tainted>>
  \/ /\ ~denied /\ ~trunc
     /\ Opened(p, [tab EXCEPT ![s].dirt = @ \/ pr[p].op = "creat"], s)
  \/ /\ ~denied /\ trunc
     /\ Go(p, tab, [User EXCEPT !.pc = "otrunc", !.ino = s, !.blk = Head(tab[s].d.zone)])
     /\ tainted' = (tainted \/ \E q \in Others(p) : pr[q].pc = "otrunc" /\ pr[q].ino = s)
     /\ UNCHANGED <<ent, zmap, fd>>

\* sys_link has its old inode, which namei has marked dirty (i_atime).
sys_link(p, tab, s) ==
  /\ \/ /\ tab[s].d.kind = "dir"
        /\ Go(p, [tab EXCEPT ![s].dirt = TRUE], Leave(<<s>>))
     \/ /\ tab[s].d.kind # "dir"
        /\ \E new \in Path :
             Go(p, Get([tab EXCEPT ![s].dirt = TRUE], Root),
                   Enter(tab, [User EXCEPT !.op = "link", !.old = s], Root, new))
  /\ UNCHANGED <<ent, zmap, fd, tainted>>

\* Another process is about to clear the entry in block b as well.
SameEntry(p, b) == \E q \in Others(p) : pr[q].op \in {"unlink", "rmdir"} /\ pr[q].blk = b

\* Mutant of LinkGone: the link count stays.
LinkStays(d) == d
\* nlinks == 0 is corrected first, with a message: "Deleting nonexistent file".
LinkGone(d) == [d EXCEPT !.nlinks = IF @ = 0 THEN 0 ELSE @ - 1]

sys_unlink(p, tab, s) ==
  LET r == pr[p] IN
  /\ UNCHANGED <<zmap, fd>>
  /\ \/ /\ tab[s].d.kind = "dir"
        /\ Go(p, tab, Leave(<<s, r.dir>>))
        /\ UNCHANGED <<ent, tainted>>
     \/ /\ tab[s].d.kind # "dir"
        /\ ent' = [ent EXCEPT ![r.blk] = NoEntry]
        /\ tainted' = (tainted \/ Deleted(tab, s) \/ SameEntry(p, r.blk))
        /\ Go(p, [tab EXCEPT ![s].d = LinkGone(@), ![s].dirt = TRUE], Leave(<<s, r.dir>>))

\* A directory in use, or dir itself (then it is counted twice), stays.
InUse(tab, s) == tab[s].count > 1

sys_rmdir(p, tab, s) ==
  LET r == pr[p] IN
  /\ \/ /\ InUse(tab, s)
        /\ Go(p, tab, Leave(<<r.dir, s>>))
     \/ /\ ~InUse(tab, s) /\ tab[s].d.kind # "dir"
        /\ Go(p, tab, Leave(<<s, r.dir>>))
     \/ /\ ~InUse(tab, s) /\ tab[s].d.kind = "dir"
        /\ Go(p, tab, [r EXCEPT !.pc = "edir", !.ino = s, !.i = 1, !.n = tab[s].d.size,
                             !.inr = 0, !.goal = "none", !.e = NULL])
  /\ UNCHANGED <<ent, zmap, fd, tainted>>

\* iget has returned s: a directory on the way, or what the call is about.
Got(p, tab, s) ==
  LET r == pr[p] IN
  \/ /\ r.path # <<>>
     /\ Go(p, tab, Enter(tab, r, s, r.path))
     /\ UNCHANGED <<ent, zmap, fd, tainted>>
  \/ /\ r.path = <<>>
     /\ \/ r.op \in {"open", "creat"} /\ open_namei(p, tab, s)
        \/ r.op = "link" /\ sys_link(p, tab, s)
        \/ r.op = "unlink" /\ sys_unlink(p, tab, s)
        \/ r.op = "rmdir" /\ sys_rmdir(p, tab, s)

-----------------------------------------------------------------------------
(* Inodes: iget, new_inode, iput.                                          *)

\* Mutant of Hits: a locked inode is passed over.
HitsUnlocked(tab, nr) == {s \in Slot : tab[s].num = nr /\ ~tab[s].lock}
Hits(tab, nr) == {s \in Slot : tab[s].num = nr}

\* iget, with the empty slot e in hand: look through the table, and wait for
\* the inode if it is locked.
iget(p, tab, e) ==
  LET r == pr[p]
      hit == Hits(tab, r.inr) IN
  /\ UNCHANGED <<disk, imap, panicked>>
  /\ \/ /\ hit = {}
        /\ Go(p, [tab EXCEPT ![e].num = r.inr, ![e].lock = TRUE], [r EXCEPT !.pc = "read", !.e = e])
        /\ UNCHANGED <<ent, zmap, fd, tainted>>
     \/ /\ r.pc = "empty" /\ \E s \in hit : tab[s].lock
        /\ Go(p, tab, [r EXCEPT !.pc = "scan", !.e = e])
        /\ UNCHANGED <<ent, zmap, fd, tainted>>
     \/ \E s \in hit : /\ ~tab[s].lock
                       /\ Got(p, Get([tab EXCEPT ![e] = Unused], s), s)

\* The rest of iget after the wait: the slot may be another inode by now.
WaitInode(p) == At(p, "scan") /\ iget(p, itab, pr[p].e)

read_inode(p) ==
  LET r == pr[p] IN
  /\ At(p, "read")
  /\ Got(p, [itab EXCEPT ![r.e].lock = FALSE, ![r.e].d = disk[r.inr]], r.e)
  /\ UNCHANGED <<disk, imap, panicked>>

\* new_inode and what mkdir or open_namei do with it before they sleep.
new_inode(p, tab, e) ==
  LET r == pr[p]
      full == imap = Ino
      n == FirstZero(Ino, imap)
      new == [num |-> n, count |-> 1, dirt |-> TRUE, lock |-> FALSE,
              d |-> [NoInode EXCEPT !.nlinks = 1]] IN
  /\ UNCHANGED <<disk, ent, fd, panicked, tainted>>
  /\ \/ /\ full
        /\ Go(p, [tab EXCEPT ![e] = Unused], Leave(<<r.dir>>))
        /\ UNCHANGED <<imap, zmap>>
     \/ /\ ~full /\ r.op # "mkdir"
        /\ imap' = imap \cup {n}
        /\ Go(p, [tab EXCEPT ![e] = [new EXCEPT !.d.kind = "reg"]],
                 [r EXCEPT !.pc = "add", !.ino = e, !.i = 1])
        /\ UNCHANGED zmap
     \/ /\ ~full /\ r.op = "mkdir" /\ zmap # Block
        /\ imap' = imap \cup {n}
        /\ zmap' = zmap \cup {NewBlock}
        /\ Go(p, [tab EXCEPT ![e] = new],
                 [r EXCEPT !.pc = "mkblk", !.ino = e, !.blk = NewBlock])
     \/ /\ ~full /\ r.op = "mkdir" /\ zmap = Block
        /\ imap' = imap \cup {n}
        /\ Go(p, [tab EXCEPT ![e] = [new EXCEPT !.d.nlinks = 0]], Leave(<<r.dir, e>>))
        /\ UNCHANGED zmap

\* get_empty_inode: any slot that is not in use (last_inode goes round).  By
\* FreeClean such a slot is never dirty or locked, so it is not written here.
get_empty_inode(p) ==
  /\ At(p, "empty")
  /\ \/ /\ \A e \in Slot : itab[e].count > 0
        /\ panicked' = "No free inodes in mem"
        /\ UNCHANGED <<itab, disk, ent, imap, zmap, pr, fd, tainted>>
     \/ \E e \in Slot :
          /\ itab[e].count = 0
          /\ LET tab == [itab EXCEPT ![e] = [Unused EXCEPT !.count = 1]] IN
             IF pr[p].goal = "iget" THEN iget(p, tab, e) ELSE new_inode(p, tab, e)

-----------------------------------------------------------------------------
(* New entries.                                                            *)

\* mkdir: new_block has returned, and the block gets its "." and "..".
MkdirBlock(p) ==
  LET r == pr[p] IN
  /\ At(p, "mkblk")
  /\ Go(p, [itab EXCEPT ![r.ino].dirt = TRUE,
              ![r.ino].d = [kind |-> "dir", nlinks |-> 2, zone |-> <<r.blk>>, size |-> 0]],
           [r EXCEPT !.pc = "add", !.blk = 0, !.i = 1])
  /\ UNCHANGED <<disk, ent, imap, zmap, fd, panicked, tainted>>

\* Another process is adding the same name to the same directory.
SameName(p) == \E q \in Others(p) : /\ pr[q].goal = "add" /\ pr[q].dir = pr[p].dir
                                    /\ Head(pr[q].path) = Head(pr[p].path)

\* add_entry has returned an entry in block b; the inode number goes in before
\* anybody else runs.
Added(p, tab, b) ==
  LET r == pr[p]
      new == [name |-> Head(r.path), ino |-> tab[IF r.op = "link" THEN r.old ELSE r.ino].num]
      rest == [User EXCEPT !.ino = r.ino, !.old = r.old] IN
  /\ ent' = [ent EXCEPT ![b] = new]
  /\ tainted' = (tainted \/ SameName(p))
  /\ \/ /\ r.op = "mkdir"
        /\ Go(p, [tab EXCEPT ![r.dir].d.nlinks = @ + 1, ![r.dir].dirt = TRUE],
                 Leave(<<r.dir, r.ino>>))
     \/ /\ r.op # "mkdir"
        /\ Go(p, tab, PutThen(rest, r.dir, IF r.op = "link" THEN "linked" ELSE "opened"))
  /\ UNCHANGED zmap

\* Mutant of NotAdded: an error exit that keeps an inode.
NotAddedKeeps(p) ==
  /\ UNCHANGED <<ent, zmap, tainted>>
  /\ Go(p, itab, Leave(<<pr[p].dir>>))

\* add_entry has returned NULL.
NotAdded(p) ==
  LET r == pr[p] IN
  /\ UNCHANGED <<ent, zmap, tainted>>
  /\ \/ /\ r.op = "link"
        /\ Go(p, itab, Leave(<<r.dir, r.old>>))
     \/ /\ r.op = "mkdir"
        /\ Go(p, itab, PutThen([User EXCEPT !.ino = r.ino], r.dir, "mkfail"))
     \/ /\ r.op \notin {"link", "mkdir"}
        /\ Go(p, [itab EXCEPT ![r.ino].d.nlinks = @ - 1], Leave(<<r.ino, r.dir>>))

\* Mutant of Grow: the inode is not marked dirty.
GrowClean(inode, i) == IF i > inode.d.size THEN [inode EXCEPT !.d.size = i] ELSE inode
\* The directory becomes longer: i_size = (i+1) * sizeof(struct dir_entry).
Grow(inode, i) == IF i > inode.d.size THEN [inode EXCEPT !.d.size = i, !.dirt = TRUE] ELSE inode

\* add_entry: a block has been read, or there is none and one is created.
add_entry(p) ==
  LET r == pr[p]
      d == itab[r.dir].d
      free == r.i > d.size \/ ent[d.zone[r.i]].ino = 0 IN
  /\ At(p, "add")
  /\ UNCHANGED <<disk, imap, fd, panicked>>
  /\ \/ /\ r.i <= Len(d.zone) /\ ~free
        /\ Go(p, itab, [r EXCEPT !.i = @ + 1])
        /\ UNCHANGED <<ent, zmap, tainted>>
     \/ /\ r.i <= Len(d.zone) /\ free
        /\ Added(p, [itab EXCEPT ![r.dir] = Grow(@, r.i)], d.zone[r.i])
     \/ r.i > Len(d.zone) /\ zmap = Block /\ NotAdded(p)
     \/ /\ r.i > Len(d.zone) /\ zmap # Block
        /\ zmap' = zmap \cup {NewBlock}
        /\ Go(p, itab, [r EXCEPT !.pc = "addblk", !.blk = NewBlock])
        /\ UNCHANGED <<ent, tainted>>

\* _bmap: new_block has returned block b; i_zone[i] was zero before it slept.
SetZone(inode, i, b) ==
  [inode EXCEPT !.dirt = TRUE,
                !.d.zone = IF i <= Len(@) THEN [@ EXCEPT ![i] = b] ELSE Append(@, b)]

create_block(p) ==
  LET r == pr[p] IN
  /\ At(p, "addblk")
  /\ tainted' = (tainted \/ r.i <= Len(itab[r.dir].d.zone))
  /\ Go(p, [itab EXCEPT ![r.dir] = SetZone(@, r.i, r.blk)], [r EXCEPT !.pc = "add", !.blk = 0])
  /\ UNCHANGED <<disk, ent, imap, zmap, fd, panicked>>

\* open_namei returns the file it has made, after iput(dir).
OpenNew(p) ==
  /\ At(p, "opened")
  /\ Opened(p, itab, pr[p].ino)
  /\ UNCHANGED <<disk, imap, panicked>>

\* The end of sys_link, after iput(dir).
LinkOld(p) ==
  LET s == pr[p].old IN
  /\ At(p, "linked")
  /\ Go(p, [itab EXCEPT ![s].d.nlinks = @ + 1, ![s].dirt = TRUE], Leave(<<s>>))
  /\ UNCHANGED <<disk, ent, imap, zmap, fd, panicked, tainted>>

\* sys_mkdir gives up, after iput(dir): the block is freed, but i_zone[0] is not cleared.
MkdirFails(p) ==
  LET s == pr[p].ino IN
  /\ At(p, "mkfail")
  /\ zmap' = zmap \ {Head(itab[s].d.zone)}
  /\ tainted' = TRUE
  /\ Go(p, [itab EXCEPT ![s].d.nlinks = 0], Leave(<<s>>))
  /\ UNCHANGED <<disk, ent, imap, fd, panicked>>

\* empty_dir has read a block; after the last one rmdir removes the directory.
\* It is too late if somebody has entered the directory or added to it.
empty_dir(p) ==
  LET r == pr[p]
      d == itab[r.ino].d
      used == r.i <= r.n /\ ent[d.zone[r.i]].ino # 0 IN
  /\ At(p, "edir")
  /\ UNCHANGED <<disk, imap, zmap, fd, panicked>>
  /\ \/ /\ used
        /\ Go(p, itab, Leave(<<r.ino, r.dir>>))
        /\ UNCHANGED <<ent, tainted>>
     \/ /\ ~used /\ r.i < r.n
        /\ Go(p, itab, [r EXCEPT !.i = @ + 1])
        /\ UNCHANGED <<ent, tainted>>
     \/ /\ ~used /\ r.i >= r.n
        /\ ent' = [ent EXCEPT ![r.blk] = NoEntry]
        /\ tainted' = \/ tainted \/ SameEntry(p, r.blk)
                      \/ \E q \in Others(p) : pr[q].dir = r.ino
                      \/ \E j \in 1 .. d.size : ent[d.zone[j]].ino # 0
        /\ Go(p, [itab EXCEPT ![r.ino].d.nlinks = 0, ![r.ino].dirt = TRUE,
                              ![r.dir].d.nlinks = @ - 1, ![r.dir].dirt = TRUE],
                 Leave(<<r.dir, r.ino>>))

-----------------------------------------------------------------------------
(* Giving inodes back.                                                     *)

\* Another process has read the number in a directory and not called iget yet.
Wanted(p, n) == \E q \in Others(p) : pr[q].inr = n

\* free_inode, which ends iput; zones is what truncate has left of zmap.  The
\* inode on disk keeps its old contents in the code: nobody reads them unless
\* he has tainted, so the model forgets them.
free_inode(p, s, zones) ==
  /\ UNCHANGED fd
  /\ IF itab[s].count > 1
       THEN /\ panicked' = "free_inode"
            /\ UNCHANGED <<itab, disk, imap, zmap, pr, tainted>>
       ELSE /\ imap' = imap \ {itab[s].num}
            /\ disk' = [disk EXCEPT ![itab[s].num] = NoInode]
            /\ zmap' = zones
            /\ tainted' = (tainted \/ itab[s].lock \/ Wanted(p, itab[s].num))
            /\ Go(p, [itab EXCEPT ![s] = Unused], Put(pr[p], 1))
            /\ UNCHANGED panicked

\* Mutant of MustWrite: the last iput does not write the inode.
NeverWrite(inode) == FALSE
\* An inode that is to be written first is locked, written, and looked at again.
MustWrite(inode) == inode.dirt

iput(p) ==
  LET r == pr[p]
      s == Head(r.puts)
      inode == itab[s] IN
  /\ At(p, "iput") /\ ~inode.lock
  /\ \/ /\ inode.count > 1 \/ (inode.d.nlinks > 0 /\ ~MustWrite(inode))
        /\ Go(p, [itab EXCEPT ![s].count = @ - 1], Put(r, 1))
        /\ UNCHANGED <<disk, ent, imap, zmap, fd, panicked, tainted>>
     \/ /\ inode.count = 1 /\ inode.d.nlinks = 0 /\ inode.d.zone = <<>>
        /\ free_inode(p, s, zmap)
        /\ UNCHANGED ent
     \/ /\ inode.count = 1 /\ inode.d.nlinks = 0 /\ inode.d.zone # <<>>
        /\ pr' = [pr EXCEPT ![p].pc = "trunc", ![p].blk = Head(inode.d.zone)]
        /\ tainted' = (tainted \/ Wanted(p, inode.num))
        /\ UNCHANGED <<itab, disk, ent, imap, zmap, fd, panicked>>
     \/ /\ inode.count = 1 /\ inode.d.nlinks > 0 /\ MustWrite(inode)
        /\ Go(p, [itab EXCEPT ![s].lock = TRUE], [r EXCEPT !.pc = "write", !.w = s])
        /\ UNCHANGED <<disk, ent, imap, zmap, fd, panicked, tainted>>

\* The buffer of block b, which p is freeing, is counted by somebody else: a
\* process that copies from or to it, has an entry in it, or is freeing it as
\* well; or free_block has left it counted.
BufferInUse(p, b) ==
  \/ b \in lost
  \/ \E q \in Others(p) :
       /\ pr[q].blk = b
       /\ pr[q].pc \in {"copy", "trunc", "otrunc"} \/ pr[q].op \in {"unlink", "rmdir"}

\* free_block returns early: the bit of the block stays set, and so does the
\* count of its buffer.
Unfreed(p) == BufferInUse(p, pr[p].blk)

\* truncate, one block at a time; zones is what free_block leaves of zmap.  In
\* iput the inode is freed after the last; in open_namei a file of this model
\* has only one.
TruncateInPut(p, zones) ==
  LET r == pr[p]
      s == Head(r.puts)
      rest == Tail(itab[s].d.zone) IN
  \/ /\ rest # <<>>
     /\ itab' = [itab EXCEPT ![s].d.zone = rest]
     /\ zmap' = zones
     /\ pr' = [pr EXCEPT ![p].blk = Head(rest)]
     /\ UNCHANGED <<disk, imap, fd, panicked, tainted>>
  \/ rest = <<>> /\ free_inode(p, s, zones)

TruncateInOpen(p, zones) ==
  LET s == pr[p].ino IN
  /\ zmap' = zones
  /\ fd' = [fd EXCEPT ![p] = s]
  /\ Go(p, [itab EXCEPT ![s].d.zone = <<>>, ![s].dirt = TRUE], User)
  /\ UNCHANGED <<disk, imap, panicked, tainted>>

Truncate(p, zones) ==
  \/ pr[p].pc = "trunc" /\ TruncateInPut(p, zones)
  \/ pr[p].pc = "otrunc" /\ TruncateInOpen(p, zones)

\* free_block, after it has waited for the buffer: if nobody else counts it,
\* the bit must still be set.
truncate(p) ==
  /\ At(p, "trunc") \/ At(p, "otrunc")
  /\ \/ /\ Unfreed(p)
        /\ lost' = lost \cup {pr[p].blk}
        /\ Truncate(p, zmap)
        /\ UNCHANGED ent
     \/ /\ ~Unfreed(p) /\ pr[p].blk \in zmap
        /\ ent' = [ent EXCEPT ![pr[p].blk] = NoEntry]
        /\ Truncate(p, zmap \ {pr[p].blk})
        /\ UNCHANGED lost
     \/ /\ ~Unfreed(p) /\ pr[p].blk \notin zmap
        /\ panicked' = "free_block"
        /\ UNCHANGED <<itab, disk, ent, imap, zmap, lost, pr, fd, tainted>>

\* write_inode has its block: the inode goes into it, and is clean.
write_inode(p) ==
  LET r == pr[p] IN
  /\ At(p, "write")
  /\ disk' = [disk EXCEPT ![itab[r.w].num] = itab[r.w].d]
  /\ Go(p, [itab EXCEPT ![r.w].dirt = FALSE, ![r.w].lock = FALSE],
           IF r.puts = <<>> THEN User ELSE [r EXCEPT !.pc = "iput", !.w = NULL])
  /\ UNCHANGED <<ent, imap, zmap, fd, panicked, tainted>>

\* sync_inodes: one of its calls of write_inode.
sync_inodes(p, s) ==
  /\ At(p, "user") /\ itab[s].dirt /\ ~itab[s].lock
  /\ Go(p, [itab EXCEPT ![s].lock = TRUE], [User EXCEPT !.pc = "write", !.w = s])
  /\ UNCHANGED <<disk, ent, imap, zmap, fd, panicked, tainted>>

-----------------------------------------------------------------------------
(* Open files.                                                             *)

sys_close(p) ==
  /\ At(p, "user") /\ fd[p] # NULL
  /\ fd' = [fd EXCEPT ![p] = NULL]
  /\ Go(p, itab, Leave(<<fd[p]>>))
  /\ UNCHANGED <<disk, ent, imap, zmap, panicked, tainted>>

\* bread has counted the buffer of block b; the copy between it and the
\* process may sleep as well.
Copy(p, tab, b) == Go(p, tab, [User EXCEPT !.pc = "copy", !.blk = b])

\* file_read: one turn of its loop.
file_read(p) ==
  /\ At(p, "user") /\ fd[p] # NULL
  /\ \E k \in DOMAIN itab[fd[p]].d.zone : Copy(p, itab, itab[fd[p]].d.zone[k])
  /\ UNCHANGED <<disk, ent, imap, zmap, fd, panicked, tainted>>

\* file_write: one turn of its loop.  create_block gives it the block of the
\* file, or allocates it.
file_write(p) ==
  LET d == itab[fd[p]].d IN
  /\ At(p, "user") /\ fd[p] # NULL /\ d.kind = "reg"
  /\ \/ /\ d.zone = <<>> /\ zmap # Block
        /\ zmap' = zmap \cup {NewBlock}
        /\ Go(p, itab, [User EXCEPT !.pc = "wrblk", !.blk = NewBlock])
     \/ d.zone # <<>> /\ Copy(p, itab, Head(d.zone)) /\ UNCHANGED zmap
  /\ UNCHANGED <<disk, ent, imap, fd, panicked, tainted>>

FileBlock(p) ==
  /\ At(p, "wrblk")
  /\ tainted' = (tainted \/ itab[fd[p]].d.zone # <<>>)
  /\ Copy(p, [itab EXCEPT ![fd[p]] = SetZone(@, 1, pr[p].blk)], pr[p].blk)
  /\ UNCHANGED <<disk, ent, imap, zmap, fd, panicked>>

\* The bytes are copied: brelse.
FileCopied(p) ==
  /\ At(p, "copy")
  /\ Go(p, itab, User)
  /\ UNCHANGED <<disk, ent, imap, zmap, fd, panicked, tainted>>

-----------------------------------------------------------------------------
Step(p) ==
  \/ Syscall(p) \/ find_entry(p) \/ get_empty_inode(p) \/ WaitInode(p) \/ read_inode(p)
  \/ MkdirBlock(p) \/ add_entry(p) \/ create_block(p) \/ OpenNew(p) \/ LinkOld(p) \/ MkdirFails(p)
  \/ empty_dir(p) \/ iput(p)
  \/ write_inode(p) \/ sys_close(p)
  \/ file_read(p) \/ file_write(p) \/ FileBlock(p) \/ FileCopied(p)
  \/ \E s \in Slot : sync_inodes(p, s)

Next == \E p \in Proc : truncate(p) \/ (Step(p) /\ UNCHANGED lost)
Spec == Init /\ [][Next]_vars

-----------------------------------------------------------------------------
(* Properties.                                                             *)

\* i_count is the number of references: every path through a system call,
\* with its error exits, gives back exactly what it has taken.
Refs(s) ==
  LET held(f) == Cardinality({p \in Proc : pr[p][f] = s}) IN
  /\ itab[s].count = held("dir") + held("ino") + held("old") + held("e")
       + Cardinality({p \in Proc : fd[p] = s})
       + Cardinality(UNION {{p} \X {k \in DOMAIN pr[p].puts : pr[p].puts[k] = s} : p \in Proc})
       + (IF itab[s].num = ROOT_INO THEN 1 ELSE 0)
InodeCount == panicked = "no" => \A s \in Slot : Refs(s)

\* An inode is in the table once, although iget sleeps between looking for it
\* and reading it.
UniqueInode ==
  tainted \/ \A s \in Slot : itab[s].num # 0 => \A t \in Slot \ {s} : itab[s].num # itab[t].num

\* A slot nobody uses has nothing left to write: so get_empty_inode, which
\* clears the slot, loses nothing.
FreeClean == tainted \/ \A s \in Slot : itab[s].count = 0 => ~itab[s].dirt /\ ~itab[s].lock

\* A change of an inode is never forgotten: what is not marked dirty is as it
\* is on disk.
CleanOnDisk ==
  tainted \/ panicked # "no" \/ \A s \in Slot :
    itab[s].num # 0 /\ ~itab[s].dirt /\ ~itab[s].lock /\ itab[s].d.nlinks > 0
      => itab[s].d = disk[itab[s].num]

\* What fsck would find, between system calls: every entry names an allocated
\* inode, link counts are right, every block of the bitmap belongs to exactly
\* one inode, or to none because free_block found its buffer in use when
\* open_namei truncated the file (lost), and a directory has a name once.  It
\* holds as long as no process has acted on a lookup, a zone or an emptiness
\* that another one had changed while it slept, in one of the ways tainted
\* records.
Inode(n) ==
  LET in == {s \in Slot : itab[s].num = n /\ itab[s].d # NoInode}
  IN  IF in = {} THEN disk[n] ELSE itab[CHOOSE s \in in : TRUE].d
Zones(n) == {Inode(n).zone[k] : k \in 1 .. Len(Inode(n).zone)}
Entries(n) == IF Inode(n).kind = "dir" THEN {b \in Zones(n) : ent[b].ino # 0} ELSE {}
Open(n) == \E p \in Proc : fd[p] # NULL /\ itab[fd[p]].num = n
Quiet == \A p \in Proc : At(p, "user")

Fsck ==
  LET dirs == {n \in imap : Inode(n).kind = "dir"}
      all == UNION {Entries(n) : n \in dirs}
      names(n) == {b \in all : ent[b].ino = n} IN
  /\ \A b \in all : ent[b].ino \in imap
  /\ \A n \in imap : Inode(n).nlinks = 0 => Open(n) /\ names(n) = {} /\ Entries(n) = {}
  /\ \A n \in imap \ dirs : Inode(n).nlinks = Cardinality(names(n))
  /\ \A n \in dirs : Inode(n).nlinks > 0 =>
       /\ Cardinality(names(n)) = (IF n = ROOT_INO THEN 0 ELSE 1)
       /\ Inode(n).nlinks = 2 + Cardinality({b \in Entries(n) : ent[b].ino \in dirs})
       /\ \A b, c \in Entries(n) : ent[b].name = ent[c].name => b = c
  /\ zmap = lost \cup UNION {Zones(n) : n \in imap}
  /\ lost \cap UNION {Zones(n) : n \in imap} = {}
  /\ \A m, n \in imap : m # n => Zones(m) \cap Zones(n) = {}
FsckClean == Quiet /\ ~tainted => Fsck

\* panic("free_block: bit already cleared"), bitmap.c:70, is never reached by
\* a process that runs alone.
NoDoubleFree == panicked # "free_block"

-----------------------------------------------------------------------------
(* The inductive invariant for InodeCount and FreeClean.                   *)

InodeFields == {"num", "count", "dirt", "lock", "d"}
TableOK(tab) ==
  /\ tab = [s \in Slot |-> tab[s]]
  /\ \A s \in Slot : /\ tab[s] = [f \in InodeFields |-> tab[s][f]]
                     /\ tab[s].count \in Nat /\ tab[s].dirt \in BOOLEAN /\ tab[s].lock \in BOOLEAN

\* On the way through a path: the second one of link, or of which call is not known.
Walking(r) == IF r.old = NULL THEN r.op = "none" ELSE r.op = "link"

\* What a process about to take a slot will do with it: iget what it has read
\* the number of, at the end of a path or on the way, or make a new inode.
Wants(r) ==
  \/ /\ r.goal = "iget" /\ r.inr # 0
     /\ \/ r.path = <<>> /\ r.old = NULL /\ (r.dir # NULL <=> r.op \in {"unlink", "rmdir"})
        \/ r.path \in Seq(Name) \ {<<>>} /\ r.dir = NULL /\ Walking(r)
  \/ r.goal = "add" /\ r.dir # NULL /\ r.old = NULL /\ r.op \in {"creat", "mkdir"}

\* The references a process has at pc: no other field names an inode.
Only(r, F) == \A f \in {"dir", "ino", "old", "e"} : r[f] # NULL <=> f \in F
Keeps(pc, r) ==
  \/ pc \in {"user", "wrblk", "copy"} /\ Only(r, {})
  \/ /\ pc = "find" /\ r.dir # NULL /\ r.ino = NULL /\ r.e = NULL
     /\ Walking(r) /\ r.path \in Seq(Name) \ {<<>>}
  \/ pc = "empty" /\ Wants(r) /\ r.ino = NULL /\ r.e = NULL
  \/ pc \in {"scan", "read"} /\ Wants(r) /\ r.goal = "iget" /\ r.ino = NULL /\ r.e # NULL
  \/ pc = "mkblk" /\ r.op = "mkdir" /\ Only(r, {"dir", "ino"})
  \/ pc = "edir" /\ Only(r, {"dir", "ino"})
  \/ /\ pc \in {"add", "addblk"} /\ r.op \in {"creat", "mkdir", "link"}
     /\ Only(r, {"dir", IF r.op = "link" THEN "old" ELSE "ino"})
  \/ pc \in {"otrunc", "opened", "mkfail"} /\ Only(r, {"ino"})
  \/ pc = "linked" /\ Only(r, {"old"})

ProcFields == DOMAIN User
RecordOK(r) ==
  /\ r = [f \in ProcFields |-> r[f]]
  /\ {r.dir, r.ino, r.old, r.e} \subseteq SlotOrNULL
  /\ r.puts \in Seq(Slot) /\ Len(r.puts) <= 2
  /\ \/ r.pc \in {"iput", "trunc", "write"} /\ r.puts # <<>>
        /\ r.then \in {"user", "empty", "opened", "linked", "mkfail"} /\ Keeps(r.then, r)
     \/ r.puts = <<>> /\ Keeps(IF r.pc = "write" THEN "user" ELSE r.pc, r)

\* A process that will open a file has none: it would forget that one.
Opening(r) == r.op \in {"open", "creat"} \/ r.pc \in {"opened", "otrunc"} \/ r.then = "opened"

\* A slot taken for an inode that is not read yet has no other user.
Fresh(tab, procs) ==
  /\ \A s \in Slot : tab[s].num = 0 => tab[s].count <= 1
  /\ \A p \in Proc : procs[p].pc = "scan" => tab[procs[p].e].num = 0

Inv ==
  /\ TableOK(itab)
  /\ pr = [p \in Proc |-> pr[p]] /\ \A p \in Proc : RecordOK(pr[p])
  /\ fd \in [Proc -> SlotOrNULL] /\ \A p \in Proc : Opening(pr[p]) => fd[p] = NULL
  /\ ROOT_INO \in imap /\ imap \subseteq Ino
  /\ \E s \in Slot : itab[s].num = ROOT_INO
  /\ \A s \in Slot : Refs(s)
  /\ Fresh(itab, pr) /\ tainted \in BOOLEAN /\ FreeClean

=============================================================================
