----------------------------- MODULE MCBlockDev -----------------------------
(***************************************************************************)
(* Instances of BlockDev: a disk of 2 heads and 2 sectors with a partition *)
(* of two blocks that starts in the middle of a track, two diskette drives *)
(* with tracks of one block, and a RAM disk of one block.                  *)
(***************************************************************************)
EXTENDS BlockDev

CONSTANT Workload

H0 == [major |-> HD, minor |-> 1, block |-> 0]
H1 == [major |-> HD, minor |-> 1, block |-> 1]
H2 == [major |-> HD, minor |-> 2, block |-> 0]
HX == [major |-> HD, minor |-> 1, block |-> 2]
A0 == [major |-> FD, minor |-> 0, block |-> 0]
A1 == [major |-> FD, minor |-> 0, block |-> 1]
B0 == [major |-> FD, minor |-> 1, block |-> 0]
BX == [major |-> FD, minor |-> 1, block |-> 2]
R0 == [major |-> RD, minor |-> 1, block |-> 0]
RX == [major |-> RD, minor |-> 1, block |-> 1]

MCBuf == UNION {l.bufs : l \in Workload}
MCLoads == Workload

MCHdStart(minor) == CASE minor = 1 -> 1 [] minor = 2 -> 5 [] OTHER -> 0
MCHdSize(minor) == CASE minor = 1 -> 4 [] minor = 2 -> 2 [] OTHER -> 8

MCFdType == 0 :> [size |-> 4, sect |-> 2, head |-> 1, stretch |-> 1]

MCLoc == {<<HD, 0, n>> : n \in 0 .. 7} \cup {<<FD, d, n>> : d \in 0 .. 1, n \in 0 .. 3}
           \cup {<<RD, 0, n>> : n \in 0 .. 1}

Perms == Permutations(Proc)

Load(bufs, mod, hdfail, fdfail, rw, change) ==
  [bufs |-> bufs, mod |-> mod, hd |-> hdfail, fd |-> fdfail, rw |-> rw, change |-> change]

\* Three blocks for three slots, two of them written; a failure in a request of two; one request
\* that fails to the end; a block that is not on the partition.
LoadsHd == {Load({H0, H1, H2}, {H0, H1}, 0, 0, 0, 0), Load({H0, H1}, {H0, H1}, 1, 0, 0, 0),
            Load({H1}, {H1}, 4, 0, 0, 0), Load({H0, HX}, {H0, HX}, 2, 0, 0, 0)}

\* Two drives and floppy_change; two drives and a request given up; two tracks;
\* a block that is not on the diskette, and the other drivers beside it.
LoadsFd == {Load({A0, B0}, {A0, B0}, 0, 1, 2, 1), Load({A0, B0}, {A0, B0}, 0, 2, 2, 0),
            Load({A0, A1}, {A0, A1}, 0, 1, 3, 0), Load({BX, H1, R0, RX}, {BX, H1, R0, RX}, 0, 0, 2, 0)}

LoadsAll == LoadsHd \cup LoadsFd
=============================================================================
