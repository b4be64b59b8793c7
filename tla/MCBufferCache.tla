--------------------------- MODULE MCBufferCache ---------------------------
(* BufferCache on two devices, for TLC.                                    *)
EXTENDS BufferCache, TLC

CONSTANTS k1, k2, k3, p, q, r

MCBlock == {k1, k2, k3}
MCDevOf(k) == IF k = k3 THEN "dev2" ELSE "dev1"
MCAhead(k) == CASE k = k1 -> <<k2>> [] k = k2 -> <<k1>> [] OTHER -> <<>>
\* Three processes, so that all buffers may be in use.
MCProc == {p, q, r}
MCCalls(x) ==
  CASE x = p -> {"block_write", "full_write"}
    [] x = q -> {"file_write"}
    [] x = r -> {"read", "sync"}
Symmetry == Permutations({k1, k2})
=============================================================================
