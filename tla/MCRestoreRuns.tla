----------------------------- MODULE MCRestoreRuns -----------------------------
(* Instances of RestoreRuns: two uploads of two chunks and one in one piece;
   two worker containers. *)
EXTENDS RestoreRuns

CONSTANTS a, b, c, k1, k2

TwoInChunks == [u \in Uploads |-> IF u = c THEN 0 ELSE 2]
===============================================================================
