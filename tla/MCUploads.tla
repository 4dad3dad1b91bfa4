----------------------------- MODULE MCUploads -----------------------------
(***************************************************************************)
(* Small instances of Uploads for TLC.  With two units per chunk, a file   *)
(* of one part is a flushed tail, of two parts a single chunk that is      *)
(* folded into the root, of three parts a chunk and a tail.                *)
(***************************************************************************)
EXTENDS Uploads, TLC

CONSTANTS r1, r2, r3, r4, p1, p2, a, b

ThreeRequests == {r1, r2, r3}
FourRequests  == {r1, r2, r3, r4}
OneProc       == {p1}
TwoProcs      == {p1, p2}
OneDatum      == {a}
TwoData       == {a, b}

Symmetry == Permutations(FourRequests) \cup Permutations(TwoProcs)
=============================================================================
