---------------------------- MODULE MCS3Objects ----------------------------
(***************************************************************************)
(* A small instance of S3Objects for TLC: two names, so that a deletion    *)
(* can be the last or not; two contents, one of which another user holds   *)
(* too and never trashes; three overlapping requests.                      *)
(***************************************************************************)
EXTENDS S3Objects, TLC

CONSTANTS k1, k2, c1, c2, x1, r1, r2, r3

TwoKeys       == {k1, k2}
TwoContents   == {c1, c2}
OneShared     == {c2}
OneMultipart  == {x1}
ThreeRequests == {r1, r2, r3}

Symmetry == Permutations(TwoKeys) \cup Permutations(ThreeRequests)
=============================================================================
