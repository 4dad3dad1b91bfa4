----------------------------- MODULE MCCredits -----------------------------
(***************************************************************************)
(* Small instances of Credits for TLC.                                     *)
(***************************************************************************)
EXTENDS Credits, TLC

CONSTANTS c1, c2, p1, p2

TwoCharges   == {c1, c2}
TwoPurchases == {p1, p2}
One          == {1}
OneTwo       == {1, 2}
OneThree     == {1, 3}

Symmetry == Permutations(TwoCharges) \cup Permutations(TwoPurchases)
=============================================================================
