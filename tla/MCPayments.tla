----------------------------- MODULE MCPayments -----------------------------
(***************************************************************************)
(* Small instances of Payments for TLC.  A price of 2 with payments of 1   *)
(* and 2 gives both a dust payment and one that buys a byte.               *)
(***************************************************************************)
EXTENDS Payments, TLC

CONSTANTS i1, u1, t1, t2, c1, c2, w1, w2, k1, k2

OneIntent   == {i1}
OneUser     == {u1}
OneTx       == {t1}
TwoTxs      == {t1, t2}
OneCall     == {c1}
TwoCalls    == {c1, c2}
OneWatcher  == {w1}
TwoWatchers == {w1, w2}
OneTick     == {k1}
TwoTicks    == {k1, k2}
OnePrice    == {2}
TwoAmounts  == {1, 2}

Symmetry == Permutations(TwoTxs) \cup Permutations(TwoCalls)
            \cup Permutations(TwoWatchers) \cup Permutations(TwoTicks)
=============================================================================
