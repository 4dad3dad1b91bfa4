------------------------- MODULE MCAccountDeletion -------------------------
(***************************************************************************)
(* A small instance of AccountDeletion for TLC: two checks that overlap    *)
(* over two requests, which concurrent calls, or a failed first request,   *)
(* can leave.                                                              *)
(***************************************************************************)
EXTENDS AccountDeletion, TLC

CONSTANTS c1, c2, c3, w1, w2

TwoCalls   == {c1, c2}
ThreeCalls == {c1, c2, c3}
OneCheck   == {w1}
TwoChecks  == {w1, w2}
OnlyCredits == {"credits"}
=============================================================================
