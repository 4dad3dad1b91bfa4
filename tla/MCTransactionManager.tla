------------------------ MODULE MCTransactionManager ------------------------
(***************************************************************************)
(* A small instance of TransactionManager for TLC: a call of two           *)
(* transactions, of which the node prefers the second, and two accounts,   *)
(* which are used in turn until one of them is removed.                    *)
(***************************************************************************)
EXTENDS TransactionManager, TLC

CONSTANTS s1, s2, t1, t2

TwoAccounts == <<s1, s2>>
OneCall     == {{t1, t2}}
Prefer      == (t1 :> 0 @@ t2 :> 1)
=============================================================================
