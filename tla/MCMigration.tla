---------------------------- MODULE MCMigration ----------------------------
(***************************************************************************)
(* A small instance of Migration for TLC: one folder, uploaded twice.  Its *)
(* own blockstore holds its node, and its two files share a chunk, which   *)
(* one of them repeats, within a batch and in a later batch.               *)
(***************************************************************************)
EXTENDS Migration, TLC

CONSTANTS u1, u2, folder, h1, h2, a, f

BothUploads == {u1, u2}
OneObject   == {folder}
BothCids    == {a, f}
TwoHandlers == {h1, h2}

SameFolder == (u1 :> folder @@ u2 :> folder)

Trees == (folder :> <<<<f>>, <<a, a, a>>, <<a>>>>)
=============================================================================
