---------------------------- MODULE MCPublishing ----------------------------
(***************************************************************************)
(* Small instances of Publishing for TLC: a folder with a file, and the    *)
(* same file uploaded on its own.                                          *)
(***************************************************************************)
EXTENDS Publishing, TLC

CONSTANTS f, a, w1

TwoCids   == {f, a}
OneWorker == {w1}

Row(root, head, cid) == [root |-> root, head |-> head, cid |-> cid]

\* Folder f holds the file a; file a was uploaded alone as well.
FolderAndFile == {Row(f, f, f), Row(f, a, a), Row(a, a, a)}
=============================================================================
