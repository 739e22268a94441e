------------------------------ MODULE MCJournal ------------------------------
(* Instances of Journal for TLC.                                              *)
EXTENDS Journal

Fleet == {1, 2}
Forward == {3}
=============================================================================
