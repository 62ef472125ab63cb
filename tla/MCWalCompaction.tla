-------------------------- MODULE MCWalCompaction --------------------------
(* Instances of WalCompaction for TLC.                                      *)
EXTENDS WalCompaction

MCKeys == {1, 2}
=============================================================================
