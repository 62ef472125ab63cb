----------------------------- MODULE MCKvStore -----------------------------
(* Instances of KvStore for TLC.                                            *)
EXTENDS KvStore

MCKeys == {1, 2}
MCBounds == {{1}, {1, 2}}
=============================================================================
