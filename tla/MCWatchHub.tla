----------------------------- MODULE MCWatchHub -----------------------------
(* Instances of WatchHub for TLC: one key where the registry is the point,  *)
(* two where the replay is.                                                 *)
EXTENDS WatchHub

OneKey == {1}
OneBound == {{1}}
TwoKeys == {1, 2}
TwoBounds == {{1}, {1, 2}}
=============================================================================
