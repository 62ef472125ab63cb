---------------------------- MODULE MCAlgorithms ----------------------------
(* An instance of Algorithms for TLC.                                       *)
EXTENDS Algorithms

MCKvFields ==
    [key : {<<1>>, <<6, 0>>}, value : {<<>>, <<7>>}, create_revision : {0, 1, 9},
     mod_revision : {1, 17}, version : {0, 1, 5}, lease : {0, 6}]
MCScanFields ==
    [key : {<<1>>, <<6, 0>>}, value : {<<>>, <<7>>}, create_revision : {9},
     mod_revision : {17}, version : {1}, lease : {0}]
=============================================================================
