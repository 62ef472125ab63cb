------------------------- MODULE MCHistoricalRange -------------------------
(* Instances of HistoricalRange for TLC.                                    *)
EXTENDS HistoricalRange

MCKeys == {1, 2}
MCBounds == {{1}, {1, 2}}
=============================================================================
