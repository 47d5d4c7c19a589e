--------------------------- MODULE MCDisplayBinding ---------------------------
(* Instances of DisplayBinding for TLC.                                    *)
EXTENDS DisplayBinding

CONSTANTS c1, c2, c3

TwoConnectors == <<c1, c2>>
ThreeConnectors == <<c1, c2, c3>>
=============================================================================
