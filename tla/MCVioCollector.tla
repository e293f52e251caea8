--------------------------- MODULE MCVioCollector ---------------------------
EXTENDS VioCollector, TLC

CONSTANTS o1, o2, o3

Three == {o1, o2, o3}

Sizes == o1 :> 1 @@ o2 :> 2 @@ o3 :> 4
=============================================================================
