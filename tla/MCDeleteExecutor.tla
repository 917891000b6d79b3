--------------------------- MODULE MCDeleteExecutor ---------------------------
EXTENDS DeleteExecutor, TLC

CONSTANTS r1, r2, r3

\* Three rows in the order their kinds and identifiers sort.
MCRank == r1 :> 1 @@ r2 :> 2 @@ r3 :> 3
================================================================================
