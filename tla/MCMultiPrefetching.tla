------------------------- MODULE MCMultiPrefetching -------------------------
(* Small instances of MultiPrefetching for TLC.                            *)
EXTENDS MultiPrefetching

TwoThreads == (0 :> 0) @@ (1 :> 1)
=============================================================================
