------------------------- MODULE MCMultiCacheSystem -------------------------
(* Small instances of MultiCacheSystem for TLC; the cfgs choose the sizes.  *)
EXTENDS MultiCacheSharing

TwoThreads == (0 :> 0) @@ (1 :> 1)
ThreeThreads == (0 :> 0) @@ (1 :> 1) @@ (2 :> 2)
\* two threads share a domain, as a tid_map with more threads than caches does
SharedDomain == (0 :> 0) @@ (1 :> 1) @@ (2 :> 0)
=============================================================================
