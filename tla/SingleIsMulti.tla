---------------------------- MODULE SingleIsMulti ----------------------------
(***************************************************************************)
(* SingleCacheSystem is documented as a faster MultiCacheSystem of one     *)
(* cache (system.h:125-126).  With NumDomains = 1, MultiCacheSystem        *)
(* implements it step by step: same contents of the cache, same states,    *)
(* same statistics.                                                        *)
(***************************************************************************)
EXTENDS MultiCacheSystem

Single == INSTANCE SingleCacheSystem WITH cache <- caches[0]

\* Every access of a one-cache MultiCacheSystem does to its cache and to the
\* statistics what SingleCacheSystem::memAccess does: the remote lookup, the
\* MOESI table and the page homes have no effect there.
ImplementsSingle == Single!Spec
=============================================================================
