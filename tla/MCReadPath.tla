----------------------------- MODULE MCReadPath -----------------------------
(* ReadPath for TLC: two readers and an owner over two classes of small maps,  *)
(* with room for one mapping in the cache, the default of file_cache.          *)
EXTENDS ReadPath

CONSTANTS k1, k2

MCKey == {k1, k2}
MCBatches == {<<>>, <<k1, k2, k1>>}
MCOpenings == {(0 :> 1 @@ 1 :> 1)}
================================================================================
