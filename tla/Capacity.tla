------------------------------ MODULE Capacity ------------------------------
(* The arithmetic that decides when a generation is full, and what a map of   *)
(* the store is to that arithmetic: its keys, its buckets and its live growth *)
(* point.                                                                     *)
(*   src/src/detail/capacity_policy.hpp, src/src/detail/insert_transition.hpp *)
(* The map itself is boost::unordered_flat_map: it grows when a key that it   *)
(* does not hold is emplaced at size >= max_load(), and erasing may lower     *)
(* max_load() by one.                                                         *)
EXTENDS Naturals, FiniteSets

\* The bucket counts the map uses, and the one a growth moves to.
BucketStep(k) == 15 * 2 ^ k - 1
NextBucketStep(n) == n * 2 + 1

\* The bucket counts of the capacity tables.
ProductionCapacity == {15728639, 3932159, 122879, 959}
ProductionReference == 7864319
TestingCapacity == {122879, 61439, 30719, 959}
TestingReference == 122879

Configured == ProductionCapacity \cup {ProductionReference}
              \cup TestingCapacity \cup {TestingReference}

\* The most entries a map holds before it grows: floor(7n/8).
MaxSizeWithoutRehash(n) == (n \div 8) * 7 + ((n % 8) * 7) \div 8

\* The most entries a live generation holds before the store rotates it.
MaxEntriesFor(n) == (n * 133) \div 160

\* Mutant of EffectiveInsertLimit: the operating threshold alone, which the
\* growth point of a map that has seen erasures may fall below.
OperatingLimit(n, live) == MaxEntriesFor(n)

\* The lower of that and the live growth point.
EffectiveInsertLimit(n, live) == IF live < MaxEntriesFor(n) THEN live ELSE MaxEntriesFor(n)

\* What the static assertions of the two headers say of the tables.
ASSUME CapacityTables ==
  /\ \A n \in Configured : /\ \E k \in 0 .. 20 : n = BucketStep(k)
                           /\ MaxEntriesFor(n) < MaxSizeWithoutRehash(n)
  /\ NextBucketStep(15728639) = 31457279
  /\ EffectiveInsertLimit(959, 839) = 797

--------------------------------------------------------------------------------
\* A map as construct() leaves it.
FreshMap(buckets) == [keys |-> {}, buckets |-> buckets, load |-> MaxSizeWithoutRehash(buckets)]

SizeOf(m) == Cardinality(m.keys)

\* What can_insert_safely answers from the figures of the open map.
MapFull(m) == m.buckets > 0 /\ SizeOf(m) >= EffectiveInsertLimit(m.buckets, m.load)

\* The larger table a growth builds: another bucket array in the same segment.
GrownMap(m, key) ==
  LET n == NextBucketStep(m.buckets)
  IN [keys |-> m.keys \cup {key}, buckets |-> n, load |-> MaxSizeWithoutRehash(n)]

\* What emplace() may do: find the key, add it, or grow, which the allocator
\* may refuse with the map left as it was.
Emplaced(m, key) ==
  IF key \in m.keys THEN {[map |-> m, threw |-> FALSE]}
  ELSE IF SizeOf(m) < m.load
       THEN {[map |-> [m EXCEPT !.keys = @ \cup {key}], threw |-> FALSE]}
       ELSE {[map |-> GrownMap(m, key), threw |-> FALSE], [map |-> m, threw |-> TRUE]}

\* What erasing a set of keys may leave: each erasure may lower the growth point.
Erased(m, keys) ==
  {[m EXCEPT !.keys = @ \ keys, !.load = @ - drift] :
     drift \in 0 .. IF Cardinality(keys \cap m.keys) < m.load
                    THEN Cardinality(keys \cap m.keys) ELSE m.load}
================================================================================
