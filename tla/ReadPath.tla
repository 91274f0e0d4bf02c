------------------------------ MODULE ReadPath ------------------------------
(* find() and resolve() called by several threads at once, over the file cache *)
(* they share, and the owner's insertions, deletions and compactions between   *)
(* those calls.                                                                *)
(*   full_resolve and reference_resolve, full_find and reference_find_typed,   *)
(*   insert_in_index and reference_insert_typed, apply_deletes (the walk),     *)
(*   compact_all: src/src/database_impl.cpp; src/src/detail/file_cache.hpp;    *)
(*   src/src/detail/capacity_policy.hpp; src/src/statistics.cpp                *)
(* One size class is reference mode, several are full mode: the functions of   *)
(* the two modes take the same steps over one class and over five.             *)
(* The owner calls alone, by the contract of include/utxoz/database.hpp:166:   *)
(* concurrent readers, or one writer.                                          *)
EXTENDS Capacity, Integers, SequencesExt, FiniteSetsExt, Functions

CONSTANTS Key, Classes,     \* outpoints; number of size classes
          Reader, Owner,    \* threads
          NoThread,
          Buckets,          \* bucket count of a new generation's map
          MaxCached,        \* max_cached_files_
          Batches,          \* batches of requests a caller may hand over
          Openings,         \* class -> its newest version, of a store that was opened
          MaxVersion, MaxCalls, MaxWrites, MaxFaults    \* bounds

ASSUME ReadPathAssumption ==
  /\ IsFiniteSet(Key) /\ Classes \in Nat \ {0} /\ Buckets \in Nat /\ MaxSizeWithoutRehash(Buckets) > 0
  /\ MaxCached \in Nat \ {0} /\ Batches \subseteq Seq(Key)
  /\ Openings \subseteq [0 .. Classes - 1 -> 0 .. MaxVersion]
  /\ Owner \notin Reader /\ NoThread \notin Reader \cup {Owner}
  /\ MaxVersion \in Nat /\ MaxCalls \in Nat /\ MaxWrites \in Nat /\ MaxFaults \in Nat

VARIABLES
  maps,       \* generation (class, version) -> its map, while the file or a mapping of it exists
  catalog,    \* class -> versions of version_catalog
  cache,      \* mapped generations, the least recently used first
  lock,       \* resolve_mutex_
  call,       \* thread -> its call, with the locals of the walk
  stats,      \* probe_stats_, resolution_stats_ and lookup_stats_
  refusals,   \* rotation_causes: capacity_exception
  latched,    \* integrity_latched_
  calls, writes, faults

store == <<maps, catalog, refusals, latched>>
vars == <<maps, catalog, cache, lock, call, stats, refusals, latched, calls, writes, faults>>

Class == 0 .. Classes - 1
Version == 0 .. MaxVersion
Gen == Class \X Version
Thread == Reader \cup {Owner}

Fault == faults < MaxFaults /\ faults' = faults + 1

--------------------------------------------------------------------------------
(* The store. *)

Current(c) == Max(catalog[c])
ActiveGen(c) == <<c, Current(c)>>
ActiveMap(c) == maps[ActiveGen(c)]
Below(c) == {<<c, v>> : v \in catalog[c] \ {Current(c)}}
Older == UNION {Below(c) : c \in Class}

\* What for_each_entry visits in the older generations, and in all of them.
OlderKeys == UNION {maps[g].keys : g \in Older}
Stored == OlderKeys \cup UNION {ActiveMap(c).keys : c \in Class}

--------------------------------------------------------------------------------
(* The counters. *)

ZeroTally == [opened |-> 0, hits |-> 0, resolved |-> 0, distance |-> 0]
NoTally == [c \in Class |-> ZeroTally]
NoStats == [answered |-> 0, deferred |-> 0,                          \* probe_stats
            files |-> 0, hits |-> 0, resolved |-> 0, distance |-> 0, absent |-> 0,
            lookup |-> NoTally]                                      \* per class

Total(tally, f) == SumFunction([c \in Class |-> tally[c][f]])

\* record_file_opened and record_resolved_batch of a class.
Added(tally, more) == [c \in Class |-> [f \in DOMAIN ZeroTally |-> tally[c][f] + more[c][f]]]

\* What a completed resolution hands to the counters, all of it at once.
Published(s, w) ==
  [s EXCEPT !.files = @ + Total(w.tally, "opened"),
            !.hits = @ + Total(w.tally, "hits"),
            !.resolved = @ + Total(w.tally, "resolved"),
            !.distance = @ + Total(w.tally, "distance"),
            !.absent = @ + Cardinality(w.pending),
            !.lookup = Added(@, w.tally)]

--------------------------------------------------------------------------------
(* A walk over the generations below the active ones: the cached files first,  *)
(* then each class's catalogue. resolve() and apply_deletes() walk alike.      *)

IdleCall == [pc |-> "idle"]

\* working_set_of: the distinct keys of a batch.
WorkingSet(batch) == ToSet(batch)

\* The file whose turn it is: class ascending, version descending.
FirstOf(S) == CHOOSE g \in S : \A h \in S : g[1] < h[1] \/ (g[1] = h[1] /\ g[2] >= h[2])

Walk(batch, pending) ==
  [pc |-> "walk", batch |-> batch, seen |-> ToSet(cache), todo |-> ToSet(cache),
   next |-> 0, pending |-> pending, found |-> {}, failure |-> "none", tally |-> NoTally]

Walking(t) == call[t].pc \in {"walk", "probe"}
Complete(t) == call[t].failure = "none"

\* Nothing is left to look for, or nowhere is left to look.
WalkEnds(t) ==
  /\ call[t].pc = "walk"
  /\ call[t].pending = {} \/ (call[t].todo = {} /\ call[t].next = Classes)

Becomes(t, w) == call' = [call EXCEPT ![t] = w]

\* Mutant of Remaining: one set of searched versions for all classes together.
UnseenVersions(t, c) == {g \in Below(c) : \A h \in call[t].seen : h[2] # g[2]}

\* What is left of a class once the cached files were searched.
Remaining(t, c) == Below(c) \ call[t].seen

\* The versions of the next class are listed.
ListClass(t) ==
  /\ call[t].pc = "walk" /\ call[t].todo = {} /\ call[t].pending # {} /\ call[t].next < Classes
  /\ Becomes(t, [call[t] EXCEPT !.todo = Remaining(t, call[t].next), !.next = @ + 1])
  /\ UNCHANGED <<store, cache, lock, stats, calls, writes, faults>>

\* The catalogue cannot be listed: the class is passed over and the call fails.
ListFails(t) ==
  /\ Fault
  /\ call[t].pc = "walk" /\ call[t].todo = {} /\ call[t].pending # {} /\ call[t].next < Classes
  /\ Becomes(t, [call[t] EXCEPT !.next = @ + 1, !.failure = "catalog_unreadable"])
  /\ UNCHANGED <<store, cache, lock, stats, calls, writes>>

Probing(t) == call[t].pc = "walk" /\ call[t].todo # {} /\ call[t].pending # {}
InHand(t) == FirstOf(call[t].todo)
Cached(g) == g \in ToSet(cache)
Without(g) == RemoveAt(cache, CHOOSE i \in DOMAIN cache : cache[i] = g)

\* evict_lru, when the cache is at its limit.
Evicted == IF Len(cache) >= MaxCached THEN Tail(cache) ELSE cache

\* The mapping of the file in hand was obtained, and counted for its class.
Opened(tally, c, hit) ==
  [tally EXCEPT ![c].opened = @ + 1, ![c].hits = @ + (IF hit THEN 1 ELSE 0)]
Handed(t, hit) ==
  [call[t] EXCEPT !.pc = "probe", !.tally = Opened(@, InHand(t)[1], hit)]

CacheHit(t) ==
  /\ Probing(t) /\ Cached(InHand(t))
  /\ cache' = Append(Without(InHand(t)), InHand(t))
  /\ Becomes(t, Handed(t, TRUE))
  /\ UNCHANGED <<store, lock, stats, calls, writes, faults>>

\* Mutant of OpenFile: the mutex is given back once the mapping was obtained.
OpenAndUnlock(t) ==
  /\ Probing(t) /\ ~Cached(InHand(t))
  /\ cache' = Append(Evicted, InHand(t))
  /\ lock' = NoThread
  /\ Becomes(t, Handed(t, FALSE))
  /\ UNCHANGED <<store, stats, calls, writes, faults>>

\* A file that is not cached takes the place of the least recently used one.
OpenFile(t) ==
  /\ Probing(t) /\ ~Cached(InHand(t))
  /\ cache' = Append(Evicted, InHand(t))
  /\ Becomes(t, Handed(t, FALSE))
  /\ UNCHANGED <<store, lock, stats, calls, writes, faults>>

\* It does not open, and what was evicted for it is gone all the same: the walk
\* goes on with the other files, and the call fails.
OpenFails(t) ==
  /\ Fault
  /\ Probing(t) /\ ~Cached(InHand(t))
  /\ cache' = Evicted
  /\ Becomes(t, [call[t] EXCEPT !.todo = @ \ {InHand(t)},
                                !.failure = IF @ = "none" THEN "version_unreadable" ELSE @])
  /\ UNCHANGED <<store, lock, stats, calls, writes>>

\* The keys the file in hand answers, as the walk leaves it.
Credited(tally, g, n) ==
  [tally EXCEPT ![g[1]].resolved = @ + n,
                ![g[1]].distance = @ + n * (Current(g[1]) - g[2])]
Answered(t, hits) ==
  [call[t] EXCEPT !.pc = "walk", !.todo = @ \ {InHand(t)},
                  !.found = @ \cup hits, !.pending = @ \ hits,
                  !.tally = Credited(@, InHand(t), Cardinality(hits))]

Hits(t) == call[t].pending \cap maps[InHand(t)].keys

\* resolve() copies the entries out of the mapping.
ReadFile(r) ==
  /\ call[r].pc = "probe"
  /\ Becomes(r, Answered(r, Hits(r)))
  /\ UNCHANGED <<store, cache, lock, stats, calls, writes, faults>>

\* An exception while the answers are copied: none of this file counts.
ReadFails(r) ==
  /\ Fault
  /\ call[r].pc = "probe"
  /\ Becomes(r, [call[r] EXCEPT !.pc = "walk", !.todo = @ \ {InHand(r)},
                                !.failure = IF @ = "none" THEN "version_unreadable" ELSE @])
  /\ UNCHANGED <<store, cache, lock, stats, calls, writes>>

--------------------------------------------------------------------------------
(* The readers. *)

\* A reader calls; the contract keeps the owner out while it does.
Resolve(r, batch) ==
  /\ call[r] = IdleCall /\ call[Owner] = IdleCall /\ ~latched
  /\ calls < MaxCalls /\ calls' = calls + 1
  /\ Becomes(r, [pc |-> "wait", batch |-> batch])
  /\ UNCHANGED <<store, cache, lock, stats, writes, faults>>

\* resolve_mutex_, held to the return.
TakeLock(r) ==
  /\ call[r].pc = "wait" /\ lock = NoThread /\ call[r].batch # <<>>
  /\ lock' = r
  /\ Becomes(r, Walk(call[r].batch, WorkingSet(call[r].batch)))
  /\ UNCHANGED <<store, cache, stats, calls, writes, faults>>

\* An empty batch takes the mutex and returns at once.
NothingAsked(r) ==
  /\ call[r].pc = "wait" /\ lock = NoThread /\ call[r].batch = <<>>
  /\ Becomes(r, IdleCall)
  /\ UNCHANGED <<store, cache, lock, stats, calls, writes, faults>>

\* Mutants of Conclude: the counters are told of every walk, the failed ones
\* too; the error path returns without giving the mutex back.
ConcludeAny(r) ==
  /\ WalkEnds(r)
  /\ stats' = Published(stats, call[r])
  /\ lock' = NoThread
  /\ Becomes(r, IdleCall)
  /\ UNCHANGED <<store, cache, calls, writes, faults>>

ConcludeHolding(r) ==
  /\ WalkEnds(r)
  /\ stats' = IF Complete(r) THEN Published(stats, call[r]) ELSE stats
  /\ lock' = IF Complete(r) THEN NoThread ELSE lock
  /\ Becomes(r, IdleCall)
  /\ UNCHANGED <<store, cache, calls, writes, faults>>

\* The walk is over: an incomplete one is an error and leaves no trace, a
\* complete one publishes what it did and calls the rest absent.
Conclude(r) ==
  /\ WalkEnds(r)
  /\ stats' = IF Complete(r) THEN Published(stats, call[r]) ELSE stats
  /\ lock' = NoThread
  /\ Becomes(r, IdleCall)
  /\ UNCHANGED <<store, cache, calls, writes, faults>>

InActive(key) == \E c \in Class : key \in ActiveMap(c).keys

\* A probe is answered or deferred.
Probed(s, key) == IF InActive(key) THEN [s EXCEPT !.answered = @ + 1]
                  ELSE [s EXCEPT !.deferred = @ + 1]

\* find() looks in the active maps only, without the mutex.
Find(r, key) ==
  /\ call[r] = IdleCall /\ call[Owner] = IdleCall /\ ~latched
  /\ calls < MaxCalls /\ calls' = calls + 1
  /\ stats' = Probed(stats, key)
  /\ UNCHANGED <<store, cache, lock, call, writes, faults>>

--------------------------------------------------------------------------------
(* The owner. *)

OwnerMay ==
  /\ \A t \in Thread : call[t] = IdleCall
  /\ ~latched
  /\ writes < MaxWrites /\ writes' = writes + 1

NextVersion(c) == Current(c) + 1

\* The guard: the active map is full, or its segment is low on memory.
CanInsertSafely(c, low) == ~MapFull(ActiveMap(c)) /\ ~low

\* The generation an insertion goes to: the active one, or a new one when the
\* guard refuses. The key is looked for before rotating, never after.
Destination(c, key, low) ==
  IF CanInsertSafely(c, low) \/ key \in ActiveMap(c).keys
  THEN Current(c) ELSE NextVersion(c)

MapAt(c, v) == IF v \in catalog[c] THEN maps[<<c, v>>] ELSE FreshMap(Buckets)

\* The generation a refused allocation rotates to, with the entry that is retried.
RetriedIn(key) == [FreshMap(Buckets) EXCEPT !.keys = {key}]

\* insert_in_index and reference_insert_typed: a rotation if the guard asks for
\* one, an attempt, and a rotation and a second attempt if the allocator refused.
Insert(c, key, low) ==
  /\ OwnerMay
  /\ key \notin Stored \ ActiveMap(c).keys        \* one entry per outpoint
  /\ LET v == Destination(c, key, low)
     IN \E o \in Emplaced(MapAt(c, v), key) :
          LET last == IF o.threw THEN v + 1 ELSE v
          IN /\ last <= MaxVersion
             /\ maps' = [g \in DOMAIN maps \cup {<<c, v>>, <<c, last>>} |->
                           IF g = <<c, v>> THEN o.map
                           ELSE IF g = <<c, last>> THEN RetriedIn(key) ELSE maps[g]]
             /\ catalog' = [catalog EXCEPT ![c] = @ \cup {v, last}]
             /\ refusals' = IF o.threw THEN refusals + 1 ELSE refusals
  /\ UNCHANGED <<cache, lock, call, stats, latched, calls, faults>>

\* The new generation cannot be created: the instance serves no more.
RotationFails(c, key, low) ==
  /\ OwnerMay /\ Fault
  /\ key \notin Stored /\ Destination(c, key, low) # Current(c)
  /\ latched' = TRUE
  /\ UNCHANGED <<maps, catalog, cache, lock, call, stats, refusals, calls>>

\* What erasing a batch may leave of the active map of a class.
ErasedInActive(c, batch) == Erased(ActiveMap(c), WorkingSet(batch))

\* apply_deletes: the active maps, then the walk, which the owner makes without
\* the mutex.
ApplyDeletes(batch) ==
  /\ OwnerMay /\ batch # <<>>
  /\ \E left \in [Class -> UNION {ErasedInActive(c, batch) : c \in Class}] :
       /\ \A c \in Class : left[c] \in ErasedInActive(c, batch)
       /\ maps' = [g \in DOMAIN maps |-> IF g = ActiveGen(g[1]) THEN left[g[1]] ELSE maps[g]]
  /\ Becomes(Owner, Walk(batch, {key \in WorkingSet(batch) : ~InActive(key)}))
  /\ UNCHANGED <<catalog, cache, lock, stats, refusals, latched, calls, faults>>

EraseInFile ==
  /\ call[Owner].pc = "probe"
  /\ \E m \in Erased(maps[InHand(Owner)], Hits(Owner)) :
       maps' = [maps EXCEPT ![InHand(Owner)] = m]
  /\ Becomes(Owner, Answered(Owner, Hits(Owner)))
  /\ UNCHANGED <<catalog, cache, lock, stats, refusals, latched, calls, writes, faults>>

DeletesDone ==
  /\ WalkEnds(Owner)
  /\ Becomes(Owner, IdleCall)
  /\ UNCHANGED <<store, cache, lock, stats, calls, writes, faults>>

\* merge_groups: from the first version on, the largest group that fits in one
\* map without growing it; a version that combines with nothing is passed over.
Part(c, a, b) == {v \in catalog[c] : a <= v /\ v <= b}
Fits(c, a, b) == Cardinality(UNION {maps[<<c, v>>].keys : v \in Part(c, a, b)})
                   <= MaxSizeWithoutRehash(Buckets)
LastOf(c, a) == Max({a} \cup {b \in catalog[c] : a <= b /\ Fits(c, a, b)})
After(c, a) == {v \in catalog[c] : v > LastOf(c, a)}

\* The versions the walk stops at: the oldest one, and from each of them the
\* first one after its group.
Starts(c) ==
  LET closed(S) == /\ Min(catalog[c]) \in S
                   /\ \A a \in S : After(c, a) # {} => Min(After(c, a)) \in S
  IN {v \in catalog[c] : \A S \in SUBSET catalog[c] : closed(S) => v \in S}

Groups(c) == {Part(c, a, LastOf(c, a)) : a \in {b \in Starts(c) : LastOf(c, b) > b}}

\* The targets take new numbers, in the order of their groups.
TargetOf(c, group) == Current(c) + Cardinality({h \in Groups(c) : Max(h) <= Max(group)})
MergedMap(c, group) ==
  [FreshMap(Buckets) EXCEPT !.keys = UNION {maps[<<c, v>>].keys : v \in group}]

\* compact_all: the cache is emptied, the classes below `stop` are compacted, a
\* failure in class `stop` leaves it and the rest as they are.
CompactAll(stop) ==
  /\ OwnerMay
  /\ LET merged == {c \in Class : c < stop}
         targets == UNION {{<<c, TargetOf(c, g)>> : g \in Groups(c)} : c \in merged}
         retired == UNION {{<<c, v>> : v \in UNION Groups(c)} : c \in merged}
         source(t) == CHOOSE g \in Groups(t[1]) : TargetOf(t[1], g) = t[2]
     IN /\ \A t \in targets : t[2] <= MaxVersion
        /\ catalog' = [c \in Class |-> (catalog[c] \ {r[2] : r \in {s \in retired : s[1] = c}})
                                         \cup {t[2] : t \in {s \in targets : s[1] = c}}]
        /\ maps' = [g \in (DOMAIN maps \ retired) \cup targets |->
                      IF g \in targets THEN MergedMap(g[1], source(g)) ELSE maps[g]]
  /\ cache' = <<>>
  /\ UNCHANGED <<lock, call, stats, refusals, latched, calls, faults>>

ResetStatistics ==
  /\ OwnerMay
  /\ stats' = NoStats
  /\ UNCHANGED <<store, cache, lock, call, calls, faults>>

--------------------------------------------------------------------------------
Nowhere == <<Classes, 0>>

\* A store that was opened: each class has its generations, each key is in one of
\* them at most, and no map is past its growth point.
Init ==
  /\ \E newest \in Openings, home \in [Key -> Gen \cup {Nowhere}] :
       /\ \A key \in Key : home[key] # Nowhere => home[key][2] <= newest[home[key][1]]
       /\ catalog = [c \in Class |-> 0 .. newest[c]]
       /\ maps = [g \in {h \in Gen : h[2] <= newest[h[1]]} |->
                    [FreshMap(Buckets) EXCEPT !.keys = {key \in Key : home[key] = g}]]
       /\ \A g \in DOMAIN maps : SizeOf(maps[g]) <= MaxSizeWithoutRehash(Buckets)
  /\ cache = <<>> /\ lock = NoThread /\ call = [t \in Thread |-> IdleCall]
  /\ stats = NoStats /\ refusals = 0 /\ latched = FALSE
  /\ calls = 0 /\ writes = 0 /\ faults = 0

WalkStep(t) == ListClass(t) \/ ListFails(t) \/ CacheHit(t) \/ OpenFile(t) \/ OpenFails(t)

ResolveStep(r) ==
  \/ TakeLock(r) \/ NothingAsked(r) \/ WalkStep(r) \/ ReadFile(r) \/ ReadFails(r) \/ Conclude(r)

DeleteStep == WalkStep(Owner) \/ EraseInFile \/ DeletesDone

OwnerCall ==
  \/ \E c \in Class, key \in Key, low \in BOOLEAN : Insert(c, key, low) \/ RotationFails(c, key, low)
  \/ \E batch \in Batches : ApplyDeletes(batch)
  \/ \E stop \in 0 .. Classes : CompactAll(stop)
  \/ ResetStatistics

Next ==
  \/ \E r \in Reader : ResolveStep(r)
  \/ \E r \in Reader : (\E batch \in Batches : Resolve(r, batch)) \/ (\E key \in Key : Find(r, key))
  \/ DeleteStep
  \/ OwnerCall

\* A thread that is in a call keeps running.
Fairness == /\ \A r \in Reader : WF_vars(ResolveStep(r))
            /\ WF_vars(DeleteStep)

Spec == Init /\ [][Next]_vars /\ Fairness

--------------------------------------------------------------------------------
TypeOK ==
  /\ DOMAIN maps \subseteq Gen
  /\ \A g \in DOMAIN maps : maps[g].keys \subseteq Key /\ maps[g].load <= maps[g].buckets
  /\ catalog \in [Class -> (SUBSET Version) \ {{}}]
  /\ \A c \in Class : {c} \X catalog[c] \subseteq DOMAIN maps
  /\ ToSet(cache) \subseteq Gen /\ Len(cache) = Cardinality(ToSet(cache))
  /\ lock \in Reader \cup {NoThread}
  /\ \A t \in Thread : call[t].pc \in {"idle", "wait", "walk", "probe"}
  /\ refusals \in 0 .. MaxWrites /\ latched \in BOOLEAN

\* A thread that is about to read a generation through the reference that the
\* cache gave it finds it mapped: the mutex is held until the last reference is
\* gone, so no other call evicts the file, and the cache keeps to its limit.
\* (full_resolve, database_impl.cpp:3573.)
NoUseAfterUnmap ==
  /\ \A t \in Thread : call[t].pc = "probe" => Cached(InHand(t))
  /\ Len(cache) <= MaxCached

\* When a walk that met no failure ends, every distinct key of the batch was
\* settled, and rightly: resolve() found exactly those that a generation below
\* the active ones holds, whatever the cache held when it began, and a batch of
\* deletions leaves none of its keys anywhere.
AnswersExact ==
  \A t \in Thread : WalkEnds(t) /\ Complete(t) =>
    LET asked == WorkingSet(call[t].batch)
    IN IF t = Owner THEN asked \cap Stored = {}
       ELSE call[t].found = asked \cap OlderKeys /\ call[t].pending = asked \ OlderKeys

\* No insertion ever reaches the growth point of the map it goes to, however the
\* erasures lowered that point and however full a compaction left the generation:
\* no map grows inside its segment and no allocation is refused.
NeverGrowsInPlace ==
  /\ \A g \in DOMAIN maps : maps[g].buckets = Buckets
  /\ refusals = 0

\* The counters move when a call returns and then by what it answered: a failed
\* resolution leaves no trace in them, a completed one counts each distinct key
\* once, as resolved or absent, and the figures of the classes add up to the
\* figures of the whole.
StatsFollowAnswers ==
  [][ LET settled(s) == s.resolved + s.absent
          over(r) == WalkEnds(r) /\ call'[r] = IdleCall
      IN /\ \A r \in Reader : over(r) =>
              settled(stats') = settled(stats)
                + (IF Complete(r) THEN Cardinality(WorkingSet(call[r].batch)) ELSE 0)
         /\ settled(stats') > settled(stats) => \E r \in Reader : over(r)
         /\ Total(stats.lookup', "resolved") = stats'.resolved
         /\ Total(stats.lookup', "opened") = stats'.files
         /\ Total(stats.lookup', "distance") = stats'.distance ]_vars

\* Every resolve() returns, those that meet unreadable files and those that wait
\* for the mutex included.
ResolveReturns == \A r \in Reader : call[r] # IdleCall ~> call[r] = IdleCall
================================================================================
