# A TLA+ model of utxo-z

utxo-z is a store for unspent transaction outputs. It keeps entries in memory-mapped files, grows
by adding files and shrinks by merging them, and is built to survive a crash or a power cut in the
middle of either. These modules model that: what every operation does to the files, in which
order, what happens when a call fails or the process dies between two of them, and what a caller
may conclude from an answer. Source paths below are relative to the repository's root.

## Inventory

| part | state | operations | hard behaviour |
|---|---|---|---|
| Size classes and generations (`src/database_impl.cpp`) | per class a list of files (generations), the newest one active and mapped | `insert` with rotation, `find`, `resolve`, `apply_deletes` | a rotation in the middle of an insert, a retry after a failed allocation, partial batches |
| Version catalogue (`src/detail/version_catalog.hpp`) | live versions, highest number issued | `add`, `remove`, `next_version`, `below`, enumeration at open | memory and directory must agree through failures |
| Compaction (`merge_versions`, `merge_groups`, `compact_container`, `compact_all`) | the merge in hand; `.dat.building`, `.merge.tmp`, `.merge` files | build, sync, record, publish, retire, withdraw | crash or power loss between any two calls; every call may fail; unordered persistence of names |
| Recovery (`recover_pending_merges`, `recover_one`) | none of its own: acts on the files it finds | finish or abandon a merge, discard strays | must be idempotent and must never guess |
| Durability primitives (`src/detail/durability.hpp`) | none | `sync_file`, `sync_directory`, `publish_new_file`, `replace_file_atomically`, `remove_file` | what a barrier covers, and what it does not |
| sync and the register (`sync`, `dirty_versions_`) | files that owe a barrier | `sync`, `note_dirty` | obligations outlive mappings; partial syncs discharge nothing |
| File cache (`src/detail/file_cache.hpp`) | mapped older generations (LRU, one by default) | `get_or_open_file`, `clear`, `sync_mappings` | eviction during a batch, stale mappings, concurrent readers |
| Latches (`integrity_latched_`, `cleanup_pending_`) | why the instance refuses | set by a failed rotation, a mutated map, an unfinished merge | only a new instance clears them |
| Database lock (`src/detail/database_lock.hpp`) | an inode and the descriptor that locks it | `acquire`, `release` | two processes, one of them removing the store |
| Configuration and identity (`store_config_io.hpp`, `format_identity.hpp`, `segment_stamp.hpp`, `segment_open.hpp`) | configuration file, a stamp in every segment | written once at creation, compared at every open | creation interrupted, two builds, files from elsewhere |
| Open and close (`configure_internal`, `create_container`, `close`) | instance, catalogues, containers | open, open with removal, open for inspection, close | a crash between any two changes of the directory |
| Generation metadata (`file_metadata*.hpp`) | count and key range per generation | grown and shrunk in memory, saved at rotation and close | memory lost, records unreadable |
| Capacity arithmetic (`capacity_policy.hpp`, `insert_transition.hpp`) | none | growth point, threshold, effective limit | erasures move the growth point |
| Uniqueness verification (`src/uniqueness.cpp`, `tools/verify_unique.cpp`) | walk, budget meter, sample | plan, group, collect, count, report | bounded memory, a store that changes under it |
| Census (`src/census.cpp`, `tools/census.cpp`) | sums per class and in all | measure, fold, report | overflow, figures that cannot be had |
| Statistics (`src/statistics.cpp`) | counters | published when a call returns | failed calls that are retried |
| Logging, JSON, sizing tool | | | nothing reads them back to decide |

How they interact. The owner calls one mutating operation at a time (`database.hpp`), and
`resolve()` calls may run concurrently behind a mutex; so between operations the interesting
concurrency is between the program, the file system and the moment the process or the machine
stops. `insert`, `apply_deletes` and `resolve` share the generations, the cache and the register;
`compact_all` replaces generations under all of them; `open`, for inspection too, runs recovery before
it reads the catalogue.

What makes each part correct:

* compaction and recovery: no entry is lost, none is served twice, nothing deleted comes back,
  recovery always understands what it finds, and a latched store can be brought back;
* the engine: one copy per outpoint, an exact count, a complete and exclusive classification of
  every deletion, and no entry that the pair `find`/`resolve` overlooks;
* sync: after it returns a loss of power takes back nothing it covered;
* opening: one claimant, one identity for the store and all its files, everything stored is served,
  no refusal without a fault that explains it, and an inspection that settles an interrupted merge and
  does nothing else to the files;
* the read path: no use of a mapping that was evicted, exact answers whatever the cache held, no map
  that grows in its file, every call returns;
* the scans: what they report is what is stored, within the budget they were given, or they say
  that they cannot tell.

## Modules

| module | models | lines of the code |
|---|---|---|
| `Compaction` | the compaction of one container and the recovery at open, one action per file-system call | `database_impl.cpp` 1648-2393, `merge_sidecar.hpp`, `durability.hpp` |
| `SetLemmas` | for the proofs: least and greatest elements, induction over a finite set, sums over one | |
| `CompactionProofs` | theorems about `Compaction` | |
| `UtxoSet` | the abstract store: a map from outpoints to entries and what each operation answers | |
| `Engine` | all size classes, every operation as a step, both latches; implements `UtxoSet` | `database_impl.cpp` 281-1600, 2326-2393, 2591-2621, 3572-3846; `database.cpp` |
| `EngineProofs` | theorems about `Engine`, and its refinement | |
| `DurableUtxoSet` | the abstract promise of `sync()` | |
| `Durability` | contents and names on stable storage, register, cache, power loss; implements `DurableUtxoSet` | `database_impl.cpp` 281-313, 1442-1567, 2355-2621; `file_cache.hpp` |
| `DurabilityProofs` | theorems about `Durability`, and its refinement | |
| `StoreOpening` | processes and builds that claim, create, open, recover, inspect, remove, use and close one directory | `database_impl.cpp` 171-313, 400-876, 1655-1830, 3104-3225, 3441-3533; `database_lock.hpp`, `store_config_io.hpp`, `format_identity.hpp`, `segment_stamp.hpp`, `segment_open.hpp`, `file_metadata*.hpp` |
| `StoreOpeningProofs` | theorems about `StoreOpening` | |
| `Capacity` | the thresholds, and a map as its keys, buckets and growth point | `capacity_policy.hpp`, `insert_transition.hpp` |
| `ReadPath` | concurrent `find()` and `resolve()` over cache and mutex, the owner between them | `database_impl.cpp` 3104-4261, `file_cache.hpp`, `statistics.cpp` |
| `ReadPathProofs` | theorems about `Capacity` and `ReadPath` | |
| `StoredEntries` | the generations as a scan meets them, and checked arithmetic | `uniqueness.cpp` 64-130, `census_arithmetic.hpp` |
| `Uniqueness` | `verify_unique_outpoints` with its budget | `uniqueness.cpp`, `distinct_keys.hpp`, `budget_meter.hpp` |
| `Census` | `census` | `census.cpp`, `census_arithmetic.hpp`, `physical_size.hpp` |
| `Inspection` | the two scans over one store and the tools that run them | `tools/verify_unique.cpp`, `tools/census.cpp` |
| `UniquenessProofs`, `CensusProofs` | theorems about the two scans and the verifying tool | |
| `MCCompaction`, `MCEngine`, `MCDurability`, `MCStoreOpening`, `MCReadPath`, `MCInspection` | the instances TLC checks | |

The detailed modules are views of one program at different grains. `Engine`, `Durability` and
`ReadPath` take a merge as one step. `Compaction` is why they may: it shows that at every point
where anyone looks (a served request, a recovery) a merge has happened or has not.

### Compaction

`data`, `building`, `record` and `temp` are the directory as the system sees it: for every version
what is at `cont_N_vM.dat`, `.dat.building`, `.merge` and `.merge.tmp`. `disk` gives for every
name the *set* of things it may hold after a loss of power. Creating, renaming and unlinking add a
possibility; `sync_directory` (`Flushed`) removes all but what is seen; `sync_file` removes the torn
contents. Two names that no barrier separates are independent, which is what POSIX promises.
`held` is the set of entries that must be somewhere, and `promised` those that a `sync()` covered:
a loss of power excuses the difference and nothing else.

`pc` is the program counter of the instance: `StartCompaction` (close the active container, list
the versions), `BuildTarget` / `GroupTooLarge` / `BuildFails` / `SkipFirst` (the loop of
`merge_groups`), then `SyncBuilding`, `WriteRecord`, `NameRecord`, `RecordBarrier`, `LinkTarget`,
`UnlinkBuilding`, `TargetBarrier`, `CheckMarker`, `RetireSource` (one per source), `RetireBarrier`,
`RemoveRecord`, `MergeEnds`; each with its failure: `MergeCalledOff` before the record has its
name, `RecordBarrierFails` (named, nobody can say whether durably: latch), `LinkFails` with the
withdrawal of the record, `MergeLatches` for the rest. `ReopenActive` is on every exit. Recovery
is `StartRecovery` with `Verdict` (refuse two records or an unreadable one, undo if there is no
target, refuse a target without the record's marker, finish otherwise), then one action per
removal and barrier, and `FinishOpen` (strays, catalogue, version 0 for an empty container).

Left out: the bytes of an entry and of the record (a file is its keys, its merge marker and
whether it is complete); the `.meta` files, except that a failed removal of one latches like a
failed removal of its generation; the Windows and Emscripten branches, where a barrier answers
`sync_unsupported` and the code goes on. The discarding of strays is one step, since no later
decision depends on one. A failure whose removals are not looked at (`fs::remove` with an ignored
result) leaves the file or not, as `MayRemove` says. Entries inserted or erased between
compactions reach the file at once here; what happens when they do not is `Durability`.

### Engine

`files` and `live` are the generations and their keys, `active` is `current_versions_`, `count`
is `entries_count_`, `latch` stands for the two latches, `work` is the progress of `compact_all`
(between two groups the process may end), `asked` are the misses of `find()` that the caller has
still to hand to `resolve()`, `answer` is what the last operation returned.

`Insert` covers a preventive rotation and the one retry after a failed allocation;
`InsertDuplicate`, `InsertNoSpace`, `RotationFails` and `InsertCorrupts` are its other exits.
`Find` reads the active generations, `Resolve` the ones below them, `ResolveFails` is the error
with no lists. `ApplyDeletes` takes a batch, with generations that do not open or a walk that
throws after some erases. `CompactAll`, `MergeGroup`, `SkipVersion`, `ClassCompacted`,
`CompactionFails` are `compact_all`; a failed merge that latches leaves it to the next open whether
the merge happened. `InstanceEnds` is `close()` or the death of the process, `Open` reads the
catalogues and counts. The owner inserts an outpoint only if no other generation holds it (`Fresh`:
`doc/uniqueness.md` says that nothing in the write path enforces this).

Reference mode keeps one container whose functions mirror those of a size class, so an `Engine`
with one class stands for it.

### Durability

One class. `risk[v]` are the keys of generation `v` written since its last barrier, of which a
loss of power keeps any part; `named` are the files whose directory entry is durable; `dirty` is
`dirty_versions_`; `cache` the mapped older generations (which of them a walk leaves mapped is left
open, up to the cache's size, so any LRU order is covered). `Delete` erases in the active
generation and in older ones and notes the older ones in the register; `Sync` flushes the active
generation, the mapped ones, the registered ones and the directory; `SyncFails` meets some barriers
and discharges none. `checkpoint` and `touched` are history: the keys stored when `sync()` last
returned and those written since. `uncovered` are the touched keys that `sync()` does not answer
for: writes of an earlier instance, and those in an active generation that a compaction left
behind (an observation and a finding below). With them named, the passing run shows that there is no third.

A page is assumed not to tear: a key's write is there or not.

### StoreOpening

`dir`, `lockName`, `config`, `tmp`, `segs`, `metas` and `merge` are the directory; `proc[p]` is a process: its
program counter in `configure_internal` or `create_container`, its descriptor on the lock file, the
catalogue, what it has mapped, the metadata it holds and its count. The lock is held on an inode, so
a lock file that were removed and created again would be a second lock (`RemoveChild` passes over it,
as the code does). A version file has a size, a stamp, a map and keys, which `CreateFile`,
`SizeFile`, `PlaceStamp` and `ConstructMap` give it one after the other. A creation fails in two ways.
`ConstructorFails` is any exception of the mapping's constructor, a full disk as much as a name that is
taken: the code answers `identity_collision` for all of them (`database_impl.cpp:212`, `:3138`), before the
guard that would take the file away is set up. `RollBack` is that guard, once a stamp or a map will not be
placed, which is answered `identity_collision` or `file_open_failed` (`CreationErrors`). `OpenVersion` asks the three questions of `open_existing_container` in
their order. Every change of the disk is a step, and `Crash` may come between any two.

`merge` is what a merge cut short has left: the record, with its target and its sources, and a build or a
half-written record. A store may start with one, its target published or not (`MergingStore`), and every
process that gets to the catalogue settles it first, an inspection too (`database_impl.cpp:687`). `Recover`
is one removal at a time: `AbandonMerge` takes back a merge without a target, `RetireSource` unlinks each
source and then its metadata behind a target that carries the merge's mark, `FinishMerge` removes the
record, `DiscardBuild` what no record speaks for. A target without the mark (a file brought in by hand under
its number) is refused (`RecoveryRefuses`), and any call may fail (`RecoveryFails`). No process makes a merge
here: that, the barriers of a recovery and loss of power are in `Compaction`.

A build is what `format_identity.hpp` tells apart: data widths, mutex family, platform and three
epochs. `compute_platform_abi_id` is a hash and is read as injective. `stored`, `wounded`, `torn`, `unclean` and `strayed` are
history: what ought to be served, and which causes a refusal may have.

### Capacity and ReadPath

`Capacity` has the tables and the arithmetic. A map is its keys, its bucket count and its live growth
point, which an erasure may lower by one (Boost's anti-drift rule, external to the repository).

`ReadPath` has readers, which may call `find()` and `resolve()` at any time, and the owner, whose
calls are alone by the contract of `database.hpp`. A `resolve()` takes the mutex, walks the cached
files first (class ascending, version descending: `FirstOf`), then lists the catalogue of each class (`ListClass`) and visits what it
has not seen; a visit is two steps, `CacheHit` or `OpenFile` (which evicts) and `ReadFile`, because
what is read is a reference into the cache. `OpenFails` is a miss that throws after the eviction.
`Conclude` publishes the tally of a complete walk and drops that of another. The owner inserts (with
both rotations), deletes by the same walk without the mutex, compacts and resets the counters. One
class is reference mode, whose functions are mirrored step by step.

### StoredEntries, Uniqueness, Census, Inspection

A scan goes over the generations in the order of the catalogues; each opens or ends the scan.
`Uniqueness` has one action per part of the walk: the sample is reserved, the planning pass counts
keys by prefix, `GroupPrefix` gathers prefixes greedily, `CheckPlan` refuses before the expensive
work, each pass reserves, collects, is held against its plan and counted key by key. `walk.out` is
what the meter has handed out; `Held` is computed from the state instead, so that a meter that
miscounts is seen. The partition hash is a constant function from keys to prefixes.

`Census` computes a generation's figures in one step (`VersionCensus`) and then folds them, field by
field, with sums that refuse to overflow and with figures that may be absent. Width: all sums are
checked against `Limit` in place of 2^64.

`Disturb` is a file lost, or an entry written by another thread of the process, while a scan runs. The
second breaks the contract of `database.hpp`, and what it would do in the middle of an iteration is
undefined: the model has it between two generations. Properties that need a store that stands still say
`disturbed = 0`; `FoundAsPlanned` and `BudgetHeld` do not. The code compares numbers of copies and nothing
else, and so does `FoundAsPlanned`: a deletion and an insert in the same group pass unseen.

Details these modules simplify: `FindingBytes` is the size of a sampled finding and of a reported one, which
in the code differ by a few bytes and are checked for overflow each by itself (`uniqueness.cpp:460`, `:462`), so
a sample refused because of the reported size alone, near 2^64 bytes, is not told apart; a vector that outgrows its reservation doubles once per
generation (`Grown`) where the code grows entry by entry, which one disturbance cannot tell apart; the sum
of optional figures is unbounded (`AddOptional`), as in `census.cpp:77`, which adds without a check what the
checked exact sums bound; and a free size above the segment's (`census.cpp:52`) cannot arise from `FreeOf`.

## Runs

| run | shows |
|---|---|
| `compaction_crash` | two faults among crash, failed barrier, failed unlink, other failed call, group too large: `EntriesKept`, `ServedOnce`, `RecoveryNeverRefuses` |
| `compaction_power` | two faults among power loss, failed unlink, other failed call: `EntriesKept`, `ServedOnce` and, for every step, `RetiredBehindDurableTarget` |
| `compaction_live` | `ServesAgain` and `CompactionEnds`, one fault |
| `engine_answers` | two classes, two keys, one fault of any kind: `OneCopy`, `CountExact`, `DeletesClassified`, `AbsentUnlessMoved`, and the refinement `ImplementsUtxoSet` |
| `durability` | two faults among unreadable generation, failed merge, failed sync, restart, power loss: `SyncReachesOwn`, `RiskIsOwed`, `NothingStale`, and the refinement `ImplementsDurableSet` |
| `store_opening` | two processes, two builds, one fault: `OneClaimant`, `IdentityKept`, `ServesOwnFiles`, `ServesEverything`, `MetadataCovers`, and for every step `InspectionOnlySettles` and `RefusalsExplained` (1,679,032 states) |
| `scans` | the verification: `BudgetHeld`, `VerdictExact`, `FindingsTrue`, `FoundAsPlanned`, `RefusedOnlyIfInfeasible`; the census: `CensusWhole`, `AbsenceKept`; the tools: `StatusIsTheVerdict`; and `ScanEnds` |
| `reading` | two readers and the owner, one unreadable file: `NoUseAfterUnmap`, `AnswersExact`, `NeverGrowsInPlace`, `StatsFollowAnswers`, `ResolveReturns` |
| `recovery_retires_early` | finding: recovery unlinks sources before the target's name is durable |
| `two_records` | finding: a record comes back beside the record of a later merge |
| `resolve_absent` | finding: absent, and stored in the active generation |
| `sync_after_compaction` | finding: the generation a compaction leaves behind has no barrier |

Bounds. Two keys with `RotateAt = 1` make every insert of a second key rotate; five version
numbers leave room for two rotations and two merges after them (or a merge, a rotation of its
target and a second merge), so merges of merge targets, a second compaction after an interrupted
first, and groups that fit only in part all happen. `Capacity = 1` makes the group of everything
too large and forces the shrink-and-skip path; `Capacity = 2` (in `compaction_power`) lets the
whole container merge, which is where a lost target costs the most. `MaxMerges`, `MaxVersion` and
`MaxFaults` only bound the model; the code has no such limit. `MaxSources` is `max_sources` (64 in
the code); 5 is out of reach with five versions (see the observations). With
`MaxFaults = 2` a crash can interrupt a recovery that another fault made necessary.
`compaction_power` has no process crash of its own and no failed barrier: with either the two
findings about power loss appear, and `recovery_retires_early` and `two_records` are those runs. Nor does
it state `RecoveryNeverRefuses`, which a third fault would break: see finding 2.
Symmetry over keys is used for safety only.

`store_opening`: two processes and three ways to open in two modes let one process remove what the
other is about to open; two calls of `open()` and one fault are a crash and what the next open makes
of it; two operations are an insert and the erase or the rotation that follows. The initial states
are an absent directory, configurations of other formats, a damaged one, a closed store of either
mode, and a store left in the middle of a merge of two versions into a third: a size class's with its
target published, the reference container's without (`Merges`). Three version numbers
(`MaxVersion = 2`) hold such a merge. `Strays` are the names a file is brought in under: those of both
targets, a class's first version, and a version above it. `scans`: three outpoints in two of four prefixes give groups that hold two keys and prefixes
that hold none; the options put the budget, the passes, the sample and the addressable size on either
side of their limits. `reading`: maps of two buckets hold one entry, so a second insert rotates and
generations with a key each do not merge; a cache of one mapping, the default, makes every second visit evict.
The deadlock check is on wherever the store can always be closed or opened again; in these three runs
the bounds on calls let everything come to rest.

Fairness (`FairSpec`, `compaction_live`). A compaction and an open are straight-line code that
runs to its end, so their steps are weakly fair; the error branches are steps of the same code.
The owner of a latched instance is told `recovery_required` and closes it: `Close /\ latched` is
weakly fair. Nothing else is: inserts, deletes and faults may or may not come. In `scans` the scan is weakly
fair: it is one thread that waits for nothing. In `reading` each reader's call is weakly fair, its
wait for the mutex included; `std::mutex` is not fair, but with finitely many calls a waiting thread
is the only one left in the end, and `ResolveReturns` says no more than that.

## Findings

1. `recovery_retires_early`. `merge_versions` takes a barrier between publishing the target and
   unlinking the sources, and says why (`database_impl.cpp:2164`). `recover_one` finds a published
   target and unlinks the sources (`:1735`) without that barrier, though the process that linked
   the target may have died before its own. A power cut during recovery may then keep the unlinks
   and not the link.
2. `two_records`. If the process dies after the record is removed and before the removal is
   flushed (`:2245`-`:2249`), the next open sees no record and takes no barrier. The next merge
   writes its record, and a power cut may bring the first one back: two records, which open refuses
   (`:1782`, "One merge is in flight at a time, by construction"). A recovery that fails at `:1753`,
   after it removed the record and before its barrier (`:1755`), leaves the same behind without a crash:
   a power cut, a failed removal, another merge, a second power cut.
3. `resolve_absent`. `full_resolve` reads the generations below the active one (`:3774`). A key
   that `find()` missed and a compaction then moved into the new active generation is called
   absent, which `database.hpp:80` defines as "proven not to exist anywhere".
4. `sync_after_compaction`. A merge of the older generations gets the highest version number and
   becomes active. The generation that was active, if it was not merged, is now an older one;
   `compact_container` closed it (`:2329`) without noting it in the register.

Each is stated against a sentence of the documentation or of a comment; none changes what the
passing runs show, which is everything else.

Observations made while modelling, without a run of their own:

* `merge_groups` starts from every version left (`:2374`) and never caps a group at `max_sources`
  (64), which only the decoder of a record enforces (`merge_sidecar.hpp:274`). A crash during a merge
  of more generations leaves a record that open refuses. `MaxSources = 2` in `compaction_crash.cfg`
  shows it.
* The register of dirty generations is in memory, so the `sync()` of a new instance has no barrier
  for what an earlier one wrote to older generations and did not sync; `uncovered` in `Durability`
  names it.
* A `remove_existing` that is cut short may leave a configuration with fewer generations, which opens
  as a smaller store, or segments without a configuration, which the next open refuses as foreign.
  `wounded` in `StoreOpening` stands for it; the next removal that completes heals it.
* A process that dies in `create_container`, or a constructor that throws there after it has made the
  file, leaves a file that every open refuses until it is removed (`torn`).
* A failure to make a version file, for whatever reason, is answered `identity_collision`
  (`database_impl.cpp:217`, `:3144`), and an open that meets a full disk says that a name is taken.
  `RefusalsExplained` therefore lets a call that fails in the very step explain that answer.
* A generation whose metadata was unreadable gets a blank record at the first insert after that
  (`database_impl.cpp:404`), which does not cover what the generation held before. Nothing reads the
  record to decide.
* `verify_unique_outpoints` is refused while recovery is pending and `census` is not; the census tool
  does not look at whether its report was written whole, the verifying tool does.

## Proofs

TLC shows a property on the instance of its run; the theorems hold for every set of keys, classes,
processes, readers and builds and every value of the bounds. Each rests on the named assumptions of its
modules, which TLC evaluates on every run. Bounds and sizes are naturals, model values are distinct, and
sets that the code indexes (keys, classes, options) are finite. Two assumptions say more, because the code
does: the options of a scan are values of the integer type that holds them (`UniquenessAssumption`), and
the slots and the metadata of a map are allocated in its segment (`SegmentAssumption`, for the census). A
further hypothesis is part of the theorem that needs it. Every inductive invariant below was an invariant
of a TLC run before it was proved.

`SetLemmas` has what counting needs. The provers cannot take a property as a parameter, so induction is
stated with the *set* of what has the property (`FiniteInduction`, by a least counterexample), and a sum is
the recursive function behind `SumFunctionOnSet`, which exists and is unique on a finite set
(`SumsExists`, `SumsAgree`). From these come the facts that the proofs cite: a sum with one term more or
less, over two disjoint sets, over an image, over groups, of two functions added up, and the cardinality of a
disjoint union.

### Compaction

`CompactionProofs.TypeCorrect`: `Spec => []TypeOK` under every choice of faults, power loss included.
`TypeOK` is not inductive: naming a file needs to know that the file to be named is there
(`StageFiles`), a loss of power needs every name to have at least one possible content
(`SeenPossible`), and taking the newest or the oldest version needs a set that is not empty and files
that the catalogue names (`CatalogInv`). `TypeInv` is their conjunction.

The first three results on safety assume `"power" \notin Faults`: with crashes or failed barriers, and
losses of power, they are false (`recovery_retires_early`, `two_records`). The others allow any number of
losses of power, of failed unlinks and of other failed calls, and assume `"crash" \notin Faults` and
`"barrier" \notin Faults`.

* `EntriesKeptThm`: no step of a merge, of any of its failures, of a crash or of a recovery leaves an
  entry in no generation. `KeepInv`: a build holds the keys of its group (`Building`), so once it has
  its name its sources are superseded (`Published`, `Retiring`), which the record repeats for a
  recovery that knows nothing else (`RecordsTrue`); there is never a second record (`RecordPlace`);
  and the catalogue is the directory whenever a merge starts from it (`CatalogTrue`).
* `ServedOnceHolds`: a serving instance serves what is in the directory, no entry from two files and
  none that was deleted. `OnceInv` adds to `KeepInv` that two generations share a key only as a source
  and the target of a record (`SharedIsRecorded`), that the record is readable and its marker is the
  target's (`RecordsMatch`), and that it goes only once the target was never published or the sources
  are gone (`MergeTraced`). Serving needs no record to be left, so nothing is shared then.
* `RecoveryNeverRefusesHolds`: recovery understands every directory an instance can leave behind. It
  also assumes `MaxVersion < MaxSources`, since `merge_groups` does not cap a group at `max_sources`
  (first observation above).
* `PowerInvariant`, under loss of power. `KeepInv` and `OnceInv` speak of the files that are seen; `DiskInv`
  adds what each name may turn into. A generation that is gone may come back only as a source of a record
  and a target that are both durable, with no entry the target has not (`DataPossible`, `SourcesApart`). A
  record that is gone may come back only where its target was never published or its sources are durably
  gone (`StaleHarmless`). What `sync()` covered is in a generation whose name is settled
  (`PromisesDurable`). Beside a published target the record is durable and the only one (`RecordDurable`),
  which needs that merges draw distinct identities and that a record's sources are older than its target
  (`PlansKnown`), that a flushed build cannot be torn (`BuildsKnown`), and what each barrier has just settled
  (`StagesDurable`). A barrier then leaves one thing under every name (`FlushSettles`), and a loss of power
  takes a state of `DiskInv` to one of `KeepInv` and `OnceInv` (`PowerStep`), or, only if an unlink has failed,
  to a directory with two records, where nothing is lost and nothing changes any more (`Stuck`, finding 2).
* `EntriesKeptThroughPowerLoss`, `ServedOnceThroughPowerLoss` and `RetiredBehindDurableTargetHolds` follow from it.
* `NeverRefusesThroughPowerLoss` also assumes that no unlink fails, since a record left by one that did is
  how a second one comes back, and `MaxVersion < MaxSources` as above.

### Engine

`EngineInv`: one copy per key; a version number without a file holds nothing, so what a rotation
creates is empty (`NoStrays`); the active generation is there and the newest, for every class but the
one `compact_all` has in hand (`ActiveInv`); what is left of a merge is on disk (`WorkInv`); and a key
that `find()` missed is in no active generation unless it was inserted or moved since
(`MissedIsOlder`). From it `OneCopyHolds`, `DeletesClassifiedHolds`, `AbsentUnlessMovedHolds`, and
`EngineImplementsUtxoSet`: every step of `Engine` is a step of `UtxoSet` or leaves the map of stored
outpoints as it is.

`CountExactHolds`: `CountInv` adds that the stored entries are finitely many and that the counter is a
number. An insert adds one entry to them, a batch of deletions takes away as many as it says, which are as
many as it counted, and a merge or a rotation leaves their union as it is; `Open` counts generation by
generation, and since no key is in two of them (`OneCopy`) that sum is the cardinality of the union
(`SumOfDisjoint`). `TypeCorrect` gives every variable its type.

### Durability

`NothingStaleHolds` is unconditional. `RiskIsOwedHolds`, `SyncReachesOwnHolds` and `TypeCorrect`
assume `NoTornWalk`: no exception between the erase of a key in an older generation and `note_dirty`
(`database_impl.cpp:1388`). There a write is owed that the register does not name; it is the hazard
without a property. `RiskInv` says that a write at risk is one the checkpoint does not speak of and
that the next `sync()` reaches it or is excused from it.

`DurabilityImplementsDurableSet` maps the generations to the set of stored outpoints and also assumes
`WaitsForSync`: the caller does not insert again, in another generation, an outpoint whose deletion it
has not synced. Otherwise a loss of power may keep the insert and take back the delete, and the outpoint
has two copies (the other hazard without a property). Two facts carry the proof: what the store held at
the checkpoint it still holds but for what was touched (`CheckpointInv`), and no generation holds, or may hold again after a
loss of power, an outpoint of another (`Apart`).

### StoreOpening

`StoreInv` has five parts. A process past opening the lock file holds the inode that has the name, and
one of them at most is past the claim (`ClaimInv`). A call draws one identity at most, so none is that
of a file from elsewhere (`MintInv`, by counting the calls that may still draw). A file the library made
carries the stamp of its build or none yet, and has its map unless its creation is under way or was cut
short (`DiskInv`). A claimant's catalogue lists files that are there, all of them unless one was brought
in by hand, and a class is served once all its versions were opened (`CataloguePart`). An inspection
passes only through phases that make no file (`InspectionPart`). From it `OneClaimantHolds`,
`IdentityKeptHolds` and `ServesOwnFilesHolds`.

`MergeInv` is of a merge on record: it is of a class that no process serves, the metadata of the session it
was cut short in are lost, and once its target has its name and its mark, the target holds what each source
still there holds. Recovery only takes files away, and the claimant is in no session then, so it lasts
(`MergeInvariant`). `InspectionOnlySettlesHolds` follows for every step: by the inspecting process itself a
removal is one of its recovery, and any other process is behind the claim and changes nothing.
`RefusalsExplainedHolds` sorts the refusals: a step that takes the fault explains what it answers, and of the
others `StoreInv` says where each file that can be refused comes from.

`ServesEverythingHolds` rests on `ContentInv`: a file whose creation did not end, or that was brought in by
hand, holds nothing (`Hollow`); an entry is in one version of its class and the entries on disk are those
stored, as long as no removal was cut short (`Contents`), where the sources of a published merge do not count
(`Held`: what retiring one takes away its target has); and a process with a catalogue misses no file that
holds anything and has counted the entries of the classes it has opened (`Counts`). Processes come and go, so
it speaks of every process at once: a step of one leaves alone what another has counted, because only the
claimant changes a file and there is one. `MetadataCoversHolds` rests on `MetaInv`: the records a process
holds cover the generations of the classes it has opened, and the record on disk covers its generation unless
a process has it still to save. A range only ever widens, and a record that counts no entry describes an empty
generation (`CoversSomething`), so a range taken afresh from the next insert covers it too.

### Capacity and ReadPath

`ReadPathProofs` begins with the capacities: `GrowthPointExact` (dividing before multiplying still gives floor(7n/8)),
`RotatesBelowGrowth` (the operating threshold never passes the growth point, for every bucket count)
and `SafeInsertNeverGrows` (an insert that `can_insert_safely` admits neither grows the map nor asks
the allocator, wherever erasures left the growth point). The header asserts this of its tables.
Wrap-around of 64-bit products is not part of them: `max_entries_for` overflows from 2^64 / 133 buckets
on, far past what a file holds.

The read path itself, with any number of readers, classes and cached files. `ReadInv`: a reader that walks
holds the mutex, and while a reader is in a call the owner is in none, so one thread walks at a time
(`ThreadInv`, `Alone`); the cache holds older generations only, within its limit (`CacheInv`); each key is
in one generation (`StoreInv`); and for a walk without failures every older generation is still on its
list, or of a class not yet listed and not among the files searched first, or holds no key that is still
looked for (`Visits`), while what is no longer looked for was found, or erased everywhere (`Settled`).
From it `NoUseAfterUnmapHolds`, `AnswersExactHolds` and `NeverGrowsInPlaceHolds` (the last by
`SafeInsertNeverGrows`). The step that takes an argument of its own is `CompactAll`: that merged
generations share no key needs groups that share no version, that is, a walk of `merge_groups` that never
stops inside a group (`StartsApart`). The versions it stops at are the least set closed under "first one
after my group", and the proof gives two closed sets.

The counters have an invariant of their own beside it (`StatsInv`): per-class figures sum to the global
ones, and of a reader's walk the keys it has resolved and the keys it still looks for sum to its working
set. What a file answers is taken out of the one and credited to the other in the same step
(`BookedFound`), and a file that is opened or fails changes neither (`BookedSame`). `CountersMove` sorts the
steps: those that tell the counters nothing, the end of a resolution, a probe, a reset.
`StatsFollowAnswersHolds`, an action property, is what remains: a complete resolution publishes
`resolved + absent`, which the invariant makes its working set, a failed one nothing.

### Uniqueness

`UniquenessProofs` goes up from the steps of a walk to its report. What each action does to the record
`walk`, and what it leaves alone, is one lemma per action; the invariants use those and not the actions.

* `BudgetHeldHolds`, whatever happens to the store: `BudgetInv` says phase by phase that the meter's figure
  is what is held, computed from the state (`Held`), and that what the sample reserves was computed without
  overflow.
* `FoundAsPlannedHolds`, whatever happens to the store: `PlanInv`. The groups take the counters of the
  prefixes from left to right, each once, so that their records and those of the prefixes not yet grouped
  add up to the plan; each pass is held against its group before it is counted.
* `VerdictExactHolds`, on a store nobody disturbed: every walk has been to each version once and has read
  every entry (`VisitInv`), the groups are apart and cover every prefix behind them (`CoverInv`), the records
  of a pass are the copies of the keys of its group (`RecordInv`), so the keys counted so far are those of the
  groups behind and the key in hand, each with all its copies (`TallyInv`). `StatusIsTheVerdictHolds` follows.
* `FindingsTrueHolds`: a finding is a range of the one flat list of locations, in the order of the versions;
  `SampleInv` says that the ranges tell each key's first copies and how many were left out. That the sorted
  run exists is proved (`SortedExists`), not assumed.
* `RefusedOnlyIfInfeasibleHolds`: the greedy grouping is the best one. Counters are exact (`ExactInv`); a
  group that holds more than a pass's share is a single prefix, and each group but the first begins at a
  prefix that did not fit the one before (`GreedyInv`). In any other cutting that fits, the runs in which two
  neighbouring groups begin are therefore different, so it has no fewer runs than there are groups
  (`GreedyIsBest`).

Two corrections came out of these proofs. `Feasible`, which says what would have done, has to ask also that a
pass's share can be indexed and held by a vector: the planner groups by the budget alone and refuses
afterwards, so a store may be refused that smaller groups would have fitted. TLC refutes the version without
that condition on the instance of `scans` with `VectorMax = 6`. And an exit status belongs to a tool: `exit`
names it.

### Census

`CensusProofs`. The figures of one version are numbers, its slots are all the map's and its payload with what
is unused is its entries' capacity (`VersionFigures`). The expected value of a figure over two disjoint sets of
versions is what `AddOptional` makes of the two (`ExpectedJoin`), which is the heart of the matter: unavailable
absorbs, measured adds. `TallyingInv` says that a census under way accounts for the versions it has come past:
the class in hand for those behind it, every class done for all of its versions, the total for the classes done
(in a reference store the total's unused bytes start as a zero and become "does not apply" with the one
class), and the histogram's lengths for the entries counted. `ReportInv` says the same of the report, and gives
`CensusWholeHolds` and `AbsenceKeptHolds`.

### How far the provers are trusted

Leaves are proved by Z3 through the SMT translation, by Zenon, and by LS4 for temporal steps. Zenon
accepts some false goals of the form `X \subseteq P \cap Q`; no leaf relies on it for an inclusion in an
intersection (such leaves name `SMT` or go element by element).

### Only model-checked

* Liveness (`ServesAgain`, `CompactionEnds`, `ScanEnds`, `ResolveReturns`), which is out of the prover's
  reach, as is what fairness rests on (`ENABLED`).
* The four findings, which are counterexamples.

## Not modelled

* Logging, JSON, printed summaries, histograms and timings of the statistics: derived data that no
  operation decides by.
* `tools/sizing.cpp` and `tools/make_format_fixtures.cpp`, which calculate tables and write test files,
  and `legacy/`, earlier versions kept for reference.
* The failpoints of `durability.hpp`: the models have the faults themselves.
* The Windows and Emscripten branches of the lock, the barriers and the entropy source.
* The layout of Boost's segments and maps, byte layouts and checksums: a file is intact or not.
* Composition of `StoreOpening` with `Compaction`: `StoreOpening` has recovery under the claim, from the
  directories a merge leaves and with crashes between its removals; the making of a merge, the barriers and
  loss of power are in `Compaction` alone, and no run has both.

## Plan

The modules, the properties of their runs and the theorems are complete as far as the code and the provers
go: every property of a passing run but the liveness ones is the subject of a theorem.
