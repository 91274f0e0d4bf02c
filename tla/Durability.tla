----------------------------- MODULE Durability -----------------------------
(***************************************************************************)
(* What sync() promises: which writes are on stable storage, the register  *)
(* of files that owe a barrier (dirty_versions_), the file cache, and a    *)
(* loss of power, for the generations of one size class (the classes share *)
(* nothing here but the directory).                                        *)
(*                                                                         *)
(* Every write goes to a mapped page, which the system may write back at   *)
(* any moment and must have written only after a barrier.  So a generation *)
(* has its contents and the keys at risk in it: those inserted or erased   *)
(* since its last barrier, of which a loss of power keeps any part.  A     *)
(* page is assumed not to tear, and an operation is one step: operations   *)
(* exclude each other (database.hpp), and a merge is one step because      *)
(* module Compaction shows that it may be.  Latches and errors that change *)
(* no file are in module Engine.                                           *)
(***************************************************************************)
EXTENDS Naturals, FiniteSets, FiniteSetsExt

CONSTANTS
    Key,         \* outpoints
    MaxVersion,  \* bound of the model: the highest version number
    MaxFaults,   \* bound of the model: how many faults happen
    Faults,      \* which kinds of fault may happen
    RotateAt,    \* effective_insert_limit: entries at which a generation is full
    Capacity,    \* entries a merge target takes without growing
    MaxCached,   \* file_cache: mappings held
    Reinserts    \* the caller inserts again a key whose deletion is not yet synced

FaultKinds == {"unreadable", "oom", "merge", "sync", "restart", "power"}

Version == 0..MaxVersion

ASSUME DurabilityAssumption ==
    /\ MaxVersion \in Nat
    /\ MaxFaults \in Nat
    /\ RotateAt \in Nat \ {0}
    /\ Capacity \in Nat
    /\ MaxCached \in Nat
    /\ Faults \subseteq FaultKinds
    /\ Reinserts \in BOOLEAN

VARIABLES
    files,       \* the generations in the directory
    live,        \* their contents, as the process sees them
    risk,        \* their keys whose last write may not be on stable storage
    named,       \* the files whose directory entry is on stable storage
    active,      \* current_versions_
    open,        \* there is an instance
    dirty,       \* dirty_versions_
    cache,       \* the generations the file cache has mapped
    compacting,  \* compact_all is running
    left,        \* merge_groups: the versions not handled yet
    synced,      \* the last operation was a sync() that returned success
    checkpoint,  \* history: the keys stored when sync() last returned
    touched,     \* history: the keys inserted or erased since
    uncovered,   \* history: those of them that sync() need not reach, because an earlier
                 \* instance wrote them or a compaction left their generation behind
    faults

disk == <<files, live, risk, named>>
history == <<checkpoint, touched, uncovered>>
vars == <<files, live, risk, named, active, open, dirty, cache, compacting, left,
          synced, checkpoint, touched, uncovered, faults>>
-----------------------------------------------------------------------------
Spend(kind) ==
    /\ kind \in Faults
    /\ faults < MaxFaults
    /\ faults' = faults + 1

Works == faults' = faults

Usable == open /\ ~compacting

Stored == UNION {live[v] : v \in files}
Older == {v \in files : v < active}
-----------------------------------------------------------------------------
(* insert *)

\* The caller inserts a key it has not stored; it waits for a sync() before it
\* inserts again, in another file, a key it has deleted, unless Reinserts.
MayInsert(k, v) ==
    /\ k \notin Stored
    /\ Reinserts \/ \A w \in files \ {v} : k \notin risk[w]

\* new_version: the generation that stops being active owes a barrier.  The name
\* of the new one is on stable storage only after a barrier on the directory.
Insert(k) ==
    LET full == Cardinality(live[active]) >= RotateAt
        v == IF full THEN active + 1 ELSE active
    IN /\ Usable
       /\ v \in Version
       /\ MayInsert(k, v)
       /\ files' = files \cup {v}
       /\ active' = v
       /\ dirty' = IF full THEN dirty \cup {active} ELSE dirty
       /\ live' = [live EXCEPT ![v] = @ \cup {k}]
       /\ risk' = [risk EXCEPT ![v] = @ \cup {k}]
       /\ touched' = touched \cup {k}
       /\ synced' = FALSE
       /\ Works
       /\ UNCHANGED <<named, open, cache, compacting, left, checkpoint, uncovered>>
-----------------------------------------------------------------------------
(* resolve, apply_deletes *)

\* What walking the generations W through the cache may leave mapped.
CacheAfter(W) == {S \in SUBSET (cache \cup W) : Cardinality(S) <= MaxCached}

\* resolve() writes nothing, but it moves the cache.
Resolve ==
    /\ Usable
    /\ cache' \in CacheAfter(Older)
    /\ synced' = FALSE
    /\ Works
    /\ UNCHANGED <<disk, active, open, dirty, compacting, left, history>>

\* What a walk over the generations W erases: a key leaves the newest of them
\* that holds it.  (Mapped generations are walked first; there is one copy of a
\* key, so the order does not show.)
Erased(K, W) ==
    [v \in Version |->
        IF v \in W THEN {k \in K \cap live[v] : \A w \in W : w > v => k \notin live[w]} ELSE {}]

\* Each older generation that loses a key owes a barrier, unless it is the one
\* whose walk is torn: there an exception came after its first erase, before the
\* note.
Delete(K, torn) ==
    \E W \in SUBSET Older :
        LET gone == Erased(K, W \cup {active})
        IN /\ Usable
           /\ K # {}
           /\ \/ Works /\ W = Older /\ torn = {}
              \/ Spend("unreadable") /\ torn = {}
              \/ /\ Spend("oom")
                 /\ W = Older
                 /\ \E v \in Older : torn = {v} /\ Cardinality(gone[v]) = 1
           /\ live' = [v \in Version |-> live[v] \ gone[v]]
           /\ risk' = [v \in Version |-> risk[v] \cup gone[v]]
           /\ dirty' = dirty \cup {v \in W \ torn : gone[v] # {}}
           /\ cache' \in CacheAfter(Older)
           /\ touched' = touched \cup UNION {gone[v] : v \in Version}
           /\ synced' = FALSE
           /\ UNCHANGED <<files, named, active, open, compacting, left, checkpoint, uncovered>>
-----------------------------------------------------------------------------
(* compact_all *)

\* Mutant of StartCompaction: the cache is not emptied.
StartWithCache ==
    /\ Usable
    /\ Max(files) + Cardinality(files) \div 2 \in Version
    /\ compacting' = TRUE
    /\ left' = files
    /\ synced' = FALSE
    /\ Works
    /\ UNCHANGED <<disk, active, open, dirty, cache, history>>

\* The cache is emptied and the active generation closed.
StartCompaction ==
    /\ Usable
    /\ Max(files) + Cardinality(files) \div 2 \in Version     \* bound of the model
    /\ compacting' = TRUE
    /\ left' = files
    /\ cache' = {}
    /\ synced' = FALSE
    /\ Works
    /\ UNCHANGED <<disk, active, open, dirty, history>>

Prefixes == {{u \in left : u <= v} : v \in left}
KeysOf(V) == UNION {live[v] : v \in V}
Disjoint(V) == \A v, w \in V : v # w => live[v] \cap live[w] = {}
Fits(V) == Cardinality(V) >= 2 /\ Cardinality(KeysOf(V)) <= Capacity

\* merge_versions, as one step: the target is flushed before it is named, the
\* barriers on the directory cover every name in it, and a retired source owes
\* nothing.
Merged(V) ==
    LET t == Max(files) + 1
    IN /\ t \in Version
       /\ files' = (files \cup {t}) \ V
       /\ named' = files'
       /\ live' = [v \in Version |-> IF v = t THEN KeysOf(V) ELSE IF v \in V THEN {} ELSE live[v]]
       /\ risk' = [v \in Version |-> IF v \in V \cup {t} THEN {} ELSE risk[v]]
       /\ dirty' = dirty \ V

\* merge_groups takes the largest group of the first versions left that fits.
MergeGroup ==
    \E V \in Prefixes :
        /\ compacting
        /\ Fits(V) /\ Disjoint(V)
        /\ \A W \in Prefixes : Fits(W) => W \subseteq V
        /\ Merged(V)
        /\ left' = left \ V
        /\ Works
        /\ UNCHANGED <<active, open, cache, compacting, synced, history>>

\* No group starting at the first version left fits.
SkipVersion ==
    /\ compacting
    /\ left # {}
    /\ \A V \in Prefixes : ~Fits(V)
    /\ left' = left \ {Min(left)}
    /\ Works
    /\ UNCHANGED <<disk, active, open, dirty, cache, compacting, synced, history>>

\* reopen_active_container; also when a merge failed, or met a key twice.  The
\* generation that was active, if no merge took it and a target is newer, is
\* left behind without a note in the register.
CompactionEnds ==
    /\ compacting
    /\ \/ Works /\ (left = {} \/ \E V \in Prefixes : Fits(V) /\ ~Disjoint(V))
       \/ Spend("merge")
    /\ active' = Max(files)
    /\ uncovered' = IF active \in files \ {active'} THEN uncovered \cup risk[active] ELSE uncovered
    /\ compacting' = FALSE
    /\ left' = {}
    /\ UNCHANGED <<disk, open, dirty, cache, synced, checkpoint, touched>>
-----------------------------------------------------------------------------
(* sync *)

\* Mutant of Covered: the register is not consulted.
CoveredByMapping == {active} \cup cache

\* The files sync() has a barrier for.
Covered == {active} \cup cache \cup dirty

\* Mutant of Sync: no barrier on the directory.
SyncFilesOnly ==
    /\ Usable
    /\ risk' = [v \in Version |-> IF v \in Covered THEN {} ELSE risk[v]]
    /\ dirty' = {}
    /\ checkpoint' = Stored
    /\ touched' = uncovered \cap UNION {risk'[v] : v \in files}
    /\ uncovered' = touched'
    /\ synced' = TRUE
    /\ Works
    /\ UNCHANGED <<files, live, named, active, open, cache, compacting, left>>

\* Every barrier returns: only now is the register cleared.
Sync ==
    /\ Usable
    /\ risk' = [v \in Version |-> IF v \in Covered THEN {} ELSE risk[v]]
    /\ named' = files
    /\ dirty' = {}
    /\ checkpoint' = Stored
    /\ touched' = uncovered \cap UNION {risk'[v] : v \in files}
    /\ uncovered' = touched'
    /\ synced' = TRUE
    /\ Works
    /\ UNCHANGED <<files, live, active, open, cache, compacting, left>>

\* Mutant of SyncFails: the obligations are discharged all the same.
SyncFailsForgets ==
    /\ Usable
    /\ Spend("sync")
    /\ dirty' = {}
    /\ synced' = FALSE
    /\ UNCHANGED <<disk, active, open, cache, compacting, left, history>>

\* A barrier fails: some were met, none is discharged.
SyncFails ==
    /\ Usable
    /\ Spend("sync")
    /\ \E S \in SUBSET Covered :
          risk' = [v \in Version |-> IF v \in S THEN {} ELSE risk[v]]
    /\ synced' = FALSE
    /\ UNCHANGED <<files, live, named, active, open, dirty, cache, compacting, left, history>>
-----------------------------------------------------------------------------
(* The life of an instance *)

Gone ==
    /\ open' = FALSE
    /\ dirty' = {}
    /\ cache' = {}
    /\ compacting' = FALSE
    /\ left' = {}
    /\ active' = 0
    /\ synced' = FALSE
    /\ UNCHANGED <<checkpoint, touched>>

\* close(), or the process dies: the pages stay with the system, and the
\* register of what they owe goes with the process.
InstanceEnds ==
    /\ open
    /\ Spend("restart")
    /\ Gone
    /\ uncovered' = touched
    /\ UNCHANGED disk

\* Of every file the directory entry and the keys at risk may or may not have
\* reached the disk.
PowerLoss ==
    /\ Spend("power")
    /\ \E kept \in SUBSET (files \ named) :
          /\ files' = named \cup kept
          /\ named' = files'
    /\ \E landed \in [files -> SUBSET Key] :
          /\ \A v \in files : landed[v] \subseteq risk[v]
          /\ live' = [v \in Version |->
                        IF v \in files' THEN (live[v] \ risk[v]) \cup landed[v] ELSE {}]
    /\ risk' = [v \in Version |-> {}]
    /\ Gone
    /\ uncovered' = {}

\* configure_internal.
Open ==
    /\ ~open
    /\ open' = TRUE
    /\ files' = IF files = {} THEN {0} ELSE files
    /\ active' = Max(files')
    /\ Works
    /\ UNCHANGED <<live, risk, named, dirty, cache, compacting, left, synced, history>>
-----------------------------------------------------------------------------
Init ==
    /\ files = {}
    /\ live = [v \in Version |-> {}]
    /\ risk = [v \in Version |-> {}]
    /\ named = {}
    /\ active = 0
    /\ open = FALSE
    /\ dirty = {}
    /\ cache = {}
    /\ compacting = FALSE
    /\ left = {}
    /\ synced = FALSE
    /\ checkpoint = {}
    /\ touched = {}
    /\ uncovered = {}
    /\ faults = 0

Next ==
    \/ \E k \in Key : Insert(k)
    \/ Resolve
    \/ \E K \in SUBSET Key, torn \in SUBSET Version : Delete(K, torn)
    \/ StartCompaction
    \/ MergeGroup
    \/ SkipVersion
    \/ CompactionEnds
    \/ Sync
    \/ SyncFails
    \/ InstanceEnds
    \/ PowerLoss
    \/ Open

Spec == Init /\ [][Next]_vars
-----------------------------------------------------------------------------
(* Properties *)

\* Every variable has its type.
TypeOK ==
    /\ files \subseteq Version
    /\ live \in [Version -> SUBSET Key]
    /\ risk \in [Version -> SUBSET Key]
    /\ named \subseteq files
    /\ active \in Version
    /\ open \in BOOLEAN
    /\ dirty \subseteq Version
    /\ cache \subseteq Version
    /\ compacting \in BOOLEAN
    /\ left \subseteq Version
    /\ synced \in BOOLEAN
    /\ checkpoint \subseteq Key
    /\ touched \subseteq Key
    /\ uncovered \subseteq touched
    /\ faults \in 0..MaxFaults

\* When sync() has returned, every generation and its name are on stable
\* storage: "Returns once the entries this database holds have reached the
\* disk" (database.hpp).
SyncReachesAll == synced => named = files /\ \A v \in files : risk[v] = {}

\* When sync() has returned, everything this instance wrote, and every name, is
\* on stable storage; only writes of an earlier instance, and those in a formerly
\* active generation that a compaction left behind, may be missing.
SyncReachesOwn == synced => named = files /\ \A v \in files : risk[v] \subseteq uncovered

\* A generation with a write of this instance at risk is never forgotten: it is
\* active, or the register names it, through rotations, walks that evict it from
\* the cache, failed syncs and merges.  The two exceptions are those of
\* SyncReachesOwn.
RiskIsOwed ==
    open => \A v \in files : risk[v] \subseteq uncovered \/ v = active \/ v \in dirty

\* What the cache has mapped and what the register names exists, and is not the
\* active generation: no mapping or obligation outlives a retired file.
NothingStale == cache \cup dirty \subseteq files /\ active \notin cache

\* The store implements the abstract one: a loss of power takes back only what
\* was done to a key after sync() last returned, or what that sync() had no
\* barrier for.
Abstract == INSTANCE DurableUtxoSet WITH utxos <- Stored

ImplementsDurableSet == Abstract!Spec
=============================================================================
