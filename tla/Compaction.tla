----------------------------- MODULE Compaction -----------------------------
(***************************************************************************)
(* The compaction of one container, file-system call by file-system call:  *)
(* compact_container, merge_groups, merge_versions, write_merge_sidecar,   *)
(* publish_new_file, and the recovery that open() runs over whatever an    *)
(* earlier instance left in the directory.                                 *)
(*                                                                         *)
(* A container is a list of generations, one file each.  A merge copies a  *)
(* group of generations into a new file, records the intention durably,    *)
(* gives the new file its canonical name, unlinks the generations it       *)
(* supersedes and withdraws the record.  The process can die between any   *)
(* two of those calls, the machine can lose power, and every call can      *)
(* fail.                                                                   *)
(*                                                                         *)
(* The directory is modelled twice.  data, building, record and temp are   *)
(* what the running system sees (cont_N_vM.dat, .dat.building, .merge and  *)
(* .merge.tmp).  disk gives for every name the set of things the name may  *)
(* hold after a loss of power: a call on a name adds a possibility, and    *)
(* only fsync on the directory (or on a file, for its contents) takes      *)
(* possibilities away.  Nothing orders two names that were not separated   *)
(* by a barrier.                                                           *)
(*                                                                         *)
(* Abstracted: the bytes of a generation are the set of its keys; the      *)
(* metadata records (.meta), which no lookup or recovery decision reads,   *)
(* are left out; entries inserted into a generation reach its file at once *)
(* (module Durability is about contents that were not flushed).            *)
(***************************************************************************)
EXTENDS Naturals, FiniteSets, FiniteSetsExt

CONSTANTS
    Key,         \* outpoints
    None,        \* no file at a name
    MaxVersion,  \* bound of the model: the highest version number
    MaxMerges,   \* bound of the model: how many merge identities are drawn
    MaxFaults,   \* bound of the model: how many faults happen
    Faults,      \* which kinds of fault may happen
    RotateAt,    \* entries at which a generation is full (operating threshold)
    Capacity,    \* entries a merge target takes without growing
    MaxSources   \* the most sources the decoder of a merge record accepts

FaultKinds == {"crash", "power", "barrier", "unlink", "io", "space"}

Version == 0..MaxVersion
Merge == 0..MaxMerges           \* 0: no marker, a generation no merge wrote
GenFile == [keys : SUBSET Key, id : Merge, whole : BOOLEAN]
Plan == [id : Merge, sources : SUBSET Version, whole : BOOLEAN]

Disk == [data     : [Version -> SUBSET (GenFile \cup {None})],
         building : [Version -> SUBSET (GenFile \cup {None})],
         record   : [Version -> SUBSET (Plan \cup {None})],
         temp     : [Version -> SUBSET (Plan \cup {None})]]

ASSUME CompactionAssumption ==
    /\ MaxVersion \in Nat
    /\ MaxMerges \in Nat
    /\ MaxFaults \in Nat
    /\ RotateAt \in Nat \ {0}
    /\ Capacity \in Nat
    /\ MaxSources \in Nat
    /\ Faults \subseteq FaultKinds
    /\ None \notin GenFile
    /\ None \notin Plan

VARIABLES
    data, building, record, temp,   \* the directory as the system sees it
    disk,                           \* what each name may hold after power loss
    catalog, issued,                \* version_catalog: live versions, highest_issued
    pc,                             \* where the instance is
    left, group,                    \* merge_groups: versions not yet handled, the group tried
    target, mergeId, todo, failed,  \* merge_versions / recover_one: the merge in hand
    latched,                        \* cleanup_pending_
    held, promised,                 \* history: entries that must be there, those sync() covered
    nextId, faults                  \* merge identities drawn, faults spent

files == <<data, building, record, temp>>
book == <<catalog, issued>>
job == <<left, group, target, mergeId, todo, failed>>
ghost == <<held, promised>>
vars == <<data, building, record, temp, disk, catalog, issued, pc, left, group, target,
          mergeId, todo, failed, latched, held, promised, nextId, faults>>
-----------------------------------------------------------------------------
(* Faults *)

Spend(kind) ==
    /\ kind \in Faults
    /\ faults < MaxFaults
    /\ faults' = faults + 1

Works == faults' = faults
-----------------------------------------------------------------------------
(* The file system *)

Holding(file) == {v \in Version : file[v] # None}

\* After fsync on the directory a name holds what is seen there, complete or,
\* where the contents were never flushed, possibly torn.
Settle(S, c) ==
    IF c = None THEN {None} ELSE {x \in S : x # None /\ x.id = c.id}

\* sync_directory
Flushed ==
    [data     |-> [v \in Version |-> Settle(disk.data[v], data[v])],
     building |-> [v \in Version |-> Settle(disk.building[v], building[v])],
     record   |-> [v \in Version |-> Settle(disk.record[v], record[v])],
     temp     |-> [v \in Version |-> Settle(disk.temp[v], temp[v])]]

\* Everything a power loss may leave under one kind of name.
Aftermath(D) ==
    LET unsettled == {v \in Version : Cardinality(D[v]) > 1}
        picks == {p \in [unsettled -> UNION {D[v] : v \in unsettled}] :
                    \A v \in unsettled : p[v] \in D[v]}
    IN {[v \in Version |-> IF v \in unsettled THEN p[v] ELSE CHOOSE c \in D[v] : TRUE] :
            p \in picks}

Torn(c) == [c EXCEPT !.whole = FALSE]

\* fs::remove of a name, its result not looked at: it may have failed.
MayRemove(file, v) == {file, [file EXCEPT ![v] = None]}

\* The best-effort removal of a .building file.
Abandon(v) ==
    /\ building' \in MayRemove(building, v)
    /\ disk' = [disk EXCEPT !.building[v] = @ \cup {building'[v]}]

KeysIn(versions) == UNION {data[v].keys : v \in versions}

\* What the directory holds of the database's entries.
Readable == UNION {data[v].keys : v \in {u \in Holding(data) : data[u].whole}}
-----------------------------------------------------------------------------
(* The instance between two compactions *)

NoJob ==
    /\ left' = {}
    /\ group' = {}
    /\ target' = 0
    /\ mergeId' = 0
    /\ todo' = {}
    /\ failed' = FALSE

Active == Max(catalog)

\* insert_in_index: a new key goes to the active generation; at the operating
\* threshold the container is rotated first (new_version).
Insert(k) ==
    LET full == Cardinality(data[Active].keys) >= RotateAt
        v == IF full THEN issued + 1 ELSE Active
        old == IF full THEN [keys |-> {}, id |-> 0, whole |-> TRUE] ELSE data[v]
        new == [old EXCEPT !.keys = @ \cup {k}]
    IN /\ pc = "serving"
       /\ ~latched
       /\ k \notin Readable
       /\ v \in Version
       /\ data' = [data EXCEPT ![v] = new]
       /\ disk' = [disk EXCEPT !.data[v] =
                     IF full THEN @ \cup {new}
                             ELSE {IF x = old THEN new ELSE x : x \in @}]
       /\ catalog' = catalog \cup {v}
       /\ issued' = IF full THEN v ELSE issued
       /\ held' = held \cup {k}
       /\ Works
       /\ UNCHANGED <<building, record, temp, pc, latched, promised, nextId>>
       /\ UNCHANGED job

\* apply_deletes of one key, found in the active generation or in an older one.
Delete(k) ==
    /\ pc = "serving"
    /\ ~latched
    /\ \E v \in catalog :
          /\ k \in data[v].keys
          /\ data' = [data EXCEPT ![v].keys = @ \ {k}]
          /\ disk' = [disk EXCEPT !.data[v] =
                        {IF x = data[v] THEN [x EXCEPT !.keys = @ \ {k}] ELSE x : x \in @}]
    /\ held' = held \ {k}
    /\ promised' = promised \ {k}
    /\ Works
    /\ UNCHANGED <<building, record, temp, pc, latched, nextId>>
    /\ UNCHANGED <<book, job>>

\* sync: the directory barrier, after which every entry held is promised.
Sync ==
    /\ pc = "serving"
    /\ ~latched
    /\ disk' = Flushed
    /\ promised' = held
    /\ Works
    /\ UNCHANGED <<pc, latched, held, nextId>>
    /\ UNCHANGED <<files, book, job>>

\* close: also the way out of a latched instance.
Close ==
    /\ pc = "serving"
    /\ pc' = "closed"
    /\ latched' = FALSE
    /\ catalog' = {}
    /\ issued' = 0
    /\ Works
    /\ UNCHANGED <<disk, nextId>>
    /\ UNCHANGED <<files, job, ghost>>
-----------------------------------------------------------------------------
(* compact_container and merge_groups *)

\* The active container is closed and the versions are listed.
StartCompaction ==
    /\ pc = "serving"
    /\ ~latched
    /\ pc' = IF Cardinality(catalog) > 1 THEN "grouping" ELSE "reopening"
    /\ left' = catalog
    /\ group' = catalog
    /\ Works
    /\ UNCHANGED <<disk, target, mergeId, todo, failed, latched, nextId>>
    /\ UNCHANGED <<files, book, ghost>>

Target == issued + 1

Duplicates(versions) ==
    \E u, v \in versions : u # v /\ data[u].keys \cap data[v].keys # {}

\* Mutant of SkipFirst: the walk does not advance.
SkipNothing ==
    /\ pc = "grouping"
    /\ left # {}
    /\ Cardinality(group) < 2
    /\ group' = left
    /\ Works
    /\ UNCHANGED <<disk, pc, left, target, mergeId, todo, failed, latched, nextId>>
    /\ UNCHANGED <<files, book, ghost>>

\* Nothing more can be combined starting at the first version left.
SkipFirst ==
    /\ pc = "grouping"
    /\ left # {}
    /\ Cardinality(group) < 2
    /\ left' = left \ {Min(left)}
    /\ group' = left'
    /\ Works
    /\ UNCHANGED <<disk, pc, target, mergeId, todo, failed, latched, nextId>>
    /\ UNCHANGED <<files, book, ghost>>

GroupsDone ==
    /\ pc = "grouping"
    /\ left = {}
    /\ pc' = "reopening"
    /\ Works
    /\ UNCHANGED <<disk, latched, nextId>>
    /\ UNCHANGED <<files, book, job, ghost>>

\* Mutant of NewTarget: the build is not stamped with the merge's identity.
UnmarkedTarget == [keys |-> KeysIn(group), id |-> 0, whole |-> TRUE]

\* The file a merge builds: the entries of its sources and its merge's marker.
NewTarget == [keys |-> KeysIn(group), id |-> nextId + 1, whole |-> TRUE]

\* merge_versions up to the page barrier: the target exists under its building
\* name, complete in memory; its contents are not flushed yet.
BuildTarget ==
    LET new == NewTarget
    IN /\ pc = "grouping"
       /\ Cardinality(group) >= 2
       /\ Target \in Version
       /\ data[Target] = None
       /\ nextId < MaxMerges
       /\ ~Duplicates(group)
       /\ Cardinality(KeysIn(group)) <= Capacity
       /\ pc' = "built"
       /\ target' = Target
       /\ mergeId' = nextId + 1
       /\ nextId' = nextId + 1
       /\ building' = [building EXCEPT ![Target] = new]
       /\ disk' = [disk EXCEPT !.building[Target] = @ \cup {None, new, Torn(new)}]
       /\ Works
       /\ UNCHANGED <<data, record, temp, left, group, todo, failed, latched>>
       /\ UNCHANGED <<book, ghost>>

\* insufficient_space: merge_groups tries again with one source fewer.
GroupTooLarge ==
    /\ pc = "grouping"
    /\ Cardinality(group) >= 2
    /\ Target \in Version
    /\ \/ Cardinality(KeysIn(group)) > Capacity /\ Works
       \/ Spend("space")
    /\ group' = group \ {Max(group)}
    /\ Abandon(Target)
    /\ UNCHANGED <<data, record, temp, pc, left, target, mergeId, todo, failed, latched, nextId>>
    /\ UNCHANGED <<book, ghost>>

\* Any other error before the target is built: a collision, no entropy, a
\* source that cannot be read, a key in two sources.  (The model's bounds end a
\* merge here too: no version number or no identity left to draw.)
BuildFails ==
    /\ pc = "grouping"
    /\ Cardinality(group) >= 2
    /\ \/ /\ \/ Target \notin Version
             \/ nextId = MaxMerges
             \/ Target \in Version /\ data[Target] # None
             \/ Duplicates(group)
          /\ Works
       \/ Spend("io")
    /\ pc' = "reopening"
    /\ IF Target \in Version THEN Abandon(Target) ELSE UNCHANGED <<building, disk>>
    /\ UNCHANGED <<data, record, temp, latched, nextId>>
    /\ UNCHANGED <<book, job, ghost>>
-----------------------------------------------------------------------------
(* merge_versions: the durability sequence *)

\* Mutant of SyncBuilding: no fsync.
SyncNothing ==
    /\ pc = "built"
    /\ pc' = "filesynced"
    /\ Works
    /\ UNCHANGED <<disk, latched, nextId>>
    /\ UNCHANGED <<files, book, job, ghost>>

\* fsync of the building file: its contents can no longer be torn.
SyncBuilding ==
    /\ pc = "built"
    /\ pc' = "filesynced"
    /\ disk' = [disk EXCEPT !.building[target] = @ \ {Torn(building[target])}]
    /\ Works
    /\ UNCHANGED <<latched, nextId>>
    /\ UNCHANGED <<files, book, job, ghost>>

ThePlan == [id |-> mergeId, sources |-> group, whole |-> TRUE]

\* write_merge_sidecar: the record under its temporary name, flushed.
WriteRecord ==
    /\ pc = "filesynced"
    /\ pc' = "recordwritten"
    /\ temp' = [temp EXCEPT ![target] = ThePlan]
    /\ disk' = [disk EXCEPT !.temp[target] = @ \cup {ThePlan}]
    /\ Works
    /\ UNCHANGED <<data, building, record, latched, nextId>>
    /\ UNCHANGED <<book, job, ghost>>

\* Mutant of NameRecord: the build is renamed in place of the record.
NameWrongFile ==
    /\ pc = "recordwritten"
    /\ pc' = "recordnamed"
    /\ record' = [record EXCEPT ![target] = building[target]]
    /\ temp' = [temp EXCEPT ![target] = None]
    /\ Works
    /\ UNCHANGED <<data, building, disk, latched, nextId>>
    /\ UNCHANGED <<book, job, ghost>>

\* The atomic replace that names the record.
NameRecord ==
    /\ pc = "recordwritten"
    /\ pc' = "recordnamed"
    /\ record' = [record EXCEPT ![target] = temp[target]]
    /\ temp' = [temp EXCEPT ![target] = None]
    /\ disk' = [disk EXCEPT !.record[target] = @ \cup (disk.temp[target] \ {None}),
                            !.temp[target] = @ \cup {None}]
    /\ Works
    /\ UNCHANGED <<data, building, latched, nextId>>
    /\ UNCHANGED <<book, job, ghost>>

\* A failure of one of the three calls above: nothing was named, the temporary
\* record and the build are discarded.
MergeCalledOff ==
    /\ pc \in {"built", "filesynced", "recordwritten"}
    /\ Spend("io")
    /\ pc' = "reopening"
    /\ temp' \in MayRemove(temp, target)
    /\ building' \in MayRemove(building, target)
    /\ disk' = [disk EXCEPT !.temp[target] = @ \cup {temp'[target]},
                            !.building[target] = @ \cup {building'[target]}]
    /\ UNCHANGED <<data, record, latched, nextId>>
    /\ UNCHANGED <<book, job, ghost>>

RecordBarrier ==
    /\ pc = "recordnamed"
    /\ pc' = "recorded"
    /\ disk' = Flushed
    /\ Works
    /\ UNCHANGED <<latched, nextId>>
    /\ UNCHANGED <<files, book, job, ghost>>

\* The record is named and may or may not survive: both files are removed, the
\* removals unchecked, and the instance latches.
RecordBarrierFails ==
    /\ pc = "recordnamed"
    /\ Spend("barrier")
    /\ pc' = "reopening"
    /\ latched' = TRUE
    /\ building' \in MayRemove(building, target)
    /\ record' \in MayRemove(record, target)
    /\ disk' = [disk EXCEPT !.building[target] = @ \cup {building'[target]},
                            !.record[target] = @ \cup {record'[target]}]
    /\ UNCHANGED <<data, temp, nextId>>
    /\ UNCHANGED <<book, job, ghost>>

\* publish_new_file: link(2) gives the target its canonical name ...
LinkTarget ==
    /\ pc = "recorded"
    /\ data[target] = None
    /\ pc' = "linked"
    /\ data' = [data EXCEPT ![target] = building[target]]
    /\ disk' = [disk EXCEPT !.data[target] = @ \cup (disk.building[target] \ {None})]
    /\ Works
    /\ UNCHANGED <<building, record, temp, latched, nextId>>
    /\ UNCHANGED <<book, job, ghost>>

\* ... and unlink(2) takes the building name away; its failure is ignored.
UnlinkBuilding ==
    /\ pc = "linked"
    /\ pc' = "published"
    /\ Abandon(target)
    /\ Works
    /\ UNCHANGED <<data, record, temp, latched, nextId>>
    /\ UNCHANGED <<book, job, ghost>>

\* link(2) failed: the record is withdrawn, durably or not at all.
LinkFails ==
    /\ pc = "recorded"
    /\ Spend("io")
    /\ pc' = "withdrawing"
    /\ UNCHANGED <<disk, latched, nextId>>
    /\ UNCHANGED <<files, book, job, ghost>>

WithdrawRecord ==
    /\ pc = "withdrawing"
    /\ pc' = "withdrawn"
    /\ record' = [record EXCEPT ![target] = None]
    /\ disk' = [disk EXCEPT !.record[target] = @ \cup {None}]
    /\ Works
    /\ UNCHANGED <<data, building, temp, latched, nextId>>
    /\ UNCHANGED <<book, job, ghost>>

ConfirmWithdrawal ==
    /\ pc = "withdrawn"
    /\ pc' = "calledoff"
    /\ disk' = Flushed
    /\ Works
    /\ UNCHANGED <<latched, nextId>>
    /\ UNCHANGED <<files, book, job, ghost>>

DiscardBuilding ==
    /\ pc = "calledoff"
    /\ pc' = "reopening"
    /\ Abandon(target)
    /\ Works
    /\ UNCHANGED <<data, record, temp, latched, nextId>>
    /\ UNCHANGED <<book, job, ghost>>

\* Every later call whose failure latches the instance with what is on disk
\* left for recovery: withdrawing the record, the barrier of that withdrawal,
\* the barrier of the target's name, removing the record at the end.
MergeLatches ==
    /\ \/ pc \in {"withdrawing", "sourcesretired"} /\ Spend("unlink")
       \/ pc \in {"withdrawn", "published"} /\ Spend("barrier")
    /\ pc' = "reopening"
    /\ latched' = TRUE
    /\ UNCHANGED <<disk, nextId>>
    /\ UNCHANGED <<files, book, job, ghost>>

\* Mutant of TargetBarrier: the sources are retired before the target's name is
\* on stable storage.
NoTargetBarrier ==
    /\ pc = "published"
    /\ pc' = "targetdurable"
    /\ Works
    /\ UNCHANGED <<disk, latched, nextId>>
    /\ UNCHANGED <<files, book, job, ghost>>

\* The barrier after the target is published.
TargetBarrier ==
    /\ pc = "published"
    /\ pc' = "targetdurable"
    /\ disk' = Flushed
    /\ Works
    /\ UNCHANGED <<latched, nextId>>
    /\ UNCHANGED <<files, book, job, ghost>>

\* read_target_marker
MarkerMatches(v, id) ==
    data[v] # None /\ data[v].whole /\ data[v].id = id

\* The marker is compared with the record; then the catalogue moves over.
CheckMarker ==
    /\ pc = "targetdurable"
    /\ IF MarkerMatches(target, mergeId)
         THEN /\ pc' = "retiring"
              /\ catalog' = (catalog \cup {target}) \ group
              /\ issued' = target
              /\ todo' = group
              /\ UNCHANGED latched
         ELSE /\ pc' = "reopening"
              /\ latched' = TRUE
              /\ UNCHANGED <<book, todo>>
    /\ Works
    /\ UNCHANGED <<disk, left, group, target, mergeId, failed, nextId>>
    /\ UNCHANGED <<files, ghost>>

\* One source and its metadata are unlinked; a failure of either is remembered
\* and the rest still tried.
RetireSource ==
    /\ pc = "retiring"
    /\ todo # {}
    /\ todo' = todo \ {Min(todo)}
    /\ \/ /\ data' = [data EXCEPT ![Min(todo)] = None]
          /\ disk' = [disk EXCEPT !.data[Min(todo)] = @ \cup {None}]
          /\ \/ Works /\ UNCHANGED failed
             \/ Spend("unlink") /\ failed' = TRUE
       \/ /\ Spend("unlink")
          /\ failed' = TRUE
          /\ UNCHANGED <<data, disk>>
    /\ UNCHANGED <<building, record, temp, pc, left, group, target, mergeId, latched, nextId>>
    /\ UNCHANGED <<book, ghost>>

\* Mutant of RetireBarrier: the record goes before the sources are durably gone.
NoRetireBarrier ==
    /\ pc = "retiring"
    /\ todo = {}
    /\ pc' = IF failed THEN "reopening" ELSE "sourcesretired"
    /\ latched' = (latched \/ failed)
    /\ Works
    /\ UNCHANGED <<disk, nextId>>
    /\ UNCHANGED <<files, book, job, ghost>>

\* The sources are durably gone, or the record stays and the instance latches.
RetireBarrier ==
    /\ pc = "retiring"
    /\ todo = {}
    /\ \/ disk' = Flushed /\ Works /\ UNCHANGED failed
       \/ Spend("barrier") /\ failed' = TRUE /\ UNCHANGED disk
    /\ pc' = IF failed' THEN "reopening" ELSE "sourcesretired"
    /\ latched' = (latched \/ failed')
    /\ UNCHANGED <<left, group, target, mergeId, todo, nextId>>
    /\ UNCHANGED <<files, book, ghost>>

RemoveRecord ==
    /\ pc = "sourcesretired"
    /\ pc' = "recordremoved"
    /\ record' = [record EXCEPT ![target] = None]
    /\ disk' = [disk EXCEPT !.record[target] = @ \cup {None}]
    /\ Works
    /\ UNCHANGED <<data, building, temp, latched, nextId>>
    /\ UNCHANGED <<book, job, ghost>>

\* The last barrier only warns when it fails; merge_groups goes on.
MergeEnds ==
    /\ pc = "recordremoved"
    /\ \/ disk' = Flushed /\ Works
       \/ Spend("barrier") /\ UNCHANGED disk
    /\ pc' = "grouping"
    /\ left' = left \ group
    /\ group' = left'
    /\ UNCHANGED <<target, mergeId, todo, failed, latched, nextId>>
    /\ UNCHANGED <<files, book, ghost>>

\* reopen_active_container, on every exit of the compaction.
ReopenActive ==
    /\ pc = "reopening"
    /\ pc' = "serving"
    /\ NoJob
    /\ \/ Works /\ latched' = (latched \/ data[Active] = None)
       \/ Spend("io") /\ latched' = TRUE
    /\ UNCHANGED <<disk, nextId>>
    /\ UNCHANGED <<files, book, ghost>>
-----------------------------------------------------------------------------
(* open: recover_pending_merges, recover_one, the catalogue *)

Records == Holding(record)

ReadRecordOK(v) ==
    record[v].whole /\ Cardinality(record[v].sources) <= MaxSources

\* Mutants of Verdict: recovery finishes a merge whose target it has not seen;
\* it forgets one whose target is there; it will not touch one that got this far.
FinishUnseen ==
    IF Records = {} THEN "sweeping" ELSE "finishing"

ForgetPublished ==
    CASE Records = {} -> "sweeping"
      [] data[Max(Records)] = None -> "undoing"
      [] OTHER -> "undone"

RefusePublished ==
    CASE Records = {} -> "sweeping"
      [] data[Max(Records)] = None -> "undoing"
      [] OTHER -> "refused"

\* What recovery makes of the records in the directory.
Verdict ==
    CASE Cardinality(Records) > 1 -> "refused"
      [] Records = {} -> "sweeping"
      [] OTHER ->
           LET t == Max(Records)
           IN IF ~ReadRecordOK(t) THEN "refused"
              ELSE IF data[t] = None THEN "undoing"
              ELSE IF ~MarkerMatches(t, record[t].id) THEN "refused"
              ELSE "finishing"

StartRecovery ==
    /\ pc \in {"closed", "refused"}
    /\ pc' = Verdict
    /\ IF Records # {} /\ pc' # "refused"
         THEN /\ target' = Max(Records)
              /\ todo' = record[target'].sources
         ELSE UNCHANGED <<target, todo>>
    /\ Works
    /\ UNCHANGED <<disk, left, group, mergeId, failed, latched, nextId>>
    /\ UNCHANGED <<files, book, ghost>>

\* The target was never published: the build and then the record go.
UndoBuilding ==
    /\ pc = "undoing"
    /\ pc' = "undone"
    /\ building' = [building EXCEPT ![target] = None]
    /\ disk' = [disk EXCEPT !.building[target] = @ \cup {None}]
    /\ Works
    /\ UNCHANGED <<data, record, temp, latched, nextId>>
    /\ UNCHANGED <<book, job, ghost>>

\* The target is published: its sources go ...
FinishRetire ==
    /\ pc = "finishing"
    /\ todo # {}
    /\ todo' = todo \ {Min(todo)}
    /\ data' = [data EXCEPT ![Min(todo)] = None]
    /\ disk' = [disk EXCEPT !.data[Min(todo)] = @ \cup {None}]
    /\ Works
    /\ UNCHANGED <<building, record, temp, pc, left, group, target, mergeId, failed>>
    /\ UNCHANGED <<latched, nextId>>
    /\ UNCHANGED <<book, ghost>>

\* ... durably, before the record goes.
FinishBarrier ==
    /\ pc = "finishing"
    /\ todo = {}
    /\ pc' = "undone"
    /\ disk' = Flushed
    /\ Works
    /\ UNCHANGED <<latched, nextId>>
    /\ UNCHANGED <<files, book, job, ghost>>

\* The record is removed; after a published merge so is any build left beside
\* it; the directory is synced.
RecoveryRemovesRecord ==
    /\ pc = "undone"
    /\ pc' = IF data[target] = None THEN "settling" ELSE "recordgone"
    /\ record' = [record EXCEPT ![target] = None]
    /\ disk' = [disk EXCEPT !.record[target] = @ \cup {None}]
    /\ Works
    /\ UNCHANGED <<data, building, temp, latched, nextId>>
    /\ UNCHANGED <<book, job, ghost>>

RecoveryRemovesBuilding ==
    /\ pc = "recordgone"
    /\ pc' = "settling"
    /\ building' = [building EXCEPT ![target] = None]
    /\ disk' = [disk EXCEPT !.building[target] = @ \cup {None}]
    /\ Works
    /\ UNCHANGED <<data, record, temp, latched, nextId>>
    /\ UNCHANGED <<book, job, ghost>>

RecoveryBarrier ==
    /\ pc = "settling"
    /\ pc' = "sweeping"
    /\ disk' = Flushed
    /\ Works
    /\ UNCHANGED <<latched, nextId>>
    /\ UNCHANGED <<files, book, job, ghost>>

\* Stray builds and half-written records are discarded, then the catalogue is
\* read from the directory, every version in it is opened once and the newest
\* is kept open; an empty container gets version 0.
FinishOpen ==
    LET empty == Holding(data) = {}
        fresh == [keys |-> {}, id |-> 0, whole |-> TRUE]
    IN /\ pc = "sweeping"
       /\ pc' = IF \A v \in Holding(data) : data[v].whole THEN "serving" ELSE "refused"
       /\ NoJob
       /\ building' = [v \in Version |-> None]
       /\ temp' = [v \in Version |-> None]
       /\ data' = IF empty THEN [data EXCEPT ![0] = fresh] ELSE data
       /\ disk' = [disk EXCEPT
                     !.building = [v \in Version |->
                        @[v] \cup (IF building[v] = None THEN {} ELSE {None})],
                     !.temp = [v \in Version |->
                        @[v] \cup (IF temp[v] = None THEN {} ELSE {None})],
                     !.data[0] = @ \cup (IF empty THEN {fresh} ELSE {})]
       /\ IF pc' = "serving"
            THEN catalog' = Holding(data') /\ issued' = Max(catalog')
            ELSE UNCHANGED book
       /\ Works
       /\ UNCHANGED <<record, latched, nextId>>
       /\ UNCHANGED ghost

\* A call of the recovery fails: open() returns the error.
OpenFails ==
    /\ \/ pc \in {"undoing", "undone", "finishing", "recordgone", "sweeping"} /\ Spend("unlink")
       \/ pc = "finishing" /\ todo = {} /\ Spend("barrier")
       \/ pc = "settling" /\ Spend("barrier")
    /\ pc' = "closed"
    /\ NoJob
    /\ UNCHANGED <<disk, latched, nextId>>
    /\ UNCHANGED <<files, book, ghost>>
-----------------------------------------------------------------------------
(* The environment *)

InstanceGone ==
    /\ pc' = "closed"
    /\ NoJob
    /\ catalog' = {}
    /\ issued' = 0
    /\ latched' = FALSE
    /\ UNCHANGED nextId

\* The process dies: what the system sees stays as it is.
ProcessCrash ==
    /\ pc \notin {"closed", "refused"}
    /\ Spend("crash")
    /\ InstanceGone
    /\ UNCHANGED disk
    /\ UNCHANGED <<files, ghost>>

\* The machine loses power: every name is left holding one of the things it
\* may hold.  The entries of generations that were never synced may go.
PowerLoss ==
    /\ Spend("power")
    /\ InstanceGone
    /\ data' \in Aftermath(disk.data)
    /\ building' \in Aftermath(disk.building)
    /\ record' \in Aftermath(disk.record)
    /\ temp' \in Aftermath(disk.temp)
    /\ disk' = [data     |-> [v \in Version |-> {data'[v]}],
                building |-> [v \in Version |-> {building'[v]}],
                record   |-> [v \in Version |-> {record'[v]}],
                temp     |-> [v \in Version |-> {temp'[v]}]]
    /\ held' = promised \cup (held \cap Readable')
    /\ UNCHANGED promised
-----------------------------------------------------------------------------
Init ==
    /\ data = [v \in Version |-> None]
    /\ building = [v \in Version |-> None]
    /\ record = [v \in Version |-> None]
    /\ temp = [v \in Version |-> None]
    /\ disk = [data     |-> [v \in Version |-> {None}],
               building |-> [v \in Version |-> {None}],
               record   |-> [v \in Version |-> {None}],
               temp     |-> [v \in Version |-> {None}]]
    /\ catalog = {}
    /\ issued = 0
    /\ pc = "closed"
    /\ left = {}
    /\ group = {}
    /\ target = 0
    /\ mergeId = 0
    /\ todo = {}
    /\ failed = FALSE
    /\ latched = FALSE
    /\ held = {}
    /\ promised = {}
    /\ nextId = 0
    /\ faults = 0

MergeStep ==
    \/ SkipFirst \/ GroupsDone \/ BuildTarget \/ GroupTooLarge \/ BuildFails
    \/ SyncBuilding \/ WriteRecord \/ NameRecord \/ MergeCalledOff
    \/ RecordBarrier \/ RecordBarrierFails \/ LinkTarget \/ UnlinkBuilding
    \/ LinkFails \/ WithdrawRecord \/ ConfirmWithdrawal \/ DiscardBuilding
    \/ MergeLatches \/ TargetBarrier \/ CheckMarker \/ RetireSource \/ RetireBarrier
    \/ RemoveRecord \/ MergeEnds \/ ReopenActive

OpenStep ==
    \/ StartRecovery \/ UndoBuilding \/ FinishRetire \/ FinishBarrier
    \/ RecoveryRemovesRecord \/ RecoveryRemovesBuilding \/ RecoveryBarrier
    \/ FinishOpen \/ OpenFails

Next ==
    \/ \E k \in Key : Insert(k) \/ Delete(k)
    \/ Sync
    \/ Close
    \/ StartCompaction
    \/ MergeStep
    \/ OpenStep
    \/ ProcessCrash
    \/ PowerLoss

Spec == Init /\ [][Next]_vars

\* A compaction and an open() run to their end; a caller whose instance is gone
\* or latched opens the database again.
FairSpec ==
    /\ Spec
    /\ WF_vars(MergeStep)
    /\ WF_vars(OpenStep)
    /\ WF_vars(Close /\ latched)
-----------------------------------------------------------------------------
(* Properties *)

Steps == {"closed", "refused", "serving", "grouping", "built", "filesynced",
          "recordwritten", "recordnamed", "recorded", "linked", "published",
          "withdrawing", "withdrawn", "calledoff", "targetdurable", "retiring",
          "sourcesretired", "recordremoved", "reopening", "undoing", "undone",
          "finishing", "recordgone", "settling", "sweeping"}

\* Every variable has its type.
TypeOK ==
    /\ data \in [Version -> GenFile \cup {None}]
    /\ building \in [Version -> GenFile \cup {None}]
    /\ record \in [Version -> Plan \cup {None}]
    /\ temp \in [Version -> Plan \cup {None}]
    /\ disk \in Disk
    /\ catalog \subseteq Version
    /\ issued \in Version
    /\ pc \in Steps
    /\ left \subseteq Version
    /\ group \subseteq Version
    /\ target \in Version
    /\ mergeId \in Merge
    /\ todo \subseteq Version
    /\ failed \in BOOLEAN
    /\ latched \in BOOLEAN
    /\ held \subseteq Key
    /\ promised \subseteq Key
    /\ nextId \in Merge
    /\ faults \in 0..MaxFaults

\* No step of a merge, of its failure, of a crash or of a recovery leaves an
\* entry in no generation.  A loss of power excuses the entries that no sync()
\* covered, and no others.
EntriesKept == held \subseteq Readable

\* An instance that answers requests has its catalogue equal to the files in
\* the directory, no key in two of them and nothing that was deleted: the
\* sources a merge superseded are never served beside its target.
ServedOnce ==
    pc = "serving" /\ ~latched =>
        /\ catalog = Holding(data)
        /\ ~Duplicates(catalog)
        /\ Readable \subseteq held

\* Recovery can always tell what happened: one readable record at most, and a
\* target the record describes.
RecoveryNeverRefuses == pc # "refused"

\* A generation leaves the directory only while another one, complete and under
\* a name that no power loss can take back, holds all its entries.
RetiredBehindDurableTarget ==
    [][\A v \in Version :
        data[v] # None /\ data'[v] = None /\ faults' = faults =>
            \E u \in Version \ {v} :
                /\ data[u] # None
                /\ data[v].keys \subseteq data[u].keys
                /\ disk.data[u] = {data[u]}]_vars

\* An instance that latched, died, was closed or could not be opened serves
\* again: closing and reopening is all that recovery_required asks for.
ServesAgain == (latched \/ pc \in {"closed", "refused"}) ~> (pc = "serving" /\ ~latched)

\* merge_groups ends, whatever fits and whatever fails.
CompactionEnds == (pc = "grouping") ~> pc \in {"serving", "closed"}
=============================================================================
