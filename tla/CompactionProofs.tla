-------------------------- MODULE CompactionProofs --------------------------
(***************************************************************************)
(* The compaction of a container, for every number of keys, versions,      *)
(* merges and faults.  First its types, under every choice of faults.      *)
(* Then its safety without loss of power: no entry is lost by a            *)
(* compaction, a failure in one, a crash or the recovery that follows,     *)
(* none is served twice or after its deletion, and recovery refuses no     *)
(* directory that an instance left behind.  Last its safety under any      *)
(* number of losses of power, when no process dies alone and no barrier    *)
(* fails (with either it is false: the runs recovery_retires_early and     *)
(* two_records), and that a generation is unlinked only behind a target    *)
(* whose name is durable.                                                  *)
(***************************************************************************)
EXTENDS Compaction, SetLemmas, TLAPS, FiniteSetTheorems

-----------------------------------------------------------------------------
(* Types: the inductive invariant *)

\* What the system sees under a name is among what a power loss may leave there.
SeenPossible ==
    \A v \in Version :
        /\ data[v] \in disk.data[v]
        /\ building[v] \in disk.building[v]
        /\ record[v] \in disk.record[v]
        /\ temp[v] \in disk.temp[v]

\* Where a merge has its target built and not yet published.
BeforeLink == {"built", "filesynced", "recordwritten", "recordnamed", "recorded"}

\* The files a merge in hand is about to name are there.
StageFiles ==
    /\ pc \in BeforeLink => building[target] # None /\ building[target].whole
    /\ pc = "recordwritten" => temp[target] # None

\* Where there is no instance yet.
Opening == {"closed", "refused", "undoing", "undone", "finishing", "recordgone", "settling",
            "sweeping"}

\* Where the generations to be merged are all in the catalogue.
Unretired == BeforeLink \cup {"grouping", "linked", "published", "targetdurable"}

\* The catalogue names files that are there, and a merge works on its versions.
CatalogInv ==
    /\ catalog \subseteq Holding(data)
    /\ pc \in Opening => catalog = {}
    /\ pc \notin Opening => catalog # {}
    /\ pc \in Unretired => group \subseteq left /\ left \subseteq catalog
    /\ pc \in Unretired \ {"grouping"} => target \notin group
    /\ pc \in {"retiring", "sourcesretired", "recordremoved"} => left \ group \subseteq catalog
    /\ pc = "retiring" => todo \cap catalog = {}

TypeInv == TypeOK /\ SeenPossible /\ StageFiles /\ CatalogInv
-----------------------------------------------------------------------------
(* Least and greatest versions *)

\* The source retired next is one of those left.
LEMMA MinMember ==
    ASSUME NEW S \in SUBSET Version, S # {}
    PROVE  Min(S) \in S /\ \A x \in S : Min(S) <= x
<1>1. S \in SUBSET Nat
    BY CompactionAssumption DEF Version
<1>. QED
    BY <1>1, MinOf

\* The active generation is in the catalogue, and the highest version issued
\* bounds it.
LEMMA MaxMember ==
    ASSUME NEW S \in SUBSET Version, S # {}
    PROVE  Max(S) \in S /\ \A x \in S : x <= Max(S)
    BY MaxOf, CompactionAssumption DEF Version
-----------------------------------------------------------------------------
(* Type correctness *)

\* The values a closed instance's variables have are of their type.
LEMMA ZeroType == 0 \in Version /\ 0 \in Merge
    BY CompactionAssumption DEF Version, Merge

\* A barrier on the directory forgets possibilities, never what is seen.
LEMMA FlushedType ==
    ASSUME TypeOK, SeenPossible
    PROVE  /\ Flushed \in Disk
           /\ \A v \in Version :
                /\ data[v] \in Flushed.data[v]
                /\ building[v] \in Flushed.building[v]
                /\ record[v] \in Flushed.record[v]
                /\ temp[v] \in Flushed.temp[v]
    BY DEF TypeOK, SeenPossible, Flushed, Settle, Disk, GenFile, Plan

\* A power loss leaves something a name may hold under every name.
LEMMA AftermathType ==
    ASSUME NEW S, NEW D \in [Version -> SUBSET S], \A v \in Version : D[v] # {}
    PROVE  \A f \in Aftermath(D) : f \in [Version -> S]
<1>. DEFINE unsettled == {v \in Version : Cardinality(D[v]) > 1}
            picks == {p \in [unsettled -> UNION {D[v] : v \in unsettled}] :
                        \A v \in unsettled : p[v] \in D[v]}
            outcome(p) == [v \in Version |->
                          IF v \in unsettled THEN p[v] ELSE CHOOSE c \in D[v] : TRUE]
<1>1. SUFFICES ASSUME NEW p \in picks PROVE outcome(p) \in [Version -> S]
    BY DEF Aftermath
<1>2. ASSUME NEW v \in Version PROVE outcome(p)[v] \in S
    <2>1. CASE v \in unsettled
        BY <2>1
    <2>2. CASE v \notin unsettled
        <3>1. (CHOOSE c \in D[v] : TRUE) \in D[v]
            OBVIOUS
        <3>. QED
            BY <2>2, <3>1
    <2>. QED
        BY <2>1, <2>2
<1>. QED
    BY <1>2

\* Every step of the container, of recovery and of the environment keeps the
\* type invariant, with what it needs: power loss leaves something under every
\* name, and a merge reads only generations that are there.
LEMMA TypeStep == TypeInv /\ [Next]_vars => TypeInv'
<1>. SUFFICES ASSUME TypeInv, [Next]_vars PROVE TypeInv'
    OBVIOUS
<1>. USE CompactionAssumption DEF TypeInv, files, book, job, ghost, Works, Spend
<1>1. ASSUME NEW k \in Key, Insert(k) PROVE TypeInv'
    <2>. DEFINE full == Cardinality(data[Active].keys) >= RotateAt
                v == IF full THEN issued + 1 ELSE Active
                old == IF full THEN [keys |-> {}, id |-> 0, whole |-> TRUE] ELSE data[v]
                new == [old EXCEPT !.keys = @ \cup {k}]
    <2>a. /\ pc = "serving"
          /\ v \in Version
          /\ data' = [data EXCEPT ![v] = new]
          /\ disk' = [disk EXCEPT !.data[v] =
                         IF full THEN @ \cup {new}
                                 ELSE {IF x = old THEN new ELSE x : x \in @}]
          /\ catalog' = catalog \cup {v}
          /\ issued' = IF full THEN v ELSE issued
          /\ held' = held \cup {k}
          /\ UNCHANGED <<building, record, temp, pc, latched, promised, nextId, faults>>
          /\ UNCHANGED job
        BY <1>1 DEF Insert
    <2>b. Active \in catalog /\ catalog \subseteq Holding(data)
        BY <2>a, MaxMember DEF CatalogInv, Opening, Active, TypeOK
    <2>c. old \in GenFile
        <3>1. CASE full
            BY <3>1, ZeroType DEF GenFile
        <3>2. CASE ~full
            BY <2>b, <3>2 DEF Holding, TypeOK
        <3>. QED
            BY <3>1, <3>2
    <2>d. new \in GenFile /\ new # None
        <3>. HIDE DEF full, v, old
        <3>1. new \in GenFile
            BY <2>c DEF GenFile
        <3>. QED
            BY <3>1
    <2>e. disk.data[v] \in SUBSET (GenFile \cup {None})
        BY <2>a DEF TypeOK, Disk
    <2>f. data[v] \in disk.data[v] /\ (~full => old = data[v])
        BY <2>a DEF SeenPossible
    <2>. DEFINE after == IF full THEN disk.data[v] \cup {new}
                                 ELSE {IF x = old THEN new ELSE x : x \in disk.data[v]}
    <2>g. after \in SUBSET (GenFile \cup {None})
        BY <2>d, <2>e
    <2>h. new \in after
        BY <2>f
    <2>i. disk' = [disk EXCEPT !.data[v] = after]
        BY <2>a
    <2>. HIDE DEF full, v, old, new, after
    <2>j. disk' \in Disk
        BY <2>a, <2>g, <2>i DEF TypeOK, Disk
    <2>k. disk'.data = [disk.data EXCEPT ![v] = after]
        BY <2>i DEF TypeOK, Disk
    <2>1. TypeOK'
        BY <2>a, <2>d, <2>j DEF TypeOK
    <2>2. SeenPossible'
        <3>1. /\ disk'.building = disk.building
              /\ disk'.record = disk.record
              /\ disk'.temp = disk.temp
            BY <2>i DEF TypeOK, Disk
        <3>. QED
            BY <2>a, <2>h, <2>k, <3>1 DEF SeenPossible, TypeOK, Disk
    <2>3. StageFiles'
        BY <2>a DEF StageFiles, BeforeLink
    <2>4. CatalogInv'
        BY <2>a, <2>d DEF CatalogInv, Opening, Unretired, BeforeLink, Holding, TypeOK
    <2>. QED
        BY <2>1, <2>2, <2>3, <2>4
<1>2. ASSUME NEW k \in Key, Delete(k) PROVE TypeInv'
    <2>0. PICK v \in catalog :
            /\ data' = [data EXCEPT ![v].keys = @ \ {k}]
            /\ disk' = [disk EXCEPT !.data[v] =
                          {IF x = data[v] THEN [x EXCEPT !.keys = @ \ {k}] ELSE x : x \in @}]
        BY <1>2 DEF Delete
    <2>. DEFINE new == [data[v] EXCEPT !.keys = @ \ {k}]
                after == {IF x = data[v] THEN [x EXCEPT !.keys = @ \ {k}] ELSE x : x \in disk.data[v]}
    <2>a. v \in Version /\ data[v] \in GenFile
        BY <2>0 DEF CatalogInv, Holding, TypeOK
    <2>b. new \in GenFile /\ new # None
        BY <2>a DEF GenFile
    <2>c. data' = [data EXCEPT ![v] = new]
        BY <2>0, <2>a DEF TypeOK
    <2>d. disk' = [disk EXCEPT !.data[v] = after]
        BY <2>0
    <2>e. after \in SUBSET (GenFile \cup {None})
        <3>1. disk.data[v] \in SUBSET (GenFile \cup {None})
            BY <2>a DEF TypeOK, Disk
        <3>2. \A x \in disk.data[v] : x = data[v] => [x EXCEPT !.keys = @ \ {k}] \in GenFile
            BY <2>b
        <3>. QED
            BY <3>1, <3>2
    <2>f. new \in after
        BY <2>a DEF SeenPossible
    <2>. HIDE DEF new, after
    <2>g. /\ pc = "serving"
          /\ held' = held \ {k}
          /\ promised' = promised \ {k}
          /\ UNCHANGED <<building, record, temp, pc, latched, nextId, faults, catalog, issued>>
          /\ UNCHANGED job
        BY <1>2 DEF Delete
    <2>j. disk' \in Disk
        <3>1. [disk.data EXCEPT ![v] = after] \in [Version -> SUBSET (GenFile \cup {None})]
            BY <2>e DEF TypeOK, Disk
        <3>2. disk' = [data |-> [disk.data EXCEPT ![v] = after], building |-> disk.building,
                       record |-> disk.record, temp |-> disk.temp]
            BY <2>d DEF TypeOK, Disk
        <3>. QED
            BY <3>1, <3>2 DEF TypeOK, Disk
    <2>k. /\ disk'.data = [disk.data EXCEPT ![v] = after]
          /\ disk'.building = disk.building
          /\ disk'.record = disk.record
          /\ disk'.temp = disk.temp
        BY <2>d DEF TypeOK, Disk
    <2>1. TypeOK'
        BY <2>a, <2>b, <2>c, <2>g, <2>j DEF TypeOK
    <2>2. SeenPossible'
        BY <2>a, <2>c, <2>f, <2>g, <2>k DEF SeenPossible, TypeOK, Disk
    <2>3. StageFiles'
        BY <2>g DEF StageFiles, BeforeLink
    <2>4. CatalogInv'
        BY <2>a, <2>b, <2>c, <2>g DEF CatalogInv, Opening, Unretired, BeforeLink, Holding, TypeOK
    <2>. QED
        BY <2>1, <2>2, <2>3, <2>4
<1>3. CASE Sync
    <2>1. TypeOK'
        BY <1>3, FlushedType DEF Sync, TypeOK, Steps
    <2>2. SeenPossible'
        BY <1>3, FlushedType DEF Sync, SeenPossible
    <2>3. StageFiles'
        BY <1>3 DEF Sync, StageFiles, BeforeLink
    <2>4. CatalogInv'
        BY <1>3 DEF Sync, CatalogInv, Opening, Unretired, BeforeLink, Holding
    <2>. QED
        BY <2>1, <2>2, <2>3, <2>4
<1>4. CASE Close
    <2>1. TypeOK'
        BY <1>4, ZeroType DEF Close, TypeOK, Steps
    <2>2. SeenPossible'
        BY <1>4 DEF Close, SeenPossible
    <2>3. StageFiles'
        BY <1>4 DEF Close, StageFiles, BeforeLink
    <2>4. CatalogInv'
        BY <1>4 DEF Close, CatalogInv, Opening, Unretired, BeforeLink, Holding
    <2>. QED
        BY <2>1, <2>2, <2>3, <2>4
<1>5. CASE StartCompaction
    <2>1. TypeOK'
        BY <1>5 DEF StartCompaction, TypeOK, Steps
    <2>2. SeenPossible'
        BY <1>5 DEF StartCompaction, SeenPossible
    <2>3. StageFiles'
        BY <1>5 DEF StartCompaction, StageFiles, BeforeLink
    <2>4. CatalogInv'
        BY <1>5 DEF StartCompaction, CatalogInv, Opening, Unretired, BeforeLink, Holding
    <2>. QED
        BY <2>1, <2>2, <2>3, <2>4
<1>6. CASE SkipFirst
    <2>1. TypeOK'
        BY <1>6, MinMember DEF SkipFirst, TypeOK, Steps
    <2>2. SeenPossible'
        BY <1>6 DEF SkipFirst, SeenPossible
    <2>3. StageFiles'
        BY <1>6 DEF SkipFirst, StageFiles, BeforeLink
    <2>4. CatalogInv'
        BY <1>6, MinMember DEF SkipFirst, CatalogInv, Opening, Unretired, BeforeLink, TypeOK,
               Holding
    <2>. QED
        BY <2>1, <2>2, <2>3, <2>4
<1>7. CASE GroupsDone
    <2>1. TypeOK'
        BY <1>7 DEF GroupsDone, TypeOK, Steps
    <2>2. SeenPossible'
        BY <1>7 DEF GroupsDone, SeenPossible
    <2>3. StageFiles'
        BY <1>7 DEF GroupsDone, StageFiles, BeforeLink
    <2>4. CatalogInv'
        BY <1>7 DEF GroupsDone, CatalogInv, Opening, Unretired, BeforeLink, Holding
    <2>. QED
        BY <2>1, <2>2, <2>3, <2>4
<1>8. CASE BuildTarget
    <2>. KeysIn(group) \in SUBSET Key
        BY <1>8 DEF BuildTarget, TypeOK, CatalogInv, Unretired, KeysIn, Holding, GenFile
    <2>. nextId + 1 \in Merge
        BY <1>8 DEF BuildTarget, TypeOK, Merge
    <2>. NewTarget \in GenFile /\ Torn(NewTarget) \in GenFile /\ NewTarget.whole
        BY DEF NewTarget, Torn, GenFile
    <2>. Target \in Version /\ NewTarget # None
        BY <1>8 DEF BuildTarget
    <2>1. TypeOK'
        BY <1>8 DEF BuildTarget, TypeOK, Steps, Disk
    <2>2. SeenPossible'
        BY <1>8 DEF BuildTarget, SeenPossible, TypeOK, Disk
    <2>3. StageFiles'
        BY <1>8 DEF BuildTarget, StageFiles, BeforeLink, TypeOK
    <2>4. CatalogInv'
        BY <1>8 DEF BuildTarget, CatalogInv, Opening, Unretired, BeforeLink, Holding, TypeOK
    <2>. QED
        BY <2>1, <2>2, <2>3, <2>4
<1>9. CASE GroupTooLarge
    <2>1. TypeOK'
        BY <1>9, MaxMember DEF GroupTooLarge, TypeOK, Steps, Abandon, MayRemove, Target, Disk
    <2>2. SeenPossible'
        BY <1>9 DEF GroupTooLarge, SeenPossible, Abandon, MayRemove, Target, TypeOK, Disk
    <2>3. StageFiles'
        BY <1>9 DEF GroupTooLarge, StageFiles, BeforeLink
    <2>4. CatalogInv'
        BY <1>9 DEF GroupTooLarge, CatalogInv, Opening, Unretired, BeforeLink, Holding
    <2>. QED
        BY <2>1, <2>2, <2>3, <2>4
<1>10. CASE BuildFails
    <2>1. TypeOK'
        BY <1>10 DEF BuildFails, TypeOK, Steps, Abandon, MayRemove, Target, Disk
    <2>2. SeenPossible'
        BY <1>10 DEF BuildFails, SeenPossible, Abandon, MayRemove, Target, TypeOK, Disk
    <2>3. StageFiles'
        BY <1>10 DEF BuildFails, StageFiles, BeforeLink
    <2>4. CatalogInv'
        BY <1>10 DEF BuildFails, CatalogInv, Opening, Unretired, BeforeLink, Holding
    <2>. QED
        BY <2>1, <2>2, <2>3, <2>4
<1>11. CASE SyncBuilding
    <2>1. TypeOK'
        BY <1>11 DEF SyncBuilding, TypeOK, Steps, Torn, Disk
    <2>2. SeenPossible'
        BY <1>11 DEF SyncBuilding, SeenPossible, Torn, TypeOK, Disk, StageFiles, BeforeLink, GenFile
    <2>3. StageFiles'
        BY <1>11 DEF SyncBuilding, StageFiles, BeforeLink
    <2>4. CatalogInv'
        BY <1>11 DEF SyncBuilding, CatalogInv, Opening, Unretired, BeforeLink, Holding
    <2>. QED
        BY <2>1, <2>2, <2>3, <2>4
<1>12. CASE WriteRecord
    <2>. mergeId \in Merge /\ group \in SUBSET Version
        BY DEF TypeOK
    <2>a. ThePlan \in Plan
        BY DEF ThePlan, Plan
    <2>b. ThePlan # None
        BY <2>a
    <2>. USE <2>a, <2>b
    <2>1. TypeOK'
        BY <1>12 DEF WriteRecord, TypeOK, Steps, Disk
    <2>2. SeenPossible'
        BY <1>12 DEF WriteRecord, SeenPossible, TypeOK, Disk
    <2>3. StageFiles'
        BY <1>12 DEF WriteRecord, StageFiles, BeforeLink, TypeOK
    <2>4. CatalogInv'
        BY <1>12 DEF WriteRecord, CatalogInv, Opening, Unretired, BeforeLink, Holding
    <2>. QED
        BY <2>1, <2>2, <2>3, <2>4
<1>13. CASE NameRecord
    <2>1. TypeOK'
        BY <1>13 DEF NameRecord, TypeOK, Steps, Disk
    <2>2. SeenPossible'
        BY <1>13 DEF NameRecord, SeenPossible, TypeOK, Disk, StageFiles
    <2>3. StageFiles'
        BY <1>13 DEF NameRecord, StageFiles, BeforeLink
    <2>4. CatalogInv'
        BY <1>13 DEF NameRecord, CatalogInv, Opening, Unretired, BeforeLink, Holding
    <2>. QED
        BY <2>1, <2>2, <2>3, <2>4
<1>14. CASE MergeCalledOff
    <2>1. TypeOK'
        <3>1. building' \in [Version -> GenFile \cup {None}]
            BY <1>14 DEF MergeCalledOff, TypeOK, MayRemove
        <3>2. temp' \in [Version -> Plan \cup {None}]
            BY <1>14 DEF MergeCalledOff, TypeOK, MayRemove
        <3>3. building'[target] \in GenFile \cup {None} /\ temp'[target] \in Plan \cup {None}
            BY <1>14, <3>1, <3>2 DEF MergeCalledOff, TypeOK
        <3>4. disk' \in Disk
            <4>1. disk' = [data     |-> disk.data,
                           building |-> [disk.building EXCEPT ![target] = @ \cup {building'[target]}],
                           record   |-> disk.record,
                           temp     |-> [disk.temp EXCEPT ![target] = @ \cup {temp'[target]}]]
                <5>1. DOMAIN disk = {"data", "building", "record", "temp"}
                    BY DEF TypeOK, Disk
                <5>. QED
                    BY <1>14, <5>1 DEF MergeCalledOff, TypeOK, Disk
            <4>2. [disk.building EXCEPT ![target] = @ \cup {building'[target]}]
                     \in [Version -> SUBSET (GenFile \cup {None})]
                BY <3>3 DEF TypeOK, Disk
            <4>3. [disk.temp EXCEPT ![target] = @ \cup {temp'[target]}]
                     \in [Version -> SUBSET (Plan \cup {None})]
                BY <3>3 DEF TypeOK, Disk
            <4>. QED
                BY <4>1, <4>2, <4>3 DEF TypeOK, Disk
        <3>5. faults' \in 0..MaxFaults
            BY <1>14 DEF MergeCalledOff, TypeOK
        <3>6. pc' \in Steps
            BY <1>14 DEF MergeCalledOff, TypeOK, Steps
        <3>. QED
            BY <3>1, <3>2, <3>3, <3>4, <3>5, <3>6, <1>14 DEF MergeCalledOff, TypeOK
    <2>2. SeenPossible'
        BY <1>14 DEF MergeCalledOff, SeenPossible, MayRemove, Disk, TypeOK
    <2>3. StageFiles'
        BY <1>14 DEF MergeCalledOff, StageFiles, BeforeLink
    <2>4. CatalogInv'
        BY <1>14 DEF MergeCalledOff, CatalogInv, Opening, Unretired, BeforeLink, Holding
    <2>. QED
        BY <2>1, <2>2, <2>3, <2>4
<1>15. CASE RecordBarrier
    <2>1. TypeOK'
        BY <1>15, FlushedType DEF RecordBarrier, TypeOK, Steps
    <2>2. SeenPossible'
        BY <1>15, FlushedType DEF RecordBarrier, SeenPossible
    <2>3. StageFiles'
        BY <1>15 DEF RecordBarrier, StageFiles, BeforeLink
    <2>4. CatalogInv'
        BY <1>15 DEF RecordBarrier, CatalogInv, Opening, Unretired, BeforeLink, Holding
    <2>. QED
        BY <2>1, <2>2, <2>3, <2>4
<1>16. CASE RecordBarrierFails
    <2>1. TypeOK'
        <3>1. building' \in [Version -> GenFile \cup {None}]
            BY <1>16 DEF RecordBarrierFails, TypeOK, MayRemove
        <3>2. record' \in [Version -> Plan \cup {None}]
            BY <1>16 DEF RecordBarrierFails, TypeOK, MayRemove
        <3>3. building'[target] \in GenFile \cup {None} /\ record'[target] \in Plan \cup {None}
            BY <1>16, <3>1, <3>2 DEF RecordBarrierFails, TypeOK
        <3>4. disk' \in Disk
            <4>1. disk' = [data     |-> disk.data,
                           building |-> [disk.building EXCEPT ![target] = @ \cup {building'[target]}],
                           record   |-> [disk.record EXCEPT ![target] = @ \cup {record'[target]}],
                           temp     |-> disk.temp]
                <5>1. DOMAIN disk = {"data", "building", "record", "temp"}
                    BY DEF TypeOK, Disk
                <5>. QED
                    BY <1>16, <5>1 DEF RecordBarrierFails, TypeOK, Disk
            <4>2. [disk.building EXCEPT ![target] = @ \cup {building'[target]}]
                     \in [Version -> SUBSET (GenFile \cup {None})]
                BY <3>3 DEF TypeOK, Disk
            <4>3. [disk.record EXCEPT ![target] = @ \cup {record'[target]}]
                     \in [Version -> SUBSET (Plan \cup {None})]
                BY <3>3 DEF TypeOK, Disk
            <4>. QED
                BY <4>1, <4>2, <4>3 DEF TypeOK, Disk
        <3>5. faults' \in 0..MaxFaults
            BY <1>16 DEF RecordBarrierFails, TypeOK
        <3>6. pc' \in Steps
            BY <1>16 DEF RecordBarrierFails, TypeOK, Steps
        <3>. QED
            BY <3>1, <3>2, <3>3, <3>4, <3>5, <3>6, <1>16 DEF RecordBarrierFails, TypeOK
    <2>2. SeenPossible'
        BY <1>16 DEF RecordBarrierFails, SeenPossible, MayRemove, Disk, TypeOK
    <2>3. StageFiles'
        BY <1>16 DEF RecordBarrierFails, StageFiles, BeforeLink
    <2>4. CatalogInv'
        BY <1>16 DEF RecordBarrierFails, CatalogInv, Opening, Unretired, BeforeLink, Holding
    <2>. QED
        BY <2>1, <2>2, <2>3, <2>4
<1>17. CASE LinkTarget
    <2>1. TypeOK'
        BY <1>17 DEF LinkTarget, TypeOK, Steps, Disk
    <2>2. SeenPossible'
        BY <1>17 DEF LinkTarget, SeenPossible, TypeOK, Disk, StageFiles, BeforeLink
    <2>3. StageFiles'
        BY <1>17 DEF LinkTarget, StageFiles, BeforeLink
    <2>4. CatalogInv'
        BY <1>17 DEF LinkTarget, CatalogInv, Opening, Unretired, BeforeLink, Holding, TypeOK,
               StageFiles
    <2>. QED
        BY <2>1, <2>2, <2>3, <2>4
<1>18. CASE UnlinkBuilding
    <2>1. TypeOK'
        BY <1>18 DEF UnlinkBuilding, TypeOK, Steps, Abandon, MayRemove, Disk
    <2>2. SeenPossible'
        BY <1>18 DEF UnlinkBuilding, SeenPossible, Abandon, MayRemove, TypeOK, Disk
    <2>3. StageFiles'
        BY <1>18 DEF UnlinkBuilding, StageFiles, BeforeLink
    <2>4. CatalogInv'
        BY <1>18 DEF UnlinkBuilding, CatalogInv, Opening, Unretired, BeforeLink, Holding
    <2>. QED
        BY <2>1, <2>2, <2>3, <2>4
<1>19. CASE LinkFails
    <2>1. TypeOK'
        BY <1>19 DEF LinkFails, TypeOK, Steps
    <2>2. SeenPossible'
        BY <1>19 DEF LinkFails, SeenPossible
    <2>3. StageFiles'
        BY <1>19 DEF LinkFails, StageFiles, BeforeLink
    <2>4. CatalogInv'
        BY <1>19 DEF LinkFails, CatalogInv, Opening, Unretired, BeforeLink, Holding
    <2>. QED
        BY <2>1, <2>2, <2>3, <2>4
<1>20. CASE WithdrawRecord
    <2>1. TypeOK'
        BY <1>20 DEF WithdrawRecord, TypeOK, Steps, Disk
    <2>2. SeenPossible'
        BY <1>20 DEF WithdrawRecord, SeenPossible, TypeOK, Disk
    <2>3. StageFiles'
        BY <1>20 DEF WithdrawRecord, StageFiles, BeforeLink
    <2>4. CatalogInv'
        BY <1>20 DEF WithdrawRecord, CatalogInv, Opening, Unretired, BeforeLink, Holding
    <2>. QED
        BY <2>1, <2>2, <2>3, <2>4
<1>21. CASE ConfirmWithdrawal
    <2>1. TypeOK'
        BY <1>21, FlushedType DEF ConfirmWithdrawal, TypeOK, Steps
    <2>2. SeenPossible'
        BY <1>21, FlushedType DEF ConfirmWithdrawal, SeenPossible
    <2>3. StageFiles'
        BY <1>21 DEF ConfirmWithdrawal, StageFiles, BeforeLink
    <2>4. CatalogInv'
        BY <1>21 DEF ConfirmWithdrawal, CatalogInv, Opening, Unretired, BeforeLink, Holding
    <2>. QED
        BY <2>1, <2>2, <2>3, <2>4
<1>22. CASE DiscardBuilding
    <2>1. TypeOK'
        BY <1>22 DEF DiscardBuilding, TypeOK, Steps, Abandon, MayRemove, Disk
    <2>2. SeenPossible'
        BY <1>22 DEF DiscardBuilding, SeenPossible, Abandon, MayRemove, TypeOK, Disk
    <2>3. StageFiles'
        BY <1>22 DEF DiscardBuilding, StageFiles, BeforeLink
    <2>4. CatalogInv'
        BY <1>22 DEF DiscardBuilding, CatalogInv, Opening, Unretired, BeforeLink, Holding
    <2>. QED
        BY <2>1, <2>2, <2>3, <2>4
<1>23. CASE MergeLatches
    <2>1. TypeOK'
        BY <1>23 DEF MergeLatches, TypeOK, Steps
    <2>2. SeenPossible'
        BY <1>23 DEF MergeLatches, SeenPossible
    <2>3. StageFiles'
        BY <1>23 DEF MergeLatches, StageFiles, BeforeLink
    <2>4. CatalogInv'
        BY <1>23 DEF MergeLatches, CatalogInv, Opening, Unretired, BeforeLink, Holding
    <2>. QED
        BY <2>1, <2>2, <2>3, <2>4
<1>24. CASE TargetBarrier
    <2>1. TypeOK'
        BY <1>24, FlushedType DEF TargetBarrier, TypeOK, Steps
    <2>2. SeenPossible'
        BY <1>24, FlushedType DEF TargetBarrier, SeenPossible
    <2>3. StageFiles'
        BY <1>24 DEF TargetBarrier, StageFiles, BeforeLink
    <2>4. CatalogInv'
        BY <1>24 DEF TargetBarrier, CatalogInv, Opening, Unretired, BeforeLink, Holding
    <2>. QED
        BY <2>1, <2>2, <2>3, <2>4
<1>25. CASE CheckMarker
    <2>1. TypeOK'
        <3>1. CASE MarkerMatches(target, mergeId)
            BY <1>25, <3>1 DEF CheckMarker, TypeOK, Steps
        <3>2. CASE ~MarkerMatches(target, mergeId)
            BY <1>25, <3>2 DEF CheckMarker, TypeOK, Steps
        <3>. QED
            BY <3>1, <3>2
    <2>2. SeenPossible'
        BY <1>25 DEF CheckMarker, SeenPossible
    <2>3. StageFiles'
        BY <1>25 DEF CheckMarker, StageFiles, BeforeLink
    <2>4. CatalogInv'
        BY <1>25 DEF CheckMarker, CatalogInv, Opening, Unretired, BeforeLink, Holding, TypeOK,
               MarkerMatches
    <2>. QED
        BY <2>1, <2>2, <2>3, <2>4
<1>26. CASE RetireSource
    <2>. Min(todo) \in todo /\ Min(todo) \in Version
        BY <1>26, MinMember DEF RetireSource, TypeOK
    <2>1. TypeOK'
        <3>1. data' \in [Version -> GenFile \cup {None}]
            BY <1>26 DEF RetireSource, TypeOK
        <3>2. disk' \in Disk
            BY <1>26 DEF RetireSource, TypeOK, Disk
        <3>3. failed' \in BOOLEAN
            BY <1>26 DEF RetireSource, TypeOK
        <3>4. faults' \in 0..MaxFaults
            BY <1>26 DEF RetireSource, TypeOK
        <3>5. todo' \subseteq Version
            BY <1>26 DEF RetireSource, TypeOK
        <3>. QED
            BY <3>1, <3>2, <3>3, <3>4, <3>5, <1>26 DEF RetireSource, TypeOK
    <2>2. SeenPossible'
        BY <1>26 DEF RetireSource, SeenPossible, TypeOK, Disk
    <2>3. StageFiles'
        BY <1>26 DEF RetireSource, StageFiles, BeforeLink
    <2>4. CatalogInv'
        BY <1>26 DEF RetireSource, CatalogInv, Opening, Unretired, BeforeLink, Holding, TypeOK
    <2>. QED
        BY <2>1, <2>2, <2>3, <2>4
<1>27. CASE RetireBarrier
    <2>. failed' \in BOOLEAN /\ latched' \in BOOLEAN
        BY <1>27 DEF RetireBarrier, TypeOK
    <2>1. TypeOK'
        BY <1>27, FlushedType DEF RetireBarrier, TypeOK, Steps
    <2>2. SeenPossible'
        BY <1>27, FlushedType DEF RetireBarrier, SeenPossible
    <2>3. StageFiles'
        BY <1>27 DEF RetireBarrier, StageFiles, BeforeLink
    <2>4. CatalogInv'
        BY <1>27 DEF RetireBarrier, CatalogInv, Opening, Unretired, BeforeLink, Holding
    <2>. QED
        BY <2>1, <2>2, <2>3, <2>4
<1>28. CASE RemoveRecord
    <2>1. TypeOK'
        BY <1>28 DEF RemoveRecord, TypeOK, Steps, Disk
    <2>2. SeenPossible'
        BY <1>28 DEF RemoveRecord, SeenPossible, TypeOK, Disk
    <2>3. StageFiles'
        BY <1>28 DEF RemoveRecord, StageFiles, BeforeLink
    <2>4. CatalogInv'
        BY <1>28 DEF RemoveRecord, CatalogInv, Opening, Unretired, BeforeLink, Holding
    <2>. QED
        BY <2>1, <2>2, <2>3, <2>4
<1>29. CASE MergeEnds
    <2>1. TypeOK'
        BY <1>29, FlushedType DEF MergeEnds, TypeOK, Steps
    <2>2. SeenPossible'
        BY <1>29, FlushedType DEF MergeEnds, SeenPossible
    <2>3. StageFiles'
        BY <1>29 DEF MergeEnds, StageFiles, BeforeLink
    <2>4. CatalogInv'
        BY <1>29 DEF MergeEnds, CatalogInv, Opening, Unretired, BeforeLink, Holding
    <2>. QED
        BY <2>1, <2>2, <2>3, <2>4
<1>30. CASE ReopenActive
    <2>1. TypeOK'
        <3>1. latched' \in BOOLEAN
            BY <1>30 DEF ReopenActive, TypeOK
        <3>2. faults' \in 0..MaxFaults
            BY <1>30 DEF ReopenActive, TypeOK
        <3>3. pc' \in Steps
            BY <1>30 DEF ReopenActive, TypeOK, Steps
        <3>4. left' \subseteq Version /\ group' \subseteq Version /\ todo' \subseteq Version
            BY <1>30 DEF ReopenActive, TypeOK, NoJob
        <3>5. target' \in Version /\ mergeId' \in Merge /\ failed' \in BOOLEAN
            BY <1>30, ZeroType DEF ReopenActive, TypeOK, NoJob
        <3>. QED
            BY <3>1, <3>2, <3>3, <3>4, <3>5, <1>30 DEF ReopenActive, TypeOK
    <2>2. SeenPossible'
        BY <1>30 DEF ReopenActive, SeenPossible
    <2>3. StageFiles'
        BY <1>30 DEF ReopenActive, StageFiles, BeforeLink, NoJob
    <2>4. CatalogInv'
        BY <1>30 DEF ReopenActive, CatalogInv, Opening, Unretired, BeforeLink, NoJob, Holding
    <2>. QED
        BY <2>1, <2>2, <2>3, <2>4
<1>31. CASE StartRecovery
    <2>a. pc' \in Opening
        BY <1>31 DEF StartRecovery, Verdict, Opening
    <2>b. target' \in Version /\ todo' \subseteq Version
        <3>1. CASE Records # {} /\ pc' # "refused"
            <4>1. Records \in SUBSET Version
                BY DEF Records, Holding
            <4>2. Max(Records) \in Version /\ record[Max(Records)] # None
                BY <3>1, <4>1, MaxMember DEF Records, Holding
            <4>3. record[Max(Records)] \in Plan
                BY <4>2 DEF TypeOK
            <4>4. record[Max(Records)].sources \subseteq Version
                BY <4>3 DEF Plan
            <4>. QED
                BY <1>31, <3>1, <4>2, <4>4 DEF StartRecovery
        <3>2. CASE ~(Records # {} /\ pc' # "refused")
            BY <1>31, <3>2 DEF StartRecovery, TypeOK
        <3>. QED
            BY <3>1, <3>2
    <2>1. TypeOK'
        BY <1>31, <2>a, <2>b DEF StartRecovery, TypeOK, Steps, Opening
    <2>2. SeenPossible'
        BY <1>31 DEF StartRecovery, SeenPossible
    <2>3. StageFiles'
        BY <1>31, <2>a DEF StartRecovery, StageFiles, BeforeLink, Opening
    <2>4. CatalogInv'
        BY <1>31, <2>a DEF StartRecovery, CatalogInv, Opening, Unretired, BeforeLink, Holding
    <2>. QED
        BY <2>1, <2>2, <2>3, <2>4
<1>32. CASE UndoBuilding
    <2>1. TypeOK'
        BY <1>32 DEF UndoBuilding, TypeOK, Steps, Disk
    <2>2. SeenPossible'
        BY <1>32 DEF UndoBuilding, SeenPossible, TypeOK, Disk
    <2>3. StageFiles'
        BY <1>32 DEF UndoBuilding, StageFiles, BeforeLink
    <2>4. CatalogInv'
        BY <1>32 DEF UndoBuilding, CatalogInv, Opening, Unretired, BeforeLink, Holding
    <2>. QED
        BY <2>1, <2>2, <2>3, <2>4
<1>33. CASE FinishRetire
    <2>. Min(todo) \in todo /\ Min(todo) \in Version
        BY <1>33, MinMember DEF FinishRetire, TypeOK
    <2>1. TypeOK'
        BY <1>33 DEF FinishRetire, TypeOK, Steps, Disk
    <2>2. SeenPossible'
        BY <1>33 DEF FinishRetire, SeenPossible, TypeOK, Disk
    <2>3. StageFiles'
        BY <1>33 DEF FinishRetire, StageFiles, BeforeLink
    <2>4. CatalogInv'
        BY <1>33 DEF FinishRetire, CatalogInv, Opening, Unretired, BeforeLink, Holding, TypeOK
    <2>. QED
        BY <2>1, <2>2, <2>3, <2>4
<1>34. CASE FinishBarrier
    <2>1. TypeOK'
        BY <1>34, FlushedType DEF FinishBarrier, TypeOK, Steps
    <2>2. SeenPossible'
        BY <1>34, FlushedType DEF FinishBarrier, SeenPossible
    <2>3. StageFiles'
        BY <1>34 DEF FinishBarrier, StageFiles, BeforeLink
    <2>4. CatalogInv'
        BY <1>34 DEF FinishBarrier, CatalogInv, Opening, Unretired, BeforeLink, Holding
    <2>. QED
        BY <2>1, <2>2, <2>3, <2>4
<1>35. CASE RecoveryRemovesRecord
    <2>1. TypeOK'
        BY <1>35 DEF RecoveryRemovesRecord, TypeOK, Steps, Disk
    <2>2. SeenPossible'
        BY <1>35 DEF RecoveryRemovesRecord, SeenPossible, TypeOK, Disk
    <2>3. StageFiles'
        BY <1>35 DEF RecoveryRemovesRecord, StageFiles, BeforeLink
    <2>4. CatalogInv'
        BY <1>35 DEF RecoveryRemovesRecord, CatalogInv, Opening, Unretired, BeforeLink, Holding
    <2>. QED
        BY <2>1, <2>2, <2>3, <2>4
<1>36. CASE RecoveryRemovesBuilding
    <2>1. TypeOK'
        BY <1>36 DEF RecoveryRemovesBuilding, TypeOK, Steps, Disk
    <2>2. SeenPossible'
        BY <1>36 DEF RecoveryRemovesBuilding, SeenPossible, TypeOK, Disk
    <2>3. StageFiles'
        BY <1>36 DEF RecoveryRemovesBuilding, StageFiles, BeforeLink
    <2>4. CatalogInv'
        BY <1>36 DEF RecoveryRemovesBuilding, CatalogInv, Opening, Unretired, BeforeLink, Holding
    <2>. QED
        BY <2>1, <2>2, <2>3, <2>4
<1>37. CASE RecoveryBarrier
    <2>1. TypeOK'
        BY <1>37, FlushedType DEF RecoveryBarrier, TypeOK, Steps
    <2>2. SeenPossible'
        BY <1>37, FlushedType DEF RecoveryBarrier, SeenPossible
    <2>3. StageFiles'
        BY <1>37 DEF RecoveryBarrier, StageFiles, BeforeLink
    <2>4. CatalogInv'
        BY <1>37 DEF RecoveryBarrier, CatalogInv, Opening, Unretired, BeforeLink, Holding
    <2>. QED
        BY <2>1, <2>2, <2>3, <2>4
<1>38. CASE FinishOpen
    <2>. DEFINE empty == Holding(data) = {}
                fresh == [keys |-> {}, id |-> 0, whole |-> TRUE]
                nodata == disk.data[0] \cup (IF empty THEN {fresh} ELSE {})
                nobuild == [v \in Version |->
                              disk.building[v] \cup (IF building[v] = None THEN {} ELSE {None})]
                notemp == [v \in Version |->
                              disk.temp[v] \cup (IF temp[v] = None THEN {} ELSE {None})]
    <2>a. fresh \in GenFile /\ fresh # None
        <3>1. fresh \in GenFile
            BY ZeroType DEF GenFile
        <3>. QED
            BY <3>1
    <2>b. disk' = [data     |-> [disk.data EXCEPT ![0] = nodata],
                   building |-> nobuild,
                   record   |-> disk.record,
                   temp     |-> notemp]
        BY <1>38 DEF FinishOpen, TypeOK, Disk
    <2>c. nobuild \in [Version -> SUBSET (GenFile \cup {None})]
        BY DEF TypeOK, Disk
    <2>d. notemp \in [Version -> SUBSET (Plan \cup {None})]
        BY DEF TypeOK, Disk
    <2>e. nodata \in SUBSET (GenFile \cup {None})
        BY <2>a, ZeroType DEF TypeOK, Disk
    <2>f. /\ data' = IF empty THEN [data EXCEPT ![0] = fresh] ELSE data
          /\ building' = [v \in Version |-> None]
          /\ temp' = [v \in Version |-> None]
          /\ pc = "sweeping"
          /\ pc' \in {"serving", "refused"}
          /\ UNCHANGED <<record, latched, nextId, held, promised, faults>>
          /\ NoJob
        BY <1>38 DEF FinishOpen
    <2>g. data' \in [Version -> GenFile \cup {None}]
        BY <2>a, <2>f, ZeroType DEF TypeOK
    <2>h. Holding(data') # {} /\ Holding(data') \subseteq Version
        BY <2>a, <2>f, ZeroType DEF Holding, TypeOK
    <2>i. \/ pc' = "serving" /\ catalog' = Holding(data') /\ issued' = Max(catalog')
          \/ pc' = "refused" /\ catalog' = catalog /\ issued' = issued
        BY <1>38 DEF FinishOpen
    <2>j. catalog' \subseteq Version /\ issued' \in Version
        BY <2>h, <2>i, MaxMember DEF TypeOK
    <2>k. \A v \in Version : data'[v] \in [disk.data EXCEPT ![0] = nodata][v]
        BY <2>f, ZeroType DEF SeenPossible, TypeOK, Disk
    <2>l. \A v \in Version : None \in nobuild[v] /\ None \in notemp[v]
        BY DEF SeenPossible
    <2>. HIDE DEF fresh, nodata, nobuild, notemp
    <2>m. disk' \in Disk
        BY <2>b, <2>c, <2>d, <2>e, ZeroType DEF TypeOK, Disk
    <2>1. TypeOK'
        <3>1. /\ building' \in [Version -> GenFile \cup {None}]
              /\ temp' \in [Version -> Plan \cup {None}]
            BY <2>f
        <3>2. /\ left' \subseteq Version /\ group' \subseteq Version /\ todo' \subseteq Version
              /\ target' \in Version /\ mergeId' \in Merge /\ failed' \in BOOLEAN
            BY <2>f, ZeroType DEF NoJob
        <3>3. pc' \in Steps
            BY <2>f DEF Steps
        <3>. QED
            BY <2>f, <2>g, <2>j, <2>m, <3>1, <3>2, <3>3 DEF TypeOK
    <2>2. SeenPossible'
        BY <2>b, <2>f, <2>k, <2>l DEF SeenPossible
    <2>3. StageFiles'
        BY <2>f DEF StageFiles, BeforeLink
    <2>4. CatalogInv'
        BY <2>f, <2>h, <2>i DEF CatalogInv, Opening, Unretired, BeforeLink, Holding
    <2>. QED
        BY <2>1, <2>2, <2>3, <2>4
<1>39. CASE OpenFails
    <2>1. TypeOK'
        <3>1. faults' \in 0..MaxFaults
            BY <1>39 DEF OpenFails, TypeOK
        <3>2. pc' \in Steps
            BY <1>39 DEF OpenFails, TypeOK, Steps
        <3>3. left' \subseteq Version /\ group' \subseteq Version /\ todo' \subseteq Version
            BY <1>39 DEF OpenFails, TypeOK, NoJob
        <3>4. target' \in Version /\ mergeId' \in Merge /\ failed' \in BOOLEAN
            BY <1>39, ZeroType DEF OpenFails, TypeOK, NoJob
        <3>. QED
            BY <3>1, <3>2, <3>3, <3>4, <1>39 DEF OpenFails, TypeOK
    <2>2. SeenPossible'
        BY <1>39 DEF OpenFails, SeenPossible
    <2>3. StageFiles'
        BY <1>39 DEF OpenFails, StageFiles, BeforeLink, NoJob
    <2>4. CatalogInv'
        BY <1>39 DEF OpenFails, CatalogInv, Opening, Unretired, BeforeLink, NoJob, Holding
    <2>. QED
        BY <2>1, <2>2, <2>3, <2>4
<1>40. CASE ProcessCrash
    <2>1. TypeOK'
        <3>1. faults' \in 0..MaxFaults
            BY <1>40 DEF ProcessCrash, TypeOK
        <3>2. pc' \in Steps
            BY <1>40 DEF ProcessCrash, TypeOK, Steps, InstanceGone
        <3>3. left' \subseteq Version /\ group' \subseteq Version /\ todo' \subseteq Version
            BY <1>40 DEF ProcessCrash, TypeOK, NoJob, InstanceGone
        <3>4. target' \in Version /\ mergeId' \in Merge /\ failed' \in BOOLEAN
            BY <1>40, ZeroType DEF ProcessCrash, TypeOK, NoJob, InstanceGone
        <3>5. issued' \in Version /\ catalog' \subseteq Version /\ latched' \in BOOLEAN /\ nextId' \in Merge
            BY <1>40, ZeroType DEF ProcessCrash, TypeOK, InstanceGone
        <3>. QED
            BY <3>1, <3>2, <3>3, <3>4, <3>5, <1>40 DEF ProcessCrash, TypeOK
    <2>2. SeenPossible'
        BY <1>40 DEF ProcessCrash, SeenPossible
    <2>3. StageFiles'
        BY <1>40 DEF ProcessCrash, StageFiles, BeforeLink, InstanceGone
    <2>4. CatalogInv'
        BY <1>40 DEF ProcessCrash, CatalogInv, Opening, Unretired, BeforeLink, InstanceGone, Holding
    <2>. QED
        BY <2>1, <2>2, <2>3, <2>4
<1>41. CASE PowerLoss
    <2>a. /\ data' \in [Version -> GenFile \cup {None}]
          /\ building' \in [Version -> GenFile \cup {None}]
          /\ record' \in [Version -> Plan \cup {None}]
          /\ temp' \in [Version -> Plan \cup {None}]
        <3>1. /\ \A v \in Version : disk.data[v] # {} /\ disk.building[v] # {}
              /\ \A v \in Version : disk.record[v] # {} /\ disk.temp[v] # {}
            BY DEF SeenPossible
        <3>2. /\ disk.data \in [Version -> SUBSET (GenFile \cup {None})]
              /\ disk.building \in [Version -> SUBSET (GenFile \cup {None})]
              /\ disk.record \in [Version -> SUBSET (Plan \cup {None})]
              /\ disk.temp \in [Version -> SUBSET (Plan \cup {None})]
            BY DEF TypeOK, Disk
        <3>. QED
            BY <1>41, <3>1, <3>2, AftermathType DEF PowerLoss
    <2>b. disk' = [data     |-> [v \in Version |-> {data'[v]}],
                   building |-> [v \in Version |-> {building'[v]}],
                   record   |-> [v \in Version |-> {record'[v]}],
                   temp     |-> [v \in Version |-> {temp'[v]}]]
        BY <1>41 DEF PowerLoss
    <2>c. disk' \in Disk
        BY <2>a, <2>b DEF Disk
    <2>d. /\ pc' = "closed" /\ catalog' = {} /\ issued' = 0 /\ latched' = FALSE
          /\ UNCHANGED <<nextId, promised>>
          /\ NoJob
        BY <1>41 DEF PowerLoss, InstanceGone
    <2>e. faults' \in 0..MaxFaults
        BY <1>41 DEF PowerLoss, TypeOK
    <2>f. held' \subseteq Key
        BY <1>41 DEF PowerLoss, TypeOK
    <2>1. TypeOK'
        <3>1. /\ left' \subseteq Version /\ group' \subseteq Version /\ todo' \subseteq Version
              /\ target' \in Version /\ mergeId' \in Merge /\ failed' \in BOOLEAN
            BY <2>d, ZeroType DEF NoJob
        <3>2. pc' \in Steps /\ catalog' \subseteq Version /\ issued' \in Version
            BY <2>d, ZeroType DEF Steps
        <3>3. latched' \in BOOLEAN /\ nextId' \in Merge /\ promised' \subseteq Key
            BY <2>d DEF TypeOK
        <3>. QED
            BY <2>a, <2>c, <2>e, <2>f, <3>1, <3>2, <3>3 DEF TypeOK
    <2>2. SeenPossible'
        BY <2>b DEF SeenPossible
    <2>3. StageFiles'
        BY <2>d DEF StageFiles, BeforeLink
    <2>4. CatalogInv'
        BY <2>d DEF CatalogInv, Opening, Unretired, BeforeLink, Holding
    <2>. QED
        BY <2>1, <2>2, <2>3, <2>4
<1>42. CASE UNCHANGED vars
    BY <1>42 DEF vars, TypeOK, SeenPossible, StageFiles, CatalogInv, Holding
<1>. QED
    BY <1>1, <1>2, <1>3, <1>4, <1>5, <1>6, <1>7, <1>8, <1>9, <1>10, <1>11, <1>12, <1>13, <1>14,
       <1>15, <1>16, <1>17, <1>18, <1>19, <1>20, <1>21, <1>22, <1>23, <1>24, <1>25, <1>26, <1>27, <1>28,
       <1>29, <1>30, <1>31, <1>32, <1>33, <1>34, <1>35, <1>36, <1>37, <1>38, <1>39, <1>40, <1>41, <1>42
       DEF Next, MergeStep, OpenStep

\* An empty directory and no instance.
LEMMA TypeInit == Init => TypeInv
<1>. SUFFICES ASSUME Init PROVE TypeInv
    OBVIOUS
<1>. USE CompactionAssumption
<1>1. TypeOK
    <2>1. disk \in Disk
        BY DEF Init, Disk
    <2>2. /\ data \in [Version -> GenFile \cup {None}]
          /\ building \in [Version -> GenFile \cup {None}]
          /\ record \in [Version -> Plan \cup {None}]
          /\ temp \in [Version -> Plan \cup {None}]
        BY DEF Init
    <2>3. /\ pc \in Steps
          /\ faults \in 0..MaxFaults
          /\ issued \in Version /\ target \in Version
          /\ mergeId \in Merge /\ nextId \in Merge
        BY ZeroType DEF Init, Steps
    <2>4. failed \in BOOLEAN /\ latched \in BOOLEAN
        BY DEF Init
    <2>. QED
        BY <2>1, <2>2, <2>3, <2>4 DEF Init, TypeOK
<1>2. SeenPossible
    BY DEF Init, SeenPossible
<1>3. StageFiles
    BY DEF Init, StageFiles, BeforeLink
<1>4. CatalogInv
    BY DEF Init, CatalogInv, Opening, Unretired, BeforeLink, Holding
<1>. QED
    BY <1>1, <1>2, <1>3, <1>4 DEF TypeInv

\* A container that starts with an empty directory keeps every variable in its
\* type, through compactions, failures, crashes, power losses and recoveries:
\* in particular every file a recovery or a merge reads is there to be read.
THEOREM TypeCorrect == Spec => []TypeOK
<1>1. Init => TypeInv
    BY TypeInit
<1>2. TypeInv => TypeOK
    BY DEF TypeInv
<1>. QED
    BY <1>1, <1>2, TypeStep, PTL DEF Spec
-----------------------------------------------------------------------------
(* Safety without loss of power: the inductive invariant *)

\* Without power loss no generation is ever seen incomplete.
AllWhole == \A v \in Version : data[v] # None => data[v].whole

\* Generation v, if it is there, has its entries in generation t as well.
Superseded(v, t) == data[v] = None \/ data[v].keys \subseteq data[t].keys

\* A record beside its published target: the sources are superseded.
RecordsTrue ==
    \A t \in Version :
        record[t] # None /\ data[t] # None =>
            /\ t \notin record[t].sources
            /\ \A s \in record[t].sources : Superseded(s, t)

\* The merge in hand, before the target is published ...
Building ==
    /\ pc \in BeforeLink =>
          /\ data[target] = None
          /\ building[target].keys = KeysIn(group)
          /\ target = issued + 1
    /\ pc = "recordwritten" => temp[target] = ThePlan
    /\ pc \in {"recordnamed", "recorded"} => record[target] = ThePlan

\* ... once it is ...
Published ==
    pc \in {"linked", "published", "targetdurable"} =>
        /\ data[target] # None
        /\ \A s \in group : Superseded(s, target)
        /\ Holding(data) = catalog \cup {target}
        /\ target = issued + 1
        /\ \A v \in catalog : v <= issued

\* ... and while its sources are unlinked, by it or by recovery.
Retiring ==
    /\ pc \in {"retiring", "finishing"} =>
          /\ data[target] # None
          /\ target \notin todo
          /\ \A s \in todo : Superseded(s, target)
    /\ pc = "retiring" =>
          /\ ~failed => Holding(data) = catalog \cup todo
          /\ target \in catalog
          /\ \A v \in catalog : v <= issued

\* No merge is under way, or none that has touched a generation.
Steady ==
    \/ pc \in {"grouping", "withdrawing", "withdrawn", "calledoff", "sourcesretired", "recordremoved"}
    \/ pc \in BeforeLink
    \/ pc \in {"serving", "reopening"} /\ ~latched

\* Then the catalogue is the directory.
CatalogTrue ==
    Steady => /\ Holding(data) = catalog
              /\ \A v \in catalog : v <= issued

\* Where no record can be there, and where one at most can: the target's.
RecordPlace ==
    /\ \/ pc \in {"grouping", "built", "filesynced", "recordwritten", "withdrawn", "calledoff",
                  "recordremoved", "sweeping", "recordgone", "settling"}
       \/ pc \in {"serving", "reopening"} /\ ~latched
       => Holding(record) = {}
    /\ pc \in {"recordnamed", "recorded", "linked", "published", "withdrawing", "targetdurable",
               "retiring", "sourcesretired", "undoing", "undone", "finishing"}
       => Holding(record) \subseteq {target}
    /\ \A u, v \in Holding(record) : u = v

\* The latch is set on the way out of a compaction only, after a failure.
LatchPlace ==
    /\ latched => pc \in {"serving", "reopening"}
    /\ failed => pc \in {"retiring", "reopening"}

KeepInv ==
    /\ AllWhole
    /\ RecordsTrue
    /\ Building
    /\ Published
    /\ Retiring
    /\ CatalogTrue
    /\ RecordPlace
    /\ LatchPlace
    /\ EntriesKept
-----------------------------------------------------------------------------
(* Every step keeps it *)

\* Unlinking a superseded source loses nothing: its entries are in the target,
\* and no record speaks of it but the target's own.
LEMMA RetiredKept ==
    ASSUME TypeOK, AllWhole, RecordsTrue, EntriesKept,
           NEW m \in Version, m # target, target \in Version,
           data[target] # None, Superseded(m, target),
           Holding(record) \subseteq {target},
           data' = [data EXCEPT ![m] = None] \/ data' = data,
           record' = record, held' = held
    PROVE  AllWhole' /\ RecordsTrue' /\ EntriesKept'
<1>1. CASE data' = data
    BY <1>1 DEF AllWhole, RecordsTrue, Superseded, EntriesKept, Readable, Holding
<1>2. CASE data' = [data EXCEPT ![m] = None]
    <2>1. data'[m] = None /\ \A v \in Version \ {m} : data'[v] = data[v]
        BY <1>2 DEF TypeOK
    <2>2. AllWhole'
        BY <2>1 DEF AllWhole
    <2>3. RecordsTrue'
        <3>. SUFFICES ASSUME NEW t \in Version, record[t] # None, data'[t] # None
                      PROVE  /\ t \notin record[t].sources
                             /\ \A s \in record[t].sources : Superseded(s, t)'
            BY DEF RecordsTrue
        <3>1. t = target /\ data'[t] = data[t]
            BY <2>1 DEF Holding
        <3>2. record[t] \in Plan
            BY DEF TypeOK
        <3>3. record[t].sources \subseteq Version
            BY <3>2 DEF Plan
        <3>. QED
            BY <2>1, <3>1, <3>3 DEF RecordsTrue, Superseded
    <2>4. EntriesKept'
        <3>. SUFFICES ASSUME NEW x \in held PROVE \E u \in Version : /\ data'[u] # None
                                                                    /\ data'[u].whole
                                                                    /\ x \in data'[u].keys
            BY DEF EntriesKept, Readable, Holding
        <3>1. PICK u \in Version : data[u] # None /\ data[u].whole /\ x \in data[u].keys
            BY DEF EntriesKept, Readable, Holding
        <3>2. CASE u = m
            BY <2>1, <3>1, <3>2 DEF Superseded, AllWhole
        <3>3. CASE u # m
            BY <2>1, <3>1, <3>3
        <3>. QED
            BY <3>2, <3>3
    <2>. QED
        BY <2>2, <2>3, <2>4
<1>. QED
    BY <1>1, <1>2

\* Every step of the container, of recovery and of the environment keeps the
\* invariant.
LEMMA KeepStep ==
    ASSUME ~PowerLoss
    PROVE  TypeInv /\ KeepInv /\ [Next]_vars => KeepInv'
<1>. SUFFICES ASSUME TypeInv, KeepInv, [Next]_vars PROVE KeepInv'
    OBVIOUS
<1>. USE CompactionAssumption DEF TypeInv, KeepInv, files, book, job, ghost, Works, Spend
<1>1. ASSUME NEW k \in Key, Insert(k) PROVE KeepInv'
    <2>. DEFINE full == Cardinality(data[Active].keys) >= RotateAt
                v == IF full THEN issued + 1 ELSE Active
                old == IF full THEN [keys |-> {}, id |-> 0, whole |-> TRUE] ELSE data[v]
                new == [old EXCEPT !.keys = @ \cup {k}]
    <2>a. /\ pc = "serving" /\ pc' = pc
          /\ latched = FALSE
          /\ v \in Version
          /\ data' = [data EXCEPT ![v] = new]
          /\ catalog' = catalog \cup {v}
          /\ issued' = IF full THEN v ELSE issued
          /\ held' = held \cup {k}
          /\ UNCHANGED <<record, latched, failed>>
        BY <1>1 DEF Insert, TypeOK
    <2>b. Holding(data) = catalog /\ \A u \in catalog : u <= issued
        BY <2>a DEF CatalogTrue, Steady
    <2>c. Active \in catalog
        BY <2>a, MaxMember DEF CatalogInv, Opening, Active, TypeOK
    <2>d. issued \in Nat /\ \A u \in Version : u \in Nat
        BY DEF TypeOK, Version
    <2>e. \/ full /\ v = issued + 1 /\ data[v] = None
          \/ ~full /\ v \in catalog /\ old = data[v]
        <3>1. CASE full
            BY <2>a, <2>b, <2>d, <3>1 DEF Holding
        <3>2. CASE ~full
            BY <2>c, <3>2
        <3>. QED
            BY <3>1, <3>2
    <2>f. old \in GenFile /\ old.whole
        <3>1. CASE full
            BY <3>1, ZeroType DEF GenFile
        <3>2. CASE ~full
            BY <2>b, <2>e, <3>2 DEF Holding, TypeOK, AllWhole
        <3>. QED
            BY <3>1, <3>2
    <2>g. new \in GenFile /\ new.whole /\ new.keys = old.keys \cup {k}
        <3>. HIDE DEF full, v, old
        <3>. QED
            BY <2>f DEF GenFile
    <2>h. new # None
        BY <2>g
    <2>i. \A u \in Version \ {v} : data'[u] = data[u]
        BY <2>a DEF TypeOK
    <2>j. data'[v] = new
        BY <2>a DEF TypeOK
    <2>. HIDE DEF full, v, old, new
    <2>1. AllWhole'
        BY <2>g, <2>i, <2>j DEF AllWhole
    <2>2. RecordsTrue' /\ RecordPlace' /\ LatchPlace'
        <3>1. Holding(record) = {} /\ Holding(record)' = {}
            BY <2>a DEF RecordPlace, Holding
        <3>2. \A t \in Version : record'[t] = None
            BY <3>1, <2>a DEF Holding
        <3>. QED
            BY <2>a, <3>1, <3>2 DEF RecordsTrue, RecordPlace, LatchPlace
    <2>3. CatalogTrue'
        <3>1. Holding(data)' = catalog \cup {v}
            BY <2>a, <2>b, <2>h, <2>i, <2>j DEF Holding
        <3>2. \A u \in catalog' : u <= issued'
            BY <2>a, <2>b, <2>d, <2>e DEF TypeOK
        <3>. QED
            BY <2>a, <3>1, <3>2 DEF CatalogTrue
    <2>4. EntriesKept'
        <3>. SUFFICES ASSUME NEW x \in held' PROVE \E u \in Version : /\ data'[u] # None
                                                                     /\ data'[u].whole
                                                                     /\ x \in data'[u].keys
            BY DEF EntriesKept, Readable, Holding
        <3>1. CASE x = k
            BY <2>a, <2>g, <2>h, <2>j, <3>1
        <3>2. CASE x \in held
            <4>1. PICK u \in Version : data[u] # None /\ data[u].whole /\ x \in data[u].keys
                BY <3>2 DEF EntriesKept, Readable, Holding
            <4>2. CASE u = v
                BY <2>a, <2>e, <2>g, <2>h, <2>j, <4>1, <4>2
            <4>3. CASE u # v
                BY <2>i, <4>1, <4>3
            <4>. QED
                BY <4>2, <4>3
        <3>. QED
            BY <2>a, <3>1, <3>2
    <2>5. Building' /\ Published' /\ Retiring'
        BY <2>a DEF Building, Published, Retiring, BeforeLink
    <2>. QED
        BY <2>1, <2>2, <2>3, <2>4, <2>5
<1>2. ASSUME NEW k \in Key, Delete(k) PROVE KeepInv'
    <2>0. PICK v \in catalog : data' = [data EXCEPT ![v].keys = @ \ {k}]
        BY <1>2 DEF Delete
    <2>. DEFINE new == [data[v] EXCEPT !.keys = @ \ {k}]
    <2>a. /\ pc = "serving" /\ pc' = pc
          /\ latched = FALSE
          /\ held' = held \ {k}
          /\ UNCHANGED <<record, latched, failed, catalog, issued>>
        BY <1>2 DEF Delete, TypeOK
    <2>b. v \in Version /\ data[v] \in GenFile /\ data[v].whole
        BY <2>0 DEF CatalogInv, Holding, TypeOK, AllWhole
    <2>c. new \in GenFile /\ new.whole /\ new.keys = data[v].keys \ {k}
        BY <2>b DEF GenFile
    <2>d. new # None
        BY <2>c
    <2>e. \A u \in Version \ {v} : data'[u] = data[u]
        BY <2>0, <2>b DEF TypeOK
    <2>f. data'[v] = new
        BY <2>0, <2>b DEF TypeOK
    <2>. HIDE DEF new
    <2>1. AllWhole'
        BY <2>c, <2>e, <2>f DEF AllWhole
    <2>2. RecordsTrue' /\ RecordPlace' /\ LatchPlace'
        <3>1. Holding(record) = {} /\ Holding(record)' = {}
            BY <2>a DEF RecordPlace, Holding
        <3>2. \A t \in Version : record'[t] = None
            BY <3>1, <2>a DEF Holding
        <3>. QED
            BY <2>a, <3>1, <3>2 DEF RecordsTrue, RecordPlace, LatchPlace
    <2>3. CatalogTrue'
        <3>1. Holding(data)' = Holding(data)
            BY <2>b, <2>d, <2>e, <2>f DEF Holding
        <3>. QED
            BY <2>a, <3>1 DEF CatalogTrue, Steady
    <2>4. EntriesKept'
        <3>. SUFFICES ASSUME NEW x \in held' PROVE \E u \in Version : /\ data'[u] # None
                                                                     /\ data'[u].whole
                                                                     /\ x \in data'[u].keys
            BY DEF EntriesKept, Readable, Holding
        <3>1. PICK u \in Version : data[u] # None /\ data[u].whole /\ x \in data[u].keys
            BY <2>a DEF EntriesKept, Readable, Holding
        <3>2. CASE u = v
            BY <2>a, <2>c, <2>d, <2>f, <3>1, <3>2
        <3>3. CASE u # v
            BY <2>e, <3>1, <3>3
        <3>. QED
            BY <3>2, <3>3
    <2>5. Building' /\ Published' /\ Retiring'
        BY <2>a DEF Building, Published, Retiring, BeforeLink
    <2>. QED
        BY <2>1, <2>2, <2>3, <2>4, <2>5
<1>3. CASE Sync
    <2>1. AllWhole' /\ RecordsTrue' /\ EntriesKept'
        BY <1>3 DEF Sync, AllWhole, RecordsTrue, Superseded, EntriesKept, Readable, Holding
    <2>2. Building' /\ Published' /\ Retiring'
        BY <1>3 DEF Sync, Building, Published, Retiring, BeforeLink
    <2>3. CatalogTrue' /\ RecordPlace' /\ LatchPlace'
        BY <1>3 DEF Sync, CatalogTrue, Steady, RecordPlace, LatchPlace, BeforeLink, Holding
    <2>. QED
        BY <2>1, <2>2, <2>3
<1>4. CASE Close
    <2>1. AllWhole' /\ RecordsTrue' /\ EntriesKept'
        BY <1>4 DEF Close, AllWhole, RecordsTrue, Superseded, EntriesKept, Readable, Holding
    <2>2. Building' /\ Published' /\ Retiring'
        BY <1>4 DEF Close, Building, Published, Retiring, BeforeLink
    <2>3. CatalogTrue' /\ RecordPlace' /\ LatchPlace'
        BY <1>4 DEF Close, CatalogTrue, Steady, RecordPlace, LatchPlace, BeforeLink, Holding
    <2>. QED
        BY <2>1, <2>2, <2>3
<1>5. CASE StartCompaction
    <2>1. AllWhole' /\ RecordsTrue' /\ EntriesKept'
        BY <1>5 DEF StartCompaction, AllWhole, RecordsTrue, Superseded, EntriesKept, Readable,
               Holding
    <2>2. Building' /\ Published' /\ Retiring'
        BY <1>5 DEF StartCompaction, Building, Published, Retiring, BeforeLink
    <2>3. CatalogTrue' /\ RecordPlace' /\ LatchPlace'
        BY <1>5 DEF StartCompaction, CatalogTrue, Steady, RecordPlace, LatchPlace, BeforeLink,
               Holding
    <2>. QED
        BY <2>1, <2>2, <2>3
<1>6. CASE SkipFirst
    <2>1. AllWhole' /\ RecordsTrue' /\ EntriesKept'
        BY <1>6 DEF SkipFirst, AllWhole, RecordsTrue, Superseded, EntriesKept, Readable, Holding
    <2>2. Building' /\ Published' /\ Retiring'
        BY <1>6 DEF SkipFirst, Building, Published, Retiring, BeforeLink
    <2>3. CatalogTrue' /\ RecordPlace' /\ LatchPlace'
        BY <1>6 DEF SkipFirst, CatalogTrue, Steady, RecordPlace, LatchPlace, BeforeLink, Holding
    <2>. QED
        BY <2>1, <2>2, <2>3
<1>7. CASE GroupsDone
    <2>1. AllWhole' /\ RecordsTrue' /\ EntriesKept'
        BY <1>7 DEF GroupsDone, AllWhole, RecordsTrue, Superseded, EntriesKept, Readable, Holding
    <2>2. Building' /\ Published' /\ Retiring'
        BY <1>7 DEF GroupsDone, Building, Published, Retiring, BeforeLink
    <2>3. CatalogTrue' /\ RecordPlace' /\ LatchPlace'
        BY <1>7 DEF GroupsDone, CatalogTrue, Steady, RecordPlace, LatchPlace, BeforeLink, Holding
    <2>. QED
        BY <2>1, <2>2, <2>3
<1>8. CASE BuildTarget
    <2>1. AllWhole' /\ RecordsTrue' /\ EntriesKept'
        BY <1>8 DEF BuildTarget, NewTarget, Target, AllWhole, RecordsTrue, Superseded,
               EntriesKept, Readable, Holding
    <2>2. Building' /\ Published' /\ Retiring'
        BY <1>8 DEF BuildTarget, NewTarget, Target, Building, Published, Retiring, BeforeLink,
               Superseded, Holding, KeysIn, ThePlan, TypeOK
    <2>3. CatalogTrue' /\ RecordPlace' /\ LatchPlace'
        BY <1>8 DEF BuildTarget, NewTarget, Target, CatalogTrue, Steady, RecordPlace,
               LatchPlace, BeforeLink, Holding
    <2>. QED
        BY <2>1, <2>2, <2>3
<1>9. CASE GroupTooLarge
    <2>1. AllWhole' /\ RecordsTrue' /\ EntriesKept'
        BY <1>9 DEF GroupTooLarge, Abandon, MayRemove, AllWhole, RecordsTrue, Superseded,
               EntriesKept, Readable, Holding
    <2>2. Building' /\ Published' /\ Retiring'
        BY <1>9 DEF GroupTooLarge, Abandon, MayRemove, Building, Published, Retiring, BeforeLink
    <2>3. CatalogTrue' /\ RecordPlace' /\ LatchPlace'
        BY <1>9 DEF GroupTooLarge, Abandon, MayRemove, CatalogTrue, Steady, RecordPlace,
               LatchPlace, BeforeLink, Holding
    <2>. QED
        BY <2>1, <2>2, <2>3
<1>10. CASE BuildFails
    <2>1. AllWhole' /\ RecordsTrue' /\ EntriesKept'
        BY <1>10 DEF BuildFails, Abandon, MayRemove, AllWhole, RecordsTrue, Superseded,
               EntriesKept, Readable, Holding
    <2>2. Building' /\ Published' /\ Retiring'
        BY <1>10 DEF BuildFails, Abandon, MayRemove, Building, Published, Retiring, BeforeLink
    <2>3. CatalogTrue' /\ RecordPlace' /\ LatchPlace'
        BY <1>10 DEF BuildFails, Abandon, MayRemove, CatalogTrue, Steady, RecordPlace,
               LatchPlace, BeforeLink, Holding
    <2>. QED
        BY <2>1, <2>2, <2>3
<1>11. CASE SyncBuilding
    <2>1. AllWhole' /\ RecordsTrue' /\ EntriesKept'
        BY <1>11 DEF SyncBuilding, AllWhole, RecordsTrue, Superseded, EntriesKept, Readable, Holding
    <2>2. Building' /\ Published' /\ Retiring'
        BY <1>11 DEF SyncBuilding, Building, Published, Retiring, BeforeLink, Superseded,
               Holding, KeysIn, ThePlan
    <2>3. CatalogTrue' /\ RecordPlace' /\ LatchPlace'
        BY <1>11 DEF SyncBuilding, CatalogTrue, Steady, RecordPlace, LatchPlace, BeforeLink, Holding
    <2>. QED
        BY <2>1, <2>2, <2>3
<1>12. CASE WriteRecord
    <2>1. AllWhole' /\ RecordsTrue' /\ EntriesKept'
        BY <1>12 DEF WriteRecord, AllWhole, RecordsTrue, Superseded, EntriesKept, Readable, Holding
    <2>2. Building' /\ Published' /\ Retiring'
        BY <1>12 DEF WriteRecord, Building, Published, Retiring, BeforeLink, Superseded,
               Holding, KeysIn, ThePlan, TypeOK
    <2>3. CatalogTrue' /\ RecordPlace' /\ LatchPlace'
        BY <1>12 DEF WriteRecord, CatalogTrue, Steady, RecordPlace, LatchPlace, BeforeLink, Holding
    <2>. QED
        BY <2>1, <2>2, <2>3
<1>13. CASE NameRecord
    <2>1. AllWhole' /\ RecordsTrue' /\ EntriesKept'
        BY <1>13 DEF NameRecord, Building, BeforeLink, AllWhole, RecordsTrue, Superseded,
               EntriesKept, Readable, Holding
    <2>2. Building' /\ Published' /\ Retiring'
        BY <1>13 DEF NameRecord, Building, Published, Retiring, BeforeLink, Superseded, Holding,
               KeysIn, ThePlan, TypeOK
    <2>3. CatalogTrue' /\ RecordPlace' /\ LatchPlace'
        BY <1>13 DEF NameRecord, CatalogTrue, Steady, RecordPlace, LatchPlace, BeforeLink, Holding
    <2>. QED
        BY <2>1, <2>2, <2>3
<1>14. CASE MergeCalledOff
    <2>1. AllWhole' /\ RecordsTrue' /\ EntriesKept'
        BY <1>14 DEF MergeCalledOff, MayRemove, AllWhole, RecordsTrue, Superseded, EntriesKept,
               Readable, Holding
    <2>2. Building' /\ Published' /\ Retiring'
        BY <1>14 DEF MergeCalledOff, MayRemove, Building, Published, Retiring, BeforeLink
    <2>3. CatalogTrue' /\ RecordPlace' /\ LatchPlace'
        BY <1>14 DEF MergeCalledOff, MayRemove, CatalogTrue, Steady, RecordPlace, LatchPlace,
               BeforeLink, Holding
    <2>. QED
        BY <2>1, <2>2, <2>3
<1>15. CASE RecordBarrier
    <2>1. AllWhole' /\ RecordsTrue' /\ EntriesKept'
        BY <1>15 DEF RecordBarrier, AllWhole, RecordsTrue, Superseded, EntriesKept, Readable,
               Holding
    <2>2. Building' /\ Published' /\ Retiring'
        BY <1>15 DEF RecordBarrier, Building, Published, Retiring, BeforeLink, Superseded,
               Holding, KeysIn, ThePlan
    <2>3. CatalogTrue' /\ RecordPlace' /\ LatchPlace'
        BY <1>15 DEF RecordBarrier, CatalogTrue, Steady, RecordPlace, LatchPlace, BeforeLink,
               Holding
    <2>. QED
        BY <2>1, <2>2, <2>3
<1>16. CASE RecordBarrierFails
    <2>1. AllWhole' /\ RecordsTrue' /\ EntriesKept'
        BY <1>16 DEF RecordBarrierFails, MayRemove, AllWhole, RecordsTrue, Superseded,
               EntriesKept, Readable, Holding, TypeOK
    <2>2. Building' /\ Published' /\ Retiring'
        BY <1>16 DEF RecordBarrierFails, MayRemove, Building, Published, Retiring, BeforeLink
    <2>3. CatalogTrue' /\ RecordPlace' /\ LatchPlace'
        BY <1>16 DEF RecordBarrierFails, MayRemove, CatalogTrue, Steady, RecordPlace,
               LatchPlace, BeforeLink, Holding, TypeOK
    <2>. QED
        BY <2>1, <2>2, <2>3
<1>17. CASE LinkTarget
    <2>. DEFINE t == target
    <2>a. /\ pc = "recorded" /\ pc' = "linked"
          /\ t \in Version
          /\ data[t] = None
          /\ data' = [data EXCEPT ![t] = building[t]]
          /\ UNCHANGED <<record, target, group, catalog, issued, held, latched, failed>>
        BY <1>17 DEF LinkTarget, TypeOK
    <2>b. building[t] # None /\ building[t].whole /\ building[t].keys = KeysIn(group)
        BY <2>a DEF StageFiles, Building, BeforeLink
    <2>c. record[t].sources = group /\ t \notin group /\ \A v \in Version \ {t} : record[v] = None
        BY <2>a DEF Building, ThePlan, CatalogInv, Unretired, BeforeLink, RecordPlace, Holding
    <2>d. \A s \in group : s \in Version /\ data[s].keys \subseteq building[t].keys
        BY <2>b DEF KeysIn, TypeOK
    <2>1. AllWhole'
        BY <2>a, <2>b DEF AllWhole, TypeOK
    <2>2. RecordsTrue'
        BY <2>a, <2>c, <2>d DEF RecordsTrue, Superseded, TypeOK
    <2>3. EntriesKept'
        BY <2>a DEF EntriesKept, Readable, Holding, TypeOK
    <2>4. Published'
        <3>1. Holding(data)' = catalog \cup {t}
            BY <2>a, <2>b DEF CatalogTrue, Steady, BeforeLink, Holding, TypeOK
        <3>2. t = issued + 1 /\ \A v \in catalog : v <= issued
            BY <2>a DEF Building, CatalogTrue, Steady, BeforeLink
        <3>. QED
            BY <2>a, <2>b, <2>c, <2>d, <3>1, <3>2 DEF Published, Superseded, TypeOK
    <2>5. Building' /\ Retiring' /\ CatalogTrue' /\ RecordPlace' /\ LatchPlace'
        BY <2>a DEF Building, BeforeLink, Retiring, CatalogTrue, Steady, RecordPlace,
               LatchPlace, Holding
    <2>. QED
        BY <2>1, <2>2, <2>3, <2>4, <2>5
<1>18. CASE UnlinkBuilding
    <2>1. AllWhole' /\ RecordsTrue' /\ EntriesKept'
        BY <1>18 DEF UnlinkBuilding, Abandon, MayRemove, AllWhole, RecordsTrue, Superseded,
               EntriesKept, Readable, Holding
    <2>2. Building' /\ Published' /\ Retiring'
        BY <1>18 DEF UnlinkBuilding, Abandon, MayRemove, Building, Published, Retiring,
               BeforeLink, Superseded, Holding, KeysIn, ThePlan
    <2>3. CatalogTrue' /\ RecordPlace' /\ LatchPlace'
        BY <1>18 DEF UnlinkBuilding, Abandon, MayRemove, CatalogTrue, Steady, RecordPlace,
               LatchPlace, BeforeLink, Holding
    <2>. QED
        BY <2>1, <2>2, <2>3
<1>19. CASE LinkFails
    <2>1. AllWhole' /\ RecordsTrue' /\ EntriesKept'
        BY <1>19 DEF LinkFails, AllWhole, RecordsTrue, Superseded, EntriesKept, Readable, Holding
    <2>2. Building' /\ Published' /\ Retiring'
        BY <1>19 DEF LinkFails, Building, Published, Retiring, BeforeLink
    <2>3. CatalogTrue' /\ RecordPlace' /\ LatchPlace'
        BY <1>19 DEF LinkFails, CatalogTrue, Steady, RecordPlace, LatchPlace, BeforeLink, Holding
    <2>. QED
        BY <2>1, <2>2, <2>3
<1>20. CASE WithdrawRecord
    <2>1. AllWhole' /\ RecordsTrue' /\ EntriesKept'
        BY <1>20 DEF WithdrawRecord, AllWhole, RecordsTrue, Superseded, EntriesKept, Readable,
               Holding
    <2>2. Building' /\ Published' /\ Retiring'
        BY <1>20 DEF WithdrawRecord, Building, Published, Retiring, BeforeLink
    <2>3. CatalogTrue' /\ RecordPlace' /\ LatchPlace'
        BY <1>20 DEF WithdrawRecord, CatalogTrue, Steady, RecordPlace, LatchPlace, BeforeLink,
               Holding, TypeOK
    <2>. QED
        BY <2>1, <2>2, <2>3
<1>21. CASE ConfirmWithdrawal
    <2>1. AllWhole' /\ RecordsTrue' /\ EntriesKept'
        BY <1>21 DEF ConfirmWithdrawal, AllWhole, RecordsTrue, Superseded, EntriesKept,
               Readable, Holding
    <2>2. Building' /\ Published' /\ Retiring'
        BY <1>21 DEF ConfirmWithdrawal, Building, Published, Retiring, BeforeLink
    <2>3. CatalogTrue' /\ RecordPlace' /\ LatchPlace'
        BY <1>21 DEF ConfirmWithdrawal, CatalogTrue, Steady, RecordPlace, LatchPlace,
               BeforeLink, Holding
    <2>. QED
        BY <2>1, <2>2, <2>3
<1>22. CASE DiscardBuilding
    <2>1. AllWhole' /\ RecordsTrue' /\ EntriesKept'
        BY <1>22 DEF DiscardBuilding, Abandon, MayRemove, AllWhole, RecordsTrue, Superseded,
               EntriesKept, Readable, Holding
    <2>2. Building' /\ Published' /\ Retiring'
        BY <1>22 DEF DiscardBuilding, Abandon, MayRemove, Building, Published, Retiring, BeforeLink
    <2>3. CatalogTrue' /\ RecordPlace' /\ LatchPlace'
        BY <1>22 DEF DiscardBuilding, Abandon, MayRemove, CatalogTrue, Steady, RecordPlace,
               LatchPlace, BeforeLink, Holding
    <2>. QED
        BY <2>1, <2>2, <2>3
<1>23. CASE MergeLatches
    <2>1. AllWhole' /\ RecordsTrue' /\ EntriesKept'
        BY <1>23 DEF MergeLatches, AllWhole, RecordsTrue, Superseded, EntriesKept, Readable, Holding
    <2>2. Building' /\ Published' /\ Retiring'
        BY <1>23 DEF MergeLatches, Building, Published, Retiring, BeforeLink
    <2>3. CatalogTrue' /\ RecordPlace' /\ LatchPlace'
        BY <1>23 DEF MergeLatches, CatalogTrue, Steady, RecordPlace, LatchPlace, BeforeLink, Holding
    <2>. QED
        BY <2>1, <2>2, <2>3
<1>24. CASE TargetBarrier
    <2>1. AllWhole' /\ RecordsTrue' /\ EntriesKept'
        BY <1>24 DEF TargetBarrier, AllWhole, RecordsTrue, Superseded, EntriesKept, Readable,
               Holding
    <2>2. Building' /\ Published' /\ Retiring'
        BY <1>24 DEF TargetBarrier, Building, Published, Retiring, BeforeLink, Superseded,
               Holding, KeysIn, ThePlan
    <2>3. CatalogTrue' /\ RecordPlace' /\ LatchPlace'
        BY <1>24 DEF TargetBarrier, CatalogTrue, Steady, RecordPlace, LatchPlace, BeforeLink,
               Holding
    <2>. QED
        BY <2>1, <2>2, <2>3
<1>25. CASE CheckMarker
    <2>a. /\ pc = "targetdurable"
          /\ UNCHANGED <<data, building, record, temp, group, target, failed, held>>
        BY <1>25 DEF CheckMarker
    <2>b. \/ /\ pc' = "retiring" /\ latched' = latched
             /\ catalog' = (catalog \cup {target}) \ group
             /\ issued' = target
             /\ todo' = group
          \/ /\ pc' = "reopening" /\ latched' = TRUE
             /\ UNCHANGED <<catalog, issued, todo>>
        BY <1>25 DEF CheckMarker
    <2>1. AllWhole' /\ RecordsTrue' /\ EntriesKept'
        BY <2>a DEF AllWhole, RecordsTrue, Superseded, EntriesKept, Readable, Holding
    <2>2. Building' /\ Published' /\ CatalogTrue' /\ RecordPlace' /\ LatchPlace'
        BY <2>a, <2>b DEF Building, Published, BeforeLink, CatalogTrue, Steady, RecordPlace,
               LatchPlace, Holding
    <2>3. Retiring'
        <3>1. CASE pc' = "reopening"
            BY <3>1 DEF Retiring
        <3>2. CASE pc' = "retiring"
            <4>1. /\ data[target] # None
                  /\ Holding(data) = catalog \cup {target}
                  /\ \A s \in group : Superseded(s, target)
                BY <2>a DEF Published
            <4>2. group \subseteq catalog /\ target \notin group
                BY <2>a DEF CatalogInv, Unretired
            <4>3. Holding(data)' = catalog' \cup todo'
                BY <2>a, <2>b, <3>2, <4>1, <4>2 DEF Holding
            <4>4. \A v \in catalog' : v <= issued'
                <5>1. issued \in Nat /\ catalog \subseteq Nat
                    BY DEF TypeOK, Version
                <5>2. target = issued + 1 /\ \A v \in catalog : v <= issued
                    BY <2>a DEF Published
                <5>3. catalog' \subseteq catalog \cup {target} /\ issued' = target
                    BY <2>b, <3>2
                <5>4. \A v \in catalog \cup {target} : v <= target
                    BY <5>1, <5>2
                <5>. QED
                    BY <5>3, <5>4
            <4>. QED
                BY <2>a, <2>b, <3>2, <4>1, <4>2, <4>3, <4>4 DEF Retiring, Superseded
        <3>. QED
            BY <2>b, <3>1, <3>2
    <2>. QED
        BY <2>1, <2>2, <2>3
<1>26. CASE RetireSource
    <2>. DEFINE m == Min(todo)
    <2>a. m \in todo /\ m \in Version /\ m # target
        BY <1>26, MinMember DEF RetireSource, Retiring, TypeOK
    <2>b. /\ pc = "retiring" /\ pc' = pc
          /\ todo' = todo \ {m}
          /\ UNCHANGED <<record, target, catalog, issued, held, latched>>
        BY <1>26 DEF RetireSource
    <2>c. \/ data' = [data EXCEPT ![m] = None] /\ failed' \in {failed, TRUE}
          \/ data' = data /\ failed' = TRUE
        BY <1>26 DEF RetireSource
    <2>. HIDE DEF m
    <2>1. AllWhole' /\ RecordsTrue' /\ EntriesKept'
        <3>1. data[target] # None /\ Superseded(m, target) /\ Holding(record) \subseteq {target}
            BY <2>a, <2>b DEF Retiring, RecordPlace
        <3>2. target \in Version
            BY DEF TypeOK
        <3>. QED
            BY <2>a, <2>b, <2>c, <3>1, <3>2, RetiredKept
    <2>2. Retiring'
        <3>1. ~failed' => Holding(data)' = catalog \cup (todo \ {m})
            <4>1. failed' = FALSE => failed = FALSE /\ data' = [data EXCEPT ![m] = None]
                BY <2>c DEF TypeOK
            <4>2. failed' \in BOOLEAN
                BY <2>c DEF TypeOK
            <4>. QED
                BY <2>a, <2>b, <4>1, <4>2 DEF Retiring, CatalogInv, Holding, TypeOK
        <3>. QED
            BY <2>a, <2>b, <2>c, <3>1 DEF Retiring, Superseded, TypeOK
    <2>3. Building' /\ Published' /\ CatalogTrue' /\ RecordPlace' /\ LatchPlace'
        BY <2>b, <2>c DEF Building, Published, BeforeLink, CatalogTrue, Steady, RecordPlace,
               LatchPlace, Holding
    <2>. QED
        BY <2>1, <2>2, <2>3
<1>27. CASE RetireBarrier
    <2>a. latched = FALSE /\ failed' \in BOOLEAN
        BY <1>27 DEF RetireBarrier, LatchPlace, TypeOK
    <2>b. (failed' = FALSE => failed = FALSE) /\ (failed' = TRUE => pc' = "reopening" /\ latched' = TRUE)
        BY <1>27, <2>a DEF RetireBarrier, TypeOK
    <2>c. failed' = FALSE => pc' = "sourcesretired" /\ latched' = FALSE
        BY <1>27, <2>a DEF RetireBarrier, TypeOK
    <2>1. AllWhole' /\ RecordsTrue' /\ EntriesKept'
        BY <1>27 DEF RetireBarrier, AllWhole, RecordsTrue, Superseded, EntriesKept, Readable,
               Holding
    <2>2. Building' /\ Published' /\ Retiring'
        BY <1>27 DEF RetireBarrier, Building, Published, Retiring, BeforeLink
    <2>3. CatalogTrue' /\ RecordPlace' /\ LatchPlace'
        BY <1>27, <2>a, <2>b, <2>c DEF RetireBarrier, Retiring, CatalogTrue, Steady,
               RecordPlace, LatchPlace, BeforeLink, Holding
    <2>. QED
        BY <2>1, <2>2, <2>3
<1>28. CASE RemoveRecord
    <2>1. AllWhole' /\ RecordsTrue' /\ EntriesKept'
        BY <1>28 DEF RemoveRecord, AllWhole, RecordsTrue, Superseded, EntriesKept, Readable, Holding
    <2>2. Building' /\ Published' /\ Retiring'
        BY <1>28 DEF RemoveRecord, Building, Published, Retiring, BeforeLink
    <2>3. CatalogTrue' /\ RecordPlace' /\ LatchPlace'
        BY <1>28 DEF RemoveRecord, CatalogTrue, Steady, RecordPlace, LatchPlace, BeforeLink,
               Holding, TypeOK
    <2>. QED
        BY <2>1, <2>2, <2>3
<1>29. CASE MergeEnds
    <2>1. AllWhole' /\ RecordsTrue' /\ EntriesKept'
        BY <1>29 DEF MergeEnds, AllWhole, RecordsTrue, Superseded, EntriesKept, Readable, Holding
    <2>2. Building' /\ Published' /\ Retiring'
        BY <1>29 DEF MergeEnds, Building, Published, Retiring, BeforeLink
    <2>3. CatalogTrue' /\ RecordPlace' /\ LatchPlace'
        BY <1>29 DEF MergeEnds, CatalogTrue, Steady, RecordPlace, LatchPlace, BeforeLink, Holding
    <2>. QED
        BY <2>1, <2>2, <2>3
<1>30. CASE ReopenActive
    <2>1. AllWhole' /\ RecordsTrue' /\ EntriesKept'
        BY <1>30 DEF ReopenActive, NoJob, AllWhole, RecordsTrue, Superseded, EntriesKept,
               Readable, Holding
    <2>2. Building' /\ Published' /\ Retiring'
        BY <1>30 DEF ReopenActive, NoJob, Building, Published, Retiring, BeforeLink
    <2>3. CatalogTrue' /\ RecordPlace' /\ LatchPlace'
        BY <1>30 DEF ReopenActive, NoJob, CatalogTrue, Steady, RecordPlace, LatchPlace,
               BeforeLink, Holding
    <2>. QED
        BY <2>1, <2>2, <2>3
<1>31. CASE StartRecovery
    <2>a. /\ pc \in {"closed", "refused"}
          /\ pc' = Verdict
          /\ UNCHANGED <<data, building, record, temp, group, catalog, issued, held, latched, failed>>
        BY <1>31 DEF StartRecovery
    <2>b. Verdict \in {"refused", "sweeping", "undoing", "finishing"}
        BY DEF Verdict
    <2>c. Verdict = "sweeping" => Records = {}
        BY DEF Verdict
    <2>d. Verdict \in {"undoing", "finishing"} => Records # {}
        BY DEF Verdict
    <2>e. Verdict = "finishing" => data[Max(Records)] # None
        BY DEF Verdict
    <2>f. Records # {} => /\ Max(Records) \in Version
                          /\ record[Max(Records)] # None
                          /\ Records = {Max(Records)}
        <3>1. Records \in SUBSET Version
            BY DEF Records, Holding
        <3>2. Records # {} => Max(Records) \in Records
            BY <3>1, MaxMember
        <3>3. \A u, v \in Records : u = v
            BY DEF RecordPlace, Records
        <3>. QED
            BY <3>2, <3>3 DEF Records, Holding
    <2>g. pc' \in {"undoing", "finishing"} =>
            target' = Max(Records) /\ todo' = record[Max(Records)].sources
        BY <1>31, <2>d DEF StartRecovery
    <2>h. latched = FALSE /\ failed = FALSE
        BY <2>a DEF LatchPlace, TypeOK
    <2>1. AllWhole' /\ RecordsTrue' /\ EntriesKept'
        BY <2>a DEF AllWhole, RecordsTrue, Superseded, EntriesKept, Readable, Holding
    <2>2. Building' /\ Published' /\ CatalogTrue' /\ LatchPlace'
        BY <2>a, <2>b, <2>h DEF Building, Published, CatalogTrue, Steady, LatchPlace, BeforeLink
    <2>3. Retiring'
        BY <2>a, <2>b, <2>d, <2>e, <2>f, <2>g DEF Retiring, RecordsTrue, Superseded
    <2>4. RecordPlace'
        <3>1. Holding(record)' = Records
            BY <2>a DEF Records, Holding
        <3>. QED
            BY <2>a, <2>b, <2>c, <2>d, <2>f, <2>g, <3>1 DEF RecordPlace
    <2>. QED
        BY <2>1, <2>2, <2>3, <2>4
<1>32. CASE UndoBuilding
    <2>1. AllWhole' /\ RecordsTrue' /\ EntriesKept'
        BY <1>32 DEF UndoBuilding, AllWhole, RecordsTrue, Superseded, EntriesKept, Readable, Holding
    <2>2. Building' /\ Published' /\ Retiring'
        BY <1>32 DEF UndoBuilding, Building, Published, Retiring, BeforeLink
    <2>3. CatalogTrue' /\ RecordPlace' /\ LatchPlace'
        BY <1>32 DEF UndoBuilding, CatalogTrue, Steady, RecordPlace, LatchPlace, BeforeLink, Holding
    <2>. QED
        BY <2>1, <2>2, <2>3
<1>33. CASE FinishRetire
    <2>. DEFINE m == Min(todo)
    <2>a. m \in todo /\ m \in Version /\ m # target
        BY <1>33, MinMember DEF FinishRetire, Retiring, TypeOK
    <2>b. /\ pc = "finishing" /\ pc' = pc
          /\ todo' = todo \ {m}
          /\ data' = [data EXCEPT ![m] = None]
          /\ UNCHANGED <<record, target, catalog, issued, held, latched, failed>>
        BY <1>33 DEF FinishRetire
    <2>. HIDE DEF m
    <2>1. AllWhole' /\ RecordsTrue' /\ EntriesKept'
        <3>1. data[target] # None /\ Superseded(m, target) /\ Holding(record) \subseteq {target}
            BY <2>a, <2>b DEF Retiring, RecordPlace
        <3>2. target \in Version
            BY DEF TypeOK
        <3>. QED
            BY <2>a, <2>b, <3>1, <3>2, RetiredKept
    <2>2. Retiring'
        BY <2>a, <2>b DEF Retiring, Superseded, TypeOK
    <2>3. Building' /\ Published' /\ CatalogTrue' /\ RecordPlace' /\ LatchPlace'
        BY <2>b DEF Building, Published, BeforeLink, CatalogTrue, Steady, RecordPlace,
               LatchPlace, Holding
    <2>. QED
        BY <2>1, <2>2, <2>3
<1>34. CASE FinishBarrier
    <2>1. AllWhole' /\ RecordsTrue' /\ EntriesKept'
        BY <1>34 DEF FinishBarrier, AllWhole, RecordsTrue, Superseded, EntriesKept, Readable,
               Holding
    <2>2. Building' /\ Published' /\ Retiring'
        BY <1>34 DEF FinishBarrier, Building, Published, Retiring, BeforeLink
    <2>3. CatalogTrue' /\ RecordPlace' /\ LatchPlace'
        BY <1>34 DEF FinishBarrier, CatalogTrue, Steady, RecordPlace, LatchPlace, BeforeLink,
               Holding
    <2>. QED
        BY <2>1, <2>2, <2>3
<1>35. CASE RecoveryRemovesRecord
    <2>1. AllWhole' /\ RecordsTrue' /\ EntriesKept'
        BY <1>35 DEF RecoveryRemovesRecord, AllWhole, RecordsTrue, Superseded, EntriesKept,
               Readable, Holding
    <2>2. Building' /\ Published' /\ Retiring'
        BY <1>35 DEF RecoveryRemovesRecord, Building, Published, Retiring, BeforeLink
    <2>3. CatalogTrue' /\ RecordPlace' /\ LatchPlace'
        BY <1>35 DEF RecoveryRemovesRecord, CatalogTrue, Steady, RecordPlace, LatchPlace,
               BeforeLink, Holding, TypeOK
    <2>. QED
        BY <2>1, <2>2, <2>3
<1>36. CASE RecoveryRemovesBuilding
    <2>1. AllWhole' /\ RecordsTrue' /\ EntriesKept'
        BY <1>36 DEF RecoveryRemovesBuilding, AllWhole, RecordsTrue, Superseded, EntriesKept,
               Readable, Holding
    <2>2. Building' /\ Published' /\ Retiring'
        BY <1>36 DEF RecoveryRemovesBuilding, Building, Published, Retiring, BeforeLink
    <2>3. CatalogTrue' /\ RecordPlace' /\ LatchPlace'
        BY <1>36 DEF RecoveryRemovesBuilding, CatalogTrue, Steady, RecordPlace, LatchPlace,
               BeforeLink, Holding
    <2>. QED
        BY <2>1, <2>2, <2>3
<1>37. CASE RecoveryBarrier
    <2>1. AllWhole' /\ RecordsTrue' /\ EntriesKept'
        BY <1>37 DEF RecoveryBarrier, AllWhole, RecordsTrue, Superseded, EntriesKept, Readable,
               Holding
    <2>2. Building' /\ Published' /\ Retiring'
        BY <1>37 DEF RecoveryBarrier, Building, Published, Retiring, BeforeLink
    <2>3. CatalogTrue' /\ RecordPlace' /\ LatchPlace'
        BY <1>37 DEF RecoveryBarrier, CatalogTrue, Steady, RecordPlace, LatchPlace, BeforeLink,
               Holding
    <2>. QED
        BY <2>1, <2>2, <2>3
<1>38. CASE FinishOpen
    <2>. DEFINE empty == Holding(data) = {}
                fresh == [keys |-> {}, id |-> 0, whole |-> TRUE]
    <2>a. /\ pc = "sweeping"
          /\ pc' = IF \A v \in Holding(data) : data[v].whole THEN "serving" ELSE "refused"
          /\ data' = IF empty THEN [data EXCEPT ![0] = fresh] ELSE data
          /\ UNCHANGED <<record, latched, held>>
          /\ failed' = FALSE
        BY <1>38 DEF FinishOpen, NoJob
    <2>b. pc' = "serving"
        BY <2>a DEF AllWhole, Holding
    <2>c. catalog' = Holding(data)' /\ issued' = Max(catalog')
        BY <1>38, <2>b DEF FinishOpen, Holding
    <2>d. latched = FALSE
        BY <2>a DEF LatchPlace, TypeOK
    <2>e. fresh \in GenFile /\ fresh # None
        <3>1. fresh \in GenFile
            BY ZeroType DEF GenFile
        <3>. QED
            BY <3>1
    <2>1. AllWhole'
        BY <2>a DEF AllWhole, TypeOK
    <2>2. EntriesKept'
        BY <2>a DEF EntriesKept, Readable, Holding
    <2>3. CatalogTrue'
        <3>1. Holding(data)' # {} /\ Holding(data)' \in SUBSET Version
            BY <2>a, <2>e, ZeroType DEF Holding, TypeOK
        <3>. QED
            BY <2>c, <3>1, MaxMember DEF CatalogTrue
    <2>4. RecordsTrue' /\ RecordPlace' /\ LatchPlace'
        <3>1. \A t \in Version : record'[t] = None
            BY <2>a DEF RecordPlace, Holding
        <3>. QED
            BY <2>a, <2>b, <2>d, <3>1 DEF RecordsTrue, RecordPlace, LatchPlace, Holding
    <2>5. Building' /\ Published' /\ Retiring'
        BY <2>b DEF Building, Published, Retiring, BeforeLink
    <2>. QED
        BY <2>1, <2>2, <2>3, <2>4, <2>5
<1>39. CASE OpenFails
    <2>1. AllWhole' /\ RecordsTrue' /\ EntriesKept'
        BY <1>39 DEF OpenFails, NoJob, AllWhole, RecordsTrue, Superseded, EntriesKept, Readable,
               Holding
    <2>2. Building' /\ Published' /\ Retiring'
        BY <1>39 DEF OpenFails, NoJob, Building, Published, Retiring, BeforeLink
    <2>3. CatalogTrue' /\ RecordPlace' /\ LatchPlace'
        BY <1>39 DEF OpenFails, NoJob, CatalogTrue, Steady, RecordPlace, LatchPlace, BeforeLink,
               Holding
    <2>. QED
        BY <2>1, <2>2, <2>3
<1>40. CASE ProcessCrash
    <2>1. AllWhole' /\ RecordsTrue' /\ EntriesKept'
        BY <1>40 DEF ProcessCrash, NoJob, InstanceGone, AllWhole, RecordsTrue, Superseded,
               EntriesKept, Readable, Holding
    <2>2. Building' /\ Published' /\ Retiring'
        BY <1>40 DEF ProcessCrash, NoJob, InstanceGone, Building, Published, Retiring, BeforeLink
    <2>3. CatalogTrue' /\ RecordPlace' /\ LatchPlace'
        BY <1>40 DEF ProcessCrash, NoJob, InstanceGone, CatalogTrue, Steady, RecordPlace,
               LatchPlace, BeforeLink, Holding
    <2>. QED
        BY <2>1, <2>2, <2>3
<1>41. CASE UNCHANGED vars
    <2>1. AllWhole' /\ RecordsTrue' /\ EntriesKept'
        BY <1>41 DEF vars, AllWhole, RecordsTrue, Superseded, EntriesKept, Readable, Holding, TypeOK
    <2>2. Building' /\ Published' /\ Retiring'
        BY <1>41 DEF vars, Building, Published, Retiring, BeforeLink, Superseded, Holding,
               KeysIn, ThePlan, TypeOK
    <2>3. CatalogTrue' /\ RecordPlace' /\ LatchPlace'
        BY <1>41 DEF vars, CatalogTrue, Steady, RecordPlace, LatchPlace, BeforeLink, Holding, TypeOK
    <2>. QED
        BY <2>1, <2>2, <2>3
<1>. QED
    BY <1>1, <1>2, <1>3, <1>4, <1>5, <1>6, <1>7, <1>8, <1>9, <1>10, <1>11, <1>12, <1>13, <1>14,
       <1>15, <1>16, <1>17, <1>18, <1>19, <1>20, <1>21, <1>22, <1>23, <1>24, <1>25, <1>26, <1>27, <1>28,
       <1>29, <1>30, <1>31, <1>32, <1>33, <1>34, <1>35, <1>36, <1>37, <1>38, <1>39, <1>40, <1>41
       DEF Next, MergeStep, OpenStep

\* A directory without files satisfies it.
LEMMA KeepInit == Init => KeepInv
<1>. SUFFICES ASSUME Init PROVE KeepInv
    OBVIOUS
<1>1. AllWhole /\ RecordsTrue /\ EntriesKept
    BY DEF Init, AllWhole, RecordsTrue, EntriesKept
<1>2. Building /\ Published /\ Retiring
    BY DEF Init, Building, Published, Retiring, BeforeLink
<1>3. CatalogTrue /\ RecordPlace /\ LatchPlace
    BY DEF Init, CatalogTrue, Steady, RecordPlace, LatchPlace, BeforeLink, Holding
<1>. QED
    BY <1>1, <1>2, <1>3 DEF KeepInv

\* Without loss of power no entry is ever in no generation: not while a merge
\* publishes its target and unlinks its sources, not after any of its calls has
\* failed, not after a crash between two of them, not during the recovery.
THEOREM EntriesKeptThm ==
    ASSUME "power" \notin Faults
    PROVE  Spec => []EntriesKept
<1>1. Init => TypeInv
    BY TypeInit
<1>2. Init => KeepInv
    BY KeepInit
<1>3. TypeInv /\ KeepInv /\ [Next]_vars => TypeInv' /\ KeepInv'
    BY TypeStep, KeepStep DEF PowerLoss, Spend
<1>4. KeepInv => EntriesKept
    BY DEF KeepInv
<1>. QED
    BY <1>1, <1>2, <1>3, <1>4, PTL DEF Spec
-----------------------------------------------------------------------------
(* Nothing is served twice, and recovery refuses nothing *)

\* Without power loss no generation holds an entry that was deleted.
HeldOnly == \A v \in Version : data[v] # None => data[v].keys \subseteq held

\* A record is readable, and the target beside it carries its marker.
RecordsMatch ==
    \A t \in Version : record[t] # None =>
        /\ record[t].whole
        /\ data[t] # None => data[t].id = record[t].id

Recorded(s, t) == record[t] # None /\ s \in record[t].sources

\* Two generations share a key only as a source and the target of a record.
SharedIsRecorded ==
    \A u, v \in Holding(data) :
        u # v /\ data[u].keys \cap data[v].keys # {} => Recorded(u, v) \/ Recorded(v, u)

\* The sources the target's record names are gone, but for those in S.
SourcesGone(S) ==
    /\ record[target] # None
    /\ \A s \in record[target].sources : data[s] = None \/ s \in S

\* The merge in hand: its build carries its marker, its record stays until the
\* sources are gone or the target was not published.
MergeTraced ==
    /\ pc \in BeforeLink => building[target].id = mergeId
    /\ pc \in {"linked", "published", "targetdurable"} => record[target] = ThePlan
    /\ pc \in {"withdrawing", "undoing"} => data[target] = None
    /\ pc \in {"retiring", "finishing"} => failed \/ SourcesGone(todo)
    /\ pc = "sourcesretired" => SourcesGone({})
    /\ pc = "undone" => data[target] = None \/ SourcesGone({})

FilesInv == HeldOnly /\ RecordsMatch /\ SharedIsRecorded

OnceInv == FilesInv /\ MergeTraced

\* A step that leaves generations, records and entries alone.
LEMMA FilesAlone ==
    ASSUME FilesInv, UNCHANGED <<data, record, held>>
    PROVE  FilesInv'
BY DEF FilesInv, HeldOnly, RecordsMatch, SharedIsRecorded, Recorded, Holding

\* Unlinking a generation makes no two others share a key.
LEMMA SourceLeaves ==
    ASSUME TypeOK, FilesInv, NEW m \in Version, data' = [data EXCEPT ![m] = None],
           UNCHANGED <<record, held>>
    PROVE  FilesInv'
<1>1. data'[m] = None /\ \A v \in Version \ {m} : data'[v] = data[v]
    BY DEF TypeOK
<1>2. HeldOnly' /\ RecordsMatch'
    BY <1>1 DEF FilesInv, HeldOnly, RecordsMatch
<1>3. SharedIsRecorded'
    <2>. SUFFICES ASSUME NEW u \in Version, NEW v \in Version, data'[u] # None, data'[v] # None,
                         u # v, data'[u].keys \cap data'[v].keys # {}
                  PROVE  Recorded(u, v) \/ Recorded(v, u)
        BY DEF SharedIsRecorded, Recorded, Holding
    <2>1. data'[u] = data[u] /\ data'[v] = data[v]
        BY <1>1
    <2>. QED
        BY <2>1 DEF FilesInv, SharedIsRecorded, Holding
<1>. QED
    BY <1>2, <1>3 DEF FilesInv

\* A record may go once its target was not published or its sources are gone:
\* then no two generations share a key.
LEMMA RecordLeaves ==
    ASSUME TypeOK, FilesInv, target \in Version, Holding(record) \subseteq {target},
           \/ data[target] = None
           \/ \A s \in record[target].sources : data[s] = None,
           \/ record' = [record EXCEPT ![target] = None]
           \/ record' = record,
           UNCHANGED <<data, held>>
    PROVE  FilesInv'
<1>1. \A u, v \in Holding(data) : ~Recorded(u, v)
    BY DEF Recorded, Holding
<1>2. \A t \in Version : record'[t] # None => record'[t] = record[t]
    BY DEF TypeOK
<1>3. HeldOnly' /\ RecordsMatch'
    BY <1>2 DEF FilesInv, HeldOnly, RecordsMatch
<1>4. SharedIsRecorded'
    BY <1>1 DEF FilesInv, SharedIsRecorded, Holding
<1>. QED
    BY <1>3, <1>4 DEF FilesInv

\* Where there is no record no two generations share a key.
LEMMA NoneShared ==
    ASSUME FilesInv, Holding(record) = {}
    PROVE  \A u, v \in Holding(data) : u # v => data[u].keys \cap data[v].keys = {}
<1>1. \A u, v \in Holding(data) : ~Recorded(u, v)
    BY DEF Recorded, Holding
<1>. QED
    BY <1>1 DEF FilesInv, SharedIsRecorded

\* Where the marker of a build, a record and a retirement are looked for.
InMerge == BeforeLink \cup {"linked", "published", "targetdurable", "withdrawing", "undoing",
                            "retiring", "finishing", "sourcesretired", "undone"}

\* A step that ends outside a merge has nothing of it to keep.
LEMMA OutOfMerge ==
    ASSUME pc' \notin InMerge
    PROVE  MergeTraced'
BY DEF MergeTraced, InMerge, BeforeLink

\* The steps of an instance at work keep FilesInv.
LEMMA InsertOnce ==
    ASSUME TypeInv, KeepInv, OnceInv, NEW k \in Key, Insert(k)
    PROVE  OnceInv'
<1>. USE CompactionAssumption DEF TypeInv, KeepInv, OnceInv, job, Works
<1>. DEFINE full == Cardinality(data[Active].keys) >= RotateAt
            v == IF full THEN issued + 1 ELSE Active
            old == IF full THEN [keys |-> {}, id |-> 0, whole |-> TRUE] ELSE data[v]
            new == [old EXCEPT !.keys = @ \cup {k}]
<1>a. /\ pc = "serving" /\ pc' = pc
      /\ ~latched
      /\ v \in Version
      /\ k \notin Readable
      /\ data' = [data EXCEPT ![v] = new]
      /\ held' = held \cup {k}
      /\ UNCHANGED record
    BY DEF Insert
<1>b. Holding(data) = catalog /\ Holding(record) = {} /\ \A u \in catalog : u <= issued
    BY <1>a DEF CatalogTrue, Steady, RecordPlace
<1>c. Active \in catalog
    BY <1>a, MaxMember DEF CatalogInv, Opening, Active, TypeOK
<1>d. issued \in Nat /\ \A u \in Version : u \in Nat
    BY DEF TypeOK, Version
<1>e. \/ data[v] = None /\ old.keys = {} /\ old \in GenFile
      \/ data[v] # None /\ old = data[v] /\ old \in GenFile
    <2>1. CASE full
        BY <1>a, <1>b, <1>d, <2>1, ZeroType DEF Holding, GenFile
    <2>2. CASE ~full
        BY <1>b, <1>c, <2>2 DEF Holding, TypeOK
    <2>. QED
        BY <2>1, <2>2
<1>f. new.keys = old.keys \cup {k}
    <2>. HIDE DEF full, v, old
    <2>. QED
        BY <1>e DEF GenFile
<1>g. data'[v] = new /\ \A u \in Version \ {v} : data'[u] = data[u]
    BY <1>a DEF TypeOK
<1>. HIDE DEF full, v, old, new
<1>h. \A u \in Version : data[u] # None => k \notin data[u].keys
    BY <1>a DEF Readable, Holding, AllWhole
<1>i. old.keys \subseteq held
    BY <1>a, <1>e DEF FilesInv, HeldOnly
<1>1. HeldOnly'
    BY <1>a, <1>f, <1>g, <1>i DEF FilesInv, HeldOnly
<1>2. RecordsMatch'
    BY <1>a, <1>b DEF RecordsMatch, Holding
<1>3. SharedIsRecorded'
    <2>. SUFFICES ASSUME NEW u \in Version, NEW w \in Version, data'[u] # None, data'[w] # None,
                         u # w, NEW x, x \in data'[u].keys, x \in data'[w].keys
                  PROVE  FALSE
        BY DEF SharedIsRecorded, Holding
    <2>1. CASE u # v /\ w # v
        BY <1>b, <1>g, <2>1, NoneShared DEF Holding
    <2>2. CASE u = v
        <3>1. data'[w] = data[w] /\ data[w] # None /\ x \in old.keys
            BY <1>f, <1>g, <1>h, <2>2
        <3>2. data[v] # None /\ x \in data[v].keys
            BY <1>e, <3>1
        <3>. QED
            BY <1>a, <1>b, <2>2, <3>1, <3>2, NoneShared DEF Holding
    <2>3. CASE w = v
        <3>1. data'[u] = data[u] /\ data[u] # None /\ x \in old.keys
            BY <1>f, <1>g, <1>h, <2>3
        <3>2. data[v] # None /\ x \in data[v].keys
            BY <1>e, <3>1
        <3>. QED
            BY <1>a, <1>b, <2>3, <3>1, <3>2, NoneShared DEF Holding
    <2>. QED
        BY <2>1, <2>2, <2>3
<1>4. MergeTraced'
    BY <1>a, OutOfMerge DEF InMerge, BeforeLink
<1>. QED
    BY <1>1, <1>2, <1>3, <1>4 DEF FilesInv

\* The key that is erased was in that generation alone, so it is in none.
LEMMA DeleteOnce ==
    ASSUME TypeInv, KeepInv, OnceInv, NEW k \in Key, Delete(k)
    PROVE  OnceInv'
<1>. USE CompactionAssumption DEF TypeInv, KeepInv, OnceInv, book, job, Works
<1>0. PICK v \in catalog : k \in data[v].keys /\ data' = [data EXCEPT ![v].keys = @ \ {k}]
    BY DEF Delete
<1>a. pc = "serving" /\ pc' = pc /\ ~latched /\ held' = held \ {k} /\ UNCHANGED record
    BY DEF Delete
<1>b. Holding(data) = catalog /\ Holding(record) = {}
    BY <1>a DEF CatalogTrue, Steady, RecordPlace
<1>c. v \in Version /\ data[v] # None /\ data[v] \in GenFile
    BY <1>0, <1>b DEF Holding, TypeOK
<1>d. data'[v] = [data[v] EXCEPT !.keys = @ \ {k}] /\ \A u \in Version \ {v} : data'[u] = data[u]
    BY <1>0, <1>c DEF TypeOK
<1>e. data'[v].keys = data[v].keys \ {k}
    BY <1>c, <1>d DEF GenFile
<1>f. \A u \in Version : data'[u] # None => data[u] # None /\ data'[u].keys \subseteq data[u].keys \ {k}
    <2>. SUFFICES ASSUME NEW u \in Version, data'[u] # None
                  PROVE  data[u] # None /\ \A x \in data'[u].keys : x \in data[u].keys /\ x # k
        OBVIOUS
    <2>1. CASE u = v
        BY <1>c, <1>e, <2>1
    <2>2. CASE u # v
        <3>1. data'[u] = data[u]
            BY <1>d, <2>2
        <3>2. data[u].keys \cap data[v].keys = {}
            BY <1>b, <1>c, <2>2, <3>1, NoneShared DEF Holding
        <3>. QED
            BY <1>0, <3>1, <3>2
    <2>. QED
        BY <2>1, <2>2
<1>1. HeldOnly'
    <2>. SUFFICES ASSUME NEW u \in Version, data'[u] # None, NEW x \in data'[u].keys
                  PROVE  x \in held'
        BY DEF HeldOnly
    <2>. QED
        BY <1>a, <1>f DEF FilesInv, HeldOnly
<1>2. RecordsMatch'
    BY <1>a, <1>b DEF RecordsMatch, Holding
<1>3. SharedIsRecorded'
    <2>. SUFFICES ASSUME NEW u \in Version, NEW w \in Version, data'[u] # None, data'[w] # None,
                         u # w, NEW x, x \in data'[u].keys, x \in data'[w].keys
                  PROVE  FALSE
        BY DEF SharedIsRecorded, Holding
    <2>. QED
        BY <1>b, <1>f, NoneShared DEF Holding
<1>4. MergeTraced'
    BY <1>a, OutOfMerge DEF InMerge, BeforeLink
<1>. QED
    BY <1>1, <1>2, <1>3, <1>4 DEF FilesInv

\* link(2) gives the target its name beside its record: what it shares with other
\* generations it shares with the sources that the record names.
LEMMA LinkOnce ==
    ASSUME TypeInv, KeepInv, OnceInv, LinkTarget
    PROVE  OnceInv'
<1>. USE CompactionAssumption DEF TypeInv, KeepInv, OnceInv, book, job, ghost, Works
<1>a. /\ pc = "recorded" /\ pc' = "linked"
      /\ data[target] = None
      /\ data' = [data EXCEPT ![target] = building[target]]
      /\ UNCHANGED <<record, held, target, mergeId, group>>
    BY DEF LinkTarget
<1>b. target \in Version /\ group \subseteq Version /\ group \subseteq Holding(data)
    BY <1>a DEF TypeOK, CatalogInv, Unretired, BeforeLink
<1>c. /\ record[target] = ThePlan /\ Holding(record) \subseteq {target}
      /\ building[target].keys = KeysIn(group) /\ building[target].id = mergeId
    BY <1>a DEF Building, BeforeLink, RecordPlace, MergeTraced
<1>d. data'[target] = building[target] /\ \A u \in Version \ {target} : data'[u] = data[u]
    BY <1>a, <1>b DEF TypeOK
<1>e. record[target].sources = group /\ record[target].id = mergeId /\ record[target] # None
    <2>1. ThePlan.sources = group /\ ThePlan.id = mergeId
        BY DEF ThePlan
    <2>2. ThePlan \in Plan
        BY DEF TypeOK, ThePlan, Plan
    <2>. QED
        BY <1>c, <2>1, <2>2
<1>f. \A x \in KeysIn(group) : \E s \in group : x \in data[s].keys
    BY DEF KeysIn
<1>g. \A u, w \in Holding(data) : u # w => data[u].keys \cap data[w].keys = {}
    <2>1. \A u, w \in Holding(data) : ~Recorded(u, w)
        BY <1>a, <1>c DEF Recorded, Holding
    <2>. QED
        BY <2>1 DEF FilesInv, SharedIsRecorded
<1>1. HeldOnly'
    <2>. SUFFICES ASSUME NEW u \in Version, data'[u] # None, NEW x \in data'[u].keys
                  PROVE  x \in held
        BY <1>a DEF HeldOnly
    <2>1. \E s \in Version : data[s] # None /\ x \in data[s].keys
        BY <1>b, <1>c, <1>d, <1>f DEF Holding
    <2>. QED
        BY <2>1 DEF FilesInv, HeldOnly
<1>2. RecordsMatch'
    <2>. SUFFICES ASSUME NEW t \in Version, record[t] # None
                  PROVE  record[t].whole /\ (data'[t] # None => data'[t].id = record[t].id)
        BY <1>a DEF RecordsMatch
    <2>1. t = target
        BY <1>c DEF Holding
    <2>. QED
        BY <1>c, <1>d, <1>e, <2>1 DEF FilesInv, RecordsMatch
<1>3. SharedIsRecorded'
    <2>0. ASSUME NEW w \in Version, data'[w] # None, w # target,
                 NEW x, x \in data'[w].keys, x \in data'[target].keys
          PROVE  record'[target] # None /\ w \in record'[target].sources
        <3>1. data'[w] = data[w]
            BY <1>d, <2>0
        <3>2. PICK s \in group : x \in data[s].keys
            BY <1>c, <1>d, <1>f, <2>0
        <3>3. s = w
            BY <1>b, <1>g, <2>0, <3>1, <3>2 DEF Holding
        <3>. QED
            BY <1>a, <1>e, <3>3
    <2>. SUFFICES ASSUME NEW u \in Version, NEW w \in Version, data'[u] # None, data'[w] # None,
                         u # w, NEW x, x \in data'[u].keys, x \in data'[w].keys
                  PROVE  Recorded(u, w)' \/ Recorded(w, u)'
        BY DEF SharedIsRecorded, Holding
    <2>1. CASE u # target /\ w # target
        BY <1>d, <1>g, <2>1 DEF Holding
    <2>2. CASE u = target
        BY <2>0, <2>2 DEF Recorded
    <2>3. CASE w = target
        BY <2>0, <2>3 DEF Recorded
    <2>. QED
        BY <2>1, <2>2, <2>3
<1>4. MergeTraced'
    BY <1>a, <1>c DEF MergeTraced, BeforeLink, ThePlan
<1>. QED
    BY <1>1, <1>2, <1>3, <1>4 DEF FilesInv

\* Every step of the container, of recovery and of the environment keeps the
\* invariant.
LEMMA OnceStep ==
    ASSUME ~PowerLoss
    PROVE  TypeInv /\ KeepInv /\ OnceInv /\ [Next]_vars => OnceInv'
<1>. SUFFICES ASSUME TypeInv, KeepInv, OnceInv, [Next]_vars PROVE OnceInv'
    OBVIOUS
<1>. USE CompactionAssumption DEF TypeInv, KeepInv, OnceInv, files, book, job, ghost, Works, Spend
<1>0. target \in Version
    BY DEF TypeOK
<1>1. ASSUME NEW k \in Key, Insert(k) \/ Delete(k) PROVE OnceInv'
    BY <1>1, InsertOnce, DeleteOnce
<1>2. CASE Sync \/ Close \/ StartCompaction \/ SkipFirst \/ GroupsDone
    <2>1. pc' \notin InMerge
        BY <1>2 DEF Sync, Close, StartCompaction, SkipFirst, GroupsDone, InMerge, BeforeLink
    <2>2. UNCHANGED <<data, record, held>>
        BY <1>2 DEF Sync, Close, StartCompaction, SkipFirst, GroupsDone
    <2>. QED
        BY <2>1, <2>2, FilesAlone, OutOfMerge
<1>3. CASE GroupTooLarge \/ BuildFails \/ MergeCalledOff \/ MergeLatches \/ MergeEnds \/ ReopenActive
    <2>1. pc' \notin InMerge
        BY <1>3 DEF GroupTooLarge, BuildFails, MergeCalledOff, MergeLatches, MergeEnds,
                    ReopenActive, InMerge, BeforeLink
    <2>2. UNCHANGED <<data, record, held>>
        BY <1>3 DEF GroupTooLarge, BuildFails, MergeCalledOff, MergeLatches, MergeEnds,
                    ReopenActive
    <2>. QED
        BY <2>1, <2>2, FilesAlone, OutOfMerge
<1>4. CASE ConfirmWithdrawal \/ DiscardBuilding \/ RecoveryRemovesBuilding \/ RecoveryBarrier
              \/ OpenFails \/ ProcessCrash
    <2>1. pc' \notin InMerge
        BY <1>4 DEF ConfirmWithdrawal, DiscardBuilding, RecoveryRemovesBuilding, RecoveryBarrier,
                    OpenFails, ProcessCrash, InstanceGone, InMerge, BeforeLink
    <2>2. UNCHANGED <<data, record, held>>
        BY <1>4 DEF ConfirmWithdrawal, DiscardBuilding, RecoveryRemovesBuilding, RecoveryBarrier,
                    OpenFails, ProcessCrash, InstanceGone
    <2>. QED
        BY <2>1, <2>2, FilesAlone, OutOfMerge
<1>5. CASE BuildTarget
    <2>1. UNCHANGED <<data, record, held>>
        BY <1>5 DEF BuildTarget
    <2>2. MergeTraced'
        BY <1>0, <1>5 DEF BuildTarget, MergeTraced, BeforeLink, NewTarget, TypeOK
    <2>. QED
        BY <2>1, <2>2, FilesAlone
<1>6. CASE SyncBuilding
    <2>1. UNCHANGED <<data, record, held>>
        BY <1>6 DEF SyncBuilding
    <2>2. MergeTraced'
        BY <1>0, <1>6 DEF SyncBuilding, MergeTraced, BeforeLink, TypeOK
    <2>. QED
        BY <2>1, <2>2, FilesAlone
<1>7. CASE WriteRecord
    <2>1. UNCHANGED <<data, record, held>>
        BY <1>7 DEF WriteRecord
    <2>2. MergeTraced'
        BY <1>0, <1>7 DEF WriteRecord, MergeTraced, BeforeLink, TypeOK
    <2>. QED
        BY <2>1, <2>2, FilesAlone
<1>8. CASE RecordBarrier
    <2>1. UNCHANGED <<data, record, held>>
        BY <1>8 DEF RecordBarrier
    <2>2. MergeTraced'
        BY <1>0, <1>8 DEF RecordBarrier, MergeTraced, BeforeLink, TypeOK
    <2>. QED
        BY <2>1, <2>2, FilesAlone
<1>9. CASE UnlinkBuilding
    <2>1. UNCHANGED <<data, record, held>>
        BY <1>9 DEF UnlinkBuilding
    <2>2. MergeTraced'
        BY <1>0, <1>9 DEF UnlinkBuilding, MergeTraced, BeforeLink, ThePlan
    <2>. QED
        BY <2>1, <2>2, FilesAlone
<1>10. CASE TargetBarrier
    <2>1. UNCHANGED <<data, record, held>>
        BY <1>10 DEF TargetBarrier
    <2>2. MergeTraced'
        BY <1>0, <1>10 DEF TargetBarrier, MergeTraced, BeforeLink, ThePlan
    <2>. QED
        BY <2>1, <2>2, FilesAlone
<1>11. CASE LinkFails
    <2>1. UNCHANGED <<data, record, held>>
        BY <1>11 DEF LinkFails
    <2>2. MergeTraced'
        BY <1>0, <1>11 DEF LinkFails, MergeTraced, BeforeLink, Building
    <2>. QED
        BY <2>1, <2>2, FilesAlone
<1>12. CASE UndoBuilding
    <2>1. UNCHANGED <<data, record, held>>
        BY <1>12 DEF UndoBuilding
    <2>2. MergeTraced'
        BY <1>0, <1>12 DEF UndoBuilding, MergeTraced, BeforeLink, SourcesGone
    <2>. QED
        BY <2>1, <2>2, FilesAlone
<1>13. CASE FinishBarrier
    <2>1. UNCHANGED <<data, record, held>>
        BY <1>13 DEF FinishBarrier
    <2>2. MergeTraced'
        BY <1>0, <1>13 DEF FinishBarrier, MergeTraced, BeforeLink, SourcesGone, LatchPlace
    <2>. QED
        BY <2>1, <2>2, FilesAlone
<1>14. CASE CheckMarker
    <2>1. UNCHANGED <<data, record, held>>
        BY <1>14 DEF CheckMarker
    <2>2. MergeTraced'
        <3>1. CASE pc' = "reopening"
            BY <3>1, OutOfMerge DEF InMerge, BeforeLink
        <3>2. CASE pc' = "retiring"
            <4>1. record[target] = ThePlan /\ todo' = group /\ UNCHANGED <<target, record, data>>
                BY <1>14, <3>2 DEF CheckMarker, MergeTraced
            <4>2. ThePlan.sources = group /\ ThePlan \in Plan
                BY DEF ThePlan, Plan, TypeOK
            <4>3. SourcesGone(todo)'
                BY <4>1, <4>2 DEF SourcesGone
            <4>. QED
                BY <3>2, <4>3 DEF MergeTraced, BeforeLink
        <3>. QED
            BY <1>14, <3>1, <3>2 DEF CheckMarker
    <2>. QED
        BY <2>1, <2>2, FilesAlone
<1>15. CASE RetireBarrier
    <2>1. UNCHANGED <<data, record, held>>
        BY <1>15 DEF RetireBarrier
    <2>2. MergeTraced'
        <3>1. CASE pc' = "reopening"
            BY <3>1, OutOfMerge DEF InMerge, BeforeLink
        <3>2. CASE pc' = "sourcesretired"
            <4>1. todo = {} /\ pc = "retiring" /\ failed' = FALSE /\ (failed' = failed \/ failed' = TRUE)
                BY <1>15, <3>2 DEF RetireBarrier, TypeOK
            <4>2. SourcesGone({})
                BY <4>1 DEF MergeTraced
            <4>3. SourcesGone({})'
                BY <1>15, <4>2 DEF RetireBarrier, SourcesGone
            <4>. QED
                BY <3>2, <4>3 DEF MergeTraced, BeforeLink
        <3>. QED
            BY <1>15, <3>1, <3>2 DEF RetireBarrier
    <2>. QED
        BY <2>1, <2>2, FilesAlone
<1>16. CASE StartRecovery
    <2>1. UNCHANGED <<data, record, held>>
        BY <1>16 DEF StartRecovery
    <2>2. MergeTraced'
        <3>1. CASE pc' \in {"sweeping", "refused"}
            BY <3>1, OutOfMerge DEF InMerge, BeforeLink
        <3>2. CASE pc' \in {"undoing", "finishing"}
            <4>1. Records # {} /\ target' = Max(Records) /\ todo' = record[target'].sources
                BY <1>16, <3>2 DEF StartRecovery, Verdict
            <4>2. target' \in Version /\ record[target'] # None
                BY <4>1, MaxMember DEF Records, Holding
            <4>3. pc' = "undoing" => data[target'] = None
                BY <1>16, <4>1 DEF StartRecovery, Verdict
            <4>4. SourcesGone(todo)'
                BY <2>1, <4>1, <4>2 DEF SourcesGone
            <4>. QED
                BY <2>1, <3>2, <4>3, <4>4 DEF MergeTraced, BeforeLink
        <3>. QED
            BY <1>16, <3>1, <3>2 DEF StartRecovery, Verdict
    <2>. QED
        BY <2>1, <2>2, FilesAlone
<1>17. CASE NameRecord
    <2>1. /\ pc = "recordwritten" /\ pc' = "recordnamed"
          /\ record' = [record EXCEPT ![target] = temp[target]]
          /\ UNCHANGED <<data, building, target, mergeId, held>>
        BY <1>17 DEF NameRecord
    <2>2. Holding(record) = {} /\ temp[target] = ThePlan /\ data[target] = None
        BY <2>1 DEF RecordPlace, Building, BeforeLink
    <2>3. record'[target] = ThePlan /\ \A t \in Version \ {target} : record'[t] = None
        BY <1>0, <2>1, <2>2 DEF TypeOK, Holding
    <2>4. HeldOnly'
        BY <2>1 DEF FilesInv, HeldOnly
    <2>5. RecordsMatch'
        BY <1>0, <2>1, <2>2, <2>3 DEF RecordsMatch, ThePlan
    <2>6. SharedIsRecorded'
        BY <2>1, <2>2, NoneShared DEF SharedIsRecorded, Holding
    <2>7. MergeTraced'
        BY <2>1 DEF MergeTraced, BeforeLink
    <2>. QED
        BY <2>4, <2>5, <2>6, <2>7 DEF FilesInv
<1>18. CASE LinkTarget
    BY <1>18, LinkOnce
<1>19. CASE RecordBarrierFails \/ WithdrawRecord \/ RemoveRecord \/ RecoveryRemovesRecord
    <2>1. pc' \notin InMerge
        BY <1>19 DEF RecordBarrierFails, WithdrawRecord, RemoveRecord, RecoveryRemovesRecord,
                     InMerge, BeforeLink
    <2>2. UNCHANGED <<data, held>>
        BY <1>19 DEF RecordBarrierFails, WithdrawRecord, RemoveRecord, RecoveryRemovesRecord
    <2>3. record' = [record EXCEPT ![target] = None] \/ record' = record
        BY <1>19 DEF RecordBarrierFails, WithdrawRecord, RemoveRecord, RecoveryRemovesRecord,
                     MayRemove
    <2>4. pc \in {"recordnamed", "withdrawing", "sourcesretired", "undone"}
        BY <1>19 DEF RecordBarrierFails, WithdrawRecord, RemoveRecord, RecoveryRemovesRecord
    <2>5. Holding(record) \subseteq {target}
        BY <2>4 DEF RecordPlace
    <2>6. \/ data[target] = None
          \/ \A s \in record[target].sources : data[s] = None
        BY <2>4 DEF MergeTraced, Building, BeforeLink, SourcesGone
    <2>. QED
        BY <1>0, <2>1, <2>2, <2>3, <2>5, <2>6, RecordLeaves, OutOfMerge
<1>20. CASE RetireSource \/ FinishRetire
    <2>1. /\ pc' = pc /\ pc \in {"retiring", "finishing"}
          /\ todo # {} /\ todo' = todo \ {Min(todo)}
          /\ UNCHANGED <<record, held, target>>
        BY <1>20 DEF RetireSource, FinishRetire
    <2>2. Min(todo) \in todo /\ Min(todo) \in Version
        BY <2>1, MinMember DEF TypeOK
    <2>3. FilesInv'
        <3>1. CASE data' = data
            BY <2>1, <3>1, FilesAlone
        <3>2. CASE data' = [data EXCEPT ![Min(todo)] = None]
            BY <2>1, <2>2, <3>2, SourceLeaves
        <3>. QED
            BY <1>20, <3>1, <3>2 DEF RetireSource, FinishRetire
    <2>4. failed' \/ (~failed /\ data' = [data EXCEPT ![Min(todo)] = None])
        BY <1>20 DEF RetireSource, FinishRetire, LatchPlace
    <2>5. ~failed' => SourcesGone(todo)'
        <3>. SUFFICES ASSUME ~failed' PROVE SourcesGone(todo)'
            OBVIOUS
        <3>1. SourcesGone(todo)
            BY <2>1, <2>4 DEF MergeTraced
        <3>2. record[target].sources \subseteq Version
            BY <1>0, <3>1 DEF TypeOK, Plan, SourcesGone
        <3>3. \A s \in Version : data'[s] = IF s = Min(todo) THEN None ELSE data[s]
            BY <2>2, <2>4 DEF TypeOK
        <3>. QED
            BY <2>1, <3>1, <3>2, <3>3 DEF SourcesGone
    <2>6. MergeTraced'
        BY <2>1, <2>5 DEF MergeTraced, BeforeLink
    <2>. QED
        BY <2>3, <2>6
<1>21. CASE FinishOpen
    <2>1. /\ pc = "sweeping" /\ pc' \in {"serving", "refused"}
          /\ UNCHANGED <<record, held>>
        BY <1>21 DEF FinishOpen
    <2>2. Holding(record) = {}
        BY <2>1 DEF RecordPlace
    <2>3. MergeTraced'
        BY <2>1, OutOfMerge DEF InMerge, BeforeLink
    <2>4. CASE data' = data
        BY <2>1, <2>3, <2>4, FilesAlone
    <2>5. CASE Holding(data) = {} /\ data' = [data EXCEPT ![0] = [keys |-> {}, id |-> 0, whole |-> TRUE]]
        <3>1. \A u \in Version : data'[u] # None => u = 0 /\ data'[u].keys = {}
            BY <2>5 DEF Holding, TypeOK
        <3>2. HeldOnly' /\ SharedIsRecorded'
            BY <3>1 DEF HeldOnly, SharedIsRecorded, Holding
        <3>3. RecordsMatch'
            BY <2>1, <2>2 DEF RecordsMatch, Holding
        <3>. QED
            BY <2>3, <3>2, <3>3 DEF FilesInv
    <2>. QED
        BY <1>21, <2>4, <2>5 DEF FinishOpen
<1>22. CASE UNCHANGED vars
    <2>1. FilesInv'
        BY <1>22, FilesAlone DEF vars
    <2>2. MergeTraced'
        BY <1>22 DEF vars, MergeTraced, BeforeLink, SourcesGone, ThePlan
    <2>. QED
        BY <2>1, <2>2
<1>. QED
    BY <1>1, <1>2, <1>3, <1>4, <1>5, <1>6, <1>7, <1>8, <1>9, <1>10, <1>11, <1>12, <1>13, <1>14,
       <1>15, <1>16, <1>17, <1>18, <1>19, <1>20, <1>21, <1>22
       DEF Next, MergeStep, OpenStep

\* The three invariants together, without loss of power.
THEOREM OnceInvariant ==
    ASSUME "power" \notin Faults
    PROVE  Spec => [](TypeInv /\ KeepInv /\ OnceInv)
<1>1. Init => TypeInv /\ KeepInv
    BY TypeInit, KeepInit
<1>2. Init => OnceInv
    BY DEF Init, OnceInv, FilesInv, HeldOnly, RecordsMatch, SharedIsRecorded, Holding, MergeTraced,
           BeforeLink
<1>3. TypeInv /\ KeepInv /\ OnceInv /\ [Next]_vars => TypeInv' /\ KeepInv' /\ OnceInv'
    BY TypeStep, KeepStep, OnceStep DEF PowerLoss, Spend
<1>. QED
    BY <1>1, <1>2, <1>3, PTL DEF Spec

\* Where the catalogue is the directory and no record is left, nothing is shared.
LEMMA ServedFromFiles == TypeInv /\ KeepInv /\ OnceInv => ServedOnce
<1>. SUFFICES ASSUME TypeInv, KeepInv, OnceInv, pc = "serving", ~latched
              PROVE  /\ catalog = Holding(data)
                     /\ ~Duplicates(catalog)
                     /\ Readable \subseteq held
    BY DEF ServedOnce
<1>1. catalog = Holding(data) /\ Holding(record) = {}
    BY DEF KeepInv, CatalogTrue, Steady, RecordPlace
<1>2. ~Duplicates(catalog)
    BY <1>1, NoneShared DEF OnceInv, Duplicates
<1>3. Readable \subseteq held
    BY DEF OnceInv, FilesInv, HeldOnly, Readable, Holding
<1>. QED
    BY <1>1, <1>2, <1>3

\* Without loss of power an instance that answers requests serves the files that
\* are in the directory, no entry from two of them and none that was deleted,
\* whatever compaction, failed call or crash came before.
THEOREM ServedOnceHolds ==
    ASSUME "power" \notin Faults
    PROVE  Spec => []ServedOnce
BY ServedFromFiles, OnceInvariant, PTL

\* A record has no more sources than there are versions.
LEMMA SourcesBounded ==
    ASSUME NEW S \in SUBSET Version
    PROVE  Cardinality(S) \in Nat /\ Cardinality(S) <= MaxVersion + 1
<1>1. IsFiniteSet(Version) /\ Cardinality(Version) = MaxVersion + 1
    BY FS_Interval, CompactionAssumption DEF Version
<1>2. IsFiniteSet(S) /\ Cardinality(S) <= Cardinality(Version)
    BY <1>1, FS_Subset
<1>. QED
    BY <1>1, <1>2, FS_CardinalityType

\* Recovery finds one readable record at most, and beside a published target the
\* one that describes it.
LEMMA RefusalStep ==
    ASSUME MaxVersion < MaxSources
    PROVE  TypeInv /\ KeepInv /\ OnceInv /\ RecoveryNeverRefuses /\ [Next]_vars =>
              RecoveryNeverRefuses'
<1>. SUFFICES ASSUME TypeInv, KeepInv, OnceInv, pc # "refused", [Next]_vars
              PROVE  pc' # "refused"
    BY DEF RecoveryNeverRefuses
<1>1. CASE StartRecovery
    <2>1. \A u, v \in Records : u = v
        BY DEF KeepInv, RecordPlace, Records
    <2>2. Cardinality(Records) <= 1
        <3>1. CASE Records = {}
            BY <3>1, FS_EmptySet
        <3>2. CASE Records # {}
            <4>1. PICK u : Records = {u}
                BY <2>1, <3>2
            <4>2. Cardinality({u}) = 1
                BY FS_Singleton
            <4>. QED
                BY <4>1, <4>2
        <3>. QED
            BY <3>1, <3>2
    <2>3. CASE Records = {}
        BY <1>1, <2>2, <2>3, FS_EmptySet DEF StartRecovery, Verdict
    <2>4. CASE Records # {}
        <3>. DEFINE t == Max(Records)
        <3>1. t \in Version /\ record[t] # None
            BY <2>4, MaxMember DEF Records, Holding
        <3>. HIDE DEF t
        <3>2. record[t] \in Plan /\ record[t].sources \in SUBSET Version
            BY <3>1 DEF TypeInv, TypeOK, Plan
        <3>3. ReadRecordOK(t)
            <4>1. record[t].whole
                BY <3>1 DEF OnceInv, FilesInv, RecordsMatch
            <4>2. Cardinality(record[t].sources) <= MaxSources
                BY <3>2, SourcesBounded, CompactionAssumption
            <4>. QED
                BY <4>1, <4>2 DEF ReadRecordOK
        <3>4. data[t] # None => MarkerMatches(t, record[t].id)
            BY <3>1 DEF MarkerMatches, OnceInv, FilesInv, RecordsMatch, KeepInv, AllWhole
        <3>5. Verdict \in {"undoing", "finishing"}
            <4>1. Cardinality(Records) \in Nat
                BY SourcesBounded DEF Records, Holding
            <4>. QED
                BY <2>2, <2>4, <3>3, <3>4, <4>1 DEF Verdict, t
        <3>. QED
            BY <1>1, <3>5 DEF StartRecovery
    <2>. QED
        BY <2>3, <2>4
<1>2. CASE FinishOpen
    BY <1>2 DEF FinishOpen, KeepInv, AllWhole, Holding
<1>3. CASE [(\E k \in Key : Insert(k) \/ Delete(k)) \/ Sync \/ Close \/ StartCompaction]_vars
    BY <1>3 DEF Insert, Delete, Sync, Close, StartCompaction, vars
<1>4. CASE MergeStep
    BY <1>4 DEF MergeStep, SkipFirst, GroupsDone, BuildTarget, GroupTooLarge, BuildFails,
           SyncBuilding, WriteRecord, NameRecord, MergeCalledOff, RecordBarrier,
           RecordBarrierFails, LinkTarget, UnlinkBuilding, LinkFails, WithdrawRecord,
           ConfirmWithdrawal, DiscardBuilding, MergeLatches, TargetBarrier, CheckMarker,
           RetireSource, RetireBarrier, RemoveRecord, MergeEnds, ReopenActive
<1>5. CASE UndoBuilding \/ FinishRetire \/ FinishBarrier \/ RecoveryRemovesRecord
           \/ RecoveryRemovesBuilding \/ RecoveryBarrier \/ OpenFails \/ ProcessCrash
           \/ PowerLoss
    BY <1>5 DEF UndoBuilding, FinishRetire, FinishBarrier, RecoveryRemovesRecord,
           RecoveryRemovesBuilding, RecoveryBarrier, OpenFails, ProcessCrash, PowerLoss,
           InstanceGone
<1>. QED
    BY <1>1, <1>2, <1>3, <1>4, <1>5 DEF Next, OpenStep

\* Without loss of power, and with no more versions than a record may name,
\* recovery refuses no directory that an instance can leave behind.  The second
\* assumption is needed: merge_groups does not cap a group at max_sources.
THEOREM RecoveryNeverRefusesHolds ==
    ASSUME "power" \notin Faults, MaxVersion < MaxSources
    PROVE  Spec => []RecoveryNeverRefuses
<1>1. Init => RecoveryNeverRefuses
    BY DEF Init, RecoveryNeverRefuses
<1>2. TypeInv /\ KeepInv /\ OnceInv /\ RecoveryNeverRefuses /\ [Next]_vars => RecoveryNeverRefuses'
    BY RefusalStep
<1>. QED
    BY <1>1, <1>2, OnceInvariant, PTL DEF Spec
-----------------------------------------------------------------------------
(* Safety under loss of power, when no process dies alone and no barrier fails *)

\* The steps at which a name may go back to what it held before.
Unsettled == {"recordnamed", "withdrawn", "settling"}
Leftover == Unsettled \cup {"recordremoved", "recordgone"}

\* Target t and its record, both on stable storage.
Anchors(t) ==
    /\ record[t] # None
    /\ data[t] # None
    /\ disk.record[t] = {record[t]}
    /\ disk.data[t] = {data[t]}

\* A power loss may bring generation v back as x: a source whose target is durable.
Returns(v, x) ==
    /\ data[v] = None
    /\ x.whole
    /\ \E t \in Version : Anchors(t) /\ v \in record[t].sources /\ x.keys \subseteq data[t].keys

\* What a power loss may make of a generation: it is gone, it is what is seen, or
\* it is a source that comes back.
DataPossible ==
    \A v \in Version : \A x \in disk.data[v] : x = None \/ x = data[v] \/ Returns(v, x)

\* Beside a published target no two of its sources share a key, back or not.
SourcesApart ==
    \A t \in Version : record[t] # None /\ data[t] # None =>
        \A u, v \in record[t].sources : u # v =>
            \A x \in disk.data[u] \ {None}, y \in disk.data[v] \ {None} : x.keys \cap y.keys = {}

\* What sync() covered is held, in a generation that no power loss takes away.
PromisesDurable ==
    /\ promised \subseteq held
    /\ \A k \in promised : \E v \in Version :
          data[v] # None /\ k \in data[v].keys /\ disk.data[v] = {data[v]}

\* A merge record at t, not the one seen there, that a power loss may bring back
\* does no harm: its target was never published, or its sources are durably gone.
Harmless(t, p) ==
    /\ disk.data[t] = {data[t]}
    /\ \/ data[t] = None /\ t = target /\ pc \in Unsettled
       \/ /\ data[t] # None
          /\ data[t].id = p.id
          /\ \A s \in p.sources : disk.data[s] = {None}

StaleHarmless ==
    \A t \in Version : \A p \in disk.record[t] \ {None, record[t]} : Harmless(t, p)

OnlyRecord(t) ==
    /\ disk.record[t] = {record[t]}
    /\ \A u \in Version \ {t} : disk.record[u] = {None}

\* Beside a published target its record is durable and the only one; so is the
\* target, once its name was flushed.
RecordDurable ==
    \A t \in Version : record[t] # None /\ data[t] # None =>
        /\ OnlyRecord(t)
        /\ pc \notin {"linked", "published"} => disk.data[t] = {data[t]}

FilesDurable ==
    DataPossible /\ SourcesApart /\ PromisesDurable /\ StaleHarmless /\ RecordDurable

\* The records and the builds that a name may hold.
Plans(t) == (disk.record[t] \cup disk.temp[t]) \ {None}
Builds(v) == disk.building[v] \ {None}

\* Identities tell merges apart; sources are older than their target.
PlansKnown ==
    /\ \A t \in Version : \A p \in Plans(t) :
          /\ p.whole
          /\ \A s \in p.sources : s < t
          /\ p.id <= nextId
    /\ \A t, u \in Version : \A p \in Plans(t), q \in Plans(u) : p.id = q.id => p = q
    /\ pc \in {"built", "filesynced"} =>
          \A t \in Version : \A p \in Plans(t) : p.id # mergeId

\* The build in hand, torn until it is flushed.
BuildsKnown ==
    /\ \A v \in Version : \A x \in Builds(v) : x.id <= nextId
    /\ pc \in BeforeLink =>
          /\ mergeId = nextId
          /\ \A x \in Builds(target) : x.id = mergeId =>
                x \in {building[target], Torn(building[target])}
    /\ pc \in BeforeLink \ {"built"} =>
          \A x \in Builds(target) : x.id = mergeId => x = building[target]

\* What the barrier before each of these steps has made durable.
StagesDurable ==
    /\ pc = "recorded" =>
          /\ OnlyRecord(target)
          /\ \A v \in Version : disk.data[v] = {data[v]}
          /\ disk.building[target] = {building[target]}
    /\ pc \in {"retiring", "finishing"} =>
          record[target] # None /\ todo \subseteq record[target].sources
    /\ pc = "sourcesretired" => data[target] # None
    /\ pc = "sourcesretired" \/ (pc = "undone" /\ data[target] # None) =>
          \A s \in record[target].sources : disk.data[s] = {None}

\* If no unlink fails, only the record of the merge in hand may come back.
StalePlace ==
    "unlink" \notin Faults =>
        \A t \in Version : \A p \in disk.record[t] \ {None, record[t]} :
            t = target /\ pc \in Leftover

DiskInv == FilesDurable /\ PlansKnown /\ BuildsKnown /\ StagesDurable /\ StalePlace

\* A power loss has brought a second record back.  Recovery touches nothing then.
Stuck ==
    /\ "unlink" \in Faults
    /\ pc \in {"closed", "refused"}
    /\ \E u, v \in Holding(record) : u # v
    /\ \A v \in Version : disk.data[v] = {data[v]} /\ disk.record[v] = {record[v]}
    /\ promised \subseteq held
    /\ EntriesKept

PowerInv == (KeepInv /\ OnceInv /\ DiskInv) \/ Stuck
-----------------------------------------------------------------------------
(* What stands, and what a barrier settles *)

\* Without a record no source comes back.
LEMMA NoneReturns ==
    ASSUME TypeInv, DataPossible,
           \A t \in Version : record[t] = None \/ data[t] = None
    PROVE  \A v \in Version :
              /\ \A x \in disk.data[v] : x = None \/ x = data[v]
              /\ data[v] = None => disk.data[v] = {None}
<1>1. ASSUME NEW v \in Version, NEW x \in disk.data[v] PROVE x = None \/ x = data[v]
    BY DEF DataPossible, Returns, Anchors
<1>2. ASSUME NEW v \in Version, data[v] = None PROVE disk.data[v] = {None}
    <2>1. data[v] \in disk.data[v]
        BY DEF TypeInv, SeenPossible
    <2>. QED
        BY <1>1, <1>2, <2>1
<1>. QED
    BY <1>1, <1>2

\* A barrier leaves one generation and one record under each name, the seen one.
LEMMA FlushSettles ==
    ASSUME TypeInv, DataPossible, PlansKnown
    PROVE  \A v \in Version :
              /\ Flushed.data[v] = {data[v]}
              /\ Flushed.record[v] = {record[v]}
              /\ Flushed.temp[v] \subseteq disk.temp[v]
              /\ Flushed.building[v] \subseteq disk.building[v]
              /\ building[v] # None => \A x \in Flushed.building[v] :
                                          x # None /\ x.id = building[v].id
<1>. SUFFICES ASSUME NEW v \in Version
              PROVE  /\ Flushed.data[v] = {data[v]}
                     /\ Flushed.record[v] = {record[v]}
                     /\ Flushed.temp[v] \subseteq disk.temp[v]
                     /\ Flushed.building[v] \subseteq disk.building[v]
                     /\ building[v] # None => \A x \in Flushed.building[v] :
                                                 x # None /\ x.id = building[v].id
    OBVIOUS
<1>0. /\ Flushed.data[v] = Settle(disk.data[v], data[v])
      /\ Flushed.record[v] = Settle(disk.record[v], record[v])
      /\ Flushed.temp[v] = Settle(disk.temp[v], temp[v])
      /\ Flushed.building[v] = Settle(disk.building[v], building[v])
    BY DEF Flushed
<1>s. /\ data[v] \in disk.data[v] /\ record[v] \in disk.record[v]
      /\ temp[v] \in disk.temp[v] /\ building[v] \in disk.building[v]
    BY DEF TypeInv, SeenPossible
<1>1. Settle(disk.data[v], data[v]) = {data[v]}
    <2>1. CASE data[v] = None
        BY <2>1 DEF Settle
    <2>2. CASE data[v] # None
        <3>1. \A x \in disk.data[v] : x = None \/ x = data[v]
            BY <2>2 DEF DataPossible, Returns
        <3>. QED
            BY <1>s, <2>2, <3>1 DEF Settle
    <2>. QED
        BY <2>1, <2>2
<1>2. Settle(disk.record[v], record[v]) = {record[v]}
    <2>1. CASE record[v] = None
        BY <2>1 DEF Settle
    <2>2. CASE record[v] # None
        <3>1. \A x \in disk.record[v] : x # None /\ x.id = record[v].id => x = record[v]
            BY <1>s, <2>2 DEF PlansKnown, Plans
        <3>. QED
            BY <1>s, <2>2, <3>1 DEF Settle
    <2>. QED
        BY <2>1, <2>2
<1>3. Settle(disk.temp[v], temp[v]) \subseteq disk.temp[v]
    BY <1>s DEF Settle
<1>4. Settle(disk.building[v], building[v]) \subseteq disk.building[v]
    BY <1>s DEF Settle
<1>5. building[v] # None => \A x \in Settle(disk.building[v], building[v]) :
                               x # None /\ x.id = building[v].id
    BY DEF Settle
<1>. QED
    BY <1>0, <1>1, <1>2, <1>3, <1>4, <1>5

\* A step that leaves generations, records and promises alone.
LEMMA FilesStand ==
    ASSUME FilesDurable, disk'.data = disk.data, disk'.record = disk.record,
           UNCHANGED <<data, record, held, promised>>,
           pc \notin Unsettled,
           pc \in {"linked", "published"} => pc' \in {"linked", "published"}
    PROVE  FilesDurable'
<1>1. DataPossible'
    <2>1. \A v \in Version : \A x : Returns(v, x) => Returns(v, x)'
        BY DEF Returns, Anchors
    <2>. QED
        BY <2>1 DEF FilesDurable, DataPossible
<1>4. SourcesApart' /\ PromisesDurable'
    BY DEF FilesDurable, SourcesApart, PromisesDurable
<1>2. StaleHarmless'
    BY DEF FilesDurable, StaleHarmless, Harmless
<1>3. RecordDurable'
    BY DEF FilesDurable, RecordDurable, OnlyRecord
<1>. QED
    BY <1>1, <1>2, <1>3, <1>4 DEF FilesDurable

\* A barrier: everything seen is durable, and nothing else comes back.
LEMMA FilesFlushed ==
    ASSUME TypeInv, KeepInv, FilesDurable, PlansKnown, disk' = Flushed,
           UNCHANGED <<data, record, held>>, promised' \subseteq held
    PROVE  FilesDurable' /\ StalePlace'
<1>1. \A v \in Version : disk'.data[v] = {data'[v]} /\ disk'.record[v] = {record'[v]}
    BY FlushSettles DEF FilesDurable
<1>2. DataPossible' /\ StaleHarmless' /\ StalePlace'
    BY <1>1 DEF DataPossible, StaleHarmless, StalePlace
<1>3. SourcesApart'
    <2>. SUFFICES ASSUME NEW t \in Version, record[t] # None, data[t] # None,
                         NEW u \in record[t].sources, NEW v \in record[t].sources, u # v,
                         NEW x \in disk'.data[u] \ {None}, NEW y \in disk'.data[v] \ {None}
                  PROVE  x.keys \cap y.keys = {}
        BY DEF SourcesApart
    <2>1. u \in Version /\ v \in Version
        BY DEF TypeInv, TypeOK, Plan
    <2>2. x \in disk.data[u] /\ y \in disk.data[v]
        BY <1>1, <2>1 DEF TypeInv, SeenPossible
    <2>. QED
        BY <2>2 DEF FilesDurable, SourcesApart
<1>4. PromisesDurable'
    BY <1>1 DEF PromisesDurable, KeepInv, EntriesKept, Readable, Holding
<1>5. RecordDurable'
    <2>. SUFFICES ASSUME NEW t \in Version, record[t] # None, NEW u \in Version \ {t}
                  PROVE  record[u] = None
        BY <1>1 DEF RecordDurable, OnlyRecord
    <2>. QED
        BY DEF KeepInv, RecordPlace, Holding
<1>. QED
    BY <1>2, <1>3, <1>4, <1>5 DEF FilesDurable

LEMMA PlansStand ==
    ASSUME PlansKnown, \A t \in Version : Plans(t)' \subseteq Plans(t),
           nextId' = nextId,
           pc' \in {"built", "filesynced"} =>
              pc \in {"built", "filesynced"} /\ mergeId' = mergeId
    PROVE  PlansKnown'
BY DEF PlansKnown

LEMMA BuildsStand ==
    ASSUME BuildsKnown, \A v \in Version : Builds(v)' \subseteq Builds(v),
           nextId' = nextId, target \in Version,
           pc' \in BeforeLink =>
              /\ pc \in BeforeLink
              /\ pc = "built" => pc' = "built"
              /\ mergeId' = mergeId /\ target' = target /\ building' = building
    PROVE  BuildsKnown'
<1>1. \A v \in Version : \A x \in Builds(v)' : x.id <= nextId'
    BY DEF BuildsKnown
<1>2. ASSUME pc' \in BeforeLink
      PROVE  /\ mergeId' = nextId'
             /\ \A x \in Builds(target)' : x.id = mergeId' =>
                   x \in {building[target], Torn(building[target])}'
             /\ pc' # "built" => \A x \in Builds(target)' : x.id = mergeId' => x = building'[target']
    <2>1. /\ pc \in BeforeLink /\ (pc = "built" => pc' = "built")
          /\ mergeId' = mergeId /\ target' = target /\ building' = building
        BY <1>2
    <2>2. Builds(target)' \subseteq Builds(target)
        BY <2>1
    <2>3. Torn(building[target])' = Torn(building[target])
        BY <2>1 DEF Torn
    <2>. QED
        BY <2>1, <2>2, <2>3 DEF BuildsKnown
<1>. QED
    BY <1>1, <1>2 DEF BuildsKnown
-----------------------------------------------------------------------------
(* Steps that change a generation or a record *)

\* A step at an instance at work that changes one generation, w, which is in the
\* catalogue or new, and what its name may hold accordingly.
LEMMA GenerationChanges ==
    ASSUME TypeInv, FilesDurable, StalePlace, pc = "serving", pc' = pc, target' = target,
           Holding(record) = {}, Holding(data) = catalog, UNCHANGED record,
           NEW w \in Version,
           \/ data[w] # None
           \/ data[w] = None /\ \A v \in Holding(data) : v < w,
           data'[w] # None, data[w] # None => data'[w].id = data[w].id,
           \A v \in Version \ {w} : data'[v] = data[v] /\ disk'.data[v] = disk.data[v],
           disk'.data[w] = IF data[w] = None THEN disk.data[w] \cup {data'[w]}
                           ELSE {IF x = data[w] THEN data'[w] ELSE x : x \in disk.data[w]},
           disk'.record = disk.record, PlansKnown,
           promised' \subseteq promised, promised' \subseteq held',
           \A k \in promised' : data[w] # None /\ k \in data[w].keys => k \in data'[w].keys
    PROVE  FilesDurable' /\ StalePlace'
<1>1. \A v \in Version : record[v] = None /\ record'[v] = None
    BY DEF Holding
<1>2. \A v \in Version : /\ \A x \in disk.data[v] : x = None \/ x = data[v]
                         /\ data[v] = None => disk.data[v] = {None}
    BY <1>1, NoneReturns DEF FilesDurable
<1>3. disk.data[w] = {data[w]} /\ data[w] # None => disk'.data[w] = {data'[w]}
    OBVIOUS
<1>4. \A x \in disk'.data[w] : x = None \/ x = data'[w]
    BY <1>2
<1>5. DataPossible'
    BY <1>2, <1>4 DEF DataPossible
<1>6. SourcesApart' /\ RecordDurable'
    BY <1>1 DEF SourcesApart, RecordDurable
<1>7. PromisesDurable'
    <2>. SUFFICES ASSUME NEW k \in promised'
                  PROVE  \E v \in Version :
                            data'[v] # None /\ k \in data'[v].keys /\ disk'.data[v] = {data'[v]}
        BY DEF PromisesDurable
    <2>1. PICK v \in Version : data[v] # None /\ k \in data[v].keys /\ disk.data[v] = {data[v]}
        BY DEF FilesDurable, PromisesDurable
    <2>2. CASE v = w
        BY <1>3, <2>1, <2>2
    <2>3. CASE v # w
        BY <2>1, <2>3
    <2>. QED
        BY <2>2, <2>3
<1>8. StaleHarmless'
    <2>. SUFFICES ASSUME NEW t \in Version, NEW p \in disk.record[t], p # None
                  PROVE  Harmless(t, p)'
        BY <1>1 DEF StaleHarmless
    <2>1. /\ disk.data[t] = {data[t]}
          /\ data[t] # None
          /\ data[t].id = p.id
          /\ \A s \in p.sources : disk.data[s] = {None}
        BY <1>1 DEF FilesDurable, StaleHarmless, Harmless, Unsettled
    <2>2. disk'.data[t] = {data'[t]} /\ data'[t] # None /\ data'[t].id = p.id
        BY <1>3, <2>1
    <2>3. ASSUME NEW s \in p.sources PROVE disk'.data[s] = {None}
        <3>0. disk.record[t] \subseteq Plan \cup {None}
            BY DEF TypeInv, TypeOK, Disk
        <3>1. s \in Version /\ s < t
            BY <3>0, CompactionAssumption DEF PlansKnown, Plans, Plan
        <3>2. data[s] = None
            BY <2>1, <3>1 DEF TypeInv, SeenPossible
        <3>3. s # w
            BY <2>1, <3>1, <3>2 DEF Holding, Version
        <3>. QED
            BY <2>1, <3>1, <3>3
    <2>. QED
        BY <2>1, <2>2, <2>3 DEF Harmless
<1>9. StalePlace'
    BY <1>1 DEF StalePlace
<1>. QED
    BY <1>5, <1>6, <1>7, <1>8, <1>9 DEF FilesDurable

LEMMA InsertDurable ==
    ASSUME TypeInv, KeepInv, DiskInv, NEW k \in Key, Insert(k)
    PROVE  FilesDurable' /\ StalePlace'
<1>. USE CompactionAssumption DEF TypeInv, KeepInv, DiskInv, job, Works
<1>. DEFINE full == Cardinality(data[Active].keys) >= RotateAt
            v == IF full THEN issued + 1 ELSE Active
            old == IF full THEN [keys |-> {}, id |-> 0, whole |-> TRUE] ELSE data[v]
            new == [old EXCEPT !.keys = @ \cup {k}]
<1>a. /\ pc = "serving" /\ pc' = pc /\ target' = target
      /\ ~latched
      /\ v \in Version
      /\ data' = [data EXCEPT ![v] = new]
      /\ disk' = [disk EXCEPT !.data[v] =
                     IF full THEN @ \cup {new}
                             ELSE {IF x = old THEN new ELSE x : x \in @}]
      /\ held' = held \cup {k} /\ promised' = promised
      /\ UNCHANGED record
    BY DEF Insert
<1>b. Holding(data) = catalog /\ Holding(record) = {} /\ \A u \in catalog : u <= issued
    BY <1>a DEF CatalogTrue, Steady, RecordPlace
<1>c. Active \in catalog
    BY <1>a, MaxMember DEF CatalogInv, Opening, Active, TypeOK
<1>d. issued \in Nat /\ \A u \in Version : u \in Nat
    BY DEF TypeOK, Version
<1>e. \/ full /\ data[v] = None /\ (\A u \in Holding(data) : u < v) /\ old \in GenFile
      \/ ~full /\ data[v] # None /\ old = data[v] /\ old \in GenFile
    <2>1. CASE full
        BY <1>a, <1>b, <1>d, <2>1, ZeroType DEF Holding, GenFile, TypeOK
    <2>2. CASE ~full
        BY <1>b, <1>c, <2>2 DEF Holding, TypeOK
    <2>. QED
        BY <2>1, <2>2
<1>f. new \in GenFile /\ new.keys = old.keys \cup {k} /\ new.id = old.id
    <2>. HIDE DEF full, v, old
    <2>. QED
        BY <1>e DEF GenFile
<1>g. new # None
    BY <1>f
<1>. HIDE DEF full, v, old, new
<1>h. data'[v] = new /\ \A u \in Version \ {v} : data'[u] = data[u]
    BY <1>a DEF TypeOK
<1>i. /\ disk'.data[v] = IF data[v] = None THEN disk.data[v] \cup {data'[v]}
                         ELSE {IF x = data[v] THEN data'[v] ELSE x : x \in disk.data[v]}
      /\ \A u \in Version \ {v} : disk'.data[u] = disk.data[u]
      /\ disk'.record = disk.record
    <2>1. disk.data \in [Version -> SUBSET (GenFile \cup {None})] /\ disk \in Disk
        BY DEF TypeOK, Disk
    <2>2. /\ disk'.data[v] = IF full THEN disk.data[v] \cup {new}
                             ELSE {IF x = old THEN new ELSE x : x \in disk.data[v]}
          /\ \A u \in Version \ {v} : disk'.data[u] = disk.data[u]
          /\ disk'.record = disk.record
        BY <1>a, <2>1 DEF Disk
    <2>. QED
        BY <1>e, <1>h, <2>2
<1>j. \A x \in promised' : data[v] # None /\ x \in data[v].keys => x \in data'[v].keys
    BY <1>e, <1>f, <1>h
<1>k. data[v] # None => data'[v].id = data[v].id
    BY <1>e, <1>f, <1>h
<1>l. promised' \subseteq promised /\ promised' \subseteq held'
    BY <1>a DEF FilesDurable, PromisesDurable
<1>m. data[v] # None \/ (data[v] = None /\ \A u \in Holding(data) : u < v)
    BY <1>e
<1>. QED
    BY <1>a, <1>b, <1>g, <1>h, <1>i, <1>j, <1>k, <1>l, <1>m, GenerationChanges

LEMMA DeleteDurable ==
    ASSUME TypeInv, KeepInv, DiskInv, NEW k \in Key, Delete(k)
    PROVE  FilesDurable' /\ StalePlace'
<1>. USE CompactionAssumption DEF TypeInv, KeepInv, DiskInv, book, job, Works
<1>0. PICK v \in catalog :
         /\ data' = [data EXCEPT ![v].keys = @ \ {k}]
         /\ disk' = [disk EXCEPT !.data[v] =
                        {IF x = data[v] THEN [x EXCEPT !.keys = @ \ {k}] ELSE x : x \in @}]
    BY DEF Delete
<1>a. /\ pc = "serving" /\ pc' = pc /\ target' = target /\ ~latched
      /\ held' = held \ {k} /\ promised' = promised \ {k} /\ UNCHANGED record
    BY DEF Delete
<1>b. Holding(data) = catalog /\ Holding(record) = {}
    BY <1>a DEF CatalogTrue, Steady, RecordPlace
<1>c. v \in Version /\ data[v] # None /\ data[v] \in GenFile
    BY <1>0, <1>b DEF Holding, TypeOK
<1>. DEFINE new == [data[v] EXCEPT !.keys = @ \ {k}]
<1>f. new \in GenFile /\ new.keys = data[v].keys \ {k} /\ new.id = data[v].id
    BY <1>c DEF GenFile
<1>g. new # None
    BY <1>f
<1>h. data'[v] = new /\ \A u \in Version \ {v} : data'[u] = data[u]
    BY <1>0, <1>c DEF TypeOK
<1>i. /\ disk'.data[v] = {IF x = data[v] THEN data'[v] ELSE x : x \in disk.data[v]}
      /\ \A u \in Version \ {v} : disk'.data[u] = disk.data[u]
      /\ disk'.record = disk.record
    <2>1. disk.data \in [Version -> SUBSET (GenFile \cup {None})] /\ disk \in Disk
        BY DEF TypeOK, Disk
    <2>2. /\ disk'.data[v] = {IF x = data[v] THEN [x EXCEPT !.keys = @ \ {k}] ELSE x :
                                 x \in disk.data[v]}
          /\ \A u \in Version \ {v} : disk'.data[u] = disk.data[u]
          /\ disk'.record = disk.record
        BY <1>0, <1>c, <2>1 DEF Disk
    <2>3. {IF x = data[v] THEN [x EXCEPT !.keys = @ \ {k}] ELSE x : x \in disk.data[v]} =
            {IF x = data[v] THEN new ELSE x : x \in disk.data[v]}
        OBVIOUS
    <2>. QED
        BY <1>h, <2>2, <2>3
<1>. HIDE DEF new
<1>j. \A x \in promised' : data[v] # None /\ x \in data[v].keys => x \in data'[v].keys
    BY <1>a, <1>f, <1>h
<1>k. data'[v] # None /\ data'[v].id = data[v].id
    BY <1>f, <1>g, <1>h
<1>l. promised' \subseteq promised /\ promised' \subseteq held'
    BY <1>a DEF FilesDurable, PromisesDurable
<1>m. disk'.data[v] = IF data[v] = None THEN disk.data[v] \cup {data'[v]}
                      ELSE {IF x = data[v] THEN data'[v] ELSE x : x \in disk.data[v]}
    BY <1>c, <1>i
<1>. QED
    BY <1>a, <1>b, <1>c, <1>h, <1>i, <1>j, <1>k, <1>l, <1>m, GenerationChanges

\* The record is taken away: its target was not published, or its sources are
\* durably gone.  A power loss that brings it back does no harm.
LEMMA RecordGoes ==
    ASSUME TypeInv, KeepInv, OnceInv, DiskInv, WithdrawRecord \/ RemoveRecord \/ RecoveryRemovesRecord
    PROVE  FilesDurable' /\ StalePlace'
<1>. USE DEF TypeInv, KeepInv, OnceInv, FilesInv, DiskInv, FilesDurable, files, book, job, ghost, Works
<1>0. target \in Version /\ disk \in Disk
    BY DEF TypeOK
<1>a. /\ pc \in {"withdrawing", "sourcesretired", "undone"}
      /\ record' = [record EXCEPT ![target] = None]
      /\ disk' = [disk EXCEPT !.record[target] = @ \cup {None}]
      /\ UNCHANGED <<data, held, promised, target>>
    BY DEF WithdrawRecord, RemoveRecord, RecoveryRemovesRecord
<1>b. /\ pc = "withdrawing" => data[target] = None /\ pc' = "withdrawn"
      /\ pc = "sourcesretired" => pc' = "recordremoved"
      /\ pc = "undone" => pc' = IF data[target] = None THEN "settling" ELSE "recordgone"
    BY DEF WithdrawRecord, RemoveRecord, RecoveryRemovesRecord, MergeTraced
<1>c. /\ disk'.data = disk.data
      /\ disk'.record[target] = disk.record[target] \cup {None}
      /\ \A t \in Version \ {target} : disk'.record[t] = disk.record[t]
    BY <1>0, <1>a DEF Disk
<1>d. \A t \in Version : record'[t] = None
    BY <1>0, <1>a DEF RecordPlace, Holding, TypeOK
<1>e. \A t \in Version \ {target} : record[t] = None
    BY <1>a DEF RecordPlace, Holding
<1>f. \A v \in Version : \A x \in disk.data[v] : x = None \/ x = data[v]
    <2>1. CASE data[target] = None
        BY <1>e, <2>1, NoneReturns
    <2>2. CASE data[target] # None
        <3>1. \A s \in record[target].sources : disk.data[s] = {None}
            BY <1>a, <1>b, <2>2 DEF StagesDurable
        <3>. SUFFICES ASSUME NEW v \in Version, NEW x \in disk.data[v], Returns(v, x) PROVE x = None
            BY DEF DataPossible
        <3>2. PICK t \in Version : record[t] # None /\ v \in record[t].sources
            BY DEF Returns, Anchors
        <3>. QED
            BY <1>e, <3>1, <3>2
    <2>. QED
        BY <2>1, <2>2
<1>1. DataPossible'
    BY <1>a, <1>c, <1>f DEF DataPossible
<1>2. SourcesApart' /\ RecordDurable'
    BY <1>d DEF SourcesApart, RecordDurable
<1>3. PromisesDurable'
    BY <1>a, <1>c DEF PromisesDurable
<1>4. StaleHarmless'
    <2>. SUFFICES ASSUME NEW t \in Version, NEW p \in disk'.record[t], p # None PROVE Harmless(t, p)'
        BY <1>d DEF StaleHarmless
    <2>0. p \in disk.record[t]
        BY <1>c
    <2>1. CASE p # record[t]
        <3>1. Harmless(t, p)
            BY <2>0, <2>1 DEF StaleHarmless
        <3>. QED
            BY <1>a, <1>c, <3>1 DEF Harmless, Unsettled
    <2>2. CASE p = record[t]
        <3>1. t = target
            BY <1>e, <2>2
        <3>2. CASE data[target] = None
            <4>1. disk.data[target] = {None}
                BY <1>0, <1>f, <3>2 DEF SeenPossible
            <4>2. pc' \in Unsettled
                BY <1>a, <1>b, <3>2 DEF StagesDurable, Unsettled
            <4>. QED
                BY <1>a, <1>c, <3>1, <3>2, <4>1, <4>2 DEF Harmless
        <3>3. CASE data[target] # None
            <4>1. disk.data[target] = {data[target]}
                BY <1>0, <1>a, <2>2, <3>1, <3>3 DEF RecordDurable
            <4>2. data[target].id = p.id
                BY <1>0, <2>2, <3>1, <3>3 DEF RecordsMatch
            <4>3. \A s \in record[target].sources : disk.data[s] = {None}
                BY <1>a, <1>b, <3>3 DEF StagesDurable
            <4>. QED
                BY <1>a, <1>c, <2>2, <3>1, <3>3, <4>1, <4>2, <4>3 DEF Harmless
        <3>. QED
            BY <3>2, <3>3
    <2>. QED
        BY <2>1, <2>2
<1>5. StalePlace'
    <2>. SUFFICES ASSUME "unlink" \notin Faults,
                         NEW t \in Version, NEW p \in disk'.record[t], p # None
                  PROVE  t = target' /\ pc' \in Leftover
        BY <1>d DEF StalePlace
    <2>1. pc' \in Leftover
        BY <1>a, <1>b DEF Leftover, Unsettled
    <2>2. ~(pc \in Leftover)
        BY <1>a DEF Leftover, Unsettled
    <2>3. p \in disk.record[t] /\ p = record[t]
        BY <1>c, <2>2 DEF StalePlace
    <2>. QED
        BY <1>a, <1>e, <2>1, <2>3
<1>. QED
    BY <1>1, <1>2, <1>3, <1>4, <1>5

\* A source is unlinked behind its durable target: what a power loss may bring
\* back of it is in the target.
LEMMA SourceGoes ==
    ASSUME TypeInv, KeepInv, DiskInv, RetireSource \/ FinishRetire
    PROVE  /\ FilesDurable' /\ StalePlace'
           /\ record'[target'] # None /\ todo' \subseteq record'[target'].sources
           /\ disk.data[target] = {data[target]} /\ data[target] # None
           /\ Min(todo) \in Version \ {target}
           /\ Superseded(Min(todo), target)
           /\ data' = data \/ data' = [data EXCEPT ![Min(todo)] = None]
<1>. USE DEF TypeInv, KeepInv, DiskInv, FilesDurable, files, book, job, ghost
<1>. DEFINE m == Min(todo)
<1>0. target \in Version /\ disk \in Disk
    BY DEF TypeOK
<1>a. /\ pc \in {"retiring", "finishing"} /\ pc' = pc
      /\ todo # {} /\ todo' = todo \ {m}
      /\ \/ data' = [data EXCEPT ![m] = None] /\ disk' = [disk EXCEPT !.data[m] = @ \cup {None}]
         \/ data' = data /\ disk' = disk
      /\ UNCHANGED <<record, held, promised, target>>
    BY DEF RetireSource, FinishRetire
<1>b. m \in todo /\ m \in Version
    BY <1>a, MinMember DEF TypeOK
<1>c. /\ data[target] # None /\ target \notin todo
      /\ Superseded(m, target)
    BY <1>a, <1>b DEF Retiring
<1>d. record[target] # None /\ todo \subseteq record[target].sources
    BY <1>a DEF StagesDurable
<1>e. OnlyRecord(target) /\ disk.data[target] = {data[target]}
    BY <1>0, <1>a, <1>c, <1>d DEF RecordDurable
<1>. HIDE DEF m
<1>f. /\ disk'.record = disk.record
      /\ \A v \in Version \ {m} : data'[v] = data[v] /\ disk'.data[v] = disk.data[v]
      /\ \/ data'[m] = None /\ disk'.data[m] = disk.data[m] \cup {None}
         \/ data'[m] = data[m] /\ disk'.data[m] = disk.data[m]
    BY <1>0, <1>a, <1>b DEF TypeOK, Disk
<1>g. m # target
    BY <1>b, <1>c
<1>h. \A t \in Version \ {target} : record[t] = None
    BY <1>d, <1>0, <1>e DEF OnlyRecord, SeenPossible
<1>1. DataPossible'
    <2>. SUFFICES ASSUME NEW v \in Version, NEW x \in disk'.data[v], x # None, x # data'[v]
                  PROVE  Returns(v, x)'
        BY DEF DataPossible
    <2>0. Anchors(target)'
        BY <1>0, <1>a, <1>c, <1>d, <1>e, <1>f, <1>g DEF Anchors, OnlyRecord
    <2>1. x \in disk.data[v]
        BY <1>f
    <2>2. CASE x = data[v]
        <3>1. v = m /\ data'[v] = None
            BY <1>f, <2>2
        <3>2. x.whole
            BY <2>2 DEF AllWhole
        <3>3. x.keys \subseteq data'[target].keys
            BY <1>0, <1>c, <1>f, <1>g, <2>2, <3>1 DEF Superseded
        <3>4. v \in record'[target].sources
            BY <1>a, <1>b, <1>d, <3>1
        <3>. QED
            BY <1>0, <1>a, <2>0, <3>1, <3>2, <3>3, <3>4 DEF Returns
    <2>3. CASE x # data[v]
        <3>1. Returns(v, x)
            BY <2>1, <2>3 DEF DataPossible
        <3>2. data'[v] = None /\ x.whole
            BY <1>f, <3>1 DEF Returns
        <3>3. PICK t \in Version : Anchors(t) /\ v \in record[t].sources /\ x.keys \subseteq data[t].keys
            BY <3>1 DEF Returns
        <3>4. t = target
            BY <1>h, <3>3 DEF Anchors
        <3>5. v \in record'[target].sources /\ x.keys \subseteq data'[target].keys
            BY <1>0, <1>a, <1>f, <1>g, <3>3, <3>4
        <3>. QED
            BY <1>0, <1>a, <2>0, <3>2, <3>5 DEF Returns
    <2>. QED
        BY <2>2, <2>3
<1>2. SourcesApart'
    <2>1. \A v \in Version : disk'.data[v] \ {None} \subseteq disk.data[v] \ {None}
        BY <1>f
    <2>2. \A t \in Version : data'[t] # None => data[t] # None
        BY <1>f
    <2>3. \A t \in Version : record[t] # None => record[t].sources \subseteq Version
        BY DEF TypeOK, Plan
    <2>. SUFFICES ASSUME NEW t \in Version, record[t] # None, data'[t] # None,
                         NEW u \in record[t].sources, NEW v \in record[t].sources, u # v,
                         NEW x \in disk'.data[u] \ {None}, NEW y \in disk'.data[v] \ {None}
                  PROVE  x.keys \cap y.keys = {}
        BY <1>a DEF SourcesApart
    <2>4. x \in disk.data[u] \ {None} /\ y \in disk.data[v] \ {None}
        BY <2>1, <2>3
    <2>. QED
        BY <2>2, <2>4 DEF SourcesApart
<1>3. PromisesDurable'
    <2>. SUFFICES ASSUME NEW k \in promised
                  PROVE  \E v \in Version :
                            data'[v] # None /\ k \in data'[v].keys /\ disk'.data[v] = {data'[v]}
        BY <1>a DEF PromisesDurable
    <2>1. PICK v \in Version : data[v] # None /\ k \in data[v].keys /\ disk.data[v] = {data[v]}
        BY DEF PromisesDurable
    <2>2. CASE v = m
        BY <1>0, <1>c, <1>e, <1>f, <1>g, <2>1, <2>2 DEF Superseded
    <2>3. CASE v # m
        BY <1>f, <2>1, <2>3
    <2>. QED
        BY <2>2, <2>3
<1>4. StaleHarmless' /\ StalePlace'
    <2>1. \A t \in Version : disk'.record[t] \ {None, record'[t]} = {}
        BY <1>a, <1>e, <1>f DEF OnlyRecord
    <2>. QED
        BY <2>1 DEF StaleHarmless, StalePlace
<1>5. RecordDurable'
    BY <1>a, <1>0, <1>e, <1>f, <1>g, <1>h DEF RecordDurable, OnlyRecord
<1>6. record'[target'] # None /\ todo' \subseteq record'[target'].sources
    BY <1>a, <1>d
<1>7. m \in Version \ {target} /\ (data' = data \/ data' = [data EXCEPT ![m] = None])
    BY <1>a, <1>b, <1>g
<1>. QED
    BY <1>1, <1>2, <1>3, <1>4, <1>5, <1>6, <1>7, <1>c, <1>e DEF m

\* The record is given its name: another one may still come back there, but the
\* target is not published.
LEMMA RecordNamed ==
    ASSUME TypeInv, KeepInv, DiskInv, NameRecord
    PROVE  FilesDurable' /\ StalePlace'
<1>. USE DEF TypeInv, KeepInv, DiskInv, FilesDurable, files, book, job, ghost, Works
<1>0. target \in Version /\ disk \in Disk
    BY DEF TypeOK
<1>a. /\ pc = "recordwritten" /\ pc' = "recordnamed"
      /\ record' = [record EXCEPT ![target] = temp[target]]
      /\ disk' = [disk EXCEPT !.record[target] = @ \cup (disk.temp[target] \ {None}),
                              !.temp[target] = @ \cup {None}]
      /\ UNCHANGED <<data, held, promised, target>>
    BY DEF NameRecord
<1>b. (\A t \in Version : record[t] = None) /\ data[target] = None
    BY <1>a DEF RecordPlace, Holding, Building, BeforeLink
<1>c. /\ disk'.data = disk.data
      /\ \A t \in Version \ {target} : disk'.record[t] = disk.record[t]
    BY <1>0, <1>a DEF Disk
<1>d. \A t \in Version \ {target} : record'[t] = None
    BY <1>a, <1>b DEF TypeOK
<1>e. \A v \in Version : /\ \A x \in disk.data[v] : x = None \/ x = data[v]
                         /\ data[v] = None => disk.data[v] = {None}
    BY <1>b, NoneReturns
<1>1. DataPossible'
    BY <1>a, <1>c, <1>e DEF DataPossible
<1>2. SourcesApart' /\ RecordDurable'
    BY <1>a, <1>b, <1>d DEF SourcesApart, RecordDurable
<1>3. PromisesDurable'
    BY <1>a, <1>c DEF PromisesDurable
<1>4. StaleHarmless'
    <2>. SUFFICES ASSUME NEW t \in Version, NEW p \in disk'.record[t] \ {None, record'[t]}
                  PROVE  Harmless(t, p)'
        BY DEF StaleHarmless
    <2>1. CASE t = target
        BY <1>a, <1>b, <1>c, <1>e, <2>1 DEF Harmless, Unsettled
    <2>2. CASE t # target
        <3>1. Harmless(t, p)
            BY <1>b, <1>c, <2>2 DEF StaleHarmless
        <3>. QED
            BY <1>a, <1>c, <3>1 DEF Harmless, Unsettled
    <2>. QED
        BY <2>1, <2>2
<1>5. StalePlace'
    <2>. SUFFICES ASSUME "unlink" \notin Faults,
                         NEW t \in Version, NEW p \in disk'.record[t] \ {None, record'[t]}
                  PROVE  t = target' /\ pc' \in Leftover
        BY DEF StalePlace
    <2>1. pc' \in Leftover /\ ~(pc \in Leftover)
        BY <1>a DEF Leftover, Unsettled
    <2>. QED
        BY <1>a, <1>b, <1>c, <2>1 DEF StalePlace
<1>. QED
    BY <1>1, <1>2, <1>3, <1>4, <1>5

\* The target gets its name beside a durable record, from a build that was flushed.
LEMMA TargetLinked ==
    ASSUME TypeInv, KeepInv, OnceInv, DiskInv, LinkTarget
    PROVE  FilesDurable' /\ StalePlace'
<1>. USE DEF TypeInv, KeepInv, OnceInv, FilesInv, DiskInv, FilesDurable, files, book, job, ghost, Works
<1>0. target \in Version /\ disk \in Disk
    BY DEF TypeOK
<1>a. /\ pc = "recorded" /\ pc' = "linked"
      /\ data[target] = None
      /\ data' = [data EXCEPT ![target] = building[target]]
      /\ disk' = [disk EXCEPT !.data[target] = @ \cup (disk.building[target] \ {None})]
      /\ UNCHANGED <<record, held, promised, target>>
    BY DEF LinkTarget
<1>b. /\ OnlyRecord(target)
      /\ \A v \in Version : disk.data[v] = {data[v]}
      /\ disk.building[target] = {building[target]}
    BY <1>a DEF StagesDurable
<1>c. building[target] # None
    BY <1>a DEF StageFiles, BeforeLink
<1>d. record[target] = ThePlan /\ \A t \in Version \ {target} : record[t] = None
    BY <1>a DEF Building, RecordPlace, Holding
<1>e. ThePlan.sources = group
    BY DEF ThePlan
<1>f. /\ target \notin group /\ group \subseteq catalog
      /\ group \subseteq Version /\ group \subseteq Holding(data)
    BY <1>a DEF CatalogInv, Unretired, BeforeLink, TypeOK
<1>g. /\ disk'.record = disk.record
      /\ data'[target] = building[target] /\ disk'.data[target] = {None, building[target]}
      /\ \A v \in Version \ {target} : data'[v] = data[v] /\ disk'.data[v] = {data[v]}
    <2>1. /\ disk'.record = disk.record
          /\ disk'.data[target] = disk.data[target] \cup (disk.building[target] \ {None})
          /\ \A v \in Version \ {target} : disk'.data[v] = disk.data[v]
        BY <1>0, <1>a DEF Disk
    <2>2. data'[target] = building[target] /\ \A v \in Version \ {target} : data'[v] = data[v]
        BY <1>0, <1>a DEF TypeOK
    <2>. QED
        BY <1>0, <1>a, <1>b, <1>c, <2>1, <2>2
<1>1. DataPossible'
    BY <1>g DEF DataPossible
<1>2. SourcesApart'
    <2>. SUFFICES ASSUME NEW t \in Version, record[t] # None,
                         NEW u \in record[t].sources, NEW v \in record[t].sources, u # v,
                         NEW x \in disk'.data[u] \ {None}, NEW y \in disk'.data[v] \ {None}
                  PROVE  x.keys \cap y.keys = {}
        BY <1>a DEF SourcesApart
    <2>1. t = target /\ u \in group /\ v \in group
        BY <1>d, <1>e
    <2>2. x = data[u] /\ y = data[v] /\ u \in Holding(data) /\ v \in Holding(data)
        BY <1>f, <1>g, <2>1
    <2>3. ~Recorded(u, v) /\ ~Recorded(v, u)
        BY <1>d, <1>f, <2>1 DEF Recorded
    <2>. QED
        BY <2>2, <2>3 DEF SharedIsRecorded
<1>3. PromisesDurable'
    BY <1>a, <1>g DEF PromisesDurable
<1>4. StaleHarmless' /\ StalePlace'
    <2>1. \A t \in Version : disk'.record[t] \ {None, record'[t]} = {}
        BY <1>a, <1>b, <1>g DEF OnlyRecord
    <2>. QED
        BY <2>1 DEF StaleHarmless, StalePlace
<1>5. RecordDurable'
    BY <1>a, <1>b, <1>d, <1>g DEF RecordDurable, OnlyRecord
<1>. QED
    BY <1>1, <1>2, <1>3, <1>4, <1>5

\* An open of an empty container creates its first generation.
LEMMA OpenEnds ==
    ASSUME TypeInv, KeepInv, DiskInv, FinishOpen
    PROVE  FilesDurable' /\ StalePlace'
<1>. USE DEF TypeInv, KeepInv, DiskInv, FilesDurable, files, book, job, ghost, Works
<1>. DEFINE fresh == [keys |-> {}, id |-> 0, whole |-> TRUE]
<1>0. disk \in Disk /\ 0 \in Version
    BY ZeroType DEF TypeOK
<1>a. /\ pc = "sweeping" /\ pc' \in {"serving", "refused"}
      /\ UNCHANGED <<record, held, promised>>
    BY DEF FinishOpen
<1>b. \A t \in Version : record[t] = None
    BY <1>a DEF RecordPlace, Holding
<1>c. disk'.record = disk.record
    BY <1>0 DEF FinishOpen, Disk
<1>d. CASE data' = data /\ disk'.data = disk.data
    <2>1. FilesDurable'
        BY <1>a, <1>c, <1>d, FilesStand DEF Unsettled
    <2>2. StalePlace'
        BY <1>a, <1>c DEF StalePlace, Leftover, Unsettled
    <2>. QED
        BY <2>1, <2>2
<1>e. CASE /\ Holding(data) = {}
           /\ data' = [data EXCEPT ![0] = fresh]
           /\ disk'.data = [disk.data EXCEPT ![0] = @ \cup {fresh}]
    <2>. HIDE DEF fresh
    <2>1. \A v \in Version : data[v] = None /\ disk.data[v] = {None}
        BY <1>b, <1>e, NoneReturns DEF Holding
    <2>2. \A v \in Version : \A x \in disk'.data[v] : x = None \/ x = data'[v]
        <3>1. data'[0] = fresh /\ disk'.data[0] = disk.data[0] \cup {fresh}
            BY <1>0, <1>e DEF TypeOK, Disk
        <3>2. \A v \in Version \ {0} : disk'.data[v] = disk.data[v]
            BY <1>0, <1>e DEF Disk
        <3>. QED
            BY <1>0, <2>1, <3>1, <3>2
    <2>3. DataPossible'
        BY <2>2 DEF DataPossible
    <2>4. SourcesApart' /\ RecordDurable'
        BY <1>a, <1>b DEF SourcesApart, RecordDurable
    <2>5. PromisesDurable'
        BY <1>a, <2>1 DEF PromisesDurable
    <2>6. StaleHarmless' /\ StalePlace'
        <3>. SUFFICES \A t \in Version : disk'.record[t] \ {None, record'[t]} = {}
            BY DEF StaleHarmless, StalePlace
        <3>1. \A t \in Version : disk.record[t] \ {None, record[t]} = {}
            BY <1>a, <2>1 DEF StaleHarmless, Harmless, Unsettled
        <3>. QED
            BY <1>a, <1>c, <3>1
    <2>. QED
        BY <2>3, <2>4, <2>5, <2>6
<1>f. \/ data' = data /\ disk'.data = disk.data
      \/ /\ Holding(data) = {}
         /\ data' = [data EXCEPT ![0] = fresh]
         /\ disk'.data = [disk.data EXCEPT ![0] = @ \cup {fresh}]
    <2>1. CASE Holding(data) = {}
        <3>1. data' = [data EXCEPT ![0] = fresh]
            BY <2>1 DEF FinishOpen
        <3>2. disk'.data = [disk.data EXCEPT ![0] = @ \cup {fresh}]
            BY <1>0, <2>1 DEF FinishOpen, Disk
        <3>. QED
            BY <2>1, <3>1, <3>2
    <2>2. CASE Holding(data) # {}
        <3>1. data' = data
            BY <2>2 DEF FinishOpen
        <3>2. disk'.data = [disk.data EXCEPT ![0] = @ \cup {}]
            BY <1>0, <2>2 DEF FinishOpen, Disk
        <3>3. disk'.data = disk.data
            BY <1>0, <3>2 DEF Disk
        <3>. QED
            BY <3>1, <3>3
    <2>. QED
        BY <2>1, <2>2
<1>. QED
    BY <1>d, <1>e, <1>f
-----------------------------------------------------------------------------
(* Identities *)

\* A merge draws an identity that no record and no build has.
LEMMA BuildKnown ==
    ASSUME TypeInv, PlansKnown, BuildsKnown, BuildTarget
    PROVE  PlansKnown' /\ BuildsKnown'
<1>. USE DEF files, book, job, ghost, Works
<1>. DEFINE t == Target
            new == NewTarget
<1>0. /\ t \in Version /\ disk \in Disk /\ nextId \in Nat
      /\ new.id = nextId + 1
    BY CompactionAssumption DEF TypeInv, TypeOK, BuildTarget, Merge, NewTarget
<1>a. /\ pc' = "built" /\ target' = t
      /\ mergeId' = nextId + 1 /\ nextId' = nextId + 1
      /\ building' = [building EXCEPT ![t] = new]
      /\ disk' = [disk EXCEPT !.building[t] = @ \cup {None, new, Torn(new)}]
    BY DEF BuildTarget
<1>b. disk'.record = disk.record /\ disk'.temp = disk.temp
    BY <1>0, <1>a DEF Disk
<1>c. /\ disk'.building[t] = disk.building[t] \cup {None, new, Torn(new)}
      /\ \A v \in Version \ {t} : disk'.building[v] = disk.building[v]
    BY <1>0, <1>a DEF Disk
<1>d. building'[t] = new
    BY <1>0, <1>a DEF TypeInv, TypeOK
<1>e. Torn(new).id = new.id
    BY DEF Torn, NewTarget
<1>f. Torn(building[target])' = Torn(building'[target'])
    BY DEF Torn
<1>. HIDE DEF t, new
<1>1. \A v \in Version : Plans(v)' = Plans(v)
    BY <1>b DEF Plans
<1>2. \A v \in Version : \A p \in Plans(v) : p.id \in Nat
    BY <1>0, CompactionAssumption DEF Plans, Disk, Plan, Merge
<1>3. PlansKnown'
    BY <1>0, <1>1, <1>2, <1>a DEF PlansKnown
<1>4. \A v \in Version : \A x \in Builds(v) : x.id \in Nat /\ x.id <= nextId
    BY <1>0, CompactionAssumption DEF Builds, Disk, GenFile, Merge, BuildsKnown
<1>5. \A v \in Version : \A x \in Builds(v)' :
         \/ x \in Builds(v)
         \/ v = t /\ x \in {new, Torn(new)}
    BY <1>c DEF Builds
<1>6. \A v \in Version : \A x \in Builds(v)' : x.id <= nextId'
    BY <1>0, <1>4, <1>5, <1>a, <1>e
<1>7. ASSUME NEW x \in disk'.building[target'], x # None, x.id = mergeId'
      PROVE  x \in {building'[target'], Torn(building'[target'])}
    <2>1. x \in {new, Torn(new)} \/ x \in Builds(t)
        BY <1>7, <1>a, <1>c DEF Builds
    <2>2. x \in Builds(t) => FALSE
        BY <1>0, <1>4, <1>7, <1>a
    <2>. QED
        BY <2>1, <2>2, <1>a, <1>d
<1>8. \A x \in Builds(target)' : x.id = mergeId' => x \in {building[target], Torn(building[target])}'
    BY <1>7, <1>f DEF Builds
<1>9. BuildsKnown'
    BY <1>6, <1>8, <1>a DEF BuildsKnown
<1>. QED
    BY <1>3, <1>9

\* After fsync of the build it can no longer be torn.
LEMMA BuildFlushed ==
    ASSUME TypeInv, BuildsKnown, SyncBuilding
    PROVE  BuildsKnown'
<1>. USE DEF files, book, job, ghost, Works, BeforeLink
<1>0. target \in Version /\ disk \in Disk
    BY DEF TypeInv, TypeOK
<1>a. /\ pc = "built" /\ pc' = "filesynced"
      /\ disk' = [disk EXCEPT !.building[target] = @ \ {Torn(building[target])}]
      /\ UNCHANGED <<building, target, mergeId, nextId>>
    BY DEF SyncBuilding
<1>b. /\ disk'.building[target] = disk.building[target] \ {Torn(building[target])}
      /\ \A v \in Version \ {target} : disk'.building[v] = disk.building[v]
    BY <1>0, <1>a DEF Disk
<1>1. \A v \in Version : Builds(v)' \subseteq Builds(v)
    BY <1>b DEF Builds
<1>2. \A x \in Builds(target)' : x.id = mergeId => x = building[target]
    BY <1>0, <1>a, <1>b DEF Builds, BuildsKnown
<1>3. Builds(target)' = {x \in disk'.building[target] : x # None}
    BY <1>a DEF Builds
<1>. QED
    BY <1>0, <1>1, <1>2, <1>a DEF BuildsKnown

\* The record names the sources of its merge, all older than the target.
LEMMA RecordKnown ==
    ASSUME TypeInv, KeepInv, PlansKnown, BuildsKnown, WriteRecord
    PROVE  PlansKnown'
<1>. USE DEF files, book, job, ghost, Works
<1>0. target \in Version /\ disk \in Disk
    BY DEF TypeInv, TypeOK
<1>a. /\ pc = "filesynced" /\ pc' = "recordwritten"
      /\ disk' = [disk EXCEPT !.temp[target] = @ \cup {ThePlan}]
      /\ UNCHANGED <<mergeId, nextId, target, group>>
    BY DEF WriteRecord
<1>b. mergeId = nextId /\ mergeId \in Nat
    BY <1>a, CompactionAssumption DEF BuildsKnown, BeforeLink, TypeInv, TypeOK, Merge
<1>c. /\ disk'.record = disk.record
      /\ disk'.temp[target] = disk.temp[target] \cup {ThePlan}
      /\ \A v \in Version \ {target} : disk'.temp[v] = disk.temp[v]
    BY <1>0, <1>a DEF Disk
<1>d. ThePlan.whole /\ ThePlan.id = mergeId /\ ThePlan.sources = group
    BY DEF ThePlan
<1>e. \A s \in group : s < target
    <2>1. group \subseteq catalog /\ target = issued + 1
        BY <1>a DEF TypeInv, CatalogInv, Unretired, BeforeLink, KeepInv, Building
    <2>2. \A v \in catalog : v <= issued
        BY <1>a DEF KeepInv, CatalogTrue, Steady, BeforeLink
    <2>3. issued \in Nat /\ catalog \subseteq Nat
        BY DEF TypeInv, TypeOK, Version
    <2>. QED
        BY <2>1, <2>2, <2>3
<1>1. \A v \in Version : \A p \in Plans(v)' : p \in Plans(v) \/ (v = target /\ p = ThePlan)
    BY <1>c DEF Plans
<1>2. \A v \in Version : \A p \in Plans(v) : p.id # mergeId
    BY <1>a DEF PlansKnown
<1>3. ASSUME NEW v \in Version, NEW p \in Plans(v)'
      PROVE  p.whole /\ (\A s \in p.sources : s < v) /\ p.id <= nextId'
    BY <1>1, <1>3, <1>a, <1>b, <1>d, <1>e DEF PlansKnown
<1>4. ASSUME NEW v \in Version, NEW u \in Version, NEW p \in Plans(v)', NEW q \in Plans(u)', p.id = q.id
      PROVE  p = q
    BY <1>1, <1>2, <1>4, <1>d DEF PlansKnown
<1>. QED
    BY <1>3, <1>4, <1>a DEF PlansKnown
-----------------------------------------------------------------------------
(* Every step but a loss of power keeps it *)

\* A record that may come back stays where it was.
LEMMA StaleStands ==
    ASSUME StalePlace, disk'.record = disk.record, record' = record,
           \/ pc \notin Leftover
           \/ "unlink" \in Faults
           \/ target' = target /\ pc' \in Leftover
    PROVE  StalePlace'
BY DEF StalePlace

\* Steps at which a barrier has just made durable what the step relies on.
Staged == {"recorded", "retiring", "finishing", "sourcesretired", "undone"}

LEMMA NotStaged ==
    ASSUME pc' \notin Staged
    PROVE  StagesDurable'
BY DEF StagesDurable, Staged

\* Steps of the instance and of recovery that call nothing on the directory.
QuietStep ==
    \/ Close \/ StartCompaction \/ SkipFirst \/ GroupsDone \/ LinkFails \/ MergeLatches
    \/ CheckMarker \/ ReopenActive \/ StartRecovery \/ OpenFails

LEMMA QuietDurable ==
    ASSUME "barrier" \notin Faults, TypeInv, KeepInv, OnceInv, DiskInv, QuietStep
    PROVE  DiskInv'
<1>. USE DEF TypeInv, KeepInv, OnceInv, DiskInv, files, book, job, ghost, Works, Spend
<1>0. target \in Version
    BY DEF TypeOK
<1>1. UNCHANGED <<data, building, record, temp, disk, held, promised, nextId>>
    BY DEF QuietStep, Close, StartCompaction, SkipFirst, GroupsDone, LinkFails, MergeLatches,
           CheckMarker, ReopenActive, StartRecovery, OpenFails
<1>2. pc \in {"serving", "grouping", "recorded", "withdrawing", "sourcesretired", "targetdurable",
              "reopening", "closed", "refused", "undoing", "undone", "finishing", "recordgone",
              "sweeping"}
    BY DEF QuietStep, Close, StartCompaction, SkipFirst, GroupsDone, LinkFails, MergeLatches,
           CheckMarker, ReopenActive, StartRecovery, OpenFails
<1>3. pc \in Leftover => "unlink" \in Faults
    BY <1>2 DEF QuietStep, Close, StartCompaction, SkipFirst, GroupsDone, LinkFails, MergeLatches,
           CheckMarker, ReopenActive, StartRecovery, OpenFails, Leftover, Unsettled
<1>4. \/ pc' \notin Staged /\ pc' \notin BeforeLink
      \/ CheckMarker /\ pc' = "retiring"
      \/ StartRecovery /\ pc' = "finishing"
    <2>1. CASE StartRecovery
        BY <2>1 DEF StartRecovery, Verdict, Staged, BeforeLink
    <2>2. CASE CheckMarker
        BY <2>2 DEF CheckMarker, Staged, BeforeLink
    <2>3. CASE Close \/ StartCompaction \/ SkipFirst \/ GroupsDone \/ LinkFails \/ MergeLatches
               \/ ReopenActive \/ OpenFails
        BY <2>3 DEF Close, StartCompaction, SkipFirst, GroupsDone, LinkFails, MergeLatches,
               ReopenActive, OpenFails, Staged, BeforeLink
    <2>. QED
        BY <2>1, <2>2, <2>3 DEF QuietStep
<1>5. FilesDurable'
    BY <1>1, <1>2, FilesStand DEF Unsettled
<1>6. StalePlace'
    BY <1>1, <1>3, StaleStands
<1>7. PlansKnown'
    BY <1>1, <1>4, PlansStand DEF Plans, BeforeLink
<1>8. BuildsKnown'
    <2>1. pc' \notin BeforeLink
        BY <1>4 DEF BeforeLink
    <2>2. \A v \in Version : Builds(v)' \subseteq Builds(v)
        BY <1>1 DEF Builds
    <2>. QED
        BY <1>0, <1>1, <2>1, <2>2, BuildsStand
<1>9. StagesDurable'
    <2>1. CASE pc' \notin Staged
        BY <2>1, NotStaged
    <2>2. CASE CheckMarker /\ pc' = "retiring"
        <3>1. pc = "targetdurable" /\ todo' = group /\ target' = target
            BY <2>2 DEF CheckMarker
        <3>2. record[target] = ThePlan
            BY <3>1 DEF MergeTraced
        <3>3. ThePlan # None /\ ThePlan.sources = group
            <4>1. ThePlan \in Plan
                BY DEF TypeOK, ThePlan, Plan
            <4>. QED
                BY <4>1, CompactionAssumption DEF ThePlan
        <3>. QED
            BY <1>1, <2>2, <3>1, <3>2, <3>3 DEF StagesDurable
    <2>3. CASE StartRecovery /\ pc' = "finishing"
        <3>1. Records # {}
            BY <2>3, FS_EmptySet DEF StartRecovery, Verdict
        <3>2. target' = Max(Records) /\ todo' = record[target'].sources
            BY <2>3, <3>1 DEF StartRecovery
        <3>3. target' \in Records
            BY <3>1, <3>2, MaxMember DEF Records, Holding
        <3>. QED
            BY <1>1, <2>3, <3>2, <3>3 DEF StagesDurable, Records, Holding
    <2>. QED
        BY <1>4, <2>1, <2>2, <2>3
<1>. QED
    BY <1>5, <1>6, <1>7, <1>8, <1>9

\* A step on builds and records under their temporary names.
LEMMA FilesAside ==
    ASSUME DiskInv, disk'.data = disk.data, disk'.record = disk.record,
           UNCHANGED <<data, record, held, promised>>,
           pc \notin Unsettled,
           pc \in Leftover => target' = target /\ pc' \in Leftover,
           pc \in {"linked", "published"} => pc' \in {"linked", "published"}
    PROVE  FilesDurable' /\ StalePlace'
BY FilesStand, StaleStands DEF DiskInv

\* The best-effort removal of a build.
LEMMA BuildDropped ==
    ASSUME TypeInv, NEW v \in Version,
           \/ Abandon(v)
           \/ /\ building' = [building EXCEPT ![v] = None]
              /\ disk' = [disk EXCEPT !.building[v] = @ \cup {None}]
    PROVE  /\ disk'.data = disk.data /\ disk'.record = disk.record /\ disk'.temp = disk.temp
           /\ \A u \in Version : Builds(u)' \subseteq Builds(u)
<1>1. disk \in Disk /\ building[v] \in disk.building[v]
    BY DEF TypeInv, TypeOK, SeenPossible
<1>2. \/ disk' = [disk EXCEPT !.building[v] = @ \cup {None}]
      \/ disk' = [disk EXCEPT !.building[v] = @ \cup {building[v]}]
    <2>1. CASE Abandon(v)
        <3>1. building'[v] = building[v] \/ building'[v] = None
            BY <2>1 DEF Abandon, MayRemove, TypeInv, TypeOK
        <3>. QED
            BY <2>1, <3>1 DEF Abandon
    <2>. QED
        BY <2>1
<1>3. /\ disk'.data = disk.data /\ disk'.record = disk.record /\ disk'.temp = disk.temp
      /\ \A u \in Version : disk'.building[u] \subseteq disk.building[u] \cup {None}
    BY <1>1, <1>2 DEF Disk
<1>. QED
    BY <1>3 DEF Builds

BuildStep ==
    \/ GroupTooLarge \/ BuildFails \/ UnlinkBuilding \/ DiscardBuilding \/ UndoBuilding
    \/ RecoveryRemovesBuilding

LEMMA BuildDurable ==
    ASSUME TypeInv, KeepInv, OnceInv, DiskInv, BuildStep
    PROVE  DiskInv'
<1>. USE DEF TypeInv, KeepInv, OnceInv, DiskInv, files, book, job, ghost, Works, Spend
<1>0. target \in Version
    BY DEF TypeOK
<1>1. UNCHANGED <<data, record, temp, held, promised, nextId>>
    BY DEF BuildStep, GroupTooLarge, BuildFails, UnlinkBuilding, DiscardBuilding, UndoBuilding,
           RecoveryRemovesBuilding
<1>2. /\ disk'.data = disk.data /\ disk'.record = disk.record /\ disk'.temp = disk.temp
      /\ \A u \in Version : Builds(u)' \subseteq Builds(u)
    <2>1. CASE GroupTooLarge
        BY <2>1, BuildDropped DEF GroupTooLarge
    <2>2. CASE BuildFails
        <3>1. CASE Target \in Version
            BY <2>2, <3>1, BuildDropped DEF BuildFails
        <3>2. CASE Target \notin Version
            BY <2>2, <3>2 DEF BuildFails, Builds
        <3>. QED
            BY <3>1, <3>2
    <2>3. CASE UnlinkBuilding \/ DiscardBuilding \/ UndoBuilding \/ RecoveryRemovesBuilding
        <3>1. \/ Abandon(target)
              \/ /\ building' = [building EXCEPT ![target] = None]
                 /\ disk' = [disk EXCEPT !.building[target] = @ \cup {None}]
            BY <2>3 DEF UnlinkBuilding, DiscardBuilding, UndoBuilding, RecoveryRemovesBuilding
        <3>. QED
            BY <1>0, <3>1, BuildDropped
    <2>. QED
        BY <2>1, <2>2, <2>3 DEF BuildStep
<1>3. /\ pc \in {"grouping", "linked", "calledoff", "undoing", "recordgone"}
      /\ pc' \in {"grouping", "reopening", "published", "undone", "settling"}
      /\ pc = "linked" => pc' = "published"
      /\ pc = "recordgone" => pc' = "settling" /\ target' = target
      /\ pc' = "undone" => pc = "undoing" /\ target' = target
    BY DEF BuildStep, GroupTooLarge, BuildFails, UnlinkBuilding, DiscardBuilding, UndoBuilding,
           RecoveryRemovesBuilding
<1>4. FilesDurable' /\ StalePlace'
    BY <1>1, <1>2, <1>3, FilesAside DEF Unsettled, Leftover
<1>5. PlansKnown'
    BY <1>1, <1>2, <1>3, PlansStand DEF Plans
<1>6. BuildsKnown'
    BY <1>0, <1>1, <1>2, <1>3, BuildsStand DEF BeforeLink
<1>7. StagesDurable'
    <2>1. CASE pc' = "undone"
        <3>1. data'[target'] = None
            BY <1>1, <1>3, <2>1 DEF MergeTraced
        <3>. QED
            BY <2>1, <3>1 DEF StagesDurable
    <2>2. CASE pc' # "undone"
        BY <1>3, <2>2, NotStaged DEF Staged
    <2>. QED
        BY <2>1, <2>2
<1>. QED
    BY <1>4, <1>5, <1>6, <1>7

\* A merge writes its build and its record, or gives them up.
WriteStep == BuildTarget \/ SyncBuilding \/ WriteRecord \/ MergeCalledOff

LEMMA WriteDurable ==
    ASSUME TypeInv, KeepInv, OnceInv, DiskInv, WriteStep
    PROVE  DiskInv'
<1>. USE DEF TypeInv, KeepInv, OnceInv, DiskInv, files, book, job, ghost, Works, Spend
<1>0. target \in Version /\ disk \in Disk
    BY DEF TypeOK
<1>1. UNCHANGED <<data, record, held, promised>>
    BY DEF WriteStep, BuildTarget, SyncBuilding, WriteRecord, MergeCalledOff
<1>2. disk'.data = disk.data /\ disk'.record = disk.record
    BY <1>0 DEF WriteStep, BuildTarget, SyncBuilding, WriteRecord, MergeCalledOff, Disk
<1>3. /\ pc \in {"grouping", "built", "filesynced", "recordwritten"}
      /\ pc' \in {"built", "filesynced", "recordwritten", "reopening"}
    BY DEF WriteStep, BuildTarget, SyncBuilding, WriteRecord, MergeCalledOff
<1>4. FilesDurable' /\ StalePlace'
    BY <1>1, <1>2, <1>3, FilesAside DEF Unsettled, Leftover
<1>5. StagesDurable'
    BY <1>3, NotStaged DEF Staged
<1>6. CASE BuildTarget
    BY <1>4, <1>5, <1>6, BuildKnown
<1>7. CASE SyncBuilding
    <2>1. disk'.temp = disk.temp
        BY <1>0, <1>7 DEF SyncBuilding, Disk
    <2>2. PlansKnown'
        BY <1>2, <1>7, <2>1, PlansStand DEF SyncBuilding, Plans
    <2>. QED
        BY <1>4, <1>5, <1>7, <2>2, BuildFlushed
<1>8. CASE WriteRecord
    <2>1. disk'.building = disk.building
        BY <1>0, <1>8 DEF WriteRecord, Disk
    <2>2. \A v \in Version : Builds(v)' \subseteq Builds(v)
        BY <2>1 DEF Builds
    <2>3. BuildsKnown'
        BY <1>0, <1>8, <2>2, BuildsStand DEF WriteRecord, BeforeLink
    <2>. QED
        BY <1>4, <1>5, <1>8, <2>3, RecordKnown
<1>9. CASE MergeCalledOff
    <2>1. temp'[target] \in {temp[target], None} /\ building'[target] \in {building[target], None}
        BY <1>0, <1>9 DEF MergeCalledOff, MayRemove, TypeOK
    <2>2. temp[target] \in disk.temp[target] /\ building[target] \in disk.building[target]
        BY <1>0 DEF SeenPossible
    <2>3. /\ \A v \in Version : disk'.temp[v] \subseteq disk.temp[v] \cup {None}
          /\ \A v \in Version : disk'.building[v] \subseteq disk.building[v] \cup {None}
        BY <1>0, <1>9, <2>1, <2>2 DEF MergeCalledOff, Disk
    <2>4. PlansKnown'
        BY <1>2, <1>9, <2>3, PlansStand DEF MergeCalledOff, Plans
    <2>5. \A v \in Version : Builds(v)' \subseteq Builds(v)
        BY <2>3 DEF Builds
    <2>6. BuildsKnown'
        BY <1>0, <1>9, <2>5, BuildsStand DEF MergeCalledOff, BeforeLink
    <2>. QED
        BY <1>4, <1>5, <2>4, <2>6
<1>. QED
    BY <1>6, <1>7, <1>8, <1>9 DEF WriteStep

\* The barriers on the directory.
BarrierStep ==
    \/ Sync \/ RecordBarrier \/ ConfirmWithdrawal \/ TargetBarrier \/ RetireBarrier \/ MergeEnds
    \/ FinishBarrier \/ RecoveryBarrier

LEMMA BarrierDurable ==
    ASSUME "barrier" \notin Faults, TypeInv, KeepInv, OnceInv, DiskInv, BarrierStep
    PROVE  DiskInv'
<1>. USE DEF TypeInv, KeepInv, OnceInv, DiskInv, files, book, job, ghost, Works, Spend
<1>0. target \in Version
    BY DEF TypeOK
<1>1. disk' = Flushed /\ UNCHANGED <<data, building, record, temp, held, nextId>>
    BY DEF BarrierStep, Sync, RecordBarrier, ConfirmWithdrawal, TargetBarrier, RetireBarrier,
           MergeEnds, FinishBarrier, RecoveryBarrier
<1>2. promised' \subseteq held
    BY DEF BarrierStep, Sync, RecordBarrier, ConfirmWithdrawal, TargetBarrier, RetireBarrier,
           MergeEnds, FinishBarrier, RecoveryBarrier, FilesDurable, PromisesDurable
<1>3. FilesDurable' /\ StalePlace'
    BY <1>1, <1>2, FilesFlushed
<1>4. \A v \in Version :
         /\ disk'.data[v] = {data[v]}
         /\ disk'.record[v] = {record[v]}
         /\ disk'.temp[v] \subseteq disk.temp[v]
         /\ disk'.building[v] \subseteq disk.building[v]
         /\ building[v] # None => \A x \in disk'.building[v] : x # None /\ x.id = building[v].id
    BY <1>1, FlushSettles DEF FilesDurable
<1>5. /\ pc \in {"serving", "recordnamed", "withdrawn", "published", "retiring", "recordremoved",
                 "finishing", "settling"}
      /\ pc' \in {"serving", "recorded", "calledoff", "targetdurable", "reopening",
                  "sourcesretired", "grouping", "undone", "sweeping"}
      /\ pc' = "recorded" => pc = "recordnamed" /\ UNCHANGED <<target, mergeId>>
      /\ pc' = "sourcesretired" =>
            pc = "retiring" /\ todo = {} /\ ~failed /\ target' = target
      /\ pc' = "undone" => pc = "finishing" /\ todo = {} /\ target' = target
    BY DEF BarrierStep, Sync, RecordBarrier, ConfirmWithdrawal, TargetBarrier, RetireBarrier,
           MergeEnds, FinishBarrier, RecoveryBarrier
<1>6. PlansKnown'
    <2>1. \A v \in Version : record[v] \in disk.record[v]
        BY DEF SeenPossible
    <2>2. \A v \in Version : Plans(v)' \subseteq Plans(v)
        BY <1>4, <2>1 DEF Plans
    <2>. QED
        BY <1>1, <1>5, <2>2, PlansStand
<1>7. BuildsKnown'
    <2>1. \A v \in Version : Builds(v)' \subseteq Builds(v)
        BY <1>4 DEF Builds
    <2>2. pc' \in BeforeLink => /\ pc \in BeforeLink /\ (pc = "built" => pc' = "built")
                                /\ UNCHANGED <<target, mergeId, building>>
        BY <1>1, <1>5 DEF BeforeLink
    <2>. QED
        BY <1>0, <1>1, <2>1, <2>2, BuildsStand
<1>8. StagesDurable'
    <2>1. CASE pc' = "recorded"
        <3>1. pc = "recordnamed" /\ target' = target
            BY <1>5, <2>1
        <3>2. \A t \in Version \ {target} : record[t] = None
            BY <3>1 DEF RecordPlace, Holding
        <3>3. building[target] # None /\ building[target].id = mergeId
            BY <3>1 DEF StageFiles, BeforeLink, MergeTraced
        <3>4. \A x \in Builds(target) : x.id = mergeId => x = building[target]
            BY <3>1 DEF BuildsKnown, BeforeLink
        <3>5. \A x \in disk'.building[target] : x = building[target]
            BY <1>0, <1>4, <3>3, <3>4 DEF Builds
        <3>6. building[target] \in disk'.building[target]
            <4>1. Flushed.building[target] = Settle(disk.building[target], building[target])
                BY <1>0 DEF Flushed
            <4>. QED
                BY <1>0, <1>1, <3>3, <4>1 DEF Settle, SeenPossible
        <3>7. disk'.building[target] = {building[target]}
            BY <3>5, <3>6
        <3>8. OnlyRecord(target)'
            BY <1>0, <1>1, <1>4, <3>1, <3>2 DEF OnlyRecord
        <3>. QED
            BY <1>1, <1>4, <2>1, <3>1, <3>7, <3>8 DEF StagesDurable
    <2>2. CASE pc' = "sourcesretired"
        <3>1. pc = "retiring" /\ todo = {} /\ ~failed /\ target' = target
            BY <1>5, <2>2
        <3>2. data[target] # None
            BY <3>1 DEF Retiring
        <3>3. record[target] # None /\ \A s \in record[target].sources : data[s] = None
            BY <3>1 DEF MergeTraced, SourcesGone
        <3>4. record[target].sources \subseteq Version
            BY <1>0, <3>3 DEF TypeOK, Plan
        <3>. QED
            BY <1>1, <1>4, <2>2, <3>1, <3>2, <3>3, <3>4 DEF StagesDurable
    <2>3. CASE pc' = "undone"
        <3>1. pc = "finishing" /\ todo = {} /\ ~failed /\ target' = target
            BY <1>5, <2>3 DEF LatchPlace
        <3>3. record[target] # None /\ \A s \in record[target].sources : data[s] = None
            BY <3>1 DEF MergeTraced, SourcesGone
        <3>4. record[target].sources \subseteq Version
            BY <1>0, <3>3 DEF TypeOK, Plan
        <3>. QED
            BY <1>1, <1>4, <2>3, <3>1, <3>3, <3>4 DEF StagesDurable
    <2>4. CASE pc' \notin Staged
        BY <2>4, NotStaged
    <2>. QED
        BY <1>5, <2>1, <2>2, <2>3, <2>4 DEF Staged
<1>. QED
    BY <1>3, <1>6, <1>7, <1>8

\* Entries, generations and records come, go and get their names.
ChangeStep ==
    \/ \E k \in Key : Insert(k) \/ Delete(k)
    \/ NameRecord \/ LinkTarget \/ WithdrawRecord \/ RemoveRecord \/ RecoveryRemovesRecord
    \/ RetireSource \/ FinishRetire \/ FinishOpen

LEMMA ChangeDurable ==
    ASSUME TypeInv, KeepInv, OnceInv, DiskInv, ChangeStep
    PROVE  DiskInv'
<1>. USE DEF files, book, job, ghost, Works, Spend
<1>0. target \in Version /\ disk \in Disk
    BY DEF TypeInv, TypeOK
<1>1. FilesDurable' /\ StalePlace'
    BY InsertDurable, DeleteDurable, RecordNamed, TargetLinked, RecordGoes, SourceGoes, OpenEnds
       DEF ChangeStep
<1>2. nextId' = nextId
    BY DEF ChangeStep, Insert, Delete, NameRecord, LinkTarget, WithdrawRecord, RemoveRecord,
           RecoveryRemovesRecord, RetireSource, FinishRetire, FinishOpen
<1>3. /\ pc' \in {"serving", "refused", "recordnamed", "linked", "withdrawn", "recordremoved",
                  "settling", "recordgone", "retiring", "finishing"}
      /\ pc' = "recordnamed" =>
            pc = "recordwritten" /\ UNCHANGED <<target, mergeId, building>>
      /\ pc' \in {"retiring", "finishing"} => RetireSource \/ FinishRetire
    BY DEF ChangeStep, Insert, Delete, NameRecord, LinkTarget, WithdrawRecord, RemoveRecord,
           RecoveryRemovesRecord, RetireSource, FinishRetire, FinishOpen
<1>4. \A v \in Version : Plans(v)' \subseteq Plans(v) /\ Builds(v)' \subseteq Builds(v)
    <2>1. ASSUME NEW k \in Key, Insert(k) \/ Delete(k)
          PROVE  UNCHANGED <<disk.record, disk.temp, disk.building>>
        BY <1>0, <2>1 DEF Insert, Delete, Disk
    <2>2. CASE LinkTarget \/ RetireSource \/ FinishRetire
        <3>. UNCHANGED <<disk.record, disk.temp, disk.building>>
            BY <1>0, <2>2 DEF LinkTarget, RetireSource, FinishRetire, Disk
        <3>. QED
            BY DEF Plans, Builds
    <2>3. CASE NameRecord
        <3>1. /\ disk'.building = disk.building
              /\ \A v \in Version : disk'.record[v] \cup disk'.temp[v] \subseteq
                                      disk.record[v] \cup disk.temp[v] \cup {None}
            BY <1>0, <2>3 DEF NameRecord, Disk
        <3>. QED
            BY <3>1 DEF Plans, Builds
    <2>4. CASE WithdrawRecord \/ RemoveRecord \/ RecoveryRemovesRecord
        <3>1. /\ disk'.building = disk.building /\ disk'.temp = disk.temp
              /\ \A v \in Version : disk'.record[v] \subseteq disk.record[v] \cup {None}
            BY <1>0, <2>4 DEF WithdrawRecord, RemoveRecord, RecoveryRemovesRecord, Disk
        <3>. QED
            BY <3>1 DEF Plans, Builds
    <2>5. CASE FinishOpen
        <3>1. /\ disk'.record = disk.record
              /\ \A v \in Version : /\ disk'.temp[v] \subseteq disk.temp[v] \cup {None}
                                    /\ disk'.building[v] \subseteq disk.building[v] \cup {None}
            BY <1>0, <2>5 DEF FinishOpen, Disk
        <3>. QED
            BY <3>1 DEF Plans, Builds
    <2>. QED
        BY <2>1, <2>2, <2>3, <2>4, <2>5 DEF ChangeStep, Plans, Builds
<1>5. PlansKnown'
    BY <1>2, <1>3, <1>4, PlansStand DEF DiskInv
<1>6. BuildsKnown'
    BY <1>0, <1>2, <1>3, <1>4, BuildsStand DEF DiskInv, BeforeLink
<1>7. StagesDurable'
    <2>1. CASE pc' \in {"retiring", "finishing"}
        BY <1>3, <2>1, SourceGoes DEF StagesDurable
    <2>2. CASE pc' \notin {"retiring", "finishing"}
        BY <1>3, <2>2, NotStaged DEF Staged
    <2>. QED
        BY <2>1, <2>2
<1>. QED
    BY <1>1, <1>5, <1>6, <1>7 DEF DiskInv

LEMMA StutterDurable ==
    ASSUME DiskInv, UNCHANGED vars
    PROVE  DiskInv'
<1>. USE DEF vars
<1>1. DataPossible'
    <2>1. \A v \in Version : \A x : Returns(v, x) => Returns(v, x)'
        BY DEF Returns, Anchors
    <2>. QED
        BY <2>1 DEF DiskInv, FilesDurable, DataPossible
<1>2. SourcesApart' /\ PromisesDurable'
    BY DEF DiskInv, FilesDurable, SourcesApart, PromisesDurable
<1>3. StaleHarmless' /\ StalePlace'
    BY DEF DiskInv, FilesDurable, StaleHarmless, Harmless, StalePlace
<1>4. RecordDurable'
    BY DEF DiskInv, FilesDurable, RecordDurable, OnlyRecord
<1>5. PlansKnown'
    BY DEF DiskInv, PlansKnown, Plans
<1>6. BuildsKnown'
    <2>1. Torn(building[target])' = Torn(building[target])
        BY DEF Torn
    <2>. QED
        BY <2>1 DEF DiskInv, BuildsKnown, Builds
<1>7. StagesDurable'
    BY DEF DiskInv, StagesDurable, OnlyRecord
<1>. QED
    BY <1>1, <1>2, <1>3, <1>4, <1>5, <1>6, <1>7 DEF DiskInv, FilesDurable

\* Every step but a loss of power, when no process dies alone and no barrier fails.
LEMMA DiskStep ==
    ASSUME "crash" \notin Faults, "barrier" \notin Faults, ~PowerLoss,
           TypeInv, KeepInv, OnceInv, DiskInv, [Next]_vars
    PROVE  DiskInv'
<1>1. ~ProcessCrash /\ ~RecordBarrierFails
    BY DEF ProcessCrash, RecordBarrierFails, Spend
<1>2. CASE QuietStep
    BY <1>2, QuietDurable
<1>3. CASE BuildStep
    BY <1>3, BuildDurable
<1>4. CASE WriteStep
    BY <1>4, WriteDurable
<1>5. CASE BarrierStep
    BY <1>5, BarrierDurable
<1>6. CASE ChangeStep
    BY <1>6, ChangeDurable
<1>7. CASE UNCHANGED vars
    BY <1>7, StutterDurable
<1>. QED
    BY <1>1, <1>2, <1>3, <1>4, <1>5, <1>6, <1>7
       DEF Next, MergeStep, OpenStep, QuietStep, BuildStep, WriteStep, BarrierStep, ChangeStep
-----------------------------------------------------------------------------
(* A loss of power *)

\* Every name is left with something it may hold.
LEMMA AftermathMember ==
    ASSUME NEW D, \A v \in Version : D[v] # {}, NEW f \in Aftermath(D)
    PROVE  \A v \in Version : f[v] \in D[v]
<1>. DEFINE unsettled == {v \in Version : Cardinality(D[v]) > 1}
            picks == {p \in [unsettled -> UNION {D[v] : v \in unsettled}] :
                        \A v \in unsettled : p[v] \in D[v]}
            outcome(p) == [v \in Version |->
                          IF v \in unsettled THEN p[v] ELSE CHOOSE c \in D[v] : TRUE]
<1>1. PICK p \in picks : f = outcome(p)
    BY DEF Aftermath
<1>2. ASSUME NEW v \in Version PROVE outcome(p)[v] \in D[v]
    <2>1. CASE v \in unsettled
        BY <2>1
    <2>2. CASE v \notin unsettled
        <3>1. (CHOOSE c \in D[v] : TRUE) \in D[v]
            OBVIOUS
        <3>. QED
            BY <2>2, <3>1
    <2>. QED
        BY <2>1, <2>2
<1>. QED
    BY <1>1, <1>2

LEMMA AfterPowerLoss ==
    ASSUME TypeInv, PowerLoss
    PROVE  \A v \in Version :
              /\ data'[v] \in disk.data[v] /\ disk'.data[v] = {data'[v]}
              /\ record'[v] \in disk.record[v] /\ disk'.record[v] = {record'[v]}
              /\ temp'[v] \in disk.temp[v] /\ disk'.temp[v] = {temp'[v]}
              /\ building'[v] \in disk.building[v] /\ disk'.building[v] = {building'[v]}
<1>1. \A v \in Version : /\ disk.data[v] # {} /\ disk.record[v] # {}
                         /\ disk.temp[v] # {} /\ disk.building[v] # {}
    BY DEF TypeInv, SeenPossible
<1>2. /\ data' \in Aftermath(disk.data) /\ record' \in Aftermath(disk.record)
      /\ temp' \in Aftermath(disk.temp) /\ building' \in Aftermath(disk.building)
    BY DEF PowerLoss
<1>3. \A v \in Version : data'[v] \in disk.data[v]
    BY <1>1, <1>2, AftermathMember
<1>4. \A v \in Version : record'[v] \in disk.record[v]
    BY <1>1, <1>2, AftermathMember
<1>5. \A v \in Version : temp'[v] \in disk.temp[v]
    BY <1>1, <1>2, AftermathMember
<1>6. \A v \in Version : building'[v] \in disk.building[v]
    BY <1>1, <1>2, AftermathMember
<1>7. \A v \in Version : /\ disk'.data[v] = {data'[v]} /\ disk'.record[v] = {record'[v]}
                         /\ disk'.temp[v] = {temp'[v]} /\ disk'.building[v] = {building'[v]}
    BY DEF PowerLoss
<1>. QED
    BY <1>3, <1>4, <1>5, <1>6, <1>7

\* What is left of the entries: everything sync() covered, nothing that was not
\* there, and no generation is torn.
LEMMA EntriesAfter ==
    ASSUME TypeInv, KeepInv, OnceInv, FilesDurable, PowerLoss
    PROVE  AllWhole' /\ EntriesKept' /\ HeldOnly' /\ promised' \subseteq held'
<1>. USE DEF TypeInv, KeepInv, OnceInv, FilesInv, FilesDurable
<1>1. \A v \in Version : data'[v] \in disk.data[v]
    BY AfterPowerLoss
<1>2. held' = promised \cup (held \cap Readable') /\ promised' = promised
    BY DEF PowerLoss
<1>3. \A v \in Version : data'[v] # None =>
         data'[v].whole /\ \A k \in data'[v].keys : k \in held
    <2>. SUFFICES ASSUME NEW v \in Version, data'[v] # None
                  PROVE  data'[v].whole /\ \A k \in data'[v].keys : k \in held
        OBVIOUS
    <2>1. CASE data'[v] = data[v]
        BY <2>1 DEF AllWhole, HeldOnly
    <2>2. CASE data'[v] # data[v]
        <3>1. Returns(v, data'[v])
            BY <1>1, <2>2 DEF DataPossible
        <3>2. data'[v].whole
            BY <3>1 DEF Returns
        <3>3. PICK t \in Version : Anchors(t) /\ data'[v].keys \subseteq data[t].keys
            BY <3>1 DEF Returns
        <3>4. data[t].keys \subseteq held
            BY <3>3 DEF Anchors, HeldOnly
        <3>. QED
            BY <3>2, <3>3, <3>4
    <2>. QED
        BY <2>1, <2>2
<1>4. AllWhole'
    BY <1>3 DEF AllWhole
<1>5. \A k : k \in Readable' <=> \E v \in Version : data'[v] # None /\ k \in data'[v].keys
    BY <1>3 DEF Readable, Holding
<1>6. \A k \in promised : k \in Readable'
    <2>. SUFFICES ASSUME NEW k \in promised
                  PROVE  \E v \in Version : data'[v] # None /\ k \in data'[v].keys
        BY <1>5
    <2>1. PICK v \in Version : data[v] # None /\ k \in data[v].keys /\ disk.data[v] = {data[v]}
        BY DEF PromisesDurable
    <2>. QED
        BY <1>1, <2>1
<1>7. EntriesKept'
    <2>. SUFFICES ASSUME NEW k \in held' PROVE k \in Readable'
        BY DEF EntriesKept
    <2>. QED
        BY <1>2, <1>6
<1>8. HeldOnly'
    <2>. SUFFICES ASSUME NEW v \in Version, data'[v] # None, NEW k \in data'[v].keys
                  PROVE  k \in held'
        BY DEF HeldOnly
    <2>1. k \in held /\ k \in Readable'
        BY <1>3, <1>5
    <2>. QED
        BY <1>2, <2>1
<1>. QED
    BY <1>2, <1>4, <1>7, <1>8

\* Beside a published target, before or after, the record is the one that was seen.
LEMMA RecordsAfter ==
    ASSUME TypeInv, KeepInv, OnceInv, DiskInv, PowerLoss,
           NEW t \in Version, record'[t] # None
    PROVE  /\ record'[t].whole
           /\ t \notin record'[t].sources
           /\ data'[t] # None =>
                 /\ data'[t] = data[t]
                 /\ data[t].id = record'[t].id
                 /\ \/ record[t] # None /\ record'[t] = record[t]
                    \/ \A s \in record'[t].sources : data'[s] = None
<1>. USE DEF TypeInv, KeepInv, OnceInv, FilesInv, DiskInv, FilesDurable
<1>0. \A v \in Version : data'[v] \in disk.data[v] /\ record'[v] \in disk.record[v]
    BY AfterPowerLoss
<1>1. record'[t] \in Plans(t) /\ record'[t] \in Plan
    BY <1>0 DEF Plans, TypeOK, Disk
<1>2. record'[t].whole /\ \A s \in record'[t].sources : s < t
    BY <1>1 DEF PlansKnown
<1>3. t \notin record'[t].sources
    BY <1>2, CompactionAssumption DEF Version
<1>4. ASSUME data'[t] # None
      PROVE  data'[t] = data[t]
    <2>. SUFFICES ASSUME data'[t] # data[t] PROVE FALSE
        OBVIOUS
    <2>1. Returns(t, data'[t])
        BY <1>0, <1>4 DEF DataPossible
    <2>2. PICK u \in Version : Anchors(u) /\ t \in record[u].sources
        BY <2>1 DEF Returns
    <2>3. OnlyRecord(u)
        BY <2>2 DEF Anchors, RecordDurable
    <2>4. t = u
        BY <1>0, <2>3 DEF OnlyRecord
    <2>5. data[t] = None
        BY <2>1 DEF Returns
    <2>. QED
        BY <2>2, <2>4, <2>5 DEF Anchors
<1>5. ASSUME data'[t] # None
      PROVE  /\ data[t].id = record'[t].id
             /\ \/ record[t] # None /\ record'[t] = record[t]
                \/ \A s \in record'[t].sources : data'[s] = None
    <2>1. CASE record'[t] = record[t]
        BY <1>4, <1>5, <2>1 DEF RecordsMatch
    <2>2. CASE record'[t] # record[t]
        <3>1. Harmless(t, record'[t])
            BY <1>0, <2>2 DEF StaleHarmless
        <3>2. data[t].id = record'[t].id /\ \A s \in record'[t].sources : disk.data[s] = {None}
            BY <1>4, <1>5, <3>1 DEF Harmless
        <3>3. record'[t].sources \subseteq Version
            BY <1>1 DEF Plan
        <3>. QED
            BY <1>0, <3>2, <3>3
    <2>. QED
        BY <2>1, <2>2
<1>. QED
    BY <1>2, <1>3, <1>4, <1>5

\* Beside its published target a record that stays names what it named: its
\* sources, back or not, are superseded, and they are the only ones to share keys.
LEMMA SourcesAfter ==
    ASSUME TypeInv, KeepInv, OnceInv, DiskInv, PowerLoss
    PROVE  RecordsTrue' /\ RecordsMatch' /\ SharedIsRecorded'
<1>. USE DEF TypeInv, KeepInv, OnceInv, FilesInv, DiskInv, FilesDurable
<1>0. \A v \in Version : data'[v] \in disk.data[v] /\ record'[v] \in disk.record[v]
    BY AfterPowerLoss
<1>1. RecordsMatch'
    BY RecordsAfter DEF RecordsMatch
<1>2. ASSUME NEW v \in Version, data'[v] # None, data'[v] # data[v]
      PROVE  \E t \in Version : /\ record[t] # None /\ data[t] # None
                                /\ record'[t] = record[t] /\ data'[t] = data[t]
                                /\ v \in record[t].sources
                                /\ data'[v].keys \subseteq data[t].keys
                                /\ \A u \in Version \ {t} : record[u] = None
    <2>1. Returns(v, data'[v])
        BY <1>0, <1>2 DEF DataPossible
    <2>2. PICK t \in Version : /\ Anchors(t) /\ v \in record[t].sources
                               /\ data'[v].keys \subseteq data[t].keys
        BY <2>1 DEF Returns
    <2>3. record'[t] = record[t] /\ data'[t] = data[t]
        BY <1>0, <2>2 DEF Anchors
    <2>4. \A u \in Version \ {t} : record[u] = None
        BY <2>2 DEF Anchors, RecordPlace, Holding
    <2>. QED
        BY <2>2, <2>3, <2>4 DEF Anchors
<1>3. RecordsTrue'
    <2>. SUFFICES ASSUME NEW t \in Version, record'[t] # None, data'[t] # None
                  PROVE  /\ t \notin record'[t].sources
                         /\ \A s \in record'[t].sources : Superseded(s, t)'
        BY DEF RecordsTrue
    <2>1. /\ t \notin record'[t].sources
          /\ data'[t] = data[t]
          /\ \/ record[t] # None /\ record'[t] = record[t]
             \/ \A s \in record'[t].sources : data'[s] = None
        BY RecordsAfter
    <2>2. CASE \A s \in record'[t].sources : data'[s] = None
        BY <2>1, <2>2 DEF Superseded
    <2>3. CASE record[t] # None /\ record'[t] = record[t]
        <3>1. record[t].sources \subseteq Version
            BY <2>3 DEF TypeOK, Plan
        <3>. SUFFICES ASSUME NEW s \in record[t].sources, data'[s] # None
                      PROVE  data'[s].keys \subseteq data[t].keys
            BY <2>1, <2>3 DEF Superseded
        <3>2. CASE data'[s] = data[s]
            BY <2>1, <2>3, <3>2 DEF RecordsTrue, Superseded
        <3>3. CASE data'[s] # data[s]
            BY <1>2, <2>3, <3>1, <3>3
        <3>. QED
            BY <3>2, <3>3
    <2>. QED
        BY <2>1, <2>2, <2>3
<1>4. ASSUME NEW u \in Version, NEW v \in Version, data'[u] # None, data'[v] # None, u # v,
             NEW x, x \in data'[u].keys, x \in data'[v].keys, data'[u] # data[u]
      PROVE  Recorded(u, v)'
    <2>1. PICK t \in Version : /\ record[t] # None /\ data[t] # None
                               /\ record'[t] = record[t] /\ data'[t] = data[t]
                               /\ u \in record[t].sources
                               /\ data'[u].keys \subseteq data[t].keys
                               /\ \A w \in Version \ {t} : record[w] = None
        BY <1>2, <1>4
    <2>2. CASE v = t
        BY <2>1, <2>2 DEF Recorded
    <2>3. CASE v # t
        <3>1. v \in record[t].sources
            <4>1. CASE data'[v] = data[v]
                <5>1. data[v].keys \cap data[t].keys # {}
                    BY <1>4, <2>1, <4>1
                <5>2. Recorded(v, t) \/ Recorded(t, v)
                    BY <1>4, <2>1, <2>3, <4>1, <5>1 DEF SharedIsRecorded, Holding
                <5>. QED
                    BY <2>1, <2>3, <5>2 DEF Recorded
            <4>2. CASE data'[v] # data[v]
                <5>1. PICK w \in Version : record[w] # None /\ v \in record[w].sources
                    BY <1>2, <1>4, <4>2
                <5>. QED
                    BY <2>1, <5>1
            <4>. QED
                BY <4>1, <4>2
        <3>2. data'[u] \in disk.data[u] \ {None} /\ data'[v] \in disk.data[v] \ {None}
            BY <1>0, <1>4
        <3>3. data'[u].keys \cap data'[v].keys = {}
            BY <1>4, <2>1, <3>1, <3>2 DEF SourcesApart
        <3>. QED
            BY <1>4, <3>3
    <2>. QED
        BY <2>2, <2>3
<1>5. SharedIsRecorded'
    <2>. SUFFICES ASSUME NEW u \in Version, NEW v \in Version, data'[u] # None, data'[v] # None,
                         u # v, NEW x, x \in data'[u].keys, x \in data'[v].keys
                  PROVE  Recorded(u, v)' \/ Recorded(v, u)'
        BY DEF SharedIsRecorded, Holding
    <2>1. CASE data'[u] # data[u] \/ data'[v] # data[v]
        BY <1>4, <2>1
    <2>2. CASE data'[u] = data[u] /\ data'[v] = data[v]
        <3>1. Recorded(u, v) \/ Recorded(v, u)
            BY <2>2 DEF SharedIsRecorded, Holding
        <3>2. ASSUME NEW t \in Version, record[t] # None, data[t] # None PROVE record'[t] = record[t]
            BY <1>0, <3>2 DEF RecordDurable, OnlyRecord
        <3>. QED
            BY <2>2, <3>1, <3>2 DEF Recorded
    <2>. QED
        BY <2>1, <2>2
<1>. QED
    BY <1>1, <1>3, <1>5

\* After a loss of power every name holds one thing.
LEMMA DiskAfter ==
    ASSUME TypeInv, KeepInv, OnceInv, DiskInv, PowerLoss,
           \A u, v \in Holding(record)' : u = v
    PROVE  DiskInv'
<1>. USE DEF TypeInv, DiskInv
<1>0. \A v \in Version :
         /\ data'[v] \in disk.data[v] /\ disk'.data[v] = {data'[v]}
         /\ record'[v] \in disk.record[v] /\ disk'.record[v] = {record'[v]}
         /\ temp'[v] \in disk.temp[v] /\ disk'.temp[v] = {temp'[v]}
         /\ building'[v] \in disk.building[v] /\ disk'.building[v] = {building'[v]}
    BY AfterPowerLoss
<1>a. pc' = "closed" /\ nextId' = nextId
    BY DEF PowerLoss, InstanceGone
<1>1. DataPossible' /\ StaleHarmless' /\ StalePlace'
    BY <1>0 DEF DataPossible, StaleHarmless, StalePlace
<1>2. SourcesApart'
    <2>. SUFFICES ASSUME NEW t \in Version, record'[t] # None, data'[t] # None,
                         NEW u \in record'[t].sources, NEW v \in record'[t].sources, u # v,
                         NEW x \in disk'.data[u] \ {None}, NEW y \in disk'.data[v] \ {None}
                  PROVE  x.keys \cap y.keys = {}
        BY DEF SourcesApart
    <2>1. record'[t] \in Plan
        BY <1>0 DEF TypeOK, Disk
    <2>2. u \in Version /\ v \in Version
        BY <2>1 DEF Plan
    <2>3. x \in disk.data[u] \ {None} /\ y \in disk.data[v] \ {None} /\ data'[u] # None
        BY <1>0, <2>2
    <2>4. record[t] # None /\ record'[t] = record[t] /\ data[t] # None
        BY <2>3, RecordsAfter
    <2>. QED
        BY <2>3, <2>4 DEF FilesDurable, SourcesApart
<1>3. PromisesDurable'
    <2>1. promised' \subseteq held' /\ EntriesKept' /\ AllWhole'
        BY EntriesAfter
    <2>. QED
        BY <1>0, <2>1 DEF PromisesDurable, EntriesKept, Readable, Holding
<1>4. RecordDurable'
    BY <1>0 DEF RecordDurable, OnlyRecord, Holding
<1>5. PlansKnown'
    <2>1. \A t \in Version : Plans(t)' \subseteq Plans(t)
        BY <1>0 DEF Plans
    <2>. QED
        BY <1>a, <2>1, PlansStand
<1>6. BuildsKnown'
    <2>1. \A t \in Version : Builds(t)' \subseteq Builds(t)
        BY <1>0 DEF Builds
    <2>2. target \in Version /\ pc' \notin BeforeLink
        BY <1>a DEF TypeOK, BeforeLink
    <2>. QED
        BY <1>a, <2>1, <2>2, BuildsStand
<1>7. StagesDurable'
    BY <1>a, NotStaged DEF Staged
<1>. QED
    BY <1>1, <1>2, <1>3, <1>4, <1>5, <1>6, <1>7 DEF FilesDurable

\* Only a failed unlink can leave the record of an earlier merge to come back.
LEMMA OneRecordAfter ==
    ASSUME TypeInv, KeepInv, DiskInv, PowerLoss, "unlink" \notin Faults
    PROVE  \A u, v \in Holding(record)' : u = v
<1>. USE DEF KeepInv, DiskInv
<1>0. \A v \in Version : record'[v] \in disk.record[v]
    BY AfterPowerLoss
<1>. SUFFICES ASSUME NEW u \in Version, NEW v \in Version, record'[u] # None, record'[v] # None
              PROVE  u = v
    BY DEF Holding
<1>1. ASSUME NEW t \in Version, record'[t] # None, record'[t] # record[t]
      PROVE  t = target /\ pc \in Leftover
    BY <1>0, <1>1 DEF StalePlace
<1>2. CASE pc \in Leftover
    <2>1. Holding(record) \subseteq {target}
        BY <1>2 DEF Leftover, Unsettled, RecordPlace
    <2>. QED
        BY <1>1, <2>1 DEF Holding
<1>3. CASE pc \notin Leftover
    BY <1>1, <1>3 DEF RecordPlace, Holding
<1>. QED
    BY <1>2, <1>3

\* A loss of power keeps the invariant, or leaves two records that recovery will
\* not choose between.
LEMMA PowerStep ==
    ASSUME TypeInv, KeepInv, OnceInv, DiskInv, PowerLoss
    PROVE  PowerInv'
<1>0. pc' = "closed" /\ latched' = FALSE /\ failed' = FALSE
    BY DEF PowerLoss, InstanceGone, NoJob
<1>1. CASE \A u, v \in Holding(record)' : u = v
    <2>1. AllWhole' /\ EntriesKept' /\ HeldOnly'
        BY EntriesAfter DEF DiskInv
    <2>2. RecordsTrue' /\ RecordsMatch' /\ SharedIsRecorded'
        BY SourcesAfter
    <2>3. Building' /\ Published' /\ Retiring' /\ CatalogTrue'
        BY <1>0 DEF Building, Published, Retiring, CatalogTrue, Steady, BeforeLink
    <2>4. RecordPlace' /\ LatchPlace'
        BY <1>0, <1>1 DEF RecordPlace, LatchPlace
    <2>5. MergeTraced'
        BY <1>0, OutOfMerge DEF InMerge, BeforeLink
    <2>6. DiskInv'
        BY <1>1, DiskAfter
    <2>. QED
        BY <2>1, <2>2, <2>3, <2>4, <2>5, <2>6 DEF PowerInv, KeepInv, OnceInv, FilesInv
<1>2. CASE \E u, v \in Holding(record)' : u # v
    <2>1. "unlink" \in Faults
        BY <1>2, OneRecordAfter
    <2>2. \A v \in Version : disk'.data[v] = {data'[v]} /\ disk'.record[v] = {record'[v]}
        BY AfterPowerLoss
    <2>3. EntriesKept' /\ promised' \subseteq held'
        BY EntriesAfter DEF DiskInv
    <2>. QED
        BY <1>0, <1>2, <2>1, <2>2, <2>3 DEF PowerInv, Stuck
<1>. QED
    BY <1>1, <1>2

\* Two records: recovery refuses, and nothing changes any more.
LEMMA StuckStep ==
    ASSUME TypeInv, Stuck, [Next]_vars
    PROVE  Stuck'
<1>. USE DEF files, book, job, ghost, Works, Spend
<1>a. pc \in {"closed", "refused"}
    BY DEF Stuck
<1>1. CASE StartRecovery
    <2>1. PICK u \in Records, v \in Records : u # v
        BY DEF Stuck, Records
    <2>2. Records \in SUBSET Version /\ IsFiniteSet(Version)
        BY FS_Interval, CompactionAssumption DEF Records, Holding, Version
    <2>3. IsFiniteSet({u}) /\ Cardinality({u}) = 1 /\ v \notin {u}
        BY <2>1, FS_Singleton
    <2>4. Cardinality({u} \cup {v}) = 2
        BY <2>3, FS_AddElement
    <2>5. Cardinality({u} \cup {v}) <= Cardinality(Records)
        BY <2>1, <2>2, FS_Subset
    <2>6. Cardinality(Records) > 1
        BY <2>2, <2>4, <2>5, SourcesBounded
    <2>7. pc' = "refused"
        BY <1>1, <2>6 DEF StartRecovery, Verdict
    <2>8. UNCHANGED <<data, record, disk, held, promised>>
        BY <1>1 DEF StartRecovery
    <2>. QED
        BY <2>7, <2>8 DEF Stuck, EntriesKept, Readable, Holding
<1>2. CASE PowerLoss
    <2>1. \A v \in Version :
             /\ data'[v] \in disk.data[v] /\ disk'.data[v] = {data'[v]}
             /\ record'[v] \in disk.record[v] /\ disk'.record[v] = {record'[v]}
        BY <1>2, AfterPowerLoss
    <2>2. \A v \in Version : data'[v] = data[v] /\ record'[v] = record[v]
        BY <2>1 DEF Stuck
    <2>3. \A k : k \in Readable => k \in Readable'
        BY <2>2 DEF Readable, Holding
    <2>4. /\ pc' = "closed" /\ promised' = promised
          /\ held' = promised \cup (held \cap Readable')
        BY <1>2 DEF PowerLoss, InstanceGone
    <2>5. EntriesKept'
        <3>. SUFFICES ASSUME NEW k \in held' PROVE k \in Readable'
            BY DEF EntriesKept
        <3>. QED
            BY <2>3, <2>4 DEF Stuck, EntriesKept
    <2>6. \E u, v \in Holding(record)' : u # v
        BY <2>2 DEF Stuck, Holding
    <2>7. promised' \subseteq held'
        BY <2>4
    <2>. QED
        BY <2>1, <2>4, <2>5, <2>6, <2>7 DEF Stuck
<1>3. CASE UNCHANGED vars
    BY <1>3 DEF vars, Stuck, EntriesKept, Readable, Holding
<1>4. ~(\E k \in Key : Insert(k) \/ Delete(k)) /\ ~Sync /\ ~Close /\ ~StartCompaction
    BY <1>a DEF Insert, Delete, Sync, Close, StartCompaction
<1>5. ~MergeStep
    BY <1>a DEF MergeStep, SkipFirst, GroupsDone, BuildTarget, GroupTooLarge, BuildFails,
           SyncBuilding, WriteRecord, NameRecord, MergeCalledOff, RecordBarrier,
           RecordBarrierFails, LinkTarget, UnlinkBuilding, LinkFails, WithdrawRecord,
           ConfirmWithdrawal, DiscardBuilding, MergeLatches, TargetBarrier, CheckMarker,
           RetireSource, RetireBarrier, RemoveRecord, MergeEnds, ReopenActive
<1>6. /\ ~UndoBuilding /\ ~FinishRetire /\ ~FinishBarrier /\ ~RecoveryRemovesRecord
      /\ ~RecoveryRemovesBuilding /\ ~RecoveryBarrier /\ ~FinishOpen /\ ~OpenFails
      /\ ~ProcessCrash
    BY <1>a DEF UndoBuilding, FinishRetire, FinishBarrier, RecoveryRemovesRecord,
           RecoveryRemovesBuilding, RecoveryBarrier, FinishOpen, OpenFails, ProcessCrash
<1>. QED
    BY <1>1, <1>2, <1>3, <1>4, <1>5, <1>6 DEF Next, OpenStep

LEMMA DiskInit == Init => DiskInv
<1>. SUFFICES ASSUME Init PROVE DiskInv
    OBVIOUS
<1>0. /\ \A v \in Version : /\ disk.data[v] = {None} /\ disk.record[v] = {None}
                            /\ disk.temp[v] = {None} /\ disk.building[v] = {None}
                            /\ data[v] = None /\ record[v] = None
      /\ pc = "closed" /\ promised = {} /\ held = {}
    BY DEF Init
<1>1. FilesDurable
    BY <1>0 DEF FilesDurable, DataPossible, SourcesApart, PromisesDurable, StaleHarmless,
                RecordDurable
<1>2. PlansKnown /\ BuildsKnown
    BY <1>0 DEF PlansKnown, Plans, BuildsKnown, Builds, BeforeLink
<1>3. StagesDurable /\ StalePlace
    BY <1>0 DEF StagesDurable, StalePlace
<1>. QED
    BY <1>1, <1>2, <1>3 DEF DiskInv

LEMMA PowerInvStep ==
    ASSUME "crash" \notin Faults, "barrier" \notin Faults
    PROVE  TypeInv /\ PowerInv /\ [Next]_vars => PowerInv'
<1>. SUFFICES ASSUME TypeInv, PowerInv, [Next]_vars PROVE PowerInv'
    OBVIOUS
<1>1. CASE Stuck
    BY <1>1, StuckStep DEF PowerInv
<1>2. CASE KeepInv /\ OnceInv /\ DiskInv
    <2>1. CASE PowerLoss
        BY <1>2, <2>1, PowerStep
    <2>2. CASE ~PowerLoss
        <3>1. KeepInv' /\ OnceInv'
            BY <1>2, <2>2, KeepStep, OnceStep
        <3>2. DiskInv'
            BY <1>2, <2>2, DiskStep
        <3>. QED
            BY <3>1, <3>2 DEF PowerInv
    <2>. QED
        BY <2>1, <2>2
<1>. QED
    BY <1>1, <1>2 DEF PowerInv

\* The inductive invariant under any number of losses of power and of failed calls.
THEOREM PowerInvariant ==
    ASSUME "crash" \notin Faults, "barrier" \notin Faults
    PROVE  Spec => [](TypeInv /\ PowerInv)
<1>1. Init => TypeInv /\ PowerInv
    <2>1. Init => OnceInv
        BY DEF Init, OnceInv, FilesInv, HeldOnly, RecordsMatch, SharedIsRecorded, Holding,
               MergeTraced, BeforeLink
    <2>. QED
        BY <2>1, TypeInit, KeepInit, DiskInit DEF PowerInv
<1>2. TypeInv /\ PowerInv /\ [Next]_vars => TypeInv' /\ PowerInv'
    BY TypeStep, PowerInvStep
<1>. QED
    BY <1>1, <1>2, PTL DEF Spec

\* A loss of power takes no entry that a sync() covered: not while a merge names
\* its record and its target and unlinks its sources, and not during the recovery.
THEOREM EntriesKeptThroughPowerLoss ==
    ASSUME "crash" \notin Faults, "barrier" \notin Faults
    PROVE  Spec => []EntriesKept
<1>1. PowerInv => EntriesKept
    BY DEF PowerInv, KeepInv, Stuck
<1>. QED
    BY <1>1, PowerInvariant, PTL

\* After a loss of power too an instance serves what is in the directory, no entry
\* from two files and none that was deleted.
THEOREM ServedOnceThroughPowerLoss ==
    ASSUME "crash" \notin Faults, "barrier" \notin Faults
    PROVE  Spec => []ServedOnce
<1>1. TypeInv /\ PowerInv => ServedOnce
    <2>1. Stuck => ServedOnce
        BY DEF Stuck, ServedOnce
    <2>. QED
        BY <2>1, ServedFromFiles DEF PowerInv
<1>. QED
    BY <1>1, PowerInvariant, PTL

\* No other step takes a generation out of the directory.
LEMMA GenerationStays ==
    ASSUME TypeInv, [Next]_vars, ~PowerLoss, ~RetireSource, ~FinishRetire,
           NEW v \in Version, data[v] # None
    PROVE  data'[v] # None
<1>. USE DEF TypeInv, TypeOK, files, book, job, ghost
<1>1. ASSUME NEW k \in Key, Insert(k) PROVE data'[v] # None
    <2>. DEFINE full == Cardinality(data[Active].keys) >= RotateAt
                w == IF full THEN issued + 1 ELSE Active
                old == IF full THEN [keys |-> {}, id |-> 0, whole |-> TRUE] ELSE data[w]
                new == [old EXCEPT !.keys = @ \cup {k}]
    <2>1. data' = [data EXCEPT ![w] = new]
        BY <1>1 DEF Insert
    <2>2. v = w => old \in GenFile
        BY ZeroType DEF GenFile
    <2>3. old \in GenFile => new \in GenFile
        <3>. HIDE DEF old
        <3>. QED
            BY DEF GenFile
    <2>. HIDE DEF old, new, w
    <2>. QED
        BY <2>1, <2>2, <2>3, CompactionAssumption
<1>2. ASSUME NEW k \in Key, Delete(k) PROVE data'[v] # None
    <2>1. PICK w \in catalog : data' = [data EXCEPT ![w].keys = @ \ {k}]
        BY <1>2 DEF Delete
    <2>2. data[v] \in GenFile
        OBVIOUS
    <2>3. [data[v] EXCEPT !.keys = @ \ {k}] \in GenFile
        BY <2>2 DEF GenFile
    <2>4. data'[v] \in GenFile
        BY <2>1, <2>2, <2>3
    <2>. QED
        BY <2>4, CompactionAssumption
<1>3. CASE LinkTarget
    BY <1>3 DEF LinkTarget, StageFiles, BeforeLink
<1>4. CASE FinishOpen
    <2>1. data' = data
        BY <1>4 DEF FinishOpen, Holding
    <2>. QED
        BY <2>1
<1>5. CASE Sync \/ Close \/ StartCompaction \/ UNCHANGED vars
    BY <1>5 DEF Sync, Close, StartCompaction, vars
<1>6. CASE MergeStep /\ ~LinkTarget
    BY <1>6 DEF MergeStep, SkipFirst, GroupsDone, BuildTarget, GroupTooLarge, BuildFails,
           SyncBuilding, WriteRecord, NameRecord, MergeCalledOff, RecordBarrier,
           RecordBarrierFails, UnlinkBuilding, LinkFails, WithdrawRecord,
           ConfirmWithdrawal, DiscardBuilding, MergeLatches, TargetBarrier, CheckMarker,
           RetireBarrier, RemoveRecord, MergeEnds, ReopenActive
<1>7. CASE (OpenStep /\ ~FinishOpen) \/ ProcessCrash
    BY <1>7 DEF OpenStep, StartRecovery, UndoBuilding, FinishBarrier, RecoveryRemovesRecord,
           RecoveryRemovesBuilding, RecoveryBarrier, OpenFails, ProcessCrash
<1>. QED
    BY <1>1, <1>2, <1>3, <1>4, <1>5, <1>6, <1>7 DEF Next

\* A generation is unlinked only behind a target that holds its entries under a
\* name that no loss of power takes back.
THEOREM RetiredBehindDurableTargetHolds ==
    ASSUME "crash" \notin Faults, "barrier" \notin Faults
    PROVE  Spec => RetiredBehindDurableTarget
<1>1. TypeInv /\ PowerInv /\ [Next]_vars =>
        [\A v \in Version :
            data[v] # None /\ data'[v] = None /\ faults' = faults =>
                \E u \in Version \ {v} :
                    /\ data[u] # None
                    /\ data[v].keys \subseteq data[u].keys
                    /\ disk.data[u] = {data[u]}]_vars
    <2>. SUFFICES ASSUME TypeInv, PowerInv, [Next]_vars, NEW v \in Version,
                         data[v] # None, data'[v] = None, faults' = faults
                  PROVE  \E u \in Version \ {v} :
                            /\ data[u] # None
                            /\ data[v].keys \subseteq data[u].keys
                            /\ disk.data[u] = {data[u]}
        OBVIOUS
    <2>1. ~PowerLoss
        BY DEF PowerLoss, Spend, TypeInv, TypeOK
    <2>2. RetireSource \/ FinishRetire
        BY <2>1, GenerationStays
    <2>3. KeepInv /\ DiskInv
        BY <2>2 DEF PowerInv, Stuck, RetireSource, FinishRetire
    <2>4. /\ disk.data[target] = {data[target]} /\ data[target] # None
          /\ Min(todo) \in Version \ {target}
          /\ Superseded(Min(todo), target)
          /\ data' = data \/ data' = [data EXCEPT ![Min(todo)] = None]
        BY <2>2, <2>3, SourceGoes
    <2>5. v = Min(todo)
        BY <2>4 DEF TypeInv, TypeOK
    <2>6. target \in Version \ {v}
        BY <2>4, <2>5 DEF TypeInv, TypeOK
    <2>. QED
        BY <2>4, <2>5, <2>6 DEF Superseded
<1>. QED
    BY <1>1, PowerInvariant, PTL DEF Spec, RetiredBehindDurableTarget

\* With no failed unlink either, recovery refuses no directory that a loss of power
\* can leave behind.
THEOREM NeverRefusesThroughPowerLoss ==
    ASSUME "crash" \notin Faults, "barrier" \notin Faults, "unlink" \notin Faults,
           MaxVersion < MaxSources
    PROVE  Spec => []RecoveryNeverRefuses
<1>1. Init => RecoveryNeverRefuses
    BY DEF Init, RecoveryNeverRefuses
<1>2. PowerInv => KeepInv /\ OnceInv
    BY DEF PowerInv, Stuck
<1>3. TypeInv /\ PowerInv /\ RecoveryNeverRefuses /\ [Next]_vars => RecoveryNeverRefuses'
    BY <1>2, RefusalStep
<1>4. Spec => [](TypeInv /\ PowerInv)
    BY PowerInvariant
<1>. QED
    BY <1>1, <1>3, <1>4, PTL DEF Spec
=============================================================================
