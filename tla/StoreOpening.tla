---------------------------- MODULE StoreOpening ----------------------------
(***************************************************************************)
(* Opening and closing a store: the claim on the directory, the removal of *)
(* an existing store, the configuration file and the identity it carries,  *)
(* the stamp of every version file, the creation of version files, and the *)
(* metadata record published beside each.                                  *)
(*                                                                         *)
(* Several processes, each running a build of the library, open, use and   *)
(* close one directory; any of them may die between two changes it makes   *)
(* to the disk.  A process that dies loses its memory and its claim; what  *)
(* it has written stays.  A merge that an earlier process did not bring to *)
(* its end may be found, and every open settles it: an inspection too.     *)
(* The contents of the maps, rotation by capacity, the making of a merge   *)
(* and loss of power are the subject of other modules: here an entry is a  *)
(* class and a key, and a rotation may happen at any time.                 *)
(***************************************************************************)
EXTENDS Naturals, FiniteSets, FiniteSetsExt, Functions

CONSTANTS
    Proc,           \* processes
    BuildOf,        \* the build of the library each process runs
    Class,          \* size classes of a full store: 0 .. n - 1
    Key,            \* keys of the entries: naturals, ordered
    Merges,         \* bound: the merges cut short that a store may start with
    Strays,         \* bound: the names files are brought in under by hand
    MaxVersion,     \* bound: version numbers
    MaxOps,         \* bound: inserts, erasures and rotations
    MaxOpens,       \* bound: calls of open()
    MaxFaults       \* bound: processes that die, operations that fail and files
                    \* brought in by hand

\* What distinguishes two builds of the library: the sizes and the byte order of what
\* is stored, the mutex a segment carries, the platform, and the three epochs.
Build == [data : Nat, family : 1 .. 3, tag : Nat \ {0}, geometry : Nat, layout : Nat, hash : Nat]

ASSUME OpeningAssumption ==
    /\ Proc # {} /\ BuildOf \in [Proc -> Build]
    /\ Class \subseteq Nat /\ Class # {} /\ IsFiniteSet(Class)
    /\ Key \subseteq Nat /\ Key # {} /\ IsFiniteSet(Key)
    /\ Merges \subseteq [mode : {"full", "reference"}, published : BOOLEAN]
    /\ {MaxVersion, MaxOps, MaxOpens, MaxFaults} \subseteq Nat

VARIABLES
    dir,        \* the directory is there
    lockName,   \* the inode named .utxoz.lock, 0 for none
    inodes,     \* inodes ever given that name
    config,     \* utxoz_config.dat
    tmp,        \* utxoz_config.dat.tmp is there
    segs,       \* version files by name
    metas,      \* metadata records by name
    merge,      \* what a merge cut short has left beside the version files
    proc,       \* the processes
    minted,     \* identities ever drawn
    outcome,    \* what the call that has just ended returned
    opens, ops, faults,
    stored,     \* history: entries inserted and not erased since the store was made
    wounded,    \* history: a removal began and has not been completed
    torn,       \* history: a creation was cut short and its file stayed
    unclean,    \* history: metadata in memory was lost
    strayed     \* history: a version file was brought in by hand

disk == <<dir, lockName, inodes, config, tmp, segs, metas, merge>>
history == <<stored, wounded, torn, unclean, strayed>>
bounds == <<opens, ops, faults>>
vars == <<dir, lockName, inodes, config, tmp, segs, metas, merge, proc, minted, outcome,
          opens, ops, faults, stored, wounded, torn, unclean, strayed>>

Fault == faults < MaxFaults /\ faults' = faults + 1
Works == UNCHANGED faults
Operation == ops < MaxOps /\ ops' = ops + 1
-----------------------------------------------------------------------------
(* Names, identities and records *)

RefKind == Max(Class) + 1           \* reference_container_kind
Version == 0 .. MaxVersion
Name == (Class \cup {RefKind}) \X Version
Kinds(mode) == IF mode = "reference" THEN {RefKind} ELSE Class

NoConfig == [format |-> 0]
NoStamp == [id |-> 0]
Damaged == [id |-> 0, damaged |-> TRUE]

\* The files of a merge beside its sources and its target: the record, which lists the
\* versions the target supersedes, and a build or a record that was never finished.
NoMerge == [record |-> FALSE, build |-> FALSE, target |-> <<RefKind, 0>>, sources |-> {}]

\* Mutant of PlatformAbi: the sizes of the data alone.
DataAbi(b) == b.data

\* compute_platform_abi_id, read as injective in what it mixes.
PlatformAbi(b) == <<b.data, b.family, b.tag>>

\* What a build writes under and compares: format_identity.hpp.
Epochs(b) == [geometry |-> b.geometry, layout |-> b.layout, hash |-> b.hash,
              abi |-> PlatformAbi(b)]

LocalIdentity(b, id, n) == [epochs |-> Epochs(b), id |-> id, name |-> n]
LocalConfig(b, mode, id) ==
    [format |-> 2, intact |-> TRUE, mode |-> mode, epochs |-> Epochs(b), id |-> id]

\* The refusal for the first of the epochs that differ, in the order compared.
EpochMismatch(theirs, ours) ==
    IF theirs.geometry # ours.geometry THEN "geometry_mismatch"
    ELSE IF theirs.layout # ours.layout THEN "layout_mismatch"
    ELSE IF theirs.hash # ours.hash THEN "hash_mismatch"
    ELSE IF theirs.abi # ours.abi THEN "abi_mismatch"
    ELSE "ok"

\* read_config_file.  The format is read before the rest is held to its checksum.
ReadConfigFile(c) ==
    IF c.format = 1 THEN "migration_required"
    ELSE IF c.format # 2 THEN "format_unsupported"
    ELSE IF ~c.intact THEN "config_file_corrupt"
    ELSE "ok"

DecodeStamp(s) == IF s = Damaged THEN "segment_stamp_corrupt" ELSE "ok"

ValidateStamp(s, expected) ==
    IF s = NoStamp THEN "segment_stamp_missing"
    ELSE IF DecodeStamp(s) # "ok" THEN DecodeStamp(s)
    ELSE IF EpochMismatch(s.epochs, expected.epochs) # "ok" THEN
            EpochMismatch(s.epochs, expected.epochs)
    ELSE IF s.id # expected.id THEN "database_identity_mismatch"
    ELSE IF s.name # expected.name THEN "segment_misplaced"
    ELSE "ok"

\* open_existing_segment: a file cut short in its creation is too small to map.
OpenExistingSegment(f) == IF f.sized THEN "ok" ELSE "file_open_failed"

FindSingleNamed(f) == IF f.map THEN "ok" ELSE "version_unreadable"

\* The three questions asked of every version file, in this order.
OpenVersion(f, expected) ==
    IF OpenExistingSegment(f) # "ok" THEN OpenExistingSegment(f)
    ELSE IF ValidateStamp(f.stamp, expected) # "ok" THEN ValidateStamp(f.stamp, expected)
    ELSE FindSingleNamed(f)
-----------------------------------------------------------------------------
(* Metadata of a version: how many entries, and the least and the largest key. *)

Unknown == [n |-> 0, lo |-> 0, hi |-> 0, known |-> FALSE]
Blank == [n |-> 0, lo |-> 0, hi |-> 0, known |-> TRUE]

\* Mutant of Grown: the largest key is not raised.
GrownLow(m, key) ==
    IF m.n = 0 THEN [n |-> 1, lo |-> key, hi |-> key, known |-> TRUE]
    ELSE [n |-> m.n + 1, lo |-> Min({m.lo, key}), hi |-> m.hi, known |-> TRUE]

\* update_on_insert.  The catalogue makes a blank record for a version that has none.
Grown(m, key) ==
    IF m.n = 0 THEN [n |-> 1, lo |-> key, hi |-> key, known |-> TRUE]
    ELSE [n |-> m.n + 1, lo |-> Min({m.lo, key}), hi |-> Max({m.hi, key}), known |-> TRUE]

\* update_on_delete
Shrunk(m) == IF m.n > 0 THEN [m EXCEPT !.n = @ - 1] ELSE m

\* read_metadata_file: absent, unreadable, foreign and malformed are all unknown.
ReadMetadata(n) == IF n \in DOMAIN metas THEN metas[n] ELSE Unknown

\* load_metadata_from_disk for the versions in S.
LoadMetadata(held, S) == [n \in Name |-> IF n \in S THEN ReadMetadata(n) ELSE held[n]]

\* write_metadata_file: a temporary file, then an atomic replacement.
WriteMetadata(held, S) ==
    [n \in DOMAIN metas \cup S |-> IF n \in S THEN held[n] ELSE metas[n]]

\* save_metadata_to_disk for the versions in S: only what is known is written.
SaveMetadata(held, S) == metas' = WriteMetadata(held, {n \in S : held[n].known})
-----------------------------------------------------------------------------
(* Processes *)

NoBuild == [none |-> TRUE]
Gone ==
    [pc |-> "idle", mode |-> "none", how |-> "none", fd |-> 0, id |-> 0,
     cat |-> {}, held |-> <<>>, mapped |-> {}, todo |-> {}, at |-> <<>>, rotating |-> FALSE,
     count |-> 0]

Inspecting(p) == proc[p].how = "inspect"
Creating(p) == proc[p].pc \in {"size", "stamp", "map"}
Claimed(p) == proc[p].pc \notin {"idle", "claim", "flock"}
Serving(p) == proc[p].pc = "open"
VersionsOf(cat, k) == {n[2] : n \in {m \in cat : m[1] = k}}
ActiveOf(cat, k) == Max(VersionsOf(cat, k) \cup {0})      \* version_catalog::active
Expected(p, n) == LocalIdentity(BuildOf[p], proc[p].id, n)
KeysOn(n) == segs[n].keys
Entries(S) == UNION {{<<n[1], key>> : key \in KeysOn(n)} : n \in S}

\* open() returns an error: the instance is destroyed, and the claim goes with it.
Refuse(p, error) ==
    /\ proc' = [proc EXCEPT ![p] = Gone]
    /\ outcome' = error
Becomes(p, r) == proc' = [proc EXCEPT ![p] = r] /\ outcome' = "none"
Goto(p, pc) == Becomes(p, [proc[p] EXCEPT !.pc = pc])
-----------------------------------------------------------------------------
(* Claiming the directory *)

\* open(path, remove_existing) or open_for_inspection(path): a new instance.
\* An inspection makes no directory.
Begin(p, mode, how) ==
    /\ proc[p].pc = "idle"
    /\ opens < MaxOpens
    /\ opens' = opens + 1
    /\ \/ /\ how # "inspect" \/ dir
          /\ dir' = TRUE
          /\ Becomes(p, [Gone EXCEPT !.pc = "claim", !.mode = mode, !.how = how])
       \/ /\ how = "inspect" /\ ~dir
          /\ Refuse(p, "database_not_found")
          /\ UNCHANGED dir
    /\ UNCHANGED <<lockName, inodes, config, tmp, segs, metas, merge, minted, ops, faults,
                   history>>

\* database_lock::acquire, the open: O_CREAT makes the file if the name is free.
OpenLockFile(p) ==
    /\ proc[p].pc = "claim"
    /\ inodes' = IF lockName = 0 THEN inodes + 1 ELSE inodes
    /\ lockName' = IF lockName = 0 THEN inodes + 1 ELSE lockName
    /\ Becomes(p, [proc[p] EXCEPT !.pc = "flock", !.fd = lockName'])
    /\ UNCHANGED <<dir, config, tmp, segs, metas, merge, minted, bounds, history>>

\* database_lock::acquire, the lock: it conflicts with a descriptor locked on
\* the same inode and does not wait.
TryLock(p) ==
    /\ proc[p].pc = "flock"
    /\ \/ /\ \E q \in Proc \ {p} : Claimed(q) /\ proc[q].fd = proc[p].fd
          /\ Refuse(p, "database_in_use")
       \/ /\ \A q \in Proc \ {p} : Claimed(q) => proc[q].fd # proc[p].fd
          /\ Goto(p, IF proc[p].how = "remove" THEN "clear" ELSE "config")
    /\ UNCHANGED <<disk, minted, bounds, history>>

\* The machine cannot answer: the open or the lock fails for another reason.
LockUnavailable(p) ==
    /\ proc[p].pc \in {"claim", "flock"}
    /\ Refuse(p, "database_lock_unavailable")
    /\ Fault
    /\ UNCHANGED <<disk, minted, opens, ops, history>>
-----------------------------------------------------------------------------
(* remove_existing *)

Bare ==
    config = NoConfig /\ ~tmp /\ segs = <<>> /\ metas = <<>> /\ ~merge.record /\ ~merge.build

\* Mutant of RemoveChild: the whole directory is removed, the lock file with it.
RemoveEveryChild(p) ==
    /\ proc[p].pc = "clear" /\ ~Bare
    /\ lockName' = 0
    /\ config' = NoConfig /\ tmp' = FALSE /\ segs' = <<>> /\ metas' = <<>> /\ merge' = NoMerge
    /\ wounded' = TRUE
    /\ UNCHANGED <<dir, inodes, proc, outcome, minted, bounds, stored, torn, unclean, strayed>>

\* One child of the directory goes, in the order the directory lists them.
RemoveChild(p) ==
    /\ proc[p].pc = "clear"
    /\ \/ /\ config # NoConfig
          /\ config' = NoConfig /\ wounded' = TRUE
          /\ UNCHANGED <<lockName, tmp, segs, metas, merge>>
       \/ /\ tmp
          /\ tmp' = FALSE
          /\ UNCHANGED <<lockName, config, segs, metas, merge, wounded>>
       \/ \E n \in DOMAIN segs :
             /\ segs' = Restrict(segs, DOMAIN segs \ {n}) /\ wounded' = TRUE
             /\ UNCHANGED <<lockName, config, tmp, metas, merge>>
       \/ \E n \in DOMAIN metas :
             /\ metas' = Restrict(metas, DOMAIN metas \ {n}) /\ wounded' = TRUE
             /\ UNCHANGED <<lockName, config, tmp, segs, merge>>
       \/ /\ merge.record
          /\ merge' = [merge EXCEPT !.record = FALSE] /\ wounded' = TRUE
          /\ UNCHANGED <<lockName, config, tmp, segs, metas>>
       \/ /\ merge.build
          /\ merge' = [merge EXCEPT !.build = FALSE]
          /\ UNCHANGED <<lockName, config, tmp, segs, metas, wounded>>
    /\ UNCHANGED <<dir, inodes, proc, outcome, minted, bounds, stored, torn, unclean, strayed>>

\* Everything but the lock file is gone.
Cleared(p) ==
    /\ proc[p].pc = "clear" /\ Bare
    /\ Goto(p, "config")
    /\ stored' = {} /\ wounded' = FALSE /\ torn' = FALSE /\ unclean' = FALSE
    /\ strayed' = FALSE
    /\ UNCHANGED <<disk, minted, bounds>>
-----------------------------------------------------------------------------
(* The configuration *)

\* The first file of the other mode, which a store without a configuration is
\* checked for.  Only version zero is looked at.
OtherModeFile(mode) == IF mode = "reference" THEN <<0, 0>> ELSE <<RefKind, 0>>

ConfigRefusal(p) ==
    IF ReadConfigFile(config) # "ok" THEN ReadConfigFile(config)
    ELSE IF EpochMismatch(config.epochs, Epochs(BuildOf[p])) # "ok" THEN
            EpochMismatch(config.epochs, Epochs(BuildOf[p]))
    ELSE IF config.mode # proc[p].mode THEN "storage_mode_mismatch"
    ELSE "ok"

ReadConfig(p) ==
    /\ proc[p].pc = "config" /\ config # NoConfig
    /\ \/ /\ ConfigRefusal(p) # "ok"
          /\ Refuse(p, ConfigRefusal(p))
       \/ /\ ConfigRefusal(p) = "ok"
          /\ Becomes(p, [proc[p] EXCEPT !.pc = "catalogue", !.id = config.id])
    /\ UNCHANGED <<disk, minted, bounds, history>>

\* Mutant of DrawIdentity: the identity is kept in memory and not written.
DrawAndForget(p) ==
    /\ proc[p].pc = "config" /\ config = NoConfig
    /\ ~Inspecting(p)
    /\ minted' = minted + 1
    /\ Becomes(p, [proc[p] EXCEPT !.pc = "catalogue", !.id = minted + 1])
    /\ UNCHANGED <<disk, bounds, history>>

\* There is no configuration: a new identity is drawn, unless this is an
\* inspection or the directory holds a store of the other mode.
DrawIdentity(p) ==
    /\ proc[p].pc = "config" /\ config = NoConfig
    /\ \/ /\ Inspecting(p)
          /\ Refuse(p, "database_not_found")
          /\ UNCHANGED minted
       \/ /\ proc[p].how = "open" /\ OtherModeFile(proc[p].mode) \in DOMAIN segs
          /\ Refuse(p, "storage_mode_mismatch")
          /\ UNCHANGED minted
       \/ /\ ~Inspecting(p)
          /\ proc[p].how = "open" => OtherModeFile(proc[p].mode) \notin DOMAIN segs
          /\ minted' = minted + 1
          /\ Becomes(p, [proc[p] EXCEPT !.pc = "write", !.id = minted + 1])
    /\ UNCHANGED <<disk, bounds, history>>

\* The system gives no entropy for an identity.
EntropyFails(p) ==
    /\ proc[p].pc = "config" /\ config = NoConfig
    /\ ~Inspecting(p)
    /\ proc[p].how = "open" => OtherModeFile(proc[p].mode) \notin DOMAIN segs
    /\ Refuse(p, "entropy_unavailable")
    /\ Fault
    /\ UNCHANGED <<disk, minted, opens, ops, history>>

\* save_config_to_disk: a temporary file, synced.
WriteConfig(p) ==
    /\ proc[p].pc = "write"
    /\ tmp' = TRUE
    /\ Goto(p, "publish")
    /\ UNCHANGED <<dir, lockName, inodes, config, segs, metas, merge, minted, bounds, history>>

\* replace_file_atomically
PublishConfig(p) ==
    /\ proc[p].pc = "publish"
    /\ config' = LocalConfig(BuildOf[p], proc[p].mode, proc[p].id)
    /\ tmp' = FALSE
    /\ Goto(p, "barrier")
    /\ UNCHANGED <<dir, lockName, inodes, segs, metas, merge, minted, bounds, history>>

ConfigBarrier(p) ==
    /\ proc[p].pc = "barrier"
    /\ Goto(p, "catalogue")
    /\ UNCHANGED <<disk, minted, bounds, history>>

\* A write or a barrier fails.  What has been published stays published.
ConfigFails(p) ==
    /\ proc[p].pc \in {"write", "publish", "barrier"}
    /\ tmp' = (tmp /\ proc[p].pc = "barrier")
    /\ Refuse(p, "config_not_written")
    /\ Fault
    /\ UNCHANGED <<dir, lockName, inodes, config, segs, metas, merge, minted, opens, ops,
                   history>>
-----------------------------------------------------------------------------
(* recover_pending_merges, before the catalogue is read *)

\* There is something of a merge among the classes of this store's mode.
Pending(p) ==
    merge.target[1] \in Kinds(proc[p].mode) /\ (merge.record \/ merge.build)
Recovering(p) == proc[p].pc = "catalogue" /\ Pending(p)

Published == merge.target \in DOMAIN segs

\* read_target_marker: the merge has written its own mark into its target, and a file
\* brought in by hand does not carry it.
MarkerMatches == segs[merge.target].by # NoBuild

\* The sources that are there, or whose metadata is.
Unretired == {n \in merge.sources : n \in DOMAIN segs \/ n \in DOMAIN metas}
NextSource == CHOOSE n \in Unretired : \A m \in Unretired : n[2] <= m[2]

\* The target was never published: the build goes and then the record.
AbandonMerge(p) ==
    /\ Recovering(p) /\ merge.record /\ ~Published
    /\ merge' = IF merge.build THEN [merge EXCEPT !.build = FALSE]
                ELSE [merge EXCEPT !.record = FALSE]
    /\ UNCHANGED <<segs, metas>>

\* Mutant of RetireSource: the target's marker is not looked at.
RetireUnasked(p) ==
    /\ Recovering(p) /\ merge.record /\ Published
    /\ Unretired # {}
    /\ \/ /\ NextSource \in DOMAIN segs
          /\ segs' = Restrict(segs, DOMAIN segs \ {NextSource})
          /\ UNCHANGED metas
       \/ /\ NextSource \notin DOMAIN segs
          /\ metas' = Restrict(metas, DOMAIN metas \ {NextSource})
          /\ UNCHANGED segs
    /\ UNCHANGED merge

\* The target is published: its sources go, each before its metadata.
RetireSource(p) ==
    /\ Recovering(p) /\ merge.record /\ Published /\ MarkerMatches
    /\ Unretired # {}
    /\ \/ /\ NextSource \in DOMAIN segs
          /\ segs' = Restrict(segs, DOMAIN segs \ {NextSource})
          /\ UNCHANGED metas
       \/ /\ NextSource \notin DOMAIN segs
          /\ metas' = Restrict(metas, DOMAIN metas \ {NextSource})
          /\ UNCHANGED segs
    /\ UNCHANGED merge

\* Nothing is left to retire, so the record goes.
FinishMerge(p) ==
    /\ Recovering(p) /\ merge.record /\ Published /\ MarkerMatches
    /\ Unretired = {}
    /\ merge' = [merge EXCEPT !.record = FALSE]
    /\ UNCHANGED <<segs, metas>>

\* A build, or a half-written record, that no record speaks for.
DiscardBuild(p) ==
    /\ Recovering(p) /\ ~merge.record
    /\ merge' = [merge EXCEPT !.build = FALSE]
    /\ UNCHANGED <<segs, metas>>

Recover(p) ==
    /\ AbandonMerge(p) \/ RetireSource(p) \/ FinishMerge(p) \/ DiscardBuild(p)
    /\ UNCHANGED <<dir, lockName, inodes, config, tmp, proc, outcome, minted, bounds, history>>

\* At the target's name is a file that merge did not write.
RecoveryRefuses(p) ==
    /\ Recovering(p) /\ merge.record /\ Published /\ ~MarkerMatches
    /\ Refuse(p, "recovery_failed")
    /\ UNCHANGED <<disk, minted, bounds, history>>

\* The record or the marker cannot be read, a file will not go, a barrier fails.
RecoveryFails(p) ==
    /\ Recovering(p)
    /\ \E error \in {"recovery_failed", "removal_failed", "sync_failed"} : Refuse(p, error)
    /\ Fault
    /\ UNCHANGED <<disk, minted, opens, ops, history>>
-----------------------------------------------------------------------------
(* Catalogue, active versions and count *)

\* enumerate_versions for the classes given, before any of them is opened.
Listing(kinds) == {n \in DOMAIN segs : n[1] \in kinds}

Catalogued(p, kinds) ==
    Becomes(p, [proc[p] EXCEPT !.pc = "serve", !.cat = Listing(kinds), !.todo = kinds,
                         !.held = [n \in Name |-> Unknown]])

EnumerateReference(p) ==
    /\ proc[p].pc = "catalogue" /\ proc[p].mode = "reference" /\ ~Pending(p)
    /\ \/ /\ Inspecting(p) /\ Listing({RefKind}) = {}
          /\ Refuse(p, "database_not_found")
       \/ /\ Inspecting(p) => Listing({RefKind}) # {}
          /\ Catalogued(p, {RefKind})
    /\ UNCHANGED <<disk, minted, bounds, history>>

\* An inspection is refused when every class is empty, and not when one is.
EnumerateFull(p) ==
    /\ proc[p].pc = "catalogue" /\ proc[p].mode = "full" /\ ~Pending(p)
    /\ \/ /\ Inspecting(p) /\ Listing(Class) = {}
          /\ Refuse(p, "database_not_found")
       \/ /\ Inspecting(p) => Listing(Class) # {}
          /\ Catalogued(p, Class)
    /\ UNCHANGED <<disk, minted, bounds, history>>

\* A directory that cannot be read is an error and never an empty directory.
Unreadable(p) ==
    /\ proc[p].pc \in {"clear", "config", "catalogue"}
    /\ Refuse(p, "catalog_unreadable")
    /\ Fault
    /\ UNCHANGED <<disk, minted, opens, ops, history>>

\* The next class to open, in the order of the classes.
Turn(p) == Min(proc[p].todo)

\* The versions of a class that will not open.
Faulty(p, k) ==
    {v \in VersionsOf(proc[p].cat, k) : OpenVersion(segs[<<k, v>>], Expected(p, <<k, v>>)) # "ok"}

\* Mutant of Counted: the active version is the only one counted.
ActiveOnly(own) == {n \in own : \A m \in own : m[2] <= n[2]}

\* The versions of a class whose entries open() counts: all of them.
Counted(own) == own

\* The class has versions: every one of them opens, the active one first, and
\* their entries are counted.
OpenClass(p, k) ==
    LET own == {n \in proc[p].cat : n[1] = k}
        v == Max(Faulty(p, k))
    IN /\ own # {}
       /\ \/ /\ Faulty(p, k) # {}
             /\ Refuse(p, OpenVersion(segs[<<k, v>>], Expected(p, <<k, v>>)))
          \/ /\ Faulty(p, k) = {}
             /\ Becomes(p, [proc[p] EXCEPT
                    !.todo = @ \ {k},
                    !.mapped = @ \cup {k},
                    !.count = @ + SumFunction([n \in Counted(own) |-> Cardinality(KeysOn(n))]),
                    !.held = LoadMetadata(@, own)])
       /\ UNCHANGED <<disk, minted, bounds, history>>

OpenReference(p) ==
    /\ proc[p].pc = "serve" /\ proc[p].mode = "reference"
    /\ RefKind \in proc[p].todo
    /\ OpenClass(p, RefKind)

OpenFull(p) ==
    /\ proc[p].pc = "serve" /\ proc[p].mode = "full"
    /\ proc[p].todo # {}
    /\ OpenClass(p, Turn(p))

\* A version file that is there will not be mapped.
MapFails(p) ==
    /\ proc[p].pc = "serve" /\ proc[p].todo # {}
    /\ VersionsOf(proc[p].cat, Turn(p)) # {}
    /\ Refuse(p, "file_open_failed")
    /\ Fault
    /\ UNCHANGED <<disk, minted, opens, ops, history>>

\* Mutant of PassOver: an inspection gives an empty class its version zero back.
NeverPassOver(p) == FALSE

\* A class without versions stays absent under an inspection.
PassOver(p) == Inspecting(p)

\* The class has no version: version zero is created, or the class passed over.
FreshClass(p) ==
    /\ proc[p].pc = "serve" /\ proc[p].todo # {}
    /\ VersionsOf(proc[p].cat, Turn(p)) = {}
    /\ \/ /\ PassOver(p)
          /\ Becomes(p, [proc[p] EXCEPT !.todo = @ \ {Turn(p)}])
       \/ /\ ~PassOver(p)
          /\ Becomes(p, [proc[p] EXCEPT !.pc = "create", !.at = <<Turn(p), 0>>])
    /\ UNCHANGED <<disk, minted, bounds, history>>

OpenReturns(p) ==
    /\ proc[p].pc = "serve" /\ proc[p].todo = {}
    /\ Goto(p, "open")
    /\ UNCHANGED <<disk, minted, bounds, history>>
-----------------------------------------------------------------------------
(* create_container: a file, a stamp, a map *)

\* A rotation that fails latches the instance: only close() is left.
CreationFails(p, error) ==
    IF proc[p].rotating THEN Becomes(p, [proc[p] EXCEPT !.pc = "latched", !.at = <<>>])
    ELSE Refuse(p, error)

\* create_only: a name already taken is reported, never adopted.
CreateFile(p) ==
    LET n == proc[p].at
    IN /\ proc[p].pc = "create"
       /\ \/ /\ n \in DOMAIN segs
             /\ CreationFails(p, "identity_collision")
             /\ UNCHANGED segs
          \/ /\ n \notin DOMAIN segs
             /\ segs' = [m \in DOMAIN segs \cup {n} |->
                            IF m = n THEN [sized |-> FALSE, stamp |-> NoStamp, map |-> FALSE,
                                           keys |-> {}, by |-> BuildOf[p]]
                            ELSE segs[m]]
             /\ Goto(p, "size")
       /\ UNCHANGED <<dir, lockName, inodes, config, tmp, metas, merge, minted, bounds,
                      history>>

\* The file has its size and an initialised header.
SizeFile(p) ==
    /\ proc[p].pc = "size"
    /\ segs' = [segs EXCEPT ![proc[p].at].sized = TRUE]
    /\ Goto(p, "stamp")
    /\ UNCHANGED <<dir, lockName, inodes, config, tmp, metas, merge, minted, bounds, history>>

PlaceStamp(p) ==
    /\ proc[p].pc = "stamp"
    /\ segs' = [segs EXCEPT ![proc[p].at].stamp = Expected(p, proc[p].at)]
    /\ Goto(p, "map")
    /\ UNCHANGED <<dir, lockName, inodes, config, tmp, metas, merge, minted, bounds, history>>

\* The map is constructed and the version published in memory.  A rotation gives
\* it a blank record; open() reads the record there may be on disk.
ConstructMap(p) ==
    LET n == proc[p].at
    IN /\ proc[p].pc = "map"
       /\ segs' = [segs EXCEPT ![n].map = TRUE]
       /\ Becomes(p, [proc[p] EXCEPT !.pc = IF proc[p].rotating THEN "open" ELSE "serve",
                               !.at = <<>>,
                               !.rotating = FALSE,
                               !.cat = @ \cup {n},
                               !.mapped = @ \cup {n[1]},
                               !.todo = @ \ {n[1]},
                               !.held[n] = IF proc[p].rotating THEN Blank ELSE ReadMetadata(n)])
       /\ UNCHANGED <<dir, lockName, inodes, config, tmp, metas, merge, minted, bounds,
                      history>>

\* The constructor of the mapping fails, whatever the reason: that is answered as a
\* name already taken.  No roll-back is set up yet, so a file that Boost has made stays,
\* too small to be mapped again.
ConstructorFails(p) ==
    /\ proc[p].pc \in {"create", "size"}
    /\ CreationFails(p, "identity_collision")
    /\ Fault
    /\ torn' = (torn \/ proc[p].pc = "size")
    /\ UNCHANGED <<disk, minted, opens, ops, stored, wounded, unclean, strayed>>

\* What open() answers when the stamp or the map will not be placed: no room for it, or
\* an exception, which the stamp catches and the map does not.
CreationErrors(p) ==
    IF proc[p].pc = "stamp" THEN {"identity_collision", "file_open_failed"}
    ELSE {"identity_collision", "exception"}

\* Mutant of RollBack: the half-built file is left behind.
NoRollBack(p) ==
    /\ proc[p].pc \in {"stamp", "map"}
    /\ \E error \in CreationErrors(p) : CreationFails(p, error)
    /\ Fault
    /\ UNCHANGED <<disk, minted, opens, ops, history>>

\* A step after the creation of the file fails: the file is withdrawn, unless
\* that fails too.
RollBack(p) ==
    /\ proc[p].pc \in {"stamp", "map"}
    /\ \E error \in CreationErrors(p) : CreationFails(p, error)
    /\ Fault
    /\ \/ /\ segs' = Restrict(segs, DOMAIN segs \ {proc[p].at})
          /\ UNCHANGED torn
       \/ /\ torn' = TRUE
          /\ UNCHANGED segs
    /\ UNCHANGED <<dir, lockName, inodes, config, tmp, metas, merge, minted, opens, ops, stored,
                   wounded, unclean, strayed>>
-----------------------------------------------------------------------------
(* The session *)

\* insert into the active version of a class.
Insert(p, k, key) ==
    LET n == <<k, ActiveOf(proc[p].cat, k)>>
    IN /\ Serving(p) /\ ~Inspecting(p)
       /\ k \in proc[p].mapped
       /\ <<k, key>> \notin Entries(proc[p].cat)
       /\ Operation
       /\ segs' = [segs EXCEPT ![n].keys = @ \cup {key}]
       /\ Becomes(p, [proc[p] EXCEPT !.held[n] = Grown(@, key), !.count = @ + 1])
       /\ stored' = stored \cup {<<k, key>>}
       /\ UNCHANGED <<dir, lockName, inodes, config, tmp, metas, merge, minted, opens, faults,
                      wounded, torn, unclean, strayed>>

\* apply_deletes finds the key in a version, active or older.
Erase(p, n, key) ==
    /\ Serving(p) /\ ~Inspecting(p)
    /\ n \in proc[p].cat /\ key \in KeysOn(n)
    /\ Operation
    /\ segs' = [segs EXCEPT ![n].keys = @ \ {key}]
    /\ Becomes(p, [proc[p] EXCEPT !.held[n] = Shrunk(@), !.count = @ - 1])
    /\ stored' = stored \ {<<n[1], key>>}
    /\ UNCHANGED <<dir, lockName, inodes, config, tmp, metas, merge, minted, opens, faults,
                   wounded, torn, unclean, strayed>>

\* new_version: the active version is closed, its record saved or not, and the
\* next one created.
Rotate(p, k) ==
    LET old == <<k, ActiveOf(proc[p].cat, k)>>
        next == <<k, old[2] + 1>>
    IN /\ Serving(p) /\ ~Inspecting(p)
       /\ k \in proc[p].mapped /\ next \in Name
       /\ Operation
       /\ \/ SaveMetadata(proc[p].held, {old}) /\ UNCHANGED unclean /\ Works
          \/ unclean' = TRUE /\ UNCHANGED metas /\ Fault
       /\ Becomes(p, [proc[p] EXCEPT !.pc = "create", !.at = next, !.rotating = TRUE,
                               !.mapped = @ \ {k}])
       /\ UNCHANGED <<dir, lockName, inodes, config, tmp, segs, merge, minted, opens, stored,
                      wounded, torn, strayed>>

\* close(): the record of each active version is saved, or some are not; the
\* claim goes with the instance.
ActiveVersions(p) == {<<k, ActiveOf(proc[p].cat, k)>> : k \in proc[p].mapped}

Close(p) ==
    /\ proc[p].pc \in {"open", "latched"}
    /\ \E S \in SUBSET ActiveVersions(p) :
          /\ SaveMetadata(proc[p].held, S)
          /\ IF S = ActiveVersions(p) THEN Works /\ UNCHANGED unclean
             ELSE Fault /\ unclean' = TRUE
    /\ Refuse(p, "closed")
    /\ UNCHANGED <<dir, lockName, inodes, config, tmp, segs, merge, minted, opens, ops, stored,
                   wounded, torn, strayed>>

\* The process dies.  Its descriptor is closed, so its claim is gone.
Crash(p) ==
    /\ proc[p].pc # "idle"
    /\ Fault
    /\ Refuse(p, "crashed")
    /\ torn' = (torn \/ Creating(p))
    /\ unclean' = (unclean \/ proc[p].mapped # {})
    /\ UNCHANGED <<disk, minted, opens, ops, stored, wounded, strayed>>

\* Someone copies a version file into the directory by hand: from another store,
\* under the name of another version, or damaged.  No store is being
\* opened then.
Stray(n, s) ==
    /\ \A p \in Proc : proc[p].pc \in {"idle", "open"}
    /\ dir /\ n \notin DOMAIN segs
    /\ Fault
    /\ ~strayed /\ strayed' = TRUE
    /\ segs' = [m \in DOMAIN segs \cup {n} |->
                    IF m = n THEN [sized |-> TRUE, stamp |-> s, map |-> TRUE, keys |-> {},
                                   by |-> NoBuild]
                    ELSE segs[m]]
    /\ UNCHANGED <<dir, lockName, inodes, config, tmp, metas, merge, proc, outcome, minted,
                   opens, ops, stored, wounded, torn, unclean>>
-----------------------------------------------------------------------------
\* A configuration of format 1, one of a format no build knows, a damaged one.
PriorConfig ==
    {[format |-> 1], [format |-> 3], [format |-> 2, intact |-> FALSE, id |-> 0]}

AnyProc == CHOOSE p \in Proc : TRUE

\* A version file of process p, with the keys it holds.
OwnFile(p, n, keys) ==
    [sized |-> TRUE, stamp |-> LocalIdentity(BuildOf[p], 1, n), map |-> TRUE, keys |-> keys,
     by |-> BuildOf[p]]

\* A store of one entry that process p made in a mode and closed.
ClosedStore(p, mode, key) ==
    LET first == <<Min(Kinds(mode)), 0>>
    IN /\ config = LocalConfig(BuildOf[p], mode, 1)
       /\ segs = [n \in Kinds(mode) \X {0} |-> OwnFile(p, n, IF n = first THEN {key} ELSE {})]
       /\ metas = [n \in {first} |-> Grown(Unknown, key)]
       /\ stored = {<<first[1], key>>}
       /\ merge = NoMerge /\ unclean = FALSE

\* A store that process p made in a mode and left in the middle of a merge of the first
\* two versions of a class into the third: before its target had its name, or after.
\* The metadata of the target was not saved.
MergingStore(p, mode, key, published) ==
    LET k == Min(Kinds(mode))
        held(v) == IF v = 0 THEN {key} ELSE IF v = 1 THEN Key \ {key} ELSE Key
        files == ({k} \X (0 .. IF published THEN 2 ELSE 1)) \cup ((Kinds(mode) \ {k}) \X {0})
    IN /\ MaxVersion >= 2
       /\ config = LocalConfig(BuildOf[p], mode, 1)
       /\ segs = [n \in files |-> OwnFile(p, n, IF n[1] = k THEN held(n[2]) ELSE {})]
       /\ metas = [n \in {<<k, 0>>} |-> Grown(Unknown, key)]
       /\ stored = {k} \X Key
       /\ merge = [record |-> TRUE, build |-> TRUE, target |-> <<k, 2>>,
                   sources |-> {k} \X {0, 1}]
       /\ unclean = TRUE

Init ==
    /\ \/ /\ config \in PriorConfig \cup {NoConfig}
          /\ segs = <<>> /\ metas = <<>> /\ stored = {} /\ merge = NoMerge /\ unclean = FALSE
       \/ \E mode \in {"full", "reference"} : ClosedStore(AnyProc, mode, Min(Key))
       \/ \E m \in Merges : MergingStore(AnyProc, m.mode, Min(Key), m.published)
    /\ dir = (config # NoConfig)
    /\ lockName = (IF segs = <<>> THEN 0 ELSE 1) /\ inodes = lockName /\ tmp = FALSE
    /\ proc = [p \in Proc |-> Gone]
    /\ minted = 1 /\ outcome = "none"
    /\ opens = 0 /\ ops = 0 /\ faults = 0
    /\ wounded = FALSE /\ torn = FALSE /\ strayed = FALSE

\* A file of the store to be copied; one of them is enough.
Copied == CHOOSE n \in DOMAIN segs : segs[n].map

\* Stamps of files that do not belong where they are.
StrayStamp(n) ==
    {Damaged}
        \cup {LocalIdentity(BuildOf[AnyProc], MaxOpens + 2, n)}
        \cup {segs[m].stamp : m \in {k \in DOMAIN segs : segs[k].map /\ k = Copied}}

Opening(p) ==
    \/ \E mode \in {"full", "reference"}, how \in {"open", "remove", "inspect"} :
          Begin(p, mode, how)
    \/ OpenLockFile(p) \/ TryLock(p) \/ LockUnavailable(p)
    \/ RemoveChild(p) \/ Cleared(p)
    \/ ReadConfig(p) \/ DrawIdentity(p) \/ EntropyFails(p)
    \/ WriteConfig(p) \/ PublishConfig(p) \/ ConfigBarrier(p) \/ ConfigFails(p)
    \/ Recover(p) \/ RecoveryRefuses(p) \/ RecoveryFails(p)
    \/ Unreadable(p) \/ EnumerateReference(p) \/ EnumerateFull(p)
    \/ OpenReference(p) \/ OpenFull(p) \/ MapFails(p) \/ FreshClass(p) \/ OpenReturns(p)

Creation(p) ==
    \/ CreateFile(p) \/ SizeFile(p) \/ PlaceStamp(p) \/ ConstructMap(p)
    \/ ConstructorFails(p) \/ RollBack(p)

Session(p) ==
    \/ \E k \in Class \cup {RefKind}, key \in Key : Insert(p, k, key)
    \/ \E n \in DOMAIN segs, key \in Key : Erase(p, n, key)
    \/ \E k \in Class \cup {RefKind} : Rotate(p, k)
    \/ Close(p)

Next ==
    \/ \E p \in Proc : Opening(p) \/ Creation(p) \/ Session(p) \/ Crash(p)
    \/ \E n \in Name \cap Strays : \E s \in StrayStamp(n) : Stray(n, s)

Spec == Init /\ [][Next]_vars
-----------------------------------------------------------------------------
(* Properties *)

\* Every variable keeps its shape; what a process maps it has catalogued, and what
\* it has catalogued is on disk (configure_internal never publishes a version that
\* is not there).
TypeOK ==
    /\ {dir, tmp, wounded, torn, unclean, strayed} \subseteq BOOLEAN
    /\ lockName \in 0 .. inodes /\ inodes \in Nat
    /\ DOMAIN segs \subseteq Name /\ DOMAIN metas \subseteq Name
    /\ {merge.record, merge.build} \subseteq BOOLEAN
    /\ {merge.target} \cup merge.sources \subseteq Name
    /\ minted \in 1 .. MaxOpens + 1
    /\ stored \subseteq (Class \cup {RefKind}) \X Key
    /\ \A p \in Proc :
          /\ Claimed(p) => proc[p].fd \in 1 .. inodes
          /\ proc[p].cat \subseteq DOMAIN segs
          /\ proc[p].mapped \subseteq {n[1] : n \in proc[p].cat}

\* No two processes are past the claim at once, whatever inode each of them holds:
\* remove_existing keeps the lock file so that there is one to contend for.
OneClaimant ==
    \A p, q \in Proc : Claimed(p) /\ Claimed(q) => p = q

\* Unless a removal was cut short or a file brought in by hand, every stamp on disk
\* carries the identity of the configuration, and there is no file without one: the
\* identity is on disk before the first file that carries it.
IdentityKept ==
    ~wounded /\ ~strayed =>
        \A n \in DOMAIN segs :
            /\ config # NoConfig
            /\ segs[n].stamp # NoStamp => segs[n].stamp.id = config.id

\* What a process serves was written by a build of its own layout, for this store,
\* as the version it is served as, and to the end.
ServesOwnFiles ==
    \A p \in Proc : Serving(p) =>
        \A n \in proc[p].cat :
            /\ segs[n].by = BuildOf[p]
            /\ segs[n].map
            /\ segs[n].stamp.id = config.id /\ segs[n].stamp.name = n

\* A process that serves the store serves everything stored in it since it was
\* made, and size() says how much that is, across crashes, rotations and refusals;
\* unless a removal was cut short.
ServesEverything ==
    \A p \in Proc : Serving(p) /\ ~wounded =>
        /\ Entries(proc[p].cat) = stored
        /\ proc[p].count = Cardinality(stored)

\* A metadata record in memory covers the version it describes, as long as no
\* instance ended without saving its records.
MetadataCovers ==
    \A p \in Proc : Serving(p) /\ ~wounded /\ ~unclean =>
        \A n \in proc[p].cat : proc[p].held[n].known =>
            /\ proc[p].held[n].n >= Cardinality(KeysOn(n))
            /\ \A key \in KeysOn(n) : key \in proc[p].held[n].lo .. proc[p].held[n].hi

\* What a merge has superseded: its target is there with its mark, and holds all the
\* version holds.
Superseded(n) ==
    /\ merge.record /\ n \in merge.sources
    /\ Published /\ MarkerMatches
    /\ n \in DOMAIN segs => KeysOn(n) \subseteq KeysOn(merge.target)

\* An inspection may settle a merge it finds and does nothing else to the directory
\* (open_for_inspection): it makes no file and changes none, and a version or a record
\* of one that goes was superseded by a file that is there and stays.
InspectionOnlySettles ==
    [][\A p \in Proc : Claimed(p) /\ Inspecting(p) /\ strayed' = strayed =>
          /\ UNCHANGED <<config, tmp>>
          /\ DOMAIN segs' \subseteq DOMAIN segs /\ DOMAIN metas' \subseteq DOMAIN metas
          /\ \A n \in DOMAIN segs' : segs'[n] = segs[n]
          /\ \A n \in (DOMAIN segs \ DOMAIN segs') \cup (DOMAIN metas \ DOMAIN metas') :
                Superseded(n) /\ merge.target \in DOMAIN segs'
          /\ merge'.record => merge.record
          /\ merge'.build => merge.build]_vars

\* A refusal that finds fault with the files of the store has its cause in a creation
\* or a removal cut short, in a file brought in by hand or in a call that fails in this
\* very step, never in what the library wrote by itself: identity_collision is no
\* exception, although the code answers it for any failure to make a file.
Explained(error) ==
    LET failing == faults' = faults + 1
    IN CASE error \in {"segment_stamp_missing", "version_unreadable"} -> torn
         [] error = "file_open_failed" -> torn \/ failing
         [] error = "database_identity_mismatch" -> wounded \/ strayed
         [] error \in {"segment_misplaced", "segment_stamp_corrupt"} -> strayed
         [] error \in {"identity_collision", "recovery_failed"} -> strayed \/ failing
         [] error = "storage_mode_mismatch" -> config # NoConfig \/ wounded \/ strayed
         [] OTHER -> TRUE

RefusalsExplained ==
    [][\A p \in Proc : proc[p].pc # "idle" /\ proc'[p].pc = "idle" => Explained(outcome')]_vars
=============================================================================
