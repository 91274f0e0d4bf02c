------------------------------- MODULE Engine -------------------------------
(***************************************************************************)
(* The store as its owner uses it: size classes, each a list of            *)
(* generations of which the newest is active; insert with rotation, find   *)
(* and resolve, apply_deletes, compact_all, close and open, and the two    *)
(* latches.                                                                *)
(*                                                                         *)
(* Operations exclude each other (database.hpp: one mutating operation at  *)
(* a time), so an operation is one action; compact_all is one action per   *)
(* group it merges, because the instance may end between two of them.  A   *)
(* merge is atomic here: module Compaction shows why it may be.  What is   *)
(* on stable storage, and with it sync() and the register of dirty files,  *)
(* is the subject of module Durability.                                    *)
(*                                                                         *)
(* A generation's file is its set of keys; an entry's value is abstracted  *)
(* to its size class.                                                      *)
(***************************************************************************)
EXTENDS Naturals, FiniteSets, FiniteSetsExt, Functions

CONSTANTS
    Key,         \* outpoints
    Class,       \* size classes, numbered in the order a lookup tries them
    Nowhere,     \* an outpoint with no entry
    MaxVersion,  \* bound of the model: the highest version number
    MaxFaults,   \* bound of the model: how many faults happen
    Faults,      \* which kinds of fault may happen
    RotateAt,    \* effective_insert_limit: entries at which a generation is full
    Capacity     \* entries a merge target takes without growing

FaultKinds == {"alloc", "create", "corrupt", "unreadable", "oom", "merge"}

Version == 0..MaxVersion
Gen == Class \X Version

ASSUME EngineAssumption ==
    /\ Class \subseteq Nat /\ IsFiniteSet(Class)
    /\ MaxVersion \in Nat
    /\ MaxFaults \in Nat
    /\ RotateAt \in Nat \ {0}
    /\ Capacity \in Nat
    /\ Faults \subseteq FaultKinds
    /\ Nowhere \notin Class

VARIABLES
    files,      \* the generations there are: the directory and the catalogues
    live,       \* their contents
    active,     \* current_versions_
    open,       \* there is an instance
    latch,      \* why it refuses: "no", "integrity" or "cleanup"
    count,      \* entries_count_
    work,       \* compact_all: classes to do and versions of the first not handled
    asked,      \* find() misses the caller has still to resolve
    answer,     \* what the last operation returned
    created,    \* history: asked keys inserted since they were asked for
    relocated,  \* history: asked keys a merge moved since they were asked for
    faults

store == <<files, live>>
instance == <<active, open, latch, count, work>>
vars == <<files, live, active, open, latch, count, work, asked, answer, created,
          relocated, faults>>
-----------------------------------------------------------------------------
Spend(kind) ==
    /\ kind \in Faults
    /\ faults < MaxFaults
    /\ faults' = faults + 1

Works == faults' = faults

NoAnswer == [op |-> "none"]
Idle == [todo |-> {}, left |-> {}]

Versions(c) == {v \in Version : <<c, v>> \in files}
Newest(c) == Max(Versions(c))     \* version_catalog: highest_issued_ is never retired
ActiveGens == {<<c, active[c]>> : c \in Class}

\* Mutant of Older: the generation just below the active one is skipped.
OlderButLast == {g \in files : g[2] + 1 < active[g[1]]}

Older == {g \in files : g[2] < active[g[1]]}      \* version_catalog::below(current)

Stored == UNION {live[g] : g \in files}

\* Mutant of HasCopy: the probe comes after the preventive rotation.
ProbeAfterRotation(k, g) == g \in files /\ k \in live[g] /\ Cardinality(live[g]) < RotateAt

HasCopy(k, g) == g \in files /\ k \in live[g]

\* The guards every operation of db_base starts with.
Usable == open /\ latch = "no" /\ work = Idle

\* Where an outpoint's entry is.
Where(fs, content) ==
    [k \in Key |-> IF \E g \in fs : k \in content[g]
                     THEN (CHOOSE g \in fs : k \in content[g])[1]
                     ELSE Nowhere]
-----------------------------------------------------------------------------
(* insert *)

Full(c) == Cardinality(live[<<c, active[c]>>]) >= RotateAt

\* new_version, n times over.
Rotate(c, n) ==
    LET made == {<<c, v>> : v \in Newest(c) + 1 .. Newest(c) + n}
    IN /\ made \subseteq Gen
       /\ files' = files \cup made
       /\ active' = [active EXCEPT ![c] = @ + n]

\* can_insert_safely refuses: one preventive rotation.
Needed(c) == IF Full(c) THEN 1 ELSE 0

\* The key is stored, after a preventive rotation if the generation is full and
\* after one more if the allocator refuses the first attempt.
Insert(k, c) ==
    \E refused \in {0, 1} :
        LET g == <<c, active[c] + Needed(c) + refused>>
        IN /\ Usable
           /\ ~HasCopy(k, <<c, active[c]>>)
           /\ IF refused = 1 THEN Spend("alloc") ELSE Works
           /\ Rotate(c, Needed(c) + refused)
           /\ live' = [live EXCEPT ![g] = @ \cup {k}]
           /\ count' = count + 1
           /\ created' = created \cup ({k} \cap asked)
           /\ answer' = [op |-> "insert", inserted |-> TRUE]
           /\ UNCHANGED <<open, latch, work, asked, relocated>>

\* Mutant of InsertDuplicate: a refused entry is counted.
CountDuplicate(k, c) ==
    /\ Usable
    /\ HasCopy(k, <<c, active[c]>>)
    /\ answer' = [op |-> "insert", inserted |-> FALSE]
    /\ count' = count + 1
    /\ Works
    /\ UNCHANGED <<store, active, open, latch, work, asked, created, relocated>>

\* The key is in the active generation: false, and no rotation.
InsertDuplicate(k, c) ==
    /\ Usable
    /\ HasCopy(k, <<c, active[c]>>)
    /\ answer' = [op |-> "insert", inserted |-> FALSE]
    /\ Works
    /\ UNCHANGED <<store, instance, asked, created, relocated>>

\* Two attempts fail on an unchanged map: insufficient_space, and the empty
\* generations stay.
InsertNoSpace(k, c) ==
    /\ Usable
    /\ ~HasCopy(k, <<c, active[c]>>)
    /\ Spend("alloc")
    /\ Rotate(c, Needed(c) + 1)
    /\ answer' = [op |-> "error"]
    /\ UNCHANGED <<live, open, latch, count, work, asked, created, relocated>>

\* The new generation, wanted because the old one is full or because it, or the
\* one that replaced it, refused an allocation, cannot be created: nothing is
\* mapped for this class.
RotationFails(k, c) ==
    /\ Usable
    /\ ~HasCopy(k, <<c, active[c]>>)
    /\ Spend("create")
    /\ \/ Full(c) /\ UNCHANGED <<files, active>>
       \/ "alloc" \in Faults /\ Rotate(c, Needed(c))
    /\ latch' = "integrity"
    /\ answer' = [op |-> "error"]
    /\ UNCHANGED <<live, open, count, work, asked, created, relocated>>

\* The map changed under a failed allocation (map_mutated), at the first attempt
\* or the second: the entry may be there, uncounted, and the instance refuses
\* everything.
InsertCorrupts(k, c) ==
    /\ Usable
    /\ ~HasCopy(k, <<c, active[c]>>)
    /\ Spend("corrupt")
    /\ \E refused \in {0, 1} : Rotate(c, Needed(c) + refused)
    /\ \E there \in SUBSET {k} :
          /\ live' = [live EXCEPT ![<<c, active'[c]>>] = @ \cup there]
          /\ created' = created \cup (there \cap asked)
    /\ latch' = "integrity"
    /\ answer' = [op |-> "error"]
    /\ UNCHANGED <<open, count, work, asked, relocated>>
-----------------------------------------------------------------------------
(* find, resolve *)

Hit(k) == \E g \in ActiveGens : k \in live[g]

\* The active generations answer; the caller keeps what they do not.
Find(k) ==
    /\ Usable
    /\ asked' = IF Hit(k) THEN asked \ {k} ELSE asked \cup {k}
    /\ created' = created \ {k}
    /\ relocated' = relocated \ {k}
    /\ answer' = [op |-> "find", key |-> k, hit |-> Hit(k)]
    /\ Works
    /\ UNCHANGED <<store, instance>>

\* full_resolve: every older generation is read and what is in none is absent.
Resolve(K) ==
    /\ Usable
    /\ K # {}
    /\ answer' = [op |-> "resolve",
                  found |-> {k \in K : \E g \in Older : k \in live[g]},
                  absent |-> {k \in K : \A g \in Older : k \notin live[g]}]
    /\ asked' = asked \ K
    /\ Works
    /\ UNCHANGED <<store, instance, created, relocated>>

\* A generation cannot be opened while keys are still pending: an error, no
\* lists, and the caller keeps its batch.
ResolveFails(K) ==
    /\ Usable
    /\ \E bad \in Older : \E k \in K : \A g \in Older \ {bad} : k \notin live[g]
    /\ Spend("unreadable")
    /\ answer' = [op |-> "error"]
    /\ UNCHANGED <<store, instance, asked, created, relocated>>
-----------------------------------------------------------------------------
(* apply_deletes *)

\* Mutant of Complete: a generation that did not open does not count.
CompleteUnlessTorn(bad, torn) == torn = {}

\* Every generation was walked to its end.
Complete(bad, torn) == bad = {} /\ torn = {}

\* One batch.  bad are the generations that will not open; torn, if any, is the
\* generation whose walk throws after erasing the keys part.
Erase(K, bad, torn, part) ==
    LET whole == ActiveGens \cup ((Older \ bad) \ torn)
        gone == (UNION {live[g] \cap K : g \in whole}) \cup part
        rest == K \ gone
    IN /\ live' = [g \in Gen |->
                     CASE g \in whole -> live[g] \ K
                       [] g \in torn -> live[g] \ part
                       [] OTHER -> live[g]]
       /\ count' = count - Cardinality(gone)
       /\ answer' = [op |-> "delete", batch |-> K, erased |-> gone,
                     absent |-> IF Complete(bad, torn) THEN rest ELSE {},
                     unresolved |-> IF Complete(bad, torn) THEN {} ELSE rest]

ApplyDeletes(K) ==
    /\ Usable
    /\ K # {}
    /\ \/ Works /\ Erase(K, {}, {}, {})
       \/ /\ Spend("unreadable")
          /\ \E bad \in (SUBSET Older) \ {{}} : Erase(K, bad, {}, {})
       \/ /\ Spend("oom")
          /\ \E g \in Older : \E part \in (SUBSET (live[g] \cap K)) \ {{}} :
                Erase(K, {}, {g}, part)
    /\ UNCHANGED <<files, active, open, latch, work, asked, created, relocated>>
-----------------------------------------------------------------------------
(* compact_all *)

\* The first class begins.  (A bound of the model: there are version numbers
\* for the targets.)
CompactAll ==
    /\ Usable
    /\ \A c \in Class : Newest(c) + Cardinality(Versions(c)) \div 2 \in Version
    /\ work' = [todo |-> Class, left |-> Versions(Min(Class))]
    /\ answer' = NoAnswer
    /\ Works
    /\ UNCHANGED <<store, active, open, latch, count, asked, created, relocated>>

Current == Min(work.todo)
Prefixes == {{u \in work.left : u <= v} : v \in work.left}

\* Mutant of KeysOf: the last source of a merge is not copied.
KeysOfAllButLast(c, V) == UNION {live[<<c, v>>] : v \in V \ {Max(V)}}

KeysOf(c, V) == UNION {live[<<c, v>>] : v \in V}
Mergeable(c, V) == Cardinality(V) >= 2 /\ Cardinality(KeysOf(c, V)) <= Capacity

\* merge_versions on the generations V of class c, as one step.
Merged(c, V) ==
    LET t == <<c, Newest(c) + 1>>
        sources == {<<c, v>> : v \in V}
    IN /\ t \in Gen
       /\ files' = (files \cup {t}) \ sources
       /\ live' = [g \in Gen |->
                     CASE g = t -> KeysOf(c, V)
                       [] g \in sources -> {}
                       [] OTHER -> live[g]]
       /\ relocated' = relocated \cup (asked \cap KeysOf(c, V))

\* merge_groups takes the largest group of the first versions left that fits.
MergeGroup ==
    /\ open
    /\ work.todo # {}
    /\ \E V \in Prefixes :
          /\ Mergeable(Current, V)
          /\ \A W \in Prefixes : Mergeable(Current, W) => W \subseteq V
          /\ Merged(Current, V)
          /\ work' = [work EXCEPT !.left = @ \ V]
    /\ Works
    /\ UNCHANGED <<active, open, latch, count, asked, answer, created>>

\* No group starting at the first version left fits.
SkipVersion ==
    /\ open
    /\ work.left # {}
    /\ \A V \in Prefixes : ~Mergeable(Current, V)
    /\ work' = [work EXCEPT !.left = @ \ {Min(@)}]
    /\ Works
    /\ UNCHANGED <<store, active, open, latch, count, asked, answer, created, relocated>>

\* reopen_active_container, and on to the next class.
ClassCompacted ==
    LET rest == work.todo \ {Current}
    IN /\ open
       /\ work.todo # {}
       /\ work.left = {}
       /\ active' = [active EXCEPT ![Current] = Newest(Current)]
       /\ work' = IF rest = {} THEN Idle
                  ELSE [todo |-> rest, left |-> Versions(Min(rest))]
       /\ Works
       /\ UNCHANGED <<store, open, latch, count, asked, answer, created, relocated>>

\* A merge fails, or the active generation does not open again: compaction
\* stops.  It may have latched the instance, with recovery to decide at the next
\* open whether the merge happened.
CompactionFails ==
    /\ open
    /\ work.todo # {}
    /\ Spend("merge")
    /\ \/ /\ latch' \in {"no", "cleanup"}
          /\ UNCHANGED <<store, relocated>>
       \/ /\ latch' = "cleanup"
          /\ \E V \in Prefixes : Mergeable(Current, V) /\ Merged(Current, V)
    /\ active' = [active EXCEPT ![Current] = Max({v \in Version : <<Current, v>> \in files'})]
    /\ work' = Idle
    /\ answer' = [op |-> "error"]
    /\ UNCHANGED <<open, count, asked, created>>
-----------------------------------------------------------------------------
(* The life of an instance *)

\* close(), or the process dies: the mapped pages stay with the system.
InstanceEnds ==
    /\ open
    /\ open' = FALSE
    /\ latch' = "no"
    /\ work' = Idle
    /\ count' = 0
    /\ active' = [c \in Class |-> 0]
    /\ asked' = {}
    /\ created' = {}
    /\ relocated' = {}
    /\ answer' = NoAnswer
    /\ Works
    /\ UNCHANGED store

\* configure_internal: the catalogues are read, a class with no generation gets
\* version 0, and every generation is counted.
Open ==
    /\ ~open
    /\ open' = TRUE
    /\ files' = files \cup {<<c, 0>> : c \in {d \in Class : Versions(d) = {}}}
    /\ active' = [c \in Class |-> IF Versions(c) = {} THEN 0 ELSE Newest(c)]
    /\ count' = SumFunction([g \in files |-> Cardinality(live[g])])
    /\ Works
    /\ UNCHANGED <<live, latch, work, asked, answer, created, relocated>>
-----------------------------------------------------------------------------
Init ==
    /\ files = {}
    /\ live = [g \in Gen |-> {}]
    /\ active = [c \in Class |-> 0]
    /\ open = FALSE
    /\ latch = "no"
    /\ count = 0
    /\ work = Idle
    /\ asked = {}
    /\ answer = NoAnswer
    /\ created = {}
    /\ relocated = {}
    /\ faults = 0

\* The caller's side of the contract (doc/uniqueness.md: nothing in the write
\* path enforces it): an outpoint with an entry is not inserted again, unless
\* the copy is the one insert_in_index looks for.
Fresh(k, c) == \A g \in files \ {<<c, active[c]>>} : k \notin live[g]

Next ==
    \/ \E k \in Key, c \in Class :
          /\ Fresh(k, c)
          /\ \/ Insert(k, c)
             \/ InsertDuplicate(k, c)
             \/ InsertNoSpace(k, c)
             \/ RotationFails(k, c)
             \/ InsertCorrupts(k, c)
    \/ \E k \in Key : Find(k)
    \/ Resolve(asked)
    \/ ResolveFails(asked)
    \/ \E K \in SUBSET Key : ApplyDeletes(K)
    \/ CompactAll
    \/ MergeGroup
    \/ SkipVersion
    \/ ClassCompacted
    \/ CompactionFails
    \/ InstanceEnds
    \/ Open

Spec == Init /\ [][Next]_vars
-----------------------------------------------------------------------------
(* Properties *)

\* Every variable has its type.
TypeOK ==
    /\ files \subseteq Gen
    /\ live \in [Gen -> SUBSET Key]
    /\ active \in [Class -> Version]
    /\ open \in BOOLEAN
    /\ latch \in {"no", "integrity", "cleanup"}
    /\ count \in Nat
    /\ work \in [todo : SUBSET Class, left : SUBSET Version]
    /\ asked \subseteq Key
    /\ created \subseteq Key
    /\ relocated \subseteq Key
    /\ faults \in 0..MaxFaults

\* Rotations, retries, merges, restarts and partial batches never leave two
\* copies of an outpoint.
OneCopy == \A g, h \in files : g # h => live[g] \cap live[h] = {}

\* entries_count_ is the number of entries stored, through failed inserts,
\* partial deletions and compactions, until the integrity latch says otherwise.
CountExact == open /\ latch # "integrity" => count = Cardinality(Stored)

\* apply_deletes puts every key of the batch in exactly one list; erased keys
\* are gone, and a key called absent is stored nowhere, whatever failed.
DeletesClassified ==
    answer.op = "delete" =>
        /\ answer.erased \cup answer.absent \cup answer.unresolved = answer.batch
        /\ answer.erased \cap (answer.absent \cup answer.unresolved) = {}
        /\ answer.absent \cap answer.unresolved = {}
        /\ (answer.erased \cup answer.absent) \cap Stored = {}

\* Between them find() and resolve() reach every entry: a key that resolve()
\* calls absent is stored nowhere, unless the caller inserted it, or a
\* compaction moved it, between its find() and the resolve().
AbsentUnlessMoved ==
    answer.op = "resolve" => answer.absent \cap Stored \subseteq created \cup relocated

\* "absent holds the requests proven not to exist anywhere" (database.hpp): a key
\* that resolve() calls absent is stored nowhere, but for what the caller itself
\* has inserted since it asked.
AbsentIsAbsent ==
    answer.op = "resolve" => answer.absent \cap Stored \subseteq created

\* The store answers as the abstract set does: rotation, compaction, restarts
\* and failed operations change nothing an owner can observe, and what an
\* operation reports is what it did.
Abstract == INSTANCE UtxoSet WITH utxos <- Where(files, live), reply <- answer

ImplementsUtxoSet == Abstract!Spec
=============================================================================
