-------------------------- MODULE DurabilityProofs --------------------------
(***************************************************************************)
(* What sync() promises, proved of Durability for every set of outpoints,  *)
(* every bound and every choice of faults; and its refinement of           *)
(* DurableUtxoSet.  Two hypotheses are stated where they are needed.       *)
(***************************************************************************)
EXTENDS Durability, SetLemmas, TLAPS

\* No exception comes between the erase of a key and the note of its generation:
\* there a write is owed that the register does not name.
NoTornWalk == "oom" \notin Faults
-----------------------------------------------------------------------------
(* The inductive invariants *)

\* Types, but for what history variables say of each other.
Shape ==
    /\ files \subseteq Version
    /\ live \in [Version -> SUBSET Key]
    /\ risk \in [Version -> SUBSET Key]
    /\ named \subseteq files
    /\ active \in Version
    /\ open \in BOOLEAN
    /\ compacting \in BOOLEAN
    /\ synced \in BOOLEAN
    /\ checkpoint \subseteq Key
    /\ touched \subseteq Key
    /\ uncovered \subseteq Key
    /\ faults \in 0..MaxFaults

\* A version number that names no file has neither contents nor writes.
NoStrays == \A v \in Version : v \notin files => live[v] = {} /\ risk[v] = {}

\* What an instance has in hand: nothing when there is none, the newest generation
\* when it is in use, and no mapping while compact_all runs.
HandInv ==
    /\ ~open => dirty = {} /\ cache = {} /\ ~compacting
    /\ ~compacting => left = {}
    /\ compacting => cache = {} /\ left \subseteq files /\ files # {}
    /\ open /\ ~compacting => active \in files /\ \A v \in files : v <= active
    /\ synced => open /\ ~compacting

ShapeInv == Shape /\ NoStrays /\ HandInv /\ NothingStale

\* A write at risk is one the checkpoint does not speak of, and the next sync
\* reaches it or is excused from it.
RiskInv ==
    /\ uncovered \subseteq touched
    /\ \A v \in files : risk[v] \subseteq touched
    /\ ~open => \A v \in files : risk[v] \subseteq uncovered
    /\ RiskIsOwed
    /\ SyncReachesOwn

\* What the store held at the checkpoint it still holds, but for what was touched
\* since; and a file whose name may be lost holds nothing else.
CheckpointInv ==
    /\ Stored \ touched = checkpoint \ touched
    /\ \A v \in files \ named : live[v] \subseteq touched

\* No generation holds, or may hold again after a loss of power, an outpoint of
\* another one.
Apart ==
    \A v, w \in files : v # w => (live[v] \cup risk[v]) \cap (live[w] \cup risk[w]) = {}
-----------------------------------------------------------------------------
(* What the larger steps do *)

\* The newest generation is there, and no version above it.
LEMMA NewestFile ==
    ASSUME NEW S \in SUBSET Version, S # {}
    PROVE  Max(S) \in S /\ Max(S) \in Version /\ \A v \in S : v <= Max(S)
    BY MaxOf, DurabilityAssumption DEF Version

\* A fault is counted up to its bound.
LEMMA FaultCounted ==
    ASSUME Shape, NEW kind, Spend(kind) \/ Works
    PROVE  faults' \in 0 .. MaxFaults
    BY DurabilityAssumption DEF Shape, Spend, Works

\* apply_deletes takes keys from files that hold them, and notes every older one
\* it took a key from, unless a walk is torn.
LEMMA DeletedFacts ==
    ASSUME ShapeInv, NEW K \in SUBSET Key, NEW torn \in SUBSET Version, Delete(K, torn)
    PROVE  \E gone \in [Version -> SUBSET Key] :
              /\ \A v \in Version : gone[v] \subseteq live[v]
              /\ live' = [v \in Version |-> live[v] \ gone[v]]
              /\ risk' = [v \in Version |-> risk[v] \cup gone[v]]
              /\ touched' = touched \cup UNION {gone[v] : v \in Version}
              /\ dirty \subseteq dirty' /\ dirty' \subseteq dirty \cup Older
              /\ cache' \subseteq cache \cup Older
              /\ NoTornWalk => \A v \in Version : gone[v] # {} => v = active \/ v \in dirty'
<1>1. PICK W \in SUBSET Older :
         /\ \/ torn = {}
            \/ Spend("oom")
         /\ live' = [v \in Version |-> live[v] \ Erased(K, W \cup {active})[v]]
         /\ risk' = [v \in Version |-> risk[v] \cup Erased(K, W \cup {active})[v]]
         /\ dirty' = dirty \cup {v \in W \ torn : Erased(K, W \cup {active})[v] # {}}
         /\ cache' \in CacheAfter(Older)
         /\ touched' = touched \cup UNION {Erased(K, W \cup {active})[v] : v \in Version}
    BY DEF Delete
<1>. DEFINE gone == Erased(K, W \cup {active})
<1>2. /\ gone \in [Version -> SUBSET Key]
      /\ \A v \in Version : gone[v] \subseteq live[v]
      /\ \A v \in Version : gone[v] # {} => v \in W \cup {active}
    BY DEF Erased
<1>3. NoTornWalk => torn = {}
    BY <1>1 DEF NoTornWalk, Spend
<1>4. cache' \subseteq cache \cup Older
    BY <1>1 DEF CacheAfter
<1>. HIDE DEF gone
<1>5. NoTornWalk => \A v \in Version : gone[v] # {} => v = active \/ v \in dirty'
    BY <1>1, <1>2, <1>3 DEF gone
<1>. QED
    BY <1>1, <1>2, <1>4, <1>5 DEF gone

\* A merge moves the contents of its sources to a version not used before, on
\* stable storage.
LEMMA MergedFacts ==
    ASSUME ShapeInv, compacting, NEW V \in Prefixes, Merged(V)
    PROVE  LET t == Max(files) + 1
           IN /\ t \in Version /\ t \notin files
              /\ V \subseteq left /\ V \subseteq files /\ V \subseteq Version
              /\ files' = (files \cup {t}) \ V /\ named' = files'
              /\ live' \in [Version -> SUBSET Key]
              /\ risk' \in [Version -> SUBSET Key]
              /\ live'[t] = KeysOf(V) /\ risk'[t] = {}
              /\ \A v \in V : live'[v] = {} /\ risk'[v] = {}
              /\ \A v \in Version : v # t /\ v \notin V => live'[v] = live[v] /\ risk'[v] = risk[v]
              /\ \A k : k \in KeysOf(V) <=> \E v \in V : k \in live[v]
<1>. DEFINE t == Max(files) + 1
<1>1. V \subseteq left /\ V \subseteq files /\ V \subseteq Version
    BY DEF Prefixes, ShapeInv, HandInv, Shape
<1>2. /\ t \in Version
      /\ files' = (files \cup {t}) \ V /\ named' = files'
      /\ live' = [v \in Version |->
                    IF v = t THEN KeysOf(V) ELSE IF v \in V THEN {} ELSE live[v]]
      /\ risk' = [v \in Version |-> IF v \in V \cup {t} THEN {} ELSE risk[v]]
    BY DEF Merged
<1>3. t \notin files
    <2>1. Max(files) \in Version /\ \A v \in files : v <= Max(files)
        BY NewestFile DEF ShapeInv, Shape, HandInv
    <2>. QED
        BY <2>1, DurabilityAssumption DEF Version
<1>4. \A k : k \in KeysOf(V) <=> \E v \in V : k \in live[v]
    BY DEF KeysOf
<1>5. KeysOf(V) \in SUBSET Key
    BY <1>1, <1>4 DEF ShapeInv, Shape
<1>. HIDE DEF t
<1>6. live' \in [Version -> SUBSET Key] /\ risk' \in [Version -> SUBSET Key]
    BY <1>2, <1>5 DEF ShapeInv, Shape
<1>7. /\ live'[t] = KeysOf(V) /\ risk'[t] = {}
      /\ \A v \in V : live'[v] = {} /\ risk'[v] = {}
      /\ \A v \in Version : v # t /\ v \notin V => live'[v] = live[v] /\ risk'[v] = risk[v]
    BY <1>1, <1>2, <1>3
<1>. QED
    BY <1>1, <1>2, <1>3, <1>4, <1>6, <1>7 DEF t

\* A loss of power keeps every named file, with what its barriers put on the disk
\* and some part of what was at risk.
LEMMA PowerFacts ==
    ASSUME ShapeInv, PowerLoss
    PROVE  /\ named \subseteq files' /\ files' \subseteq files /\ named' = files'
           /\ live' \in [Version -> SUBSET Key]
           /\ risk' = [v \in Version |-> {}]
           /\ \A v \in Version : v \notin files' => live'[v] = {}
           /\ \A v \in files' : /\ live[v] \ risk[v] \subseteq live'[v]
                                /\ live'[v] \subseteq live[v] \cup risk[v]
<1>1. /\ named \subseteq files' /\ files' \subseteq files /\ named' = files'
      /\ risk' = [v \in Version |-> {}]
    BY DEF PowerLoss, ShapeInv, Shape
<1>2. PICK landed \in [files -> SUBSET Key] :
         /\ \A v \in files : landed[v] \subseteq risk[v]
         /\ live' = [v \in Version |->
                       IF v \in files' THEN (live[v] \ risk[v]) \cup landed[v] ELSE {}]
    BY DEF PowerLoss
<1>3. files' \subseteq Version
    BY <1>1 DEF ShapeInv, Shape
<1>4. live' \in [Version -> SUBSET Key]
    BY <1>1, <1>2 DEF ShapeInv, Shape
<1>5. ASSUME NEW v \in files' PROVE /\ live[v] \ risk[v] \subseteq live'[v]
                                    /\ live'[v] \subseteq live[v] \cup risk[v]
    <2>1. live'[v] = (live[v] \ risk[v]) \cup landed[v] /\ landed[v] \subseteq risk[v]
        BY <1>1, <1>2, <1>3
    <2>. QED
        BY <2>1
<1>. QED
    BY <1>1, <1>2, <1>4, <1>5
-----------------------------------------------------------------------------
(* Shapes, and NothingStale *)

\* The invariant of shapes holds of an empty directory.
LEMMA InitShape == Init => ShapeInv
<1>1. 0 \in Version /\ 0 \in 0 .. MaxFaults
    BY DurabilityAssumption DEF Version
<1>. QED
    BY <1>1 DEF Init, ShapeInv, Shape, NoStrays, HandInv, NothingStale

\* Every step keeps it.
LEMMA StepShape == ShapeInv /\ [Next]_vars => ShapeInv'
<1>. SUFFICES ASSUME ShapeInv, [Next]_vars PROVE ShapeInv'
    OBVIOUS
<1>0. 0 \in Version /\ \A v \in Version : v \in Nat
    BY DurabilityAssumption DEF Version
<1>1. CASE UNCHANGED vars
    BY <1>1 DEF vars, ShapeInv, Shape, NoStrays, HandInv, NothingStale
<1>2. ASSUME NEW k \in Key, Insert(k) PROVE ShapeInv'
    <2>. DEFINE full == Cardinality(live[active]) >= RotateAt
                v == IF full THEN active + 1 ELSE active
    <2>1. /\ Usable /\ v \in Version
          /\ files' = files \cup {v}
          /\ active' = v
          /\ dirty' = IF full THEN dirty \cup {active} ELSE dirty
          /\ live' = [live EXCEPT ![v] = @ \cup {k}]
          /\ risk' = [risk EXCEPT ![v] = @ \cup {k}]
          /\ touched' = touched \cup {k}
          /\ synced' = FALSE
          /\ faults' = faults
          /\ UNCHANGED <<named, open, cache, compacting, left, checkpoint, uncovered>>
        BY <1>2 DEF Insert, Works
    <2>2. active \in files /\ active \in Nat /\ \A w \in files : w \in Nat /\ w <= active
        BY <1>0, <2>1 DEF ShapeInv, HandInv, Shape, Usable
    <2>3. v \notin cache /\ \A w \in files' : w <= v
        BY <2>1, <2>2 DEF ShapeInv, NothingStale
    <2>. HIDE DEF v
    <2>4. Shape' /\ NoStrays'
        BY <2>1 DEF ShapeInv, Shape, NoStrays
    <2>5. HandInv' /\ NothingStale'
        BY <2>1, <2>2, <2>3 DEF ShapeInv, HandInv, NothingStale, Usable
    <2>. QED
        BY <2>4, <2>5 DEF ShapeInv
<1>3. ASSUME Usable, NEW c, c \subseteq cache \cup Older, cache' = c,
             NEW d, d \subseteq dirty \cup Older, dirty' = d,
             Shape', NoStrays', synced' = FALSE,
             UNCHANGED <<files, active, open, compacting, left>>
      PROVE  ShapeInv'
    <2>1. Older \subseteq files /\ active \notin Older
        BY <1>0 DEF Older, ShapeInv, Shape
    <2>2. HandInv'
        BY <1>3 DEF ShapeInv, HandInv, Usable
    <2>3. NothingStale'
        BY <1>3, <2>1 DEF ShapeInv, NothingStale
    <2>. QED
        BY <1>3, <2>2, <2>3 DEF ShapeInv
<1>4. CASE Resolve
    <2>1. /\ Usable /\ cache' \subseteq cache \cup Older /\ synced' = FALSE
          /\ faults' = faults
          /\ UNCHANGED <<files, live, risk, named, active, open, dirty, compacting, left,
                         checkpoint, touched, uncovered>>
        BY <1>4 DEF Resolve, CacheAfter, Works, disk, history
    <2>2. Shape' /\ NoStrays'
        BY <2>1 DEF ShapeInv, Shape, NoStrays
    <2>. QED
        BY <1>3, <2>1, <2>2
<1>5. ASSUME NEW K \in SUBSET Key, NEW torn \in SUBSET Version, Delete(K, torn)
      PROVE  ShapeInv'
    <2>1. PICK gone \in [Version -> SUBSET Key] :
             /\ \A v \in Version : gone[v] \subseteq live[v]
             /\ live' = [v \in Version |-> live[v] \ gone[v]]
             /\ risk' = [v \in Version |-> risk[v] \cup gone[v]]
             /\ touched' = touched \cup UNION {gone[v] : v \in Version}
             /\ dirty' \subseteq dirty \cup Older
             /\ cache' \subseteq cache \cup Older
        BY <1>5, DeletedFacts
    <2>2. /\ Usable /\ synced' = FALSE
          /\ \E kind : Spend(kind) \/ Works
          /\ UNCHANGED <<files, named, active, open, compacting, left, checkpoint, uncovered>>
        BY <1>5 DEF Delete
    <2>3. faults' \in 0 .. MaxFaults
        BY <2>2, FaultCounted DEF ShapeInv
    <2>4. touched' \subseteq Key
        BY <2>1 DEF ShapeInv, Shape
    <2>5. live' \in [Version -> SUBSET Key] /\ risk' \in [Version -> SUBSET Key]
        BY <2>1 DEF ShapeInv, Shape
    <2>6. Shape'
        BY <2>2, <2>3, <2>4, <2>5 DEF ShapeInv, Shape
    <2>7. NoStrays'
        BY <2>1, <2>2 DEF ShapeInv, NoStrays
    <2>. QED
        BY <1>3, <2>1, <2>2, <2>6, <2>7
<1>6. CASE StartCompaction
    BY <1>6 DEF StartCompaction, Usable, Works, disk, history, ShapeInv, Shape, NoStrays,
                HandInv, NothingStale
<1>7. CASE MergeGroup
    <2>1. PICK V \in Prefixes : Merged(V) /\ left' = left \ V
        BY <1>7 DEF MergeGroup
    <2>2. /\ compacting /\ faults' = faults
          /\ UNCHANGED <<active, open, cache, compacting, synced, checkpoint, touched, uncovered>>
        BY <1>7 DEF MergeGroup, Works, history
    <2>. DEFINE t == Max(files) + 1
    <2>3. /\ t \in Version /\ t \notin files
          /\ V \subseteq left /\ V \subseteq files /\ V \subseteq Version
          /\ files' = (files \cup {t}) \ V /\ named' = files'
          /\ live' \in [Version -> SUBSET Key]
          /\ risk' \in [Version -> SUBSET Key]
          /\ \A v \in V : live'[v] = {} /\ risk'[v] = {}
          /\ \A v \in Version : v # t /\ v \notin V => live'[v] = live[v] /\ risk'[v] = risk[v]
        BY <2>1, <2>2, MergedFacts
    <2>4. dirty' = dirty \ V
        BY <2>1 DEF Merged
    <2>. HIDE DEF t
    <2>5. Shape'
        BY <2>2, <2>3 DEF ShapeInv, Shape
    <2>6. NoStrays'
        BY <2>3 DEF ShapeInv, NoStrays
    <2>7. HandInv' /\ NothingStale'
        BY <2>1, <2>2, <2>3, <2>4 DEF ShapeInv, HandInv, NothingStale
    <2>. QED
        BY <2>5, <2>6, <2>7 DEF ShapeInv
<1>8. CASE SkipVersion
    BY <1>8 DEF SkipVersion, Works, disk, history, ShapeInv, Shape, NoStrays, HandInv,
                NothingStale
<1>9. CASE CompactionEnds
    <2>1. /\ compacting /\ active' = Max(files) /\ compacting' = FALSE /\ left' = {}
          /\ uncovered' \in {uncovered, uncovered \cup risk[active]}
          /\ \E kind : Spend(kind) \/ Works
          /\ UNCHANGED <<files, live, risk, named, open, dirty, cache, synced, checkpoint, touched>>
        BY <1>9 DEF CompactionEnds, disk
    <2>2. faults' \in 0 .. MaxFaults
        BY <2>1, FaultCounted DEF ShapeInv
    <2>3. Max(files) \in files /\ Max(files) \in Version /\ \A v \in files : v <= Max(files)
        BY <2>1, NewestFile DEF ShapeInv, Shape, HandInv
    <2>4. Shape'
        BY <2>1, <2>2, <2>3 DEF ShapeInv, Shape
    <2>. QED
        BY <2>1, <2>3, <2>4 DEF ShapeInv, NoStrays, HandInv, NothingStale
<1>10. CASE Sync
    <2>1. /\ Usable
          /\ risk' = [v \in Version |-> IF v \in Covered THEN {} ELSE risk[v]]
          /\ named' = files
          /\ dirty' = {}
          /\ checkpoint' = Stored
          /\ touched' = uncovered \cap UNION {risk'[v] : v \in files}
          /\ uncovered' = touched'
          /\ synced' = TRUE
          /\ faults' = faults
          /\ UNCHANGED <<files, live, active, open, cache, compacting, left>>
        BY <1>10 DEF Sync, Works
    <2>2. Stored \subseteq Key /\ touched' \subseteq Key
        BY <2>1 DEF Stored, ShapeInv, Shape
    <2>3. Shape'
        BY <2>1, <2>2 DEF ShapeInv, Shape
    <2>. QED
        BY <2>1, <2>3 DEF ShapeInv, NoStrays, HandInv, NothingStale, Usable
<1>11. CASE SyncFails
    <2>1. PICK S \in SUBSET Covered :
             risk' = [v \in Version |-> IF v \in S THEN {} ELSE risk[v]]
        BY <1>11 DEF SyncFails
    <2>2. /\ Usable /\ Spend("sync") /\ synced' = FALSE
          /\ UNCHANGED <<files, live, named, active, open, dirty, cache, compacting, left,
                         checkpoint, touched, uncovered>>
        BY <1>11 DEF SyncFails, history
    <2>3. faults' \in 0 .. MaxFaults
        BY <2>2, FaultCounted DEF ShapeInv
    <2>4. Shape'
        BY <2>1, <2>2, <2>3 DEF ShapeInv, Shape
    <2>5. NoStrays'
        BY <2>1, <2>2 DEF ShapeInv, NoStrays
    <2>. QED
        BY <2>2, <2>4, <2>5 DEF ShapeInv, HandInv, NothingStale, Usable
<1>12. CASE InstanceEnds
    <2>1. faults' \in 0 .. MaxFaults
        BY <1>12, FaultCounted DEF InstanceEnds, ShapeInv
    <2>. QED
        BY <1>0, <1>12, <2>1 DEF InstanceEnds, Gone, disk, ShapeInv, Shape, NoStrays, HandInv,
                                 NothingStale
<1>13. CASE PowerLoss
    <2>1. faults' \in 0 .. MaxFaults
        BY <1>13, FaultCounted DEF PowerLoss, ShapeInv
    <2>2. Gone /\ uncovered' = {}
        BY <1>13 DEF PowerLoss
    <2>3. /\ files' \subseteq files /\ named' = files'
          /\ live' \in [Version -> SUBSET Key]
          /\ risk' = [v \in Version |-> {}]
          /\ \A v \in Version : v \notin files' => live'[v] = {}
        BY <1>13, PowerFacts
    <2>4. Shape'
        BY <1>0, <2>1, <2>2, <2>3 DEF ShapeInv, Shape, Gone
    <2>5. NoStrays'
        BY <2>3 DEF NoStrays
    <2>. QED
        BY <2>2, <2>4, <2>5 DEF ShapeInv, HandInv, NothingStale, Gone
<1>14. CASE Open
    <2>1. /\ ~open /\ open' = TRUE /\ active' = Max(files') /\ faults' = faults
          /\ files' = IF files = {} THEN {0} ELSE files
          /\ UNCHANGED <<live, risk, named, dirty, cache, compacting, left, synced, checkpoint,
                         touched, uncovered>>
        BY <1>14 DEF Open, Works, history
    <2>2. files \subseteq files' /\ files' \subseteq Version /\ files' # {}
        BY <1>0, <2>1 DEF ShapeInv, Shape
    <2>3. Max(files') \in files' /\ Max(files') \in Version /\ \A v \in files' : v <= Max(files')
        BY <2>2, NewestFile
    <2>4. Shape' /\ NoStrays'
        BY <2>1, <2>2, <2>3 DEF ShapeInv, Shape, NoStrays
    <2>. QED
        BY <2>1, <2>2, <2>3, <2>4 DEF ShapeInv, HandInv, NothingStale
<1>. QED
    BY <1>1, <1>2, <1>4, <1>5, <1>6, <1>7, <1>8, <1>9, <1>10, <1>11, <1>12, <1>13, <1>14 DEF Next

\* The invariant of shapes holds in every state.
THEOREM ShapeInvariant == Spec => []ShapeInv
    BY InitShape, StepShape, PTL DEF Spec

\* NothingStale: what the cache has mapped and what the register names exists,
\* and the active generation is not in the cache, whatever fails.
THEOREM NothingStaleHolds == Spec => []NothingStale
<1>1. ShapeInv => NothingStale
    BY DEF ShapeInv
<1>. QED
    BY <1>1, ShapeInvariant, PTL
-----------------------------------------------------------------------------
(* Writes at risk: RiskIsOwed and SyncReachesOwn *)

\* Every step keeps every write at risk within reach of a sync, or excused.
LEMMA StepRisk ==
    ASSUME NoTornWalk, ShapeInv, ShapeInv', RiskInv, [Next]_vars
    PROVE  RiskInv'
<1>1. CASE UNCHANGED vars
    BY <1>1 DEF vars, RiskInv, RiskIsOwed, SyncReachesOwn
<1>2. ASSUME NEW k \in Key, Insert(k) PROVE RiskInv'
    <2>. DEFINE full == Cardinality(live[active]) >= RotateAt
                v == IF full THEN active + 1 ELSE active
    <2>1. /\ Usable /\ v \in Version
          /\ files' = files \cup {v}
          /\ active' = v
          /\ v # active => dirty' = dirty \cup {active}
          /\ dirty \subseteq dirty'
          /\ risk' = [risk EXCEPT ![v] = @ \cup {k}]
          /\ touched' = touched \cup {k}
          /\ synced' = FALSE
          /\ UNCHANGED <<open, uncovered>>
        BY <1>2 DEF Insert
    <2>. HIDE DEF v
    <2>2. \A w \in files' : w # v => w \in files /\ risk'[w] = risk[w]
        BY <2>1 DEF ShapeInv, Shape
    <2>3. risk'[v] = risk[v] \cup {k} /\ risk[v] \subseteq touched
        BY <2>1 DEF ShapeInv, Shape, NoStrays, RiskInv
    <2>4. RiskIsOwed'
        BY <2>1, <2>2 DEF RiskInv, RiskIsOwed, Usable
    <2>. QED
        BY <2>1, <2>2, <2>3, <2>4 DEF RiskInv, SyncReachesOwn, Usable
<1>3. ASSUME UNCHANGED <<files, risk, touched, uncovered, open, active, dirty>>, synced' = FALSE
      PROVE  RiskInv'
    BY <1>3 DEF RiskInv, RiskIsOwed, SyncReachesOwn
<1>4. CASE Resolve \/ StartCompaction
    BY <1>3, <1>4 DEF Resolve, StartCompaction, disk, history
<1>5. CASE SkipVersion
    <2>1. synced' = FALSE
        BY <1>5 DEF SkipVersion, ShapeInv, Shape, HandInv
    <2>. QED
        BY <1>3, <1>5, <2>1 DEF SkipVersion, disk, history
<1>6. ASSUME NEW K \in SUBSET Key, NEW torn \in SUBSET Version, Delete(K, torn)
      PROVE  RiskInv'
    <2>1. PICK gone \in [Version -> SUBSET Key] :
             /\ risk' = [v \in Version |-> risk[v] \cup gone[v]]
             /\ touched' = touched \cup UNION {gone[v] : v \in Version}
             /\ dirty \subseteq dirty'
             /\ \A v \in Version : gone[v] # {} => v = active \/ v \in dirty'
        BY <1>6, DeletedFacts
    <2>2. /\ Usable /\ synced' = FALSE
          /\ UNCHANGED <<files, active, open, uncovered>>
        BY <1>6 DEF Delete
    <2>3. files \subseteq Version
        BY DEF ShapeInv, Shape
    <2>4. \A v \in files : risk'[v] \subseteq touched'
        BY <2>1, <2>3 DEF RiskInv
    <2>5. RiskIsOwed'
        BY <2>1, <2>2, <2>3 DEF RiskInv, RiskIsOwed
    <2>. QED
        BY <2>1, <2>2, <2>4, <2>5 DEF RiskInv, SyncReachesOwn, Usable
<1>7. CASE MergeGroup
    <2>1. PICK V \in Prefixes : Merged(V)
        BY <1>7 DEF MergeGroup
    <2>2. /\ compacting
          /\ UNCHANGED <<active, open, synced, touched, uncovered>>
        BY <1>7 DEF MergeGroup, history
    <2>. DEFINE t == Max(files) + 1
    <2>3. /\ V \subseteq files
          /\ files' = (files \cup {t}) \ V
          /\ risk'[t] = {}
          /\ \A v \in Version : v # t /\ v \notin V => risk'[v] = risk[v]
        BY <2>1, <2>2, MergedFacts
    <2>4. dirty' = dirty \ V
        BY <2>1 DEF Merged
    <2>. HIDE DEF t
    <2>5. \A v \in files' : \/ risk'[v] = {}
                            \/ v \in files /\ v \notin V /\ risk'[v] = risk[v]
        BY <2>3 DEF ShapeInv, Shape
    <2>6. synced' = FALSE /\ open
        BY <2>2 DEF ShapeInv, Shape, HandInv
    <2>7. RiskIsOwed'
        BY <2>2, <2>4, <2>5 DEF RiskInv, RiskIsOwed
    <2>. QED
        BY <2>2, <2>5, <2>6, <2>7 DEF RiskInv, SyncReachesOwn
<1>8. CASE CompactionEnds
    <2>1. /\ compacting /\ active' = Max(files)
          /\ uncovered' = IF active \in files \ {active'} THEN uncovered \cup risk[active]
                          ELSE uncovered
          /\ UNCHANGED <<files, risk, open, dirty, synced, touched>>
        BY <1>8 DEF CompactionEnds, disk
    <2>2. synced' = FALSE /\ open
        BY <2>1 DEF ShapeInv, Shape, HandInv
    <2>3. uncovered \subseteq uncovered' /\ uncovered' \subseteq touched
        BY <2>1 DEF RiskInv
    <2>4. ASSUME NEW v \in files
          PROVE  risk[v] \subseteq uncovered' \/ v = active' \/ v \in dirty
        <3>1. CASE v = active
            BY <2>1, <3>1
        <3>2. CASE v # active
            BY <2>2, <2>3, <3>2 DEF RiskInv, RiskIsOwed
        <3>. QED
            BY <3>1, <3>2
    <2>5. RiskIsOwed'
        BY <2>1, <2>4 DEF RiskIsOwed
    <2>. QED
        BY <2>1, <2>2, <2>3, <2>5 DEF RiskInv, SyncReachesOwn
<1>9. CASE Sync
    <2>1. /\ Usable
          /\ risk' = [v \in Version |-> IF v \in Covered THEN {} ELSE risk[v]]
          /\ named' = files
          /\ uncovered' = touched'
          /\ UNCHANGED <<files, open>>
        BY <1>9 DEF Sync
    <2>2. \A k : k \in touched' <=> k \in uncovered /\ \E v \in files : k \in risk'[v]
        <3>1. touched' = uncovered \cap UNION {risk'[v] : v \in files}
            BY <1>9 DEF Sync
        <3>. QED
            BY <3>1, SMTT(30)
    <2>3. ASSUME NEW v \in files, NEW k \in risk'[v] PROVE k \in uncovered'
        <3>1. v \in Version
            BY DEF ShapeInv, Shape
        <3>2. v \notin Covered /\ risk'[v] = risk[v]
            BY <2>1, <2>3, <3>1
        <3>3. risk[v] \subseteq uncovered
            BY <2>1, <3>2 DEF Covered, RiskInv, RiskIsOwed, Usable
        <3>. QED
            BY <2>1, <2>2, <2>3, <3>2, <3>3
    <2>4. \A v \in files : risk'[v] \subseteq uncovered'
        BY <2>3
    <2>. QED
        BY <2>1, <2>4 DEF RiskInv, RiskIsOwed, SyncReachesOwn
<1>10. CASE SyncFails
    <2>1. PICK S : risk' = [v \in Version |-> IF v \in S THEN {} ELSE risk[v]]
        BY <1>10 DEF SyncFails
    <2>2. /\ synced' = FALSE
          /\ UNCHANGED <<files, active, open, dirty, touched, uncovered>>
        BY <1>10 DEF SyncFails, history
    <2>3. \A v \in files : risk'[v] = {} \/ risk'[v] = risk[v]
        BY <2>1 DEF ShapeInv, Shape
    <2>4. RiskIsOwed'
        BY <2>2, <2>3 DEF RiskInv, RiskIsOwed
    <2>. QED
        BY <2>2, <2>3, <2>4 DEF RiskInv, SyncReachesOwn
<1>11. CASE InstanceEnds
    BY <1>11 DEF InstanceEnds, Gone, disk, RiskInv, RiskIsOwed, SyncReachesOwn
<1>12. CASE PowerLoss
    <2>1. /\ open' = FALSE /\ synced' = FALSE /\ uncovered' = {}
          /\ touched' = touched
        BY <1>12 DEF PowerLoss, Gone
    <2>2. \A v \in files' : risk'[v] = {}
        BY <1>12, PowerFacts DEF ShapeInv, Shape
    <2>. QED
        BY <2>1, <2>2 DEF RiskInv, RiskIsOwed, SyncReachesOwn
<1>13. CASE Open
    <2>1. /\ ~open /\ open' = TRUE
          /\ files' = IF files = {} THEN {0} ELSE files
          /\ UNCHANGED <<risk, synced, touched, uncovered>>
        BY <1>13 DEF Open, history
    <2>2. \A v \in files' : v \in files \/ risk[v] = {}
        BY <2>1 DEF ShapeInv, Shape, NoStrays
    <2>3. \A v \in files' : risk[v] \subseteq uncovered /\ uncovered \subseteq touched
        BY <2>1, <2>2 DEF RiskInv
    <2>4. synced' = FALSE
        BY <2>1 DEF ShapeInv, Shape, HandInv
    <2>. QED
        BY <2>1, <2>3, <2>4 DEF RiskInv, RiskIsOwed, SyncReachesOwn
<1>. QED
    BY <1>1, <1>2, <1>4, <1>5, <1>6, <1>7, <1>8, <1>9, <1>10, <1>11, <1>12, <1>13 DEF Next

\* Together, while no walk is torn.
THEOREM RiskInvariant == ASSUME NoTornWalk PROVE Spec => [](ShapeInv /\ RiskInv)
<1>1. Init => RiskInv
    BY DEF Init, RiskInv, RiskIsOwed, SyncReachesOwn
<1>2. ShapeInv /\ ShapeInv' /\ RiskInv /\ [Next]_vars => RiskInv'
    BY StepRisk
<1>. QED
    BY <1>1, <1>2, ShapeInvariant, PTL DEF Spec

\* RiskIsOwed: while no walk is torn, a generation with a write of this instance
\* at risk is active or in the register, through rotations, evictions, failed
\* syncs and merges, but for what a compaction left behind.
THEOREM RiskIsOwedHolds == ASSUME NoTornWalk PROVE Spec => []RiskIsOwed
<1>1. RiskInv => RiskIsOwed
    BY DEF RiskInv
<1>. QED
    BY <1>1, RiskInvariant, PTL

\* SyncReachesOwn: while no walk is torn, once sync has returned every name and
\* every write of this instance is on stable storage, with the same exception.
THEOREM SyncReachesOwnHolds == ASSUME NoTornWalk PROVE Spec => []SyncReachesOwn
<1>1. RiskInv => SyncReachesOwn
    BY DEF RiskInv
<1>. QED
    BY <1>1, RiskInvariant, PTL

\* Every variable has its type; that uncovered writes are touched ones is a matter
\* of RiskInv.
THEOREM TypeCorrect == ASSUME NoTornWalk PROVE Spec => []TypeOK
<1>1. ShapeInv /\ RiskInv => TypeOK
    BY DEF ShapeInv, Shape, RiskInv, TypeOK, HandInv, NothingStale
<1>. QED
    BY <1>1, RiskInvariant, PTL
-----------------------------------------------------------------------------
(* The refinement of DurableUtxoSet *)

\* The caller's side: it inserts a key it deleted in another file only after a
\* sync.  Without it a loss of power may bring the old copy back beside the new.
WaitsForSync == ~Reinserts

\* Generations stay apart, even in what a loss of power may bring back.
LEMMA StepApart ==
    ASSUME WaitsForSync, ShapeInv, ShapeInv', Apart, [Next]_vars
    PROVE  Apart'
<1>1. ASSUME files' \subseteq files, \A v \in files' : live'[v] \cup risk'[v] \subseteq live[v] \cup risk[v]
      PROVE  Apart'
    <2>. SUFFICES ASSUME NEW v \in files', NEW w \in files', v # w
                  PROVE  (live'[v] \cup risk'[v]) \cap (live'[w] \cup risk'[w]) = {}
        BY DEF Apart
    <2>1. (live[v] \cup risk[v]) \cap (live[w] \cup risk[w]) = {}
        BY <1>1 DEF Apart
    <2>. QED
        BY <1>1, <2>1
<1>2. CASE UNCHANGED <<files, live, risk>>
    BY <1>2 DEF Apart
<1>3. ASSUME NEW k \in Key, Insert(k) PROVE Apart'
    <2>. DEFINE full == Cardinality(live[active]) >= RotateAt
                v == IF full THEN active + 1 ELSE active
    <2>1. /\ v \in Version /\ MayInsert(k, v)
          /\ files' = files \cup {v}
          /\ live' = [live EXCEPT ![v] = @ \cup {k}]
          /\ risk' = [risk EXCEPT ![v] = @ \cup {k}]
        BY <1>3 DEF Insert
    <2>. HIDE DEF v
    <2>2. \A w \in files \ {v} : k \notin live[w] /\ k \notin risk[w]
        BY <2>1 DEF MayInsert, WaitsForSync, Stored
    <2>3. /\ live'[v] \cup risk'[v] = live[v] \cup risk[v] \cup {k}
          /\ \A w \in files : w # v => live'[w] = live[w] /\ risk'[w] = risk[w]
        BY <2>1 DEF ShapeInv, Shape
    <2>4. \A w \in files : w # v => (live[v] \cup risk[v]) \cap (live[w] \cup risk[w]) = {}
        BY <2>1 DEF Apart, ShapeInv, Shape, NoStrays
    <2>. QED
        BY <2>1, <2>2, <2>3, <2>4 DEF Apart
<1>4. ASSUME NEW K \in SUBSET Key, NEW torn \in SUBSET Version, Delete(K, torn)
      PROVE  Apart'
    <2>1. PICK gone \in [Version -> SUBSET Key] :
             /\ \A v \in Version : gone[v] \subseteq live[v]
             /\ live' = [v \in Version |-> live[v] \ gone[v]]
             /\ risk' = [v \in Version |-> risk[v] \cup gone[v]]
        BY <1>4, DeletedFacts
    <2>2. files' = files /\ files \subseteq Version
        BY <1>4 DEF Delete, ShapeInv, Shape
    <2>3. \A v \in files' : live'[v] \cup risk'[v] \subseteq live[v] \cup risk[v]
        BY <2>1, <2>2
    <2>. QED
        BY <1>1, <2>2, <2>3
<1>5. CASE MergeGroup
    <2>1. PICK V \in Prefixes : Merged(V)
        BY <1>5 DEF MergeGroup
    <2>. DEFINE t == Max(files) + 1
    <2>2. /\ V \subseteq files /\ t \notin files
          /\ files' = (files \cup {t}) \ V
          /\ live'[t] = KeysOf(V) /\ risk'[t] = {}
          /\ \A v \in Version : v # t /\ v \notin V => live'[v] = live[v] /\ risk'[v] = risk[v]
          /\ \A k : k \in KeysOf(V) <=> \E v \in V : k \in live[v]
        BY <1>5, <2>1, MergedFacts DEF MergeGroup
    <2>. HIDE DEF t
    <2>3. \A v \in files' : v # t => /\ v \in files /\ v \notin V
                                     /\ live'[v] = live[v] /\ risk'[v] = risk[v]
        BY <2>2 DEF ShapeInv, Shape
    <2>4. \A v \in files' : v # t => KeysOf(V) \cap (live[v] \cup risk[v]) = {}
        BY <2>2, <2>3 DEF Apart
    <2>. SUFFICES ASSUME NEW v \in files', NEW w \in files', v # w
                  PROVE  (live'[v] \cup risk'[v]) \cap (live'[w] \cup risk'[w]) = {}
        BY DEF Apart
    <2>5. CASE v = t
        BY <2>2, <2>3, <2>4, <2>5
    <2>6. CASE w = t
        BY <2>2, <2>3, <2>4, <2>6
    <2>7. CASE v # t /\ w # t
        BY <2>3, <2>7 DEF Apart
    <2>. QED
        BY <2>5, <2>6, <2>7
<1>6. CASE Sync \/ SyncFails
    <2>1. PICK S : risk' = [v \in Version |-> IF v \in S THEN {} ELSE risk[v]]
        BY <1>6 DEF Sync, SyncFails
    <2>2. UNCHANGED <<files, live>>
        BY <1>6 DEF Sync, SyncFails
    <2>3. \A v \in files' : live'[v] \cup risk'[v] \subseteq live[v] \cup risk[v]
        BY <2>1, <2>2 DEF ShapeInv, Shape
    <2>. QED
        BY <1>1, <2>2, <2>3
<1>7. CASE PowerLoss
    <2>1. \A v \in files' : live'[v] \cup risk'[v] \subseteq live[v] \cup risk[v]
        BY <1>7, PowerFacts DEF ShapeInv, Shape
    <2>. QED
        BY <1>1, <1>7, <2>1, PowerFacts
<1>8. CASE Open
    <2>1. files' = IF files = {} THEN {0} ELSE files
        BY <1>8 DEF Open
    <2>2. UNCHANGED <<live, risk>>
        BY <1>8 DEF Open
    <2>. QED
        BY <2>1, <2>2 DEF Apart
<1>. QED
    BY <1>2, <1>3, <1>4, <1>5, <1>6, <1>7, <1>8
       DEF Next, vars, Resolve, StartCompaction, SkipVersion, CompactionEnds, InstanceEnds, disk

\* Every step is one of the abstract store, or changes nothing it has.
LEMMA StepRefines ==
    ASSUME ShapeInv, ShapeInv', RiskInv, CheckpointInv, Apart, [Next]_vars
    PROVE  Abstract!Next \/ UNCHANGED <<Stored, checkpoint, touched, uncovered>>
<1>1. CASE UNCHANGED vars
    BY <1>1 DEF vars, Stored
<1>2. ASSUME NEW k \in Key, Insert(k) PROVE Abstract!Next
    <2>. DEFINE full == Cardinality(live[active]) >= RotateAt
                v == IF full THEN active + 1 ELSE active
    <2>1. /\ v \in Version
          /\ files' = files \cup {v}
          /\ live' = [live EXCEPT ![v] = @ \cup {k}]
          /\ touched' = touched \cup {k}
          /\ UNCHANGED <<checkpoint, uncovered>>
        BY <1>2 DEF Insert
    <2>. HIDE DEF v
    <2>2. /\ live'[v] = live[v] \cup {k}
          /\ \A w \in files : w # v => live'[w] = live[w]
          /\ v \notin files => live[v] = {}
        BY <2>1 DEF ShapeInv, Shape, NoStrays
    <2>3. Stored' = Stored \cup {k}
        BY <2>1, <2>2 DEF Stored
    <2>4. Abstract!Create(k)
        BY <2>1, <2>3 DEF Abstract!Create
    <2>. QED
        BY <2>4 DEF Abstract!Next
<1>3. ASSUME NEW K \in SUBSET Key, NEW torn \in SUBSET Version, Delete(K, torn)
      PROVE  Abstract!Next
    <2>1. PICK gone \in [Version -> SUBSET Key] :
             /\ \A v \in Version : gone[v] \subseteq live[v]
             /\ live' = [v \in Version |-> live[v] \ gone[v]]
             /\ touched' = touched \cup UNION {gone[v] : v \in Version}
        BY <1>3, DeletedFacts
    <2>2. /\ files' = files /\ files \subseteq Version
          /\ UNCHANGED <<checkpoint, uncovered>>
        BY <1>3 DEF Delete, ShapeInv, Shape
    <2>. DEFINE G == UNION {gone[v] : v \in Version}
    <2>3. G \in SUBSET Key
        BY <2>1
    <2>4. ASSUME NEW v \in files PROVE live'[v] = live[v] \ G
        <3>1. live'[v] = live[v] \ gone[v] /\ gone[v] \subseteq G
            BY <2>1, <2>2
        <3>2. ASSUME NEW w \in Version, w # v PROVE gone[w] \cap live[v] = {}
            <4>1. CASE w \in files
                BY <2>1, <3>2, <4>1 DEF Apart
            <4>2. CASE w \notin files
                BY <2>1, <4>2 DEF ShapeInv, NoStrays
            <4>. QED
                BY <4>1, <4>2
        <3>. QED
            BY <3>1, <3>2
    <2>5. Stored' = Stored \ G
        BY <2>2, <2>4 DEF Stored
    <2>. HIDE DEF G
    <2>6. Abstract!Spend(G)
        BY <2>1, <2>2, <2>5 DEF Abstract!Spend, G
    <2>. QED
        BY <2>3, <2>6 DEF Abstract!Next
<1>4. CASE MergeGroup
    <2>1. PICK V \in Prefixes : Merged(V)
        BY <1>4 DEF MergeGroup
    <2>. DEFINE t == Max(files) + 1
    <2>2. /\ V \subseteq files /\ t \notin files /\ t \in Version
          /\ files' = (files \cup {t}) \ V
          /\ live'[t] = KeysOf(V)
          /\ \A v \in Version : v # t /\ v \notin V => live'[v] = live[v]
          /\ \A k : k \in KeysOf(V) <=> \E v \in V : k \in live[v]
        BY <1>4, <2>1, MergedFacts DEF MergeGroup
    <2>. HIDE DEF t
    <2>3. \A v \in files' : v # t => v \in files /\ v \notin V /\ live'[v] = live[v]
        BY <2>2 DEF ShapeInv, Shape
    <2>4. Stored \subseteq Stored'
        <3>. SUFFICES ASSUME NEW k, NEW v \in files, k \in live[v] PROVE \E w \in files' : k \in live'[w]
            BY DEF Stored
        <3>1. CASE v \in V
            BY <2>2, <3>1
        <3>2. CASE v \notin V
            BY <2>2, <2>3, <3>2
        <3>. QED
            BY <3>1, <3>2
    <2>5. Stored' \subseteq Stored
        <3>. SUFFICES ASSUME NEW k, NEW w \in files', k \in live'[w] PROVE \E v \in files : k \in live[v]
            BY DEF Stored
        <3>. QED
            BY <2>2, <2>3
    <2>. QED
        BY <1>4, <2>4, <2>5 DEF MergeGroup, history
<1>5. CASE Resolve \/ StartCompaction \/ SkipVersion \/ SyncFails
    BY <1>5 DEF Resolve, StartCompaction, SkipVersion, SyncFails, disk, history, Stored
<1>6. CASE CompactionEnds
    <2>1. /\ UNCHANGED <<files, live, checkpoint, touched>>
          /\ uncovered' = uncovered \cup {} \/ (active \in files /\ uncovered' = uncovered \cup risk[active])
        BY <1>6 DEF CompactionEnds, disk
    <2>2. \E K \in SUBSET touched : uncovered' = uncovered \cup K
        BY <2>1 DEF RiskInv
    <2>3. Abstract!Disown
        BY <2>1, <2>2 DEF Abstract!Disown, Stored
    <2>. QED
        BY <2>3 DEF Abstract!Next
<1>7. CASE Sync
    <2>1. Abstract!Checkpoint
        BY <1>7 DEF Sync, Abstract!Checkpoint, Stored
    <2>. QED
        BY <2>1 DEF Abstract!Next
<1>8. CASE InstanceEnds
    <2>1. /\ UNCHANGED <<files, live, checkpoint, touched>>
          /\ uncovered' = uncovered \cup touched
        BY <1>8 DEF InstanceEnds, Gone, disk, RiskInv
    <2>2. Abstract!Disown
        BY <2>1 DEF Abstract!Disown, Stored
    <2>. QED
        BY <2>2 DEF Abstract!Next
<1>9. CASE PowerLoss
    <2>1. /\ named \subseteq files' /\ files' \subseteq files
          /\ \A v \in files' : /\ live[v] \ risk[v] \subseteq live'[v]
                               /\ live'[v] \subseteq live[v] \cup risk[v]
        BY <1>9, PowerFacts
    <2>2. uncovered' = {} /\ UNCHANGED <<checkpoint, touched>>
        BY <1>9 DEF PowerLoss, Gone
    <2>3. Stored' \subseteq Key
        BY DEF ShapeInv, Shape, Stored
    <2>4. Stored' \ touched \subseteq Stored \ touched
        <3>. SUFFICES ASSUME NEW k, k \notin touched, NEW v \in files', k \in live'[v]
                      PROVE  k \in Stored
            BY DEF Stored
        <3>. QED
            BY <2>1 DEF RiskInv, Stored
    <2>5. Stored \ touched \subseteq Stored' \ touched
        <3>. SUFFICES ASSUME NEW k, k \notin touched, NEW v \in files, k \in live[v]
                      PROVE  k \in Stored'
            BY DEF Stored
        <3>1. v \in named
            BY DEF CheckpointInv
        <3>2. v \in files' /\ k \notin risk[v]
            BY <2>1, <3>1 DEF RiskInv
        <3>. QED
            BY <2>1, <3>2 DEF Stored
    <2>6. Stored' \ touched = checkpoint \ touched
        BY <2>4, <2>5 DEF CheckpointInv
    <2>7. Abstract!LosePower
        BY <2>2, <2>3, <2>6 DEF Abstract!LosePower
    <2>. QED
        BY <2>7 DEF Abstract!Next
<1>10. CASE Open
    <2>1. /\ files' = IF files = {} THEN {0} ELSE files
          /\ UNCHANGED <<live, checkpoint, touched, uncovered>>
        BY <1>10 DEF Open, history
    <2>2. 0 \in Version
        BY DurabilityAssumption DEF Version
    <2>3. \A v \in files' : v \in files \/ live[v] = {}
        BY <2>1, <2>2 DEF ShapeInv, NoStrays
    <2>4. Stored' = Stored
        BY <2>1, <2>3 DEF Stored
    <2>. QED
        BY <2>1, <2>4
<1>. QED
    BY <1>1, <1>2, <1>3, <1>4, <1>5, <1>6, <1>7, <1>8, <1>9, <1>10 DEF Next

\* The abstract store keeps what its checkpoint promises, so this one does; and
\* a new file's contents are all new until its name is on stable storage.
LEMMA StepCheckpoint ==
    ASSUME ShapeInv, ShapeInv', RiskInv, CheckpointInv, Apart, [Next]_vars
    PROVE  CheckpointInv'
<1>1. (Stored \ touched = checkpoint \ touched)'
    BY StepRefines
       DEF CheckpointInv, Abstract!Next, Abstract!Create, Abstract!Spend, Abstract!Checkpoint,
           Abstract!Disown, Abstract!LosePower
<1>2. ASSUME NEW v \in files' \ named' PROVE live'[v] \subseteq touched'
    <2>1. CASE UNCHANGED <<files, live, named, touched>>
        BY <2>1 DEF CheckpointInv
    <2>2. ASSUME NEW k \in Key, Insert(k) PROVE live'[v] \subseteq touched'
        <3>. DEFINE full == Cardinality(live[active]) >= RotateAt
                    w == IF full THEN active + 1 ELSE active
        <3>1. /\ w \in Version
              /\ files' = files \cup {w} /\ named' = named
              /\ live' = [live EXCEPT ![w] = @ \cup {k}]
              /\ touched' = touched \cup {k}
            BY <2>2 DEF Insert
        <3>. HIDE DEF w
        <3>2. v \in Version /\ live[v] \subseteq touched
            BY <3>1 DEF ShapeInv, Shape, NoStrays, CheckpointInv
        <3>3. live'[v] \subseteq live[v] \cup {k}
            BY <3>1, <3>2 DEF ShapeInv, Shape
        <3>. QED
            BY <3>1, <3>2, <3>3
    <2>3. ASSUME NEW K \in SUBSET Key, NEW torn \in SUBSET Version, Delete(K, torn)
          PROVE  live'[v] \subseteq touched'
        <3>1. PICK gone \in [Version -> SUBSET Key] :
                 /\ live' = [u \in Version |-> live[u] \ gone[u]]
                 /\ touched' = touched \cup UNION {gone[u] : u \in Version}
            BY <2>3, DeletedFacts
        <3>2. files' = files /\ named' = named /\ v \in Version
            BY <2>3 DEF Delete, ShapeInv, Shape
        <3>. QED
            BY <3>1, <3>2 DEF CheckpointInv
    <2>4. CASE MergeGroup \/ Sync \/ PowerLoss
        <3>1. named' = files'
            BY <2>4 DEF MergeGroup, Merged, Sync, PowerLoss
        <3>. QED
            BY <3>1
    <2>5. CASE Open
        <3>1. /\ files' = IF files = {} THEN {0} ELSE files
              /\ UNCHANGED <<live, named, touched>>
            BY <2>5 DEF Open, history
        <3>2. v \in Version
            BY DEF ShapeInv, Shape
        <3>3. v \in files \/ live[v] = {}
            BY <3>1, <3>2 DEF ShapeInv, NoStrays
        <3>. QED
            BY <3>1, <3>3 DEF CheckpointInv
    <2>. QED
        BY <2>1, <2>2, <2>3, <2>4, <2>5
           DEF Next, vars, Resolve, StartCompaction, SkipVersion, CompactionEnds, SyncFails,
               InstanceEnds, Gone, disk, history
<1>. QED
    BY <1>1, <1>2 DEF CheckpointInv

\* ImplementsDurableSet: while no walk is torn and the caller waits for a sync
\* before it inserts again what it deleted, a loss of power takes back only what
\* was done to a key after sync last returned, or what that sync had no barrier
\* for.
THEOREM DurabilityImplementsDurableSet ==
    ASSUME NoTornWalk, WaitsForSync
    PROVE  Spec => ImplementsDurableSet
<1>1. Init => Abstract!Init /\ CheckpointInv /\ Apart
    BY DEF Init, Abstract!Init, CheckpointInv, Apart, Stored
<1>2. ShapeInv /\ ShapeInv' /\ RiskInv /\ CheckpointInv /\ Apart /\ [Next]_vars
        => CheckpointInv' /\ Apart'
    BY StepCheckpoint, StepApart
<1>3. ShapeInv /\ ShapeInv' /\ RiskInv /\ CheckpointInv /\ Apart /\ [Next]_vars
        => [Abstract!Next]_<<Stored, checkpoint, touched, uncovered>>
    BY StepRefines
<1>. QED
    BY <1>1, <1>2, <1>3, RiskInvariant, PTL
       DEF Spec, ImplementsDurableSet, Abstract!Spec, Abstract!absvars
=============================================================================
