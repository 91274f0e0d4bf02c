---------------------------- MODULE EngineProofs ----------------------------
(***************************************************************************)
(* The safety of Engine and its refinement of UtxoSet, for every set of    *)
(* outpoints and size classes, every bound and every choice of faults.     *)
(***************************************************************************)
EXTENDS Engine, SetLemmas, TLAPS, FiniteSetTheorems

-----------------------------------------------------------------------------
(* The inductive invariant *)

\* Types, but for entries_count_: that a batch never takes it below zero is a
\* matter of counting, the last section's.
Shape ==
    /\ files \subseteq Gen
    /\ live \in [Gen -> SUBSET Key]
    /\ active \in [Class -> Version]
    /\ open \in BOOLEAN
    /\ latch \in {"no", "integrity", "cleanup"}
    /\ work \in [todo : SUBSET Class, left : SUBSET Version]
    /\ asked \subseteq Key
    /\ created \subseteq Key
    /\ relocated \subseteq Key
    /\ faults \in 0..MaxFaults

\* A version number that names no file holds nothing, so that what a rotation
\* creates is empty.
NoStrays == \A g \in Gen : g \notin files => live[g] = {}

\* The active generation of a class is there and none is newer.
Settled(c) ==
    /\ <<c, active[c]>> \in files
    /\ \A v \in Version : <<c, v>> \in files => v <= active[c]

\* So it is for every class but the one in compact_all's hands, which has
\* generations all the same, the newest of them no older than the active one was.
ActiveInv ==
    open => \A c \in Class :
        /\ \E v \in Version : <<c, v>> \in files /\ active[c] <= v
        /\ work.todo = {} \/ c # Current => Settled(c)

\* compact_all works on generations that are there, in an instance that is open.
WorkInv ==
    /\ work.todo = {} => work.left = {}
    /\ work.todo # {} => open /\ \A v \in work.left : <<Current, v>> \in files

\* Without an instance, and while compact_all runs, no answer is outstanding.
QuietInv ==
    /\ ~open \/ work.todo # {} => answer = NoAnswer
    /\ ~open => asked = {}

\* A key that find() missed is in no active generation, unless the caller
\* inserted it or a merge moved it since: resolve() need not look there.
MissedIsOlder ==
    \A k \in asked \ (created \cup relocated) : \A g \in files :
        k \in live[g] => g[2] < active[g[1]]

EngineInv ==
    /\ Shape
    /\ NoStrays
    /\ OneCopy
    /\ ActiveInv
    /\ WorkInv
    /\ QuietInv
    /\ MissedIsOlder
-----------------------------------------------------------------------------
(* Versions and rotation *)

\* The newest generation of a class that has one is there, and none is newer.
LEMMA NewestMember ==
    ASSUME Shape, NEW c \in Class, NEW v \in Version, <<c, v>> \in files
    PROVE  /\ Newest(c) \in Version
           /\ <<c, Newest(c)>> \in files
           /\ \A w \in Version : <<c, w>> \in files => w <= Newest(c)
<1>1. Versions(c) \in SUBSET (0 .. MaxVersion) /\ Versions(c) # {}
    BY DEF Versions, Version
<1>2. /\ Newest(c) \in Versions(c)
      /\ \A w \in Versions(c) : w <= Newest(c)
    BY <1>1, MaxOf, EngineAssumption DEF Newest
<1>. QED
    BY <1>2 DEF Versions

\* An instance in use appends to the newest generation of every class.
LEMMA UsableSettled ==
    ASSUME EngineInv, Usable, NEW c \in Class
    PROVE  /\ Settled(c)
           /\ active[c] \in Version
           /\ Newest(c) = active[c]
<1>1. Settled(c) /\ active[c] \in Version
    BY DEF EngineInv, ActiveInv, Usable, Idle, Shape
<1>2. /\ Newest(c) \in Version
      /\ <<c, Newest(c)>> \in files
      /\ \A w \in Version : <<c, w>> \in files => w <= Newest(c)
    BY <1>1, NewestMember DEF Settled, EngineInv
<1>3. Newest(c) <= active[c] /\ active[c] <= Newest(c)
    BY <1>1, <1>2 DEF Settled
<1>. QED
    BY <1>1, <1>2, <1>3, EngineAssumption DEF Version

\* new_version, any number of times: the new generations are empty, and the last
\* of them is active.
LEMMA Rotated ==
    ASSUME EngineInv, Usable, NEW c \in Class, NEW n \in Nat, Rotate(c, n)
    PROVE  /\ files \subseteq files' /\ files' \subseteq Gen
           /\ active' \in [Class -> Version]
           /\ active'[c] = active[c] + n
           /\ \A d \in Class : d # c => active'[d] = active[d]
           /\ \A g \in files' \ files :
                live[g] = {} /\ g[1] = c /\ active[c] < g[2]
           /\ \A d \in Class : Settled(d)'
<1>. DEFINE made == {<<c, v>> : v \in Newest(c) + 1 .. Newest(c) + n}
<1>1. /\ made \subseteq Gen
      /\ files' = files \cup made
      /\ active' = [active EXCEPT ![c] = @ + n]
    BY DEF Rotate
<1>2. Settled(c) /\ active[c] \in Nat /\ active[c] \in Version /\ Newest(c) = active[c]
    BY UsableSettled, EngineAssumption DEF Version
<1>3. \A g \in made : g[1] = c /\ active[c] < g[2] /\ g[2] <= active[c] + n
    BY <1>2
<1>4. n # 0 => <<c, active[c] + n>> \in made
    BY <1>2
<1>5. active[c] + n \in Version
    <2>1. CASE n = 0
        BY <1>2, <2>1
    <2>2. CASE n # 0
        BY <1>1, <1>4, <2>2 DEF Gen
    <2>. QED
        BY <2>1, <2>2
<1>6. active' \in [Class -> Version]
    BY <1>1, <1>5 DEF EngineInv, Shape
<1>7. active'[c] = active[c] + n /\ \A d \in Class : d # c => active'[d] = active[d]
    BY <1>1 DEF EngineInv, Shape
<1>8. \A g \in made : g \notin files
    <2>. SUFFICES ASSUME NEW g \in made, g \in files PROVE FALSE
        OBVIOUS
    <2>1. g[2] \in Version /\ g = <<c, g[2]>>
        BY <1>1, <1>3 DEF Gen
    <2>2. g[2] <= active[c]
        BY <1>2, <2>1 DEF Settled
    <2>. QED
        BY <1>2, <1>3, <2>1, <2>2, EngineAssumption DEF Version
<1>9. ASSUME NEW d \in Class PROVE Settled(d)'
    <2>1. CASE d = c
        <3>1. <<c, active'[c]>> \in files'
            <4>1. CASE n = 0
                BY <1>1, <1>2, <1>7, <4>1 DEF Settled
            <4>2. CASE n # 0
                BY <1>1, <1>4, <1>7, <4>2
            <4>. QED
                BY <4>1, <4>2
        <3>2. ASSUME NEW v \in Version, <<c, v>> \in files' PROVE v <= active'[c]
            <4>1. v \in Nat
                BY EngineAssumption DEF Version
            <4>2. CASE <<c, v>> \in files
                BY <1>2, <1>7, <4>1, <4>2 DEF Settled
            <4>3. CASE <<c, v>> \in made
                BY <1>3, <1>7, <4>3
            <4>. QED
                BY <1>1, <3>2, <4>2, <4>3
        <3>. QED
            BY <2>1, <3>1, <3>2 DEF Settled
    <2>2. CASE d # c
        <3>1. Settled(d)
            BY UsableSettled
        <3>2. \A v \in Version : <<d, v>> \notin made
            BY <1>3, <2>2
        <3>3. active'[d] = active[d] /\ active[d] \in Version
            BY <1>7, <2>2 DEF EngineInv, Shape
        <3>. QED
            BY <1>1, <3>1, <3>2, <3>3 DEF Settled
    <2>. QED
        BY <2>1, <2>2
<1>10. \A g \in made : live[g] = {}
    BY <1>1, <1>8 DEF EngineInv, NoStrays
<1>. QED
    BY <1>1, <1>3, <1>6, <1>7, <1>9, <1>10 DEF EngineInv, Shape
-----------------------------------------------------------------------------
(* The steps of insert *)

\* Fresh and not in the active generation: stored nowhere.
LEMMA NotStored ==
    ASSUME NEW k, NEW c, Fresh(k, c), ~HasCopy(k, <<c, active[c]>>)
    PROVE  \A g \in files : k \notin live[g]
    BY DEF Fresh, HasCopy

\* An insertion in full or in part: some rotations, and then the key or nothing
\* in what is then the active generation.
LEMMA InsertKeeps ==
    ASSUME EngineInv, Usable,
           NEW k \in Key, NEW c \in Class, \A g \in files : k \notin live[g],
           NEW n \in Nat, Rotate(c, n),
           NEW there \in SUBSET {k},
           live' = [live EXCEPT ![<<c, active'[c]>>] = @ \cup there],
           created' = created \cup (there \cap asked),
           latch' \in {"no", "integrity", "cleanup"},
           faults' \in 0 .. MaxFaults,
           UNCHANGED <<open, work, asked, relocated>>
    PROVE  EngineInv'
<1>. DEFINE t == <<c, active'[c]>>
<1>1. /\ files \subseteq files' /\ files' \subseteq Gen
      /\ active' \in [Class -> Version]
      /\ active'[c] = active[c] + n
      /\ \A d \in Class : d # c => active'[d] = active[d]
      /\ \A g \in files' \ files : live[g] = {} /\ g[1] = c /\ active[c] < g[2]
      /\ \A d \in Class : Settled(d)'
    BY Rotated
<1>2. t \in files' /\ t \in Gen
    BY <1>1 DEF Settled
<1>3. /\ live' \in [Gen -> SUBSET Key]
      /\ live'[t] = live[t] \cup there
      /\ \A g \in Gen : g # t => live'[g] = live[g]
    BY <1>2 DEF EngineInv, Shape
<1>4. \A g \in files' : k \notin live[g]
    BY <1>1
<1>5. work.todo = {} /\ open
    BY DEF Usable, Idle
<1>6. Shape'
    BY <1>1, <1>3 DEF EngineInv, Shape
<1>7. NoStrays'
    BY <1>1, <1>2, <1>3 DEF EngineInv, NoStrays
<1>8. OneCopy'
    <2>. SUFFICES ASSUME NEW g \in files', NEW h \in files', g # h
                  PROVE  live'[g] \cap live'[h] = {}
        BY DEF OneCopy
    <2>1. live[g] \cap live[h] = {}
        BY <1>1 DEF EngineInv, OneCopy
    <2>2. live'[g] = live[g] \/ (g = t /\ live'[g] = live[g] \cup there)
        BY <1>1, <1>3
    <2>3. live'[h] = live[h] \/ (h = t /\ live'[h] = live[h] \cup there)
        BY <1>1, <1>3
    <2>. QED
        BY <1>4, <2>1, <2>2, <2>3
<1>9. ActiveInv'
    <2>1. \A d \in Class : active'[d] \in Version /\ active'[d] <= active'[d]
        BY <1>1, EngineAssumption DEF Version
    <2>. QED
        BY <1>1, <2>1 DEF ActiveInv, Settled
<1>10. WorkInv' /\ QuietInv'
    BY <1>5 DEF EngineInv, WorkInv, QuietInv
<1>11. MissedIsOlder'
    <2>. SUFFICES ASSUME NEW j \in asked' \ (created' \cup relocated'), NEW g \in files',
                         j \in live'[g]
                  PROVE  g[2] < active'[g[1]]
        BY DEF MissedIsOlder
    <2>1. j \notin there /\ j \in asked \ (created \cup relocated)
        OBVIOUS
    <2>2. j \in live[g] /\ g \in files
        BY <1>1, <1>3, <2>1
    <2>3. g[2] < active[g[1]]
        BY <2>1, <2>2 DEF EngineInv, MissedIsOlder
    <2>4. g[1] \in Class /\ g[2] \in Nat /\ active[g[1]] \in Nat /\ active'[g[1]] \in Nat
        <3>1. g[1] \in Class /\ g[2] \in Version
            BY <1>1 DEF Gen
        <3>2. active[g[1]] \in Version /\ active'[g[1]] \in Version
            BY <1>1, <3>1 DEF EngineInv, Shape
        <3>. QED
            BY <3>1, <3>2, EngineAssumption DEF Version
    <2>5. active[g[1]] <= active'[g[1]]
        BY <1>1, <2>4
    <2>. QED
        BY <2>3, <2>4, <2>5
<1>. QED
    BY <1>6, <1>7, <1>8, <1>9, <1>10, <1>11 DEF EngineInv

\* A fault is counted up to its bound.
LEMMA FaultCounted ==
    ASSUME Shape, NEW kind, Spend(kind) \/ Works
    PROVE  faults' \in 0 .. MaxFaults
    BY EngineAssumption DEF Shape, Spend, Works

\* Every outcome of insert keeps the invariant.
LEMMA InsertActions ==
    ASSUME EngineInv, NEW k \in Key, NEW c \in Class, Fresh(k, c),
           \/ Insert(k, c)
           \/ InsertDuplicate(k, c)
           \/ InsertNoSpace(k, c)
           \/ RotationFails(k, c)
           \/ InsertCorrupts(k, c)
    PROVE  EngineInv'
<1>1. Needed(c) \in Nat
    BY DEF Needed
<1>2. ASSUME Usable PROVE active[c] \in Nat /\ live \in [Gen -> SUBSET Key]
    BY EngineAssumption DEF EngineInv, Shape, Version
<1>3. CASE Insert(k, c)
    <2>1. PICK refused \in {0, 1} :
             /\ Usable
             /\ ~HasCopy(k, <<c, active[c]>>)
             /\ IF refused = 1 THEN Spend("alloc") ELSE Works
             /\ Rotate(c, Needed(c) + refused)
             /\ live' = [live EXCEPT ![<<c, active[c] + Needed(c) + refused>>] = @ \cup {k}]
             /\ created' = created \cup ({k} \cap asked)
             /\ UNCHANGED <<open, latch, work, asked, relocated>>
        BY <1>3 DEF Insert
    <2>2. Needed(c) + refused \in Nat
        BY <1>1
    <2>3. active'[c] = active[c] + (Needed(c) + refused)
        BY <2>1, <2>2, Rotated
    <2>4. active'[c] = active[c] + Needed(c) + refused
        BY <1>1, <1>2, <2>1, <2>3
    <2>5. faults' \in 0 .. MaxFaults
        BY <2>1, FaultCounted DEF EngineInv
    <2>. QED
        BY <2>1, <2>2, <2>4, <2>5, NotStored, InsertKeeps DEF EngineInv, Shape
<1>4. CASE InsertDuplicate(k, c)
    <2>1. /\ Usable /\ Works
          /\ UNCHANGED <<files, live, active, open, latch, work, asked, created, relocated>>
        BY <1>4 DEF InsertDuplicate, store, instance
    <2>2. work.todo = {} /\ open
        BY <2>1 DEF Usable, Idle
    <2>3. Shape' /\ NoStrays' /\ OneCopy'
        BY <2>1 DEF EngineInv, Shape, NoStrays, OneCopy, Works
    <2>4. ActiveInv' /\ WorkInv' /\ QuietInv' /\ MissedIsOlder'
        BY <2>1, <2>2 DEF EngineInv, ActiveInv, Settled, WorkInv, QuietInv, MissedIsOlder, Current
    <2>. QED
        BY <2>3, <2>4 DEF EngineInv
<1>5. ASSUME Usable, ~HasCopy(k, <<c, active[c]>>), NEW n \in Nat, Rotate(c, n),
             NEW kind, Spend(kind), latch' \in {"no", "integrity"},
             UNCHANGED <<live, open, work, asked, created, relocated>>
      PROVE  EngineInv'
    <2>1. <<c, active'[c]>> \in Gen
        BY <1>5, Rotated DEF Settled
    <2>2. live' = [live EXCEPT ![<<c, active'[c]>>] = @ \cup {}]
        BY <1>2, <1>5, <2>1
    <2>3. faults' \in 0 .. MaxFaults
        BY <1>5, FaultCounted DEF EngineInv
    <2>4. created' = created \cup ({} \cap asked) /\ {} \in SUBSET {k}
        BY <1>5
    <2>5. \A g \in files : k \notin live[g]
        BY <1>5, NotStored
    <2>. QED
        BY <1>5, <2>2, <2>3, <2>4, <2>5, InsertKeeps
<1>6. CASE InsertNoSpace(k, c)
    <2>1. Needed(c) + 1 \in Nat
        BY <1>1
    <2>. QED
        BY <1>5, <1>6, <2>1 DEF InsertNoSpace, EngineInv, Shape, Usable
<1>7. CASE RotationFails(k, c)
    <2>1. /\ Usable /\ ~HasCopy(k, <<c, active[c]>>) /\ Spend("create")
          /\ latch' = "integrity"
          /\ UNCHANGED <<live, open, work, asked, created, relocated>>
        BY <1>7 DEF RotationFails
    <2>2. CASE UNCHANGED <<files, active>>
        <3>1. {<<c, v>> : v \in Newest(c) + 1 .. Newest(c) + 0} = {}
            BY <1>2, <2>1, UsableSettled
        <3>2. active' = [active EXCEPT ![c] = @ + 0]
            BY <1>2, <2>1, <2>2 DEF EngineInv, Shape
        <3>3. Rotate(c, 0)
            BY <2>2, <3>1, <3>2 DEF Rotate
        <3>. QED
            BY <1>5, <2>1, <3>3
    <2>3. CASE Rotate(c, Needed(c))
        BY <1>1, <1>5, <2>1, <2>3
    <2>. QED
        BY <1>7, <2>2, <2>3 DEF RotationFails
<1>8. CASE InsertCorrupts(k, c)
    <2>1. PICK refused \in {0, 1} : Rotate(c, Needed(c) + refused)
        BY <1>8 DEF InsertCorrupts
    <2>2. PICK there \in SUBSET {k} :
             /\ live' = [live EXCEPT ![<<c, active'[c]>>] = @ \cup there]
             /\ created' = created \cup (there \cap asked)
        BY <1>8 DEF InsertCorrupts
    <2>3. /\ Usable /\ ~HasCopy(k, <<c, active[c]>>) /\ Spend("corrupt")
          /\ latch' = "integrity"
          /\ UNCHANGED <<open, work, asked, relocated>>
        BY <1>8 DEF InsertCorrupts
    <2>4. Needed(c) + refused \in Nat
        BY <1>1
    <2>5. faults' \in 0 .. MaxFaults
        BY <2>3, FaultCounted DEF EngineInv
    <2>. QED
        BY <2>1, <2>2, <2>3, <2>4, <2>5, NotStored, InsertKeeps
<1>. QED
    BY <1>3, <1>4, <1>6, <1>7, <1>8
-----------------------------------------------------------------------------
(* The steps of find, resolve and apply_deletes *)

\* A generation of an instance in use is active or older.
LEMMA ActiveOrOlder ==
    ASSUME EngineInv, Usable
    PROVE  /\ files = ActiveGens \cup Older
           /\ ActiveGens \cap Older = {}
<1>1. ASSUME NEW g \in files PROVE g \in ActiveGens \/ g \in Older
    <2>1. g[1] \in Class /\ g[2] \in Version /\ g = <<g[1], g[2]>>
        BY DEF EngineInv, Shape, Gen
    <2>2. /\ g[2] <= active[g[1]]
          /\ active[g[1]] \in Version
        BY <2>1, UsableSettled DEF Settled
    <2>3. g[2] = active[g[1]] \/ g[2] < active[g[1]]
        BY <2>1, <2>2, EngineAssumption DEF Version
    <2>. QED
        BY <2>1, <2>3 DEF ActiveGens, Older
<1>2. ActiveGens \subseteq files
    BY UsableSettled DEF Settled, ActiveGens
<1>3. ASSUME NEW g \in ActiveGens PROVE g \notin Older
    <2>1. PICK c \in Class : g = <<c, active[c]>>
        BY DEF ActiveGens
    <2>2. active[c] \in Nat
        BY UsableSettled, EngineAssumption DEF Version
    <2>. QED
        BY <2>1, <2>2 DEF Older
<1>. QED
    BY <1>1, <1>2, <1>3 DEF Older

\* Whatever a batch manages to erase, it only takes keys away.
LEMMA EraseShrinks ==
    ASSUME NEW K, NEW bad, NEW torn, NEW part, Erase(K, bad, torn, part)
    PROVE  /\ live' = [g \in Gen |-> live'[g]]
           /\ \A g \in Gen : live'[g] \subseteq live[g]
    BY DEF Erase

\* Taking keys away from an instance in use keeps the invariant.
LEMMA ShrinkKeeps ==
    ASSUME EngineInv, Usable,
           live' = [g \in Gen |-> live'[g]],
           \A g \in Gen : live'[g] \subseteq live[g],
           faults' \in 0 .. MaxFaults,
           UNCHANGED <<files, active, open, latch, work, asked, created, relocated>>
    PROVE  EngineInv'
<1>1. work.todo = {} /\ open
    BY DEF Usable, Idle
<1>2. Shape'
    BY DEF EngineInv, Shape
<1>3. NoStrays'
    BY DEF EngineInv, NoStrays
<1>4. OneCopy'
    <2>. SUFFICES ASSUME NEW g \in files, NEW h \in files, g # h
                  PROVE  live'[g] \cap live'[h] = {}
        BY DEF OneCopy
    <2>1. live[g] \cap live[h] = {} /\ live'[g] \subseteq live[g] /\ live'[h] \subseteq live[h]
        BY DEF EngineInv, OneCopy, Shape
    <2>. QED
        BY <2>1
<1>5. ActiveInv' /\ WorkInv' /\ QuietInv'
    BY <1>1 DEF EngineInv, ActiveInv, Settled, WorkInv, QuietInv, Current
<1>6. MissedIsOlder'
    <2>. SUFFICES ASSUME NEW k \in asked \ (created \cup relocated), NEW g \in files,
                         k \in live'[g]
                  PROVE  g[2] < active[g[1]]
        BY DEF MissedIsOlder
    <2>. QED
        BY DEF EngineInv, MissedIsOlder, Shape
<1>. QED
    BY <1>2, <1>3, <1>4, <1>5, <1>6 DEF EngineInv

\* apply_deletes keeps the invariant.
LEMMA ApplyDeletesKeeps ==
    ASSUME EngineInv, NEW K \in SUBSET Key, ApplyDeletes(K)
    PROVE  EngineInv'
<1>1. /\ Usable
      /\ \E kind : Spend(kind) \/ Works
      /\ \E bad, torn, part : Erase(K, bad, torn, part)
      /\ UNCHANGED <<files, active, open, latch, work, asked, created, relocated>>
    BY DEF ApplyDeletes
<1>2. faults' \in 0 .. MaxFaults
    BY <1>1, FaultCounted DEF EngineInv
<1>3. /\ live' = [g \in Gen |-> live'[g]]
      /\ \A g \in Gen : live'[g] \subseteq live[g]
    BY <1>1, EraseShrinks
<1>. QED
    BY <1>1, <1>2, <1>3, ShrinkKeeps

\* find keeps the invariant: what it misses is in an older generation, or nowhere.
LEMMA FindKeeps ==
    ASSUME EngineInv, NEW k \in Key, Find(k)
    PROVE  EngineInv'
<1>1. /\ Usable
      /\ asked' = IF Hit(k) THEN asked \ {k} ELSE asked \cup {k}
      /\ created' = created \ {k}
      /\ relocated' = relocated \ {k}
      /\ faults' = faults
      /\ UNCHANGED <<files, live, active, open, latch, work>>
    BY DEF Find, Works, store, instance
<1>2. work.todo = {} /\ open
    BY <1>1 DEF Usable, Idle
<1>3. Shape'
    BY <1>1 DEF EngineInv, Shape
<1>4. NoStrays' /\ OneCopy' /\ ActiveInv' /\ WorkInv' /\ QuietInv'
    BY <1>1, <1>2
       DEF EngineInv, NoStrays, OneCopy, ActiveInv, Settled, WorkInv, QuietInv, Current
<1>5. MissedIsOlder'
    <2>. SUFFICES ASSUME NEW j \in asked' \ (created' \cup relocated'), NEW g \in files,
                         j \in live[g]
                  PROVE  g[2] < active[g[1]]
        BY <1>1 DEF MissedIsOlder
    <2>1. CASE j = k
        <3>1. ~Hit(k)
            BY <1>1, <2>1
        <3>2. g \notin ActiveGens
            BY <2>1, <3>1 DEF Hit
        <3>. QED
            BY <1>1, <3>2, ActiveOrOlder DEF Older
    <2>2. CASE j # k
        BY <1>1, <2>2 DEF EngineInv, MissedIsOlder
    <2>. QED
        BY <2>1, <2>2
<1>. QED
    BY <1>3, <1>4, <1>5 DEF EngineInv

\* resolve keeps the invariant, whether it succeeds or fails.
LEMMA ResolveKeeps ==
    ASSUME EngineInv, NEW K, Resolve(K) \/ ResolveFails(K)
    PROVE  EngineInv'
<1>1. /\ Usable
      /\ asked' \subseteq asked
      /\ \E kind : Spend(kind) \/ Works
      /\ UNCHANGED <<files, live, active, open, latch, work, created, relocated>>
    BY DEF Resolve, ResolveFails, store, instance
<1>2. work.todo = {} /\ open
    BY <1>1 DEF Usable, Idle
<1>3. faults' \in 0 .. MaxFaults
    BY <1>1, FaultCounted DEF EngineInv
<1>4. Shape'
    BY <1>1, <1>3 DEF EngineInv, Shape
<1>5. NoStrays' /\ OneCopy' /\ ActiveInv' /\ WorkInv' /\ QuietInv' /\ MissedIsOlder'
    BY <1>1, <1>2
       DEF EngineInv, NoStrays, OneCopy, ActiveInv, Settled, WorkInv, QuietInv, Current,
           MissedIsOlder
<1>. QED
    BY <1>4, <1>5 DEF EngineInv
-----------------------------------------------------------------------------
(* The steps of compact_all *)

\* The class compact_all is working on is one of those it has to do.
LEMMA CurrentMember ==
    ASSUME Shape, work.todo # {}
    PROVE  Current \in work.todo /\ Current \in Class
<1>1. work.todo \in SUBSET Nat
    BY EngineAssumption DEF Shape
<1>. QED
    BY <1>1, MinOf DEF Current, Shape

\* A merge puts the contents of its sources into a version not used before.
LEMMA MergedFacts ==
    ASSUME EngineInv, open, work.todo # {},
           NEW V \in Prefixes, Merged(Current, V)
    PROVE  LET t == <<Current, Newest(Current) + 1>>
               sources == {<<Current, v>> : v \in V}
           IN /\ t \in Gen /\ t \notin files /\ t \notin sources
              /\ V \subseteq work.left
              /\ sources \subseteq files
              /\ \A v \in Version : <<Current, v>> \in files => v < Newest(Current) + 1
              /\ active[Current] < Newest(Current) + 1
              /\ files' = (files \cup {t}) \ sources
              /\ live' \in [Gen -> SUBSET Key]
              /\ live'[t] = KeysOf(Current, V)
              /\ \A g \in sources : live'[g] = {}
              /\ \A g \in Gen : g # t /\ g \notin sources => live'[g] = live[g]
              /\ \A k : k \in KeysOf(Current, V) <=> \E g \in sources : k \in live[g]
<1>. DEFINE c == Current
            t == <<c, Newest(c) + 1>>
            sources == {<<c, v>> : v \in V}
<1>1. c \in Class
    BY CurrentMember DEF EngineInv
<1>2. V \subseteq work.left
    BY DEF Prefixes
<1>3. sources \subseteq files
    BY <1>2 DEF EngineInv, WorkInv
<1>4. /\ Newest(c) \in Version
      /\ \A w \in Version : <<c, w>> \in files => w <= Newest(c)
      /\ active[c] <= Newest(c)
    <2>1. PICK v \in Version : <<c, v>> \in files /\ active[c] <= v
        BY <1>1 DEF EngineInv, ActiveInv
    <2>2. /\ Newest(c) \in Version
          /\ \A w \in Version : <<c, w>> \in files => w <= Newest(c)
        BY <1>1, <2>1, NewestMember DEF EngineInv
    <2>3. active[c] \in Version /\ v <= Newest(c)
        BY <1>1, <2>1, <2>2 DEF EngineInv, Shape
    <2>. QED
        BY <2>1, <2>2, <2>3, EngineAssumption DEF Version
<1>5. Newest(c) \in Nat /\ active[c] \in Nat
    BY <1>1, <1>4, EngineAssumption DEF Version, EngineInv, Shape
<1>6. ASSUME NEW v \in Version, <<c, v>> \in files PROVE v < Newest(c) + 1
    BY <1>4, <1>5, <1>6, EngineAssumption DEF Version
<1>7. t \in Gen /\ files' = (files \cup {t}) \ sources
    BY DEF Merged
<1>8. t \notin files
    <2>. SUFFICES ASSUME t \in files PROVE FALSE
        OBVIOUS
    <2>1. Newest(c) + 1 \in Version
        BY <1>7 DEF Gen
    <2>. QED
        BY <1>5, <1>6, <2>1
<1>9. t \notin sources
    BY <1>3, <1>8
<1>10. sources \subseteq Gen
    BY <1>3 DEF EngineInv, Shape
<1>11. \A k : k \in KeysOf(c, V) <=> \E g \in sources : k \in live[g]
    BY DEF KeysOf
<1>12. KeysOf(c, V) \in SUBSET Key
    BY <1>10, <1>11 DEF EngineInv, Shape
<1>13. live' = [g \in Gen |-> CASE g = t -> KeysOf(c, V)
                                [] g \in sources -> {}
                                [] OTHER -> live[g]]
    BY DEF Merged
<1>14. /\ live'[t] = KeysOf(c, V)
       /\ \A g \in sources : live'[g] = {}
       /\ \A g \in Gen : g # t /\ g \notin sources => live'[g] = live[g]
    <2>. HIDE DEF t, sources
    <2>. QED
        BY <1>7, <1>9, <1>10, <1>13
<1>15. live' \in [Gen -> SUBSET Key]
    <2>1. ASSUME NEW g \in Gen PROVE live'[g] \in SUBSET Key
        BY <1>12, <1>14 DEF EngineInv, Shape
    <2>. HIDE DEF t, sources
    <2>. QED
        BY <1>13, <2>1
<1>. QED
    BY <1>2, <1>3, <1>4, <1>5, <1>6, <1>7, <1>8, <1>9, <1>11, <1>14, <1>15

\* What a merge does to the store keeps its part of the invariant, with what
\* compact_all has left.
LEMMA MergeKeepsStore ==
    ASSUME EngineInv, open, work.todo # {},
           NEW V \in Prefixes, Merged(Current, V), asked' = asked, created' = created
    PROVE  /\ files' \subseteq Gen /\ live' \in [Gen -> SUBSET Key] /\ relocated' \subseteq Key
           /\ NoStrays' /\ OneCopy'
           /\ <<Current, Newest(Current) + 1>> \in files'
           /\ Newest(Current) + 1 \in Version
           /\ active[Current] < Newest(Current) + 1
           /\ \A g \in files' : g \in files \/ g = <<Current, Newest(Current) + 1>>
           /\ \A d \in Class, v \in Version : d # Current => (<<d, v>> \in files' <=> <<d, v>> \in files)
           /\ \A v \in work.left \ V : <<Current, v>> \in files'
           /\ \A k \in asked' \ (created' \cup relocated') : \A g \in files' :
                k \in live'[g] => g[2] < active[g[1]]
<1>. DEFINE c == Current
            t == <<c, Newest(c) + 1>>
            sources == {<<c, v>> : v \in V}
<1>1. /\ t \in Gen /\ t \notin files /\ t \notin sources
      /\ V \subseteq work.left
      /\ sources \subseteq files
      /\ active[c] < Newest(c) + 1
      /\ files' = (files \cup {t}) \ sources
      /\ live' \in [Gen -> SUBSET Key]
      /\ live'[t] = KeysOf(c, V)
      /\ \A g \in sources : live'[g] = {}
      /\ \A g \in Gen : g # t /\ g \notin sources => live'[g] = live[g]
      /\ \A k : k \in KeysOf(c, V) <=> \E g \in sources : k \in live[g]
    BY MergedFacts
<1>2. relocated' = relocated \cup (asked \cap KeysOf(c, V))
    BY DEF Merged
<1>3. files' \subseteq Gen /\ relocated' \subseteq Key
    BY <1>1, <1>2 DEF EngineInv, Shape
<1>4. NoStrays'
    <2>. SUFFICES ASSUME NEW g \in Gen, g \notin files' PROVE live'[g] = {}
        BY DEF NoStrays
    <2>1. CASE g \in sources
        BY <1>1, <2>1
    <2>2. CASE g \notin sources
        BY <1>1, <2>2 DEF EngineInv, NoStrays
    <2>. QED
        BY <2>1, <2>2
<1>5. OneCopy'
    <2>. SUFFICES ASSUME NEW g \in files', NEW h \in files', g # h
                  PROVE  live'[g] \cap live'[h] = {}
        BY DEF OneCopy
    <2>. HIDE DEF t, sources
    <2>1. ASSUME NEW x \in files', x # t
          PROVE  x \in files /\ x \notin sources /\ live'[x] = live[x]
        BY <1>1, <1>3, <2>1
    <2>2. ASSUME NEW x \in files', x # t PROVE live[x] \cap KeysOf(c, V) = {}
        BY <1>1, <2>1, <2>2 DEF EngineInv, OneCopy
    <2>3. CASE g = t
        BY <1>1, <2>1, <2>2, <2>3
    <2>4. CASE h = t
        BY <1>1, <2>1, <2>2, <2>4
    <2>5. CASE g # t /\ h # t
        BY <2>1, <2>5 DEF EngineInv, OneCopy
    <2>. QED
        BY <2>3, <2>4, <2>5
<1>6. Newest(c) + 1 \in Version
    BY <1>1 DEF Gen
<1>7. ASSUME NEW d \in Class, NEW v \in Version, d # c
      PROVE  <<d, v>> \in files' <=> <<d, v>> \in files
    BY <1>1, <1>7
<1>8. ASSUME NEW v \in work.left \ V PROVE <<c, v>> \in files'
    <2>1. <<c, v>> \in files
        BY DEF EngineInv, WorkInv
    <2>. QED
        BY <1>1, <2>1
<1>9. ASSUME NEW k \in asked \ (created \cup relocated'), NEW g \in files', k \in live'[g]
      PROVE  g[2] < active[g[1]]
    <2>. HIDE DEF t, sources
    <2>1. k \notin KeysOf(c, V) /\ k \notin relocated
        BY <1>2
    <2>2. g \in files /\ k \in live[g]
        BY <1>1, <1>3, <1>9, <2>1
    <2>. QED
        BY <2>1, <2>2 DEF EngineInv, MissedIsOlder
<1>. QED
    BY <1>1, <1>3, <1>4, <1>5, <1>6, <1>7, <1>8, <1>9

\* A step of compact_all inside a class keeps the invariant.
LEMMA MergeGroupKeeps ==
    ASSUME EngineInv, MergeGroup
    PROVE  EngineInv'
<1>1. PICK V \in Prefixes :
         Merged(Current, V) /\ work' = [work EXCEPT !.left = @ \ V]
    BY DEF MergeGroup
<1>2. /\ open /\ work.todo # {} /\ faults' = faults
      /\ UNCHANGED <<active, open, latch, asked, answer, created>>
    BY DEF MergeGroup, Works
<1>3. /\ work'.todo = work.todo /\ work'.left = work.left \ V
      /\ work' \in [todo : SUBSET Class, left : SUBSET Version]
      /\ Current' = Current
    BY <1>1 DEF EngineInv, Shape, Current
<1>4. /\ files' \subseteq Gen /\ live' \in [Gen -> SUBSET Key] /\ relocated' \subseteq Key
      /\ NoStrays' /\ OneCopy'
      /\ <<Current, Newest(Current) + 1>> \in files'
      /\ Newest(Current) + 1 \in Version
      /\ active[Current] < Newest(Current) + 1
      /\ \A d \in Class, v \in Version : d # Current => (<<d, v>> \in files' <=> <<d, v>> \in files)
      /\ \A v \in work.left \ V : <<Current, v>> \in files'
      /\ \A k \in asked' \ (created' \cup relocated') : \A g \in files' :
           k \in live'[g] => g[2] < active[g[1]]
    BY <1>1, <1>2, MergeKeepsStore
<1>5. Shape'
    BY <1>2, <1>3, <1>4 DEF EngineInv, Shape
<1>6. ActiveInv'
    <2>. SUFFICES ASSUME NEW d \in Class
                  PROVE  /\ \E v \in Version : <<d, v>> \in files' /\ active[d] <= v
                         /\ d # Current => Settled(d)'
        BY <1>2, <1>3 DEF ActiveInv
    <2>1. CASE d = Current
        <3>1. active[d] \in Nat /\ Newest(Current) + 1 \in Nat
            BY <1>4, EngineAssumption DEF EngineInv, Shape, Version
        <3>2. active[d] <= Newest(Current) + 1
            BY <1>4, <2>1, <3>1
        <3>. QED
            BY <1>4, <2>1, <3>2
    <2>2. CASE d # Current
        <3>1. /\ \E v \in Version : <<d, v>> \in files /\ active[d] <= v
              /\ Settled(d) /\ active[d] \in Version
            BY <1>2, <2>2 DEF EngineInv, ActiveInv, Shape
        <3>. QED
            BY <1>2, <1>4, <2>2, <3>1 DEF Settled
    <2>. QED
        BY <2>1, <2>2
<1>7. WorkInv' /\ QuietInv'
    BY <1>2, <1>3, <1>4 DEF EngineInv, WorkInv, QuietInv
<1>8. MissedIsOlder'
    BY <1>2, <1>4 DEF MissedIsOlder
<1>. QED
    BY <1>4, <1>5, <1>6, <1>7, <1>8 DEF EngineInv

\* So does passing over a version.
LEMMA SkipVersionKeeps ==
    ASSUME EngineInv, SkipVersion
    PROVE  EngineInv'
<1>1. /\ open /\ work.left # {} /\ faults' = faults
      /\ work' = [work EXCEPT !.left = @ \ {Min(@)}]
      /\ UNCHANGED <<files, live, active, open, latch, asked, answer, created, relocated>>
    BY DEF SkipVersion, Works, store
<1>2. /\ work'.todo = work.todo /\ work'.left \subseteq work.left
      /\ work' \in [todo : SUBSET Class, left : SUBSET Version]
      /\ Current' = Current
    BY <1>1 DEF EngineInv, Shape, Current
<1>3. Shape'
    BY <1>1, <1>2 DEF EngineInv, Shape
<1>4. NoStrays' /\ OneCopy' /\ ActiveInv' /\ WorkInv' /\ QuietInv' /\ MissedIsOlder'
    BY <1>1, <1>2
       DEF EngineInv, NoStrays, OneCopy, ActiveInv, Settled, WorkInv, QuietInv, MissedIsOlder
<1>. QED
    BY <1>3, <1>4 DEF EngineInv

\* compact_all begins with every active generation in its place.
LEMMA CompactAllKeeps ==
    ASSUME EngineInv, CompactAll
    PROVE  EngineInv'
<1>1. /\ Usable /\ faults' = faults /\ answer' = NoAnswer
      /\ work' = [todo |-> Class, left |-> Versions(Min(Class))]
      /\ UNCHANGED <<files, live, active, open, latch, asked, created, relocated>>
    BY DEF CompactAll, Works, store
<1>2. /\ work' \in [todo : SUBSET Class, left : SUBSET Version]
      /\ work'.todo = Class /\ work'.left = Versions(Min(Class))
      /\ Current' = Min(Class)
    BY <1>1 DEF Versions, Current
<1>3. work.todo = {} /\ open
    BY <1>1 DEF Usable, Idle
<1>4. Shape'
    BY <1>1, <1>2 DEF EngineInv, Shape
<1>5. NoStrays' /\ OneCopy' /\ MissedIsOlder' /\ ActiveInv' /\ QuietInv'
    BY <1>1, <1>3
       DEF EngineInv, NoStrays, OneCopy, MissedIsOlder, ActiveInv, Settled, QuietInv
<1>6. WorkInv'
    <2>1. ASSUME Class = {} PROVE files = {}
        BY <2>1 DEF EngineInv, Shape, Gen
    <2>. QED
        BY <1>1, <1>2, <1>3, <2>1 DEF WorkInv, Versions
<1>. QED
    BY <1>4, <1>5, <1>6 DEF EngineInv

\* The newest generation of the class just compacted becomes active again.
LEMMA ClassCompactedKeeps ==
    ASSUME EngineInv, ClassCompacted
    PROVE  EngineInv'
<1>. DEFINE c == Current
            rest == work.todo \ {Current}
<1>1. /\ open /\ work.todo # {} /\ faults' = faults
      /\ active' = [active EXCEPT ![c] = Newest(c)]
      /\ work' = IF rest = {} THEN Idle ELSE [todo |-> rest, left |-> Versions(Min(rest))]
      /\ UNCHANGED <<files, live, open, latch, asked, answer, created, relocated>>
    BY DEF ClassCompacted, Works, store
<1>2. c \in Class /\ c \in work.todo
    BY <1>1, CurrentMember DEF EngineInv
<1>3. /\ Newest(c) \in Version
      /\ <<c, Newest(c)>> \in files
      /\ \A w \in Version : <<c, w>> \in files => w <= Newest(c)
      /\ active[c] <= Newest(c)
    <2>1. PICK v \in Version : <<c, v>> \in files /\ active[c] <= v
        BY <1>1, <1>2 DEF EngineInv, ActiveInv
    <2>2. /\ Newest(c) \in Version
          /\ <<c, Newest(c)>> \in files
          /\ \A w \in Version : <<c, w>> \in files => w <= Newest(c)
        BY <1>2, <2>1, NewestMember DEF EngineInv
    <2>3. active[c] \in Version /\ v <= Newest(c)
        BY <1>2, <2>1, <2>2 DEF EngineInv, Shape
    <2>. QED
        BY <2>1, <2>2, <2>3, EngineAssumption DEF Version
<1>4. /\ active' \in [Class -> Version]
      /\ active'[c] = Newest(c)
      /\ \A d \in Class : d # c => active'[d] = active[d]
    BY <1>1, <1>2, <1>3 DEF EngineInv, Shape
<1>5. /\ work'.todo = rest
      /\ work' \in [todo : SUBSET Class, left : SUBSET Version]
      /\ rest = {} => work'.left = {}
      /\ rest # {} => work'.left = Versions(Min(rest)) /\ Current' = Min(rest)
    BY <1>1 DEF EngineInv, Shape, Idle, Versions, Current
<1>6. Shape'
    BY <1>1, <1>4, <1>5 DEF EngineInv, Shape
<1>7. NoStrays' /\ OneCopy' /\ QuietInv'
    BY <1>1, <1>5 DEF EngineInv, NoStrays, OneCopy, QuietInv
<1>8. WorkInv'
    BY <1>1, <1>5 DEF WorkInv, Versions
<1>9. ASSUME NEW d \in Class PROVE Settled(d)'
    <2>1. CASE d = c
        BY <1>1, <1>3, <1>4, <2>1 DEF Settled
    <2>2. CASE d # c
        BY <1>1, <1>4, <2>2 DEF Settled, EngineInv, ActiveInv
    <2>. QED
        BY <2>1, <2>2
<1>10. ActiveInv'
    <2>1. \A d \in Class : active'[d] \in Version /\ active'[d] <= active'[d]
        BY <1>4, EngineAssumption DEF Version
    <2>. QED
        BY <1>9, <2>1 DEF ActiveInv, Settled
<1>11. MissedIsOlder'
    <2>. SUFFICES ASSUME NEW k \in asked \ (created \cup relocated), NEW g \in files,
                         k \in live[g]
                  PROVE  g[2] < active'[g[1]]
        BY <1>1 DEF MissedIsOlder
    <2>1. g[2] < active[g[1]]
        BY DEF EngineInv, MissedIsOlder
    <2>2. g[1] \in Class /\ g[2] \in Version
        BY DEF EngineInv, Shape, Gen
    <2>3. active[g[1]] \in Version /\ active'[g[1]] \in Version
        BY <1>4, <2>2 DEF EngineInv, Shape
    <2>4. active[g[1]] <= active'[g[1]]
        <3>1. \A v \in Version : v <= v
            BY EngineAssumption DEF Version
        <3>. HIDE DEF c
        <3>2. CASE g[1] = c
            BY <1>3, <1>4, <3>2
        <3>3. CASE g[1] # c
            BY <1>4, <2>2, <2>3, <3>1, <3>3
        <3>. QED
            BY <3>2, <3>3
    <2>. QED
        BY <2>1, <2>2, <2>3, <2>4, EngineAssumption DEF Version
<1>. QED
    BY <1>6, <1>7, <1>8, <1>10, <1>11 DEF EngineInv

\* A compaction that stops leaves its class with its newest generation active,
\* whether or not the merge in hand is kept.
LEMMA CompactionFailsKeeps ==
    ASSUME EngineInv, CompactionFails
    PROVE  EngineInv'
<1>. DEFINE c == Current
            top == Max({v \in Version : <<c, v>> \in files'})
<1>1. /\ open /\ work.todo # {} /\ Spend("merge")
      /\ latch' \in {"no", "integrity", "cleanup"}
      /\ active' = [active EXCEPT ![c] = top]
      /\ work' = Idle
      /\ UNCHANGED <<open, asked, created>>
    BY DEF CompactionFails
<1>2. faults' \in 0 .. MaxFaults
    BY <1>1, FaultCounted DEF EngineInv
<1>3. c \in Class
    BY <1>1, CurrentMember DEF EngineInv
<1>4. /\ files' \subseteq Gen /\ live' \in [Gen -> SUBSET Key] /\ relocated' \subseteq Key
      /\ NoStrays' /\ OneCopy'
      /\ \E v \in Version : <<c, v>> \in files' /\ active[c] <= v
      /\ \A d \in Class, v \in Version : d # c => (<<d, v>> \in files' <=> <<d, v>> \in files)
      /\ \A k \in asked' \ (created' \cup relocated') : \A g \in files' :
           k \in live'[g] => g[2] < active[g[1]]
    <2>1. CASE UNCHANGED <<files, live, relocated>>
        <3>1. \E v \in Version : <<c, v>> \in files /\ active[c] <= v
            BY <1>1, <1>3 DEF EngineInv, ActiveInv
        <3>. QED
            BY <1>1, <2>1, <3>1
               DEF EngineInv, Shape, NoStrays, OneCopy, MissedIsOlder
    <2>2. CASE \E V \in Prefixes : Merged(c, V)
        <3>1. PICK V \in Prefixes : Merged(c, V)
            BY <2>2
        <3>2. /\ files' \subseteq Gen /\ live' \in [Gen -> SUBSET Key] /\ relocated' \subseteq Key
              /\ NoStrays' /\ OneCopy'
              /\ <<c, Newest(c) + 1>> \in files'
              /\ Newest(c) + 1 \in Version
              /\ active[c] < Newest(c) + 1
              /\ \A d \in Class, v \in Version : d # c => (<<d, v>> \in files' <=> <<d, v>> \in files)
              /\ \A k \in asked' \ (created' \cup relocated') : \A g \in files' :
                   k \in live'[g] => g[2] < active[g[1]]
            BY <1>1, <3>1, MergeKeepsStore
        <3>3. active[c] \in Version
            BY <1>3 DEF EngineInv, Shape
        <3>4. active[c] <= Newest(c) + 1
            BY <3>2, <3>3, EngineAssumption DEF Version
        <3>. QED
            BY <3>2, <3>4
    <2>. QED
        BY <2>1, <2>2 DEF CompactionFails, store
<1>5. /\ top \in Version
      /\ <<c, top>> \in files'
      /\ \A v \in Version : <<c, v>> \in files' => v <= top
      /\ active[c] <= top
    <2>1. PICK v \in Version : <<c, v>> \in files' /\ active[c] <= v
        BY <1>4
    <2>2. /\ top \in {w \in Version : <<c, w>> \in files'}
          /\ \A w \in {u \in Version : <<c, u>> \in files'} : w <= top
        BY <2>1, MaxOf, EngineAssumption DEF Version
    <2>3. active[c] \in Version /\ v <= top
        BY <1>3, <2>1, <2>2 DEF EngineInv, Shape
    <2>4. active[c] <= top
        BY <2>1, <2>2, <2>3, EngineAssumption DEF Version
    <2>. QED
        BY <2>2, <2>4
<1>. HIDE DEF c, top
<1>6. /\ active' \in [Class -> Version]
      /\ active'[c] = top
      /\ \A d \in Class : d # c => active'[d] = active[d]
    BY <1>1, <1>3, <1>5 DEF EngineInv, Shape
<1>7. work'.todo = {} /\ work'.left = {} /\ Idle \in [todo : SUBSET Class, left : SUBSET Version]
    BY <1>1 DEF Idle
<1>8. Shape'
    BY <1>1, <1>2, <1>4, <1>6, <1>7 DEF EngineInv, Shape
<1>9. WorkInv' /\ QuietInv'
    BY <1>1, <1>7 DEF WorkInv, QuietInv
<1>10. ASSUME NEW d \in Class PROVE Settled(d)'
    <2>1. CASE d = c
        BY <1>5, <1>6, <2>1 DEF Settled
    <2>2. CASE d # c
        <3>1. Settled(d) /\ active[d] \in Version
            BY <1>1, <2>2 DEF EngineInv, ActiveInv, Shape, c
        <3>. QED
            BY <1>4, <1>6, <2>2, <3>1 DEF Settled
    <2>. QED
        BY <2>1, <2>2
<1>11. ActiveInv'
    <2>1. \A d \in Class : active'[d] \in Version /\ active'[d] <= active'[d]
        BY <1>6, EngineAssumption DEF Version
    <2>. QED
        BY <1>10, <2>1 DEF ActiveInv, Settled
<1>12. MissedIsOlder'
    <2>. SUFFICES ASSUME NEW k \in asked' \ (created' \cup relocated'), NEW g \in files',
                         k \in live'[g]
                  PROVE  g[2] < active'[g[1]]
        BY DEF MissedIsOlder
    <2>1. g[2] < active[g[1]]
        BY <1>4
    <2>2. g[1] \in Class /\ g[2] \in Version
        BY <1>4 DEF Gen
    <2>3. active[g[1]] \in Version /\ active'[g[1]] \in Version
        BY <1>6, <2>2 DEF EngineInv, Shape
    <2>4. active[g[1]] <= active'[g[1]]
        <3>1. \A v \in Version : v <= v
            BY EngineAssumption DEF Version
        <3>2. CASE g[1] = c
            BY <1>5, <1>6, <3>2
        <3>3. CASE g[1] # c
            BY <1>6, <2>2, <2>3, <3>1, <3>3
        <3>. QED
            BY <3>2, <3>3
    <2>. QED
        BY <2>1, <2>2, <2>3, <2>4, EngineAssumption DEF Version
<1>. QED
    BY <1>4, <1>8, <1>9, <1>11, <1>12 DEF EngineInv
-----------------------------------------------------------------------------
(* The life of an instance *)

\* The end of an instance keeps the files and forgets the rest.
LEMMA InstanceEndsKeeps ==
    ASSUME EngineInv, InstanceEnds
    PROVE  EngineInv'
<1>1. /\ open' = FALSE /\ latch' = "no" /\ work' = Idle /\ answer' = NoAnswer
      /\ active' = [d \in Class |-> 0]
      /\ asked' = {} /\ created' = {} /\ relocated' = {}
      /\ faults' = faults
      /\ UNCHANGED <<files, live>>
    BY DEF InstanceEnds, Works, store
<1>2. 0 \in Version /\ Idle \in [todo : SUBSET Class, left : SUBSET Version]
    BY EngineAssumption DEF Version, Idle
<1>3. Shape'
    BY <1>1, <1>2 DEF EngineInv, Shape
<1>. QED
    BY <1>1, <1>3
       DEF EngineInv, NoStrays, OneCopy, ActiveInv, WorkInv, QuietInv, MissedIsOlder, Idle

\* configure_internal gives every class a generation and makes its newest active.
LEMMA OpenKeeps ==
    ASSUME EngineInv, Open
    PROVE  EngineInv'
<1>. DEFINE made == {<<d, 0>> : d \in {e \in Class : Versions(e) = {}}}
<1>1. /\ ~open /\ open' = TRUE
      /\ files' = files \cup made
      /\ active' = [d \in Class |-> IF Versions(d) = {} THEN 0 ELSE Newest(d)]
      /\ faults' = faults
      /\ UNCHANGED <<live, latch, work, asked, answer, created, relocated>>
    BY DEF Open, Works
<1>2. 0 \in Version /\ \A v \in Version : v <= v
    BY EngineAssumption DEF Version
<1>3. made \subseteq Gen
    BY <1>2 DEF Gen
<1>4. \A g \in made : g \notin files
    BY <1>2 DEF Versions
<1>5. ASSUME NEW d \in Class PROVE active'[d] \in Version /\ Settled(d)'
    <2>1. CASE Versions(d) = {}
        <3>1. active'[d] = 0 /\ <<d, 0>> \in made
            BY <1>1, <2>1
        <3>2. ASSUME NEW v \in Version, <<d, v>> \in files' PROVE v = 0
            BY <1>1, <2>1, <3>2 DEF Versions
        <3>. QED
            BY <1>1, <1>2, <3>1, <3>2 DEF Settled
    <2>2. CASE Versions(d) # {}
        <3>1. PICK v \in Version : <<d, v>> \in files
            BY <2>2 DEF Versions
        <3>2. /\ Newest(d) \in Version
              /\ <<d, Newest(d)>> \in files
              /\ \A w \in Version : <<d, w>> \in files => w <= Newest(d)
            BY <3>1, NewestMember DEF EngineInv
        <3>3. active'[d] = Newest(d) /\ \A w \in Version : <<d, w>> \notin made
            BY <1>1, <2>2
        <3>. QED
            BY <1>1, <3>2, <3>3 DEF Settled
    <2>. QED
        BY <2>1, <2>2
<1>6. active' \in [Class -> Version]
    <2>. DEFINE value(d) == IF Versions(d) = {} THEN 0 ELSE Newest(d)
    <2>1. active' = [d \in Class |-> value(d)]
        BY <1>1
    <2>2. \A d \in Class : value(d) \in Version
        BY <1>5, <2>1
    <2>. HIDE DEF value
    <2>. QED
        BY <2>1, <2>2
<1>. HIDE DEF made
<1>7. Shape'
    BY <1>1, <1>3, <1>6 DEF EngineInv, Shape
<1>8. NoStrays'
    BY <1>1 DEF EngineInv, NoStrays
<1>9. OneCopy'
    BY <1>1, <1>3, <1>4 DEF EngineInv, NoStrays, OneCopy, Shape
<1>10. ActiveInv'
    BY <1>2, <1>5 DEF ActiveInv, Settled
<1>11. WorkInv' /\ QuietInv' /\ MissedIsOlder'
    BY <1>1 DEF EngineInv, WorkInv, QuietInv, MissedIsOlder
<1>. QED
    BY <1>7, <1>8, <1>9, <1>10, <1>11 DEF EngineInv
-----------------------------------------------------------------------------
(* The invariant *)

\* The invariant holds of a directory with no store in it.
LEMMA InitInv == Init => EngineInv
<1>. SUFFICES ASSUME Init PROVE EngineInv
    OBVIOUS
<1>1. 0 \in Version /\ 0 \in 0 .. MaxFaults
    BY EngineAssumption DEF Version
<1>. QED
    BY <1>1
       DEF Init, EngineInv, Shape, NoStrays, OneCopy, ActiveInv, WorkInv, QuietInv,
           MissedIsOlder, Idle

\* Every step keeps it.
LEMMA StepInv == EngineInv /\ [Next]_vars => EngineInv'
<1>. SUFFICES ASSUME EngineInv, [Next]_vars PROVE EngineInv'
    OBVIOUS
<1>1. CASE UNCHANGED vars
    <2>1. Shape'
        BY <1>1 DEF vars, EngineInv, Shape
    <2>. QED
        BY <1>1, <2>1
           DEF vars, EngineInv, NoStrays, OneCopy, ActiveInv, Settled, WorkInv, QuietInv,
               MissedIsOlder, Current
<1>2. ASSUME NEW k \in Key, NEW c \in Class, Fresh(k, c),
             \/ Insert(k, c) \/ InsertDuplicate(k, c) \/ InsertNoSpace(k, c)
             \/ RotationFails(k, c) \/ InsertCorrupts(k, c)
      PROVE  EngineInv'
    BY <1>2, InsertActions
<1>3. ASSUME NEW k \in Key, Find(k) PROVE EngineInv'
    BY <1>3, FindKeeps
<1>4. ASSUME Resolve(asked) \/ ResolveFails(asked) PROVE EngineInv'
    BY <1>4, ResolveKeeps
<1>5. ASSUME NEW K \in SUBSET Key, ApplyDeletes(K) PROVE EngineInv'
    BY <1>5, ApplyDeletesKeeps
<1>6. ASSUME CompactAll \/ MergeGroup \/ SkipVersion \/ ClassCompacted \/ CompactionFails
      PROVE  EngineInv'
    BY <1>6, CompactAllKeeps, MergeGroupKeeps, SkipVersionKeeps, ClassCompactedKeeps,
       CompactionFailsKeeps
<1>7. ASSUME InstanceEnds \/ Open PROVE EngineInv'
    BY <1>7, InstanceEndsKeeps, OpenKeeps
<1>. QED
    BY <1>1, <1>2, <1>3, <1>4, <1>5, <1>6, <1>7 DEF Next

\* The invariant holds in every state of every behaviour.
THEOREM EngineInvariant == Spec => []EngineInv
    BY InitInv, StepInv, PTL DEF Spec

\* OneCopy: rotations, retries after a refused allocation, merges, restarts and
\* partial batches never leave two copies of an outpoint.
THEOREM OneCopyHolds == Spec => []OneCopy
<1>1. EngineInv => OneCopy
    BY DEF EngineInv
<1>. QED
    BY <1>1, EngineInvariant, PTL
-----------------------------------------------------------------------------
(* What the operations answer *)

\* Because an outpoint has one copy, a batch that was walked in part takes from
\* every generation exactly the keys it reports erased; walked in full, it
\* erases every key of the batch that is stored.
LEMMA EraseExact ==
    ASSUME EngineInv, Usable, NEW K \in SUBSET Key, ApplyDeletes(K)
    PROVE  \E gone \in SUBSET K, complete \in BOOLEAN :
              /\ gone \subseteq Stored
              /\ complete => gone = K \cap Stored
              /\ \A g \in files : live'[g] = live[g] \ gone
              /\ answer' = [op |-> "delete", batch |-> K, erased |-> gone,
                            absent |-> IF complete THEN K \ gone ELSE {},
                            unresolved |-> IF complete THEN {} ELSE K \ gone]
<1>1. PICK bad, torn, part :
         /\ Erase(K, bad, torn, part)
         /\ \/ torn = {} /\ part = {}
            \/ \E g \in Older : torn = {g} /\ part \in SUBSET (live[g] \cap K)
    BY DEF ApplyDeletes
<1>. DEFINE whole == ActiveGens \cup ((Older \ bad) \ torn)
            gone == (UNION {live[g] \cap K : g \in whole}) \cup part
            complete == Complete(bad, torn)
<1>2. /\ live' = [g \in Gen |-> CASE g \in whole -> live[g] \ K
                                  [] g \in torn -> live[g] \ part
                                  [] OTHER -> live[g]]
      /\ answer' = [op |-> "delete", batch |-> K, erased |-> gone,
                    absent |-> IF complete THEN K \ gone ELSE {},
                    unresolved |-> IF complete THEN {} ELSE K \ gone]
    BY <1>1 DEF Erase
<1>3. files = ActiveGens \cup Older /\ ActiveGens \cap Older = {}
    BY ActiveOrOlder
<1>4. whole \subseteq files /\ torn \subseteq files /\ whole \cap torn = {}
    BY <1>1, <1>3
<1>5. complete \in BOOLEAN /\ (complete => torn = {} /\ whole = files)
    BY <1>3 DEF Complete
<1>6. \A g \in torn : part = live[g] \cap part
    BY <1>1
<1>7. \A k : k \in gone <=> (\E g \in whole : k \in live[g] \cap K) \/ k \in part
    OBVIOUS
<1>8. gone \subseteq K
    BY <1>1
<1>9. \A k \in part : \E g \in torn : k \in live[g]
    BY <1>1
<1>. HIDE DEF whole, complete
<1>10. gone \subseteq Stored
    BY <1>4, <1>7, <1>9 DEF Stored
<1>11. complete => gone = K \cap Stored
    <2>. SUFFICES ASSUME complete PROVE K \cap Stored \subseteq gone
        BY <1>8, <1>10
    <2>. QED
        BY <1>5, <1>7 DEF Stored
<1>12. ASSUME NEW g \in files PROVE live'[g] = live[g] \ gone
    <2>1. g \in Gen
        BY DEF EngineInv, Shape
    <2>2. \A h \in files : h # g => live[g] \cap live[h] = {}
        BY DEF EngineInv, OneCopy
    <2>3. CASE g \in whole
        <3>1. live'[g] = live[g] \ K
            BY <1>2, <1>4, <2>1, <2>3
        <3>. QED
            BY <1>7, <1>8, <2>3, <3>1
    <2>4. CASE g \in torn
        <3>1. live'[g] = live[g] \ part
            BY <1>2, <1>4, <2>1, <2>4
        <3>2. \A k \in live[g] : k \in gone => k \in part
            BY <1>4, <1>7, <2>2, <2>4
        <3>. QED
            BY <1>7, <3>1, <3>2
    <2>5. CASE g \notin whole /\ g \notin torn
        <3>1. live'[g] = live[g]
            BY <1>2, <2>1, <2>5
        <3>2. \A k \in live[g] : k \notin gone
            BY <1>4, <1>7, <1>9, <2>2, <2>5
        <3>. QED
            BY <3>1, <3>2
    <2>. QED
        BY <2>3, <2>4, <2>5
<1>. HIDE DEF gone
<1>. QED
    BY <1>2, <1>5, <1>8, <1>10, <1>11, <1>12

\* A deletion's lists come from apply_deletes and nowhere else, and a list of
\* absent outpoints from resolve: no step that leaves the answer standing
\* changes the store under it.
LEMMA AnswerFresh ==
    ASSUME EngineInv, Next
    PROVE  /\ answer'.op = "delete" => \E K \in SUBSET Key : ApplyDeletes(K)
           /\ answer'.op = "resolve" => Resolve(asked)
<1>1. NoAnswer.op = "none"
    BY DEF NoAnswer
<1>2. ASSUME NEW k \in Key, NEW c \in Class,
             \/ Insert(k, c) \/ InsertDuplicate(k, c) \/ InsertNoSpace(k, c)
             \/ RotationFails(k, c) \/ InsertCorrupts(k, c)
      PROVE  answer'.op \in {"insert", "error"}
    BY <1>2 DEF Insert, InsertDuplicate, InsertNoSpace, RotationFails, InsertCorrupts
<1>3. ASSUME NEW k \in Key, Find(k) PROVE answer'.op = "find"
    BY <1>3 DEF Find
<1>4. ASSUME ResolveFails(asked) PROVE answer'.op = "error"
    BY <1>4 DEF ResolveFails
<1>5. ASSUME NEW K \in SUBSET Key, ApplyDeletes(K) PROVE answer'.op = "delete"
    <2>1. \E gone, absent, unresolved :
             answer' = [op |-> "delete", batch |-> K, erased |-> gone, absent |-> absent,
                        unresolved |-> unresolved]
        BY <1>5, EraseExact DEF ApplyDeletes
    <2>. QED
        BY <2>1
<1>6. ASSUME Resolve(asked) PROVE answer'.op = "resolve"
    BY <1>6 DEF Resolve
<1>7. ASSUME CompactAll \/ InstanceEnds PROVE answer'.op = "none"
    BY <1>1, <1>7 DEF CompactAll, InstanceEnds
<1>8. ASSUME MergeGroup \/ ClassCompacted PROVE answer'.op = "none"
    BY <1>1, <1>8 DEF MergeGroup, ClassCompacted, EngineInv, QuietInv
<1>9. ASSUME SkipVersion PROVE answer'.op = "none"
    BY <1>1, <1>9 DEF SkipVersion, EngineInv, QuietInv, WorkInv
<1>10. ASSUME CompactionFails PROVE answer'.op = "error"
    BY <1>10 DEF CompactionFails
<1>11. ASSUME Open PROVE answer'.op = "none"
    BY <1>1, <1>11 DEF Open, EngineInv, QuietInv
<1>. QED
    BY <1>2, <1>3, <1>4, <1>5, <1>6, <1>7, <1>8, <1>9, <1>10, <1>11 DEF Next

\* DeletesClassified: apply_deletes puts every key of its batch in exactly one
\* list, the erased ones are gone and the absent ones nowhere, whatever failed.
THEOREM DeletesClassifiedHolds == Spec => []DeletesClassified
<1>1. Init => DeletesClassified
    BY DEF Init, DeletesClassified, NoAnswer
<1>2. EngineInv /\ DeletesClassified /\ [Next]_vars => DeletesClassified'
    <2>. SUFFICES ASSUME EngineInv, DeletesClassified, [Next]_vars PROVE DeletesClassified'
        OBVIOUS
    <2>1. CASE UNCHANGED vars
        BY <2>1 DEF vars, DeletesClassified, Stored
    <2>2. CASE Next
        <3>. SUFFICES ASSUME answer'.op = "delete" PROVE DeletesClassified'
            BY DEF DeletesClassified
        <3>1. PICK K \in SUBSET Key : ApplyDeletes(K)
            BY <2>2, AnswerFresh
        <3>2. Usable /\ files' = files
            BY <3>1 DEF ApplyDeletes
        <3>3. PICK gone \in SUBSET K, complete \in BOOLEAN :
                 /\ complete => gone = K \cap Stored
                 /\ \A g \in files : live'[g] = live[g] \ gone
                 /\ answer' = [op |-> "delete", batch |-> K, erased |-> gone,
                               absent |-> IF complete THEN K \ gone ELSE {},
                               unresolved |-> IF complete THEN {} ELSE K \ gone]
            BY <3>1, <3>2, EraseExact
        <3>4. \A k : k \in Stored' <=> k \in Stored /\ k \notin gone
            BY <3>2, <3>3 DEF Stored
        <3>5. (answer'.erased \cup answer'.absent) \cap Stored' = {}
            BY <3>3, <3>4
        <3>. QED
            BY <3>3, <3>5 DEF DeletesClassified
    <2>. QED
        BY <2>1, <2>2
<1>. QED
    BY <1>1, <1>2, EngineInvariant, PTL DEF Spec

\* AbsentUnlessMoved: a key that resolve calls absent is stored nowhere, unless
\* the caller inserted it, or a compaction moved it, since its find.
THEOREM AbsentUnlessMovedHolds == Spec => []AbsentUnlessMoved
<1>1. Init => AbsentUnlessMoved
    BY DEF Init, AbsentUnlessMoved, NoAnswer
<1>2. EngineInv /\ AbsentUnlessMoved /\ [Next]_vars => AbsentUnlessMoved'
    <2>. SUFFICES ASSUME EngineInv, AbsentUnlessMoved, [Next]_vars PROVE AbsentUnlessMoved'
        OBVIOUS
    <2>1. CASE UNCHANGED vars
        BY <2>1 DEF vars, AbsentUnlessMoved, Stored
    <2>2. CASE Next
        <3>. SUFFICES ASSUME answer'.op = "resolve" PROVE AbsentUnlessMoved'
            BY DEF AbsentUnlessMoved
        <3>1. Resolve(asked)
            BY <2>2, AnswerFresh
        <3>2. /\ answer'.absent = {k \in asked : \A g \in Older : k \notin live[g]}
              /\ UNCHANGED <<files, live, created, relocated>>
            BY <3>1 DEF Resolve, store
        <3>3. ASSUME NEW k \in asked, \A g \in Older : k \notin live[g],
                     NEW g \in files, k \in live[g]
              PROVE  k \in created \cup relocated
            BY <3>3 DEF EngineInv, MissedIsOlder, Older
        <3>. QED
            BY <3>2, <3>3 DEF AbsentUnlessMoved, Stored
    <2>. QED
        BY <2>1, <2>2
<1>. QED
    BY <1>1, <1>2, EngineInvariant, PTL DEF Spec
-----------------------------------------------------------------------------
(* The refinement of UtxoSet *)

\* In files with one copy of each outpoint, Where finds it.
LEMMA WhereIs ==
    ASSUME NEW fs, NEW content,
           \A g, h \in fs : g # h => content[g] \cap content[h] = {},
           NEW k \in Key
    PROVE  /\ \A g \in fs : k \in content[g] => Where(fs, content)[k] = g[1]
           /\ (\A g \in fs : k \notin content[g]) => Where(fs, content)[k] = Nowhere
<1>. DEFINE found == CHOOSE g \in fs : k \in content[g]
<1>1. Where(fs, content)[k] = IF \E g \in fs : k \in content[g] THEN found[1] ELSE Nowhere
    BY DEF Where
<1>2. ASSUME NEW g \in fs, k \in content[g] PROVE found = g
    <2>1. found \in fs /\ k \in content[found]
        BY <1>2
    <2>. QED
        BY <1>2, <2>1
<1>. QED
    BY <1>1, <1>2

\* Two states whose files hold the same outpoints in the same classes are the
\* same abstract set.
LEMMA WhereSame ==
    ASSUME NEW fs, NEW content, NEW fs2, NEW content2,
           \A g, h \in fs : g # h => content[g] \cap content[h] = {},
           \A g, h \in fs2 : g # h => content2[g] \cap content2[h] = {},
           \A k \in Key, g \in fs : k \in content[g] =>
               \E h \in fs2 : h[1] = g[1] /\ k \in content2[h],
           \A k \in Key, h \in fs2 : k \in content2[h] => \E g \in fs : k \in content[g]
    PROVE  Where(fs2, content2) = Where(fs, content)
<1>1. ASSUME NEW k \in Key PROVE Where(fs2, content2)[k] = Where(fs, content)[k]
    <2>1. CASE \E g \in fs : k \in content[g]
        <3>1. PICK g \in fs : k \in content[g]
            BY <2>1
        <3>2. PICK h \in fs2 : h[1] = g[1] /\ k \in content2[h]
            BY <3>1
        <3>3. Where(fs, content)[k] = g[1]
            BY <3>1, WhereIs
        <3>4. Where(fs2, content2)[k] = h[1]
            BY <3>2, WhereIs
        <3>. QED
            BY <3>2, <3>3, <3>4
    <2>2. CASE \A g \in fs : k \notin content[g]
        <3>1. \A h \in fs2 : k \notin content2[h]
            BY <2>2
        <3>2. Where(fs, content)[k] = Nowhere
            BY <2>2, WhereIs
        <3>3. Where(fs2, content2)[k] = Nowhere
            BY <3>1, WhereIs
        <3>. QED
            BY <3>2, <3>3
    <2>. QED
        BY <2>1, <2>2
<1>2. /\ Where(fs, content) = [k \in Key |-> Where(fs, content)[k]]
      /\ Where(fs2, content2) = [k \in Key |-> Where(fs2, content2)[k]]
    BY DEF Where
<1>. QED
    BY <1>1, <1>2

\* An outpoint is present in the abstract set when some generation holds it.
LEMMA PresentIsStored ==
    ASSUME EngineInv
    PROVE  Abstract!Present = Stored
<1>1. ASSUME NEW k \in Key, NEW g \in files, k \in live[g]
      PROVE  Where(files, live)[k] # Nowhere
    <2>1. Where(files, live)[k] = g[1]
        BY <1>1, WhereIs DEF EngineInv, OneCopy
    <2>2. g[1] \in Class
        BY DEF EngineInv, Shape, Gen
    <2>. QED
        BY <2>1, <2>2, EngineAssumption
<1>2. ASSUME NEW k \in Key, \A g \in files : k \notin live[g]
      PROVE  Where(files, live)[k] = Nowhere
    BY <1>2, WhereIs DEF EngineInv, OneCopy
<1>3. Stored \subseteq Key
    BY DEF EngineInv, Shape, Stored
<1>. QED
    BY <1>1, <1>2, <1>3 DEF Abstract!Present, Stored

\* A step that changes no entry is a step of the abstract set if its answer is.
LEMMA SameEntries ==
    ASSUME EngineInv, EngineInv', files \subseteq files',
           \A g \in files : live'[g] = live[g],
           \A g \in files' \ files : live'[g] = {}
    PROVE  Where(files', live') = Where(files, live)
<1>1. \A g, h \in files : g # h => live[g] \cap live[h] = {}
    BY DEF EngineInv, OneCopy
<1>2. \A g, h \in files' : g # h => live'[g] \cap live'[h] = {}
    BY DEF EngineInv, OneCopy
<1>3. \A k \in Key, g \in files : k \in live[g] =>
         \E h \in files' : h[1] = g[1] /\ k \in live'[h]
    OBVIOUS
<1>4. \A k \in Key, h \in files' : k \in live'[h] => \E g \in files : k \in live[g]
    OBVIOUS
<1>. QED
    BY <1>1, <1>2, <1>3, <1>4, WhereSame

\* One more entry in the files is one more entry in the abstract set.
LEMMA WhereAdds ==
    ASSUME NEW fs, NEW content, NEW fs2, NEW content2,
           \A g, h \in fs : g # h => content[g] \cap content[h] = {},
           \A g, h \in fs2 : g # h => content2[g] \cap content2[h] = {},
           NEW k \in Key, \A g \in fs : k \notin content[g],
           fs \subseteq fs2, \A g \in fs : content[g] \subseteq content2[g],
           NEW t \in fs2, k \in content2[t],
           \A h \in fs2, j \in Key :
               j \in content2[h] => j = k \/ \E g \in fs : j \in content[g]
    PROVE  /\ Where(fs, content)[k] = Nowhere
           /\ Where(fs2, content2) = [Where(fs, content) EXCEPT ![k] = t[1]]
<1>1. Where(fs, content)[k] = Nowhere
    BY WhereIs
<1>2. Where(fs2, content2)[k] = t[1]
    BY WhereIs
<1>3. ASSUME NEW j \in Key, j # k
      PROVE  Where(fs2, content2)[j] = Where(fs, content)[j]
    <2>1. CASE \E g \in fs : j \in content[g]
        <3>1. PICK g \in fs : j \in content[g]
            BY <2>1
        <3>2. g \in fs2 /\ j \in content2[g]
            BY <3>1
        <3>3. Where(fs, content)[j] = g[1]
            BY <3>1, WhereIs
        <3>4. Where(fs2, content2)[j] = g[1]
            BY <3>2, WhereIs
        <3>. QED
            BY <3>3, <3>4
    <2>2. CASE \A g \in fs : j \notin content[g]
        <3>1. \A h \in fs2 : j \notin content2[h]
            BY <1>3, <2>2
        <3>2. Where(fs, content)[j] = Nowhere
            BY <2>2, WhereIs
        <3>3. Where(fs2, content2)[j] = Nowhere
            BY <3>1, WhereIs
        <3>. QED
            BY <3>2, <3>3
    <2>. QED
        BY <2>1, <2>2
<1>4. /\ Where(fs, content) = [j \in Key |-> Where(fs, content)[j]]
      /\ Where(fs2, content2) = [j \in Key |-> Where(fs2, content2)[j]]
    BY DEF Where
<1>. QED
    BY <1>1, <1>2, <1>3, <1>4

\* An insertion that stores its key creates the abstract entry.
LEMMA EntryCreated ==
    ASSUME EngineInv, EngineInv', Usable, NEW k \in Key, NEW c \in Class,
           \A g \in files : k \notin live[g],
           NEW n \in Nat, Rotate(c, n),
           live'[<<c, active'[c]>>] = live[<<c, active'[c]>>] \cup {k},
           \A g \in Gen : g # <<c, active'[c]>> => live'[g] = live[g]
    PROVE  /\ Where(files, live)[k] = Nowhere
           /\ Where(files', live') = [Where(files, live) EXCEPT ![k] = c]
<1>. DEFINE t == <<c, active'[c]>>
<1>1. /\ files \subseteq files' /\ files' \subseteq Gen
      /\ \A g \in files' \ files : live[g] = {}
      /\ t \in files' /\ t[1] = c
    BY Rotated DEF Settled
<1>2. /\ live'[t] = live[t] \cup {k}
      /\ \A g \in Gen : g # t => live'[g] = live[g]
    OBVIOUS
<1>. HIDE DEF t
<1>3. \A g, h \in files : g # h => live[g] \cap live[h] = {}
    BY DEF EngineInv, OneCopy
<1>4. \A g, h \in files' : g # h => live'[g] \cap live'[h] = {}
    BY DEF EngineInv, OneCopy
<1>5. k \in live'[t] /\ \A g \in files : live[g] \subseteq live'[g]
    BY <1>1, <1>2
<1>6. \A h \in files', j \in Key :
         j \in live'[h] => j = k \/ \E g \in files : j \in live[g]
    BY <1>1, <1>2
<1>7. /\ Where(files, live)[k] = Nowhere
      /\ Where(files', live') = [Where(files, live) EXCEPT ![k] = t[1]]
    BY <1>1, <1>3, <1>4, <1>5, <1>6, WhereAdds
<1>. QED
    BY <1>1, <1>7

\* A merge moves entries inside their class: the abstract set stutters.
LEMMA MergeSame ==
    ASSUME EngineInv, EngineInv', open, work.todo # {},
           NEW V \in Prefixes, Merged(Current, V)
    PROVE  Where(files', live') = Where(files, live)
<1>. DEFINE c == Current
            t == <<c, Newest(c) + 1>>
            sources == {<<c, v>> : v \in V}
<1>1. /\ t \in Gen /\ t \notin files /\ t \notin sources
      /\ sources \subseteq files
      /\ files' = (files \cup {t}) \ sources
      /\ live'[t] = KeysOf(c, V)
      /\ \A g \in Gen : g # t /\ g \notin sources => live'[g] = live[g]
      /\ \A k : k \in KeysOf(c, V) <=> \E g \in sources : k \in live[g]
    BY MergedFacts
<1>2. t[1] = c /\ \A g \in sources : g[1] = c
    OBVIOUS
<1>3. files \subseteq Gen
    BY DEF EngineInv, Shape
<1>4. \A g, h \in files : g # h => live[g] \cap live[h] = {}
    BY DEF EngineInv, OneCopy
<1>5. \A g, h \in files' : g # h => live'[g] \cap live'[h] = {}
    BY DEF EngineInv, OneCopy
<1>. HIDE DEF c, t, sources
<1>6. ASSUME NEW k \in Key, NEW g \in files, k \in live[g]
      PROVE  \E h \in files' : h[1] = g[1] /\ k \in live'[h]
    <2>1. CASE g \in sources
        BY <1>1, <1>2, <1>6, <2>1
    <2>2. CASE g \notin sources
        BY <1>1, <1>3, <1>6, <2>2
    <2>. QED
        BY <2>1, <2>2
<1>7. ASSUME NEW k \in Key, NEW h \in files', k \in live'[h]
      PROVE  \E g \in files : k \in live[g]
    <2>1. CASE h = t
        BY <1>1, <1>7, <2>1
    <2>2. CASE h # t
        BY <1>1, <1>3, <1>7, <2>2
    <2>. QED
        BY <2>1, <2>2
<1>. QED
    BY <1>4, <1>5, <1>6, <1>7, WhereSame

\* insert, whatever comes of it, is a step of the abstract set.
LEMMA InsertRefines ==
    ASSUME EngineInv, EngineInv', NEW k \in Key, NEW c \in Class, Fresh(k, c),
           \/ Insert(k, c)
           \/ InsertDuplicate(k, c)
           \/ InsertNoSpace(k, c)
           \/ RotationFails(k, c)
           \/ InsertCorrupts(k, c)
    PROVE  Abstract!Next
<1>1. Needed(c) \in Nat /\ active[c] \in Nat /\ live \in [Gen -> SUBSET Key]
    BY EngineAssumption DEF Needed, EngineInv, Shape, Version
<1>2. ASSUME Usable, ~HasCopy(k, <<c, active[c]>>), NEW n \in Nat, Rotate(c, n),
             live' = [live EXCEPT ![<<c, active'[c]>>] = @ \cup {k}]
      PROVE  /\ Where(files, live)[k] = Nowhere
             /\ Where(files, live)' = [Where(files, live) EXCEPT ![k] = c]
    <2>1. <<c, active'[c]>> \in Gen
        BY <1>2, Rotated DEF Settled
    <2>2. /\ live'[<<c, active'[c]>>] = live[<<c, active'[c]>>] \cup {k}
          /\ \A g \in Gen : g # <<c, active'[c]>> => live'[g] = live[g]
        BY <1>1, <1>2, <2>1
    <2>3. \A g \in files : k \notin live[g]
        BY <1>2, NotStored
    <2>. QED
        BY <1>2, <2>2, <2>3, EntryCreated
<1>3. ASSUME Usable, NEW n \in Nat, Rotate(c, n), live' = live
      PROVE  Where(files, live)' = Where(files, live)
    <2>1. files \subseteq files' /\ \A g \in files' \ files : live[g] = {}
        BY <1>3, Rotated
    <2>. QED
        BY <1>3, <2>1, SameEntries
<1>4. CASE Insert(k, c)
    <2>1. PICK refused \in {0, 1} :
             /\ Usable
             /\ ~HasCopy(k, <<c, active[c]>>)
             /\ Rotate(c, Needed(c) + refused)
             /\ live' = [live EXCEPT ![<<c, active[c] + Needed(c) + refused>>] = @ \cup {k}]
             /\ answer' = [op |-> "insert", inserted |-> TRUE]
        BY <1>4 DEF Insert
    <2>2. Needed(c) + refused \in Nat
        BY <1>1
    <2>3. active'[c] = active[c] + (Needed(c) + refused)
        BY <2>1, <2>2, Rotated
    <2>4. active'[c] = active[c] + Needed(c) + refused
        BY <1>1, <2>1, <2>3
    <2>5. Abstract!Create(k, c)
        BY <1>2, <2>1, <2>2, <2>4 DEF Abstract!Create
    <2>. QED
        BY <2>5 DEF Abstract!Next
<1>5. CASE InsertDuplicate(k, c)
    <2>1. /\ HasCopy(k, <<c, active[c]>>)
          /\ answer' = [op |-> "insert", inserted |-> FALSE]
          /\ UNCHANGED <<files, live>>
        BY <1>5 DEF InsertDuplicate, store
    <2>2. k \in Abstract!Present
        BY <2>1, PresentIsStored DEF HasCopy, Stored
    <2>3. Abstract!AlreadyThere(k)
        BY <2>1, <2>2 DEF Abstract!AlreadyThere
    <2>. QED
        BY <2>3 DEF Abstract!Next
<1>6. ASSUME Where(files, live)' = Where(files, live), answer' = [op |-> "error"]
      PROVE  Abstract!Next
    BY <1>6 DEF Abstract!Next, Abstract!Nothing
<1>7. CASE InsertNoSpace(k, c)
    <2>1. Needed(c) + 1 \in Nat
        BY <1>1
    <2>. QED
        BY <1>3, <1>6, <1>7, <2>1 DEF InsertNoSpace
<1>8. CASE RotationFails(k, c)
    <2>1. CASE UNCHANGED <<files, active>>
        BY <1>6, <1>8, <2>1 DEF RotationFails
    <2>2. CASE Rotate(c, Needed(c))
        BY <1>1, <1>3, <1>6, <1>8, <2>2 DEF RotationFails
    <2>. QED
        BY <1>8, <2>1, <2>2 DEF RotationFails
<1>9. CASE InsertCorrupts(k, c)
    <2>1. PICK refused \in {0, 1} : Rotate(c, Needed(c) + refused)
        BY <1>9 DEF InsertCorrupts
    <2>2. PICK there \in SUBSET {k} :
             live' = [live EXCEPT ![<<c, active'[c]>>] = @ \cup there]
        BY <1>9 DEF InsertCorrupts
    <2>3. /\ Usable /\ ~HasCopy(k, <<c, active[c]>>)
          /\ answer' = [op |-> "error"]
        BY <1>9 DEF InsertCorrupts
    <2>4. Needed(c) + refused \in Nat
        BY <1>1
    <2>5. CASE there = {k}
        <3>1. Abstract!CreateInDoubt(k, c)
            BY <1>2, <2>1, <2>2, <2>3, <2>4, <2>5 DEF Abstract!CreateInDoubt
        <3>. QED
            BY <3>1 DEF Abstract!Next
    <2>6. CASE there = {}
        <3>1. <<c, active'[c]>> \in Gen
            BY <2>1, <2>3, <2>4, Rotated DEF Settled
        <3>2. live' = live
            BY <1>1, <2>2, <2>6, <3>1
        <3>. QED
            BY <1>3, <1>6, <2>1, <2>3, <2>4, <3>2
    <2>. QED
        BY <2>5, <2>6
<1>. QED
    BY <1>4, <1>5, <1>7, <1>8, <1>9

\* find and resolve report only what is there.
LEMMA ReadsRefine ==
    ASSUME EngineInv,
           (\E k \in Key : Find(k)) \/ Resolve(asked) \/ ResolveFails(asked)
    PROVE  Abstract!Next
<1>1. Where(files, live)' = Where(files, live)
    BY DEF Find, Resolve, ResolveFails, store
<1>2. ASSUME NEW k \in Key, Find(k) PROVE Abstract!Next
    <2>1. Hit(k) => k \in Stored
        BY <1>2, ActiveOrOlder DEF Find, Hit, Stored
    <2>2. Hit(k) \in BOOLEAN
        BY DEF Hit
    <2>3. answer' = [op |-> "find", key |-> k, hit |-> Hit(k)]
        BY <1>2 DEF Find
    <2>4. Abstract!Find(k)
        BY <1>1, <2>1, <2>2, <2>3, PresentIsStored DEF Abstract!Find
    <2>. QED
        BY <2>4 DEF Abstract!Next
<1>3. ASSUME Resolve(asked) PROVE Abstract!Next
    <2>. DEFINE found == {k \in asked : \E g \in Older : k \in live[g]}
    <2>1. asked \in SUBSET Key
        BY DEF EngineInv, Shape
    <2>2. {k \in asked : \A g \in Older : k \notin live[g]} = asked \ found
        OBVIOUS
    <2>3. answer' = [op |-> "resolve", found |-> found, absent |-> asked \ found]
        BY <1>3, <2>2 DEF Resolve
    <2>4. found \subseteq Stored
        BY DEF Older, Stored
    <2>. HIDE DEF found
    <2>5. found \in SUBSET asked
        BY DEF found
    <2>6. Abstract!Resolve(asked)
        BY <1>1, <2>3, <2>4, <2>5, PresentIsStored DEF Abstract!Resolve
    <2>. QED
        BY <2>1, <2>6 DEF Abstract!Next
<1>4. ASSUME ResolveFails(asked) PROVE Abstract!Next
    BY <1>1, <1>4 DEF ResolveFails, Abstract!Next, Abstract!Nothing
<1>. QED
    BY <1>2, <1>3, <1>4

\* apply_deletes spends what it reports erased.
LEMMA DeletesRefine ==
    ASSUME EngineInv, EngineInv', NEW K \in SUBSET Key, ApplyDeletes(K)
    PROVE  Abstract!Next
<1>1. Usable /\ files' = files
    BY DEF ApplyDeletes
<1>2. PICK gone \in SUBSET K, complete \in BOOLEAN :
         /\ gone \subseteq Stored
         /\ complete => gone = K \cap Stored
         /\ \A g \in files : live'[g] = live[g] \ gone
         /\ answer' = [op |-> "delete", batch |-> K, erased |-> gone,
                       absent |-> IF complete THEN K \ gone ELSE {},
                       unresolved |-> IF complete THEN {} ELSE K \ gone]
    BY <1>1, EraseExact
<1>3. \A g, h \in files : g # h => live[g] \cap live[h] = {}
    BY DEF EngineInv, OneCopy
<1>4. \A g, h \in files : g # h => live'[g] \cap live'[h] = {}
    BY <1>1 DEF EngineInv, OneCopy
<1>5. ASSUME NEW k \in Key
      PROVE  Where(files, live')[k] = IF k \in gone THEN Nowhere ELSE Where(files, live)[k]
    <2>1. CASE k \in gone
        <3>1. \A g \in files : k \notin live'[g]
            BY <1>2, <2>1
        <3>. QED
            BY <1>4, <2>1, <3>1, WhereIs
    <2>2. CASE k \notin gone /\ \E g \in files : k \in live[g]
        <3>1. PICK g \in files : k \in live[g]
            BY <2>2
        <3>2. k \in live'[g]
            BY <1>2, <2>2, <3>1
        <3>3. Where(files, live)[k] = g[1]
            BY <1>3, <3>1, WhereIs
        <3>4. Where(files, live')[k] = g[1]
            BY <1>4, <3>2, WhereIs
        <3>. QED
            BY <2>2, <3>3, <3>4
    <2>3. CASE k \notin gone /\ \A g \in files : k \notin live[g]
        <3>1. \A g \in files : k \notin live'[g]
            BY <1>2, <2>3
        <3>2. Where(files, live)[k] = Nowhere
            BY <1>3, <2>3, WhereIs
        <3>3. Where(files, live')[k] = Nowhere
            BY <1>4, <3>1, WhereIs
        <3>. QED
            BY <2>3, <3>2, <3>3
    <2>. QED
        BY <2>1, <2>2, <2>3
<1>6. Where(files, live') = [k \in Key |-> Where(files, live')[k]]
    BY DEF Where
<1>7. Where(files, live)' = [k \in Key |-> IF k \in gone THEN Nowhere
                                            ELSE Where(files, live)[k]]
    BY <1>1, <1>5, <1>6
<1>8. gone \subseteq Abstract!Present /\ (complete => gone = K \cap Abstract!Present)
    BY <1>2, PresentIsStored, SMT
<1>9. Abstract!Spend(K)
    BY <1>2, <1>7, <1>8 DEF Abstract!Spend
<1>. QED
    BY <1>9 DEF Abstract!Next

\* compact_all, the end of an instance and the next one change nothing.
LEMMA UpkeepRefines ==
    ASSUME EngineInv, EngineInv',
           \/ CompactAll \/ MergeGroup \/ SkipVersion \/ ClassCompacted \/ CompactionFails
           \/ InstanceEnds \/ Open
    PROVE  Abstract!Next \/ UNCHANGED <<Where(files, live), answer>>
<1>1. ASSUME UNCHANGED <<files, live>> PROVE Where(files, live)' = Where(files, live)
    BY <1>1
<1>2. CASE CompactAll \/ InstanceEnds
    BY <1>1, <1>2 DEF CompactAll, InstanceEnds, store, NoAnswer, Abstract!Next, Abstract!Nothing
<1>3. CASE SkipVersion \/ ClassCompacted
    BY <1>1, <1>3 DEF SkipVersion, ClassCompacted, store
<1>4. CASE MergeGroup
    <2>1. PICK V \in Prefixes : Merged(Current, V)
        BY <1>4 DEF MergeGroup
    <2>2. Where(files, live)' = Where(files, live)
        BY <1>4, <2>1, MergeSame DEF MergeGroup
    <2>. QED
        BY <1>4, <2>2 DEF MergeGroup
<1>5. CASE CompactionFails
    <2>1. open /\ work.todo # {} /\ answer' = [op |-> "error"]
        BY <1>5 DEF CompactionFails
    <2>2. CASE UNCHANGED <<files, live>>
        BY <1>1, <2>1, <2>2 DEF Abstract!Next, Abstract!Nothing
    <2>3. CASE \E V \in Prefixes : Merged(Current, V)
        <3>1. Where(files, live)' = Where(files, live)
            BY <2>1, <2>3, MergeSame
        <3>. QED
            BY <2>1, <3>1 DEF Abstract!Next, Abstract!Nothing
    <2>. QED
        BY <1>5, <2>2, <2>3 DEF CompactionFails, store
<1>6. CASE Open
    <2>. DEFINE made == {<<d, 0>> : d \in {e \in Class : Versions(e) = {}}}
    <2>1. files' = files \cup made /\ live' = live /\ answer' = answer
        BY <1>6 DEF Open
    <2>2. 0 \in Version
        BY EngineAssumption DEF Version
    <2>3. \A g \in made : g \in Gen /\ g \notin files
        BY <2>2 DEF Versions, Gen
    <2>4. \A g \in made : live[g] = {}
        BY <2>3 DEF EngineInv, NoStrays
    <2>. HIDE DEF made
    <2>5. Where(files, live)' = Where(files, live)
        BY <2>1, <2>4, SameEntries
    <2>. QED
        BY <2>1, <2>5
<1>. QED
    BY <1>2, <1>3, <1>4, <1>5, <1>6

\* ImplementsUtxoSet: whatever rotates, fails, is compacted or restarted, the
\* store's entries and answers are those of the abstract set.
THEOREM EngineImplementsUtxoSet == Spec => ImplementsUtxoSet
<1>1. Init => Abstract!Init
    <2>. SUFFICES ASSUME Init PROVE Abstract!Init
        OBVIOUS
    <2>1. Where(files, live) = [k \in Key |-> Nowhere]
        BY DEF Init, Where
    <2>. QED
        BY <2>1 DEF Init, Abstract!Init, NoAnswer
<1>2. EngineInv /\ EngineInv' /\ [Next]_vars
        => [Abstract!Next]_<<Where(files, live), answer>>
    <2>. SUFFICES ASSUME EngineInv, EngineInv', [Next]_vars
                  PROVE  Abstract!Next \/ UNCHANGED <<Where(files, live), answer>>
        OBVIOUS
    <2>1. CASE UNCHANGED vars
        BY <2>1 DEF vars
    <2>2. CASE Next
        BY <2>2, InsertRefines, ReadsRefine, DeletesRefine, UpkeepRefines DEF Next
    <2>. QED
        BY <2>1, <2>2
<1>. QED
    BY <1>1, <1>2, EngineInvariant, PTL DEF Spec, ImplementsUtxoSet, Abstract!Spec
-----------------------------------------------------------------------------
(* Counting *)

\* entries_count_ is a number, and the number of the entries there are as long as
\* the instance vouches for them; there are finitely many.
CountInv ==
    /\ IsFiniteSet(Stored)
    /\ count \in Nat
    /\ CountExact

\* A step that leaves the entries and their count alone keeps it.
LEMMA SameCount ==
    ASSUME CountInv, Stored' = Stored, count' = count, open' = open,
           latch' # "integrity" => latch # "integrity"
    PROVE  CountInv'
<1>1. IsFiniteSet(Stored)' /\ (count \in Nat)'
    BY DEF CountInv
<1>2. CountExact'
    BY DEF CountInv, CountExact
<1>. QED
    BY <1>1, <1>2 DEF CountInv

\* Generations made empty hold nothing.
LEMMA EmptyFilesAdded ==
    ASSUME files \subseteq files', \A g \in files : live'[g] = live[g],
           \A g \in files' \ files : live'[g] = {}
    PROVE  Stored' = Stored
    BY DEF Stored

\* What insert leaves stored: its key, if it puts it there, and what there was.
LEMMA InsertStores ==
    ASSUME EngineInv, Usable, NEW k \in Key, NEW c \in Class,
           NEW n \in Nat, Rotate(c, n), NEW there \in SUBSET {k},
           live' = [live EXCEPT ![<<c, active'[c]>>] = @ \cup there]
    PROVE  Stored' = Stored \cup there
<1>. DEFINE t == <<c, active'[c]>>
<1>1. /\ files \subseteq files' /\ files' \subseteq Gen
      /\ \A g \in files' \ files : live[g] = {}
      /\ t \in files'
    BY Rotated DEF Settled
<1>2. live \in [Gen -> SUBSET Key]
    BY DEF EngineInv, Shape
<1>3. /\ live'[t] = live[t] \cup there
      /\ \A g \in Gen : g # t => live'[g] = live[g]
    BY <1>1, <1>2
<1>. HIDE DEF t
<1>4. ASSUME NEW j PROVE j \in Stored' <=> j \in Stored \cup there
    <2>1. ASSUME NEW g \in files', j \in live'[g] PROVE j \in Stored \cup there
        BY <1>1, <1>3, <2>1 DEF Stored
    <2>2. ASSUME NEW g \in files, j \in live[g] PROVE j \in Stored'
        BY <1>1, <1>3, <2>2 DEF Stored
    <2>3. ASSUME j \in there PROVE j \in Stored'
        BY <1>1, <1>3, <2>3 DEF Stored
    <2>4. j \in Stored' => \E g \in files' : j \in live'[g]
        BY DEF Stored
    <2>5. j \in Stored => \E g \in files : j \in live[g]
        BY DEF Stored
    <2>. QED
        BY <2>1, <2>2, <2>3, <2>4, <2>5
<1>. QED
    BY <1>4

\* insert counts an entry exactly when it stores one, or gives the instance up.
LEMMA InsertCounts ==
    ASSUME EngineInv, CountInv, NEW k \in Key, NEW c \in Class, Fresh(k, c),
           \/ Insert(k, c)
           \/ InsertDuplicate(k, c)
           \/ InsertNoSpace(k, c)
           \/ RotationFails(k, c)
           \/ InsertCorrupts(k, c)
    PROVE  CountInv'
<1>1. Needed(c) \in Nat /\ active[c] \in Nat
    BY EngineAssumption DEF Needed, EngineInv, Shape, Version
<1>2. ASSUME Usable PROVE open /\ latch = "no" /\ count = Cardinality(Stored)
    BY <1>2 DEF Usable, CountInv, CountExact
<1>3. CASE Insert(k, c)
    <2>1. PICK refused \in {0, 1} :
             /\ Usable
             /\ ~HasCopy(k, <<c, active[c]>>)
             /\ Rotate(c, Needed(c) + refused)
             /\ live' = [live EXCEPT ![<<c, active[c] + Needed(c) + refused>>] = @ \cup {k}]
             /\ count' = count + 1
        BY <1>3 DEF Insert
    <2>2. Needed(c) + refused \in Nat
        BY <1>1
    <2>3. active'[c] = active[c] + (Needed(c) + refused)
        BY <2>1, <2>2, Rotated
    <2>4. active'[c] = active[c] + Needed(c) + refused
        BY <1>1, <2>1, <2>3
    <2>5. Stored' = Stored \cup {k}
        BY <2>1, <2>2, <2>4, InsertStores
    <2>6. k \notin Stored
        BY <2>1, NotStored DEF Stored
    <2>7. /\ IsFiniteSet(Stored \cup {k})
          /\ Cardinality(Stored \cup {k}) = Cardinality(Stored) + 1
        BY <2>6, FS_AddElement DEF CountInv
    <2>8. count' = Cardinality(Stored')
        BY <1>2, <2>1, <2>5, <2>7
    <2>9. IsFiniteSet(Stored') /\ count' \in Nat
        BY <2>1, <2>5, <2>7 DEF CountInv
    <2>. QED
        BY <2>8, <2>9 DEF CountInv, CountExact
<1>4. CASE InsertDuplicate(k, c)
    <2>1. UNCHANGED <<files, live, count, open, latch>>
        BY <1>4 DEF InsertDuplicate, store, instance
    <2>2. Stored' = Stored
        BY <2>1 DEF Stored
    <2>. QED
        BY <2>1, <2>2, SameCount
<1>5. ASSUME Usable, NEW n \in Nat, Rotate(c, n), live' = live PROVE Stored' = Stored
    <2>1. files \subseteq files' /\ \A g \in files' \ files : live[g] = {}
        BY <1>5, Rotated
    <2>. QED
        BY <1>5, <2>1, EmptyFilesAdded
<1>6. CASE InsertNoSpace(k, c)
    <2>1. Usable /\ Rotate(c, Needed(c) + 1) /\ live' = live /\ UNCHANGED <<count, open, latch>>
        BY <1>6 DEF InsertNoSpace
    <2>2. Needed(c) + 1 \in Nat
        BY <1>1
    <2>3. Stored' = Stored
        BY <1>5, <2>1, <2>2
    <2>. QED
        BY <2>1, <2>3, SameCount
<1>7. ASSUME latch' = "integrity", count' = count, IsFiniteSet(Stored') PROVE CountInv'
    BY <1>7 DEF CountInv, CountExact
<1>8. CASE RotationFails(k, c)
    <2>1. Usable /\ live' = live /\ latch' = "integrity" /\ count' = count
        BY <1>8 DEF RotationFails
    <2>2. CASE UNCHANGED <<files, active>>
        <3>1. Stored' = Stored
            BY <2>1, <2>2 DEF Stored
        <3>. QED
            BY <1>7, <2>1, <3>1 DEF CountInv
    <2>3. CASE Rotate(c, Needed(c))
        <3>1. Stored' = Stored
            BY <1>1, <1>5, <2>1, <2>3
        <3>. QED
            BY <1>7, <2>1, <3>1 DEF CountInv
    <2>. QED
        BY <1>8, <2>2, <2>3 DEF RotationFails
<1>9. CASE InsertCorrupts(k, c)
    <2>1. PICK refused \in {0, 1} : Rotate(c, Needed(c) + refused)
        BY <1>9 DEF InsertCorrupts
    <2>2. PICK there \in SUBSET {k} :
             live' = [live EXCEPT ![<<c, active'[c]>>] = @ \cup there]
        BY <1>9 DEF InsertCorrupts
    <2>3. Usable /\ latch' = "integrity" /\ count' = count
        BY <1>9 DEF InsertCorrupts
    <2>4. Needed(c) + refused \in Nat
        BY <1>1
    <2>5. Stored' = Stored \cup there
        BY <2>1, <2>2, <2>3, <2>4, InsertStores
    <2>6. IsFiniteSet(Stored \cup {k}) /\ Stored \cup there \subseteq Stored \cup {k}
        BY FS_AddElement DEF CountInv
    <2>7. IsFiniteSet(Stored')
        BY <2>5, <2>6, FS_Subset
    <2>. QED
        BY <1>7, <2>3, <2>7
<1>. QED
    BY <1>3, <1>4, <1>6, <1>8, <1>9

\* apply_deletes takes off the count what it takes out of the store, however much
\* of the batch it manages.
LEMMA DeletesCount ==
    ASSUME EngineInv, CountInv, NEW K \in SUBSET Key, ApplyDeletes(K)
    PROVE  CountInv'
<1>1. /\ Usable /\ files' = files /\ open' = open /\ latch' = latch
      /\ open /\ latch = "no" /\ count = Cardinality(Stored)
    BY DEF ApplyDeletes, Usable, CountInv, CountExact
<1>2. PICK gone \in SUBSET K, complete \in BOOLEAN :
         /\ gone \subseteq Stored
         /\ complete => gone = K \cap Stored
         /\ \A g \in files : live'[g] = live[g] \ gone
         /\ answer' = [op |-> "delete", batch |-> K, erased |-> gone,
                       absent |-> IF complete THEN K \ gone ELSE {},
                       unresolved |-> IF complete THEN {} ELSE K \ gone]
    BY <1>1, EraseExact
<1>3. count' = count - Cardinality(answer'.erased)
    <2>1. PICK bad, torn, part : Erase(K, bad, torn, part)
        BY DEF ApplyDeletes
    <2>. DEFINE whole == ActiveGens \cup ((Older \ bad) \ torn)
                taken == (UNION {live[g] \cap K : g \in whole}) \cup part
    <2>2. \E absent, unresolved :
             /\ count' = count - Cardinality(taken)
             /\ answer' = [op |-> "delete", batch |-> K, erased |-> taken,
                           absent |-> absent, unresolved |-> unresolved]
        BY <2>1 DEF Erase
    <2>. HIDE DEF taken
    <2>. QED
        BY <2>2
<1>4. answer'.erased = gone
    BY <1>2
<1>5. Stored' = Stored \ gone
    BY <1>1, <1>2 DEF Stored
<1>6. IsFiniteSet(Stored) /\ Stored \cap gone = gone
    BY <1>2, SMT DEF CountInv
<1>7. /\ IsFiniteSet(Stored \ gone)
      /\ Cardinality(Stored \ gone) = Cardinality(Stored) - Cardinality(gone)
    BY <1>6, FS_Difference
<1>8. IsFiniteSet(Stored') /\ Cardinality(Stored') \in Nat
    BY <1>5, <1>7, FS_CardinalityType
<1>9. count' = Cardinality(Stored')
    BY <1>1, <1>3, <1>4, <1>5, <1>7
<1>. QED
    BY <1>8, <1>9 DEF CountInv, CountExact

\* A merge moves entries and adds none.
LEMMA MergeStores ==
    ASSUME EngineInv, open, work.todo # {}, NEW V \in Prefixes, Merged(Current, V)
    PROVE  Stored' = Stored
<1>. DEFINE c == Current
            t == <<c, Newest(c) + 1>>
            sources == {<<c, v>> : v \in V}
<1>1. /\ t \in Gen /\ t \notin files /\ t \notin sources
      /\ sources \subseteq files
      /\ files' = (files \cup {t}) \ sources
      /\ live'[t] = KeysOf(c, V)
      /\ \A g \in Gen : g # t /\ g \notin sources => live'[g] = live[g]
      /\ \A k : k \in KeysOf(c, V) <=> \E g \in sources : k \in live[g]
    BY MergedFacts
<1>2. files \subseteq Gen
    BY DEF EngineInv, Shape
<1>. HIDE DEF t, sources
<1>3. ASSUME NEW k PROVE k \in Stored' <=> k \in Stored
    <2>1. ASSUME NEW g \in files', k \in live'[g] PROVE k \in Stored
        BY <1>1, <1>2, <2>1 DEF Stored
    <2>2. ASSUME NEW g \in files, k \in live[g] PROVE k \in Stored'
        <3>1. CASE g \in sources
            BY <1>1, <2>2, <3>1 DEF Stored
        <3>2. CASE g \notin sources
            BY <1>1, <1>2, <2>2, <3>2 DEF Stored
        <3>. QED
            BY <3>1, <3>2
    <2>3. k \in Stored' => \E g \in files' : k \in live'[g]
        BY DEF Stored
    <2>4. k \in Stored => \E g \in files : k \in live[g]
        BY DEF Stored
    <2>. QED
        BY <2>1, <2>2, <2>3, <2>4
<1>. QED
    BY <1>3

\* open() counts every generation, each entry once because it has one copy.
LEMMA OpenCounts ==
    ASSUME EngineInv, CountInv, Open
    PROVE  CountInv'
<1>. DEFINE made == {<<d, 0>> : d \in {e \in Class : Versions(e) = {}}}
            sizes == [g \in files |-> Cardinality(live[g])]
<1>1. /\ files' = files \cup made /\ live' = live
      /\ count' = SumFunction(sizes)
    BY DEF Open
<1>2. 0 \in Version
    BY EngineAssumption DEF Version
<1>3. \A g \in made : g \in Gen /\ g \notin files
    BY <1>2 DEF Versions, Gen
<1>4. \A g \in made : live[g] = {}
    BY <1>3 DEF EngineInv, NoStrays
<1>. HIDE DEF made
<1>5. Stored' = Stored
    BY <1>1, <1>4, EmptyFilesAdded
<1>6. IsFiniteSet(files)
    <2>1. IsFiniteSet(Version) /\ IsFiniteSet(Class)
        BY EngineAssumption, FS_Interval DEF Version
    <2>2. IsFiniteSet(Gen)
        BY <2>1, FS_Product DEF Gen
    <2>. QED
        BY <2>2, FS_Subset DEF EngineInv, Shape
<1>7. \A g \in files : IsFiniteSet(live[g])
    <2>1. \A g \in files : live[g] \subseteq Stored
        BY DEF Stored
    <2>. QED
        BY <2>1, FS_Subset DEF CountInv
<1>8. SumFunctionOnSet(sizes, files) = Cardinality(Stored)
    <2>1. \A g, h \in files : g # h => live[g] \cap live[h] = {}
        BY DEF EngineInv, OneCopy
    <2>2. UNION {live[g] : g \in files} = Stored
        BY DEF Stored
    <2>. QED
        BY <1>6, <1>7, <2>1, <2>2, SumOfDisjoint
<1>9. SumFunction(sizes) = SumFunctionOnSet(sizes, files)
    BY DEF SumFunction
<1>10. IsFiniteSet(Stored') /\ Cardinality(Stored') \in Nat
    BY <1>5, FS_CardinalityType DEF CountInv
<1>. HIDE DEF sizes
<1>11. count' = Cardinality(Stored')
    BY <1>1, <1>5, <1>8, <1>9
<1>. QED
    BY <1>10, <1>11 DEF CountInv, CountExact

\* compact_all runs in an instance that refuses nothing.
Unlatched == work.todo # {} => latch = "no"

\* It starts in one, and a failure that latches the instance also ends it.
LEMMA UnlatchedStep == Unlatched /\ [Next]_vars => Unlatched'
<1>. SUFFICES ASSUME Unlatched, [Next]_vars PROVE Unlatched'
    OBVIOUS
<1>1. CASE UNCHANGED vars
    BY <1>1 DEF vars, Unlatched
<1>2. Idle.todo = {}
    BY DEF Idle
<1>3. ASSUME NEW k \in Key, NEW c \in Class,
             \/ Insert(k, c) \/ InsertDuplicate(k, c) \/ InsertNoSpace(k, c)
             \/ RotationFails(k, c) \/ InsertCorrupts(k, c)
      PROVE  Unlatched'
    BY <1>2, <1>3
       DEF Insert, InsertDuplicate, InsertNoSpace, RotationFails, InsertCorrupts, Usable,
           instance, Unlatched
<1>4. ASSUME (\E k \in Key : Find(k)) \/ Resolve(asked) \/ ResolveFails(asked)
      PROVE  Unlatched'
    BY <1>4 DEF Find, Resolve, ResolveFails, instance, Unlatched
<1>5. ASSUME NEW K \in SUBSET Key, ApplyDeletes(K) PROVE Unlatched'
    BY <1>5 DEF ApplyDeletes, Unlatched
<1>6. ASSUME CompactAll PROVE Unlatched'
    BY <1>6 DEF CompactAll, Usable, Unlatched
<1>7. ASSUME MergeGroup PROVE Unlatched'
    BY <1>7 DEF MergeGroup, Unlatched
<1>8. ASSUME SkipVersion PROVE Unlatched'
    <2>1. work'.todo = work.todo /\ latch' = latch
        BY <1>8 DEF SkipVersion
    <2>. QED
        BY <2>1 DEF Unlatched
<1>9. ASSUME ClassCompacted PROVE Unlatched'
    BY <1>9 DEF ClassCompacted, Unlatched
<1>10. ASSUME CompactionFails \/ InstanceEnds PROVE Unlatched'
    BY <1>2, <1>10 DEF CompactionFails, InstanceEnds, Unlatched
<1>11. ASSUME Open PROVE Unlatched'
    BY <1>11 DEF Open, Unlatched
<1>. QED
    BY <1>1, <1>3, <1>4, <1>5, <1>6, <1>7, <1>8, <1>9, <1>10, <1>11 DEF Next

\* The entries are finitely many and counted, in every state of every behaviour.
THEOREM CountInvariant == Spec => []CountInv
<1>1. Init => CountInv
    <2>. SUFFICES ASSUME Init PROVE CountInv
        OBVIOUS
    <2>1. Stored = {} /\ ~open /\ count = 0
        BY DEF Init, Stored
    <2>. QED
        BY <2>1, FS_EmptySet DEF CountInv, CountExact
<1>2. EngineInv /\ Unlatched /\ CountInv /\ [Next]_vars => CountInv'
    <2>. SUFFICES ASSUME EngineInv, Unlatched, CountInv, [Next]_vars PROVE CountInv'
        OBVIOUS
    <2>1. ASSUME UNCHANGED <<files, live>> PROVE Stored' = Stored
        BY <2>1 DEF Stored
    <2>2. CASE UNCHANGED vars
        BY <2>1, <2>2, SameCount DEF vars
    <2>3. ASSUME NEW k \in Key, NEW c \in Class, Fresh(k, c),
                 \/ Insert(k, c) \/ InsertDuplicate(k, c) \/ InsertNoSpace(k, c)
                 \/ RotationFails(k, c) \/ InsertCorrupts(k, c)
          PROVE  CountInv'
        BY <2>3, InsertCounts
    <2>4. ASSUME (\E k \in Key : Find(k)) \/ Resolve(asked) \/ ResolveFails(asked)
          PROVE  CountInv'
        BY <2>1, <2>4, SameCount DEF Find, Resolve, ResolveFails, store, instance
    <2>5. ASSUME NEW K \in SUBSET Key, ApplyDeletes(K) PROVE CountInv'
        BY <2>5, DeletesCount
    <2>6. ASSUME CompactAll \/ SkipVersion \/ ClassCompacted PROVE CountInv'
        BY <2>1, <2>6, SameCount DEF CompactAll, SkipVersion, ClassCompacted, store
    <2>7. ASSUME MergeGroup PROVE CountInv'
        <3>1. Stored' = Stored
            BY <2>7, MergeStores DEF MergeGroup
        <3>. QED
            BY <2>7, <3>1, SameCount DEF MergeGroup
    <2>8. ASSUME CompactionFails PROVE CountInv'
        <3>1. open /\ work.todo # {} /\ UNCHANGED <<open, count>>
            BY <2>8 DEF CompactionFails
        <3>2. Stored' = Stored
            BY <2>1, <2>8, <3>1, MergeStores DEF CompactionFails, store
        <3>3. latch # "integrity"
            BY <3>1 DEF Unlatched
        <3>. QED
            BY <3>1, <3>2, <3>3, SameCount
    <2>9. ASSUME InstanceEnds PROVE CountInv'
        BY <2>1, <2>9 DEF InstanceEnds, store, CountInv, CountExact
    <2>10. ASSUME Open PROVE CountInv'
        BY <2>10, OpenCounts
    <2>. QED
        BY <2>2, <2>3, <2>4, <2>5, <2>6, <2>7, <2>8, <2>9, <2>10 DEF Next
<1>3. Init => Unlatched
    BY DEF Init, Idle, Unlatched
<1>. QED
    BY <1>1, <1>2, <1>3, UnlatchedStep, EngineInvariant, PTL DEF Spec

\* CountExact: entries_count_ is the number of entries stored, through rotations,
\* refused and failed inserts, batches erased in part, compactions that stop half
\* way and restarts, until the integrity latch says otherwise.
THEOREM CountExactHolds == Spec => []CountExact
<1>1. CountInv => CountExact
    BY DEF CountInv
<1>. QED
    BY <1>1, CountInvariant, PTL

\* Every variable has its type; above all, no batch takes the unsigned count below
\* zero.
THEOREM TypeCorrect == Spec => []TypeOK
<1>1. EngineInv /\ CountInv => TypeOK
    BY DEF EngineInv, Shape, CountInv, TypeOK
<1>. QED
    BY <1>1, EngineInvariant, CountInvariant, PTL
=============================================================================
