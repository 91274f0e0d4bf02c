------------------------- MODULE StoreOpeningProofs -------------------------
(***************************************************************************)
(* Opening a store, proved of StoreOpening for every set of processes and  *)
(* builds, every number of classes and every bound: the claim on the       *)
(* directory is exclusive, the identity on disk precedes the files that    *)
(* carry it, what is served is what this build of the library wrote for    *)
(* this store, all of it and counted, an inspection only settles the merge *)
(* it finds cut short, a refusal that blames the files has a cause outside *)
(* the library, and a metadata record covers the version it describes.     *)
(***************************************************************************)
EXTENDS StoreOpening, SetLemmas, TLAPS, FiniteSetTheorems

Kind == Class \cup {RefKind}
-----------------------------------------------------------------------------
(* The inductive invariant *)

Field ==
    {"pc", "mode", "how", "fd", "id", "cat", "held", "mapped", "todo", "at", "rotating",
     "count"}
IsProcess(r) == r = [f \in Field |-> r[f]]

Stamp ==
    {NoStamp, Damaged} \cup {LocalIdentity(b, i, n) : b \in Build, i \in Nat, n \in Name}
File ==
    [sized : BOOLEAN, stamp : Stamp, map : BOOLEAN, keys : SUBSET Key, by : Build \cup {NoBuild}]

ProcShape ==
    /\ proc = [p \in Proc |-> proc[p]]
    /\ \A p \in Proc : IsProcess(proc[p])

DiskShape ==
    /\ lockName \in Nat /\ inodes \in Nat
    /\ segs \in [DOMAIN segs -> File] /\ DOMAIN segs \subseteq Name
    /\ {wounded, strayed, torn} \subseteq BOOLEAN

\* A process that has opened the lock file holds the inode that has the name: no one
\* takes the name away.  One of them at most is past the claim.
ClaimInv ==
    /\ \A p \in Proc : proc[p].pc \notin {"idle", "claim"} =>
          lockName # 0 /\ proc[p].fd = lockName
    /\ OneClaimant

\* The calls of open() that may yet draw an identity.
Drawing == {p \in Proc : proc[p].pc \in {"claim", "flock", "clear", "config"}}

\* An identity is drawn once in a call, so none is that of a file from elsewhere.
MintInv ==
    /\ minted \in Nat /\ opens \in Nat /\ opens <= MaxOpens
    /\ IsFiniteSet(Drawing)
    /\ minted + Cardinality(Drawing) <= opens + 1
    /\ config.format = 2 => config.id \in 0 .. minted

\* A file of the library's own making carries the stamp of the build that made it,
\* or none yet; one brought in by hand carries one that does not fit.
Truthful(n) ==
    LET f == segs[n]
    IN /\ f.by \in Build /\ f.stamp # NoStamp =>
             \E i \in Nat : f.stamp = LocalIdentity(f.by, i, n)
       /\ f.map => f.stamp # NoStamp /\ f.sized
       /\ f.by = NoBuild =>
             /\ strayed /\ f.map
             /\ f.stamp = Damaged \/ f.stamp.id = MaxOpens + 2 \/ f.stamp.name # n

UnderWay == {proc[p].at : p \in {q \in Proc : Creating(q)}}

\* A file without its map is being created, or was when a creation was cut short.
FileInv ==
    \A n \in DOMAIN segs :
        /\ Truthful(n)
        /\ segs[n].map \/ torn \/ n \in UnderWay

DiskInv == IdentityKept /\ FileInv

\* The phases of a claimant whose identity is on disk, and of one with a catalogue.
Served == {"serve", "create", "size", "stamp", "map", "open", "latched"}
Settled == {"barrier", "catalogue"} \cup Served

\* A version this process may serve.
Own(p, n) ==
    /\ segs[n].by = BuildOf[p]
    /\ segs[n].map
    /\ segs[n].stamp.id = config.id /\ segs[n].stamp.name = n

\* A call of open() that has catalogued nothing yet.
Fresh(p) == proc[p].cat = {} /\ proc[p].mapped = {} /\ proc[p].rotating = FALSE

ConfigPart(p) ==
    /\ proc[p].pc \in Settled \cup {"clear", "config", "write", "publish"}
    /\ proc[p].mode \in {"full", "reference"}
    /\ proc[p].pc \in {"write", "publish"} => config = NoConfig /\ proc[p].id \in 0 .. minted
    /\ proc[p].pc \in Settled => config.format = 2 /\ proc[p].id = config.id
    /\ proc[p].pc \notin Served => Fresh(p)

\* The catalogue lists files that are there and, unless one was brought in by hand,
\* all of them; a class is served once all its versions have been opened.
CataloguePart(p) ==
    proc[p].pc \in Served =>
        /\ proc[p].cat \subseteq DOMAIN segs
        /\ \A n \in proc[p].cat : n[1] \in Kinds(proc[p].mode)
        /\ proc[p].mapped \subseteq Kinds(proc[p].mode)
        /\ proc[p].todo \subseteq Kinds(proc[p].mode)
        /\ \A n \in proc[p].cat : n[1] \in proc[p].todo \/ Own(p, n)
        /\ proc[p].pc # "latched" /\ ~strayed =>
              \A n \in DOMAIN segs : n[1] \in Kinds(proc[p].mode) =>
                  n \in proc[p].cat \/ (Creating(p) /\ n = proc[p].at)
        /\ proc[p].pc \in {"open", "latched"} => proc[p].todo = {}
        /\ proc[p].pc \in {"serve", "open"} => proc[p].rotating = FALSE

\* The version being created is a new one, and this process is making it.
CreationPart(p) ==
    /\ proc[p].pc \in {"create", "size", "stamp", "map"} =>
          /\ proc[p].at \in Name \ proc[p].cat
          /\ proc[p].at[1] \in Kinds(proc[p].mode)
          /\ proc[p].rotating \in BOOLEAN
          /\ proc[p].rotating => proc[p].todo = {}
          /\ \A m \in proc[p].cat : m[1] = proc[p].at[1] => m[1] \notin proc[p].todo
    /\ Creating(p) =>
          /\ proc[p].at \in DOMAIN segs
          /\ segs[proc[p].at].by = BuildOf[p]
          /\ ~segs[proc[p].at].map
          /\ proc[p].pc # "size" => segs[proc[p].at].sized
          /\ proc[p].pc = "map" =>
                segs[proc[p].at].stamp = LocalIdentity(BuildOf[p], proc[p].id, proc[p].at)

\* An inspection goes from the configuration to the catalogue and to serving, and
\* knows only records that are on disk.
InspectionPart(p) ==
    Inspecting(p) =>
        /\ proc[p].pc \in {"config", "catalogue", "serve", "open"}
        /\ proc[p].pc \in {"serve", "open"} =>
              \A n \in Name : proc[p].held[n] = Unknown \/ n \in DOMAIN metas

ClaimantInv(p) == ConfigPart(p) /\ CataloguePart(p) /\ CreationPart(p) /\ InspectionPart(p)

StartInv(p) ==
    proc[p].pc \in {"claim", "flock"} => proc[p].mode \in {"full", "reference"} /\ Fresh(p)

StoreInv ==
    /\ ProcShape /\ DiskShape /\ ClaimInv /\ MintInv /\ DiskInv
    /\ \A p \in Proc : StartInv(p) /\ (Claimed(p) => ClaimantInv(p))
-----------------------------------------------------------------------------
(* Classes, versions and names *)

\* A finite set of numbers is bounded: by the least number of elements of a set
\* that is not.
LEMMA FiniteBounded ==
    ASSUME NEW S \in SUBSET Nat, IsFiniteSet(S)
    PROVE  \E n \in Nat : S \subseteq 0 .. n
<1>. DEFINE Bounded(T) == \E n \in Nat : T \subseteq 0 .. n
<1>. DEFINE Bad ==
        {c \in Nat : \E T \in SUBSET S :
            IsFiniteSet(T) /\ Cardinality(T) = c /\ ~Bounded(T)}
<1>. SUFFICES ASSUME ~Bounded(S) PROVE FALSE
    OBVIOUS
<1>1. Cardinality(S) \in Bad
    BY FS_CardinalityType
<1>2. Min(Bad) \in Bad /\ \A c \in Bad : Min(Bad) <= c
    BY <1>1, MinOf
<1>3. PICK T \in SUBSET S : IsFiniteSet(T) /\ Cardinality(T) = Min(Bad) /\ ~Bounded(T)
    BY <1>2
<1>4. PICK x \in T : TRUE
    <2>1. Bounded({})
        OBVIOUS
    <2>2. T # {}
        BY <1>3, <2>1
    <2>. QED
        BY <2>2
<1>5. /\ IsFiniteSet(T \ {x}) /\ Cardinality(T \ {x}) = Cardinality(T) - 1
      /\ Cardinality(T) \in Nat /\ Cardinality(T \ {x}) \in Nat
    <2>. HIDE DEF Bad, Bounded
    <2>1. IsFiniteSet(T \ {x}) /\ Cardinality(T \ {x}) = Cardinality(T) - 1
        BY <1>3, <1>4, FS_RemoveElement
    <2>. QED
        BY <1>3, <2>1, FS_CardinalityType
<1>6. Bounded(T \ {x})
    <2>1. Cardinality(T \ {x}) \notin Bad
        <3>. DEFINE c == Cardinality(T)
                    d == Cardinality(T \ {x})
        <3>1. c \in Nat /\ d = c - 1 /\ \A e \in Bad : c <= e
            BY <1>2, <1>3, <1>5
        <3>. HIDE DEF Bad, c, d
        <3>2. d \notin Bad
            BY <3>1
        <3>. QED
            BY <3>2 DEF d
    <2>. QED
        BY <1>5, <2>1
<1>7. PICK n \in Nat : T \ {x} \subseteq 0 .. n
    BY <1>6
<1>8. x \in Nat /\ n + x \in Nat
    BY <1>4, <1>7
<1>9. T \subseteq 0 .. (n + x)
    <2>. SUFFICES ASSUME NEW y \in T PROVE y \in 0 .. (n + x)
        OBVIOUS
    <2>1. y = x \/ y \in 0 .. n
        BY <1>7
    <2>. QED
        BY <1>8, <2>1
<1>. QED
    BY <1>3, <1>8, <1>9

\* The kind of a reference container is a number that no class has.
LEMMA RefKindApart == RefKind \in Nat /\ RefKind \notin Class /\ Kind \subseteq Nat
<1>1. Class \in SUBSET Nat /\ Class # {} /\ IsFiniteSet(Class)
    BY OpeningAssumption
<1>2. PICK n \in Nat : Class \subseteq 0 .. n
    BY <1>1, FiniteBounded
<1>3. Max(Class) \in Class /\ \A x \in Class : x <= Max(Class)
    BY <1>1, <1>2, MaxOf
<1>4. Max(Class) \in Nat
    BY <1>1, <1>3
<1>5. RefKind \in Nat /\ RefKind \notin Class
    BY <1>3, <1>4 DEF RefKind
<1>. QED
    BY <1>1, <1>5 DEF Kind

\* The classes of a mode are among those there are.
LEMMA KindsOfMode ==
    ASSUME NEW mode
    PROVE  Kinds(mode) \subseteq Kind /\ Kinds(mode) \subseteq Nat /\ Kinds(mode) # {}
    BY RefKindApart, OpeningAssumption DEF Kinds, Kind

\* The class opened next is one of those left.
LEMMA TurnLeft ==
    ASSUME NEW p \in Proc, NEW mode, proc[p].todo \subseteq Kinds(mode), proc[p].todo # {}
    PROVE  Turn(p) \in proc[p].todo
    BY KindsOfMode, MinOf DEF Turn

\* The active version of a class is a version, and no catalogued one is newer.
LEMMA ActiveNewest ==
    ASSUME NEW cat \in SUBSET Name, NEW k
    PROVE  /\ ActiveOf(cat, k) \in Version
           /\ \A n \in cat : n[1] = k => n[2] <= ActiveOf(cat, k)
<1>. DEFINE S == VersionsOf(cat, k) \cup {0}
<1>1. MaxVersion \in Nat
    BY OpeningAssumption
<1>2. S \subseteq 0 .. MaxVersion /\ S # {}
    BY <1>1 DEF VersionsOf, Name, Version
<1>3. Max(S) \in S /\ \A x \in S : x <= Max(S)
    BY <1>1, <1>2, MaxOf
<1>4. \A n \in cat : n[1] = k => n[2] \in S
    BY DEF VersionsOf
<1>. QED
    BY <1>2, <1>3, <1>4 DEF ActiveOf, Version
-----------------------------------------------------------------------------
(* Identities and stamps *)

\* The epochs tell two builds apart in everything they may differ in.
LEMMA EpochsTellApart ==
    ASSUME NEW b \in Build, NEW c \in Build, Epochs(b) = Epochs(c)
    PROVE  b = c
    BY DEF Epochs, PlatformAbi, Build

\* A written stamp is neither the absent one nor a damaged one.
LEMMA StampsApart ==
    ASSUME NEW b, NEW i, NEW n
    PROVE  /\ LocalIdentity(b, i, n) # NoStamp /\ LocalIdentity(b, i, n) # Damaged
           /\ NoStamp # Damaged
           /\ LocalIdentity(b, i, n).epochs = Epochs(b)
           /\ LocalIdentity(b, i, n).id = i /\ LocalIdentity(b, i, n).name = n
    BY DEF LocalIdentity, NoStamp, Damaged

\* A file made by hand has no build.
LEMMA NoBuildApart == NoBuild \notin Build
    BY DEF NoBuild, Build

\* No mismatch of epochs is reported exactly when they are the same.
LEMMA EpochsCompared ==
    ASSUME NEW b, NEW c, EpochMismatch(Epochs(b), Epochs(c)) = "ok"
    PROVE  Epochs(b) = Epochs(c)
<1>. DEFINE t == Epochs(b)
            o == Epochs(c)
<1>1. t.geometry = o.geometry /\ t.layout = o.layout /\ t.hash = o.hash /\ t.abi = o.abi
    <2>. HIDE DEF t, o
    <2>1. EpochMismatch(t, o) = "ok"
        BY DEF t, o
    <2>. QED
        BY <2>1 DEF EpochMismatch
<1>. QED
    BY <1>1 DEF Epochs

\* What the three questions establish of a version that opens.
LEMMA OpensMeans ==
    ASSUME NEW f \in File, NEW expected, OpenVersion(f, expected) = "ok"
    PROVE  /\ f.map
           /\ f.stamp # NoStamp /\ f.stamp # Damaged
           /\ EpochMismatch(f.stamp.epochs, expected.epochs) = "ok"
           /\ f.stamp.id = expected.id /\ f.stamp.name = expected.name
<1>1. ValidateStamp(f.stamp, expected) = "ok" /\ FindSingleNamed(f) = "ok"
    BY DEF OpenVersion
<1>2. f.map
    BY <1>1 DEF FindSingleNamed, File
<1>3. DecodeStamp(f.stamp) = "ok" => f.stamp # Damaged
    BY DEF DecodeStamp
<1>. QED
    BY <1>1, <1>2, <1>3 DEF ValidateStamp

\* And of the refusal for one that does not.
LEMMA RefusalMeans ==
    ASSUME NEW f \in File, NEW expected
    PROVE  /\ OpenVersion(f, expected) = "segment_stamp_missing" => f.stamp = NoStamp
           /\ OpenVersion(f, expected) = "version_unreadable" => ~f.map
           /\ OpenVersion(f, expected) = "segment_stamp_corrupt" => f.stamp = Damaged
           /\ OpenVersion(f, expected) = "database_identity_mismatch" =>
                 f.stamp # NoStamp /\ f.stamp # Damaged /\ f.stamp.id # expected.id
           /\ OpenVersion(f, expected) = "segment_misplaced" =>
                 f.stamp # NoStamp /\ f.stamp # Damaged /\ f.stamp.name # expected.name
           /\ OpenVersion(f, expected) = "file_open_failed" => ~f.sized
           /\ OpenVersion(f, expected) \notin {"identity_collision", "storage_mode_mismatch",
                                                "recovery_failed"}
<1>. DEFINE e == EpochMismatch(f.stamp.epochs, expected.epochs)
            Epochal == {"geometry_mismatch", "layout_mismatch", "hash_mismatch",
                        "abi_mismatch", "ok"}
<1>1. e \in Epochal
    BY DEF EpochMismatch
<1>2. DecodeStamp(f.stamp) = IF f.stamp = Damaged THEN "segment_stamp_corrupt" ELSE "ok"
    BY DEF DecodeStamp
<1>3. /\ OpenExistingSegment(f) \in {"ok", "file_open_failed"}
      /\ OpenExistingSegment(f) = "file_open_failed" => ~f.sized
      /\ FindSingleNamed(f) \in {"ok", "version_unreadable"}
      /\ FindSingleNamed(f) = "version_unreadable" => ~f.map
    BY DEF OpenExistingSegment, FindSingleNamed, File
<1>. HIDE DEF e
<1>4. ValidateStamp(f.stamp, expected) =
        IF f.stamp = NoStamp THEN "segment_stamp_missing"
        ELSE IF f.stamp = Damaged THEN "segment_stamp_corrupt"
        ELSE IF e # "ok" THEN e
        ELSE IF f.stamp.id # expected.id THEN "database_identity_mismatch"
        ELSE IF f.stamp.name # expected.name THEN "segment_misplaced"
        ELSE "ok"
    BY <1>2 DEF ValidateStamp, e
<1>. QED
    BY <1>1, <1>3, <1>4 DEF OpenVersion
-----------------------------------------------------------------------------
(* One process moves *)

\* A destroyed instance is a process record like any other.
LEMMA GoneIsProcess == IsProcess(Gone) /\ Gone.pc = "idle"
    BY DEF IsProcess, Field, Gone

\* The others stay as they are.
LEMMA OneMoves ==
    ASSUME ProcShape, NEW p \in Proc, NEW r, IsProcess(r), proc' = [proc EXCEPT ![p] = r]
    PROVE  /\ ProcShape'
           /\ proc'[p] = r
           /\ \A q \in Proc : q # p => proc'[q] = proc[q]
    BY DEF ProcShape

\* A step of the claimant after which it still is: it is the only one, and what is
\* being created, if anything, is its own.
LEMMA ClaimantMoves ==
    ASSUME ProcShape, ClaimInv, \A q \in Proc : StartInv(q),
           NEW p \in Proc, Claimed(p), lockName' = lockName,
           NEW r, IsProcess(r), proc' = [proc EXCEPT ![p] = r],
           r.pc \notin {"idle", "claim", "flock"}, r.fd = proc[p].fd
    PROVE  /\ ProcShape' /\ ClaimInv' /\ \A q \in Proc : StartInv(q)'
           /\ proc'[p] = r
           /\ \A q \in Proc : Claimed(q)' => q = p
           /\ UnderWay = {proc[q].at : q \in {s \in {p} : Creating(s)}}
           /\ UnderWay' = {proc'[q].at : q \in {s \in {p} : Creating(s)'}}
           /\ Drawing' \subseteq Drawing \cup {p}
           /\ r.pc \notin {"clear", "config"} => Drawing' = Drawing \ {p}
<1>1. ProcShape' /\ proc'[p] = r /\ \A q \in Proc : q # p => proc'[q] = proc[q]
    BY OneMoves
<1>2. \A q \in Proc : Claimed(q) => q = p
    BY DEF ClaimInv, OneClaimant
<1>3. \A q \in Proc : Claimed(q)' => q = p
    BY <1>1, <1>2 DEF Claimed
<1>4. ClaimInv'
    BY <1>1, <1>3 DEF ClaimInv, OneClaimant, Claimed
<1>5. \A q \in Proc : StartInv(q)'
    BY <1>1 DEF StartInv, Fresh
<1>6. \A q \in Proc : (Creating(q) => q = p) /\ (Creating(q)' => q = p)
    BY <1>2, <1>3 DEF Creating, Claimed
<1>7. UnderWay = {proc[q].at : q \in {s \in {p} : Creating(s)}}
    BY <1>6 DEF UnderWay
<1>8. UnderWay' = {proc'[q].at : q \in {s \in {p} : Creating(s)'}}
    BY <1>6 DEF UnderWay
<1>9. Drawing' \subseteq Drawing \cup {p}
    BY <1>1 DEF Drawing
<1>10. r.pc \notin {"clear", "config"} => Drawing' = Drawing \ {p}
    BY <1>1 DEF Drawing
<1>. QED
    BY <1>1, <1>3, <1>4, <1>5, <1>7, <1>8, <1>9, <1>10

\* A step by which the claimant goes: nobody is past the claim, and nothing is
\* being created.
LEMMA ClaimantGoes ==
    ASSUME ProcShape, ClaimInv, \A q \in Proc : StartInv(q),
           NEW p \in Proc, Claimed(p), lockName' = lockName,
           proc' = [proc EXCEPT ![p] = Gone]
    PROVE  /\ ProcShape' /\ ClaimInv' /\ \A q \in Proc : StartInv(q)'
           /\ proc'[p] = Gone
           /\ \A q \in Proc : ~Claimed(q)'
           /\ UnderWay = {proc[q].at : q \in {s \in {p} : Creating(s)}}
           /\ UnderWay' = {}
           /\ Drawing' = Drawing \ {p}
<1>1. /\ ProcShape' /\ proc'[p] = Gone /\ \A q \in Proc : q # p => proc'[q] = proc[q]
      /\ Gone.pc = "idle"
    BY OneMoves, GoneIsProcess
<1>2. \A q \in Proc : Claimed(q) => q = p
    BY DEF ClaimInv, OneClaimant
<1>3. \A q \in Proc : ~Claimed(q)'
    BY <1>1, <1>2 DEF Claimed
<1>4. ClaimInv'
    BY <1>1, <1>3 DEF ClaimInv, OneClaimant, Claimed
<1>5. \A q \in Proc : StartInv(q)'
    BY <1>1 DEF StartInv, Fresh
<1>6. \A q \in Proc : (Creating(q) => q = p) /\ ~Creating(q)'
    BY <1>2, <1>3 DEF Creating, Claimed
<1>7. UnderWay = {proc[q].at : q \in {s \in {p} : Creating(s)}}
    BY <1>6 DEF UnderWay
<1>8. UnderWay' = {}
    BY <1>6 DEF UnderWay
<1>9. Drawing' = Drawing \ {p}
    BY <1>1 DEF Drawing
<1>. QED
    BY <1>1, <1>3, <1>4, <1>5, <1>7, <1>8, <1>9

\* No identity is drawn, and no call begins.
LEMMA MintKept ==
    ASSUME MintInv, Drawing' \subseteq Drawing, minted' = minted, opens' = opens,
           config'.format = 2 => config'.id \in 0 .. minted
    PROVE  MintInv'
<1>1. /\ IsFiniteSet(Drawing') /\ Cardinality(Drawing') <= Cardinality(Drawing)
      /\ Cardinality(Drawing') \in Nat /\ Cardinality(Drawing) \in Nat
    <2>1. IsFiniteSet(Drawing)
        BY DEF MintInv
    <2>2. IsFiniteSet(Drawing') /\ Cardinality(Drawing') <= Cardinality(Drawing)
        BY <2>1, FS_Subset
    <2>. QED
        BY <2>1, <2>2, FS_CardinalityType
<1>. QED
    BY <1>1 DEF MintInv

\* What a step of the claimant has to establish, beside what follows from its being
\* the only one.
LEMMA ClaimantStep ==
    ASSUME StoreInv, NEW p \in Proc, Claimed(p), lockName' = lockName,
           NEW r, IsProcess(r), proc' = [proc EXCEPT ![p] = r],
           r.pc \notin {"idle", "claim", "flock"}, r.fd = proc[p].fd,
           r.pc \in {"clear", "config"} => proc[p].pc \in {"clear", "config"},
           minted' = minted, opens' = opens,
           config'.format = 2 => config'.id \in 0 .. minted,
           DiskShape', IdentityKept', ClaimantInv(p)',
           \A n \in DOMAIN segs' : Truthful(n)',
           \A n \in DOMAIN segs' : segs'[n].map \/ torn' \/ (Creating(p)' /\ n = r.at)
    PROVE  StoreInv'
<1>1. ProcShape /\ ClaimInv /\ MintInv /\ \A q \in Proc : StartInv(q)
    BY DEF StoreInv
<1>2. /\ ProcShape' /\ ClaimInv' /\ \A q \in Proc : StartInv(q)'
      /\ proc'[p] = r
      /\ \A q \in Proc : Claimed(q)' => q = p
      /\ UnderWay' = {proc'[q].at : q \in {s \in {p} : Creating(s)'}}
      /\ Drawing' \subseteq Drawing \cup {p}
      /\ r.pc \notin {"clear", "config"} => Drawing' = Drawing \ {p}
    BY <1>1, ClaimantMoves
<1>3. Drawing' \subseteq Drawing
    BY <1>2 DEF Drawing
<1>4. MintInv'
    BY <1>1, <1>3, MintKept
<1>5. Creating(p)' => r.at \in UnderWay'
    BY <1>2
<1>6. FileInv'
    BY <1>5 DEF FileInv
<1>7. \A q \in Proc : Claimed(q)' => ClaimantInv(q)'
    BY <1>2
<1>. QED
    BY <1>2, <1>4, <1>6, <1>7 DEF StoreInv, DiskInv

\* What is left to establish when the claimant goes.
LEMMA ClaimantLeaves ==
    ASSUME StoreInv, NEW p \in Proc, Claimed(p), lockName' = lockName,
           proc' = [proc EXCEPT ![p] = Gone],
           minted' = minted, opens' = opens,
           config'.format = 2 => config'.id \in 0 .. minted,
           DiskShape', IdentityKept',
           \A n \in DOMAIN segs' : Truthful(n)' /\ (segs'[n].map \/ torn')
    PROVE  StoreInv'
<1>1. ProcShape /\ ClaimInv /\ MintInv /\ \A q \in Proc : StartInv(q)
    BY DEF StoreInv
<1>2. /\ ProcShape' /\ ClaimInv' /\ \A q \in Proc : StartInv(q)'
      /\ \A q \in Proc : ~Claimed(q)'
      /\ Drawing' = Drawing \ {p}
    BY <1>1, ClaimantGoes
<1>3. MintInv'
    BY <1>1, <1>2, MintKept
<1>4. FileInv'
    BY DEF FileInv
<1>. QED
    BY <1>2, <1>3, <1>4 DEF StoreInv, DiskInv

\* A claimant that creates nothing goes and leaves the files as they are.
LEMMA ClaimantEnds ==
    ASSUME StoreInv, NEW p \in Proc, Claimed(p), ~Creating(p),
           proc' = [proc EXCEPT ![p] = Gone],
           UNCHANGED <<lockName, inodes, config, segs, minted, opens, wounded, strayed>>,
           torn => torn', torn' \in BOOLEAN
    PROVE  StoreInv'
<1>1. ProcShape /\ ClaimInv /\ MintInv /\ DiskInv /\ DiskShape /\ \A q \in Proc : StartInv(q)
    BY DEF StoreInv
<1>2. UnderWay = {}
    <2>1. UnderWay = {proc[q].at : q \in {s \in {p} : Creating(s)}}
        BY <1>1, ClaimantGoes
    <2>. QED
        BY <2>1
<1>3. DiskShape'
    BY <1>1 DEF DiskShape
<1>4. IdentityKept'
    BY <1>1 DEF DiskInv, IdentityKept
<1>5. \A n \in DOMAIN segs' : Truthful(n)' /\ (segs'[n].map \/ torn')
    <2>1. \A n \in DOMAIN segs : Truthful(n) /\ (segs[n].map \/ torn)
        BY <1>1, <1>2 DEF DiskInv, FileInv
    <2>2. \A n \in DOMAIN segs : Truthful(n)'
        BY <2>1 DEF Truthful
    <2>. QED
        BY <2>1, <2>2
<1>6. config'.format = 2 => config'.id \in 0 .. minted
    BY <1>1 DEF MintInv
<1>. QED
    BY <1>3, <1>4, <1>5, <1>6, ClaimantLeaves

\* A claimant that creates nothing goes on and leaves the files as they are.
LEMMA ClaimantGoesOn ==
    ASSUME StoreInv, NEW p \in Proc, Claimed(p), ~Creating(p),
           NEW r, IsProcess(r), proc' = [proc EXCEPT ![p] = r],
           r.pc \notin {"idle", "claim", "flock", "size", "stamp", "map"},
           r.fd = proc[p].fd,
           r.pc \in {"clear", "config"} => proc[p].pc \in {"clear", "config"},
           UNCHANGED <<lockName, inodes, config, segs, minted, opens, wounded, strayed, torn>>,
           ClaimantInv(p)'
    PROVE  StoreInv'
<1>1. ProcShape /\ ClaimInv /\ MintInv /\ DiskInv /\ DiskShape /\ \A q \in Proc : StartInv(q)
    BY DEF StoreInv
<1>2. UnderWay = {}
    <2>1. UnderWay = {proc[q].at : q \in {s \in {p} : Creating(s)}}
        BY <1>1, ClaimantMoves
    <2>. QED
        BY <2>1
<1>3. DiskShape'
    BY <1>1 DEF DiskShape
<1>4. IdentityKept'
    BY <1>1 DEF DiskInv, IdentityKept
<1>5. \A n \in DOMAIN segs : Truthful(n) /\ (segs[n].map \/ torn)
    BY <1>1, <1>2 DEF DiskInv, FileInv
<1>6. \A n \in DOMAIN segs' : Truthful(n)'
    BY <1>5 DEF Truthful
<1>7. \A n \in DOMAIN segs' : segs'[n].map \/ torn' \/ (Creating(p)' /\ n = r.at)
    BY <1>5
<1>8. config'.format = 2 => config'.id \in 0 .. minted
    BY <1>1 DEF MintInv
<1>. QED
    BY <1>3, <1>4, <1>6, <1>7, <1>8, ClaimantStep

\* The parts of the invariant that hold of a claimant.
LEMMA OfClaimant ==
    ASSUME StoreInv, NEW p \in Proc, Claimed(p)
    PROVE  /\ ConfigPart(p) /\ CataloguePart(p) /\ CreationPart(p) /\ InspectionPart(p)
           /\ IsProcess(proc[p])
    BY DEF StoreInv, ClaimantInv, ProcShape
-----------------------------------------------------------------------------
(* The configuration *)

\* The configuration is taken for the store's own, or the opening is refused.
LEMMA ReadConfigKeeps ==
    ASSUME StoreInv, NEW p \in Proc, ReadConfig(p)
    PROVE  StoreInv'
<1>1. Claimed(p) /\ ~Creating(p) /\ proc[p].pc = "config"
    BY DEF ReadConfig, Claimed, Creating
<1>2. /\ ConfigPart(p) /\ CataloguePart(p) /\ CreationPart(p) /\ InspectionPart(p)
      /\ IsProcess(proc[p])
    BY <1>1, OfClaimant
<1>3. UNCHANGED <<lockName, inodes, config, segs, minted, opens, wounded, strayed, torn, metas>>
    BY DEF ReadConfig, disk, bounds, history
<1>4. CASE Refuse(p, ConfigRefusal(p))
    BY <1>1, <1>3, <1>4, ClaimantEnds DEF Refuse, StoreInv, DiskShape
<1>5. CASE /\ ConfigRefusal(p) = "ok"
           /\ Becomes(p, [proc[p] EXCEPT !.pc = "catalogue", !.id = config.id])
    <2>. DEFINE r == [proc[p] EXCEPT !.pc = "catalogue", !.id = config.id]
    <2>1. /\ IsProcess(r) /\ r.pc = "catalogue" /\ r.id = config.id
          /\ r.fd = proc[p].fd /\ r.mode = proc[p].mode /\ r.how = proc[p].how
          /\ r.mapped = proc[p].mapped /\ r.cat = proc[p].cat /\ r.rotating = proc[p].rotating
        BY <1>2 DEF IsProcess, Field
    <2>2. proc' = [proc EXCEPT ![p] = r]
        BY <1>5 DEF Becomes
    <2>. HIDE DEF r
    <2>3. proc'[p] = r
        BY <2>1, <2>2, OneMoves DEF StoreInv
    <2>4. config.format = 2
        BY <1>5 DEF ConfigRefusal, ReadConfigFile
    <2>5. ConfigPart(p)'
        BY <1>1, <1>2, <1>3, <2>1, <2>3, <2>4 DEF ConfigPart, Fresh, Settled, Served
    <2>6. CataloguePart(p)' /\ CreationPart(p)'
        BY <2>1, <2>3 DEF CataloguePart, CreationPart, Served, Creating
    <2>7. InspectionPart(p)'
        BY <2>1, <2>3 DEF InspectionPart, Inspecting
    <2>. QED
        BY <1>1, <1>3, <2>1, <2>2, <2>5, <2>6, <2>7, ClaimantGoesOn DEF ClaimantInv
<1>. QED
    BY <1>4, <1>5 DEF ReadConfig

\* The barrier after the configuration was published moves the claimant on, nothing else.
LEMMA ConfigBarrierKeeps ==
    ASSUME StoreInv, NEW p \in Proc, ConfigBarrier(p)
    PROVE  StoreInv'
<1>1. Claimed(p) /\ ~Creating(p)
    BY DEF ConfigBarrier, Claimed, Creating
<1>2. /\ ConfigPart(p) /\ CataloguePart(p) /\ CreationPart(p) /\ InspectionPart(p)
      /\ IsProcess(proc[p])
    BY <1>1, OfClaimant
<1>3. UNCHANGED <<lockName, inodes, config, segs, minted, opens, wounded, strayed, torn, metas>>
    BY DEF ConfigBarrier, disk, bounds, history
<1>. DEFINE r == [proc[p] EXCEPT !.pc = "catalogue"]
<1>4. /\ IsProcess(r) /\ r.pc = "catalogue" /\ r.id = proc[p].id
      /\ r.fd = proc[p].fd /\ r.mode = proc[p].mode /\ r.how = proc[p].how
      /\ r.mapped = proc[p].mapped /\ r.cat = proc[p].cat /\ r.rotating = proc[p].rotating
    BY <1>2 DEF IsProcess, Field
<1>5. proc' = [proc EXCEPT ![p] = r] /\ proc[p].pc = "barrier"
    BY DEF ConfigBarrier, Goto, Becomes
<1>. HIDE DEF r
<1>6. proc'[p] = r
    BY <1>4, <1>5, OneMoves DEF StoreInv
<1>7. ConfigPart(p)'
    BY <1>2, <1>3, <1>4, <1>5, <1>6 DEF ConfigPart, Fresh, Settled, Served
<1>8. CataloguePart(p)' /\ CreationPart(p)'
    BY <1>4, <1>6 DEF CataloguePart, CreationPart, Served, Creating
<1>9. InspectionPart(p)'
    BY <1>4, <1>6 DEF InspectionPart, Inspecting
<1>. QED
    BY <1>1, <1>3, <1>4, <1>5, <1>7, <1>8, <1>9, ClaimantGoesOn DEF ClaimantInv

\* A drawn identity is one that no file carries: minted has moved past it.
LEMMA DrawIdentityKeeps ==
    ASSUME StoreInv, NEW p \in Proc, DrawIdentity(p)
    PROVE  StoreInv'
<1>1. Claimed(p) /\ ~Creating(p) /\ proc[p].pc = "config"
    BY DEF DrawIdentity, Claimed, Creating
<1>2. /\ ConfigPart(p) /\ CataloguePart(p) /\ CreationPart(p) /\ InspectionPart(p)
      /\ IsProcess(proc[p])
    BY <1>1, OfClaimant
<1>3. UNCHANGED <<lockName, inodes, config, segs, opens, wounded, strayed, torn, metas>>
    BY DEF DrawIdentity, disk, bounds, history
<1>4. CASE proc' = [proc EXCEPT ![p] = Gone] /\ UNCHANGED minted
    BY <1>1, <1>3, <1>4, ClaimantEnds DEF StoreInv, DiskShape
<1>5. CASE /\ ~Inspecting(p) /\ minted' = minted + 1
           /\ Becomes(p, [proc[p] EXCEPT !.pc = "write", !.id = minted + 1])
    <2>. DEFINE r == [proc[p] EXCEPT !.pc = "write", !.id = minted + 1]
    <2>1. /\ IsProcess(r) /\ r.pc = "write" /\ r.id = minted + 1
          /\ r.fd = proc[p].fd /\ r.mode = proc[p].mode /\ r.how = proc[p].how
          /\ r.mapped = proc[p].mapped /\ r.cat = proc[p].cat /\ r.rotating = proc[p].rotating
        BY <1>2 DEF IsProcess, Field
    <2>2. proc' = [proc EXCEPT ![p] = r]
        BY <1>5 DEF Becomes
    <2>. HIDE DEF r
    <2>3. ProcShape /\ ClaimInv /\ MintInv /\ DiskInv /\ DiskShape /\ \A q \in Proc : StartInv(q)
        BY DEF StoreInv
    <2>4. /\ ProcShape' /\ ClaimInv' /\ \A q \in Proc : StartInv(q)'
          /\ proc'[p] = r
          /\ \A q \in Proc : Claimed(q)' => q = p
          /\ UnderWay = {proc[q].at : q \in {s \in {p} : Creating(s)}}
          /\ Drawing' = Drawing \ {p}
        BY <1>1, <1>3, <2>1, <2>2, <2>3, ClaimantMoves
    <2>5. MintInv'
        <3>1. p \in Drawing
            BY DEF DrawIdentity, Drawing
        <3>2. IsFiniteSet(Drawing) /\ Cardinality(Drawing) \in Nat
            BY <2>3, FS_CardinalityType DEF MintInv
        <3>3. IsFiniteSet(Drawing') /\ Cardinality(Drawing') = Cardinality(Drawing) - 1
            BY <2>4, <3>1, <3>2, FS_RemoveElement
        <3>. QED
            BY <1>3, <1>5, <2>3, <3>2, <3>3 DEF MintInv
    <2>6. DiskShape' /\ IdentityKept'
        BY <1>3, <2>3 DEF DiskShape, DiskInv, IdentityKept
    <2>7. \A n \in DOMAIN segs : Truthful(n) /\ (segs[n].map \/ torn)
        BY <1>1, <2>3, <2>4 DEF DiskInv, FileInv
    <2>8. \A n \in DOMAIN segs' : Truthful(n)'
        BY <1>3, <2>7 DEF Truthful
    <2>9. FileInv'
        BY <1>3, <2>7, <2>8 DEF FileInv
    <2>10. ConfigPart(p)'
        <3>1. minted' \in Nat /\ minted + 1 = minted'
            BY <1>5, <2>3 DEF MintInv
        <3>2. config' = NoConfig
            BY <1>3 DEF DrawIdentity
        <3>. QED
            BY <1>1, <1>2, <2>1, <2>4, <3>1, <3>2 DEF ConfigPart, Fresh, Settled, Served
    <2>11. CataloguePart(p)' /\ CreationPart(p)' /\ InspectionPart(p)'
        BY <1>5, <2>1, <2>4 DEF CataloguePart, CreationPart, InspectionPart, Served, Creating,
                                Inspecting
    <2>. QED
        BY <2>4, <2>5, <2>6, <2>9, <2>10, <2>11 DEF StoreInv, DiskInv, ClaimantInv
<1>. QED
    BY <1>4, <1>5 DEF DrawIdentity, Refuse

\* The configuration is written aside, so the store keeps the identity it has.
LEMMA WriteConfigKeeps ==
    ASSUME StoreInv, NEW p \in Proc, WriteConfig(p)
    PROVE  StoreInv'
<1>1. Claimed(p) /\ ~Creating(p)
    BY DEF WriteConfig, Claimed, Creating
<1>2. /\ ConfigPart(p) /\ CataloguePart(p) /\ CreationPart(p) /\ InspectionPart(p)
      /\ IsProcess(proc[p])
    BY <1>1, OfClaimant
<1>3. UNCHANGED <<lockName, inodes, config, segs, minted, opens, wounded, strayed, torn, metas>>
    BY DEF WriteConfig, bounds, history
<1>. DEFINE r == [proc[p] EXCEPT !.pc = "publish"]
<1>4. /\ IsProcess(r) /\ r.pc = "publish" /\ r.id = proc[p].id
      /\ r.fd = proc[p].fd /\ r.mode = proc[p].mode /\ r.how = proc[p].how
      /\ r.mapped = proc[p].mapped /\ r.cat = proc[p].cat /\ r.rotating = proc[p].rotating
    BY <1>2 DEF IsProcess, Field
<1>5. proc' = [proc EXCEPT ![p] = r] /\ proc[p].pc = "write"
    BY DEF WriteConfig, Goto, Becomes
<1>. HIDE DEF r
<1>6. proc'[p] = r
    BY <1>4, <1>5, OneMoves DEF StoreInv
<1>7. ConfigPart(p)'
    BY <1>2, <1>3, <1>4, <1>5, <1>6 DEF ConfigPart, Fresh, Settled, Served
<1>8. CataloguePart(p)' /\ CreationPart(p)'
    BY <1>4, <1>6 DEF CataloguePart, CreationPart, Served, Creating
<1>9. InspectionPart(p)'
    BY <1>2, <1>4, <1>5, <1>6 DEF InspectionPart, Inspecting
<1>. QED
    BY <1>1, <1>3, <1>4, <1>5, <1>7, <1>8, <1>9, ClaimantGoesOn DEF ClaimantInv

\* Publishing a configuration where there was none disagrees with no stamp: in a
\* store that is whole there is no file then.
LEMMA PublishConfigKeeps ==
    ASSUME StoreInv, NEW p \in Proc, PublishConfig(p)
    PROVE  StoreInv'
<1>1. Claimed(p) /\ ~Creating(p)
    BY DEF PublishConfig, Claimed, Creating
<1>2. /\ ConfigPart(p) /\ CataloguePart(p) /\ CreationPart(p) /\ InspectionPart(p)
      /\ IsProcess(proc[p])
    BY <1>1, OfClaimant
<1>3. UNCHANGED <<lockName, inodes, segs, minted, opens, wounded, strayed, torn, metas>>
    BY DEF PublishConfig, bounds, history
<1>. DEFINE r == [proc[p] EXCEPT !.pc = "barrier"]
<1>4. /\ IsProcess(r) /\ r.pc = "barrier" /\ r.id = proc[p].id
      /\ r.fd = proc[p].fd /\ r.mode = proc[p].mode /\ r.how = proc[p].how
      /\ r.mapped = proc[p].mapped /\ r.cat = proc[p].cat /\ r.rotating = proc[p].rotating
    BY <1>2 DEF IsProcess, Field
<1>5. proc' = [proc EXCEPT ![p] = r] /\ proc[p].pc = "publish"
    BY DEF PublishConfig, Goto, Becomes
<1>. HIDE DEF r
<1>6. proc'[p] = r
    BY <1>4, <1>5, OneMoves DEF StoreInv
<1>7. config'.format = 2 /\ config'.id = proc[p].id
    BY DEF PublishConfig, LocalConfig
<1>8. config = NoConfig /\ proc[p].id \in 0 .. minted
    BY <1>2, <1>5 DEF ConfigPart
<1>9. ConfigPart(p)'
    BY <1>2, <1>4, <1>5, <1>6, <1>7 DEF ConfigPart, Fresh, Settled, Served
<1>10. CataloguePart(p)' /\ CreationPart(p)'
    BY <1>4, <1>6 DEF CataloguePart, CreationPart, Served, Creating
<1>11. InspectionPart(p)'
    BY <1>2, <1>4, <1>5, <1>6 DEF InspectionPart, Inspecting
<1>12. ProcShape /\ ClaimInv /\ DiskInv /\ DiskShape /\ \A q \in Proc : StartInv(q)
    BY DEF StoreInv
<1>13. UnderWay = {}
    <2>1. UnderWay = {proc[q].at : q \in {s \in {p} : Creating(s)}}
        BY <1>1, <1>3, <1>4, <1>5, <1>12, ClaimantMoves
    <2>. QED
        BY <1>1, <2>1
<1>14. IdentityKept'
    <2>1. ~wounded /\ ~strayed => DOMAIN segs = {}
        BY <1>8, <1>12 DEF DiskInv, IdentityKept
    <2>. QED
        BY <1>3, <2>1 DEF IdentityKept
<1>15. \A n \in DOMAIN segs : Truthful(n) /\ (segs[n].map \/ torn)
    BY <1>12, <1>13 DEF DiskInv, FileInv
<1>16. \A n \in DOMAIN segs' : Truthful(n)'
    BY <1>3, <1>15 DEF Truthful
<1>17. DiskShape'
    BY <1>3, <1>12 DEF DiskShape
<1>18. config'.format = 2 => config'.id \in 0 .. minted
    BY <1>7, <1>8
<1>. QED
    BY <1>1, <1>3, <1>4, <1>5, <1>9, <1>10, <1>11, <1>14, <1>15, <1>16, <1>17, <1>18,
       ClaimantStep DEF ClaimantInv

\* A configuration step that fails ends the opening; what was published stays.
LEMMA ConfigFailsKeeps ==
    ASSUME StoreInv, NEW p \in Proc, ConfigFails(p)
    PROVE  StoreInv'
<1>1. Claimed(p) /\ ~Creating(p)
    BY DEF ConfigFails, Claimed, Creating
<1>2. UNCHANGED <<lockName, inodes, config, segs, minted, opens, wounded, strayed, torn>>
    BY DEF ConfigFails, history
<1>3. proc' = [proc EXCEPT ![p] = Gone]
    BY DEF ConfigFails, Refuse
<1>. QED
    BY <1>1, <1>2, <1>3, ClaimantEnds DEF StoreInv, DiskShape

\* A directory that cannot be listed, an identity that cannot be drawn and a merge that
\* cannot be settled end the opening, with nothing written.
LEMMA UnreadableKeeps ==
    ASSUME StoreInv, NEW p \in Proc,
           Unreadable(p) \/ EntropyFails(p) \/ RecoveryRefuses(p) \/ RecoveryFails(p)
    PROVE  StoreInv'
<1>1. Claimed(p) /\ ~Creating(p)
    BY DEF Unreadable, EntropyFails, RecoveryRefuses, RecoveryFails, Recovering, Claimed,
           Creating
<1>2. UNCHANGED <<lockName, inodes, config, segs, minted, opens, wounded, strayed, torn>>
    BY DEF Unreadable, EntropyFails, RecoveryRefuses, RecoveryFails, disk, bounds, history
<1>3. proc' = [proc EXCEPT ![p] = Gone]
    BY DEF Unreadable, EntropyFails, RecoveryRefuses, RecoveryFails, Refuse
<1>. QED
    BY <1>1, <1>2, <1>3, ClaimantEnds DEF StoreInv, DiskShape

\* The only file being created is the claimant's.
LEMMA WholeButOne ==
    ASSUME StoreInv, NEW p \in Proc, Claimed(p)
    PROVE  \A n \in DOMAIN segs :
              Truthful(n) /\ (segs[n].map \/ torn \/ (Creating(p) /\ n = proc[p].at))
<1>1. \A q \in Proc : Creating(q) => q = p
    BY DEF StoreInv, ClaimInv, OneClaimant, Claimed, Creating
<1>2. \A n \in UnderWay : Creating(p) /\ n = proc[p].at
    BY <1>1 DEF UnderWay
<1>. QED
    BY <1>2 DEF StoreInv, DiskInv, FileInv
-----------------------------------------------------------------------------
(* remove_existing *)

\* Withdrawing one file from the directory leaves the others as they are.
LEMMA Withdrawn ==
    ASSUME DiskShape, NEW n, segs' = Restrict(segs, DOMAIN segs \ {n}),
           UNCHANGED <<lockName, inodes>>, {wounded', strayed', torn'} \subseteq BOOLEAN
    PROVE  /\ DiskShape'
           /\ DOMAIN segs' = DOMAIN segs \ {n}
           /\ \A m \in DOMAIN segs' : segs'[m] = segs[m]
    BY DEF DiskShape, Restrict

\* clear() takes the children away one by one; what is left is still of one identity.
LEMMA RemoveChildKeeps ==
    ASSUME StoreInv, NEW p \in Proc, RemoveChild(p)
    PROVE  StoreInv'
<1>1. Claimed(p) /\ ~Creating(p) /\ proc[p].pc = "clear"
    BY DEF RemoveChild, Claimed, Creating
<1>2. /\ ConfigPart(p) /\ CataloguePart(p) /\ CreationPart(p) /\ InspectionPart(p)
      /\ IsProcess(proc[p])
    BY <1>1, OfClaimant
<1>3. UNCHANGED <<lockName, inodes, minted, opens, strayed, torn, proc>>
    BY DEF RemoveChild, bounds
<1>4. ProcShape /\ ClaimInv /\ MintInv /\ DiskInv /\ DiskShape /\ \A q \in Proc : StartInv(q)
    BY DEF StoreInv
<1>5. proc' = [proc EXCEPT ![p] = proc[p]]
    BY <1>3, <1>4 DEF ProcShape
<1>6. \A n \in DOMAIN segs : Truthful(n) /\ (segs[n].map \/ torn)
    <2>1. UnderWay = {proc[q].at : q \in {s \in {p} : Creating(s)}}
        BY <1>1, <1>2, <1>3, <1>4, <1>5, ClaimantMoves
    <2>. QED
        BY <1>1, <1>4, <2>1 DEF DiskInv, FileInv
<1>7. ClaimantInv(p)'
    <2>1. ~Inspecting(p)
        BY <1>1, <1>2 DEF InspectionPart
    <2>2. ConfigPart(p)'
        BY <1>1, <1>2, <1>3 DEF ConfigPart, Fresh, Settled, Served
    <2>3. CataloguePart(p)' /\ CreationPart(p)' /\ InspectionPart(p)'
        BY <1>1, <1>3, <2>1 DEF CataloguePart, CreationPart, InspectionPart, Served, Creating,
                                Inspecting
    <2>. QED
        BY <2>2, <2>3 DEF ClaimantInv
<1>8. config' \in {config, NoConfig} /\ NoConfig.format = 0
    BY DEF RemoveChild, NoConfig
<1>9. config'.format = 2 => config'.id \in 0 .. minted
    BY <1>4, <1>8 DEF MintInv
<1>10. wounded' \in BOOLEAN /\ (wounded => wounded')
    <2>1. wounded \in BOOLEAN
        BY <1>4 DEF DiskShape
    <2>2. wounded' = TRUE \/ wounded' = wounded
        BY DEF RemoveChild
    <2>. QED
        BY <2>1, <2>2
<1>11. CASE UNCHANGED segs
    <2>1. DiskShape'
        BY <1>3, <1>4, <1>10, <1>11 DEF DiskShape
    <2>2. config' = config \/ wounded'
        BY DEF RemoveChild
    <2>3. IdentityKept'
        BY <1>3, <1>4, <1>10, <1>11, <2>2 DEF DiskInv, IdentityKept
    <2>4. \A n \in DOMAIN segs' : Truthful(n)'
        BY <1>3, <1>6, <1>11 DEF Truthful
    <2>. QED
        BY <1>1, <1>2, <1>3, <1>5, <1>6, <1>7, <1>9, <1>11, <2>1, <2>3, <2>4, ClaimantStep
<1>12. ASSUME NEW n \in DOMAIN segs, segs' = Restrict(segs, DOMAIN segs \ {n}), wounded'
       PROVE  StoreInv'
    <2>1. {wounded', strayed', torn'} \subseteq BOOLEAN
        BY <1>3, <1>4, <1>10 DEF DiskShape
    <2>2. /\ DiskShape'
          /\ DOMAIN segs' = DOMAIN segs \ {n}
          /\ \A m \in DOMAIN segs' : segs'[m] = segs[m]
        BY <1>3, <1>4, <1>12, <2>1, Withdrawn
    <2>3. IdentityKept'
        BY <1>12 DEF IdentityKept
    <2>4. \A m \in DOMAIN segs' : Truthful(m)'
        BY <1>3, <1>6, <2>2 DEF Truthful
    <2>5. \A m \in DOMAIN segs' : segs'[m].map \/ torn'
        BY <1>3, <1>6, <2>2
    <2>. QED
        BY <1>1, <1>2, <1>3, <1>5, <1>7, <1>9, <2>2, <2>3, <2>4, <2>5, ClaimantStep
<1>. QED
    BY <1>11, <1>12 DEF RemoveChild

\* The claim survives the removal, and with it everything said of an empty store.
LEMMA ClearedKeeps ==
    ASSUME StoreInv, NEW p \in Proc, Cleared(p)
    PROVE  StoreInv'
<1>1. Claimed(p) /\ ~Creating(p) /\ proc[p].pc = "clear"
    BY DEF Cleared, Claimed, Creating
<1>2. /\ ConfigPart(p) /\ CataloguePart(p) /\ CreationPart(p) /\ InspectionPart(p)
      /\ IsProcess(proc[p])
    BY <1>1, OfClaimant
<1>3. UNCHANGED <<lockName, inodes, config, segs, minted, opens, metas>>
    BY DEF Cleared, disk, bounds
<1>. DEFINE r == [proc[p] EXCEPT !.pc = "config"]
<1>4. /\ IsProcess(r) /\ r.pc = "config" /\ r.id = proc[p].id
      /\ r.fd = proc[p].fd /\ r.mode = proc[p].mode /\ r.how = proc[p].how
      /\ r.mapped = proc[p].mapped /\ r.cat = proc[p].cat /\ r.rotating = proc[p].rotating
    BY <1>2 DEF IsProcess, Field
<1>5. proc' = [proc EXCEPT ![p] = r]
    BY DEF Cleared, Goto, Becomes
<1>. HIDE DEF r
<1>6. proc'[p] = r
    BY <1>4, <1>5, OneMoves DEF StoreInv
<1>7. ConfigPart(p)'
    BY <1>1, <1>2, <1>4, <1>6 DEF ConfigPart, Fresh, Settled, Served
<1>8. CataloguePart(p)' /\ CreationPart(p)'
    BY <1>4, <1>6 DEF CataloguePart, CreationPart, Served, Creating
<1>9. InspectionPart(p)'
    BY <1>2, <1>4, <1>6 DEF InspectionPart, Inspecting
<1>10. DOMAIN segs = {}
    BY DEF Cleared, Bare
<1>11. /\ IdentityKept'
       /\ \A n \in DOMAIN segs' : Truthful(n)'
       /\ \A n \in DOMAIN segs' : segs'[n].map \/ torn' \/ (Creating(p)' /\ n = r.at)
    BY <1>3, <1>10 DEF IdentityKept
<1>12. DiskShape'
    BY <1>3 DEF StoreInv, DiskShape, Cleared
<1>13. config'.format = 2 => config'.id \in 0 .. minted
    BY <1>3 DEF StoreInv, MintInv
<1>. QED
    BY <1>1, <1>3, <1>4, <1>5, <1>7, <1>8, <1>9, <1>11, <1>12, <1>13, ClaimantStep
       DEF ClaimantInv
-----------------------------------------------------------------------------
(* Recovery *)

\* Settling a merge takes files away and changes none; what is left is still of one
\* identity.
LEMMA RecoverKeeps ==
    ASSUME StoreInv, NEW p \in Proc, Recover(p)
    PROVE  StoreInv'
<1>1. Claimed(p) /\ ~Creating(p) /\ proc[p].pc = "catalogue"
    BY DEF Recover, AbandonMerge, RetireSource, FinishMerge, DiscardBuild, Recovering, Claimed,
           Creating
<1>2. /\ ConfigPart(p) /\ CataloguePart(p) /\ CreationPart(p) /\ InspectionPart(p)
      /\ IsProcess(proc[p])
    BY <1>1, OfClaimant
<1>3. UNCHANGED <<lockName, inodes, config, minted, opens, wounded, strayed, torn, proc>>
    BY DEF Recover, bounds, history
<1>4. proc' = [proc EXCEPT ![p] = proc[p]]
    BY <1>3 DEF StoreInv, ProcShape
<1>5. ClaimantInv(p)'
    <2>1. ConfigPart(p)'
        BY <1>1, <1>2, <1>3 DEF ConfigPart, Fresh, Settled, Served
    <2>2. CataloguePart(p)' /\ CreationPart(p)' /\ InspectionPart(p)'
        BY <1>1, <1>2, <1>3 DEF CataloguePart, CreationPart, InspectionPart, Served, Creating,
                                Inspecting
    <2>. QED
        BY <2>1, <2>2 DEF ClaimantInv
<1>6. CASE UNCHANGED segs
    BY <1>1, <1>2, <1>3, <1>4, <1>5, <1>6, ClaimantGoesOn
<1>7. ASSUME NEW n, segs' = Restrict(segs, DOMAIN segs \ {n})
      PROVE  StoreInv'
    <2>1. {wounded', strayed', torn'} \subseteq BOOLEAN
        BY <1>3 DEF StoreInv, DiskShape
    <2>2. /\ DiskShape'
          /\ DOMAIN segs' = DOMAIN segs \ {n}
          /\ \A m \in DOMAIN segs' : segs'[m] = segs[m]
        BY <1>3, <1>7, <2>1, Withdrawn DEF StoreInv
    <2>3. IdentityKept'
        BY <1>3, <2>2 DEF StoreInv, DiskInv, IdentityKept
    <2>4. \A m \in DOMAIN segs : Truthful(m) /\ (segs[m].map \/ torn)
        BY <1>1, WholeButOne
    <2>5. \A m \in DOMAIN segs' : Truthful(m)'
        BY <1>3, <2>2, <2>4 DEF Truthful
    <2>6. \A m \in DOMAIN segs' : segs'[m].map \/ torn'
        BY <1>3, <2>2, <2>4
    <2>7. config'.format = 2 => config'.id \in 0 .. minted
        BY <1>3 DEF StoreInv, MintInv
    <2>. QED
        BY <1>1, <1>2, <1>3, <1>4, <1>5, <2>2, <2>3, <2>5, <2>6, <2>7, ClaimantStep
<1>. QED
    BY <1>6, <1>7 DEF Recover, AbandonMerge, RetireSource, FinishMerge, DiscardBuild
-----------------------------------------------------------------------------
(* Catalogue and active versions *)

\* The catalogue is what the directory lists of the classes of the mode.
LEMMA CataloguedKeeps ==
    ASSUME StoreInv, NEW p \in Proc, proc[p].pc = "catalogue",
           Catalogued(p, Kinds(proc[p].mode)),
           UNCHANGED <<disk, minted, bounds, history>>
    PROVE  StoreInv'
<1>1. Claimed(p) /\ ~Creating(p)
    BY DEF Claimed, Creating
<1>2. /\ ConfigPart(p) /\ CataloguePart(p) /\ CreationPart(p) /\ InspectionPart(p)
      /\ IsProcess(proc[p])
    BY <1>1, OfClaimant
<1>3. UNCHANGED <<lockName, inodes, config, segs, minted, opens, wounded, strayed, torn, metas>>
    BY DEF disk, bounds, history
<1>. DEFINE kinds == Kinds(proc[p].mode)
            r == [proc[p] EXCEPT !.pc = "serve", !.cat = Listing(kinds), !.todo = kinds,
                                 !.held = [n \in Name |-> Unknown]]
<1>4. /\ IsProcess(r) /\ r.pc = "serve" /\ r.id = proc[p].id
      /\ r.fd = proc[p].fd /\ r.mode = proc[p].mode /\ r.how = proc[p].how
      /\ r.mapped = proc[p].mapped /\ r.rotating = proc[p].rotating
      /\ r.cat = Listing(kinds) /\ r.todo = kinds /\ r.held = [n \in Name |-> Unknown]
    BY <1>2 DEF IsProcess, Field
<1>5. proc' = [proc EXCEPT ![p] = r]
    BY DEF Catalogued, Becomes
<1>. HIDE DEF r
<1>6. proc'[p] = r
    BY <1>4, <1>5, OneMoves DEF StoreInv
<1>7. Fresh(p) /\ config.format = 2 /\ proc[p].id = config.id
    BY <1>2 DEF ConfigPart, Settled, Served
<1>8. ConfigPart(p)'
    BY <1>2, <1>3, <1>4, <1>6, <1>7 DEF ConfigPart, Fresh, Settled, Served
<1>9. CataloguePart(p)'
    <2>1. r.cat \subseteq DOMAIN segs'
        BY <1>3, <1>4 DEF Listing
    <2>2. r.mapped = {} /\ r.rotating = FALSE
        BY <1>4, <1>7 DEF Fresh
    <2>3. \A n \in r.cat : n[1] \in r.todo
        BY <1>4 DEF Listing
    <2>4. \A n \in DOMAIN segs' : n[1] \in Kinds(r.mode) => n \in r.cat
        BY <1>3, <1>4 DEF Listing
    <2>. QED
        BY <1>4, <1>6, <2>1, <2>2, <2>3, <2>4 DEF CataloguePart
<1>10. CreationPart(p)'
    BY <1>4, <1>6 DEF CreationPart, Creating
<1>11. InspectionPart(p)'
    BY <1>4, <1>6 DEF InspectionPart, Inspecting
<1>. QED
    BY <1>1, <1>3, <1>4, <1>5, <1>8, <1>9, <1>10, <1>11, ClaimantGoesOn DEF ClaimantInv

\* The catalogue of a class is read while the claim is held: no one else adds to it.
LEMMA EnumerateKeeps ==
    ASSUME StoreInv, NEW p \in Proc, EnumerateReference(p) \/ EnumerateFull(p)
    PROVE  StoreInv'
<1>1. Claimed(p) /\ ~Creating(p) /\ proc[p].pc = "catalogue"
    BY DEF EnumerateReference, EnumerateFull, Claimed, Creating
<1>2. UNCHANGED <<disk, minted, bounds, history>>
    BY DEF EnumerateReference, EnumerateFull
<1>3. CASE proc' = [proc EXCEPT ![p] = Gone]
    BY <1>1, <1>2, <1>3, ClaimantEnds DEF StoreInv, DiskShape, disk, bounds, history
<1>4. CASE Catalogued(p, Kinds(proc[p].mode))
    BY <1>1, <1>2, <1>4, CataloguedKeeps
<1>. QED
    BY <1>3, <1>4 DEF EnumerateReference, EnumerateFull, Refuse, Kinds

\* A version that opens was made by a build like this one, for this store, under the
\* name it has: whatever was brought in by hand fails one of the questions.
LEMMA OpensOwn ==
    ASSUME StoreInv, NEW p \in Proc, Claimed(p), proc[p].pc \in Served,
           NEW n \in DOMAIN segs, OpenVersion(segs[n], Expected(p, n)) = "ok"
    PROVE  Own(p, n)
<1>. DEFINE f == segs[n]
<1>1. f \in File /\ n \in Name /\ BuildOf[p] \in Build
    BY OpeningAssumption DEF StoreInv, DiskShape
<1>2. /\ f.map /\ f.stamp # NoStamp /\ f.stamp # Damaged
      /\ EpochMismatch(f.stamp.epochs, Expected(p, n).epochs) = "ok"
      /\ f.stamp.id = Expected(p, n).id /\ f.stamp.name = Expected(p, n).name
    BY <1>1, OpensMeans
<1>3. /\ Expected(p, n).epochs = Epochs(BuildOf[p])
      /\ Expected(p, n).id = proc[p].id /\ Expected(p, n).name = n
    BY StampsApart DEF Expected
<1>4. proc[p].id = config.id /\ config.id \in 0 .. minted
    BY OfClaimant DEF StoreInv, ConfigPart, MintInv, Settled, Served
<1>5. config.id # MaxOpens + 2
    <2>1. Cardinality(Drawing) \in Nat
        BY FS_CardinalityType DEF StoreInv, MintInv
    <2>2. minted \in Nat /\ opens \in Nat /\ MaxOpens \in Nat
        BY OpeningAssumption DEF StoreInv, MintInv
    <2>3. minted + Cardinality(Drawing) <= opens + 1 /\ opens <= MaxOpens
        BY DEF StoreInv, MintInv
    <2>4. minted < MaxOpens + 2
        BY <2>1, <2>2, <2>3
    <2>. QED
        BY <1>4, <2>2, <2>4
<1>6. Truthful(n)
    BY DEF StoreInv, DiskInv, FileInv
<1>7. f.by # NoBuild
    BY <1>2, <1>3, <1>4, <1>5, <1>6 DEF Truthful
<1>8. f.by \in Build
    BY <1>1, <1>7 DEF File
<1>9. PICK i \in Nat : f.stamp = LocalIdentity(f.by, i, n)
    BY <1>2, <1>6, <1>8 DEF Truthful
<1>10. EpochMismatch(Epochs(f.by), Epochs(BuildOf[p])) = "ok"
    <2>1. f.stamp.epochs = Epochs(f.by)
        BY <1>9, StampsApart
    <2>. QED
        BY <1>2, <1>3, <2>1
<1>11. f.by = BuildOf[p]
    BY <1>1, <1>8, <1>10, EpochsCompared, EpochsTellApart
<1>. QED
    BY <1>2, <1>3, <1>4, <1>11 DEF Own

\* A class whose newest file passes its stamp check is open on a file of this store.
LEMMA OpenClassKeeps ==
    ASSUME StoreInv, NEW p \in Proc, proc[p].pc = "serve", NEW k \in proc[p].todo,
           OpenClass(p, k)
    PROVE  StoreInv'
<1>1. Claimed(p) /\ ~Creating(p)
    BY DEF Claimed, Creating
<1>2. /\ ConfigPart(p) /\ CataloguePart(p) /\ CreationPart(p) /\ InspectionPart(p)
      /\ IsProcess(proc[p])
    BY <1>1, OfClaimant
<1>3. UNCHANGED <<lockName, inodes, config, segs, minted, opens, wounded, strayed, torn, metas>>
    BY DEF OpenClass, disk, bounds, history
<1>. DEFINE own == {n \in proc[p].cat : n[1] = k}
            more == SumFunction([n \in Counted(own) |-> Cardinality(KeysOn(n))])
            r == [proc[p] EXCEPT !.todo = @ \ {k}, !.mapped = @ \cup {k},
                                 !.count = @ + more, !.held = LoadMetadata(@, own)]
<1>4. \/ proc' = [proc EXCEPT ![p] = Gone]
      \/ Faulty(p, k) = {} /\ proc' = [proc EXCEPT ![p] = r]
    BY DEF OpenClass, Refuse, Becomes
<1>5. CASE proc' = [proc EXCEPT ![p] = Gone]
    BY <1>1, <1>3, <1>5, ClaimantEnds DEF StoreInv, DiskShape
<1>6. CASE Faulty(p, k) = {} /\ proc' = [proc EXCEPT ![p] = r]
    <2>. HIDE DEF more
    <2>1. /\ IsProcess(r) /\ r.pc = proc[p].pc /\ r.id = proc[p].id
          /\ r.fd = proc[p].fd /\ r.mode = proc[p].mode /\ r.how = proc[p].how
          /\ r.cat = proc[p].cat /\ r.rotating = proc[p].rotating
          /\ r.mapped = proc[p].mapped \cup {k} /\ r.todo = proc[p].todo \ {k}
          /\ r.held = LoadMetadata(proc[p].held, own)
        BY <1>2 DEF IsProcess, Field
    <2>. HIDE DEF r
    <2>2. proc'[p] = r
        BY <1>6, <2>1, OneMoves DEF StoreInv
    <2>3. /\ proc[p].cat \subseteq DOMAIN segs
          /\ \A m \in proc[p].cat : m[1] \in Kinds(proc[p].mode)
          /\ proc[p].mapped \subseteq Kinds(proc[p].mode)
          /\ proc[p].todo \subseteq Kinds(proc[p].mode)
          /\ \A n \in proc[p].cat : n[1] \in proc[p].todo \/ Own(p, n)
          /\ ~strayed => \A n \in DOMAIN segs : n[1] \in Kinds(proc[p].mode) => n \in proc[p].cat
          /\ proc[p].rotating = FALSE
        BY <1>1, <1>2 DEF CataloguePart, Served
    <2>4. DOMAIN segs \subseteq Name
        BY DEF StoreInv, DiskShape
    <2>5. ASSUME NEW n \in proc[p].cat, n[1] = k
          PROVE  Own(p, n)
        <3>1. n \in DOMAIN segs /\ n = <<k, n[2]>>
            BY <2>3, <2>4, <2>5 DEF Name
        <3>2. n[2] \in VersionsOf(proc[p].cat, k)
            BY <2>5 DEF VersionsOf
        <3>3. OpenVersion(segs[n], Expected(p, n)) = "ok"
            BY <1>6, <3>1, <3>2 DEF Faulty
        <3>. QED
            BY <1>1, <3>1, <3>3, OpensOwn DEF Served
    <2>6. \A n \in r.cat : n[1] \in r.todo \/ Own(p, n)'
        <3>1. \A n \in proc[p].cat : n[1] \in r.todo \/ Own(p, n)
            BY <2>1, <2>3, <2>5
        <3>2. \A n : Own(p, n)' = Own(p, n)
            BY <1>3 DEF Own
        <3>. QED
            BY <2>1, <3>1, <3>2
    <2>7. ConfigPart(p)'
        BY <1>2, <1>3, <2>1, <2>2 DEF ConfigPart, Settled, Served
    <2>8. CataloguePart(p)'
        BY <1>3, <2>1, <2>2, <2>3, <2>6 DEF CataloguePart
    <2>9. CreationPart(p)'
        BY <2>1, <2>2 DEF CreationPart, Creating
    <2>10. InspectionPart(p)'
        <3>1. ASSUME Inspecting(p), NEW n \in Name
              PROVE  r.held[n] = Unknown \/ n \in DOMAIN metas
            <4>1. proc[p].held[n] = Unknown \/ n \in DOMAIN metas
                BY <1>2, <3>1 DEF InspectionPart
            <4>. QED
                BY <2>1, <4>1 DEF LoadMetadata, ReadMetadata
        <3>. QED
            BY <1>3, <2>1, <2>2, <3>1 DEF InspectionPart, Inspecting
    <2>. QED
        BY <1>1, <1>3, <1>6, <2>1, <2>7, <2>8, <2>9, <2>10, ClaimantGoesOn DEF ClaimantInv
<1>. QED
    BY <1>4, <1>5, <1>6

\* The same for the step that opens a class or ends the opening on its refusal.
LEMMA OpenClassesKeep ==
    ASSUME StoreInv, NEW p \in Proc, OpenReference(p) \/ OpenFull(p)
    PROVE  StoreInv'
<1>1. CASE OpenReference(p)
    BY <1>1, OpenClassKeeps DEF OpenReference
<1>2. CASE OpenFull(p)
    <2>1. Claimed(p) /\ proc[p].pc = "serve" /\ proc[p].todo # {}
        BY <1>2 DEF OpenFull, Claimed
    <2>2. proc[p].todo \subseteq Kinds(proc[p].mode)
        BY <2>1, OfClaimant DEF CataloguePart, Served
    <2>3. Turn(p) \in proc[p].todo
        BY <2>1, <2>2, TurnLeft
    <2>. QED
        BY <1>2, <2>1, <2>3, OpenClassKeeps DEF OpenFull
<1>. QED
    BY <1>1, <1>2

\* A file that cannot be mapped ends the opening, and the claim goes with it.
LEMMA MapFailsKeeps ==
    ASSUME StoreInv, NEW p \in Proc, MapFails(p)
    PROVE  StoreInv'
<1>1. Claimed(p) /\ ~Creating(p)
    BY DEF MapFails, Claimed, Creating
<1>2. UNCHANGED <<lockName, inodes, config, segs, minted, opens, wounded, strayed, torn>>
    BY DEF MapFails, disk, history
<1>3. proc' = [proc EXCEPT ![p] = Gone]
    BY DEF MapFails, Refuse
<1>. QED
    BY <1>1, <1>2, <1>3, ClaimantEnds DEF StoreInv, DiskShape

\* open() returns once every class of the mode is open, on files of this store.
LEMMA OpenReturnsKeeps ==
    ASSUME StoreInv, NEW p \in Proc, OpenReturns(p)
    PROVE  StoreInv'
<1>1. Claimed(p) /\ ~Creating(p) /\ proc[p].pc = "serve" /\ proc[p].todo = {}
    BY DEF OpenReturns, Claimed, Creating
<1>2. /\ ConfigPart(p) /\ CataloguePart(p) /\ CreationPart(p) /\ InspectionPart(p)
      /\ IsProcess(proc[p])
    BY <1>1, OfClaimant
<1>3. UNCHANGED <<lockName, inodes, config, segs, minted, opens, wounded, strayed, torn, metas>>
    BY DEF OpenReturns, disk, bounds, history
<1>. DEFINE r == [proc[p] EXCEPT !.pc = "open"]
<1>4. /\ IsProcess(r) /\ r.pc = "open" /\ r.id = proc[p].id
      /\ r.fd = proc[p].fd /\ r.mode = proc[p].mode /\ r.how = proc[p].how
      /\ r.mapped = proc[p].mapped /\ r.cat = proc[p].cat /\ r.rotating = proc[p].rotating
      /\ r.todo = proc[p].todo /\ r.held = proc[p].held
    BY <1>2 DEF IsProcess, Field
<1>5. proc' = [proc EXCEPT ![p] = r]
    BY DEF OpenReturns, Goto, Becomes
<1>. HIDE DEF r
<1>6. proc'[p] = r
    BY <1>4, <1>5, OneMoves DEF StoreInv
<1>7. ConfigPart(p)'
    BY <1>1, <1>2, <1>3, <1>4, <1>6 DEF ConfigPart, Settled, Served
<1>8. CataloguePart(p)'
    <2>1. \A n : Own(p, n)' = Own(p, n)
        BY <1>3 DEF Own
    <2>. QED
        BY <1>1, <1>2, <1>3, <1>4, <1>6, <2>1 DEF CataloguePart, Served, Creating
<1>9. CreationPart(p)'
    BY <1>4, <1>6 DEF CreationPart, Creating
<1>10. InspectionPart(p)'
    BY <1>1, <1>2, <1>3, <1>4, <1>6 DEF InspectionPart, Inspecting
<1>. QED
    BY <1>1, <1>3, <1>4, <1>5, <1>7, <1>8, <1>9, <1>10, ClaimantGoesOn DEF ClaimantInv

\* A class without versions is passed over by an inspection, else its version zero is next.
LEMMA FreshClassKeeps ==
    ASSUME StoreInv, NEW p \in Proc, FreshClass(p)
    PROVE  StoreInv'
<1>1. Claimed(p) /\ ~Creating(p) /\ proc[p].pc = "serve" /\ proc[p].todo # {}
    BY DEF FreshClass, Claimed, Creating
<1>2. /\ ConfigPart(p) /\ CataloguePart(p) /\ CreationPart(p) /\ InspectionPart(p)
      /\ IsProcess(proc[p])
    BY <1>1, OfClaimant
<1>3. UNCHANGED <<lockName, inodes, config, segs, minted, opens, wounded, strayed, torn, metas>>
    BY DEF FreshClass, disk, bounds, history
<1>4. /\ proc[p].cat \subseteq DOMAIN segs
      /\ \A m \in proc[p].cat : m[1] \in Kinds(proc[p].mode)
      /\ proc[p].mapped \subseteq Kinds(proc[p].mode)
      /\ proc[p].todo \subseteq Kinds(proc[p].mode)
      /\ \A n \in proc[p].cat : n[1] \in proc[p].todo \/ Own(p, n)
      /\ ~strayed => \A n \in DOMAIN segs : n[1] \in Kinds(proc[p].mode) => n \in proc[p].cat
      /\ proc[p].rotating = FALSE
    BY <1>1, <1>2 DEF CataloguePart, Served
<1>5. Turn(p) \in proc[p].todo
    BY <1>1, <1>4, TurnLeft
<1>6. \A n \in proc[p].cat : n[1] # Turn(p)
    BY DEF FreshClass, VersionsOf
<1>7. \A n : Own(p, n)' = Own(p, n)
    BY <1>3 DEF Own
<1>8. CASE proc' = [proc EXCEPT ![p] = [proc[p] EXCEPT !.todo = @ \ {Turn(p)}]]
    <2>. DEFINE r == [proc[p] EXCEPT !.todo = @ \ {Turn(p)}]
    <2>1. /\ IsProcess(r) /\ r.pc = proc[p].pc /\ r.id = proc[p].id
          /\ r.fd = proc[p].fd /\ r.mode = proc[p].mode /\ r.how = proc[p].how
          /\ r.mapped = proc[p].mapped /\ r.cat = proc[p].cat /\ r.rotating = proc[p].rotating
          /\ r.todo = proc[p].todo \ {Turn(p)} /\ r.held = proc[p].held
        BY <1>2 DEF IsProcess, Field
    <2>. HIDE DEF r
    <2>2. proc'[p] = r
        BY <1>8, <2>1, OneMoves DEF StoreInv, r
    <2>3. ConfigPart(p)'
        BY <1>1, <1>2, <1>3, <2>1, <2>2 DEF ConfigPart, Settled, Served
    <2>4. CataloguePart(p)'
        BY <1>1, <1>3, <1>4, <1>6, <1>7, <2>1, <2>2 DEF CataloguePart
    <2>5. CreationPart(p)'
        BY <1>1, <2>1, <2>2 DEF CreationPart, Creating
    <2>6. InspectionPart(p)'
        BY <1>1, <1>2, <1>3, <2>1, <2>2 DEF InspectionPart, Inspecting
    <2>. QED
        BY <1>1, <1>3, <1>8, <2>1, <2>3, <2>4, <2>5, <2>6, ClaimantGoesOn DEF ClaimantInv, r
<1>9. CASE /\ ~Inspecting(p)
           /\ proc' = [proc EXCEPT ![p] =
                          [proc[p] EXCEPT !.pc = "create", !.at = <<Turn(p), 0>>]]
    <2>. DEFINE r == [proc[p] EXCEPT !.pc = "create", !.at = <<Turn(p), 0>>]
    <2>1. /\ IsProcess(r) /\ r.pc = "create" /\ r.id = proc[p].id
          /\ r.fd = proc[p].fd /\ r.mode = proc[p].mode /\ r.how = proc[p].how
          /\ r.mapped = proc[p].mapped /\ r.cat = proc[p].cat /\ r.rotating = proc[p].rotating
          /\ r.todo = proc[p].todo /\ r.at = <<Turn(p), 0>>
        BY <1>2 DEF IsProcess, Field
    <2>. HIDE DEF r
    <2>2. proc'[p] = r
        BY <1>9, <2>1, OneMoves DEF StoreInv, r
    <2>3. ConfigPart(p)'
        BY <1>1, <1>2, <1>3, <2>1, <2>2 DEF ConfigPart, Settled, Served
    <2>4. CataloguePart(p)'
        BY <1>1, <1>3, <1>4, <1>7, <2>1, <2>2 DEF CataloguePart
    <2>5. CreationPart(p)'
        <3>1. Turn(p) \in Kind /\ 0 \in Version
            BY <1>4, <1>5, KindsOfMode, OpeningAssumption DEF Version
        <3>2. r.at \in Name /\ r.at[1] = Turn(p)
            BY <2>1, <3>1 DEF Name, Kind
        <3>3. r.at \notin r.cat
            BY <1>6, <2>1, <3>2
        <3>. QED
            BY <1>4, <1>5, <1>6, <2>1, <2>2, <3>2, <3>3 DEF CreationPart, Creating
    <2>6. InspectionPart(p)'
        BY <1>9, <2>1, <2>2 DEF InspectionPart, Inspecting
    <2>. QED
        BY <1>1, <1>3, <1>9, <2>1, <2>3, <2>4, <2>5, <2>6, ClaimantGoesOn DEF ClaimantInv, r
<1>. QED
    BY <1>8, <1>9 DEF FreshClass, PassOver, Becomes
-----------------------------------------------------------------------------
(* create_container *)

\* One file of the directory changes.
LEMMA Touched ==
    ASSUME DiskShape, NEW n \in DOMAIN segs, NEW f \in File, segs' = [segs EXCEPT ![n] = f],
           UNCHANGED <<lockName, inodes>>, {wounded', strayed', torn'} \subseteq BOOLEAN
    PROVE  /\ DiskShape'
           /\ DOMAIN segs' = DOMAIN segs
           /\ segs'[n] = f
           /\ \A m \in DOMAIN segs : m # n => segs'[m] = segs[m]
    BY DEF DiskShape

\* One file is added to the directory.
LEMMA Added ==
    ASSUME DiskShape, NEW n \in Name, n \notin DOMAIN segs, NEW f \in File,
           segs' = [m \in DOMAIN segs \cup {n} |-> IF m = n THEN f ELSE segs[m]],
           UNCHANGED <<lockName, inodes>>, {wounded', strayed', torn'} \subseteq BOOLEAN
    PROVE  /\ DiskShape'
           /\ DOMAIN segs' = DOMAIN segs \cup {n}
           /\ segs'[n] = f
           /\ \A m \in DOMAIN segs : segs'[m] = segs[m]
    BY DEF DiskShape

\* A rotation that fails latches the instance, and an open() that fails ends it.
LEMMA LatchesOrEnds ==
    ASSUME StoreInv, NEW p \in Proc, Claimed(p),
           proc[p].pc \in {"create", "size", "stamp", "map"}, NEW error,
           CreationFails(p, error)
    PROVE  \/ ~proc[p].rotating /\ proc' = [proc EXCEPT ![p] = Gone]
           \/ \E r : /\ proc[p].rotating /\ IsProcess(r) /\ proc' = [proc EXCEPT ![p] = r]
                     /\ r.pc = "latched" /\ r.id = proc[p].id
                     /\ r.fd = proc[p].fd /\ r.mode = proc[p].mode /\ r.how = proc[p].how
                     /\ r.mapped = proc[p].mapped /\ r.cat = proc[p].cat
                     /\ r.todo = proc[p].todo /\ r.rotating = proc[p].rotating
                     /\ r.count = proc[p].count /\ r.held = proc[p].held
<1>. DEFINE r == [proc[p] EXCEPT !.pc = "latched", !.at = <<>>]
<1>1. /\ IsProcess(r) /\ r.pc = "latched" /\ r.id = proc[p].id
      /\ r.fd = proc[p].fd /\ r.mode = proc[p].mode /\ r.how = proc[p].how
      /\ r.mapped = proc[p].mapped /\ r.cat = proc[p].cat
      /\ r.todo = proc[p].todo /\ r.rotating = proc[p].rotating
      /\ r.count = proc[p].count /\ r.held = proc[p].held
    BY OfClaimant DEF IsProcess, Field
<1>2. CASE proc[p].rotating
    <2>1. proc' = [proc EXCEPT ![p] = r]
        BY <1>2 DEF CreationFails, Becomes
    <2>. HIDE DEF r
    <2>. QED
        BY <1>1, <1>2, <2>1
<1>3. CASE ~proc[p].rotating
    BY <1>3 DEF CreationFails, Refuse
<1>. QED
    BY <1>2, <1>3

\* A latched instance serves nothing it did not serve before.
LEMMA LatchedPart ==
    ASSUME StoreInv, NEW p \in Proc, Claimed(p),
           proc[p].pc \in {"create", "size", "stamp", "map"}, proc[p].rotating,
           proc'[p].pc = "latched", proc'[p].id = proc[p].id, proc'[p].mode = proc[p].mode,
           proc'[p].how = proc[p].how, proc'[p].mapped = proc[p].mapped,
           proc'[p].cat = proc[p].cat, proc'[p].todo = proc[p].todo,
           UNCHANGED <<config, minted, metas>>,
           proc[p].cat \subseteq DOMAIN segs',
           \A n \in proc[p].cat : segs'[n] = segs[n]
    PROVE  ClaimantInv(p)'
<1>1. ConfigPart(p) /\ CataloguePart(p) /\ CreationPart(p) /\ InspectionPart(p)
    BY OfClaimant
<1>2. \A n \in proc[p].cat : Own(p, n)
    BY <1>1 DEF CataloguePart, CreationPart, Served
<1>3. \A n \in proc[p].cat : Own(p, n)'
    BY <1>2 DEF Own
<1>4. ConfigPart(p)'
    BY <1>1 DEF ConfigPart, Settled, Served
<1>5. CataloguePart(p)'
    BY <1>1, <1>3 DEF CataloguePart, CreationPart, Served
<1>6. CreationPart(p)'
    BY DEF CreationPart, Creating
<1>7. InspectionPart(p)'
    BY <1>1 DEF InspectionPart, Inspecting
<1>. QED
    BY <1>4, <1>5, <1>6, <1>7 DEF ClaimantInv

\* An exclusive creation adds a file without a stamp or reports the name as taken.
LEMMA CreateFileKeeps ==
    ASSUME StoreInv, NEW p \in Proc, CreateFile(p)
    PROVE  StoreInv'
<1>1. Claimed(p) /\ ~Creating(p) /\ proc[p].pc = "create"
    BY DEF CreateFile, Claimed, Creating
<1>2. /\ ConfigPart(p) /\ CataloguePart(p) /\ CreationPart(p) /\ InspectionPart(p)
      /\ IsProcess(proc[p])
    BY <1>1, OfClaimant
<1>3. UNCHANGED <<lockName, inodes, config, minted, opens, wounded, strayed, torn, metas>>
    BY DEF CreateFile, bounds, history
<1>n. PICK n : n = proc[p].at
    OBVIOUS
<1>4. CASE CreationFails(p, "identity_collision") /\ UNCHANGED segs
    <2>1. CASE proc' = [proc EXCEPT ![p] = Gone]
        BY <1>1, <1>3, <1>4, <2>1, ClaimantEnds DEF StoreInv, DiskShape
    <2>2. ASSUME NEW r, proc[p].rotating, IsProcess(r), proc' = [proc EXCEPT ![p] = r],
                 r.pc = "latched", r.id = proc[p].id,
                 r.fd = proc[p].fd, r.mode = proc[p].mode, r.how = proc[p].how,
                 r.mapped = proc[p].mapped, r.cat = proc[p].cat, r.todo = proc[p].todo
          PROVE  StoreInv'
        <3>1. proc'[p] = r
            BY <2>2, OneMoves DEF StoreInv
        <3>2. proc[p].cat \subseteq DOMAIN segs' /\ \A m \in proc[p].cat : segs'[m] = segs[m]
            BY <1>1, <1>2, <1>4 DEF CataloguePart, Served
        <3>3. ClaimantInv(p)'
            BY <1>1, <1>3, <2>2, <3>1, <3>2, LatchedPart
        <3>. QED
            BY <1>1, <1>3, <1>4, <2>2, <3>3, ClaimantGoesOn
    <2>. QED
        BY <1>1, <1>4, <2>1, <2>2, LatchesOrEnds
<1>5. CASE /\ n \notin DOMAIN segs
           /\ segs' = [m \in DOMAIN segs \cup {n} |->
                          IF m = n THEN [sized |-> FALSE, stamp |-> NoStamp, map |-> FALSE,
                                         keys |-> {}, by |-> BuildOf[p]]
                          ELSE segs[m]]
           /\ Goto(p, "size")
    <2>. DEFINE r == [proc[p] EXCEPT !.pc = "size"]
                f == [sized |-> FALSE, stamp |-> NoStamp, map |-> FALSE, keys |-> {},
                      by |-> BuildOf[p]]
    <2>1. /\ IsProcess(r) /\ r.pc = "size" /\ r.id = proc[p].id
          /\ r.fd = proc[p].fd /\ r.mode = proc[p].mode /\ r.how = proc[p].how
          /\ r.mapped = proc[p].mapped /\ r.cat = proc[p].cat /\ r.rotating = proc[p].rotating
          /\ r.todo = proc[p].todo /\ r.at = proc[p].at
        BY <1>2 DEF IsProcess, Field
    <2>2. proc' = [proc EXCEPT ![p] = r]
        BY <1>5 DEF Goto, Becomes
    <2>3. f \in File /\ f.by = BuildOf[p] /\ f.by \in Build /\ f.stamp = NoStamp /\ f.map = FALSE
        BY OpeningAssumption DEF File, Stamp
    <2>4. segs' = [m \in DOMAIN segs \cup {n} |-> IF m = n THEN f ELSE segs[m]]
        BY <1>5
    <2>. HIDE DEF r, f
    <2>5. proc'[p] = r
        BY <2>1, <2>2, OneMoves DEF StoreInv
    <2>6. /\ n \in Name \ proc[p].cat /\ n[1] \in Kinds(proc[p].mode)
          /\ proc[p].rotating \in BOOLEAN /\ (proc[p].rotating => proc[p].todo = {})
          /\ \A m \in proc[p].cat : m[1] = n[1] => m[1] \notin proc[p].todo
        BY <1>1, <1>2, <1>n DEF CreationPart
    <2>7. /\ proc[p].cat \subseteq DOMAIN segs
          /\ \A m \in proc[p].cat : m[1] \in Kinds(proc[p].mode)
          /\ proc[p].mapped \subseteq Kinds(proc[p].mode)
          /\ proc[p].todo \subseteq Kinds(proc[p].mode)
          /\ \A m \in proc[p].cat : m[1] \in proc[p].todo \/ Own(p, m)
          /\ ~strayed => \A m \in DOMAIN segs : m[1] \in Kinds(proc[p].mode) => m \in proc[p].cat
        BY <1>1, <1>2 DEF CataloguePart, Served
    <2>8. {wounded', strayed', torn'} \subseteq BOOLEAN
        BY <1>3 DEF StoreInv, DiskShape
    <2>9. /\ DiskShape'
          /\ DOMAIN segs' = DOMAIN segs \cup {n}
          /\ segs'[n] = f
          /\ \A m \in DOMAIN segs : segs'[m] = segs[m]
        BY <1>3, <1>5, <2>3, <2>4, <2>6, <2>8, Added DEF StoreInv
    <2>10. config.format = 2 /\ proc[p].id = config.id
        BY <1>1, <1>2 DEF ConfigPart, Settled, Served
    <2>11. IdentityKept'
        <3>1. config # NoConfig
            BY <2>10 DEF NoConfig
        <3>. QED
            BY <1>3, <2>3, <2>9, <3>1 DEF StoreInv, DiskInv, IdentityKept
    <2>12. \A m \in DOMAIN segs' : Truthful(m)'
        <3>1. Truthful(n)'
            BY <2>3, <2>9, NoBuildApart DEF Truthful
        <3>2. ASSUME NEW m \in DOMAIN segs PROVE Truthful(m)'
            BY <1>1, <1>3, <2>9, WholeButOne DEF Truthful
        <3>. QED
            BY <2>9, <3>1, <3>2
    <2>13. \A m \in DOMAIN segs' : segs'[m].map \/ torn' \/ (Creating(p)' /\ m = r.at)
        BY <1>1, <1>3, <1>n, <2>1, <2>5, <2>9, WholeButOne DEF Creating
    <2>14. ConfigPart(p)'
        BY <1>1, <1>2, <1>3, <2>1, <2>5 DEF ConfigPart, Settled, Served
    <2>15. CataloguePart(p)'
        <3>1. \A m \in proc[p].cat : m[1] \in proc[p].todo \/ Own(p, m)'
            BY <1>3, <2>7, <2>9 DEF Own
        <3>. QED
            BY <1>3, <1>n, <2>1, <2>5, <2>7, <2>9, <3>1 DEF CataloguePart, Creating
    <2>16. CreationPart(p)'
        BY <1>n, <2>1, <2>3, <2>5, <2>6, <2>9 DEF CreationPart, Creating
    <2>17. InspectionPart(p)'
        BY <1>1, <1>2, <2>1, <2>5 DEF InspectionPart, Inspecting
    <2>18. config'.format = 2 => config'.id \in 0 .. minted
        BY <1>3 DEF StoreInv, MintInv
    <2>. QED
        BY <1>1, <1>3, <2>1, <2>2, <2>9, <2>11, <2>12, <2>13, <2>14, <2>15, <2>16, <2>17, <2>18,
           ClaimantStep DEF ClaimantInv
<1>. QED
    BY <1>n, <1>4, <1>5 DEF CreateFile

\* A creation goes on: the file gets its size, then its stamp.
LEMMA CreationGoesOn ==
    ASSUME StoreInv, NEW p \in Proc, Creating(p), NEW n, n = proc[p].at,
           NEW f \in File, segs' = [segs EXCEPT ![n] = f], f.by = segs[n].by, f.map = FALSE, f.sized,
           NEW r, IsProcess(r), proc' = [proc EXCEPT ![p] = r],
           r.id = proc[p].id,
           r.fd = proc[p].fd, r.mode = proc[p].mode, r.how = proc[p].how,
           r.mapped = proc[p].mapped, r.cat = proc[p].cat, r.rotating = proc[p].rotating,
           r.todo = proc[p].todo, r.at = proc[p].at,
           \/ r.pc = "stamp" /\ f.stamp = segs[n].stamp
           \/ r.pc = "map" /\ f.stamp = LocalIdentity(BuildOf[p], proc[p].id, n),
           UNCHANGED <<lockName, inodes, config, minted, opens, wounded, strayed, torn, metas>>
    PROVE  StoreInv'
<1>1. Claimed(p) /\ proc[p].pc \in {"size", "stamp", "map"}
    BY DEF Creating, Claimed
<1>2. ConfigPart(p) /\ CataloguePart(p) /\ CreationPart(p) /\ InspectionPart(p)
    BY <1>1, OfClaimant
<1>3. /\ n \in Name \ proc[p].cat /\ n[1] \in Kinds(proc[p].mode)
      /\ proc[p].rotating \in BOOLEAN /\ (proc[p].rotating => proc[p].todo = {})
      /\ \A m \in proc[p].cat : m[1] = n[1] => m[1] \notin proc[p].todo
      /\ n \in DOMAIN segs /\ segs[n].by = BuildOf[p] /\ BuildOf[p] \in Build
    BY <1>1, <1>2, OpeningAssumption DEF CreationPart
<1>4. {wounded', strayed', torn'} \subseteq BOOLEAN
    BY DEF StoreInv, DiskShape
<1>5. /\ DiskShape'
      /\ DOMAIN segs' = DOMAIN segs
      /\ segs'[n] = f
      /\ \A m \in DOMAIN segs : m # n => segs'[m] = segs[m]
    BY <1>3, <1>4, Touched DEF StoreInv
<1>6. proc'[p] = r
    BY OneMoves DEF StoreInv
<1>7. config.format = 2 /\ proc[p].id = config.id /\ config.id \in Nat
    BY <1>1, <1>2 DEF ConfigPart, Settled, Served, StoreInv, MintInv
<1>8. IdentityKept'
    <2>1. ~wounded /\ ~strayed /\ f.stamp # NoStamp => f.stamp.id = config.id
        BY <1>3, <1>7, StampsApart DEF StoreInv, DiskInv, IdentityKept
    <2>. QED
        BY <1>3, <1>5, <2>1 DEF StoreInv, DiskInv, IdentityKept
<1>9. \A m \in DOMAIN segs' : Truthful(m)'
    <2>1. Truthful(n)
        BY <1>1, <1>3, WholeButOne
    <2>2. f.stamp # NoStamp => \E i \in Nat : f.stamp = LocalIdentity(f.by, i, n)
        BY <1>3, <1>7, <2>1 DEF Truthful
    <2>3. Truthful(n)'
        BY <1>3, <1>5, <2>2, NoBuildApart DEF Truthful
    <2>4. ASSUME NEW m \in DOMAIN segs, m # n PROVE Truthful(m)'
        BY <1>1, <1>5, <2>4, WholeButOne DEF Truthful
    <2>. QED
        BY <1>5, <2>3, <2>4
<1>10. \A m \in DOMAIN segs' : segs'[m].map \/ torn' \/ (Creating(p)' /\ m = r.at)
    BY <1>1, <1>5, <1>6, WholeButOne DEF Creating
<1>11. ConfigPart(p)'
    BY <1>1, <1>2, <1>6 DEF ConfigPart, Settled, Served
<1>12. CataloguePart(p)'
    <2>1. \A m \in proc[p].cat : m[1] \in proc[p].todo \/ Own(p, m)'
        BY <1>1, <1>2, <1>3, <1>5 DEF CataloguePart, Served, Own
    <2>. QED
        BY <1>1, <1>2, <1>5, <1>6, <2>1 DEF CataloguePart, Creating, Served
<1>13. CreationPart(p)'
    BY <1>3, <1>5, <1>6 DEF CreationPart, Creating
<1>14. InspectionPart(p)'
    BY <1>1, <1>2, <1>6 DEF InspectionPart, Inspecting
<1>15. config'.format = 2 => config'.id \in 0 .. minted
    BY DEF StoreInv, MintInv
<1>. QED
    BY <1>1, <1>5, <1>8, <1>9, <1>10, <1>11, <1>12, <1>13, <1>14, <1>15, ClaimantStep
       DEF ClaimantInv

\* Sizing the new file leaves every other file as it was.
LEMMA SizeFileKeeps ==
    ASSUME StoreInv, NEW p \in Proc, SizeFile(p)
    PROVE  StoreInv'
<1>1. Claimed(p) /\ Creating(p) /\ proc[p].pc = "size"
    BY DEF SizeFile, Claimed, Creating
<1>2. CreationPart(p) /\ IsProcess(proc[p])
    BY <1>1, OfClaimant
<1>3. PICK n : n = proc[p].at
    OBVIOUS
<1>. DEFINE r == [proc[p] EXCEPT !.pc = "stamp"]
            f == [segs[n] EXCEPT !.sized = TRUE]
<1>4. /\ IsProcess(r) /\ r.pc = "stamp" /\ r.id = proc[p].id
      /\ r.fd = proc[p].fd /\ r.mode = proc[p].mode /\ r.how = proc[p].how
      /\ r.mapped = proc[p].mapped /\ r.cat = proc[p].cat /\ r.rotating = proc[p].rotating
      /\ r.todo = proc[p].todo /\ r.at = proc[p].at
    BY <1>2 DEF IsProcess, Field
<1>5. n \in DOMAIN segs /\ segs[n] \in File /\ ~segs[n].map /\ segs[n].map \in BOOLEAN
    BY <1>1, <1>2, <1>3 DEF CreationPart, StoreInv, DiskShape, File
<1>6. f \in File /\ f.by = segs[n].by /\ f.map = FALSE /\ f.sized
    BY <1>5 DEF File
<1>7. proc' = [proc EXCEPT ![p] = r] /\ segs' = [segs EXCEPT ![n] = f]
    BY <1>3 DEF SizeFile, Goto, Becomes
<1>8. UNCHANGED <<lockName, inodes, config, minted, opens, wounded, strayed, torn, metas>>
    BY DEF SizeFile, bounds, history
<1>9. r.pc = "stamp" /\ f.stamp = segs[n].stamp
    BY <1>4, <1>5 DEF File
<1>. HIDE DEF r, f
<1>. QED
    BY <1>1, <1>3, <1>4, <1>6, <1>7, <1>8, <1>9, CreationGoesOn

\* The stamp that is placed carries the identity of the store that is open.
LEMMA PlaceStampKeeps ==
    ASSUME StoreInv, NEW p \in Proc, PlaceStamp(p)
    PROVE  StoreInv'
<1>1. Claimed(p) /\ Creating(p) /\ proc[p].pc = "stamp"
    BY DEF PlaceStamp, Claimed, Creating
<1>2. CreationPart(p) /\ ConfigPart(p) /\ IsProcess(proc[p])
    BY <1>1, OfClaimant
<1>3. PICK n : n = proc[p].at
    OBVIOUS
<1>. DEFINE r == [proc[p] EXCEPT !.pc = "map"]
            f == [segs[n] EXCEPT !.stamp = LocalIdentity(BuildOf[p], proc[p].id, n)]
<1>4. /\ IsProcess(r) /\ r.pc = "map" /\ r.id = proc[p].id
      /\ r.fd = proc[p].fd /\ r.mode = proc[p].mode /\ r.how = proc[p].how
      /\ r.mapped = proc[p].mapped /\ r.cat = proc[p].cat /\ r.rotating = proc[p].rotating
      /\ r.todo = proc[p].todo /\ r.at = proc[p].at
    BY <1>2 DEF IsProcess, Field
<1>5. /\ n \in DOMAIN segs /\ n \in Name /\ segs[n] \in File /\ ~segs[n].map
      /\ segs[n].sized /\ BuildOf[p] \in Build
    BY <1>1, <1>2, <1>3, OpeningAssumption DEF CreationPart, StoreInv, DiskShape
<1>6. proc[p].id \in Nat
    BY <1>1, <1>2 DEF ConfigPart, Settled, Served, StoreInv, MintInv
<1>7. LocalIdentity(BuildOf[p], proc[p].id, n) \in Stamp
    BY <1>5, <1>6 DEF Stamp
<1>8. /\ f \in File /\ f.by = segs[n].by /\ f.map = FALSE /\ f.sized
      /\ f.stamp = LocalIdentity(BuildOf[p], proc[p].id, n)
    BY <1>5, <1>7 DEF File
<1>9. proc' = [proc EXCEPT ![p] = r] /\ segs' = [segs EXCEPT ![n] = f]
    BY <1>3 DEF PlaceStamp, Goto, Becomes, Expected
<1>10. UNCHANGED <<lockName, inodes, config, minted, opens, wounded, strayed, torn, metas>>
    BY DEF PlaceStamp, bounds, history
<1>. HIDE DEF r, f
<1>. QED
    BY <1>1, <1>3, <1>4, <1>8, <1>9, <1>10, CreationGoesOn

\* The map is constructed in the file this opening created, stamped with its own identity.
LEMMA ConstructMapKeeps ==
    ASSUME StoreInv, NEW p \in Proc, ConstructMap(p)
    PROVE  StoreInv'
<1>1. Claimed(p) /\ Creating(p) /\ proc[p].pc = "map"
    BY DEF ConstructMap, Claimed, Creating
<1>2. /\ ConfigPart(p) /\ CataloguePart(p) /\ CreationPart(p) /\ InspectionPart(p)
      /\ IsProcess(proc[p])
    BY <1>1, OfClaimant
<1>3. UNCHANGED <<lockName, inodes, config, minted, opens, wounded, strayed, torn, metas>>
    BY DEF ConstructMap, bounds, history
<1>4. PICK n : n = proc[p].at
    OBVIOUS
<1>5. /\ n \in Name \ proc[p].cat /\ n[1] \in Kinds(proc[p].mode)
      /\ proc[p].rotating \in BOOLEAN /\ (proc[p].rotating => proc[p].todo = {})
      /\ \A m \in proc[p].cat : m[1] = n[1] => m[1] \notin proc[p].todo
      /\ n \in DOMAIN segs /\ segs[n].by = BuildOf[p] /\ BuildOf[p] \in Build
      /\ segs[n].stamp = LocalIdentity(BuildOf[p], proc[p].id, n)
      /\ segs[n] \in File /\ segs[n].sized
    BY <1>1, <1>2, <1>4, OpeningAssumption DEF CreationPart, StoreInv, DiskShape
<1>6. /\ proc[p].cat \subseteq DOMAIN segs
      /\ \A m \in proc[p].cat : m[1] \in Kinds(proc[p].mode)
      /\ proc[p].mapped \subseteq Kinds(proc[p].mode)
      /\ proc[p].todo \subseteq Kinds(proc[p].mode)
      /\ \A m \in proc[p].cat : m[1] \in proc[p].todo \/ Own(p, m)
      /\ ~strayed => \A m \in DOMAIN segs : m[1] \in Kinds(proc[p].mode) =>
                         m \in proc[p].cat \/ m = n
    BY <1>1, <1>2, <1>4 DEF CataloguePart, Served
<1>7. config.format = 2 /\ proc[p].id = config.id
    BY <1>1, <1>2 DEF ConfigPart, Settled, Served
<1>. DEFINE f == [segs[n] EXCEPT !.map = TRUE]
            pc == IF proc[p].rotating THEN "open" ELSE "serve"
            rec == IF proc[p].rotating THEN Blank ELSE ReadMetadata(n)
            r == [proc[p] EXCEPT !.pc = pc, !.at = <<>>, !.rotating = FALSE,
                                 !.cat = @ \cup {n}, !.mapped = @ \cup {n[1]},
                                 !.todo = @ \ {n[1]}, !.held[n] = rec]
<1>8. /\ f \in File /\ f.by = segs[n].by /\ f.map = TRUE /\ f.stamp = segs[n].stamp
      /\ f.sized
    BY <1>5 DEF File
<1>9. proc' = [proc EXCEPT ![p] = r] /\ segs' = [segs EXCEPT ![n] = f]
    BY <1>4 DEF ConstructMap, Becomes
<1>10. /\ IsProcess(r) /\ r.pc = pc /\ r.id = proc[p].id
       /\ r.fd = proc[p].fd /\ r.mode = proc[p].mode /\ r.how = proc[p].how
       /\ r.mapped = proc[p].mapped \cup {n[1]} /\ r.cat = proc[p].cat \cup {n}
       /\ r.rotating = FALSE /\ r.todo = proc[p].todo \ {n[1]}
    <2>. HIDE DEF pc, rec
    <2>. QED
        BY <1>2 DEF IsProcess, Field
<1>11. pc \in {"open", "serve"} /\ (pc = "open" => proc[p].todo = {})
    BY <1>5
<1>. HIDE DEF r, f, pc, rec
<1>12. {wounded', strayed', torn'} \subseteq BOOLEAN
    BY <1>3 DEF StoreInv, DiskShape
<1>13. /\ DiskShape'
       /\ DOMAIN segs' = DOMAIN segs
       /\ segs'[n] = f
       /\ \A m \in DOMAIN segs : m # n => segs'[m] = segs[m]
    BY <1>3, <1>5, <1>8, <1>9, <1>12, Touched DEF StoreInv
<1>14. proc'[p] = r
    BY <1>9, <1>10, OneMoves DEF StoreInv
<1>15. IdentityKept'
    BY <1>3, <1>5, <1>8, <1>13 DEF StoreInv, DiskInv, IdentityKept
<1>16. \A m \in DOMAIN segs' : Truthful(m)'
    <2>1. Truthful(n)
        BY <1>1, <1>5, WholeButOne
    <2>2. Truthful(n)'
        BY <1>3, <1>5, <1>8, <1>13, <2>1, NoBuildApart, StampsApart DEF Truthful
    <2>3. ASSUME NEW m \in DOMAIN segs, m # n PROVE Truthful(m)'
        BY <1>1, <1>3, <1>13, <2>3, WholeButOne DEF Truthful
    <2>. QED
        BY <1>13, <2>2, <2>3
<1>17. \A m \in DOMAIN segs' : segs'[m].map \/ torn' \/ (Creating(p)' /\ m = r.at)
    BY <1>1, <1>3, <1>4, <1>8, <1>13, WholeButOne
<1>18. ConfigPart(p)'
    BY <1>2, <1>3, <1>7, <1>10, <1>11, <1>14 DEF ConfigPart, Settled, Served
<1>19. CataloguePart(p)'
    <2>1. Own(p, n)'
        BY <1>3, <1>5, <1>7, <1>8, <1>13, StampsApart DEF Own
    <2>2. \A m \in proc[p].cat : m[1] \in proc[p].todo \/ Own(p, m)'
        BY <1>3, <1>5, <1>6, <1>13 DEF Own
    <2>3. \A m \in r.cat : m[1] \in r.todo \/ Own(p, m)'
        BY <1>5, <1>10, <2>1, <2>2
    <2>4. /\ r.cat \subseteq DOMAIN segs' /\ \A m \in r.cat : m[1] \in Kinds(r.mode)
          /\ r.mapped \subseteq Kinds(r.mode) /\ r.todo \subseteq Kinds(r.mode)
        BY <1>5, <1>6, <1>10, <1>13
    <2>5. ~strayed => \A m \in DOMAIN segs' : m[1] \in Kinds(r.mode) => m \in r.cat
        BY <1>6, <1>10, <1>13
    <2>. QED
        BY <1>3, <1>10, <1>11, <1>14, <2>3, <2>4, <2>5 DEF CataloguePart
<1>20. CreationPart(p)'
    BY <1>10, <1>11, <1>14 DEF CreationPart, Creating
<1>21. InspectionPart(p)'
    BY <1>1, <1>2, <1>10, <1>14 DEF InspectionPart, Inspecting
<1>22. config'.format = 2 => config'.id \in 0 .. minted
    BY <1>3 DEF StoreInv, MintInv
<1>. QED
    BY <1>1, <1>3, <1>9, <1>10, <1>11, <1>13, <1>15, <1>16, <1>17, <1>18, <1>19, <1>20, <1>21,
       <1>22, ClaimantStep DEF ClaimantInv

\* A mapping that is not constructed leaves the directory as it was, or a file whose
\* creation has been cut short.
LEMMA ConstructorFailsKeeps ==
    ASSUME StoreInv, NEW p \in Proc, ConstructorFails(p)
    PROVE  StoreInv'
<1>1. /\ Claimed(p) /\ proc[p].pc \in {"create", "size"} /\ (Creating(p) => torn')
      /\ torn' = (torn \/ proc[p].pc = "size") /\ torn \in BOOLEAN
    BY DEF ConstructorFails, Claimed, Creating, StoreInv, DiskShape
<1>2. ConfigPart(p) /\ CataloguePart(p) /\ CreationPart(p) /\ InspectionPart(p)
    BY <1>1, OfClaimant
<1>3. /\ UNCHANGED <<lockName, inodes, config, segs, minted, opens, wounded, strayed, metas>>
      /\ torn' \in BOOLEAN /\ (torn => torn')
    BY <1>1 DEF ConstructorFails, disk
<1>4. DiskShape' /\ IdentityKept'
    BY <1>3 DEF StoreInv, DiskShape, DiskInv, IdentityKept
<1>5. \A m \in DOMAIN segs' : Truthful(m)' /\ (segs'[m].map \/ torn')
    BY <1>1, <1>3, WholeButOne DEF Truthful
<1>6. config'.format = 2 => config'.id \in 0 .. minted
    BY <1>3 DEF StoreInv, MintInv
<1>7. CASE proc' = [proc EXCEPT ![p] = Gone]
    BY <1>1, <1>3, <1>4, <1>5, <1>6, <1>7, ClaimantLeaves
<1>8. ASSUME NEW r, proc[p].rotating, IsProcess(r), proc' = [proc EXCEPT ![p] = r],
             r.pc = "latched", r.id = proc[p].id,
             r.fd = proc[p].fd, r.mode = proc[p].mode, r.how = proc[p].how,
             r.mapped = proc[p].mapped, r.cat = proc[p].cat, r.todo = proc[p].todo
      PROVE  StoreInv'
    <2>1. proc'[p] = r
        BY <1>8, OneMoves DEF StoreInv
    <2>2. proc[p].cat \subseteq DOMAIN segs' /\ \A m \in proc[p].cat : segs'[m] = segs[m]
        BY <1>1, <1>2, <1>3 DEF CataloguePart, Served
    <2>3. ClaimantInv(p)'
        BY <1>1, <1>3, <1>8, <2>1, <2>2, LatchedPart
    <2>4. \A m \in DOMAIN segs' : segs'[m].map \/ torn' \/ (Creating(p)' /\ m = r.at)
        BY <1>5
    <2>. QED
        BY <1>1, <1>3, <1>4, <1>5, <1>6, <1>8, <2>3, <2>4, ClaimantStep
<1>. QED
    BY <1>1, <1>7, <1>8, LatchesOrEnds DEF ConstructorFails

\* A creation that fails leaves the directory as it was, or says that it could not.
LEMMA RollBackKeeps ==
    ASSUME StoreInv, NEW p \in Proc, RollBack(p)
    PROVE  StoreInv'
<1>1. Claimed(p) /\ Creating(p) /\ proc[p].pc \in {"create", "size", "stamp", "map"}
    BY DEF RollBack, Claimed, Creating
<1>2. /\ ConfigPart(p) /\ CataloguePart(p) /\ CreationPart(p) /\ InspectionPart(p)
      /\ IsProcess(proc[p])
    BY <1>1, OfClaimant
<1>3. UNCHANGED <<lockName, inodes, config, minted, opens, wounded, strayed, metas>>
    BY DEF RollBack
<1>4. PICK n : n = proc[p].at
    OBVIOUS
<1>5. /\ proc[p].cat \subseteq DOMAIN segs /\ n \in DOMAIN segs /\ n \notin proc[p].cat
      /\ {wounded, strayed, torn} \subseteq BOOLEAN
    BY <1>1, <1>2, <1>4 DEF CataloguePart, CreationPart, Served, StoreInv, DiskShape
<1>6. /\ DiskShape' /\ IdentityKept'
      /\ \A m \in DOMAIN segs' : Truthful(m)' /\ (segs'[m].map \/ torn')
      /\ proc[p].cat \subseteq DOMAIN segs' /\ \A m \in proc[p].cat : segs'[m] = segs[m]
    <2>1. CASE segs' = Restrict(segs, DOMAIN segs \ {proc[p].at}) /\ UNCHANGED torn
        <3>1. /\ DiskShape'
              /\ DOMAIN segs' = DOMAIN segs \ {n}
              /\ \A m \in DOMAIN segs' : segs'[m] = segs[m]
            BY <1>3, <1>4, <1>5, <2>1, Withdrawn DEF StoreInv
        <3>2. IdentityKept'
            BY <1>3, <3>1 DEF StoreInv, DiskInv, IdentityKept
        <3>3. ASSUME NEW m \in DOMAIN segs' PROVE Truthful(m)' /\ (segs'[m].map \/ torn')
            <4>1. m \in DOMAIN segs /\ m # n /\ segs'[m] = segs[m]
                BY <3>1
            <4>2. Truthful(m) /\ (segs[m].map \/ torn)
                BY <1>1, <1>4, <4>1, WholeButOne
            <4>3. Truthful(m)'
                BY <1>3, <4>1, <4>2 DEF Truthful
            <4>. QED
                BY <2>1, <4>1, <4>2, <4>3
        <3>. QED
            BY <1>5, <3>1, <3>2, <3>3
    <2>2. CASE torn' = TRUE /\ UNCHANGED segs
        <3>1. DiskShape' /\ IdentityKept'
            BY <1>3, <2>2 DEF StoreInv, DiskShape, DiskInv, IdentityKept
        <3>2. ASSUME NEW m \in DOMAIN segs' PROVE Truthful(m)' /\ (segs'[m].map \/ torn')
            BY <1>1, <1>3, <2>2, WholeButOne DEF Truthful
        <3>. QED
            BY <1>5, <2>2, <3>1, <3>2
    <2>. QED
        BY <2>1, <2>2 DEF RollBack
<1>7. config'.format = 2 => config'.id \in 0 .. minted
    BY <1>3 DEF StoreInv, MintInv
<1>8. CASE proc' = [proc EXCEPT ![p] = Gone]
    BY <1>1, <1>3, <1>6, <1>7, <1>8, ClaimantLeaves
<1>9. ASSUME NEW r, proc[p].rotating, IsProcess(r), proc' = [proc EXCEPT ![p] = r],
             r.pc = "latched", r.id = proc[p].id,
             r.fd = proc[p].fd, r.mode = proc[p].mode, r.how = proc[p].how,
             r.mapped = proc[p].mapped, r.cat = proc[p].cat, r.todo = proc[p].todo
      PROVE  StoreInv'
    <2>1. proc'[p] = r
        BY <1>9, OneMoves DEF StoreInv
    <2>2. ClaimantInv(p)'
        BY <1>1, <1>3, <1>6, <1>9, <2>1, LatchedPart
    <2>3. \A m \in DOMAIN segs' : segs'[m].map \/ torn' \/ (Creating(p)' /\ m = r.at)
        BY <1>6
    <2>. QED
        BY <1>1, <1>3, <1>6, <1>7, <1>9, <2>2, <2>3, ClaimantStep
<1>. QED
    BY <1>1, <1>8, <1>9, LatchesOrEnds DEF RollBack
-----------------------------------------------------------------------------
(* The session *)

\* Entries come and go in a version; what the file is does not change.
LEMMA EntriesChange ==
    ASSUME StoreInv, NEW p \in Proc, proc[p].pc = "open", ~Inspecting(p),
           NEW n, NEW K, n \in DOMAIN segs => K \subseteq Key,
           segs' = [segs EXCEPT ![n].keys = K],
           NEW r, IsProcess(r), proc' = [proc EXCEPT ![p] = r],
           r.pc = proc[p].pc, r.id = proc[p].id,
           r.fd = proc[p].fd, r.mode = proc[p].mode, r.how = proc[p].how,
           r.mapped = proc[p].mapped, r.cat = proc[p].cat, r.rotating = proc[p].rotating,
           r.todo = proc[p].todo,
           UNCHANGED <<lockName, inodes, config, minted, opens, wounded, strayed, torn, metas>>
    PROVE  StoreInv'
<1>1. Claimed(p) /\ ~Creating(p)
    BY DEF Claimed, Creating
<1>2. ConfigPart(p) /\ CataloguePart(p) /\ CreationPart(p) /\ InspectionPart(p)
    BY <1>1, OfClaimant
<1>3. {wounded', strayed', torn'} \subseteq BOOLEAN /\ DiskShape
    BY DEF StoreInv, DiskShape
<1>4. /\ DiskShape'
      /\ DOMAIN segs' = DOMAIN segs
      /\ \A m \in DOMAIN segs : /\ segs'[m].stamp = segs[m].stamp
                                /\ segs'[m].map = segs[m].map
                                /\ segs'[m].by = segs[m].by
    <2>1. CASE n \in DOMAIN segs
        <3>. DEFINE f == [segs[n] EXCEPT !.keys = K]
        <3>1. segs[n] \in File
            BY <1>3, <2>1 DEF DiskShape
        <3>2. /\ f \in File /\ f.stamp = segs[n].stamp /\ f.map = segs[n].map
              /\ f.by = segs[n].by
            BY <2>1, <3>1 DEF File
        <3>3. segs' = [segs EXCEPT ![n] = f]
            OBVIOUS
        <3>. HIDE DEF f
        <3>4. /\ DiskShape'
              /\ DOMAIN segs' = DOMAIN segs
              /\ segs'[n] = f
              /\ \A m \in DOMAIN segs : m # n => segs'[m] = segs[m]
            BY <1>3, <2>1, <3>2, <3>3, Touched
        <3>. QED
            BY <3>2, <3>4
    <2>2. CASE n \notin DOMAIN segs
        <3>1. segs' = segs
            BY <1>3, <2>2 DEF DiskShape
        <3>. QED
            BY <1>3, <3>1 DEF DiskShape
    <2>. QED
        BY <2>1, <2>2
<1>5. proc'[p] = r
    BY OneMoves DEF StoreInv
<1>6. IdentityKept'
    BY <1>4 DEF StoreInv, DiskInv, IdentityKept
<1>7. \A m \in DOMAIN segs : Truthful(m) /\ (segs[m].map \/ torn)
    BY <1>1, WholeButOne
<1>8. \A m \in DOMAIN segs' : Truthful(m)'
    BY <1>4, <1>7 DEF Truthful
<1>9. \A m \in DOMAIN segs' : segs'[m].map \/ torn' \/ (Creating(p)' /\ m = r.at)
    BY <1>4, <1>7
<1>10. ConfigPart(p)'
    BY <1>2, <1>5 DEF ConfigPart, Settled, Served
<1>11. CataloguePart(p)'
    <2>1. \A m \in DOMAIN segs : Own(p, m) => Own(p, m)'
        BY <1>4 DEF Own
    <2>. QED
        BY <1>2, <1>4, <1>5, <2>1 DEF CataloguePart, Served, Creating
<1>12. CreationPart(p)' /\ InspectionPart(p)'
    BY <1>5 DEF CreationPart, Creating, InspectionPart, Inspecting
<1>13. config'.format = 2 => config'.id \in 0 .. minted
    BY DEF StoreInv, MintInv
<1>. QED
    BY <1>1, <1>4, <1>5, <1>6, <1>8, <1>9, <1>10, <1>11, <1>12, <1>13, ClaimantStep
       DEF ClaimantInv

\* An insertion writes to the active file of its class, a file of this store.
LEMMA InsertKeeps ==
    ASSUME StoreInv, NEW p \in Proc, NEW k, NEW key \in Key, Insert(p, k, key)
    PROVE  StoreInv'
<1>1. Claimed(p) /\ proc[p].pc = "open" /\ ~Inspecting(p)
    BY DEF Insert, Serving, Claimed
<1>2. PICK n : n = <<k, ActiveOf(proc[p].cat, k)>>
    OBVIOUS
<1>. DEFINE r == [proc[p] EXCEPT !.held[n] = Grown(@, key), !.count = @ + 1]
<1>3. /\ IsProcess(r) /\ r.pc = proc[p].pc /\ r.id = proc[p].id
      /\ r.fd = proc[p].fd /\ r.mode = proc[p].mode /\ r.how = proc[p].how
      /\ r.mapped = proc[p].mapped /\ r.cat = proc[p].cat /\ r.rotating = proc[p].rotating
      /\ r.todo = proc[p].todo
    BY <1>1, OfClaimant DEF IsProcess, Field
<1>4. proc' = [proc EXCEPT ![p] = r]
    BY <1>2 DEF Insert, Becomes
<1>5. segs' = [segs EXCEPT ![n].keys = segs[n].keys \cup {key}]
    BY <1>2 DEF Insert
<1>6. n \in DOMAIN segs => segs[n].keys \cup {key} \subseteq Key
    BY DEF StoreInv, DiskShape, File
<1>7. UNCHANGED <<lockName, inodes, config, minted, opens, wounded, strayed, torn, metas>>
    BY DEF Insert
<1>. HIDE DEF r
<1>. QED
    BY <1>1, <1>3, <1>4, <1>5, <1>6, <1>7, EntriesChange

\* A deletion writes to a catalogued file, a file of this store.
LEMMA EraseKeeps ==
    ASSUME StoreInv, NEW p \in Proc, NEW n, NEW key \in Key, Erase(p, n, key)
    PROVE  StoreInv'
<1>1. Claimed(p) /\ proc[p].pc = "open" /\ ~Inspecting(p)
    BY DEF Erase, Serving, Claimed
<1>. DEFINE r == [proc[p] EXCEPT !.held[n] = Shrunk(@), !.count = @ - 1]
<1>2. /\ IsProcess(r) /\ r.pc = proc[p].pc /\ r.id = proc[p].id
      /\ r.fd = proc[p].fd /\ r.mode = proc[p].mode /\ r.how = proc[p].how
      /\ r.mapped = proc[p].mapped /\ r.cat = proc[p].cat /\ r.rotating = proc[p].rotating
      /\ r.todo = proc[p].todo
    BY <1>1, OfClaimant DEF IsProcess, Field
<1>3. proc' = [proc EXCEPT ![p] = r]
    BY DEF Erase, Becomes
<1>4. segs' = [segs EXCEPT ![n].keys = segs[n].keys \ {key}]
    BY DEF Erase
<1>5. n \in DOMAIN segs => segs[n].keys \ {key} \subseteq Key
    BY DEF StoreInv, DiskShape, File
<1>6. UNCHANGED <<lockName, inodes, config, minted, opens, wounded, strayed, torn, metas>>
    BY DEF Erase
<1>. HIDE DEF r
<1>. QED
    BY <1>1, <1>2, <1>3, <1>4, <1>5, <1>6, EntriesChange

\* A rotation closes the active file of a class and goes on to create the next one.
LEMMA RotateKeeps ==
    ASSUME StoreInv, NEW p \in Proc, NEW k, Rotate(p, k)
    PROVE  StoreInv'
<1>1. Claimed(p) /\ ~Creating(p) /\ proc[p].pc = "open" /\ ~Inspecting(p) /\ k \in proc[p].mapped
    BY DEF Rotate, Serving, Claimed, Creating
<1>2. /\ ConfigPart(p) /\ CataloguePart(p) /\ CreationPart(p) /\ InspectionPart(p)
      /\ IsProcess(proc[p])
    BY <1>1, OfClaimant
<1>3. UNCHANGED <<lockName, inodes, config, segs, minted, opens, wounded, strayed, torn>>
    BY DEF Rotate
<1>4. PICK a : a = ActiveOf(proc[p].cat, k)
    OBVIOUS
<1>5. PICK next : next = <<k, a + 1>>
    OBVIOUS
<1>. DEFINE r == [proc[p] EXCEPT !.pc = "create", !.at = next, !.rotating = TRUE,
                                 !.mapped = @ \ {k}]
<1>6. /\ IsProcess(r) /\ r.pc = "create" /\ r.id = proc[p].id
      /\ r.fd = proc[p].fd /\ r.mode = proc[p].mode /\ r.how = proc[p].how
      /\ r.mapped = proc[p].mapped \ {k} /\ r.cat = proc[p].cat /\ r.rotating = TRUE
      /\ r.todo = proc[p].todo /\ r.at = next
    BY <1>2 DEF IsProcess, Field
<1>7. proc' = [proc EXCEPT ![p] = r] /\ next \in Name
    BY <1>4, <1>5 DEF Rotate, Becomes
<1>. HIDE DEF r
<1>8. proc'[p] = r
    BY <1>6, <1>7, OneMoves DEF StoreInv
<1>9. /\ proc[p].cat \subseteq DOMAIN segs
      /\ \A m \in proc[p].cat : m[1] \in Kinds(proc[p].mode)
      /\ proc[p].mapped \subseteq Kinds(proc[p].mode)
      /\ proc[p].todo = {}
      /\ \A m \in proc[p].cat : Own(p, m)
      /\ ~strayed => \A m \in DOMAIN segs : m[1] \in Kinds(proc[p].mode) => m \in proc[p].cat
    BY <1>1, <1>2 DEF CataloguePart, Served
<1>10. ConfigPart(p)'
    BY <1>1, <1>2, <1>3, <1>6, <1>8 DEF ConfigPart, Settled, Served
<1>11. CataloguePart(p)'
    <2>1. \A m : Own(p, m)' = Own(p, m)
        BY <1>3 DEF Own
    <2>. QED
        BY <1>3, <1>6, <1>8, <1>9, <2>1 DEF CataloguePart
<1>12. CreationPart(p)'
    <2>1. proc[p].cat \subseteq Name
        BY <1>9 DEF StoreInv, DiskShape
    <2>2. a \in Version /\ \A m \in proc[p].cat : m[1] = k => m[2] <= a
        BY <1>4, <2>1, ActiveNewest
    <2>3. a \in Nat
        BY <2>2, OpeningAssumption DEF Version
    <2>4. next[1] = k /\ next[2] = a + 1
        BY <1>5
    <2>5. next \notin proc[p].cat
        BY <2>2, <2>3, <2>4
    <2>. QED
        BY <1>1, <1>6, <1>7, <1>8, <1>9, <2>4, <2>5 DEF CreationPart, Creating
<1>13. InspectionPart(p)'
    BY <1>1, <1>6, <1>8 DEF InspectionPart, Inspecting
<1>. QED
    BY <1>1, <1>3, <1>6, <1>7, <1>10, <1>11, <1>12, <1>13, ClaimantGoesOn DEF ClaimantInv

\* close() gives the claim up and leaves the files as they are.
LEMMA CloseKeeps ==
    ASSUME StoreInv, NEW p \in Proc, Close(p)
    PROVE  StoreInv'
<1>1. Claimed(p) /\ ~Creating(p)
    BY DEF Close, Claimed, Creating
<1>2. UNCHANGED <<lockName, inodes, config, segs, minted, opens, wounded, strayed, torn>>
    BY DEF Close
<1>3. proc' = [proc EXCEPT ![p] = Gone]
    BY DEF Close, Refuse
<1>. QED
    BY <1>1, <1>2, <1>3, ClaimantEnds DEF StoreInv, DiskShape
-----------------------------------------------------------------------------
(* Before the claim *)

\* A step of a process that is not past the claim touches no one who is.
LEMMA StarterStep ==
    ASSUME StoreInv, NEW p \in Proc, ~Claimed(p),
           NEW r, IsProcess(r), proc' = [proc EXCEPT ![p] = r],
           r.pc \in {"idle", "claim", "flock"},
           r.pc = "flock" => lockName' # 0 /\ r.fd = lockName',
           r.pc # "idle" => /\ r.mode \in {"full", "reference"}
                            /\ r.cat = {} /\ r.mapped = {} /\ r.rotating = FALSE,
           lockName = 0 \/ lockName' = lockName, lockName' \in Nat, inodes' \in Nat,
           UNCHANGED <<config, segs, metas, minted, wounded, strayed>>,
           torn => torn', torn' \in BOOLEAN, MintInv'
    PROVE  StoreInv'
<1>1. ProcShape' /\ proc'[p] = r /\ \A q \in Proc : q # p => proc'[q] = proc[q]
    BY OneMoves DEF StoreInv
<1>2. ~Claimed(p)'
    BY <1>1 DEF Claimed
<1>3. \A q \in Proc : Claimed(q)' => q # p /\ proc'[q] = proc[q] /\ Claimed(q)
    BY <1>1, <1>2 DEF Claimed
<1>4. ClaimInv'
    <2>1. ASSUME NEW q \in Proc, proc'[q].pc \notin {"idle", "claim"}
          PROVE  lockName' # 0 /\ proc'[q].fd = lockName'
        <3>1. CASE q = p
            BY <1>1, <2>1, <3>1
        <3>2. CASE q # p
            BY <1>1, <2>1, <3>2 DEF StoreInv, ClaimInv
        <3>. QED
            BY <3>1, <3>2
    <2>2. OneClaimant'
        BY <1>3 DEF OneClaimant, StoreInv, ClaimInv
    <2>. QED
        BY <2>1, <2>2 DEF ClaimInv
<1>5. DiskShape' /\ IdentityKept'
    BY DEF StoreInv, DiskShape, DiskInv, IdentityKept
<1>6. FileInv'
    <2>1. ~Creating(p)
        BY DEF Creating, Claimed
    <2>2. \A q \in Proc : Creating(q) => Creating(q)' /\ proc'[q].at = proc[q].at
        BY <1>1, <2>1 DEF Creating
    <2>3. UnderWay \subseteq UnderWay'
        BY <2>2 DEF UnderWay
    <2>4. \A n \in DOMAIN segs : Truthful(n) /\ (segs[n].map \/ torn \/ n \in UnderWay)
        BY DEF StoreInv, DiskInv, FileInv
    <2>5. \A n \in DOMAIN segs : Truthful(n)'
        BY <2>4 DEF Truthful
    <2>. QED
        BY <2>3, <2>4, <2>5 DEF FileInv
<1>7. ASSUME NEW q \in Proc PROVE StartInv(q)'
    <2>1. CASE q = p
        BY <1>1, <2>1 DEF StartInv, Fresh
    <2>2. CASE q # p
        BY <1>1, <2>2 DEF StoreInv, StartInv, Fresh
    <2>. QED
        BY <2>1, <2>2
<1>8. ASSUME NEW q \in Proc, Claimed(q)' PROVE ClaimantInv(q)'
    <2>1. proc'[q] = proc[q] /\ Claimed(q)
        BY <1>3, <1>8
    <2>2. ConfigPart(q) /\ CataloguePart(q) /\ CreationPart(q) /\ InspectionPart(q)
        BY <2>1, OfClaimant
    <2>3. ConfigPart(q)'
        BY <2>1, <2>2 DEF ConfigPart, Fresh
    <2>4. CataloguePart(q)'
        <3>1. \A n : Own(q, n)' = Own(q, n)
            BY DEF Own
        <3>. QED
            BY <2>1, <2>2, <3>1 DEF CataloguePart, Creating
    <2>5. CreationPart(q)'
        BY <2>1, <2>2 DEF CreationPart, Creating
    <2>6. InspectionPart(q)'
        BY <2>1, <2>2 DEF InspectionPart, Inspecting
    <2>. QED
        BY <2>3, <2>4, <2>5, <2>6 DEF ClaimantInv
<1>. QED
    BY <1>1, <1>4, <1>5, <1>6, <1>7, <1>8 DEF StoreInv, DiskInv

\* A process that goes before it has the claim.
LEMMA StarterGoes ==
    ASSUME StoreInv, NEW p \in Proc, ~Claimed(p), proc' = [proc EXCEPT ![p] = Gone],
           UNCHANGED <<lockName, inodes, config, segs, metas, minted, wounded, strayed>>,
           opens' \in {opens, opens + 1}, opens' <= MaxOpens,
           torn => torn', torn' \in BOOLEAN
    PROVE  StoreInv'
<1>1. IsProcess(Gone) /\ Gone.pc = "idle"
    BY GoneIsProcess
<1>2. proc'[p] = Gone /\ \A q \in Proc : q # p => proc'[q] = proc[q]
    BY <1>1, OneMoves DEF StoreInv
<1>3. Drawing' \subseteq Drawing
    BY <1>1, <1>2 DEF Drawing
<1>4. MintInv'
    <2>1. IsFiniteSet(Drawing) /\ Cardinality(Drawing) \in Nat
        BY FS_CardinalityType DEF StoreInv, MintInv
    <2>2. IsFiniteSet(Drawing') /\ Cardinality(Drawing') <= Cardinality(Drawing)
        BY <1>3, <2>1, FS_Subset
    <2>3. Cardinality(Drawing') \in Nat
        BY <2>2, FS_CardinalityType
    <2>4. MintInv
        BY DEF StoreInv
    <2>. QED
        BY <2>1, <2>2, <2>3, <2>4 DEF MintInv
<1>5. lockName' \in Nat /\ inodes' \in Nat
    BY DEF StoreInv, DiskShape
<1>. QED
    BY <1>1, <1>4, <1>5, StarterStep

\* A process that calls open() holds nothing yet.
LEMMA BeginKeeps ==
    ASSUME StoreInv, NEW p \in Proc, NEW mode \in {"full", "reference"}, NEW how,
           Begin(p, mode, how)
    PROVE  StoreInv'
<1>1. ~Claimed(p) /\ proc[p].pc = "idle" /\ opens < MaxOpens /\ opens' = opens + 1
    BY DEF Begin, Claimed
<1>2. UNCHANGED <<lockName, inodes, config, segs, metas, minted, wounded, strayed, torn>>
    BY DEF Begin, history
<1>3. MintInv /\ MaxOpens \in Nat /\ torn \in BOOLEAN /\ lockName \in Nat /\ inodes \in Nat
    BY OpeningAssumption DEF StoreInv, DiskShape
<1>4. opens \in Nat /\ opens' <= MaxOpens
    BY <1>1, <1>3 DEF MintInv
<1>5. CASE proc' = [proc EXCEPT ![p] = Gone]
    BY <1>1, <1>2, <1>3, <1>4, <1>5, StarterGoes
<1>6. CASE proc' = [proc EXCEPT ![p] =
                       [Gone EXCEPT !.pc = "claim", !.mode = mode, !.how = how]]
    <2>. DEFINE r == [Gone EXCEPT !.pc = "claim", !.mode = mode, !.how = how]
    <2>1. /\ IsProcess(r) /\ r.pc = "claim" /\ r.mode = mode
          /\ r.cat = {} /\ r.mapped = {} /\ r.rotating = FALSE
        BY DEF IsProcess, Field, Gone
    <2>. HIDE DEF r
    <2>2. proc'[p] = r /\ \A q \in Proc : q # p => proc'[q] = proc[q]
        BY <1>6, <2>1, OneMoves DEF StoreInv, r
    <2>3. Drawing' = Drawing \cup {p} /\ p \notin Drawing
        BY <1>1, <2>1, <2>2 DEF Drawing
    <2>4. MintInv'
        <3>1. IsFiniteSet(Drawing) /\ Cardinality(Drawing) \in Nat
            BY <1>3, FS_CardinalityType DEF MintInv
        <3>2. IsFiniteSet(Drawing') /\ Cardinality(Drawing') = Cardinality(Drawing) + 1
            BY <2>3, <3>1, FS_AddElement
        <3>. QED
            BY <1>1, <1>2, <1>3, <1>4, <3>1, <3>2 DEF MintInv
    <2>5. /\ r.pc \in {"idle", "claim", "flock"}
          /\ r.pc = "flock" => lockName' # 0 /\ r.fd = lockName'
          /\ r.pc # "idle" => /\ r.mode \in {"full", "reference"}
                              /\ r.cat = {} /\ r.mapped = {} /\ r.rotating = FALSE
        BY <2>1
    <2>. QED
        BY <1>1, <1>2, <1>3, <1>6, <2>1, <2>4, <2>5, StarterStep DEF r
<1>. QED
    BY <1>5, <1>6 DEF Begin, Becomes, Refuse

\* A name that is taken is opened and not replaced.
LEMMA OpenLockFileKeeps ==
    ASSUME StoreInv, NEW p \in Proc, OpenLockFile(p)
    PROVE  StoreInv'
<1>1. ~Claimed(p) /\ proc[p].pc = "claim"
    BY DEF OpenLockFile, Claimed
<1>2. UNCHANGED <<config, segs, metas, minted, opens, wounded, strayed, torn>>
    BY DEF OpenLockFile, bounds, history
<1>3. MintInv /\ torn \in BOOLEAN /\ lockName \in Nat /\ inodes \in Nat
    BY DEF StoreInv, DiskShape
<1>4. /\ lockName' \in Nat /\ inodes' \in Nat /\ lockName' # 0
      /\ lockName = 0 \/ lockName' = lockName
    BY <1>3 DEF OpenLockFile
<1>5. PICK l : l = lockName'
    OBVIOUS
<1>. DEFINE r == [proc[p] EXCEPT !.pc = "flock", !.fd = l]
<1>6. /\ IsProcess(r) /\ r.pc = "flock" /\ r.fd = l /\ r.mode = proc[p].mode
      /\ r.cat = proc[p].cat /\ r.mapped = proc[p].mapped /\ r.rotating = proc[p].rotating
    BY DEF StoreInv, ProcShape, IsProcess, Field
<1>7. proc' = [proc EXCEPT ![p] = r]
    BY <1>5 DEF OpenLockFile, Becomes
<1>. HIDE DEF r
<1>8. proc'[p] = r /\ \A q \in Proc : q # p => proc'[q] = proc[q]
    BY <1>6, <1>7, OneMoves DEF StoreInv
<1>9. Drawing' \subseteq Drawing
    BY <1>1, <1>6, <1>8 DEF Drawing
<1>10. MintInv'
    BY <1>2, <1>3, <1>9, MintKept DEF MintInv
<1>11. /\ r.pc \in {"idle", "claim", "flock"}
       /\ r.pc = "flock" => lockName' # 0 /\ r.fd = lockName'
       /\ r.pc # "idle" => /\ r.mode \in {"full", "reference"}
                           /\ r.cat = {} /\ r.mapped = {} /\ r.rotating = FALSE
    BY <1>1, <1>4, <1>5, <1>6 DEF StoreInv, StartInv, Fresh
<1>. QED
    BY <1>1, <1>2, <1>3, <1>4, <1>6, <1>7, <1>10, <1>11, StarterStep

\* The claim cannot be had: the call is refused, and wrote nothing.
LEMMA LockUnavailableKeeps ==
    ASSUME StoreInv, NEW p \in Proc, LockUnavailable(p)
    PROVE  StoreInv'
<1>1. ~Claimed(p)
    BY DEF LockUnavailable, Claimed
<1>2. UNCHANGED <<lockName, inodes, config, segs, metas, minted, opens, wounded, strayed, torn>>
    BY DEF LockUnavailable, disk, history
<1>3. opens <= MaxOpens /\ torn \in BOOLEAN
    BY DEF StoreInv, MintInv, DiskShape
<1>4. proc' = [proc EXCEPT ![p] = Gone]
    BY DEF LockUnavailable, Refuse
<1>. QED
    BY <1>1, <1>2, <1>3, <1>4, StarterGoes

\* The lock is granted when nobody is past the claim: everyone who is holds a lock on
\* the inode this process has opened.
LEMMA TryLockKeeps ==
    ASSUME StoreInv, NEW p \in Proc, TryLock(p)
    PROVE  StoreInv'
<1>1. ~Claimed(p) /\ proc[p].pc = "flock"
    BY DEF TryLock, Claimed
<1>2. UNCHANGED <<lockName, inodes, config, segs, metas, minted, opens, wounded, strayed, torn>>
    BY DEF TryLock, disk, bounds, history
<1>3. MintInv /\ opens <= MaxOpens /\ torn \in BOOLEAN /\ ClaimInv
    BY DEF StoreInv, DiskShape, MintInv
<1>4. CASE proc' = [proc EXCEPT ![p] = Gone]
    BY <1>1, <1>2, <1>3, <1>4, StarterGoes
<1>. DEFINE pc == IF proc[p].how = "remove" THEN "clear" ELSE "config"
            r == [proc[p] EXCEPT !.pc = pc]
<1>5. CASE /\ \A q \in Proc \ {p} : Claimed(q) => proc[q].fd # proc[p].fd
           /\ proc' = [proc EXCEPT ![p] = r]
    <2>1. /\ IsProcess(r) /\ r.pc = pc /\ r.fd = proc[p].fd /\ r.mode = proc[p].mode
          /\ r.cat = proc[p].cat /\ r.mapped = proc[p].mapped /\ r.rotating = proc[p].rotating
          /\ r.how = proc[p].how
        BY DEF StoreInv, ProcShape, IsProcess, Field
    <2>2. pc \in {"clear", "config"} /\ (proc[p].how = "inspect" => pc = "config")
        OBVIOUS
    <2>. HIDE DEF r, pc
    <2>3. /\ ProcShape' /\ proc'[p] = r
          /\ \A q \in Proc : q # p => proc'[q] = proc[q]
        BY <1>5, <2>1, OneMoves DEF StoreInv
    <2>4. lockName # 0 /\ proc[p].fd = lockName
        BY <1>1, <1>3 DEF ClaimInv
    <2>5. \A q \in Proc : ~Claimed(q)
        <3>. SUFFICES ASSUME NEW q \in Proc, Claimed(q) PROVE FALSE
            OBVIOUS
        <3>1. q # p
            BY <1>1
        <3>2. proc[q].fd = lockName
            BY <1>3 DEF ClaimInv, Claimed
        <3>. QED
            BY <1>5, <2>4, <3>1, <3>2
    <2>6. \A q \in Proc : Claimed(q)' => q = p
        BY <2>3, <2>5 DEF Claimed
    <2>7. ClaimInv'
        <3>1. ASSUME NEW q \in Proc, proc'[q].pc \notin {"idle", "claim"}
              PROVE  lockName' # 0 /\ proc'[q].fd = lockName'
            <4>1. CASE q = p
                BY <1>2, <2>1, <2>3, <2>4, <4>1
            <4>2. CASE q # p
                BY <1>2, <1>3, <2>3, <3>1, <4>2 DEF ClaimInv
            <4>. QED
                BY <4>1, <4>2
        <3>2. OneClaimant'
            BY <2>6 DEF OneClaimant
        <3>. QED
            BY <3>1, <3>2 DEF ClaimInv
    <2>8. MintInv'
        <3>1. Drawing' \subseteq Drawing
            BY <1>1, <2>3 DEF Drawing
        <3>. QED
            BY <1>2, <1>3, <3>1, MintKept DEF MintInv
    <2>9. DiskShape' /\ IdentityKept'
        BY <1>2 DEF StoreInv, DiskShape, DiskInv, IdentityKept
    <2>10. FileInv'
        <3>1. UnderWay = {}
            BY <2>5 DEF UnderWay, Creating, Claimed
        <3>2. \A n \in DOMAIN segs : Truthful(n) /\ (segs[n].map \/ torn)
            BY <3>1 DEF StoreInv, DiskInv, FileInv
        <3>3. \A n \in DOMAIN segs : Truthful(n)'
            BY <1>2, <3>2 DEF Truthful
        <3>. QED
            BY <1>2, <3>2, <3>3 DEF FileInv
    <2>11. \A q \in Proc : StartInv(q)'
        BY <2>1, <2>2, <2>3 DEF StoreInv, StartInv, Fresh
    <2>12. ClaimantInv(p)'
        <3>1. proc[p].mode \in {"full", "reference"} /\ Fresh(p)
            BY <1>1 DEF StoreInv, StartInv
        <3>2. ConfigPart(p)'
            BY <2>1, <2>2, <2>3, <3>1 DEF ConfigPart, Fresh, Settled, Served
        <3>3. CataloguePart(p)' /\ CreationPart(p)'
            BY <2>1, <2>2, <2>3 DEF CataloguePart, CreationPart, Served, Creating
        <3>4. InspectionPart(p)'
            BY <2>1, <2>2, <2>3 DEF InspectionPart, Inspecting
        <3>. QED
            BY <3>2, <3>3, <3>4 DEF ClaimantInv
    <2>. QED
        BY <2>3, <2>6, <2>7, <2>8, <2>9, <2>10, <2>11, <2>12 DEF StoreInv, DiskInv
<1>. QED
    BY <1>4, <1>5 DEF TryLock, Goto, Becomes, Refuse
-----------------------------------------------------------------------------
(* A process dies; a file is brought in *)

\* A process that dies loses its claim with its locals; the files stay.
LEMMA CrashKeeps ==
    ASSUME StoreInv, NEW p \in Proc, Crash(p)
    PROVE  StoreInv'
<1>1. proc' = [proc EXCEPT ![p] = Gone]
    BY DEF Crash, Refuse
<1>2. UNCHANGED <<lockName, inodes, config, segs, metas, minted, opens, wounded, strayed>>
    BY DEF Crash, disk
<1>3. opens <= MaxOpens /\ torn \in BOOLEAN
    BY DEF StoreInv, MintInv, DiskShape
<1>4. torn' = (torn \/ Creating(p))
    BY DEF Crash
<1>5. torn' \in BOOLEAN /\ (torn => torn') /\ (Creating(p) => torn')
    BY <1>4
<1>6. CASE ~Claimed(p)
    BY <1>1, <1>2, <1>3, <1>5, <1>6, StarterGoes
<1>7. CASE Claimed(p) /\ ~Creating(p)
    BY <1>1, <1>2, <1>5, <1>7, ClaimantEnds
<1>8. CASE Claimed(p) /\ Creating(p)
    <2>1. DiskShape' /\ IdentityKept'
        BY <1>2, <1>5 DEF StoreInv, DiskShape, DiskInv, IdentityKept
    <2>2. \A n \in DOMAIN segs : Truthful(n)
        BY <1>8, WholeButOne
    <2>3. \A n \in DOMAIN segs' : Truthful(n)' /\ (segs'[n].map \/ torn')
        BY <1>2, <1>5, <1>8, <2>2 DEF Truthful
    <2>4. config'.format = 2 => config'.id \in 0 .. minted
        BY <1>2 DEF StoreInv, MintInv
    <2>. QED
        BY <1>1, <1>2, <1>8, <2>1, <2>3, <2>4, ClaimantLeaves
<1>. QED
    BY <1>6, <1>7, <1>8

\* What is brought in by hand fits nowhere: it is damaged, of another store, or a
\* copy of a version under another name.
LEMMA StrayKeeps ==
    ASSUME StoreInv, NEW n \in Name, NEW s \in StrayStamp(n), Stray(n, s)
    PROVE  StoreInv'
<1>1. UNCHANGED <<lockName, inodes, config, metas, proc, minted, opens, wounded, torn>>
    BY DEF Stray
<1>2. strayed' = TRUE /\ ~strayed /\ n \notin DOMAIN segs
    BY DEF Stray
<1>3. \A m \in DOMAIN segs : /\ segs[m] \in File /\ segs[m].by \in Build
                             /\ Truthful(m)
                             /\ segs[m].map \/ torn \/ m \in UnderWay
    BY <1>2, NoBuildApart DEF StoreInv, DiskShape, DiskInv, FileInv, Truthful, File
<1>4. /\ s \in Stamp /\ s # NoStamp
      /\ s = Damaged \/ s.id = MaxOpens + 2 \/ s.name # n
    <2>1. CASE s = Damaged
        BY <2>1, StampsApart DEF Stamp
    <2>2. CASE s = LocalIdentity(BuildOf[AnyProc], MaxOpens + 2, n)
        <3>1. AnyProc \in Proc /\ MaxOpens + 2 \in Nat
            BY OpeningAssumption DEF AnyProc
        <3>2. BuildOf[AnyProc] \in Build
            BY <3>1, OpeningAssumption
        <3>. QED
            BY <2>2, <3>1, <3>2, StampsApart DEF Stamp
    <2>3. ASSUME NEW m \in DOMAIN segs, segs[m].map, s = segs[m].stamp
          PROVE  s \in Stamp /\ s # NoStamp /\ s.name # n
        <3>1. s \in Stamp /\ s # NoStamp
            BY <1>3, <2>3 DEF File, Truthful
        <3>2. PICK i \in Nat : s = LocalIdentity(segs[m].by, i, m)
            BY <1>3, <2>3, <3>1 DEF Truthful
        <3>. QED
            BY <1>2, <3>1, <3>2, StampsApart
    <2>4. s \in {Damaged, LocalIdentity(BuildOf[AnyProc], MaxOpens + 2, n)}
            \/ \E m \in DOMAIN segs : segs[m].map /\ s = segs[m].stamp
        BY DEF StrayStamp
    <2>. QED
        BY <2>1, <2>2, <2>3, <2>4
<1>. DEFINE f == [sized |-> TRUE, stamp |-> s, map |-> TRUE, keys |-> {}, by |-> NoBuild]
<1>5. f \in File /\ f.stamp = s /\ f.map = TRUE /\ f.sized /\ f.by = NoBuild
    BY <1>4 DEF File
<1>6. segs' = [m \in DOMAIN segs \cup {n} |-> IF m = n THEN f ELSE segs[m]]
    BY DEF Stray
<1>. HIDE DEF f
<1>7. {wounded', strayed', torn'} \subseteq BOOLEAN /\ DiskShape
    BY <1>1, <1>2 DEF StoreInv, DiskShape
<1>8. /\ DiskShape'
      /\ DOMAIN segs' = DOMAIN segs \cup {n}
      /\ segs'[n] = f
      /\ \A m \in DOMAIN segs : segs'[m] = segs[m]
    BY <1>1, <1>2, <1>5, <1>6, <1>7, Added
<1>9. FileInv'
    <2>1. Truthful(n)'
        BY <1>2, <1>4, <1>5, <1>8, NoBuildApart DEF Truthful
    <2>2. ASSUME NEW m \in DOMAIN segs PROVE Truthful(m)'
        BY <1>3, <1>8, NoBuildApart DEF Truthful
    <2>3. UnderWay' = UnderWay
        BY <1>1 DEF UnderWay, Creating
    <2>. QED
        BY <1>1, <1>3, <1>5, <1>8, <2>1, <2>2, <2>3 DEF FileInv
<1>10. IdentityKept'
    BY <1>2 DEF IdentityKept
<1>11. ProcShape' /\ ClaimInv' /\ MintInv' /\ \A q \in Proc : StartInv(q)'
    BY <1>1 DEF StoreInv, ProcShape, ClaimInv, OneClaimant, Claimed, MintInv, Drawing, StartInv,
                Fresh
<1>12. ASSUME NEW q \in Proc, Claimed(q)' PROVE ClaimantInv(q)'
    <2>1. proc'[q] = proc[q] /\ Claimed(q) /\ proc[q].pc = "open"
        BY <1>1, <1>12 DEF Claimed, Stray
    <2>2. ConfigPart(q) /\ CataloguePart(q) /\ CreationPart(q) /\ InspectionPart(q)
        BY <2>1, OfClaimant
    <2>3. ConfigPart(q)'
        BY <1>1, <2>1, <2>2 DEF ConfigPart, Fresh
    <2>4. CataloguePart(q)'
        <3>1. \A m \in DOMAIN segs : Own(q, m) => Own(q, m)'
            BY <1>1, <1>8 DEF Own
        <3>. QED
            BY <1>2, <1>8, <2>1, <2>2, <3>1 DEF CataloguePart
    <2>5. CreationPart(q)'
        BY <2>1 DEF CreationPart, Creating
    <2>6. InspectionPart(q)'
        BY <1>1, <2>1, <2>2 DEF InspectionPart, Inspecting
    <2>. QED
        BY <2>3, <2>4, <2>5, <2>6 DEF ClaimantInv
<1>. QED
    BY <1>8, <1>9, <1>10, <1>11, <1>12 DEF StoreInv, DiskInv
-----------------------------------------------------------------------------
(* The invariant *)

\* A closed store is one whose files carry the identity of its configuration.
LEMMA InitHolds ==
    ASSUME Init
    PROVE  StoreInv
<1>1. /\ proc = [p \in Proc |-> Gone] /\ minted = 1 /\ opens = 0
      /\ wounded = FALSE /\ torn = FALSE /\ strayed = FALSE
      /\ lockName \in {0, 1} /\ inodes = lockName
    BY DEF Init
<1>2. \A p \in Proc : proc[p] = Gone /\ proc[p].pc = "idle" /\ IsProcess(proc[p])
    BY <1>1, GoneIsProcess
<1>3. ProcShape
    BY <1>1, <1>2 DEF ProcShape
<1>4. ClaimInv /\ \A p \in Proc : StartInv(p) /\ ~Claimed(p)
    BY <1>2 DEF ClaimInv, OneClaimant, Claimed, StartInv
<1>5. Drawing = {} /\ MaxOpens \in Nat
    BY <1>2, OpeningAssumption DEF Drawing
<1>6. MintInv
    <2>1. config.format = 2 => config.id \in {0, 1}
        <3>1. ASSUME NEW mode, config = LocalConfig(BuildOf[AnyProc], mode, 1)
              PROVE  config.id = 1
            BY <3>1 DEF LocalConfig
        <3>2. CASE config \in PriorConfig \cup {NoConfig}
            BY <3>2 DEF PriorConfig, NoConfig
        <3>. QED
            BY <3>1, <3>2 DEF Init, ClosedStore, MergingStore
    <2>2. config.format = 2 => config.id \in 0 .. minted
        BY <1>1, <2>1
    <2>. QED
        BY <1>1, <1>5, <2>2, FS_EmptySet DEF MintInv
<1>d. lockName \in Nat /\ inodes \in Nat /\ {wounded, strayed, torn} \subseteq BOOLEAN
    <2>1. lockName \in Nat /\ inodes \in Nat
        BY <1>1
    <2>2. wounded \in BOOLEAN /\ strayed \in BOOLEAN /\ torn \in BOOLEAN
        BY <1>1
    <2>. QED
        BY <2>1, <2>2
<1>7. CASE segs = <<>>
    <2>1. DOMAIN segs = {} /\ segs \in [DOMAIN segs -> File]
        BY <1>7
    <2>2. DiskShape
        BY <1>d, <2>1 DEF DiskShape
    <2>3. DiskInv
        BY <2>1 DEF DiskInv, IdentityKept, FileInv
    <2>. QED
        BY <1>3, <1>4, <1>6, <2>2, <2>3 DEF StoreInv
<1>8. ASSUME NEW b \in Build, NEW files \in SUBSET Name, NEW Of \in [files -> SUBSET Key],
             config.id = 1, config.format = 2,
             segs = [n \in files |-> [sized |-> TRUE, stamp |-> LocalIdentity(b, 1, n),
                                      map |-> TRUE, keys |-> Of[n], by |-> b]]
      PROVE  StoreInv
    <2>. DEFINE made(n) == [sized |-> TRUE, stamp |-> LocalIdentity(b, 1, n), map |-> TRUE,
                            keys |-> Of[n], by |-> b]
    <2>1. segs = [n \in files |-> made(n)]
        BY <1>8
    <2>2. \A n \in files : /\ made(n) \in File /\ made(n).by = b /\ made(n).map = TRUE
                           /\ made(n).stamp = LocalIdentity(b, 1, n) /\ made(n).sized = TRUE
        BY <1>8 DEF File, Stamp
    <2>. HIDE DEF made
    <2>3. DOMAIN segs = files /\ \A n \in files : segs[n] = made(n)
        BY <2>1
    <2>4. DiskShape
        <3>1. segs \in [DOMAIN segs -> File] /\ DOMAIN segs \subseteq Name
            BY <2>1, <2>2, <2>3
        <3>. QED
            BY <1>d, <3>1 DEF DiskShape
    <2>5. config # NoConfig
        BY <1>8 DEF NoConfig
    <2>6. IdentityKept
        BY <1>8, <2>2, <2>3, <2>5, StampsApart DEF IdentityKept
    <2>7. FileInv
        BY <2>2, <2>3, NoBuildApart, StampsApart DEF FileInv, Truthful
    <2>. QED
        BY <1>3, <1>4, <1>6, <2>4, <2>6, <2>7 DEF StoreInv, DiskInv
<1>9. ASSUME NEW mode, ClosedStore(AnyProc, mode, Min(Key)) PROVE StoreInv
    <2>1. BuildOf[AnyProc] \in Build /\ Min(Key) \in Key
        BY OpeningAssumption, MinOf DEF AnyProc
    <2>. DEFINE Of == [n \in Kinds(mode) \X {0} |->
                          IF n = <<Min(Kinds(mode)), 0>> THEN {Min(Key)} ELSE {}]
    <2>2. Kinds(mode) \X {0} \in SUBSET Name
        BY KindsOfMode, OpeningAssumption DEF Name, Kind, Version
    <2>3. /\ config.id = 1 /\ config.format = 2
          /\ segs = [n \in Kinds(mode) \X {0} |->
                       [sized |-> TRUE, stamp |-> LocalIdentity(BuildOf[AnyProc], 1, n),
                        map |-> TRUE, keys |-> Of[n], by |-> BuildOf[AnyProc]]]
        BY <1>9 DEF ClosedStore, LocalConfig, OwnFile
    <2>4. Of \in [Kinds(mode) \X {0} -> SUBSET Key]
        BY <2>1
    <2>. HIDE DEF Of
    <2>. QED
        BY <1>8, <2>1, <2>2, <2>3, <2>4
<1>10. ASSUME NEW mode, NEW published, MergingStore(AnyProc, mode, Min(Key), published)
       PROVE  StoreInv
    <2>1. BuildOf[AnyProc] \in Build /\ Min(Key) \in Key
        BY OpeningAssumption, MinOf DEF AnyProc
    <2>2. PICK k : k = Min(Kinds(mode))
        OBVIOUS
    <2>3. k \in Kinds(mode) /\ Kinds(mode) \subseteq Kind
        BY <2>2, KindsOfMode, MinOf
    <2>4. PICK files : files = ({k} \X (0 .. IF published THEN 2 ELSE 1))
                                   \cup ((Kinds(mode) \ {k}) \X {0})
        OBVIOUS
    <2>. DEFINE held(v) == IF v = 0 THEN {Min(Key)}
                           ELSE IF v = 1 THEN Key \ {Min(Key)} ELSE Key
                Of == [n \in files |-> IF n[1] = k THEN held(n[2]) ELSE {}]
    <2>5. files \in SUBSET Name
        <3>1. MaxVersion \in Nat /\ MaxVersion >= 2
            BY <1>10, OpeningAssumption DEF MergingStore
        <3>2. 0 .. (IF published THEN 2 ELSE 1) \subseteq Version /\ 0 \in Version
            BY <3>1 DEF Version
        <3>. QED
            BY <2>3, <2>4, <3>2 DEF Name, Kind
    <2>6. /\ config.id = 1 /\ config.format = 2
          /\ segs = [n \in files |->
                       [sized |-> TRUE, stamp |-> LocalIdentity(BuildOf[AnyProc], 1, n),
                        map |-> TRUE, keys |-> Of[n], by |-> BuildOf[AnyProc]]]
        BY <1>10, <2>2, <2>4 DEF MergingStore, LocalConfig, OwnFile
    <2>7. Of \in [files -> SUBSET Key]
        BY <2>1
    <2>. HIDE DEF Of, held
    <2>. QED
        BY <1>8, <2>1, <2>5, <2>6, <2>7
<1>. QED
    BY <1>7, <1>9, <1>10 DEF Init

\* A step that changes nothing.
LEMMA StutterKeeps ==
    ASSUME StoreInv, UNCHANGED vars
    PROVE  StoreInv'
<1>1. UNCHANGED <<lockName, inodes, config, segs, metas, proc, minted, opens, wounded, torn,
                  strayed>>
    BY DEF vars
<1>2. ProcShape' /\ DiskShape' /\ ClaimInv' /\ MintInv'
    BY <1>1 DEF StoreInv, ProcShape, DiskShape, ClaimInv, OneClaimant, Claimed, MintInv, Drawing
<1>3. DiskInv'
    <2>1. \A n : Truthful(n)' = Truthful(n)
        BY <1>1 DEF Truthful
    <2>2. UnderWay' = UnderWay
        BY <1>1 DEF UnderWay, Creating
    <2>. QED
        <3>1. IdentityKept'
            BY <1>1 DEF StoreInv, DiskInv, IdentityKept
        <3>2. FileInv'
            BY <1>1, <2>1, <2>2 DEF StoreInv, DiskInv, FileInv
        <3>. QED
            BY <3>1, <3>2 DEF DiskInv
<1>4. ASSUME NEW p \in Proc PROVE StartInv(p)' /\ (Claimed(p)' => ClaimantInv(p)')
    <2>1. StartInv(p)' = StartInv(p) /\ Claimed(p)' = Claimed(p)
        BY <1>1 DEF StartInv, Fresh, Claimed
    <2>2. ConfigPart(p)' = ConfigPart(p)
        BY <1>1 DEF ConfigPart, Fresh
    <2>3. CataloguePart(p)' = CataloguePart(p)
        BY <1>1 DEF CataloguePart, Own, Creating
    <2>4. CreationPart(p)' = CreationPart(p)
        BY <1>1 DEF CreationPart, Creating
    <2>5. InspectionPart(p)' = InspectionPart(p)
        BY <1>1 DEF InspectionPart, Inspecting
    <2>. QED
        BY <2>1, <2>2, <2>3, <2>4, <2>5 DEF StoreInv, ClaimantInv
<1>. QED
    BY <1>2, <1>3, <1>4 DEF StoreInv

\* Every step of a process keeps the invariant.
LEMMA ProcessKeeps ==
    ASSUME StoreInv, NEW p \in Proc, Opening(p) \/ Creation(p) \/ Session(p) \/ Crash(p)
    PROVE  StoreInv'
<1>1. CASE Opening(p)
    <2>1. CASE \/ \E mode \in {"full", "reference"}, how \in {"open", "remove", "inspect"} :
                    Begin(p, mode, how)
               \/ OpenLockFile(p) \/ TryLock(p) \/ LockUnavailable(p)
        BY <2>1, BeginKeeps, OpenLockFileKeeps, TryLockKeeps, LockUnavailableKeeps
    <2>2. CASE RemoveChild(p) \/ Cleared(p) \/ ReadConfig(p) \/ DrawIdentity(p)
        BY <2>2, RemoveChildKeeps, ClearedKeeps, ReadConfigKeeps, DrawIdentityKeeps
    <2>3. CASE WriteConfig(p) \/ PublishConfig(p) \/ ConfigBarrier(p) \/ ConfigFails(p)
        BY <2>3, WriteConfigKeeps, PublishConfigKeeps, ConfigBarrierKeeps, ConfigFailsKeeps
    <2>4. CASE \/ Unreadable(p) \/ EntropyFails(p) \/ RecoveryRefuses(p) \/ RecoveryFails(p)
               \/ Recover(p)
        BY <2>4, UnreadableKeeps, RecoverKeeps
    <2>6. CASE EnumerateReference(p) \/ EnumerateFull(p)
        BY <2>6, EnumerateKeeps
    <2>5. CASE \/ OpenReference(p) \/ OpenFull(p) \/ MapFails(p) \/ FreshClass(p)
               \/ OpenReturns(p)
        BY <2>5, OpenClassesKeep, MapFailsKeeps, FreshClassKeeps, OpenReturnsKeeps
    <2>. QED
        BY <1>1, <2>1, <2>2, <2>3, <2>4, <2>5, <2>6 DEF Opening
<1>2. CASE Creation(p)
    BY <1>2, CreateFileKeeps, SizeFileKeeps, PlaceStampKeeps, ConstructMapKeeps,
       ConstructorFailsKeeps, RollBackKeeps
       DEF Creation
<1>3. CASE Session(p)
    BY <1>3, InsertKeeps, EraseKeeps, RotateKeeps, CloseKeeps DEF Session
<1>. QED
    BY <1>1, <1>2, <1>3, CrashKeeps

\* The invariant of opening a store: claims, identities, files and catalogues agree
\* whatever the processes do and wherever they die.
THEOREM StoreInvariant == Spec => []StoreInv
<1>1. Init => StoreInv
    BY InitHolds
<1>2. StoreInv /\ [Next]_vars => StoreInv'
    <2>. SUFFICES ASSUME StoreInv, [Next]_vars PROVE StoreInv'
        OBVIOUS
    <2>1. CASE Next
        BY <2>1, ProcessKeeps, StrayKeeps DEF Next
    <2>2. CASE UNCHANGED vars
        BY <2>2, StutterKeeps
    <2>. QED
        BY <2>1, <2>2
<1>. QED
    BY <1>1, <1>2, PTL DEF Spec

\* The claim on the directory is exclusive: remove_existing leaves the lock file, so
\* everyone contends for one inode.
THEOREM OneClaimantHolds == Spec => []OneClaimant
<1>1. StoreInv => OneClaimant
    BY DEF StoreInv, ClaimInv
<1>. QED
    BY <1>1, StoreInvariant, PTL

\* The identity is on disk before the first file that carries it.
THEOREM IdentityKeptHolds == Spec => []IdentityKept
<1>1. StoreInv => IdentityKept
    BY DEF StoreInv, DiskInv
<1>. QED
    BY <1>1, StoreInvariant, PTL

\* What is served was made by this build, for this store, as what it is served as,
\* and to the end: stamps answer for it, files brought in by hand included.
THEOREM ServesOwnFilesHolds == Spec => []ServesOwnFiles
<1>1. StoreInv => ServesOwnFiles
    <2>. SUFFICES ASSUME StoreInv, NEW p \in Proc, Serving(p), NEW n \in proc[p].cat
                  PROVE  Own(p, n)
        BY DEF ServesOwnFiles, Own
    <2>1. Claimed(p) /\ proc[p].pc = "open"
        BY DEF Serving, Claimed
    <2>. QED
        BY <2>1, OfClaimant DEF CataloguePart, Served
<1>. QED
    BY <1>1, StoreInvariant, PTL
-----------------------------------------------------------------------------
(* Steps of one process *)

\* A step of one process moves no other.
LEMMA OthersStay ==
    ASSUME ProcShape, NEW q \in Proc, NEW p \in Proc, p # q,
           Opening(q) \/ Creation(q) \/ Session(q) \/ Crash(q)
    PROVE  proc'[p] = proc[p]
<1>1. ASSUME NEW r, proc' = [proc EXCEPT ![q] = r] PROVE proc'[p] = proc[p]
    BY <1>1 DEF ProcShape
<1>2. \A r : Becomes(q, r) => proc'[p] = proc[p]
    BY <1>1 DEF Becomes
<1>3. \A error : Refuse(q, error) => proc'[p] = proc[p]
    BY <1>1 DEF Refuse
<1>4. \A pc : Goto(q, pc) => proc'[p] = proc[p]
    BY <1>2 DEF Goto
<1>5. \A error : CreationFails(q, error) => proc'[p] = proc[p]
    BY <1>2, <1>3 DEF CreationFails
<1>6. \A kinds : Catalogued(q, kinds) => proc'[p] = proc[p]
    BY <1>2 DEF Catalogued
<1>7. \A k : OpenClass(q, k) => proc'[p] = proc[p]
    BY <1>2, <1>3 DEF OpenClass
<1>8. CASE Opening(q)
    BY <1>2, <1>3, <1>4, <1>6, <1>7, <1>8 DEF Opening, Begin, OpenLockFile, TryLock,
        LockUnavailable, RemoveChild, Cleared, ReadConfig, DrawIdentity, EntropyFails, WriteConfig,
        PublishConfig, ConfigBarrier, ConfigFails, Recover, RecoveryRefuses, RecoveryFails,
        Unreadable, EnumerateReference, EnumerateFull, OpenReference, OpenFull, MapFails,
        FreshClass, OpenReturns
<1>9. CASE Creation(q)
    BY <1>2, <1>4, <1>5, <1>9 DEF Creation, CreateFile, SizeFile, PlaceStamp, ConstructMap,
        ConstructorFails, RollBack
<1>10. CASE Session(q)
    BY <1>2, <1>3, <1>10 DEF Session, Insert, Erase, Rotate, Close
<1>11. CASE Crash(q)
    BY <1>3, <1>11 DEF Crash
<1>. QED
    BY <1>8, <1>9, <1>10, <1>11

\* A process moves on before it has a catalogue; it has settled on the mode of the
\* configuration when it has settled at all.
Early(p, r) ==
    /\ IsProcess(r) /\ proc' = [proc EXCEPT ![p] = r]
    /\ proc[p].pc \notin Served /\ r.pc \notin Served
    /\ r.count \in {0, proc[p].count}
    /\ r.mapped = {} \/ (r.mapped = proc[p].mapped /\ r.cat = proc[p].cat)
    /\ r.pc \in Settled =>
          config.mode = r.mode \/ (proc[p].pc \in Settled /\ r.mode = proc[p].mode)

\* Before it has a catalogue a process ends or moves on, and touches no file.
LEMMA EarlySteps ==
    ASSUME StoreInv, NEW p \in Proc,
           \/ \E mode \in {"full", "reference"}, how \in {"open", "remove", "inspect"} :
                 Begin(p, mode, how)
           \/ OpenLockFile(p) \/ TryLock(p) \/ LockUnavailable(p)
           \/ ReadConfig(p) \/ DrawIdentity(p) \/ EntropyFails(p) \/ WriteConfig(p)
           \/ ConfigBarrier(p) \/ ConfigFails(p)
           \/ RecoveryRefuses(p) \/ RecoveryFails(p) \/ Unreadable(p)
    PROVE  /\ UNCHANGED <<config, segs, metas, merge, stored, wounded, unclean>>
           /\ proc' = [proc EXCEPT ![p] = Gone] \/ \E r : Early(p, r)
<1>. DEFINE Goal == proc' = [proc EXCEPT ![p] = Gone] \/ \E r : Early(p, r)
<1>1. IsProcess(proc[p])
    BY DEF StoreInv, ProcShape
<1>2. UNCHANGED <<config, segs, metas, merge, stored, wounded, unclean>>
    BY DEF Begin, OpenLockFile, TryLock, LockUnavailable, ReadConfig, DrawIdentity, EntropyFails,
           WriteConfig, ConfigBarrier, ConfigFails, RecoveryRefuses, RecoveryFails, Unreadable,
           disk, history
<1>3. ASSUME NEW r, IsProcess(r), proc' = [proc EXCEPT ![p] = r],
             proc[p].pc \notin Served, r.pc \notin Served,
             r.count = proc[p].count, r.mapped = proc[p].mapped, r.cat = proc[p].cat,
             r.mode = proc[p].mode,
             r.pc \in Settled => config.mode = proc[p].mode \/ proc[p].pc \in Settled
      PROVE  Goal
    <2>1. Early(p, r)
        BY <1>3 DEF Early
    <2>. QED
        BY <2>1
<1>4. ASSUME NEW mode, NEW how, Begin(p, mode, how) PROVE Goal
    <2>1. CASE proc' = [proc EXCEPT ![p] = Gone]
        BY <2>1
    <2>2. CASE Becomes(p, [Gone EXCEPT !.pc = "claim", !.mode = mode, !.how = how])
        <3>. DEFINE r == [Gone EXCEPT !.pc = "claim", !.mode = mode, !.how = how]
        <3>1. IsProcess(r) /\ r.pc = "claim" /\ r.count = 0 /\ r.mapped = {}
            BY DEF IsProcess, Field, Gone
        <3>2. proc' = [proc EXCEPT ![p] = r] /\ proc[p].pc = "idle"
            BY <1>4, <2>2 DEF Becomes, Begin
        <3>. HIDE DEF r
        <3>3. Early(p, r)
            BY <3>1, <3>2 DEF Early, Served, Settled
        <3>. QED
            BY <3>3
    <2>. QED
        BY <1>4, <2>1, <2>2 DEF Begin, Refuse
<1>5. ASSUME OpenLockFile(p) PROVE Goal
    <2>. DEFINE r == [proc[p] EXCEPT !.pc = "flock", !.fd = lockName']
    <2>1. /\ IsProcess(r) /\ r.pc = "flock" /\ r.count = proc[p].count
          /\ r.mapped = proc[p].mapped /\ r.cat = proc[p].cat /\ r.mode = proc[p].mode
        BY <1>1 DEF IsProcess, Field
    <2>2. proc[p].pc = "claim" /\ proc' = [proc EXCEPT ![p] = r]
        BY <1>5 DEF OpenLockFile, Becomes
    <2>. HIDE DEF r, Goal
    <2>. QED
        BY <1>3, <2>1, <2>2 DEF Served, Settled
<1>6. ASSUME TryLock(p) PROVE Goal
    <2>1. CASE proc' = [proc EXCEPT ![p] = Gone]
        BY <2>1
    <2>2. CASE Goto(p, IF proc[p].how = "remove" THEN "clear" ELSE "config")
        <3>1. PICK pc : pc = IF proc[p].how = "remove" THEN "clear" ELSE "config"
            OBVIOUS
        <3>. DEFINE r == [proc[p] EXCEPT !.pc = pc]
        <3>2. /\ IsProcess(r) /\ r.pc = pc /\ r.count = proc[p].count
              /\ r.mapped = proc[p].mapped /\ r.cat = proc[p].cat /\ r.mode = proc[p].mode
            BY <1>1 DEF IsProcess, Field
        <3>3. proc[p].pc = "flock" /\ proc' = [proc EXCEPT ![p] = r]
            BY <1>6, <2>2, <3>1 DEF TryLock, Goto, Becomes
        <3>. HIDE DEF r, Goal
        <3>. QED
            BY <1>3, <3>1, <3>2, <3>3 DEF Served, Settled
    <2>. QED
        BY <1>6, <2>1, <2>2 DEF TryLock, Refuse
<1>7. ASSUME ReadConfig(p) PROVE Goal
    <2>1. CASE proc' = [proc EXCEPT ![p] = Gone]
        BY <2>1
    <2>2. CASE /\ ConfigRefusal(p) = "ok"
               /\ Becomes(p, [proc[p] EXCEPT !.pc = "catalogue", !.id = config.id])
        <3>. DEFINE r == [proc[p] EXCEPT !.pc = "catalogue", !.id = config.id]
        <3>1. /\ IsProcess(r) /\ r.pc = "catalogue" /\ r.count = proc[p].count
              /\ r.mapped = proc[p].mapped /\ r.cat = proc[p].cat /\ r.mode = proc[p].mode
            BY <1>1 DEF IsProcess, Field
        <3>2. proc[p].pc = "config" /\ proc' = [proc EXCEPT ![p] = r]
            BY <1>7, <2>2 DEF ReadConfig, Becomes
        <3>3. config.mode = proc[p].mode
            BY <2>2 DEF ConfigRefusal
        <3>. HIDE DEF r, Goal
        <3>. QED
            BY <1>3, <3>1, <3>2, <3>3 DEF Served, Settled
    <2>. QED
        BY <1>7, <2>1, <2>2 DEF ReadConfig, Refuse
<1>8. ASSUME DrawIdentity(p) PROVE Goal
    <2>1. CASE proc' = [proc EXCEPT ![p] = Gone]
        BY <2>1
    <2>2. CASE Becomes(p, [proc[p] EXCEPT !.pc = "write", !.id = minted + 1])
        <3>. DEFINE r == [proc[p] EXCEPT !.pc = "write", !.id = minted + 1]
        <3>1. /\ IsProcess(r) /\ r.pc = "write" /\ r.count = proc[p].count
              /\ r.mapped = proc[p].mapped /\ r.cat = proc[p].cat /\ r.mode = proc[p].mode
            BY <1>1 DEF IsProcess, Field
        <3>2. proc[p].pc = "config" /\ proc' = [proc EXCEPT ![p] = r]
            BY <1>8, <2>2 DEF DrawIdentity, Becomes
        <3>. HIDE DEF r, Goal
        <3>. QED
            BY <1>3, <3>1, <3>2 DEF Served, Settled
    <2>. QED
        BY <1>8, <2>1, <2>2 DEF DrawIdentity, Refuse
<1>9. ASSUME WriteConfig(p) PROVE Goal
    <2>. DEFINE r == [proc[p] EXCEPT !.pc = "publish"]
    <2>1. /\ IsProcess(r) /\ r.pc = "publish" /\ r.count = proc[p].count
          /\ r.mapped = proc[p].mapped /\ r.cat = proc[p].cat /\ r.mode = proc[p].mode
        BY <1>1 DEF IsProcess, Field
    <2>2. proc[p].pc = "write" /\ proc' = [proc EXCEPT ![p] = r]
        BY <1>9 DEF WriteConfig, Goto, Becomes
    <2>. HIDE DEF r, Goal
    <2>. QED
        BY <1>3, <2>1, <2>2 DEF Served, Settled
<1>10. ASSUME ConfigBarrier(p) PROVE Goal
    <2>. DEFINE r == [proc[p] EXCEPT !.pc = "catalogue"]
    <2>1. /\ IsProcess(r) /\ r.pc = "catalogue" /\ r.count = proc[p].count
          /\ r.mapped = proc[p].mapped /\ r.cat = proc[p].cat /\ r.mode = proc[p].mode
        BY <1>1 DEF IsProcess, Field
    <2>2. proc[p].pc = "barrier" /\ proc' = [proc EXCEPT ![p] = r]
        BY <1>10 DEF ConfigBarrier, Goto, Becomes
    <2>. HIDE DEF r, Goal
    <2>. QED
        BY <1>3, <2>1, <2>2 DEF Served, Settled
<1>11. ASSUME \/ LockUnavailable(p) \/ EntropyFails(p) \/ ConfigFails(p)
              \/ RecoveryRefuses(p) \/ RecoveryFails(p) \/ Unreadable(p)
       PROVE  Goal
    BY <1>11 DEF LockUnavailable, EntropyFails, ConfigFails, RecoveryRefuses, RecoveryFails,
                 Unreadable, Refuse
<1>12. Goal
    <2>. HIDE DEF Goal
    <2>. QED
        BY <1>4, <1>5, <1>6, <1>7, <1>8, <1>9, <1>10, <1>11
<1>. QED
    BY <1>2, <1>12

\* A process with a catalogue keeps its mode, and touches files of its classes only.
LEMMA ServedSteps ==
    ASSUME StoreInv, NEW p \in Proc,
           \/ OpenReference(p) \/ OpenFull(p) \/ MapFails(p) \/ FreshClass(p) \/ OpenReturns(p)
           \/ Creation(p) \/ Session(p)
    PROVE  /\ UNCHANGED <<config, merge, wounded>> /\ (unclean => unclean')
           /\ proc[p].pc \in Served
           /\ proc'[p] = Gone \/ proc'[p].mode = proc[p].mode
           /\ \A n \in DOMAIN segs' : n[1] \notin Kinds(proc[p].mode) =>
                 n \in DOMAIN segs /\ segs'[n] = segs[n]
<1>. DEFINE Moves == proc'[p] = Gone \/ proc'[p].mode = proc[p].mode
            Keeps == \A n \in DOMAIN segs' : n[1] \notin Kinds(proc[p].mode) =>
                        n \in DOMAIN segs /\ segs'[n] = segs[n]
<1>1. proc = [q \in Proc |-> proc[q]] /\ IsProcess(proc[p])
    BY DEF StoreInv, ProcShape
<1>2. segs = [n \in DOMAIN segs |-> segs[n]]
    BY DEF StoreInv, DiskShape
<1>3. \A error : Refuse(p, error) => Moves
    BY <1>1 DEF Refuse
<1>4. \A pc : Goto(p, pc) => Moves
    BY <1>1 DEF Goto, Becomes, IsProcess, Field
<1>5. \A error : CreationFails(p, error) => Moves
    BY <1>1, <1>3 DEF CreationFails, Becomes, IsProcess, Field
<1>6. \A k : OpenClass(p, k) => Moves
    <2>. SUFFICES ASSUME NEW k, OpenClass(p, k) PROVE Moves
        OBVIOUS
    <2>1. PICK n : n = SumFunction([m \in Counted({m \in proc[p].cat : m[1] = k}) |->
                                        Cardinality(KeysOn(m))])
        OBVIOUS
    <2>2. PICK h : h = LoadMetadata(proc[p].held, {m \in proc[p].cat : m[1] = k})
        OBVIOUS
    <2>3. \/ \E error : Refuse(p, error)
          \/ Becomes(p, [proc[p] EXCEPT !.todo = @ \ {k}, !.mapped = @ \cup {k},
                                        !.count = @ + n, !.held = h])
        BY <2>1, <2>2 DEF OpenClass
    <2>. QED
        BY <1>1, <1>3, <2>3 DEF Becomes, IsProcess, Field
<1>7. CASE OpenReference(p) \/ OpenFull(p) \/ MapFails(p) \/ FreshClass(p) \/ OpenReturns(p)
    <2>1. /\ UNCHANGED <<config, merge, wounded, segs, unclean>> /\ proc[p].pc \in Served
        BY <1>7 DEF OpenReference, OpenFull, OpenClass, MapFails, FreshClass, OpenReturns, disk,
                    history, Served
    <2>2. CASE FreshClass(p)
        <3>1. PICK t : t = Turn(p)
            OBVIOUS
        <3>2. \/ proc'[p] = [proc[p] EXCEPT !.todo = @ \ {t}]
              \/ proc'[p] = [proc[p] EXCEPT !.pc = "create", !.at = <<t, 0>>]
            BY <1>1, <2>2, <3>1 DEF FreshClass, Becomes
        <3>3. Moves
            BY <1>1, <3>2 DEF IsProcess, Field
        <3>. QED
            BY <2>1, <3>3
    <2>3. Moves
        BY <1>3, <1>4, <1>6, <1>7, <2>2 DEF OpenReference, OpenFull, MapFails, OpenReturns
    <2>. QED
        BY <2>1, <2>3
<1>8. CASE Creation(p)
    <2>1. /\ UNCHANGED <<config, merge, wounded, unclean>>
          /\ proc[p].pc \in {"create", "size", "stamp", "map"}
        BY <1>8 DEF Creation, CreateFile, SizeFile, PlaceStamp, ConstructMap, ConstructorFails,
                    RollBack, disk, history
    <2>2. ASSUME ConstructMap(p) PROVE Moves
        <3>1. PICK n, h, pc :
                  proc'[p] = [proc[p] EXCEPT !.pc = pc, !.at = <<>>, !.rotating = FALSE,
                                             !.cat = @ \cup {n}, !.mapped = @ \cup {n[1]},
                                             !.todo = @ \ {n[1]}, !.held[n] = h]
            BY <1>1, <2>2 DEF ConstructMap, Becomes
        <3>. DEFINE r == [proc[p] EXCEPT !.pc = pc, !.at = <<>>, !.rotating = FALSE,
                                         !.cat = @ \cup {n}, !.mapped = @ \cup {n[1]},
                                         !.todo = @ \ {n[1]}, !.held[n] = h]
        <3>2. r.mode = proc[p].mode
            BY <1>1 DEF IsProcess, Field
        <3>. QED
            BY <3>1, <3>2
    <2>3. Moves
        BY <1>4, <1>5, <1>8, <2>2 DEF Creation, CreateFile, SizeFile, PlaceStamp,
                                      ConstructorFails, RollBack
    <2>4. proc[p].at[1] \in Kinds(proc[p].mode)
        <3>1. CreationPart(p)
            BY <2>1, OfClaimant DEF Claimed
        <3>. QED
            BY <2>1, <3>1 DEF CreationPart
    <2>5. \A n \in DOMAIN segs' : n # proc[p].at => n \in DOMAIN segs /\ segs'[n] = segs[n]
        BY <1>2, <1>8 DEF Creation, CreateFile, SizeFile, PlaceStamp, ConstructMap,
                          ConstructorFails, RollBack, disk, Restrict
    <2>. QED
        BY <2>1, <2>3, <2>4, <2>5 DEF Served
<1>9. CASE Session(p)
    <2>1. /\ UNCHANGED <<config, merge, wounded>> /\ (unclean => unclean')
          /\ proc[p].pc \in {"open", "latched"}
        BY <1>9 DEF Session, Insert, Erase, Rotate, Close, Serving
    <2>2. CataloguePart(p)
        BY <2>1, OfClaimant DEF Claimed
    <2>3. ASSUME NEW k, NEW key, Insert(p, k, key) PROVE Moves /\ Keeps
        <3>1. k \in Kinds(proc[p].mode)
            BY <2>1, <2>2, <2>3 DEF Insert, CataloguePart, Served
        <3>2. PICK n, h : /\ n[1] = k
                          /\ proc'[p] = [proc[p] EXCEPT !.held[n] = h, !.count = @ + 1]
                          /\ segs' = [segs EXCEPT ![n].keys = @ \cup {key}]
            BY <1>1, <2>3 DEF Insert, Becomes
        <3>. QED
            BY <1>1, <1>2, <3>1, <3>2 DEF IsProcess, Field
    <2>4. ASSUME NEW n, NEW key, Erase(p, n, key) PROVE Moves /\ Keeps
        <3>1. n[1] \in Kinds(proc[p].mode)
            BY <2>1, <2>2, <2>4 DEF Erase, CataloguePart, Served
        <3>2. PICK h : /\ proc'[p] = [proc[p] EXCEPT !.held[n] = h, !.count = @ - 1]
                       /\ segs' = [segs EXCEPT ![n].keys = @ \ {key}]
            BY <1>1, <2>4 DEF Erase, Becomes
        <3>. QED
            BY <1>1, <1>2, <3>1, <3>2 DEF IsProcess, Field
    <2>5. ASSUME NEW k, Rotate(p, k) PROVE Moves /\ Keeps
        <3>1. PICK next : proc'[p] = [proc[p] EXCEPT !.pc = "create", !.at = next,
                                                     !.rotating = TRUE, !.mapped = @ \ {k}]
            BY <1>1, <2>5 DEF Rotate, Becomes
        <3>. QED
            BY <1>1, <2>5, <3>1 DEF Rotate, IsProcess, Field
    <2>6. ASSUME Close(p) PROVE Moves /\ Keeps
        <3>1. Refuse(p, "closed") /\ UNCHANGED segs
            BY <2>6 DEF Close
        <3>. QED
            BY <1>3, <3>1
    <2>. QED
        BY <1>9, <2>1, <2>3, <2>4, <2>5, <2>6 DEF Session, Served
<1>. QED
    BY <1>7, <1>8, <1>9
-----------------------------------------------------------------------------
(* A merge on record *)

MergeFiles == [record : BOOLEAN, build : BOOLEAN, target : Name, sources : SUBSET Name]

\* A merge on record is one of the store's classes and not of those a process serves,
\* and once its target has its name, the target holds what its sources hold.
MergeInv ==
    /\ merge \in MergeFiles
    /\ \A n \in merge.sources : n[1] = merge.target[1] /\ n # merge.target
    /\ merge.record =>
          /\ unclean
          /\ ~wounded => config.format = 2 /\ merge.target[1] \in Kinds(config.mode)
          /\ \A p \in Proc : proc[p].pc \in Served => merge.target[1] \notin Kinds(proc[p].mode)
          /\ Published /\ MarkerMatches =>
                \A n \in merge.sources \cap DOMAIN segs : KeysOn(n) \subseteq KeysOn(merge.target)

\* A merge that is no longer on record.
LEMMA MergeSettled ==
    ASSUME MergeInv, merge' = [merge EXCEPT !.record = FALSE]
    PROVE  MergeInv'
<1>1. merge' \in MergeFiles /\ ~merge'.record /\ merge'.target = merge.target
      /\ merge'.sources = merge.sources
    BY DEF MergeInv, MergeFiles
<1>. QED
    BY <1>1 DEF MergeInv

\* A step that leaves the record: no file of the merge's class changes, though one may go
\* or be brought in by hand.
LEMMA MergeRests ==
    ASSUME MergeInv, merge' = merge \/ merge' = [merge EXCEPT !.build = FALSE],
           merge.record =>
              /\ unclean'
              /\ ~wounded' => ~wounded /\ config' = config
              /\ \A p \in Proc : proc'[p].pc \in Served =>
                    \/ proc[p].pc \in Served /\ proc'[p].mode = proc[p].mode
                    \/ merge.target[1] \notin Kinds(proc'[p].mode)
              /\ \A n \in DOMAIN segs' : n[1] = merge.target[1] =>
                    \/ n \in DOMAIN segs /\ segs'[n] = segs[n]
                    \/ segs'[n].by = NoBuild /\ segs'[n].keys = {}
    PROVE  MergeInv'
<1>1. /\ merge' \in MergeFiles /\ merge'.record = merge.record
      /\ merge'.target = merge.target /\ merge'.sources = merge.sources
    BY DEF MergeInv, MergeFiles
<1>2. ASSUME merge.record, Published', MarkerMatches', NEW n \in merge.sources \cap DOMAIN segs'
      PROVE  KeysOn(n)' \subseteq KeysOn(merge.target)'
    <2>1. /\ merge.target \in DOMAIN segs /\ segs'[merge.target] = segs[merge.target]
          /\ segs[merge.target].by # NoBuild
        BY <1>1, <1>2 DEF Published, MarkerMatches
    <2>2. \/ n \in DOMAIN segs /\ segs'[n] = segs[n]
          \/ segs'[n].keys = {}
        BY <1>2 DEF MergeInv
    <2>3. CASE n \in DOMAIN segs /\ segs'[n] = segs[n]
        <3>1. KeysOn(n) \subseteq KeysOn(merge.target)
            BY <1>2, <2>1, <2>3 DEF MergeInv, Published, MarkerMatches
        <3>. QED
            BY <1>1, <2>1, <2>3, <3>1 DEF KeysOn
    <2>. QED
        BY <2>2, <2>3 DEF KeysOn
<1>3. ASSUME merge.record
      PROVE  /\ unclean'
             /\ ~wounded' => config'.format = 2 /\ merge.target[1] \in Kinds(config'.mode)
             /\ \A p \in Proc : proc'[p].pc \in Served =>
                   merge.target[1] \notin Kinds(proc'[p].mode)
    BY <1>3 DEF MergeInv
<1>. QED
    BY <1>1, <1>2, <1>3 DEF MergeInv

\* A step of one process that leaves the record.
LEMMA MergeMoves ==
    ASSUME StoreInv, MergeInv, NEW p \in Proc,
           Opening(p) \/ Creation(p) \/ Session(p) \/ Crash(p),
           merge' = merge \/ merge' = [merge EXCEPT !.build = FALSE],
           merge.record =>
              /\ unclean'
              /\ ~wounded' => ~wounded /\ config' = config
              /\ proc'[p].pc \in Served =>
                    \/ proc[p].pc \in Served /\ proc'[p].mode = proc[p].mode
                    \/ merge.target[1] \notin Kinds(proc'[p].mode)
              /\ \A n \in DOMAIN segs' : n[1] = merge.target[1] =>
                    n \in DOMAIN segs /\ segs'[n] = segs[n]
    PROVE  MergeInv'
<1>1. \A q \in Proc : q # p => proc'[q] = proc[q]
    BY OthersStay DEF StoreInv
<1>. QED
    BY <1>1, MergeRests

\* The next source to retire is one of those that are left.
LEMMA NextSourceLeft ==
    ASSUME MergeInv, Unretired # {}
    PROVE  NextSource \in Unretired
<1>. DEFINE V == {n[2] : n \in Unretired}
<1>1. MaxVersion \in Nat /\ Unretired \subseteq Name
    BY OpeningAssumption DEF MergeInv, MergeFiles, Unretired
<1>2. V \in SUBSET Nat /\ V # {}
    BY <1>1 DEF Name, Version
<1>3. Min(V) \in V /\ \A v \in V : Min(V) <= v
    BY <1>2, MinOf
<1>4. PICK n \in Unretired : n[2] = Min(V)
    BY <1>3
<1>5. \A m \in Unretired : n[2] <= m[2]
    BY <1>3, <1>4
<1>. QED
    BY <1>5 DEF NextSource

\* Recovery keeps the record until its sources are gone.
LEMMA RecoverMerge ==
    ASSUME StoreInv, MergeInv, NEW p \in Proc, Recover(p)
    PROVE  MergeInv'
<1>1. UNCHANGED <<config, proc, unclean, wounded>>
    BY DEF Recover, history
<1>2. Opening(p)
    BY DEF Opening
<1>3. CASE merge' = [merge EXCEPT !.record = FALSE]
    BY <1>3, MergeSettled
<1>4. CASE UNCHANGED segs /\ merge' = [merge EXCEPT !.build = FALSE]
    BY <1>1, <1>2, <1>4, MergeMoves DEF MergeInv
<1>5. ASSUME NEW n, UNCHANGED merge, UNCHANGED segs \/ segs' = Restrict(segs, DOMAIN segs \ {n})
      PROVE  MergeInv'
    <2>1. \A m \in DOMAIN segs' : m \in DOMAIN segs /\ segs'[m] = segs[m]
        BY <1>5 DEF Restrict
    <2>. QED
        BY <1>1, <1>2, <1>5, <2>1, MergeMoves DEF MergeInv
<1>. QED
    BY <1>3, <1>4, <1>5 DEF Recover, AbandonMerge, RetireSource, FinishMerge, DiscardBuild

\* A removal may take the record, and then the store is one that is being removed.
LEMMA RemoveMerge ==
    ASSUME StoreInv, MergeInv, NEW p \in Proc, RemoveChild(p) \/ Cleared(p)
    PROVE  MergeInv'
<1>1. CASE Cleared(p)
    <2>1. ~merge.record /\ merge' = merge
        BY <1>1 DEF Cleared, Bare, disk
    <2>. QED
        BY <2>1, MergeRests
<1>2. CASE RemoveChild(p)
    <2>1. UNCHANGED <<proc, unclean>>
        BY <1>2 DEF RemoveChild
    <2>2. ~wounded' => ~wounded /\ config' = config
        BY <1>2 DEF RemoveChild, StoreInv, DiskShape
    <2>3. \A m \in DOMAIN segs' : m \in DOMAIN segs /\ segs'[m] = segs[m]
        BY <1>2 DEF RemoveChild, Restrict
    <2>4. \/ merge' = [merge EXCEPT !.record = FALSE]
          \/ merge' = merge \/ merge' = [merge EXCEPT !.build = FALSE]
        BY <1>2 DEF RemoveChild
    <2>5. CASE merge' = [merge EXCEPT !.record = FALSE]
        BY <2>5, MergeSettled
    <2>6. CASE merge' = merge \/ merge' = [merge EXCEPT !.build = FALSE]
        BY <2>1, <2>2, <2>3, <2>6, MergeRests DEF MergeInv
    <2>. QED
        BY <2>4, <2>5, <2>6
<1>. QED
    BY <1>1, <1>2

\* A configuration is published where there was none, and a catalogue made where no
\* merge is pending.
LEMMA SettleMerge ==
    ASSUME StoreInv, MergeInv, NEW p \in Proc,
           PublishConfig(p) \/ EnumerateReference(p) \/ EnumerateFull(p)
    PROVE  MergeInv'
<1>1. UNCHANGED <<segs, merge, unclean, wounded>> /\ Opening(p)
    BY DEF PublishConfig, EnumerateReference, EnumerateFull, disk, history, Opening
<1>2. proc = [q \in Proc |-> proc[q]] /\ IsProcess(proc[p])
    BY DEF StoreInv, ProcShape
<1>3. CASE PublishConfig(p)
    <2>1. config.format = 0
        <3>1. ConfigPart(p) /\ proc[p].pc = "publish"
            BY <1>3, OfClaimant DEF PublishConfig, Claimed
        <3>. QED
            BY <3>1 DEF ConfigPart, NoConfig
    <2>2. merge.record => wounded
        BY <2>1 DEF MergeInv
    <2>3. proc'[p].pc = "barrier"
        BY <1>2, <1>3 DEF PublishConfig, Goto, Becomes, IsProcess, Field
    <2>. QED
        BY <1>1, <2>2, <2>3, MergeMoves DEF MergeInv, Served
<1>4. CASE EnumerateReference(p) \/ EnumerateFull(p)
    <2>1. config' = config /\ ~Pending(p)
        BY <1>4 DEF EnumerateReference, EnumerateFull, disk
    <2>2. proc'[p] = Gone \/ proc'[p].mode = proc[p].mode
        <3>1. \A kinds : Catalogued(p, kinds) => proc'[p].mode = proc[p].mode
            BY <1>2 DEF Catalogued, Becomes, IsProcess, Field
        <3>2. \A error : Refuse(p, error) => proc'[p] = Gone
            BY <1>2 DEF Refuse
        <3>. QED
            BY <1>4, <3>1, <3>2 DEF EnumerateReference, EnumerateFull
    <2>3. merge.record /\ proc'[p].pc \in Served => merge.target[1] \notin Kinds(proc'[p].mode)
        BY <2>1, <2>2, GoneIsProcess DEF Pending, Served
    <2>. QED
        BY <1>1, <2>1, <2>3, MergeMoves DEF MergeInv
<1>. QED
    BY <1>3, <1>4

\* Every step of a process.
LEMMA ProcessMerge ==
    ASSUME StoreInv, MergeInv, NEW p \in Proc,
           Opening(p) \/ Creation(p) \/ Session(p) \/ Crash(p)
    PROVE  MergeInv'
<1>1. proc = [q \in Proc |-> proc[q]]
    BY DEF StoreInv, ProcShape
<1>2. Gone.pc \notin Served
    BY DEF Gone, Served
<1>3. CASE Crash(p)
    <2>1. /\ UNCHANGED <<segs, config, merge, wounded>> /\ (unclean => unclean')
          /\ proc'[p] = Gone
        BY <1>1, <1>3 DEF Crash, disk, Refuse
    <2>. QED
        BY <1>2, <1>3, <2>1, MergeMoves DEF MergeInv
<1>4. CASE \/ \E mode \in {"full", "reference"}, how \in {"open", "remove", "inspect"} :
                 Begin(p, mode, how)
           \/ OpenLockFile(p) \/ TryLock(p) \/ LockUnavailable(p)
           \/ ReadConfig(p) \/ DrawIdentity(p) \/ EntropyFails(p) \/ WriteConfig(p)
           \/ ConfigBarrier(p) \/ ConfigFails(p)
           \/ RecoveryRefuses(p) \/ RecoveryFails(p) \/ Unreadable(p)
    <2>1. /\ UNCHANGED <<config, segs, merge, wounded, unclean>>
          /\ proc' = [proc EXCEPT ![p] = Gone] \/ \E r : Early(p, r)
        BY <1>4, EarlySteps
    <2>2. proc'[p].pc \notin Served
        BY <1>1, <1>2, <2>1 DEF Early
    <2>3. Opening(p)
        BY <1>4 DEF Opening
    <2>. QED
        BY <2>1, <2>2, <2>3, MergeMoves DEF MergeInv
<1>5. CASE \/ OpenReference(p) \/ OpenFull(p) \/ MapFails(p) \/ FreshClass(p) \/ OpenReturns(p)
           \/ Creation(p) \/ Session(p)
    <2>1. /\ UNCHANGED <<config, merge, wounded>> /\ (unclean => unclean')
          /\ proc[p].pc \in Served
          /\ proc'[p] = Gone \/ proc'[p].mode = proc[p].mode
          /\ \A n \in DOMAIN segs' : n[1] \notin Kinds(proc[p].mode) =>
                n \in DOMAIN segs /\ segs'[n] = segs[n]
        BY <1>5, ServedSteps
    <2>2. merge.record => merge.target[1] \notin Kinds(proc[p].mode)
        BY <2>1 DEF MergeInv
    <2>3. Opening(p) \/ Creation(p) \/ Session(p) \/ Crash(p)
        BY <1>5 DEF Opening
    <2>. QED
        BY <1>2, <2>1, <2>2, <2>3, MergeMoves DEF MergeInv
<1>. QED
    BY <1>3, <1>4, <1>5, RecoverMerge, RemoveMerge, SettleMerge DEF Opening

\* A store that starts with a merge cut short.
LEMMA MergeStarts ==
    ASSUME Init
    PROVE  MergeInv
<1>1. MaxVersion \in Nat /\ RefKind \in Kind /\ Kind = Class \cup {RefKind}
    BY OpeningAssumption DEF Kind
<1>2. \A p \in Proc : proc[p].pc \notin Served
    BY GoneIsProcess DEF Init, Served
<1>3. CASE merge = NoMerge
    <2>1. merge \in MergeFiles /\ ~merge.record /\ merge.sources = {}
        BY <1>1, <1>3 DEF NoMerge, MergeFiles, Name, Kind, Version
    <2>. QED
        BY <2>1 DEF MergeInv
<1>4. ASSUME NEW mode, NEW published, MergingStore(AnyProc, mode, Min(Key), published)
      PROVE  MergeInv
    <2>1. PICK k : k = Min(Kinds(mode))
        OBVIOUS
    <2>2. k \in Kinds(mode) /\ k \in Kind
        BY <2>1, KindsOfMode, MinOf
    <2>3. MaxVersion >= 2 /\ unclean = TRUE
        BY <1>4 DEF MergingStore
    <2>4. /\ merge.record = TRUE /\ merge.build = TRUE /\ merge.target = <<k, 2>>
          /\ merge.sources = {k} \X {0, 1}
          /\ merge = [record |-> TRUE, build |-> TRUE, target |-> <<k, 2>>,
                      sources |-> {k} \X {0, 1}]
        BY <1>4, <2>1 DEF MergingStore
    <2>5. merge \in MergeFiles
        <3>1. {0, 1} \subseteq Version /\ 2 \in Version
            BY <1>1, <2>3 DEF Version
        <3>. QED
            BY <1>1, <2>2, <2>4, <3>1 DEF MergeFiles, Name
    <2>6. \A n \in merge.sources : n[1] = merge.target[1] /\ n # merge.target
        BY <2>4
    <2>7. config.format = 2 /\ config.mode = mode
        BY <1>4 DEF MergingStore, LocalConfig
    <2>8. ASSUME Published, MarkerMatches, NEW n \in merge.sources \cap DOMAIN segs
          PROVE  KeysOn(n) \subseteq KeysOn(merge.target)
        <3>. DEFINE held(v) == IF v = 0 THEN {Min(Key)}
                               ELSE IF v = 1 THEN Key \ {Min(Key)} ELSE Key
                    files == ({k} \X (0 .. IF published THEN 2 ELSE 1))
                                \cup ((Kinds(mode) \ {k}) \X {0})
        <3>1. segs = [m \in files |->
                         OwnFile(AnyProc, m, IF m[1] = k THEN held(m[2]) ELSE {})]
            BY <1>4, <2>1 DEF MergingStore
        <3>2. Min(Key) \in Key
            BY OpeningAssumption, MinOf
        <3>. HIDE DEF files
        <3>3. \A m \in files : KeysOn(m) = IF m[1] = k THEN held(m[2]) ELSE {}
            BY <3>1 DEF OwnFile, KeysOn
        <3>4. n \in files /\ merge.target \in files
            BY <2>8, <3>1 DEF Published
        <3>5. KeysOn(merge.target) = Key
            BY <2>4, <3>3, <3>4
        <3>6. KeysOn(n) \subseteq Key
            BY <3>2, <3>3, <3>4
        <3>. QED
            BY <3>5, <3>6
    <2>. QED
        BY <1>2, <2>2, <2>3, <2>4, <2>5, <2>6, <2>7, <2>8 DEF MergeInv
<1>. QED
    BY <1>3, <1>4 DEF Init, ClosedStore

\* The invariant of a merge on record.
THEOREM MergeInvariant == Spec => []MergeInv
<1>1. Init => MergeInv
    BY MergeStarts
<1>2. StoreInv /\ MergeInv /\ [Next]_vars => MergeInv'
    <2>. SUFFICES ASSUME StoreInv, MergeInv, [Next]_vars PROVE MergeInv'
        OBVIOUS
    <2>1. ASSUME NEW n, NEW s, Stray(n, s) PROVE MergeInv'
        <3>1. UNCHANGED <<config, merge, proc, unclean, wounded>>
            BY <2>1 DEF Stray
        <3>2. \A m \in DOMAIN segs' : \/ m \in DOMAIN segs /\ segs'[m] = segs[m]
                                      \/ segs'[m].by = NoBuild /\ segs'[m].keys = {}
            BY <2>1 DEF Stray
        <3>. QED
            BY <3>1, <3>2, MergeRests DEF MergeInv
    <2>2. CASE UNCHANGED vars
        <3>1. UNCHANGED <<segs, config, merge, proc, unclean, wounded>>
            BY <2>2 DEF vars
        <3>. QED
            BY <3>1, MergeRests DEF MergeInv
    <2>. QED
        BY <2>1, <2>2, ProcessMerge DEF Next
<1>. QED
    BY <1>1, <1>2, StoreInvariant, PTL DEF Spec
-----------------------------------------------------------------------------
(* An inspection settles and does nothing else *)

\* close() writes the records of the active versions that are known; an inspection
\* knows those that are on disk.
LEMMA InspectionCloses ==
    ASSUME StoreInv, NEW p \in Proc, Inspecting(p), Close(p)
    PROVE  DOMAIN metas' = DOMAIN metas
<1>1. Claimed(p) /\ proc[p].pc \in {"open", "latched"}
    BY DEF Close, Claimed
<1>2. CataloguePart(p) /\ InspectionPart(p)
    BY <1>1, OfClaimant
<1>3. \A n \in Name : proc[p].held[n] = Unknown \/ n \in DOMAIN metas
    BY <1>1, <1>2 DEF InspectionPart
<1>4. ActiveVersions(p) \subseteq Name
    <2>1. proc[p].cat \subseteq Name /\ proc[p].mapped \subseteq Kind
        BY <1>1, <1>2, KindsOfMode DEF CataloguePart, Served, StoreInv, DiskShape
    <2>2. \A k \in proc[p].mapped : ActiveOf(proc[p].cat, k) \in Version
        BY <2>1, ActiveNewest
    <2>. QED
        BY <2>1, <2>2 DEF ActiveVersions, Name, Kind
<1>5. PICK S \in SUBSET ActiveVersions(p) : SaveMetadata(proc[p].held, S)
    BY DEF Close
<1>. DEFINE K == {n \in S : proc[p].held[n].known}
<1>6. \A n \in K : n \in DOMAIN metas
    <2>. SUFFICES ASSUME NEW n \in S, proc[p].held[n].known PROVE n \in DOMAIN metas
        OBVIOUS
    <2>1. proc[p].held[n] = Unknown \/ n \in DOMAIN metas
        BY <1>3, <1>4, <1>5
    <2>2. Unknown.known = FALSE
        BY DEF Unknown
    <2>. QED
        BY <2>1, <2>2
<1>7. metas' = [n \in DOMAIN metas \cup K |-> IF n \in K THEN proc[p].held[n] ELSE metas[n]]
    BY <1>5 DEF SaveMetadata, WriteMetadata
<1>8. DOMAIN metas' = DOMAIN metas \cup K
    BY <1>7
<1>. QED
    BY <1>6, <1>8

\* What an inspection may have done to the directory.
Settles ==
    /\ UNCHANGED <<config, tmp>>
    /\ DOMAIN segs' \subseteq DOMAIN segs /\ DOMAIN metas' \subseteq DOMAIN metas
    /\ \A n \in DOMAIN segs' : segs'[n] = segs[n]
    /\ \A n \in (DOMAIN segs \ DOMAIN segs') \cup (DOMAIN metas \ DOMAIN metas') :
          Superseded(n) /\ merge.target \in DOMAIN segs'
    /\ merge'.record => merge.record
    /\ merge'.build => merge.build

\* A step that leaves the names as they are.
LEMMA NothingSettled ==
    ASSUME UNCHANGED <<config, tmp, segs, merge>>, DOMAIN metas' = DOMAIN metas
    PROVE  Settles
    BY DEF Settles

\* A source goes when the target that supersedes it is there, and the target is no
\* source.
LEMMA RecoverySettles ==
    ASSUME MergeInv, NEW p \in Proc, Recover(p)
    PROVE  Settles
<1>1. UNCHANGED <<config, tmp>>
    BY DEF Recover
<1>2. CASE RetireSource(p)
    <2>1. merge' = merge /\ merge.record /\ Published /\ MarkerMatches /\ Unretired # {}
        BY <1>2 DEF RetireSource
    <2>2. NextSource \in Unretired
        BY <2>1, NextSourceLeft
    <2>3. PICK n : n = NextSource
        OBVIOUS
    <2>4. n \in merge.sources /\ n # merge.target /\ Superseded(n)
        BY <2>1, <2>2, <2>3 DEF MergeInv, Superseded, Unretired
    <2>5. \/ segs' = Restrict(segs, DOMAIN segs \ {n}) /\ metas' = metas
          \/ metas' = Restrict(metas, DOMAIN metas \ {n}) /\ segs' = segs
        BY <1>2, <2>3 DEF RetireSource
    <2>6. /\ DOMAIN segs' \subseteq DOMAIN segs /\ DOMAIN metas' \subseteq DOMAIN metas
          /\ \A m \in DOMAIN segs' : segs'[m] = segs[m]
          /\ \A m \in (DOMAIN segs \ DOMAIN segs') \cup (DOMAIN metas \ DOMAIN metas') : m = n
          /\ \A m \in DOMAIN segs : m # n => m \in DOMAIN segs'
        BY <2>5 DEF Restrict
    <2>7. merge.target \in DOMAIN segs'
        BY <2>1, <2>4, <2>6 DEF Published
    <2>. QED
        BY <1>1, <2>1, <2>4, <2>6, <2>7 DEF Settles
<1>3. ASSUME UNCHANGED <<segs, metas>>,
             \/ merge' = [merge EXCEPT !.record = FALSE]
             \/ merge' = [merge EXCEPT !.build = FALSE]
      PROVE  Settles
    <2>1. (merge'.record => merge.record) /\ (merge'.build => merge.build)
        BY <1>3 DEF MergeInv, MergeFiles
    <2>. QED
        BY <1>1, <1>3, <2>1 DEF Settles
<1>. QED
    BY <1>2, <1>3 DEF Recover, AbandonMerge, FinishMerge, DiscardBuild

\* What the inspecting process itself does.
LEMMA InspectorStep ==
    ASSUME StoreInv, MergeInv, NEW p \in Proc, Claimed(p), Inspecting(p),
           Opening(p) \/ Creation(p) \/ Session(p) \/ Crash(p)
    PROVE  Settles
<1>1. proc[p].pc \in {"config", "catalogue", "serve", "open"}
    BY OfClaimant DEF InspectionPart
<1>2. CASE Recover(p)
    BY <1>2, RecoverySettles
<1>3. CASE Opening(p) /\ ~Recover(p)
    <2>1. UNCHANGED <<config, tmp, segs, metas, merge>>
        BY <1>1, <1>3 DEF Opening, Begin, OpenLockFile, TryLock, LockUnavailable, RemoveChild,
            Cleared, ReadConfig, DrawIdentity, EntropyFails, WriteConfig, PublishConfig,
            ConfigBarrier, ConfigFails, RecoveryRefuses, RecoveryFails, Unreadable,
            EnumerateReference, EnumerateFull, OpenReference, OpenFull, OpenClass, MapFails,
            FreshClass, OpenReturns, disk
    <2>. QED
        BY <2>1, NothingSettled
<1>4. CASE Creation(p)
    BY <1>1, <1>4 DEF Creation, CreateFile, SizeFile, PlaceStamp, ConstructMap,
        ConstructorFails, RollBack
<1>5. CASE Session(p)
    <2>1. Close(p)
        BY <1>5 DEF Session, Insert, Erase, Rotate
    <2>2. DOMAIN metas' = DOMAIN metas
        BY <2>1, InspectionCloses
    <2>3. UNCHANGED <<config, tmp, segs, merge>>
        BY <2>1 DEF Close
    <2>. QED
        BY <2>2, <2>3, NothingSettled
<1>6. CASE Crash(p)
    <2>1. UNCHANGED <<config, tmp, segs, metas, merge>>
        BY <1>6 DEF Crash, disk
    <2>. QED
        BY <2>1, NothingSettled
<1>. QED
    BY <1>2, <1>3, <1>4, <1>5, <1>6

\* What a process does that is not past the claim.
LEMMA StarterTouchesNothing ==
    ASSUME NEW q \in Proc, ~Claimed(q), Opening(q) \/ Creation(q) \/ Session(q) \/ Crash(q)
    PROVE  Settles
<1>1. proc[q].pc \in {"idle", "claim", "flock"}
    BY DEF Claimed
<1>2. UNCHANGED <<config, tmp, segs, metas, merge>>
    <2>1. CASE Opening(q)
        BY <1>1, <2>1 DEF Opening, Begin, OpenLockFile, TryLock, LockUnavailable, RemoveChild,
            Cleared, ReadConfig, DrawIdentity, EntropyFails, WriteConfig, PublishConfig,
            ConfigBarrier, ConfigFails, Recover, AbandonMerge, RetireSource, FinishMerge,
            DiscardBuild, Recovering, RecoveryRefuses, RecoveryFails, Unreadable,
            EnumerateReference, EnumerateFull, OpenReference, OpenFull, MapFails, FreshClass,
            OpenReturns, disk
    <2>2. CASE Creation(q)
        BY <1>1, <2>2 DEF Creation, CreateFile, SizeFile, PlaceStamp, ConstructMap,
            ConstructorFails, RollBack
    <2>3. CASE Session(q)
        BY <1>1, <2>3 DEF Session, Insert, Erase, Rotate, Close, Serving
    <2>4. CASE Crash(q)
        BY <2>4 DEF Crash, disk
    <2>. QED
        BY <2>1, <2>2, <2>3, <2>4
<1>. QED
    BY <1>2, NothingSettled

\* While a process inspects the store no file of it comes or changes, and one that goes
\* was superseded by a file that is there and stays: by its own steps, and by those of a
\* process that cannot have the claim.
THEOREM InspectionOnlySettlesHolds == Spec => InspectionOnlySettles
<1>. DEFINE Step == \A p \in Proc : Claimed(p) /\ Inspecting(p) /\ strayed' = strayed => Settles
<1>1. StoreInv /\ MergeInv /\ [Next]_vars => [Step]_vars
    <2>. SUFFICES ASSUME StoreInv, MergeInv, Next,
                         NEW p \in Proc, Claimed(p), Inspecting(p), strayed' = strayed
                  PROVE  Settles
        OBVIOUS
    <2>1. ASSUME NEW q \in Proc, Opening(q) \/ Creation(q) \/ Session(q) \/ Crash(q)
          PROVE  Settles
        <3>1. CASE q = p
            BY <2>1, <3>1, InspectorStep
        <3>2. CASE q # p
            <4>1. ~Claimed(q)
                BY <3>2 DEF StoreInv, ClaimInv, OneClaimant
            <4>. QED
                BY <2>1, <4>1, StarterTouchesNothing
        <3>. QED
            BY <3>1, <3>2
    <2>2. ASSUME NEW n, NEW s, Stray(n, s) PROVE FALSE
        BY <2>2 DEF Stray
    <2>. QED
        BY <2>1, <2>2 DEF Next
<1>2. [Step]_vars => [\A p \in Proc : Claimed(p) /\ Inspecting(p) /\ strayed' = strayed =>
          /\ UNCHANGED <<config, tmp>>
          /\ DOMAIN segs' \subseteq DOMAIN segs /\ DOMAIN metas' \subseteq DOMAIN metas
          /\ \A n \in DOMAIN segs' : segs'[n] = segs[n]
          /\ \A n \in (DOMAIN segs \ DOMAIN segs') \cup (DOMAIN metas \ DOMAIN metas') :
                Superseded(n) /\ merge.target \in DOMAIN segs'
          /\ merge'.record => merge.record
          /\ merge'.build => merge.build]_vars
    BY DEF Settles
<1>. QED
    BY <1>1, <1>2, StoreInvariant, MergeInvariant, PTL DEF Spec, InspectionOnlySettles
-----------------------------------------------------------------------------
(* Refusals have their cause *)

\* An error that is about the caller, the machine or the format explains itself.
LEMMA Explains ==
    ASSUME NEW error,
           error \notin {"segment_stamp_missing", "version_unreadable",
                         "database_identity_mismatch", "segment_misplaced",
                         "segment_stamp_corrupt", "identity_collision", "recovery_failed",
                         "file_open_failed", "storage_mode_mismatch"}
    PROVE  Explained(error)
    BY DEF Explained

\* So does one that is the answer to a call that fails in this step.
LEMMA FailureExplains ==
    ASSUME faults' = faults + 1,
           NEW error \in {"identity_collision", "recovery_failed", "file_open_failed"}
    PROVE  Explained(error)
    BY DEF Explained

\* A version that will not open: its creation was cut short, or it is not of this
\* store's making, or a removal stopped half way.
LEMMA VersionRefusalExplained ==
    ASSUME StoreInv, NEW p \in Proc, proc[p].pc = "serve", NEW n \in proc[p].cat
    PROVE  Explained(OpenVersion(segs[n], Expected(p, n)))
<1>. DEFINE f == segs[n]
            e == OpenVersion(segs[n], Expected(p, n))
<1>1. Claimed(p) /\ ~Creating(p)
    BY DEF Claimed, Creating
<1>2. ConfigPart(p) /\ CataloguePart(p)
    BY <1>1, OfClaimant
<1>3. n \in DOMAIN segs /\ f \in File
    BY <1>2 DEF CataloguePart, Served, StoreInv, DiskShape
<1>4. Truthful(n) /\ (f.map \/ torn)
    BY <1>1, <1>3, WholeButOne
<1>5. Expected(p, n).id = config.id /\ Expected(p, n).name = n
    BY <1>2, StampsApart DEF Expected, ConfigPart, Settled, Served
<1>6. /\ e = "segment_stamp_missing" => f.stamp = NoStamp
      /\ e = "version_unreadable" => ~f.map
      /\ e = "segment_stamp_corrupt" => f.stamp = Damaged
      /\ e = "database_identity_mismatch" =>
            f.stamp # NoStamp /\ f.stamp # Damaged /\ f.stamp.id # config.id
      /\ e = "segment_misplaced" =>
            f.stamp # NoStamp /\ f.stamp # Damaged /\ f.stamp.name # n
      /\ e = "file_open_failed" => ~f.sized
      /\ e \notin {"identity_collision", "storage_mode_mismatch", "recovery_failed"}
    BY <1>3, <1>5, RefusalMeans
<1>7. e \in {"segment_stamp_missing", "version_unreadable", "file_open_failed"} => torn
    BY <1>4, <1>6 DEF Truthful
<1>8. e = "database_identity_mismatch" => wounded \/ strayed
    BY <1>3, <1>6 DEF StoreInv, DiskInv, IdentityKept
<1>9. e \in {"segment_misplaced", "segment_stamp_corrupt"} => strayed
    <2>1. CASE f.by = NoBuild
        BY <1>4, <2>1 DEF Truthful
    <2>2. CASE f.by \in Build /\ f.stamp # NoStamp
        <3>1. PICK i \in Nat : f.stamp = LocalIdentity(f.by, i, n)
            BY <1>4, <2>2 DEF Truthful
        <3>2. f.stamp # Damaged /\ f.stamp.name = n
            BY <3>1, StampsApart
        <3>. QED
            BY <1>6, <3>2
    <2>3. f.by \in Build \/ f.by = NoBuild
        BY <1>3 DEF File
    <2>4. CASE f.stamp = NoStamp
        BY <1>6, <2>4, StampsApart
    <2>. QED
        BY <2>1, <2>2, <2>3, <2>4
<1>. HIDE DEF e
<1>. QED
    BY <1>6, <1>7, <1>8, <1>9 DEF Explained, e

\* The version a refusal names is one of the faulty ones.
LEMMA OpenClassExplained ==
    ASSUME StoreInv, NEW p \in Proc, proc[p].pc = "serve", NEW k, OpenClass(p, k)
    PROVE  Explained(outcome')
<1>1. Claimed(p)
    BY DEF Claimed
<1>2. CataloguePart(p)
    BY <1>1, OfClaimant
<1>3. proc[p].cat \subseteq Name
    BY <1>2 DEF CataloguePart, Served, StoreInv, DiskShape
<1>4. CASE Faulty(p, k) = {}
    <2>1. outcome' = "none"
        BY <1>4 DEF OpenClass, Becomes
    <2>. QED
        BY <2>1, Explains
<1>5. CASE Faulty(p, k) # {}
    <2>1. PICK v : v = Max(Faulty(p, k))
        OBVIOUS
    <2>2. Faulty(p, k) \subseteq 0 .. MaxVersion /\ MaxVersion \in Nat
        BY <1>3, OpeningAssumption DEF Faulty, VersionsOf, Name, Version
    <2>3. v \in Faulty(p, k)
        BY <1>5, <2>1, <2>2, MaxOf
    <2>4. PICK n \in proc[p].cat : n[1] = k /\ n[2] = v
        BY <2>3 DEF Faulty, VersionsOf
    <2>5. n = <<k, v>>
        BY <1>3, <2>4 DEF Name
    <2>6. outcome' = OpenVersion(segs[n], Expected(p, n))
        BY <1>5, <2>1, <2>5 DEF OpenClass, Refuse
    <2>. QED
        BY <2>6, VersionRefusalExplained
<1>. QED
    BY <1>4, <1>5

\* What open() and its parts return.
LEMMA OpeningExplained ==
    ASSUME StoreInv, NEW p \in Proc, proc[p].pc # "idle", proc'[p].pc = "idle", Opening(p)
    PROVE  Explained(outcome')
<1>1. \A r : Becomes(p, r) => outcome' = "none"
    BY DEF Becomes
<1>2. \A error : Refuse(p, error) => outcome' = error
    BY DEF Refuse
<1>3. CASE ReadConfig(p)
    <2>1. config # NoConfig
        BY <1>3 DEF ReadConfig
    <2>2. ConfigRefusal(p) \in {"migration_required", "format_unsupported",
            "config_file_corrupt", "geometry_mismatch", "layout_mismatch", "hash_mismatch",
            "abi_mismatch", "storage_mode_mismatch", "ok"}
        BY DEF ConfigRefusal, ReadConfigFile, EpochMismatch
    <2>3. outcome' = "none" \/ outcome' = ConfigRefusal(p)
        BY <1>1, <1>2, <1>3 DEF ReadConfig
    <2>4. CASE outcome' = "storage_mode_mismatch"
        BY <2>1, <2>4 DEF Explained
    <2>5. CASE outcome' # "storage_mode_mismatch"
        BY <2>2, <2>3, <2>5, Explains
    <2>. QED
        BY <2>4, <2>5
<1>4. CASE DrawIdentity(p)
    <2>1. \/ outcome' \in {"none", "database_not_found"}
          \/ outcome' = "storage_mode_mismatch" /\ DOMAIN segs # {}
        BY <1>1, <1>2, <1>4 DEF DrawIdentity
    <2>2. CASE outcome' \in {"none", "database_not_found"}
        BY <2>2, Explains
    <2>3. CASE outcome' = "storage_mode_mismatch" /\ DOMAIN segs # {}
        <3>1. wounded \/ strayed
            BY <1>4, <2>3 DEF DrawIdentity, StoreInv, DiskInv, IdentityKept
        <3>. QED
            BY <2>3, <3>1 DEF Explained
    <2>. QED
        BY <2>1, <2>2, <2>3
<1>5. CASE OpenReference(p) \/ OpenFull(p)
    BY <1>5, OpenClassExplained DEF OpenReference, OpenFull
<1>6. CASE RemoveChild(p) \/ Recover(p)
    BY <1>6 DEF RemoveChild, Recover
<1>7. CASE \/ \E mode \in {"full", "reference"}, how \in {"open", "remove", "inspect"} :
                 Begin(p, mode, how)
           \/ OpenLockFile(p) \/ TryLock(p) \/ LockUnavailable(p) \/ Cleared(p)
           \/ WriteConfig(p) \/ PublishConfig(p) \/ ConfigBarrier(p) \/ ConfigFails(p)
           \/ EntropyFails(p) \/ Unreadable(p) \/ EnumerateReference(p) \/ EnumerateFull(p)
           \/ FreshClass(p) \/ OpenReturns(p)
    <2>1. outcome' \in {"none", "database_in_use", "database_lock_unavailable",
                        "config_not_written", "catalog_unreadable", "database_not_found",
                        "entropy_unavailable"}
        BY <1>1, <1>2, <1>7 DEF Begin, OpenLockFile, TryLock, LockUnavailable, Cleared,
            WriteConfig, PublishConfig, ConfigBarrier, ConfigFails, EntropyFails, Unreadable,
            EnumerateReference, EnumerateFull, Catalogued, FreshClass, OpenReturns, Goto
    <2>. QED
        BY <2>1, Explains
<1>8. CASE RecoveryFails(p) \/ MapFails(p)
    <2>1. faults' = faults + 1
        BY <1>8 DEF RecoveryFails, MapFails, Fault
    <2>2. outcome' \in {"recovery_failed", "removal_failed", "sync_failed", "file_open_failed"}
        BY <1>2, <1>8 DEF RecoveryFails, MapFails
    <2>. QED
        BY <2>1, <2>2, Explains, FailureExplains
<1>9. CASE RecoveryRefuses(p)
    <2>1. outcome' = "recovery_failed" /\ merge.target \in DOMAIN segs
          /\ segs[merge.target].by = NoBuild
        BY <1>2, <1>9 DEF RecoveryRefuses, Published, MarkerMatches
    <2>2. strayed
        BY <2>1 DEF StoreInv, DiskInv, FileInv, Truthful
    <2>. QED
        BY <2>1, <2>2 DEF Explained
<1>. QED
    BY <1>3, <1>4, <1>5, <1>6, <1>7, <1>8, <1>9 DEF Opening

\* A name is taken where the catalogue has no version only if a file was brought in; every
\* other refusal of a creation is a call that fails.
LEMMA CreationExplained ==
    ASSUME StoreInv, NEW p \in Proc, Creation(p)
    PROVE  Explained(outcome')
<1>1. \A r : Becomes(p, r) => outcome' = "none"
    BY DEF Becomes
<1>2. \A error : CreationFails(p, error) => outcome' \in {"none", error}
    BY DEF CreationFails, Becomes, Refuse
<1>3. CASE CreateFile(p)
    <2>1. Claimed(p) /\ ~Creating(p) /\ proc[p].pc = "create"
        BY <1>3 DEF CreateFile, Claimed, Creating
    <2>2. CataloguePart(p) /\ CreationPart(p)
        BY <2>1, OfClaimant
    <2>3. proc[p].at \in DOMAIN segs => strayed
        BY <2>1, <2>2 DEF CataloguePart, CreationPart, Served
    <2>4. \/ outcome' = "none"
          \/ outcome' = "identity_collision" /\ proc[p].at \in DOMAIN segs
        BY <1>1, <1>2, <1>3 DEF CreateFile, Goto
    <2>5. CASE outcome' = "none"
        BY <2>5, Explains
    <2>6. CASE outcome' = "identity_collision" /\ proc[p].at \in DOMAIN segs
        BY <2>3, <2>6 DEF Explained
    <2>. QED
        BY <2>4, <2>5, <2>6
<1>4. CASE SizeFile(p) \/ PlaceStamp(p) \/ ConstructMap(p)
    <2>1. outcome' = "none"
        BY <1>1, <1>4 DEF SizeFile, PlaceStamp, ConstructMap, Goto
    <2>. QED
        BY <2>1, Explains
<1>5. CASE ConstructorFails(p) \/ RollBack(p)
    <2>1. faults' = faults + 1
        BY <1>5 DEF ConstructorFails, RollBack, Fault
    <2>2. outcome' \in {"none", "identity_collision", "file_open_failed", "exception"}
        BY <1>2, <1>5 DEF ConstructorFails, RollBack, CreationErrors
    <2>. QED
        BY <2>1, <2>2, Explains, FailureExplains
<1>. QED
    BY <1>3, <1>4, <1>5 DEF Creation

\* What a session returns says nothing of foreign files.
LEMMA SessionExplained ==
    ASSUME NEW p \in Proc, Session(p) \/ Crash(p)
    PROVE  Explained(outcome')
<1>1. outcome' \in {"none", "closed", "crashed"}
    BY DEF Session, Insert, Erase, Rotate, Close, Crash, Becomes, Refuse
<1>. QED
    BY <1>1, Explains

\* A refusal that calls the files of the store foreign, incomplete or taken has a cause
\* outside the library, in a step that was cut short or in a call that fails in this very
\* step: create_container and recover_one answer it for nothing the library wrote.
THEOREM RefusalsExplainedHolds == Spec => RefusalsExplained
<1>. DEFINE Step == \A p \in Proc :
                proc[p].pc # "idle" /\ proc'[p].pc = "idle" => Explained(outcome')
<1>1. StoreInv /\ [Next]_vars => [Step]_vars
    <2>. SUFFICES ASSUME StoreInv, Next, NEW p \in Proc, proc[p].pc # "idle", proc'[p].pc = "idle"
                  PROVE  Explained(outcome')
        OBVIOUS
    <2>1. ASSUME NEW q \in Proc, Opening(q) \/ Creation(q) \/ Session(q) \/ Crash(q)
          PROVE  Explained(outcome')
        <3>1. q = p
            <4>1. ProcShape
                BY DEF StoreInv
            <4>. QED
                BY <2>1, <4>1, OthersStay
        <3>. QED
            BY <2>1, <3>1, OpeningExplained, CreationExplained, SessionExplained
    <2>2. ASSUME NEW n, NEW s, Stray(n, s) PROVE FALSE
        BY <2>2 DEF Stray
    <2>. QED
        BY <2>1, <2>2 DEF Next
<1>. QED
    BY <1>1, StoreInvariant, PTL DEF Spec, RefusalsExplained
-----------------------------------------------------------------------------
(* What the store holds *)

EntriesIn(sg, S) == UNION {{<<n[1], key>> : key \in sg[n].keys} : n \in S}
Holding(sg, S) == {n \in S : sg[n].keys # {}}
Opened(r) == {n \in r.cat : n[1] \notin r.todo}

\* A file that was never finished, or was brought in by hand, holds nothing.
Hollow(sg) == \A n \in DOMAIN sg : ~sg[n].map \/ sg[n].by = NoBuild => sg[n].keys = {}

\* An entry is in one version, the entries on disk are those stored, and a file that
\* holds one is of a class of the store's mode.
Contents(sg, cf, st) ==
    /\ \A n, m \in DOMAIN sg : n # m /\ n[1] = m[1] => sg[n].keys \cap sg[m].keys = {}
    /\ EntriesIn(sg, DOMAIN sg) = st
    /\ \A n \in DOMAIN sg : sg[n].keys # {} => cf.format = 2 /\ n[1] \in Kinds(cf.mode)

\* A process with a catalogue misses no file that holds anything, and has counted
\* the classes it has opened.
Counts(r, sg) ==
    r.pc \in Served =>
        /\ \A n \in DOMAIN sg : sg[n].keys # {} => n \in r.cat
        /\ r.count = Cardinality(EntriesIn(sg, Opened(r)))

ProcContent(r, sg, cf, w) ==
    /\ r.pc \notin Served => r.count = 0
    /\ r.pc \in Settled => cf.mode = r.mode
    /\ \A k \in r.mapped : \E n \in r.cat : n[1] = k
    /\ ~w => Counts(r, sg)

\* The files that count: once a merge on record has given its target its name, its
\* sources do not.
Held(sg, mg) ==
    IF mg.record /\ mg.target \in DOMAIN sg /\ sg[mg.target].by # NoBuild
    THEN [n \in DOMAIN sg \ mg.sources |-> sg[n]]
    ELSE sg

ContentInv ==
    /\ Hollow(segs)
    /\ ~wounded => Contents(Held(segs, merge), config, stored)
    /\ \A p \in Proc : ProcContent(proc[p], segs, config, wounded)

\* Files that hold nothing do not matter to the entries.
LEMMA EntriesSame ==
    ASSUME NEW sg, NEW S, NEW sg2, NEW S2, Holding(sg, S) = Holding(sg2, S2),
           \A n \in Holding(sg, S) : sg[n].keys = sg2[n].keys
    PROVE  EntriesIn(sg, S) = EntriesIn(sg2, S2)
<1>1. EntriesIn(sg, S) = EntriesIn(sg, Holding(sg, S))
    BY SMT DEF EntriesIn, Holding
<1>2. EntriesIn(sg2, S2) = EntriesIn(sg2, Holding(sg2, S2))
    BY SMT DEF EntriesIn, Holding
<1>. HIDE DEF Holding
<1>3. EntriesIn(sg, Holding(sg, S)) = EntriesIn(sg2, Holding(sg, S))
    BY SMT DEF EntriesIn
<1>. QED
    BY <1>1, <1>2, <1>3

\* Two directories with the same entries in the same files.
SameKeys(sg, sg2) ==
    /\ Holding(sg, DOMAIN sg) = Holding(sg2, DOMAIN sg2)
    /\ \A n \in Holding(sg, DOMAIN sg) : sg[n].keys = sg2[n].keys

\* They hold the same.
LEMMA ContentsSame ==
    ASSUME NEW sg, NEW sg2, SameKeys(sg, sg2), NEW cf, NEW st, Contents(sg, cf, st)
    PROVE  Contents(sg2, cf, st)
<1>1. EntriesIn(sg, DOMAIN sg) = EntriesIn(sg2, DOMAIN sg2)
    BY EntriesSame DEF SameKeys
<1>2. \A n \in DOMAIN sg2 : sg2[n].keys # {} =>
          n \in DOMAIN sg /\ sg[n].keys # {} /\ sg2[n].keys = sg[n].keys
    BY DEF SameKeys, Holding
<1>3. ASSUME NEW n \in DOMAIN sg2, NEW m \in DOMAIN sg2, n # m, n[1] = m[1]
      PROVE  sg2[n].keys \cap sg2[m].keys = {}
    BY <1>2, <1>3, SMT DEF Contents
<1>. QED
    BY <1>1, <1>2, <1>3 DEF Contents

\* A process counts the same in both, with the same classes opened.
LEMMA CountsSame ==
    ASSUME NEW sg, NEW sg2, SameKeys(sg, sg2), NEW r, NEW r2,
           r.pc \in Served, Counts(r, sg), r.cat \subseteq r2.cat, r2.count = r.count,
           r.cat \subseteq DOMAIN sg, r2.cat \subseteq DOMAIN sg2,
           Holding(sg2, Opened(r2)) = Holding(sg2, Opened(r))
    PROVE  Counts(r2, sg2)
<1>1. \A n \in DOMAIN sg2 : sg2[n].keys # {} =>
          n \in DOMAIN sg /\ sg[n].keys # {} /\ sg2[n].keys = sg[n].keys
    BY DEF SameKeys, Holding
<1>2. \A n \in DOMAIN sg : sg[n].keys # {} =>
          n \in DOMAIN sg2 /\ sg2[n].keys # {} /\ sg2[n].keys = sg[n].keys
    BY DEF SameKeys, Holding
<1>3. Holding(sg, Opened(r)) = Holding(sg2, Opened(r))
    BY <1>1, <1>2 DEF Holding, Opened
<1>4. \A n \in Holding(sg, Opened(r)) : sg[n].keys = sg2[n].keys
    BY <1>2 DEF Holding, Opened
<1>5. EntriesIn(sg, Opened(r)) = EntriesIn(sg2, Opened(r2))
    BY <1>3, <1>4, EntriesSame
<1>6. \A n \in DOMAIN sg2 : sg2[n].keys # {} => n \in r2.cat
    BY <1>1 DEF Counts
<1>. QED
    BY <1>5, <1>6 DEF Counts

\* A destroyed instance has nothing left to be wrong about.
LEMMA GoneContent ==
    ASSUME NEW sg, NEW cf, NEW w
    PROVE  ProcContent(Gone, sg, cf, w)
    BY DEF ProcContent, Counts, Gone, Served, Settled

\* A process that has not settled on an identity looks at nothing on disk.
LEMMA UnsettledContent ==
    ASSUME NEW r, NEW sg, NEW cf, NEW w, r.pc \notin Settled, ProcContent(r, sg, cf, w),
           NEW sg2, NEW cf2, NEW w2
    PROVE  ProcContent(r, sg2, cf2, w2)
    BY DEF ProcContent, Counts, Settled

\* A step that leaves the contents alone.
LEMMA ContentRests ==
    ASSUME StoreInv, ContentInv, NEW p \in Proc, NEW r, IsProcess(r),
           proc' = [proc EXCEPT ![p] = r], UNCHANGED <<config, segs, merge, stored, wounded>>,
           ProcContent(r, segs, config, wounded)
    PROVE  ContentInv'
<1>1. proc'[p] = r /\ \A q \in Proc : q # p => proc'[q] = proc[q]
    BY OneMoves DEF StoreInv
<1>2. ASSUME NEW q \in Proc PROVE ProcContent(proc'[q], segs', config', wounded')
    BY <1>1 DEF ContentInv
<1>3. Hollow(segs') /\ (~wounded' => Contents(Held(segs', merge'), config', stored'))
    BY DEF ContentInv
<1>. QED
    BY <1>2, <1>3 DEF ContentInv

\* A step of the claimant: the others look at nothing on disk.
LEMMA ContentMoves ==
    ASSUME StoreInv, ContentInv, NEW p \in Proc, Claimed(p), NEW r, IsProcess(r),
           proc' = [proc EXCEPT ![p] = r],
           Hollow(segs'), ~wounded' => Contents(Held(segs', merge'), config', stored'),
           ProcContent(r, segs', config', wounded')
    PROVE  ContentInv'
<1>1. proc'[p] = r /\ \A q \in Proc : q # p => proc'[q] = proc[q]
    BY OneMoves DEF StoreInv
<1>2. ASSUME NEW q \in Proc PROVE ProcContent(proc'[q], segs', config', wounded')
    <2>1. CASE q = p
        BY <1>1, <2>1
    <2>2. CASE q # p
        <3>1. ~Claimed(q)
            BY <2>2 DEF StoreInv, ClaimInv, OneClaimant
        <3>2. proc[q].pc \notin Settled
            BY <3>1 DEF Claimed, Settled, Served
        <3>3. ProcContent(proc[q], segs, config, wounded)
            BY DEF ContentInv
        <3>4. ProcContent(proc[q], segs', config', wounded')
            BY <3>2, <3>3, UnsettledContent
        <3>. QED
            BY <1>1, <2>2, <3>4
    <2>. QED
        BY <2>1, <2>2
<1>. QED
    BY <1>2 DEF ContentInv

\* A process that has a catalogue has no merge on record before it.
LEMMA ServedHolds ==
    ASSUME MergeInv, ContentInv, NEW p \in Proc, proc[p].pc \in Served, ~wounded
    PROVE  ~merge.record /\ Contents(segs, config, stored)
<1>1. config.mode = proc[p].mode
    BY DEF ContentInv, ProcContent, Settled
<1>2. ~merge.record
    BY <1>1 DEF MergeInv
<1>. QED
    BY <1>2 DEF ContentInv, Held

\* A step of such a process.
LEMMA ServedMoves ==
    ASSUME StoreInv, MergeInv, ContentInv, NEW p \in Proc, Claimed(p), proc[p].pc \in Served,
           NEW r, IsProcess(r), proc' = [proc EXCEPT ![p] = r], UNCHANGED <<merge, wounded>>,
           Hollow(segs'), ~wounded => Contents(segs', config', stored'),
           ProcContent(r, segs', config', wounded')
    PROVE  ContentInv'
<1>1. ~wounded => ~merge.record
    BY ServedHolds
<1>2. ~wounded' => Contents(Held(segs', merge'), config', stored')
    BY <1>1 DEF Held
<1>. QED
    BY <1>2, ContentMoves

\* An instance that ends takes nothing from the disk.
LEMMA ContentEnds ==
    ASSUME StoreInv, ContentInv, NEW p \in Proc, proc' = [proc EXCEPT ![p] = Gone],
           UNCHANGED <<config, segs, merge, stored, wounded>>
    PROVE  ContentInv'
    BY GoneContent, GoneIsProcess, ContentRests

\* Before the catalogue nothing has been counted.
LEMMA EarlyContent ==
    ASSUME StoreInv, ContentInv, NEW p \in Proc, NEW r, Early(p, r),
           UNCHANGED <<config, segs, merge, stored, wounded>>
    PROVE  ContentInv'
<1>1. ProcContent(proc[p], segs, config, wounded)
    BY DEF ContentInv
<1>2. ProcContent(r, segs, config, wounded)
    BY <1>1 DEF ProcContent, Counts, Early
<1>. QED
    BY <1>2, ContentRests DEF Early

\* A configuration published where there was none contradicts no file, since none
\* held anything.
LEMMA PublishContent ==
    ASSUME StoreInv, ContentInv, NEW p \in Proc, PublishConfig(p)
    PROVE  ContentInv'
<1>1. Claimed(p) /\ proc[p].pc = "publish" /\ UNCHANGED <<segs, merge, stored, wounded>>
    BY DEF PublishConfig, Claimed, history
<1>2. config = NoConfig /\ IsProcess(proc[p])
    BY <1>1, OfClaimant DEF ConfigPart
<1>. DEFINE r == [proc[p] EXCEPT !.pc = "barrier"]
<1>3. proc' = [proc EXCEPT ![p] = r]
    BY DEF PublishConfig, Goto, Becomes
<1>4. /\ IsProcess(r) /\ r.pc = "barrier" /\ r.count = proc[p].count
      /\ r.mapped = proc[p].mapped /\ r.cat = proc[p].cat /\ r.mode = proc[p].mode
    BY <1>2 DEF IsProcess, Field
<1>. HIDE DEF r
<1>5. config'.mode = proc[p].mode
    BY DEF PublishConfig, LocalConfig
<1>6. ProcContent(proc[p], segs, config, wounded)
    BY DEF ContentInv
<1>7. ProcContent(r, segs', config', wounded')
    <2>1. r.pc \notin Served
        BY <1>4 DEF Served
    <2>2. r.count = 0
        BY <1>1, <1>4, <1>6 DEF ProcContent, Served
    <2>. QED
        BY <1>4, <1>5, <1>6, <2>1, <2>2 DEF ProcContent, Counts
<1>8. ASSUME ~wounded PROVE Contents(Held(segs, merge), config', stored)
    <2>1. Contents(Held(segs, merge), config, stored) /\ config.format # 2
        BY <1>2, <1>8 DEF ContentInv, NoConfig
    <2>. QED
        BY <2>1 DEF Contents
<1>9. Hollow(segs)
    BY DEF ContentInv
<1>. QED
    BY <1>1, <1>3, <1>4, <1>7, <1>8, <1>9, ContentMoves

\* While a store is being removed nothing is said of its contents.
LEMMA RemoveContent ==
    ASSUME StoreInv, MergeInv, ContentInv, NEW p \in Proc, RemoveChild(p)
    PROVE  ContentInv'
<1>1. Claimed(p) /\ proc[p].pc \notin Settled /\ UNCHANGED <<proc, stored>>
    BY DEF RemoveChild, Claimed, Settled, Served
<1>2. proc' = [proc EXCEPT ![p] = proc[p]] /\ IsProcess(proc[p])
    BY <1>1 DEF StoreInv, ProcShape
<1>3. ProcContent(proc[p], segs, config, wounded)
    BY DEF ContentInv
<1>4. ProcContent(proc[p], segs', config', wounded')
    BY <1>1, <1>3, UnsettledContent
<1>5. \/ /\ UNCHANGED <<config, segs, wounded>>
         /\ merge' = merge \/ merge' = [merge EXCEPT !.build = FALSE]
      \/ wounded' = TRUE /\ UNCHANGED segs
      \/ wounded' = TRUE /\ \E n : segs' = Restrict(segs, DOMAIN segs \ {n})
    BY DEF RemoveChild
<1>6. ~wounded' => Contents(Held(segs', merge'), config', stored')
    <2>. SUFFICES ASSUME ~wounded' PROVE Contents(Held(segs', merge'), config', stored')
        OBVIOUS
    <2>1. UNCHANGED <<config, segs, stored, wounded>>
        BY <1>1, <1>5
    <2>2. /\ merge'.record = merge.record /\ merge'.target = merge.target
          /\ merge'.sources = merge.sources
        BY <1>5 DEF MergeInv, MergeFiles
    <2>3. Held(segs', merge') = Held(segs, merge)
        BY <2>1, <2>2 DEF Held
    <2>. QED
        BY <2>1, <2>3 DEF ContentInv
<1>7. Hollow(segs')
    <2>1. Hollow(segs)
        BY DEF ContentInv
    <2>2. ASSUME NEW n, segs' = Restrict(segs, DOMAIN segs \ {n}) PROVE Hollow(segs')
        BY <2>1, <2>2 DEF Hollow, Restrict
    <2>. QED
        BY <1>5, <2>1, <2>2
<1>. QED
    BY <1>1, <1>2, <1>4, <1>6, <1>7, ContentMoves

\* A store that has been removed holds nothing.
LEMMA ClearedContent ==
    ASSUME StoreInv, ContentInv, NEW p \in Proc, Cleared(p)
    PROVE  ContentInv'
<1>1. Claimed(p) /\ proc[p].pc = "clear" /\ UNCHANGED <<segs, config>>
    BY DEF Cleared, Claimed, disk
<1>2. IsProcess(proc[p])
    BY DEF StoreInv, ProcShape
<1>. DEFINE r == [proc[p] EXCEPT !.pc = "config"]
<1>3. proc' = [proc EXCEPT ![p] = r]
    BY DEF Cleared, Goto, Becomes
<1>4. /\ IsProcess(r) /\ r.pc = "config" /\ r.count = proc[p].count
      /\ r.mapped = proc[p].mapped /\ r.cat = proc[p].cat /\ r.mode = proc[p].mode
    BY <1>2 DEF IsProcess, Field
<1>. HIDE DEF r
<1>5. ProcContent(proc[p], segs, config, wounded)
    BY DEF ContentInv
<1>6. ProcContent(r, segs', config', wounded')
    BY <1>1, <1>4, <1>5 DEF ProcContent, Counts, Served, Settled
<1>7. DOMAIN segs' = {} /\ stored' = {}
    BY <1>1 DEF Cleared, Bare
<1>8. Contents(Held(segs', merge'), config', stored')
    <2>1. DOMAIN Held(segs', merge') = {}
        BY <1>7 DEF Held
    <2>. QED
        BY <1>7, <2>1 DEF Contents, EntriesIn
<1>9. Hollow(segs')
    BY <1>7 DEF Hollow
<1>. QED
    BY <1>1, <1>3, <1>4, <1>6, <1>8, <1>9, ContentMoves

\* Recovery takes away files that do not count, and the record when they are gone.
LEMMA RecoverContent ==
    ASSUME StoreInv, MergeInv, ContentInv, NEW p \in Proc, Recover(p)
    PROVE  ContentInv'
<1>1. /\ Claimed(p) /\ proc[p].pc = "catalogue"
      /\ UNCHANGED <<proc, config, stored, wounded>>
    BY DEF Recover, AbandonMerge, RetireSource, FinishMerge, DiscardBuild, Recovering, Claimed,
           history
<1>2. proc' = [proc EXCEPT ![p] = proc[p]] /\ IsProcess(proc[p])
    BY <1>1 DEF StoreInv, ProcShape
<1>3. Hollow(segs) /\ ProcContent(proc[p], segs, config, wounded)
    BY DEF ContentInv
<1>4. ProcContent(proc[p], segs', config', wounded')
    BY <1>1, <1>3 DEF ProcContent, Counts, Served
<1>5. merge \in MergeFiles
    BY DEF MergeInv
<1>6. Held(segs', merge') = Held(segs, merge) /\ Hollow(segs')
    <2>1. CASE AbandonMerge(p)
        <3>1. UNCHANGED segs /\ merge.target \notin DOMAIN segs /\ merge'.target = merge.target
            BY <1>5, <2>1 DEF AbandonMerge, Published, MergeFiles
        <3>. QED
            BY <1>3, <3>1 DEF Held
    <2>2. CASE DiscardBuild(p)
        <3>1. UNCHANGED segs /\ ~merge.record /\ ~merge'.record
            BY <1>5, <2>2 DEF DiscardBuild, MergeFiles
        <3>. QED
            BY <1>3, <3>1 DEF Held
    <2>3. CASE FinishMerge(p)
        <3>1. /\ UNCHANGED segs /\ ~merge'.record /\ Unretired = {}
              /\ merge.record /\ Published /\ MarkerMatches
            BY <1>5, <2>3 DEF FinishMerge, MergeFiles
        <3>2. DOMAIN segs \ merge.sources = DOMAIN segs
            BY <3>1 DEF Unretired
        <3>3. segs = [n \in DOMAIN segs |-> segs[n]]
            BY DEF StoreInv, DiskShape
        <3>4. Held(segs, merge) = [n \in DOMAIN segs \ merge.sources |-> segs[n]]
            BY <3>1 DEF Held, Published, MarkerMatches
        <3>5. Held(segs', merge') = segs
            BY <3>1 DEF Held
        <3>. QED
            BY <1>3, <3>1, <3>2, <3>3, <3>4, <3>5
    <2>4. CASE RetireSource(p)
        <3>1. /\ merge' = merge /\ merge.record /\ Published /\ MarkerMatches
              /\ \/ segs' = segs
                 \/ segs' = Restrict(segs, DOMAIN segs \ {NextSource})
              /\ NextSource \in Unretired
            BY <2>4, NextSourceLeft DEF RetireSource
        <3>2. CASE segs' = segs
            BY <1>3, <3>1, <3>2
        <3>3. CASE segs' = Restrict(segs, DOMAIN segs \ {NextSource})
            <4>1. NextSource \in merge.sources /\ merge.target \notin merge.sources
                BY <3>1 DEF Unretired, MergeInv
            <4>2. /\ DOMAIN segs' = DOMAIN segs \ {NextSource}
                  /\ \A n \in DOMAIN segs' : segs'[n] = segs[n]
                BY <3>3 DEF Restrict
            <4>3. DOMAIN segs' \ merge.sources = DOMAIN segs \ merge.sources
                BY <4>1, <4>2
            <4>4. Held(segs, merge) = [n \in DOMAIN segs \ merge.sources |-> segs[n]]
                BY <3>1 DEF Held, Published, MarkerMatches
            <4>5. merge.target \in DOMAIN segs' /\ segs'[merge.target].by # NoBuild
                BY <3>1, <4>1, <4>2 DEF Published, MarkerMatches
            <4>6. Held(segs', merge') = [n \in DOMAIN segs' \ merge.sources |-> segs'[n]]
                BY <3>1, <4>5 DEF Held
            <4>7. \A n \in DOMAIN segs \ merge.sources : segs'[n] = segs[n]
                BY <4>2, <4>3
            <4>8. Held(segs', merge') = Held(segs, merge)
                BY <4>3, <4>4, <4>6, <4>7
            <4>9. Hollow(segs')
                BY <1>3, <4>2 DEF Hollow
            <4>. QED
                BY <4>8, <4>9
        <3>. QED
            BY <3>1, <3>2, <3>3
    <2>. QED
        BY <2>1, <2>2, <2>3, <2>4 DEF Recover
<1>7. ~wounded' => Contents(Held(segs', merge'), config', stored')
    BY <1>1, <1>6 DEF ContentInv
<1>. QED
    BY <1>1, <1>2, <1>4, <1>6, <1>7, ContentMoves

\* The catalogue lists every file that holds anything, and none of it is counted yet.
LEMMA EnumerateContent ==
    ASSUME StoreInv, MergeInv, ContentInv, NEW p \in Proc, EnumerateReference(p) \/ EnumerateFull(p)
    PROVE  ContentInv'
<1>1. /\ Claimed(p) /\ proc[p].pc = "catalogue" /\ ~Pending(p)
      /\ UNCHANGED <<config, segs, merge, stored, wounded>>
    BY DEF EnumerateReference, EnumerateFull, Claimed, disk, history
<1>2. IsProcess(proc[p]) /\ ConfigPart(p)
    BY <1>1, OfClaimant
<1>3. \/ proc' = [proc EXCEPT ![p] = Gone]
      \/ Catalogued(p, Kinds(proc[p].mode))
    BY DEF EnumerateReference, EnumerateFull, Refuse, Kinds
<1>4. CASE proc' = [proc EXCEPT ![p] = Gone]
    BY <1>1, <1>4, ContentEnds
<1>5. CASE Catalogued(p, Kinds(proc[p].mode))
    <2>. DEFINE kinds == Kinds(proc[p].mode)
                r == [proc[p] EXCEPT !.pc = "serve", !.cat = Listing(kinds), !.todo = kinds,
                                     !.held = [n \in Name |-> Unknown]]
    <2>1. /\ IsProcess(r) /\ r.pc = "serve" /\ r.cat = Listing(kinds) /\ r.todo = kinds
          /\ r.mapped = proc[p].mapped /\ r.count = proc[p].count /\ r.mode = proc[p].mode
        BY <1>2 DEF IsProcess, Field
    <2>2. proc' = [proc EXCEPT ![p] = r]
        BY <1>5 DEF Catalogued, Becomes
    <2>. HIDE DEF r
    <2>3. /\ r.mapped = {} /\ r.count = 0 /\ config.mode = r.mode
        <3>1. ProcContent(proc[p], segs, config, wounded)
            BY DEF ContentInv
        <3>. QED
            BY <1>1, <1>2, <2>1, <3>1 DEF ConfigPart, Fresh, ProcContent, Served, Settled
    <2>4. Opened(r) = {}
        BY <2>1 DEF Opened, Listing
    <2>5. EntriesIn(segs, Opened(r)) = {}
        BY <2>4 DEF EntriesIn
    <2>6. ~wounded => Counts(r, segs)
        <3>0. ~wounded => Contents(segs, config, stored)
            <4>1. ~wounded => ~merge.record
                BY <1>1, <2>1, <2>3 DEF MergeInv, Pending
            <4>. QED
                BY <4>1 DEF ContentInv, Held
        <3>1. ~wounded => \A n \in DOMAIN segs : segs[n].keys # {} => n[1] \in kinds
            BY <2>1, <2>3, <3>0 DEF Contents
        <3>2. ~wounded => \A n \in DOMAIN segs : segs[n].keys # {} => n \in r.cat
            BY <2>1, <3>1 DEF Listing
        <3>. QED
            BY <2>3, <2>5, <3>2, FS_EmptySet DEF Counts
    <2>7. ProcContent(r, segs, config, wounded)
        BY <2>1, <2>3, <2>6 DEF ProcContent, Served
    <2>. QED
        BY <1>1, <2>1, <2>2, <2>7, ContentRests
<1>. QED
    BY <1>3, <1>4, <1>5

\* There are finitely many names and finitely many entries.
LEMMA FiniteStore ==
    ASSUME DiskShape, NEW S \in SUBSET (DOMAIN segs)
    PROVE  /\ IsFiniteSet(S)
           /\ \A n \in S : IsFiniteSet(segs[n].keys)
           /\ EntriesIn(segs, S) \subseteq Kind \X Key
           /\ IsFiniteSet(EntriesIn(segs, S))
<1>1. IsFiniteSet(Kind) /\ IsFiniteSet(Version) /\ IsFiniteSet(Key)
    <2>1. IsFiniteSet(Class) /\ IsFiniteSet(Key) /\ MaxVersion \in Int /\ 0 \in Int
        BY OpeningAssumption
    <2>. QED
        BY <2>1, FS_AddElement, FS_Interval DEF Kind, Version
<1>2. IsFiniteSet(Kind \X Version) /\ IsFiniteSet(Kind \X Key)
    BY <1>1, FS_Product
<1>3. S \in SUBSET (Kind \X Version)
    BY DEF DiskShape, Name, Kind
<1>4. \A n \in S : n[1] \in Kind /\ segs[n].keys \in SUBSET Key
    BY <1>3 DEF DiskShape, File
<1>5. EntriesIn(segs, S) \in SUBSET (Kind \X Key)
    BY <1>4 DEF EntriesIn
<1>. QED
    BY <1>1, <1>2, <1>3, <1>4, <1>5, FS_Subset

\* Counting the versions of a class one by one counts its entries, since an entry is
\* in one of them.
LEMMA ClassCounted ==
    ASSUME DiskShape, NEW k, NEW own \in SUBSET {n \in DOMAIN segs : n[1] = k},
           \A n, m \in own : n # m => segs[n].keys \cap segs[m].keys = {}
    PROVE  SumFunction([n \in Counted(own) |-> Cardinality(KeysOn(n))]) =
                Cardinality(EntriesIn(segs, own))
<1>. DEFINE f == [n \in own |-> Cardinality(KeysOn(n))]
            content == [n \in own |-> {<<n[1], key>> : key \in segs[n].keys}]
            g == [n \in own |-> Cardinality(content[n])]
<1>1. own \in SUBSET (DOMAIN segs)
    OBVIOUS
<1>2. IsFiniteSet(own) /\ \A n \in own : IsFiniteSet(segs[n].keys)
    BY <1>1, FiniteStore
<1>3. ASSUME NEW n \in own
      PROVE  IsFiniteSet(content[n]) /\ Cardinality(content[n]) = Cardinality(segs[n].keys)
    <2>. DEFINE K == segs[n].keys
                P == {n[1]} \X K
    <2>1. content[n] = P
        OBVIOUS
    <2>. HIDE DEF K
    <2>2. IsFiniteSet(K)
        BY <1>2 DEF K
    <2>3. IsFiniteSet({n[1]}) /\ Cardinality({n[1]}) = 1
        BY FS_Singleton
    <2>4. IsFiniteSet(P) /\ Cardinality(P) = Cardinality({n[1]}) * Cardinality(K)
        BY <2>2, <2>3, FS_Product
    <2>5. Cardinality(K) \in Nat
        BY <2>2, FS_CardinalityType
    <2>6. Cardinality(P) = Cardinality(K)
        BY <2>3, <2>4, <2>5
    <2>. QED
        BY <2>1, <2>4, <2>6 DEF K
<1>4. ASSUME NEW n \in own, NEW m \in own, n # m
      PROVE  content[n] \cap content[m] = {}
    <2>1. segs[n].keys \cap segs[m].keys = {}
        BY <1>4
    <2>2. ASSUME NEW x \in content[n], x \in content[m] PROVE FALSE
        <3>1. x[2] \in segs[n].keys
            OBVIOUS
        <3>2. x[2] \in segs[m].keys
            BY <2>2
        <3>. QED
            BY <2>1, <3>1, <3>2
    <2>. QED
        BY <2>2
<1>5. EntriesIn(segs, own) = UNION {content[n] : n \in own}
    BY DEF EntriesIn
<1>6. f = g
    BY <1>3 DEF KeysOn
<1>7. SumFunction(f) = SumFunctionOnSet(f, own)
    BY DEF SumFunction
<1>8. Counted(own) = own
    BY DEF Counted
<1>. HIDE DEF content
<1>9. SumFunctionOnSet(g, own) = Cardinality(UNION {content[n] : n \in own})
    <2>1. \A n \in own : IsFiniteSet(content[n])
        BY <1>3
    <2>2. \A n, m \in own : n # m => content[n] \cap content[m] = {}
        BY <1>4
    <2>. QED
        BY <1>2, <2>1, <2>2, SumOfDisjoint, Zenon
<1>. QED
    BY <1>5, <1>6, <1>7, <1>8, <1>9

\* Entries of different classes are different.
LEMMA ClassesApart ==
    ASSUME DiskShape, NEW S \in SUBSET (DOMAIN segs), NEW T \in SUBSET (DOMAIN segs),
           \A n \in S, m \in T : n[1] # m[1]
    PROVE  /\ EntriesIn(segs, S \cup T) = EntriesIn(segs, S) \cup EntriesIn(segs, T)
           /\ Cardinality(EntriesIn(segs, S \cup T)) =
                Cardinality(EntriesIn(segs, S)) + Cardinality(EntriesIn(segs, T))
<1>. DEFINE E == EntriesIn(segs, S)
            F == EntriesIn(segs, T)
<1>1. EntriesIn(segs, S \cup T) = E \cup F
    BY DEF EntriesIn
<1>2. E \cap F = {}
    <2>. SUFFICES ASSUME NEW x \in E, x \in F PROVE FALSE
        OBVIOUS
    <2>1. PICK n \in S : x[1] = n[1]
        BY DEF EntriesIn
    <2>2. PICK m \in T : x[1] = m[1]
        BY DEF EntriesIn
    <2>. QED
        BY <2>1, <2>2
<1>3. IsFiniteSet(E) /\ IsFiniteSet(F)
    BY FiniteStore
<1>. HIDE DEF E, F
<1>4. /\ Cardinality(E \cup F) = Cardinality(E) + Cardinality(F) - Cardinality({})
      /\ Cardinality({}) = 0 /\ Cardinality(E) \in Nat /\ Cardinality(F) \in Nat
    BY <1>2, <1>3, FS_Union, FS_EmptySet, FS_CardinalityType
<1>5. Cardinality(E \cup F) = Cardinality(E) + Cardinality(F)
    BY <1>4
<1>. QED
    BY <1>1, <1>5 DEF E, F

\* A class that opens is counted, and the ones opened before it stay counted.
LEMMA OpenClassContent ==
    ASSUME StoreInv, MergeInv, ContentInv, NEW p \in Proc, proc[p].pc = "serve",
           NEW k \in proc[p].todo, OpenClass(p, k)
    PROVE  ContentInv'
<1>1. Claimed(p) /\ UNCHANGED <<config, segs, merge, stored, wounded>>
    BY DEF OpenClass, Claimed, disk, history
<1>2. /\ IsProcess(proc[p]) /\ CataloguePart(p) /\ ProcContent(proc[p], segs, config, wounded)
      /\ DiskShape
    BY <1>1, OfClaimant DEF ContentInv, StoreInv
<1>. DEFINE own == {n \in proc[p].cat : n[1] = k}
            more == SumFunction([n \in Counted(own) |-> Cardinality(KeysOn(n))])
            r == [proc[p] EXCEPT !.todo = @ \ {k}, !.mapped = @ \cup {k},
                                 !.count = @ + more, !.held = LoadMetadata(@, own)]
<1>3. \/ proc' = [proc EXCEPT ![p] = Gone]
      \/ own # {} /\ proc' = [proc EXCEPT ![p] = r]
    BY DEF OpenClass, Refuse, Becomes
<1>4. CASE proc' = [proc EXCEPT ![p] = Gone]
    BY <1>1, <1>4, ContentEnds
<1>5. CASE own # {} /\ proc' = [proc EXCEPT ![p] = r]
    <2>. HIDE DEF more
    <2>1. /\ IsProcess(r) /\ r.pc = proc[p].pc /\ r.mode = proc[p].mode
          /\ r.cat = proc[p].cat /\ r.count = proc[p].count + more
          /\ r.mapped = proc[p].mapped \cup {k} /\ r.todo = proc[p].todo \ {k}
        BY <1>2 DEF IsProcess, Field
    <2>. HIDE DEF r
    <2>2. proc[p].cat \subseteq DOMAIN segs /\ proc[p].pc \in Served
        BY <1>2 DEF CataloguePart, Served
    <2>3. ASSUME ~wounded PROVE Counts(r, segs)
        <3>. DEFINE S == Opened(proc[p])
        <3>1. Counts(proc[p], segs) /\ Contents(segs, config, stored)
            BY <1>2, <2>2, <2>3, ServedHolds DEF ProcContent
        <3>2. \A n, m \in own : n # m => segs[n].keys \cap segs[m].keys = {}
            BY <2>2, <3>1 DEF Contents
        <3>3. own \in SUBSET {n \in DOMAIN segs : n[1] = k}
            BY <2>2
        <3>4. more = Cardinality(EntriesIn(segs, own))
            BY <1>2, <3>2, <3>3, ClassCounted DEF more
        <3>5. S \in SUBSET (DOMAIN segs) /\ own \in SUBSET (DOMAIN segs)
            BY <2>2 DEF Opened
        <3>6. \A n \in S, m \in own : n[1] # m[1]
            BY DEF Opened
        <3>7. Opened(r) = S \cup own
            BY <2>1 DEF Opened
        <3>. HIDE DEF S, own
        <3>8. Cardinality(EntriesIn(segs, S \cup own)) =
                Cardinality(EntriesIn(segs, S)) + Cardinality(EntriesIn(segs, own))
            BY <1>2, <3>5, <3>6, ClassesApart
        <3>9. r.count = Cardinality(EntriesIn(segs, Opened(r)))
            BY <2>1, <2>2, <3>1, <3>4, <3>7, <3>8 DEF Counts, S
        <3>. QED
            BY <2>1, <2>2, <3>1, <3>9 DEF Counts
    <2>4. \A j \in r.mapped : \E n \in r.cat : n[1] = j
        BY <1>2, <1>5, <2>1 DEF ProcContent
    <2>5. ProcContent(r, segs, config, wounded)
        BY <1>2, <2>1, <2>2, <2>3, <2>4 DEF ProcContent
    <2>. QED
        BY <1>1, <1>5, <2>1, <2>5, ContentRests
<1>. QED
    BY <1>3, <1>4, <1>5

\* A process with a catalogue that moves on with what it has counted.
LEMMA ContentStays ==
    ASSUME StoreInv, ContentInv, NEW p \in Proc, proc[p].pc \in Served, NEW r, IsProcess(r),
           proc' = [proc EXCEPT ![p] = r], UNCHANGED <<config, segs, merge, stored, wounded>>,
           r.pc \in Served, r.mode = proc[p].mode, r.cat = proc[p].cat,
           r.count = proc[p].count, r.mapped \subseteq proc[p].mapped, Opened(r) = Opened(proc[p])
    PROVE  ContentInv'
<1>1. ProcContent(proc[p], segs, config, wounded)
    BY DEF ContentInv
<1>2. ProcContent(r, segs, config, wounded)
    BY <1>1 DEF ProcContent, Counts, Settled
<1>. QED
    BY <1>2, ContentRests

\* The rest of open(): a class that is passed over had nothing to count.
LEMMA ServeContent ==
    ASSUME StoreInv, MergeInv, ContentInv, NEW p \in Proc,
           OpenReference(p) \/ OpenFull(p) \/ MapFails(p) \/ FreshClass(p) \/ OpenReturns(p)
    PROVE  ContentInv'
<1>1. proc[p].pc = "serve" /\ Claimed(p) /\ proc[p].pc \in Served
    BY DEF OpenReference, OpenFull, MapFails, FreshClass, OpenReturns, Claimed, Served
<1>2. /\ IsProcess(proc[p])
      /\ proc[p].todo # {} => Turn(p) \in proc[p].todo
    <2>1. proc[p].todo \subseteq Kinds(proc[p].mode) /\ IsProcess(proc[p])
        BY <1>1, OfClaimant DEF CataloguePart
    <2>. QED
        BY <2>1, TurnLeft
<1>3. CASE OpenReference(p) \/ OpenFull(p)
    BY <1>1, <1>2, <1>3, OpenClassContent DEF OpenReference, OpenFull
<1>4. CASE MapFails(p)
    BY <1>4, ContentEnds DEF MapFails, Refuse, disk, history
<1>5. CASE FreshClass(p)
    <2>1. /\ UNCHANGED <<config, segs, merge, stored, wounded>>
          /\ VersionsOf(proc[p].cat, Turn(p)) = {}
        BY <1>5 DEF FreshClass, disk, history
    <2>2. PICK k : k = Turn(p)
        OBVIOUS
    <2>3. \A n \in proc[p].cat : n[1] # k
        BY <2>1, <2>2 DEF VersionsOf
    <2>4. CASE Becomes(p, [proc[p] EXCEPT !.todo = @ \ {Turn(p)}])
        <3>. DEFINE r == [proc[p] EXCEPT !.todo = @ \ {k}]
        <3>1. /\ IsProcess(r) /\ r.pc = proc[p].pc /\ r.mode = proc[p].mode
              /\ r.cat = proc[p].cat /\ r.count = proc[p].count
              /\ r.mapped = proc[p].mapped /\ r.todo = proc[p].todo \ {k}
            BY <1>2 DEF IsProcess, Field
        <3>2. proc' = [proc EXCEPT ![p] = r]
            BY <2>2, <2>4 DEF Becomes
        <3>. HIDE DEF r
        <3>3. Opened(r) = Opened(proc[p])
            BY <2>3, <3>1 DEF Opened
        <3>. QED
            BY <1>1, <2>1, <3>1, <3>2, <3>3, ContentStays
    <2>5. CASE Becomes(p, [proc[p] EXCEPT !.pc = "create", !.at = <<Turn(p), 0>>])
        <3>. DEFINE r == [proc[p] EXCEPT !.pc = "create", !.at = <<k, 0>>]
        <3>1. /\ IsProcess(r) /\ r.pc = "create" /\ r.mode = proc[p].mode
              /\ r.cat = proc[p].cat /\ r.count = proc[p].count
              /\ r.mapped = proc[p].mapped /\ r.todo = proc[p].todo
            BY <1>2 DEF IsProcess, Field
        <3>2. proc' = [proc EXCEPT ![p] = r]
            BY <2>2, <2>5 DEF Becomes
        <3>. HIDE DEF r
        <3>3. Opened(r) = Opened(proc[p]) /\ r.pc \in Served
            BY <3>1 DEF Opened, Served
        <3>. QED
            BY <1>1, <2>1, <3>1, <3>2, <3>3, ContentStays
    <2>. QED
        BY <1>5, <2>4, <2>5 DEF FreshClass
<1>6. CASE OpenReturns(p)
    <2>. DEFINE r == [proc[p] EXCEPT !.pc = "open"]
    <2>1. /\ IsProcess(r) /\ r.pc = "open" /\ r.mode = proc[p].mode
          /\ r.cat = proc[p].cat /\ r.count = proc[p].count
          /\ r.mapped = proc[p].mapped /\ r.todo = proc[p].todo
        BY <1>2 DEF IsProcess, Field
    <2>2. proc' = [proc EXCEPT ![p] = r] /\ UNCHANGED <<config, segs, merge, stored, wounded>>
        BY <1>6 DEF OpenReturns, Goto, Becomes, disk, history
    <2>. HIDE DEF r
    <2>3. Opened(r) = Opened(proc[p]) /\ r.pc \in Served
        BY <2>1 DEF Opened, Served
    <2>. QED
        BY <1>1, <2>1, <2>2, <2>3, ContentStays
<1>. QED
    BY <1>3, <1>4, <1>5, <1>6

\* A step of the creation of a file, which holds nothing: the process counts what it
\* has counted before.
LEMMA CreationStepContent ==
    ASSUME StoreInv, MergeInv, ContentInv, StoreInv', NEW p \in Proc, Claimed(p),
           proc[p].pc \in Served, NEW r, IsProcess(r), proc' = [proc EXCEPT ![p] = r],
           UNCHANGED <<config, merge, stored, wounded>>, SameKeys(segs, segs'), Hollow(segs'),
           r.pc \in Served, r.mode = proc[p].mode, proc[p].cat \subseteq r.cat,
           r.count = proc[p].count, \A k \in r.mapped : \E n \in r.cat : n[1] = k,
           Holding(segs', Opened(r)) = Holding(segs', Opened(proc[p]))
    PROVE  ContentInv'
<1>1. ProcContent(proc[p], segs, config, wounded) /\ (~wounded => Contents(segs, config, stored))
    BY ServedHolds DEF ContentInv
<1>2. proc'[p] = r
    BY OneMoves DEF StoreInv
<1>3. Claimed(p)'
    BY <1>2 DEF Claimed, Served
<1>4. ClaimantInv(p)'
    BY <1>3 DEF StoreInv
<1>5. r.cat \subseteq DOMAIN segs'
    BY <1>2, <1>4 DEF ClaimantInv, CataloguePart
<1>6. proc[p].cat \subseteq DOMAIN segs
    BY OfClaimant DEF CataloguePart
<1>7. ~wounded => Counts(r, segs')
    BY <1>1, <1>5, <1>6, CountsSame DEF ProcContent
<1>8. ProcContent(r, segs', config', wounded')
    BY <1>1, <1>7 DEF ProcContent, Settled
<1>9. ~wounded' => Contents(segs', config', stored')
    BY <1>1, ContentsSame
<1>. QED
    BY <1>8, <1>9, ServedMoves

\* The same keys in all files but one, which has none before or after.
LEMMA SameButHollow ==
    ASSUME NEW sg, NEW sg2, NEW n,
           DOMAIN sg \ {n} = DOMAIN sg2 \ {n},
           \A m \in DOMAIN sg : m # n => sg2[m].keys = sg[m].keys,
           n \in DOMAIN sg => sg[n].keys = {}, n \in DOMAIN sg2 => sg2[n].keys = {}
    PROVE  SameKeys(sg, sg2)
<1>1. ASSUME NEW m PROVE m \in Holding(sg, DOMAIN sg) <=> m \in Holding(sg2, DOMAIN sg2)
    BY DEF Holding
<1>2. ASSUME NEW m \in Holding(sg, DOMAIN sg) PROVE sg[m].keys = sg2[m].keys
    BY DEF Holding
<1>3. Holding(sg, DOMAIN sg) = Holding(sg2, DOMAIN sg2)
    BY <1>1
<1>. QED
    BY <1>2, <1>3 DEF SameKeys

\* The file being created holds nothing.
LEMMA CreationHollow ==
    ASSUME StoreInv, ContentInv, NEW p \in Proc, Creating(p)
    PROVE  /\ Claimed(p) /\ proc[p].pc \in Served
           /\ proc[p].at \in DOMAIN segs /\ segs[proc[p].at].keys = {}
           /\ segs[proc[p].at] \in File
           /\ segs[proc[p].at].by \in Build
<1>1. Claimed(p) /\ proc[p].pc \in Served
    BY DEF Creating, Claimed, Served
<1>2. proc[p].at \in DOMAIN segs /\ ~segs[proc[p].at].map /\ segs[proc[p].at].by = BuildOf[p]
    BY <1>1, OfClaimant DEF CreationPart
<1>3. segs[proc[p].at].keys = {}
    BY <1>2 DEF ContentInv, Hollow
<1>. QED
    BY <1>1, <1>2, <1>3, OpeningAssumption DEF StoreInv, DiskShape

\* The file being created holds nothing before and after every step.
LEMMA CreationSame ==
    ASSUME StoreInv, ContentInv, NEW p \in Proc,
           \/ CreateFile(p) \/ SizeFile(p) \/ PlaceStamp(p) \/ ConstructMap(p)
           \/ ConstructorFails(p) \/ RollBack(p)
    PROVE  SameKeys(segs, segs') /\ Hollow(segs')
<1>1. Hollow(segs)
    BY DEF ContentInv
<1>2. PICK n : n = proc[p].at
    OBVIOUS
<1>3. ASSUME UNCHANGED segs PROVE SameKeys(segs, segs') /\ Hollow(segs')
    BY <1>1, <1>3 DEF SameKeys
<1>4. CASE CreateFile(p)
    <2>1. CASE n \notin DOMAIN segs /\ ~UNCHANGED segs
        <3>. DEFINE f == [sized |-> FALSE, stamp |-> NoStamp, map |-> FALSE, keys |-> {},
                          by |-> BuildOf[p]]
        <3>1. segs' = [m \in DOMAIN segs \cup {n} |-> IF m = n THEN f ELSE segs[m]]
            BY <1>2, <1>4, <2>1 DEF CreateFile
        <3>2. f.keys = {}
            OBVIOUS
        <3>. HIDE DEF f
        <3>3. /\ DOMAIN segs' = DOMAIN segs \cup {n} /\ segs'[n] = f
              /\ \A m \in DOMAIN segs : segs'[m] = segs[m]
            BY <2>1, <3>1
        <3>4. SameKeys(segs, segs')
            BY <2>1, <3>2, <3>3, SameButHollow
        <3>5. Hollow(segs')
            BY <1>1, <3>2, <3>3 DEF Hollow
        <3>. QED
            BY <3>4, <3>5
    <2>. QED
        BY <1>2, <1>3, <1>4, <2>1 DEF CreateFile
<1>5. ASSUME Creating(p), NEW f, f.keys = segs[n].keys, segs' = [segs EXCEPT ![n] = f]
      PROVE  SameKeys(segs, segs') /\ Hollow(segs')
    <2>1. n \in DOMAIN segs /\ segs[n].keys = {}
        BY <1>2, <1>5, CreationHollow
    <2>2. segs = [m \in DOMAIN segs |-> segs[m]]
        BY DEF StoreInv, DiskShape
    <2>3. /\ DOMAIN segs' = DOMAIN segs /\ segs'[n] = f
          /\ \A m \in DOMAIN segs : m # n => segs'[m] = segs[m]
        BY <1>5, <2>1, <2>2
    <2>4. SameKeys(segs, segs')
        <3>1. segs'[n].keys = {} /\ \A m \in DOMAIN segs : m # n => segs'[m].keys = segs[m].keys
            BY <1>5, <2>1, <2>3
        <3>. QED
            BY <2>1, <2>3, <3>1, SameButHollow
    <2>5. Hollow(segs')
        BY <1>1, <1>5, <2>1, <2>3 DEF Hollow
    <2>. QED
        BY <2>4, <2>5
<1>6. CASE SizeFile(p)
    <2>. DEFINE f == [segs[n] EXCEPT !.sized = TRUE]
    <2>1. Creating(p) /\ segs' = [segs EXCEPT ![n] = f]
        BY <1>2, <1>6 DEF SizeFile, Creating
    <2>2. f.keys = segs[n].keys
        BY <1>2, <2>1, CreationHollow DEF File
    <2>. HIDE DEF f
    <2>. QED
        BY <1>5, <2>1, <2>2
<1>7. CASE PlaceStamp(p)
    <2>. DEFINE f == [segs[n] EXCEPT !.stamp = Expected(p, n)]
    <2>1. Creating(p) /\ segs' = [segs EXCEPT ![n] = f]
        BY <1>2, <1>7 DEF PlaceStamp, Creating
    <2>2. f.keys = segs[n].keys
        BY <1>2, <2>1, CreationHollow DEF File
    <2>. HIDE DEF f
    <2>. QED
        BY <1>5, <2>1, <2>2
<1>8. CASE ConstructMap(p)
    <2>. DEFINE f == [segs[n] EXCEPT !.map = TRUE]
    <2>1. Creating(p) /\ segs' = [segs EXCEPT ![n] = f]
        BY <1>2, <1>8 DEF ConstructMap, Creating
    <2>2. f.keys = segs[n].keys
        BY <1>2, <2>1, CreationHollow DEF File
    <2>. HIDE DEF f
    <2>. QED
        BY <1>5, <2>1, <2>2
<1>9. CASE RollBack(p)
    <2>1. CASE segs' = Restrict(segs, DOMAIN segs \ {n})
        <3>1. /\ DOMAIN segs' = DOMAIN segs \ {n}
              /\ \A m \in DOMAIN segs' : segs'[m] = segs[m]
            BY <2>1 DEF Restrict
        <3>2. segs[n].keys = {}
            BY <1>2, <1>9, CreationHollow DEF RollBack, Creating
        <3>3. SameKeys(segs, segs')
            <4>1. ASSUME NEW m
                  PROVE  m \in Holding(segs, DOMAIN segs) <=> m \in Holding(segs', DOMAIN segs')
                BY <3>1, <3>2 DEF Holding
            <4>2. \A m \in Holding(segs, DOMAIN segs) : segs[m].keys = segs'[m].keys
                BY <3>1, <3>2 DEF Holding
            <4>3. Holding(segs, DOMAIN segs) = Holding(segs', DOMAIN segs')
                BY <4>1
            <4>. QED
                BY <4>2, <4>3 DEF SameKeys
        <3>4. Hollow(segs')
            BY <1>1, <3>1 DEF Hollow
        <3>. QED
            BY <3>3, <3>4
    <2>. QED
        BY <1>2, <1>3, <1>9, <2>1 DEF RollBack
<1>10. CASE ConstructorFails(p)
    BY <1>3, <1>10 DEF ConstructorFails, disk
<1>. QED
    BY <1>4, <1>6, <1>7, <1>8, <1>9, <1>10

\* A step of a creation: it fails, goes on, or publishes the version in memory.
LEMMA CreationSteps ==
    ASSUME StoreInv, NEW p \in Proc,
           \/ CreateFile(p) \/ SizeFile(p) \/ PlaceStamp(p) \/ ConstructMap(p)
           \/ ConstructorFails(p) \/ RollBack(p)
    PROVE  \/ ~proc[p].rotating /\ proc' = [proc EXCEPT ![p] = Gone]
           \/ \E r : /\ IsProcess(r) /\ proc' = [proc EXCEPT ![p] = r]
                     /\ \/ r.pc \in {"size", "stamp", "map"} /\ r.at = proc[p].at
                        \/ r.pc = "latched" /\ proc[p].rotating
                     /\ r.mode = proc[p].mode /\ r.mapped = proc[p].mapped
                     /\ r.cat = proc[p].cat /\ r.todo = proc[p].todo
                     /\ r.count = proc[p].count /\ r.held = proc[p].held
                     /\ r.rotating = proc[p].rotating
           \/ ConstructMap(p)
<1>. DEFINE Goal ==
           \/ ~proc[p].rotating /\ proc' = [proc EXCEPT ![p] = Gone]
           \/ \E r : /\ IsProcess(r) /\ proc' = [proc EXCEPT ![p] = r]
                     /\ \/ r.pc \in {"size", "stamp", "map"} /\ r.at = proc[p].at
                        \/ r.pc = "latched" /\ proc[p].rotating
                     /\ r.mode = proc[p].mode /\ r.mapped = proc[p].mapped
                     /\ r.cat = proc[p].cat /\ r.todo = proc[p].todo
                     /\ r.count = proc[p].count /\ r.held = proc[p].held
                     /\ r.rotating = proc[p].rotating
           \/ ConstructMap(p)
<1>1. Claimed(p) /\ proc[p].pc \in {"create", "size", "stamp", "map"}
    BY DEF CreateFile, SizeFile, PlaceStamp, ConstructMap, ConstructorFails, RollBack, Claimed
<1>2. IsProcess(proc[p])
    BY <1>1, OfClaimant
<1>3. ASSUME NEW error, CreationFails(p, error) PROVE Goal
    <2>1. CASE ~proc[p].rotating /\ proc' = [proc EXCEPT ![p] = Gone]
        BY <2>1
    <2>2. CASE \E r : /\ proc[p].rotating /\ IsProcess(r) /\ proc' = [proc EXCEPT ![p] = r]
                      /\ r.pc = "latched" /\ r.id = proc[p].id
                      /\ r.fd = proc[p].fd /\ r.mode = proc[p].mode /\ r.how = proc[p].how
                      /\ r.mapped = proc[p].mapped /\ r.cat = proc[p].cat
                      /\ r.todo = proc[p].todo /\ r.rotating = proc[p].rotating
                      /\ r.count = proc[p].count /\ r.held = proc[p].held
        BY <2>2
    <2>. HIDE DEF Goal
    <2>. QED
        BY <1>1, <1>3, <2>1, <2>2, LatchesOrEnds
<1>4. ASSUME NEW pc \in {"size", "stamp", "map"}, Goto(p, pc) PROVE Goal
    <2>. DEFINE r == [proc[p] EXCEPT !.pc = pc]
    <2>1. /\ IsProcess(r) /\ r.pc = pc /\ r.mode = proc[p].mode /\ r.at = proc[p].at
          /\ r.cat = proc[p].cat /\ r.count = proc[p].count /\ r.held = proc[p].held
          /\ r.mapped = proc[p].mapped /\ r.todo = proc[p].todo /\ r.rotating = proc[p].rotating
        BY <1>2 DEF IsProcess, Field
    <2>2. proc' = [proc EXCEPT ![p] = r]
        BY <1>4 DEF Goto, Becomes
    <2>. HIDE DEF r
    <2>. QED
        BY <1>4, <2>1, <2>2
<1>5. ConstructMap(p) => Goal
    OBVIOUS
<1>6. Goal
    <2>. HIDE DEF Goal
    <2>. QED
        BY <1>3, <1>4, <1>5 DEF CreateFile, SizeFile, PlaceStamp, ConstructorFails, RollBack
<1>. QED
    BY <1>6

\* The version is published in memory, with nothing in it.
LEMMA MapConstructed ==
    ASSUME StoreInv, ContentInv, NEW p \in Proc, ConstructMap(p)
    PROVE  \E r : /\ IsProcess(r) /\ proc' = [proc EXCEPT ![p] = r]
                  /\ r.pc = (IF proc[p].rotating THEN "open" ELSE "serve")
                  /\ r.mode = proc[p].mode /\ r.mapped = proc[p].mapped \cup {proc[p].at[1]}
                  /\ r.cat = proc[p].cat \cup {proc[p].at}
                  /\ r.todo = proc[p].todo \ {proc[p].at[1]} /\ r.count = proc[p].count
                  /\ r.held = [proc[p].held EXCEPT ![proc[p].at] =
                                    IF proc[p].rotating THEN Blank ELSE ReadMetadata(proc[p].at)]
                  /\ Opened(r) = Opened(proc[p]) \cup {proc[p].at}
<1>1. PICK n : n = proc[p].at
    OBVIOUS
<1>2. Claimed(p) /\ proc[p].pc = "map"
    BY DEF ConstructMap, Claimed
<1>3. IsProcess(proc[p]) /\ CreationPart(p)
    BY <1>2, OfClaimant
<1>. DEFINE pc == IF proc[p].rotating THEN "open" ELSE "serve"
            rec == IF proc[p].rotating THEN Blank ELSE ReadMetadata(n)
            r == [proc[p] EXCEPT !.pc = pc, !.at = <<>>, !.rotating = FALSE,
                                 !.cat = @ \cup {n}, !.mapped = @ \cup {n[1]},
                                 !.todo = @ \ {n[1]}, !.held[n] = rec]
<1>4. proc' = [proc EXCEPT ![p] = r]
    BY <1>1 DEF ConstructMap, Becomes
<1>5. /\ IsProcess(r) /\ r.pc = pc /\ r.mode = proc[p].mode
      /\ r.mapped = proc[p].mapped \cup {n[1]} /\ r.cat = proc[p].cat \cup {n}
      /\ r.todo = proc[p].todo \ {n[1]} /\ r.count = proc[p].count
      /\ r.held = [proc[p].held EXCEPT ![n] = rec]
    <2>. HIDE DEF pc, rec
    <2>. QED
        BY <1>3 DEF IsProcess, Field
<1>. HIDE DEF r
<1>6. \A m \in proc[p].cat : m[1] = n[1] => m[1] \notin proc[p].todo
    BY <1>1, <1>2, <1>3 DEF CreationPart
<1>7. Opened(r) = Opened(proc[p]) \cup {n}
    BY <1>5, <1>6 DEF Opened
<1>. HIDE DEF pc, rec
<1>8. /\ r.pc = pc /\ r.held = [proc[p].held EXCEPT ![n] = rec]
      /\ pc = (IF proc[p].rotating THEN "open" ELSE "serve")
      /\ rec = (IF proc[p].rotating THEN Blank ELSE ReadMetadata(n))
    BY <1>5 DEF pc, rec
<1>. QED
    BY <1>1, <1>4, <1>5, <1>7, <1>8

\* The file being created is withdrawn or goes on being created.
LEMMA CreationContent ==
    ASSUME StoreInv, MergeInv, ContentInv, StoreInv', NEW p \in Proc,
           \/ CreateFile(p) \/ SizeFile(p) \/ PlaceStamp(p) \/ ConstructMap(p)
           \/ ConstructorFails(p) \/ RollBack(p)
    PROVE  ContentInv'
<1>1. /\ Claimed(p) /\ proc[p].pc \in Served
      /\ UNCHANGED <<config, merge, stored, wounded>>
    BY DEF CreateFile, SizeFile, PlaceStamp, ConstructMap, ConstructorFails, RollBack, Claimed,
           Served, disk, history
<1>2. SameKeys(segs, segs') /\ Hollow(segs')
    BY CreationSame
<1>3. \A k \in proc[p].mapped : \E m \in proc[p].cat : m[1] = k
    BY DEF ContentInv, ProcContent
<1>4. CASE proc' = [proc EXCEPT ![p] = Gone]
    <2>1. ~wounded => Contents(segs', config', stored')
        BY <1>1, <1>2, ServedHolds, ContentsSame
    <2>. QED
        BY <1>1, <1>2, <1>4, <2>1, GoneContent, GoneIsProcess, ServedMoves
<1>5. ASSUME NEW r, IsProcess(r), proc' = [proc EXCEPT ![p] = r], r.pc \in Served,
             r.mode = proc[p].mode, r.cat = proc[p].cat, r.todo = proc[p].todo,
             r.count = proc[p].count, r.mapped = proc[p].mapped
      PROVE  ContentInv'
    <2>1. Opened(r) = Opened(proc[p])
        BY <1>5 DEF Opened
    <2>. QED
        BY <1>1, <1>2, <1>3, <1>5, <2>1, CreationStepContent
<1>6. CASE ConstructMap(p)
    <2>1. PICK n : n = proc[p].at
        OBVIOUS
    <2>2. PICK r : /\ IsProcess(r) /\ proc' = [proc EXCEPT ![p] = r]
                   /\ r.pc \in {"open", "serve"} /\ r.mode = proc[p].mode
                   /\ r.mapped = proc[p].mapped \cup {n[1]} /\ r.cat = proc[p].cat \cup {n}
                   /\ r.count = proc[p].count /\ Opened(r) = Opened(proc[p]) \cup {n}
        BY <1>6, <2>1, MapConstructed
    <2>3. segs'[n].keys = {}
        <3>1. Creating(p) /\ segs' = [segs EXCEPT ![n].map = TRUE]
            BY <1>6, <2>1 DEF ConstructMap, Creating
        <3>2. n \in DOMAIN segs /\ segs[n].keys = {} /\ segs[n] \in File
            BY <2>1, <3>1, CreationHollow
        <3>3. segs'[n] = [segs[n] EXCEPT !.map = TRUE]
            BY <3>1, <3>2 DEF StoreInv, DiskShape
        <3>. QED
            BY <3>2, <3>3 DEF File
    <2>4. Holding(segs', Opened(r)) = Holding(segs', Opened(proc[p]))
        BY <2>2, <2>3 DEF Holding
    <2>5. \A k \in r.mapped : \E m \in r.cat : m[1] = k
        BY <1>3, <2>2
    <2>6. r.pc \in Served /\ proc[p].cat \subseteq r.cat
        BY <2>2 DEF Served
    <2>. QED
        BY <1>1, <1>2, <2>2, <2>4, <2>5, <2>6, CreationStepContent
<1>7. {"size", "stamp", "map", "latched"} \subseteq Served
    BY DEF Served
<1>. QED
    BY <1>4, <1>5, <1>6, <1>7, CreationSteps

\* The active version of a class that has versions is one of them.
LEMMA ActiveThere ==
    ASSUME NEW cat \in SUBSET Name, NEW k, \E n \in cat : n[1] = k
    PROVE  <<k, ActiveOf(cat, k)>> \in cat
<1>. DEFINE S == VersionsOf(cat, k) \cup {0}
<1>1. MaxVersion \in Nat
    BY OpeningAssumption
<1>2. S \subseteq 0 .. MaxVersion /\ S # {}
    BY <1>1 DEF VersionsOf, Name, Version
<1>3. Max(S) \in S /\ \A x \in S : x <= Max(S)
    BY <1>1, <1>2, MaxOf
<1>4. PICK v : v \in VersionsOf(cat, k)
    BY DEF VersionsOf
<1>5. Max(S) \in VersionsOf(cat, k)
    <2>1. v \in Nat /\ v <= Max(S)
        BY <1>2, <1>3, <1>4
    <2>. QED
        BY <1>3, <1>4, <2>1
<1>6. PICK n \in cat : n[1] = k /\ n[2] = Max(S)
    BY <1>5 DEF VersionsOf
<1>7. n = <<n[1], n[2]>>
    BY <1>6 DEF Name
<1>. QED
    BY <1>6, <1>7 DEF ActiveOf

\* The keys of one file change, nothing else about it.
LEMMA KeysSet ==
    ASSUME DiskShape, NEW n \in DOMAIN segs, NEW K, segs' = [segs EXCEPT ![n].keys = K]
    PROVE  /\ DOMAIN segs' = DOMAIN segs
           /\ segs'[n].keys = K /\ segs'[n].map = segs[n].map /\ segs'[n].by = segs[n].by
           /\ \A m \in DOMAIN segs : m # n => segs'[m] = segs[m]
<1>1. segs[n] \in File
    BY DEF DiskShape
<1>. DEFINE f == [segs[n] EXCEPT !.keys = K]
<1>2. f.keys = K /\ f.map = segs[n].map /\ f.by = segs[n].by
    BY <1>1 DEF File
<1>3. segs' = [segs EXCEPT ![n] = f]
    OBVIOUS
<1>. HIDE DEF f
<1>4. /\ DOMAIN segs' = DOMAIN segs /\ segs'[n] = f
      /\ \A m \in DOMAIN segs : m # n => segs'[m] = segs[m]
    BY <1>3 DEF DiskShape
<1>. QED
    BY <1>2, <1>4

\* What a process that serves the store knows.
LEMMA ServingKnows ==
    ASSUME StoreInv, ContentInv, NEW p \in Proc, Serving(p)
    PROVE  /\ Claimed(p) /\ proc[p].pc \in Served /\ IsProcess(proc[p])
           /\ proc[p].cat \subseteq DOMAIN segs /\ proc[p].cat \subseteq Name
           /\ proc[p].todo = {} /\ Opened(proc[p]) = proc[p].cat
           /\ config.format = 2 /\ config.mode = proc[p].mode
           /\ \A n \in proc[p].cat : segs[n].map /\ segs[n].by # NoBuild
           /\ proc[p].mapped \subseteq Kinds(config.mode)
           /\ \A k \in proc[p].mapped : <<k, ActiveOf(proc[p].cat, k)>> \in proc[p].cat
<1>1. Claimed(p) /\ proc[p].pc = "open" /\ proc[p].pc \in Served /\ proc[p].pc \in Settled
    BY DEF Serving, Claimed, Served, Settled
<1>2. ConfigPart(p) /\ CataloguePart(p) /\ IsProcess(proc[p])
    BY <1>1, OfClaimant
<1>3. ProcContent(proc[p], segs, config, wounded)
    BY DEF ContentInv
<1>4. /\ config.format = 2 /\ config.mode = proc[p].mode
    BY <1>1, <1>2, <1>3 DEF ConfigPart, ProcContent
<1>5. /\ proc[p].cat \subseteq DOMAIN segs /\ proc[p].todo = {}
      /\ proc[p].mapped \subseteq Kinds(proc[p].mode)
      /\ \A n \in proc[p].cat : Own(p, n)
    BY <1>1, <1>2 DEF CataloguePart
<1>6. proc[p].cat \subseteq Name
    BY <1>5 DEF StoreInv, DiskShape
<1>7. \A k \in proc[p].mapped : <<k, ActiveOf(proc[p].cat, k)>> \in proc[p].cat
    BY <1>3, <1>6, ActiveThere DEF ProcContent
<1>8. BuildOf[p] # NoBuild
    BY OpeningAssumption, NoBuildApart
<1>9. \A n \in proc[p].cat : segs[n].map /\ segs[n].by # NoBuild
    BY <1>5, <1>8 DEF Own
<1>10. Opened(proc[p]) = proc[p].cat
    BY <1>5 DEF Opened
<1>. QED
    BY <1>1, <1>2, <1>4, <1>5, <1>6, <1>7, <1>9, <1>10

\* An insertion adds one entry, to one file.
LEMMA InsertContent ==
    ASSUME StoreInv, MergeInv, ContentInv, NEW p \in Proc, NEW k, NEW key \in Key, Insert(p, k, key)
    PROVE  ContentInv'
<1>1. Serving(p) /\ k \in proc[p].mapped /\ UNCHANGED <<config, merge, wounded>>
    BY DEF Insert
<1>2. /\ Claimed(p) /\ proc[p].pc \in Served /\ IsProcess(proc[p])
      /\ proc[p].cat \subseteq DOMAIN segs /\ Opened(proc[p]) = proc[p].cat
      /\ config.format = 2 /\ proc[p].todo = {}
      /\ \A n \in proc[p].cat : segs[n].map /\ segs[n].by # NoBuild
      /\ k \in Kinds(config.mode) /\ <<k, ActiveOf(proc[p].cat, k)>> \in proc[p].cat
    BY <1>1, ServingKnows
<1>3. PICK n : n = <<k, ActiveOf(proc[p].cat, k)>>
    OBVIOUS
<1>. DEFINE r == [proc[p] EXCEPT !.held[n] = Grown(@, key), !.count = @ + 1]
            K == segs[n].keys \cup {key}
            cat == proc[p].cat
            E == EntriesIn(segs, cat)
            x == <<k, key>>
<1>4. /\ IsProcess(r) /\ r.pc = proc[p].pc /\ r.mode = proc[p].mode /\ r.mapped = proc[p].mapped
      /\ r.cat = proc[p].cat /\ r.todo = proc[p].todo /\ r.count = proc[p].count + 1
    BY <1>2 DEF IsProcess, Field
<1>5. proc' = [proc EXCEPT ![p] = r]
    BY <1>3 DEF Insert, Becomes
<1>. HIDE DEF r
<1>6. segs' = [segs EXCEPT ![n].keys = K] /\ stored' = stored \cup {x} /\ x \notin E
    BY <1>3 DEF Insert, Entries, EntriesIn, KeysOn
<1>7. n \in cat /\ n \in DOMAIN segs /\ n[1] = k /\ DiskShape
    BY <1>2, <1>3 DEF StoreInv
<1>8. /\ DOMAIN segs' = DOMAIN segs
      /\ segs'[n].keys = K /\ segs'[n].map = segs[n].map /\ segs'[n].by = segs[n].by
      /\ \A m \in DOMAIN segs : m # n => segs'[m] = segs[m]
    <2>. HIDE DEF K
    <2>. QED
        BY <1>6, <1>7, KeysSet
<1>9. Hollow(segs')
    BY <1>2, <1>7, <1>8 DEF ContentInv, Hollow
<1>10. ProcContent(proc[p], segs, config, wounded)
    BY DEF ContentInv
<1>11. \A S \in SUBSET (DOMAIN segs) : n \in S => EntriesIn(segs', S) = EntriesIn(segs, S) \cup {x}
    <2>. SUFFICES ASSUME NEW S \in SUBSET (DOMAIN segs), n \in S
                  PROVE  EntriesIn(segs', S) = EntriesIn(segs, S) \cup {x}
        OBVIOUS
    <2>1. ASSUME NEW y \in EntriesIn(segs', S) PROVE y \in EntriesIn(segs, S) \cup {x}
        <3>1. PICK m \in S : y \in {<<m[1], j>> : j \in segs'[m].keys}
            BY DEF EntriesIn
        <3>2. PICK j \in segs'[m].keys : y = <<m[1], j>>
            BY <3>1
        <3>3. j \in segs[m].keys \/ (m = n /\ j = key)
            BY <1>8, <3>2
        <3>. QED
            BY <1>7, <3>2, <3>3 DEF EntriesIn
    <2>2. ASSUME NEW y \in EntriesIn(segs, S) \cup {x} PROVE y \in EntriesIn(segs', S)
        <3>1. CASE y = x
            BY <1>7, <1>8, <2>2, <3>1 DEF EntriesIn
        <3>2. CASE y \in EntriesIn(segs, S)
            <4>1. PICK m \in S : y \in {<<m[1], j>> : j \in segs[m].keys}
                BY <3>2 DEF EntriesIn
            <4>2. segs[m].keys \subseteq segs'[m].keys
                BY <1>8, <4>1
            <4>. QED
                BY <4>1, <4>2 DEF EntriesIn
        <3>. QED
            BY <2>2, <3>1, <3>2
    <2>. QED
        BY <2>1, <2>2
<1>12. ASSUME ~wounded PROVE Contents(segs', config, stored') /\ Counts(r, segs')
    <2>1. Contents(segs, config, stored) /\ Counts(proc[p], segs)
        BY <1>2, <1>10, <1>12, ServedHolds DEF ProcContent
    <2>2. \A m \in DOMAIN segs : m[1] = k => key \notin segs[m].keys
        <3>1. \A m \in cat : m[1] = k => key \notin segs[m].keys
            BY <1>6 DEF EntriesIn
        <3>2. \A m \in DOMAIN segs : m \notin cat => segs[m].keys = {}
            BY <1>2, <2>1 DEF Counts
        <3>. QED
            BY <3>1, <3>2
    <2>3. \A a, b \in DOMAIN segs' : a # b /\ a[1] = b[1] => segs'[a].keys \cap segs'[b].keys = {}
        <3>. SUFFICES ASSUME NEW a \in DOMAIN segs, NEW b \in DOMAIN segs, a # b, a[1] = b[1],
                             NEW y \in segs'[a].keys, y \in segs'[b].keys
                      PROVE  FALSE
            BY <1>8
        <3>1. segs[a].keys \cap segs[b].keys = {}
            BY <2>1 DEF Contents
        <3>. QED
            BY <1>7, <1>8, <2>2, <3>1
    <2>4. EntriesIn(segs', DOMAIN segs') = stored'
        BY <1>6, <1>7, <1>8, <1>11, <2>1 DEF Contents
    <2>5. Contents(segs', config, stored')
        BY <1>2, <1>7, <1>8, <2>1, <2>3, <2>4 DEF Contents
    <2>6. Opened(r) = cat
        BY <1>2, <1>4 DEF Opened
    <2>7. EntriesIn(segs', cat) = E \cup {x}
        BY <1>2, <1>7, <1>11
    <2>8. Cardinality(E \cup {x}) = Cardinality(E) + 1
        <3>1. IsFiniteSet(E)
            BY <1>2, <1>7, FiniteStore
        <3>. HIDE DEF E, x
        <3>. QED
            BY <1>6, <3>1, FS_AddElement
    <2>9. r.count = Cardinality(EntriesIn(segs', Opened(r)))
        BY <1>2, <1>4, <2>1, <2>6, <2>7, <2>8 DEF Counts
    <2>10. \A m \in DOMAIN segs' : segs'[m].keys # {} => m \in r.cat
        BY <1>2, <1>4, <1>7, <1>8, <2>1 DEF Counts
    <2>. QED
        BY <2>5, <2>9, <2>10 DEF Counts
<1>13. ProcContent(r, segs', config', wounded')
    BY <1>1, <1>2, <1>4, <1>10, <1>12 DEF ProcContent
<1>14. ~wounded => Contents(segs', config', stored')
    BY <1>1, <1>12
<1>. QED
    BY <1>1, <1>2, <1>4, <1>5, <1>9, <1>13, <1>14, ServedMoves

\* A deletion takes one entry away, from the one file that has it.
LEMMA EraseContent ==
    ASSUME StoreInv, MergeInv, ContentInv, NEW p \in Proc, NEW n, NEW key \in Key, Erase(p, n, key)
    PROVE  ContentInv'
<1>1. /\ Serving(p) /\ n \in proc[p].cat /\ key \in segs[n].keys
      /\ UNCHANGED <<config, merge, wounded>>
    BY DEF Erase, KeysOn
<1>2. /\ Claimed(p) /\ proc[p].pc \in Served /\ IsProcess(proc[p])
      /\ proc[p].cat \subseteq DOMAIN segs /\ Opened(proc[p]) = proc[p].cat
      /\ proc[p].todo = {}
      /\ \A m \in proc[p].cat : segs[m].map /\ segs[m].by # NoBuild
    BY <1>1, ServingKnows
<1>. DEFINE r == [proc[p] EXCEPT !.held[n] = Shrunk(@), !.count = @ - 1]
            K == segs[n].keys \ {key}
            cat == proc[p].cat
            E == EntriesIn(segs, cat)
            x == <<n[1], key>>
<1>3. /\ IsProcess(r) /\ r.pc = proc[p].pc /\ r.mode = proc[p].mode /\ r.mapped = proc[p].mapped
      /\ r.cat = proc[p].cat /\ r.todo = proc[p].todo /\ r.count = proc[p].count - 1
    BY <1>2 DEF IsProcess, Field
<1>4. proc' = [proc EXCEPT ![p] = r]
    BY DEF Erase, Becomes
<1>. HIDE DEF r
<1>5. segs' = [segs EXCEPT ![n].keys = K] /\ stored' = stored \ {x}
    BY DEF Erase
<1>6. n \in cat /\ n \in DOMAIN segs /\ DiskShape /\ x \in E
    BY <1>1, <1>2 DEF StoreInv, EntriesIn
<1>7. /\ DOMAIN segs' = DOMAIN segs
      /\ segs'[n].keys = K /\ segs'[n].map = segs[n].map /\ segs'[n].by = segs[n].by
      /\ \A m \in DOMAIN segs : m # n => segs'[m] = segs[m]
    <2>. HIDE DEF K
    <2>. QED
        BY <1>5, <1>6, KeysSet
<1>8. Hollow(segs')
    BY <1>2, <1>6, <1>7 DEF ContentInv, Hollow
<1>9. ProcContent(proc[p], segs, config, wounded)
    BY DEF ContentInv
<1>10. ASSUME ~wounded PROVE Contents(segs', config, stored') /\ Counts(r, segs')
    <2>1. Contents(segs, config, stored) /\ Counts(proc[p], segs)
        BY <1>2, <1>9, <1>10, ServedHolds DEF ProcContent
    <2>2. \A m \in DOMAIN segs : m # n /\ m[1] = n[1] => key \notin segs[m].keys
        <3>. SUFFICES ASSUME NEW m \in DOMAIN segs, m # n, m[1] = n[1] PROVE key \notin segs[m].keys
            OBVIOUS
        <3>1. segs[m].keys \cap segs[n].keys = {}
            BY <1>6, <2>1 DEF Contents
        <3>. QED
            BY <1>1, <3>1
    <2>3. \A a, b \in DOMAIN segs' : a # b /\ a[1] = b[1] => segs'[a].keys \cap segs'[b].keys = {}
        <3>. SUFFICES ASSUME NEW a \in DOMAIN segs, NEW b \in DOMAIN segs, a # b, a[1] = b[1],
                             NEW y \in segs'[a].keys, y \in segs'[b].keys
                      PROVE  FALSE
            BY <1>7
        <3>1. segs[a].keys \cap segs[b].keys = {}
            BY <2>1 DEF Contents
        <3>. QED
            BY <1>7, <3>1
    <2>4. \A S \in SUBSET (DOMAIN segs) : EntriesIn(segs', S) = EntriesIn(segs, S) \ {x}
        <3>. SUFFICES ASSUME NEW S \in SUBSET (DOMAIN segs)
                      PROVE  EntriesIn(segs', S) = EntriesIn(segs, S) \ {x}
            OBVIOUS
        <3>1. ASSUME NEW y \in EntriesIn(segs', S) PROVE y \in EntriesIn(segs, S) \ {x}
            <4>1. PICK m \in S : y \in {<<m[1], j>> : j \in segs'[m].keys}
                BY DEF EntriesIn
            <4>2. PICK j \in segs'[m].keys : y = <<m[1], j>>
                BY <4>1
            <4>3. j \in segs[m].keys /\ ~(m[1] = n[1] /\ j = key)
                BY <1>7, <2>2, <4>2
            <4>. QED
                BY <4>2, <4>3 DEF EntriesIn
        <3>2. ASSUME NEW y \in EntriesIn(segs, S), y # x PROVE y \in EntriesIn(segs', S)
            <4>1. PICK m \in S : y \in {<<m[1], j>> : j \in segs[m].keys}
                BY DEF EntriesIn
            <4>2. PICK j \in segs[m].keys : y = <<m[1], j>>
                BY <4>1
            <4>3. j \in segs'[m].keys
                BY <1>7, <3>2, <4>2
            <4>. QED
                BY <4>2, <4>3 DEF EntriesIn
        <3>. QED
            BY <3>1, <3>2
    <2>5. EntriesIn(segs', DOMAIN segs') = stored'
        BY <1>5, <1>7, <2>1, <2>4 DEF Contents
    <2>6. Contents(segs', config, stored')
        BY <1>7, <2>1, <2>3, <2>5 DEF Contents
    <2>7. Opened(r) = cat
        BY <1>2, <1>3 DEF Opened
    <2>8. EntriesIn(segs', cat) = E \ {x}
        BY <1>2, <2>4
    <2>9. Cardinality(E \ {x}) = Cardinality(E) - 1
        <3>1. IsFiniteSet(E)
            BY <1>2, <1>6, FiniteStore
        <3>. HIDE DEF E, x
        <3>. QED
            BY <1>6, <3>1, FS_RemoveElement
    <2>10. r.count = Cardinality(EntriesIn(segs', Opened(r)))
        BY <1>2, <1>3, <2>1, <2>7, <2>8, <2>9 DEF Counts
    <2>11. \A m \in DOMAIN segs' : segs'[m].keys # {} => m \in r.cat
        BY <1>2, <1>3, <1>6, <1>7, <2>1 DEF Counts
    <2>. QED
        BY <2>6, <2>10, <2>11 DEF Counts
<1>11. ProcContent(r, segs', config', wounded')
    BY <1>1, <1>2, <1>3, <1>9, <1>10 DEF ProcContent
<1>12. ~wounded => Contents(segs', config', stored')
    BY <1>1, <1>10
<1>. QED
    BY <1>1, <1>2, <1>3, <1>4, <1>8, <1>11, <1>12, ServedMoves

\* A rotation, a close() and a crash leave the contents alone.
LEMMA SessionContent ==
    ASSUME StoreInv, MergeInv, ContentInv, NEW p \in Proc, Session(p) \/ Crash(p)
    PROVE  ContentInv'
<1>1. ASSUME NEW k, Rotate(p, k) PROVE ContentInv'
    <2>1. Serving(p) /\ UNCHANGED <<config, segs, merge, stored, wounded>>
        BY <1>1 DEF Rotate
    <2>2. proc[p].pc \in Served /\ IsProcess(proc[p])
        BY <2>1, ServingKnows
    <2>3. PICK next : next = <<k, ActiveOf(proc[p].cat, k) + 1>>
        OBVIOUS
    <2>. DEFINE r == [proc[p] EXCEPT !.pc = "create", !.at = next, !.rotating = TRUE,
                                     !.mapped = @ \ {k}]
    <2>4. /\ IsProcess(r) /\ r.pc = "create" /\ r.mode = proc[p].mode
          /\ r.cat = proc[p].cat /\ r.count = proc[p].count
          /\ r.mapped = proc[p].mapped \ {k} /\ r.todo = proc[p].todo
        BY <2>2 DEF IsProcess, Field
    <2>5. proc' = [proc EXCEPT ![p] = r]
        BY <1>1, <2>3 DEF Rotate, Becomes
    <2>. HIDE DEF r
    <2>6. Opened(r) = Opened(proc[p]) /\ r.pc \in Served
        BY <2>4 DEF Opened, Served
    <2>. QED
        BY <2>1, <2>2, <2>4, <2>5, <2>6, ContentStays
<1>2. ASSUME Close(p) \/ Crash(p) PROVE ContentInv'
    BY <1>2, ContentEnds DEF Close, Crash, Refuse, disk
<1>. QED
    BY <1>1, <1>2, InsertContent, EraseContent DEF Session

\* A file brought in by hand holds nothing that counts.
LEMMA StrayContent ==
    ASSUME StoreInv, ContentInv, NEW n \in Name, NEW s, Stray(n, s)
    PROVE  ContentInv'
<1>1. UNCHANGED <<config, merge, proc, stored, wounded>> /\ n \notin DOMAIN segs
    BY DEF Stray
<1>. DEFINE f == [sized |-> TRUE, stamp |-> s, map |-> TRUE, keys |-> {}, by |-> NoBuild]
<1>2. f.keys = {} /\ f.by = NoBuild
    OBVIOUS
<1>3. segs' = [m \in DOMAIN segs \cup {n} |-> IF m = n THEN f ELSE segs[m]]
    BY DEF Stray
<1>. HIDE DEF f
<1>4. /\ DOMAIN segs' = DOMAIN segs \cup {n} /\ segs'[n].keys = {} /\ segs'[n].by = NoBuild
      /\ \A m \in DOMAIN segs : segs'[m] = segs[m]
    BY <1>1, <1>2, <1>3
<1>5. SameKeys(segs, segs')
    BY <1>1, <1>4, SameButHollow
<1>6. Hollow(segs')
    BY <1>4 DEF ContentInv, Hollow
<1>7. ~wounded' => Contents(Held(segs', merge'), config', stored')
    <2>. DEFINE old == Held(segs, merge)
                new == Held(segs', merge)
                target == merge.target
                counts == merge.record /\ target \in DOMAIN segs /\ segs[target].by # NoBuild
    <2>1. counts <=> merge.record /\ target \in DOMAIN segs' /\ segs'[target].by # NoBuild
        BY <1>1, <1>4
    <2>2. SameKeys(old, new)
        <3>1. CASE counts
            <4>1. /\ old = [m \in DOMAIN segs \ merge.sources |-> segs[m]]
                  /\ new = [m \in DOMAIN segs' \ merge.sources |-> segs'[m]]
                BY <2>1, <3>1 DEF Held
            <4>. HIDE DEF old, new
            <4>2. /\ DOMAIN old \ {n} = DOMAIN new \ {n} /\ n \notin DOMAIN old
                  /\ \A m \in DOMAIN old : new[m] = old[m]
                  /\ n \in DOMAIN new => new[n].keys = {}
                BY <1>1, <1>4, <4>1
            <4>. QED
                BY <4>2, SameButHollow
        <3>2. CASE ~counts
            BY <1>5, <2>1, <3>2 DEF Held
        <3>. QED
            BY <3>1, <3>2
    <2>. HIDE DEF old, new
    <2>3. ~wounded => Contents(old, config, stored)
        BY DEF ContentInv, old
    <2>4. ~wounded => Contents(new, config, stored)
        BY <2>2, <2>3, ContentsSame
    <2>. QED
        BY <1>1, <2>4 DEF new
<1>8. ASSUME NEW p \in Proc PROVE ProcContent(proc[p], segs', config, wounded)
    <2>1. ProcContent(proc[p], segs, config, wounded)
        BY DEF ContentInv
    <2>2. CASE proc[p].pc \notin Settled
        BY <2>1, <2>2, UnsettledContent
    <2>3. CASE proc[p].pc \in Settled
        <3>1. Claimed(p) /\ proc[p].pc = "open" /\ proc[p].pc \in Served
            BY <2>3 DEF Stray, Settled, Served, Claimed
        <3>2. proc[p].cat \subseteq DOMAIN segs /\ proc[p].cat \subseteq DOMAIN segs'
            BY <1>4, <3>1, OfClaimant DEF CataloguePart
        <3>3. ~wounded => Counts(proc[p], segs')
            BY <1>5, <2>1, <3>1, <3>2, CountsSame DEF ProcContent
        <3>. QED
            BY <2>1, <3>3 DEF ProcContent
    <2>. QED
        BY <2>2, <2>3
<1>. QED
    BY <1>1, <1>6, <1>7, <1>8 DEF ContentInv

\* A store of version files that one build made, with the keys given.
LEMMA MadeHolds ==
    ASSUME NEW p \in Proc, NEW files, NEW of,
           segs = [n \in files |-> OwnFile(p, n, of[n])]
    PROVE  /\ DOMAIN segs = files /\ \A n \in files : segs[n].keys = of[n]
           /\ \A n \in files : segs[n].by # NoBuild /\ segs[n].map
           /\ Hollow(segs)
<1>1. BuildOf[p] # NoBuild
    BY OpeningAssumption, NoBuildApart
<1>. DEFINE made(n) == OwnFile(p, n, of[n])
<1>2. \A n \in files : made(n).by = BuildOf[p] /\ made(n).map = TRUE /\ made(n).keys = of[n]
    BY DEF OwnFile
<1>. HIDE DEF made
<1>3. DOMAIN segs = files /\ \A n \in files : segs[n] = made(n)
    BY DEF made
<1>. QED
    BY <1>1, <1>2, <1>3 DEF Hollow

\* A directory that is empty, holds a closed store of one entry, or a store whose merge
\* was cut short.
LEMMA ContentStarts ==
    ASSUME Init
    PROVE  ContentInv
<1>0. AnyProc \in Proc
    BY OpeningAssumption DEF AnyProc
<1>1. proc = [p \in Proc |-> Gone] /\ wounded = FALSE
    BY DEF Init
<1>2. \A p \in Proc : ProcContent(proc[p], segs, config, wounded)
    BY <1>1, GoneContent
<1>3. CASE segs = <<>> /\ stored = {}
    <2>1. DOMAIN segs = {} /\ Held(segs, merge) = segs
        BY <1>3 DEF Held
    <2>. QED
        BY <1>2, <1>3, <2>1 DEF ContentInv, Hollow, Contents, EntriesIn
<1>4. ASSUME NEW mode \in {"full", "reference"}, ClosedStore(AnyProc, mode, Min(Key))
      PROVE  ContentInv
    <2>. DEFINE least == Min(Kinds(mode))
                first == <<least, 0>>
                files == Kinds(mode) \X {0}
                of == [n \in files |-> IF n = first THEN {Min(Key)} ELSE {}]
    <2>1. least \in Kinds(mode) /\ first \in files
        BY KindsOfMode, MinOf
    <2>2. /\ config.format = 2 /\ config.mode = mode /\ ~merge.record
          /\ segs = [n \in files |-> OwnFile(AnyProc, n, of[n])]
          /\ stored = {<<least, Min(Key)>>}
        BY <1>4 DEF ClosedStore, LocalConfig, NoMerge
    <2>3. \A n \in files : n[1] \in Kinds(mode) /\ of[n] = IF n = first THEN {Min(Key)} ELSE {}
        OBVIOUS
    <2>. HIDE DEF of, files
    <2>4. DOMAIN segs = files /\ Hollow(segs) /\ \A n \in files : segs[n].keys = of[n]
        BY <1>0, <2>2, MadeHolds
    <2>. HIDE DEF least
    <2>5. EntriesIn(segs, DOMAIN segs) = stored
        <3>1. ASSUME NEW y \in EntriesIn(segs, DOMAIN segs) PROVE y = <<least, Min(Key)>>
            <4>1. PICK m \in files : y \in {<<m[1], j>> : j \in segs[m].keys}
                BY <2>4 DEF EntriesIn
            <4>2. m = first /\ segs[m].keys = {Min(Key)}
                BY <2>3, <2>4, <4>1
            <4>. QED
                BY <4>1, <4>2
        <3>2. <<least, Min(Key)>> \in EntriesIn(segs, DOMAIN segs)
            <4>1. first \in DOMAIN segs /\ first[1] = least /\ Min(Key) \in segs[first].keys
                BY <2>1, <2>3, <2>4
            <4>. QED
                BY <4>1 DEF EntriesIn
        <3>. QED
            BY <2>2, <3>1, <3>2
    <2>6. \A n, m \in DOMAIN segs : n # m /\ n[1] = m[1] => segs[n].keys \cap segs[m].keys = {}
        BY <2>3, <2>4
    <2>7. \A n \in DOMAIN segs :
              segs[n].keys # {} => config.format = 2 /\ n[1] \in Kinds(config.mode)
        BY <2>2, <2>3, <2>4
    <2>8. Held(segs, merge) = segs
        BY <2>2 DEF Held
    <2>. QED
        BY <1>2, <2>4, <2>5, <2>6, <2>7, <2>8 DEF ContentInv, Contents
<1>5. ASSUME NEW mode \in {"full", "reference"}, NEW published \in BOOLEAN,
             MergingStore(AnyProc, mode, Min(Key), published)
      PROVE  ContentInv
    <2>. DEFINE k == Min(Kinds(mode))
                kept(v) == IF v = 0 THEN {Min(Key)} ELSE IF v = 1 THEN Key \ {Min(Key)} ELSE Key
                files == ({k} \X (0 .. IF published THEN 2 ELSE 1))
                            \cup ((Kinds(mode) \ {k}) \X {0})
                of == [n \in files |-> IF n[1] = k THEN kept(n[2]) ELSE {}]
    <2>1. k \in Kinds(mode) /\ Min(Key) \in Key
        BY OpeningAssumption, KindsOfMode, MinOf
    <2>2. /\ config.format = 2 /\ config.mode = mode
          /\ segs = [n \in files |-> OwnFile(AnyProc, n, of[n])]
          /\ stored = {k} \X Key
        BY <1>5 DEF MergingStore, LocalConfig
    <2>3. /\ merge.record = TRUE /\ merge.target = <<k, 2>> /\ merge.sources = {k} \X {0, 1}
        BY <1>5 DEF MergingStore
    <2>4. \A n \in files : /\ n[1] \in Kinds(mode)
                           /\ of[n] = IF n[1] = k THEN kept(n[2]) ELSE {}
                           /\ n = <<n[1], n[2]>>
        BY <2>1
    <2>5. \A n \in files : n[1] = k => n[2] \in 0 .. IF published THEN 2 ELSE 1
        OBVIOUS
    <2>6. \A v \in 0 .. IF published THEN 2 ELSE 1 : <<k, v>> \in files
        OBVIOUS
    <2>. HIDE DEF of, files
    <2>7. /\ DOMAIN segs = files /\ Hollow(segs)
          /\ \A n \in files : segs[n].keys = of[n] /\ segs[n].by # NoBuild
        BY <1>0, <2>2, MadeHolds
    <2>. HIDE DEF k
    <2>. DEFINE counted == Held(segs, merge)
    <2>8. ASSUME NEW D, D \subseteq files, counted = [n \in D |-> segs[n]],
                 \A n, m \in D : n # m /\ n[1] = m[1] => of[n] \cap of[m] = {},
                 \A j \in Key : \E n \in D : n[1] = k /\ j \in of[n]
          PROVE  ContentInv
        <3>. HIDE DEF counted
        <3>1. DOMAIN counted = D /\ \A n \in D : counted[n].keys = of[n]
            BY <2>7, <2>8
        <3>2. EntriesIn(counted, D) = stored
            <4>1. ASSUME NEW y \in EntriesIn(counted, D) PROVE y \in {k} \X Key
                <5>1. PICK m \in D : y \in {<<m[1], j>> : j \in counted[m].keys}
                    BY DEF EntriesIn
                <5>2. of[m] # {} => m[1] = k /\ of[m] \subseteq Key
                    BY <2>1, <2>4, <2>8
                <5>. QED
                    BY <3>1, <5>1, <5>2
            <4>2. ASSUME NEW j \in Key PROVE <<k, j>> \in EntriesIn(counted, D)
                <5>1. PICK n \in D : n[1] = k /\ j \in counted[n].keys
                    BY <2>8, <3>1
                <5>. QED
                    BY <5>1 DEF EntriesIn
            <4>3. \A y \in {k} \X Key : y = <<k, y[2]>> /\ y[2] \in Key
                OBVIOUS
            <4>. QED
                BY <2>2, <4>1, <4>2, <4>3
        <3>3. \A n, m \in D : n # m /\ n[1] = m[1] => counted[n].keys \cap counted[m].keys = {}
            BY <2>8, <3>1
        <3>4. \A n \in D : counted[n].keys # {} => config.format = 2 /\ n[1] \in Kinds(config.mode)
            BY <2>2, <2>4, <2>8
        <3>5. Contents(counted, config, stored)
            BY <3>1, <3>2, <3>3, <3>4 DEF Contents
        <3>. QED
            BY <1>2, <2>7, <3>5 DEF ContentInv, counted
    <2>9. CASE published
        <3>. DEFINE D == files \ merge.sources
        <3>1. merge.target \in files
            BY <2>3, <2>6, <2>9
        <3>2. counted = [n \in D |-> segs[n]]
            BY <2>3, <2>7, <3>1 DEF Held
        <3>3. \A n \in D : n[1] = k => n = <<k, 2>>
            <4>1. ASSUME NEW n \in D, n[1] = k PROVE n = <<k, 2>>
                <5>1. n[2] \in 0 .. 2 /\ n = <<k, n[2]>>
                    BY <2>4, <2>5, <2>9, <4>1
                <5>2. n[2] # 0 /\ n[2] # 1
                    BY <2>3, <4>1, <5>1
                <5>. QED
                    BY <5>1, <5>2
            <4>. QED
                BY <4>1
        <3>4. \A n \in D : n[1] # k => of[n] = {}
            BY <2>4
        <3>5. <<k, 2>> \in D /\ of[<<k, 2>>] = Key
            BY <2>3, <2>4, <3>1
        <3>. HIDE DEF D, counted
        <3>6. \A n, m \in D : n # m /\ n[1] = m[1] => of[n] \cap of[m] = {}
            BY <3>3, <3>4
        <3>7. D \subseteq files
            BY DEF D
        <3>. QED
            BY <2>8, <3>2, <3>5, <3>6, <3>7
    <2>10. CASE ~published
        <3>1. merge.target \notin files
            BY <2>3, <2>5, <2>10
        <3>2. counted = [n \in files |-> segs[n]]
            BY <2>2, <2>7, <3>1 DEF Held
        <3>3. \A n \in files : n[1] = k => n = <<k, 0>> \/ n = <<k, 1>>
            <4>1. ASSUME NEW n \in files, n[1] = k PROVE n = <<k, 0>> \/ n = <<k, 1>>
                <5>1. n[2] \in 0 .. 1 /\ n = <<k, n[2]>>
                    BY <2>4, <2>5, <2>10, <4>1
                <5>. QED
                    BY <5>1
            <4>. QED
                BY <4>1
        <3>4. \A n \in files : n[1] # k => of[n] = {}
            BY <2>4
        <3>5. /\ <<k, 0>> \in files /\ of[<<k, 0>>] = {Min(Key)}
              /\ <<k, 1>> \in files /\ of[<<k, 1>>] = Key \ {Min(Key)}
            BY <2>4, <2>6, <2>10
        <3>. HIDE DEF counted
        <3>6. \A n, m \in files : n # m /\ n[1] = m[1] => of[n] \cap of[m] = {}
            BY <3>3, <3>4, <3>5
        <3>7. \A j \in Key : \E n \in files : n[1] = k /\ j \in of[n]
            BY <3>5
        <3>. QED
            BY <2>8, <3>2, <3>6, <3>7
    <2>. QED
        BY <2>9, <2>10
<1>. QED
    BY <1>3, <1>4, <1>5, OpeningAssumption DEF Init

\* The contents of the store and what each process has counted of them, across every
\* step of every process.
THEOREM ContentInvariant == Spec => []ContentInv
<1>1. Init => ContentInv
    BY ContentStarts
<1>2. StoreInv /\ StoreInv' /\ MergeInv /\ ContentInv /\ [Next]_vars => ContentInv'
    <2>. SUFFICES ASSUME StoreInv, StoreInv', MergeInv, ContentInv, [Next]_vars PROVE ContentInv'
        OBVIOUS
    <2>1. ASSUME NEW p \in Proc, Opening(p) PROVE ContentInv'
        <3>1. CASE \/ \E mode \in {"full", "reference"}, how \in {"open", "remove", "inspect"} :
                        Begin(p, mode, how)
                   \/ OpenLockFile(p) \/ TryLock(p) \/ LockUnavailable(p)
                   \/ ReadConfig(p) \/ DrawIdentity(p) \/ EntropyFails(p) \/ WriteConfig(p)
                   \/ ConfigBarrier(p) \/ ConfigFails(p)
                   \/ RecoveryRefuses(p) \/ RecoveryFails(p) \/ Unreadable(p)
            <4>1. /\ UNCHANGED <<config, segs, metas, merge, stored, wounded, unclean>>
                  /\ proc' = [proc EXCEPT ![p] = Gone] \/ \E r : Early(p, r)
                BY <3>1, EarlySteps
            <4>. QED
                BY <4>1, ContentEnds, EarlyContent
        <3>2. CASE RemoveChild(p) \/ Cleared(p) \/ PublishConfig(p) \/ Recover(p)
            BY <3>2, RemoveContent, ClearedContent, PublishContent, RecoverContent
        <3>3. CASE EnumerateReference(p) \/ EnumerateFull(p)
            BY <3>3, EnumerateContent
        <3>4. CASE \/ OpenReference(p) \/ OpenFull(p) \/ MapFails(p) \/ FreshClass(p)
                   \/ OpenReturns(p)
            BY <3>4, ServeContent
        <3>. QED
            BY <2>1, <3>1, <3>2, <3>3, <3>4 DEF Opening
    <2>2. ASSUME NEW p \in Proc, Creation(p) PROVE ContentInv'
        BY <2>2, CreationContent DEF Creation
    <2>3. CASE Next
        BY <2>1, <2>2, <2>3, SessionContent, StrayContent DEF Next
    <2>4. CASE UNCHANGED vars
        BY <2>4 DEF vars, ContentInv
    <2>. QED
        BY <2>3, <2>4
<1>. QED
    BY <1>1, <1>2, StoreInvariant, MergeInvariant, PTL DEF Spec

\* A process that serves the store serves everything stored in it and knows how much
\* that is, whichever processes opened, rotated, crashed or were refused before it.
THEOREM ServesEverythingHolds == Spec => []ServesEverything
<1>1. StoreInv /\ MergeInv /\ ContentInv => ServesEverything
    <2>. SUFFICES ASSUME StoreInv, MergeInv, ContentInv, NEW p \in Proc, Serving(p), ~wounded
                  PROVE  Entries(proc[p].cat) = stored /\ proc[p].count = Cardinality(stored)
        BY DEF ServesEverything
    <2>1. /\ proc[p].pc \in Served /\ Opened(proc[p]) = proc[p].cat
          /\ proc[p].cat \subseteq DOMAIN segs
        BY ServingKnows
    <2>2. Contents(segs, config, stored) /\ Counts(proc[p], segs)
        BY <2>1, ServedHolds DEF ContentInv, ProcContent
    <2>3. Holding(segs, proc[p].cat) = Holding(segs, DOMAIN segs)
        BY <2>1, <2>2 DEF Counts, Holding
    <2>4. EntriesIn(segs, proc[p].cat) = EntriesIn(segs, DOMAIN segs)
        BY <2>3, EntriesSame
    <2>5. Entries(proc[p].cat) = EntriesIn(segs, proc[p].cat)
        BY DEF Entries, EntriesIn, KeysOn
    <2>. QED
        BY <2>1, <2>2, <2>4, <2>5 DEF Contents, Counts
<1>. QED
    BY <1>1, StoreInvariant, MergeInvariant, ContentInvariant, PTL
-----------------------------------------------------------------------------
(* What the records say *)

\* A record that does not know says that there is nothing.
Rec == {m \in [n : Nat, lo : Nat, hi : Nat, known : BOOLEAN] : m.known \/ m.n = 0}

\* No fewer entries than there are, and no key outside the range.
Covers(m, K) == m.n >= Cardinality(K) /\ \A key \in K : m.lo <= key /\ key <= m.hi
RecordOf(ms, n) == IF n \in DOMAIN ms THEN ms[n] ELSE Unknown

Making == {"create", "size", "stamp", "map"}

\* The versions whose records only this process has: the active ones of a session.
Unsaved(r) ==
    IF r.pc \in {"open", "latched"} \/ (r.pc \in Making /\ r.rotating)
    THEN {<<k, ActiveOf(r.cat, k)>> : k \in r.mapped} ELSE {}

Kept == ~wounded /\ ~unclean

\* The records a process holds of the classes it has opened cover their versions.
ProcMeta(r, sg, kept) ==
    r.pc \in Served =>
        /\ r.held \in [Name -> Rec]
        /\ r.pc \in Making => r.at[1] \notin r.mapped
        /\ kept => \A n \in Opened(r) : Covers(r.held[n], sg[n].keys)

\* The record on disk covers its version, unless a session has yet to save it.
MetaInv ==
    /\ metas \in [DOMAIN metas -> Rec]
    /\ \A p \in Proc : ProcMeta(proc[p], segs, Kept)
    /\ Kept => \A n \in DOMAIN segs :
          Covers(RecordOf(metas, n), segs[n].keys) \/ \E p \in Proc : n \in Unsaved(proc[p])

\* Records are read, or unknown.
LEMMA RecordsTyped ==
    /\ Unknown \in Rec /\ Blank \in Rec
    /\ \A ms : ms \in [DOMAIN ms -> Rec] => \A n : RecordOf(ms, n) \in Rec
<1>1. Unknown \in Rec /\ Blank \in Rec
    BY DEF Rec, Unknown, Blank
<1>. QED
    BY <1>1 DEF RecordOf

\* Any record covers a version without entries.
LEMMA CoversNothing ==
    ASSUME NEW m \in Rec
    PROVE  Covers(m, {})
    BY FS_EmptySet DEF Rec, Covers

\* A record that covers entries is known.
LEMMA CoversSomething ==
    ASSUME NEW m \in Rec, NEW K, IsFiniteSet(K), Covers(m, K)
    PROVE  /\ m.n = 0 => K = {}
           /\ ~m.known => K = {}
<1>1. Cardinality(K) \in Nat /\ m.n \in Nat /\ (~m.known => m.n = 0)
    BY FS_CardinalityType DEF Rec
<1>2. Cardinality(K) = 0 => K = {}
    BY FS_EmptySet
<1>3. m.n = 0 => Cardinality(K) = 0
    BY <1>1 DEF Covers
<1>. QED
    BY <1>1, <1>2, <1>3

\* The least and the largest of two.
LEMMA OfTwo ==
    ASSUME NEW x \in Nat, NEW y \in Nat
    PROVE  /\ Min({x, y}) \in Nat /\ Min({x, y}) <= x /\ Min({x, y}) <= y
           /\ Max({x, y}) \in Nat /\ x <= Max({x, y}) /\ y <= Max({x, y})
<1>1. {x, y} \in SUBSET Nat /\ {x, y} # {}
    OBVIOUS
<1>2. Min({x, y}) \in {x, y} /\ \A z \in {x, y} : Min({x, y}) <= z
    BY <1>1, MinOf
<1>3. x + y \in Nat /\ {x, y} \in SUBSET (0 .. (x + y))
    OBVIOUS
<1>4. Max({x, y}) \in {x, y} /\ \A z \in {x, y} : z <= Max({x, y})
    BY <1>1, <1>3, MaxOf
<1>. QED
    BY <1>2, <1>4

\* update_on_insert widens the record by the key.
LEMMA GrownCovers ==
    ASSUME NEW m \in Rec, NEW K, IsFiniteSet(K), K \subseteq Nat, NEW key \in Nat, Covers(m, K)
    PROVE  Grown(m, key) \in Rec /\ Covers(Grown(m, key), K \cup {key})
<1>1. m.n \in Nat /\ m.lo \in Nat /\ m.hi \in Nat
    BY DEF Rec
<1>2. CASE m.n = 0
    <2>1. K \cup {key} = {key}
        BY <1>2, CoversSomething
    <2>2. Cardinality({key}) = 1
        BY FS_Singleton
    <2>. DEFINE g == [n |-> 1, lo |-> key, hi |-> key, known |-> TRUE]
    <2>3. Grown(m, key) = g
        BY <1>2 DEF Grown
    <2>4. g \in Rec
        BY DEF Rec
    <2>5. Covers(g, {key})
        BY <2>2 DEF Covers
    <2>. HIDE DEF g
    <2>. QED
        BY <2>1, <2>3, <2>4, <2>5
<1>3. CASE m.n # 0
    <2>. DEFINE lo == Min({m.lo, key})
                hi == Max({m.hi, key})
                g == [n |-> m.n + 1, lo |-> lo, hi |-> hi, known |-> TRUE]
    <2>1. Grown(m, key) = g
        BY <1>3 DEF Grown
    <2>2. /\ lo \in Nat /\ lo <= m.lo /\ lo <= key
          /\ hi \in Nat /\ m.hi <= hi /\ key <= hi
        BY <1>1, OfTwo
    <2>. HIDE DEF lo, hi
    <2>3. g \in Rec /\ g.n = m.n + 1 /\ g.lo = lo /\ g.hi = hi
        BY <1>1, <2>2 DEF Rec
    <2>. HIDE DEF g
    <2>4. g.n >= Cardinality(K \cup {key})
        <3>. DEFINE c == Cardinality(K)
                    d == Cardinality(K \cup {key})
        <3>1. c \in Nat /\ m.n >= c /\ (d = c \/ d = c + 1)
            BY FS_AddElement, FS_CardinalityType DEF Covers
        <3>. HIDE DEF c, d
        <3>2. g.n >= d
            BY <1>1, <2>3, <3>1
        <3>. QED
            BY <3>2 DEF d
    <2>5. ASSUME NEW x \in K \cup {key} PROVE g.lo <= x /\ x <= g.hi
        <3>1. CASE x = key
            BY <2>2, <2>3, <3>1
        <3>2. CASE x \in K
            <4>1. x \in Nat /\ m.lo <= x /\ x <= m.hi
                BY <3>2 DEF Covers
            <4>. QED
                BY <1>1, <2>2, <2>3, <4>1
        <3>. QED
            BY <3>1, <3>2
    <2>. QED
        BY <2>1, <2>3, <2>4, <2>5 DEF Covers
<1>. QED
    BY <1>2, <1>3

\* update_on_delete counts the key out and leaves the range.
LEMMA ShrunkCovers ==
    ASSUME NEW m \in Rec, NEW K, IsFiniteSet(K), NEW key \in K, Covers(m, K)
    PROVE  /\ Shrunk(m) \in Rec /\ Covers(Shrunk(m), K \ {key})
           /\ Covers(m, K \ {key})
<1>. DEFINE c == Cardinality(K)
            d == Cardinality(K \ {key})
<1>1. m.n \in Nat /\ m.lo \in Nat /\ m.hi \in Nat /\ m.known \in BOOLEAN
    BY DEF Rec
<1>2. c \in Nat /\ m.n >= c /\ d = c - 1 /\ d \in Nat
    BY FS_RemoveElement, FS_CardinalityType DEF Covers
<1>. HIDE DEF c, d
<1>3. m.n > 0 /\ m.n - 1 \in Nat /\ m.n - 1 >= d /\ m.n >= d
    BY <1>1, <1>2
<1>4. m.known
    BY <1>3 DEF Rec
<1>. DEFINE g == [m EXCEPT !.n = @ - 1]
<1>5. Shrunk(m) = g
    BY <1>3 DEF Shrunk
<1>6. g \in Rec /\ g.n = m.n - 1 /\ g.lo = m.lo /\ g.hi = m.hi
    BY <1>1, <1>3, <1>4 DEF Rec
<1>. HIDE DEF g
<1>7. \A x \in K : m.lo <= x /\ x <= m.hi
    BY DEF Covers
<1>. QED
    BY <1>3, <1>5, <1>6, <1>7 DEF Covers, d

\* Only a claimant has records that are not on disk.
LEMMA UnclaimedUnsaved ==
    ASSUME NEW q \in Proc, ~Claimed(q)
    PROVE  proc[q].pc \notin Served /\ Unsaved(proc[q]) = {}
    BY DEF Claimed, Served, Unsaved, Making

\* What the claimant has not saved is all there is to save.
LEMMA OthersSaved ==
    ASSUME StoreInv, MetaInv, NEW p \in Proc, Claimed(p), Kept, NEW n \in DOMAIN segs
    PROVE  Covers(RecordOf(metas, n), segs[n].keys) \/ n \in Unsaved(proc[p])
<1>1. ASSUME NEW q \in Proc, n \in Unsaved(proc[q]) PROVE q = p
    BY <1>1, UnclaimedUnsaved DEF StoreInv, ClaimInv, OneClaimant
<1>. QED
    BY <1>1 DEF MetaInv

\* A step of the claimant: the others have no records.
LEMMA MetaMoves ==
    ASSUME StoreInv, MetaInv, NEW p \in Proc, Claimed(p), NEW r, IsProcess(r),
           proc' = [proc EXCEPT ![p] = r],
           metas' \in [DOMAIN metas' -> Rec], ProcMeta(r, segs', Kept'),
           Kept' => \A n \in DOMAIN segs' :
               Covers(RecordOf(metas', n), segs'[n].keys) \/ n \in Unsaved(r)
    PROVE  MetaInv'
<1>1. proc'[p] = r /\ \A q \in Proc : q # p => proc'[q] = proc[q]
    BY OneMoves DEF StoreInv
<1>2. ASSUME NEW q \in Proc PROVE ProcMeta(proc'[q], segs', Kept')
    <2>1. CASE q = p
        BY <1>1, <2>1
    <2>2. CASE q # p
        <3>1. ~Claimed(q)
            BY <2>2 DEF StoreInv, ClaimInv, OneClaimant
        <3>2. proc'[q].pc \notin Served
            BY <1>1, <2>2, <3>1, UnclaimedUnsaved
        <3>. QED
            BY <3>2 DEF ProcMeta
    <2>. QED
        BY <2>1, <2>2
<1>. QED
    BY <1>1, <1>2 DEF MetaInv

\* A process ends or goes on without records, and had none that are not on disk.
LEMMA MetaRests ==
    ASSUME StoreInv, MetaInv, NEW p \in Proc, NEW r, IsProcess(r),
           proc' = [proc EXCEPT ![p] = r], UNCHANGED <<segs, metas>>, r.pc \notin Served,
           Kept' => Kept /\ Unsaved(proc[p]) = {}
    PROVE  MetaInv'
<1>1. proc'[p] = r /\ \A q \in Proc : q # p => proc'[q] = proc[q]
    BY OneMoves DEF StoreInv
<1>2. ASSUME NEW q \in Proc PROVE ProcMeta(proc'[q], segs', Kept')
    <2>1. CASE q = p
        BY <1>1, <2>1 DEF ProcMeta
    <2>2. CASE q # p
        BY <1>1, <2>2 DEF MetaInv, ProcMeta
    <2>. QED
        BY <2>1, <2>2
<1>3. ASSUME Kept', NEW n \in DOMAIN segs
      PROVE  Covers(RecordOf(metas, n), segs[n].keys) \/ \E q \in Proc : n \in Unsaved(proc'[q])
    <2>1. Covers(RecordOf(metas, n), segs[n].keys) \/ \E q \in Proc : n \in Unsaved(proc[q])
        BY <1>3 DEF MetaInv
    <2>2. ASSUME NEW q \in Proc, n \in Unsaved(proc[q]) PROVE n \in Unsaved(proc'[q])
        BY <1>1, <1>3, <2>2
    <2>. QED
        BY <2>1, <2>2
<1>. QED
    BY <1>2, <1>3 DEF MetaInv

\* The claimant goes on with the files and the records on disk as they are.
LEMMA MetaStays ==
    ASSUME StoreInv, MetaInv, NEW p \in Proc, Claimed(p), NEW r, IsProcess(r),
           proc' = [proc EXCEPT ![p] = r], UNCHANGED <<segs, metas, wounded, unclean>>,
           ProcMeta(r, segs, Kept), Unsaved(proc[p]) \subseteq Unsaved(r)
    PROVE  MetaInv'
<1>1. Kept' = Kept
    BY DEF Kept
<1>2. metas \in [DOMAIN metas -> Rec]
    BY DEF MetaInv
<1>3. Kept => \A n \in DOMAIN segs : Covers(RecordOf(metas, n), segs[n].keys) \/ n \in Unsaved(r)
    BY OthersSaved
<1>. QED
    BY <1>1, <1>2, <1>3, MetaMoves

\* Before it has a catalogue a process has no records.
LEMMA EarlyMeta ==
    ASSUME StoreInv, MetaInv, NEW p \in Proc,
           \/ \E mode \in {"full", "reference"}, how \in {"open", "remove", "inspect"} :
                 Begin(p, mode, how)
           \/ OpenLockFile(p) \/ TryLock(p) \/ LockUnavailable(p)
           \/ ReadConfig(p) \/ DrawIdentity(p) \/ EntropyFails(p) \/ WriteConfig(p)
           \/ ConfigBarrier(p) \/ ConfigFails(p)
           \/ RecoveryRefuses(p) \/ RecoveryFails(p) \/ Unreadable(p)
    PROVE  MetaInv'
<1>1. /\ UNCHANGED <<config, segs, metas, merge, stored, wounded, unclean>>
      /\ proc' = [proc EXCEPT ![p] = Gone] \/ \E r : Early(p, r)
    BY EarlySteps
<1>2. proc[p].pc \notin Served
    BY DEF Begin, OpenLockFile, TryLock, LockUnavailable, ReadConfig, DrawIdentity, EntropyFails,
           WriteConfig, ConfigBarrier, ConfigFails, RecoveryRefuses, RecoveryFails, Recovering,
           Unreadable, Served
<1>3. Unsaved(proc[p]) = {} /\ Kept' = Kept
    BY <1>1, <1>2 DEF Unsaved, Making, Served, Kept
<1>4. CASE proc' = [proc EXCEPT ![p] = Gone]
    BY <1>1, <1>3, <1>4, GoneIsProcess, MetaRests DEF Served
<1>5. ASSUME NEW r, Early(p, r) PROVE MetaInv'
    BY <1>1, <1>3, <1>5, MetaRests DEF Early
<1>. QED
    BY <1>1, <1>4, <1>5

\* The configuration says nothing of the records; removing a store takes records and
\* files away in any order, and leaves neither.
LEMMA RemoveMeta ==
    ASSUME StoreInv, MetaInv, NEW p \in Proc, PublishConfig(p) \/ RemoveChild(p) \/ Cleared(p)
    PROVE  MetaInv'
<1>1. IsProcess(proc[p])
    BY DEF StoreInv, ProcShape
<1>2. CASE PublishConfig(p)
    <2>. DEFINE r == [proc[p] EXCEPT !.pc = "barrier"]
    <2>1. IsProcess(r) /\ r.pc = "barrier"
        BY <1>1 DEF IsProcess, Field
    <2>2. /\ proc' = [proc EXCEPT ![p] = r] /\ proc[p].pc = "publish"
          /\ UNCHANGED <<segs, metas, wounded, unclean>>
        BY <1>2 DEF PublishConfig, Goto, Becomes, history
    <2>. HIDE DEF r
    <2>3. Unsaved(proc[p]) = {} /\ Kept' = Kept /\ r.pc \notin Served
        BY <2>1, <2>2 DEF Unsaved, Making, Kept, Served
    <2>. QED
        BY <2>1, <2>2, <2>3, MetaRests
<1>3. CASE RemoveChild(p)
    <2>1. proc[p].pc = "clear" /\ proc' = proc /\ unclean' = unclean
        BY <1>3 DEF RemoveChild
    <2>2. \/ UNCHANGED <<segs, metas, wounded>>
          \/ /\ wounded' = TRUE
             /\ metas' = metas \/ \E n : metas' = Restrict(metas, DOMAIN metas \ {n})
        BY <1>3 DEF RemoveChild
    <2>3. CASE UNCHANGED <<segs, metas, wounded>>
        BY <2>1, <2>3 DEF MetaInv, Kept
    <2>4. CASE /\ wounded' = TRUE
               /\ metas' = metas \/ \E n : metas' = Restrict(metas, DOMAIN metas \ {n})
        <3>1. metas' \in [DOMAIN metas' -> Rec]
            BY <2>4 DEF MetaInv, Restrict
        <3>2. ~Kept'
            BY <2>4 DEF Kept
        <3>3. Claimed(p) /\ proc' = [proc EXCEPT ![p] = proc[p]] /\ proc[p].pc \notin Served
            BY <2>1 DEF Claimed, StoreInv, ProcShape, Served
        <3>4. ProcMeta(proc[p], segs', Kept')
            BY <3>3 DEF ProcMeta
        <3>. QED
            BY <1>1, <3>1, <3>2, <3>3, <3>4, MetaMoves
    <2>. QED
        BY <2>2, <2>3, <2>4
<1>4. CASE Cleared(p)
    <2>. DEFINE r == [proc[p] EXCEPT !.pc = "config"]
    <2>1. IsProcess(r) /\ r.pc = "config"
        BY <1>1 DEF IsProcess, Field
    <2>2. /\ proc' = [proc EXCEPT ![p] = r] /\ Claimed(p)
          /\ segs' = <<>> /\ metas' = metas
        BY <1>4 DEF Cleared, Goto, Becomes, disk, Bare, Claimed
    <2>. HIDE DEF r
    <2>3. ProcMeta(r, segs', Kept') /\ DOMAIN segs' = {}
        BY <2>1, <2>2 DEF ProcMeta, Served
    <2>4. metas' \in [DOMAIN metas' -> Rec]
        BY <2>2 DEF MetaInv
    <2>. QED
        BY <2>1, <2>2, <2>3, <2>4, MetaMoves
<1>. QED
    BY <1>2, <1>3, <1>4

\* Recovery takes records away only while the metadata of its target may be lost.
LEMMA RecoverMeta ==
    ASSUME StoreInv, MergeInv, MetaInv, NEW p \in Proc, Recover(p)
    PROVE  MetaInv'
<1>1. /\ Claimed(p) /\ proc[p].pc \notin Served
      /\ UNCHANGED <<proc, wounded, unclean>>
    BY DEF Recover, AbandonMerge, RetireSource, FinishMerge, DiscardBuild, Recovering, Claimed,
           Served, history
<1>2. proc' = [proc EXCEPT ![p] = proc[p]] /\ IsProcess(proc[p])
    BY <1>1 DEF StoreInv, ProcShape
<1>3. CASE UNCHANGED <<segs, metas>>
    BY <1>1, <1>3 DEF MetaInv, Kept
<1>4. CASE RetireSource(p)
    <2>1. ~Kept'
        BY <1>1, <1>4 DEF RetireSource, MergeInv, Kept
    <2>2. metas' = metas \/ \E n : metas' = Restrict(metas, DOMAIN metas \ {n})
        BY <1>4 DEF RetireSource
    <2>3. metas' \in [DOMAIN metas' -> Rec]
        BY <2>2 DEF MetaInv, Restrict
    <2>4. ProcMeta(proc[p], segs', Kept')
        BY <1>1 DEF ProcMeta
    <2>. QED
        BY <1>1, <1>2, <2>1, <2>3, <2>4, MetaMoves
<1>. QED
    BY <1>3, <1>4 DEF Recover, AbandonMerge, FinishMerge, DiscardBuild

\* A process with a catalogue goes on with the records it holds.
LEMMA MetaKeeps ==
    ASSUME StoreInv, MetaInv, NEW p \in Proc, proc[p].pc \in Served, NEW r, IsProcess(r),
           proc' = [proc EXCEPT ![p] = r], UNCHANGED <<segs, metas, wounded, unclean>>,
           r.pc \in Served, r.held = proc[p].held, Opened(r) \subseteq Opened(proc[p]),
           r.pc \in Making => r.at[1] \notin r.mapped,
           Unsaved(proc[p]) \subseteq Unsaved(r)
    PROVE  MetaInv'
<1>1. Claimed(p)
    BY DEF Claimed, Served
<1>2. ProcMeta(proc[p], segs, Kept)
    BY DEF MetaInv
<1>3. ProcMeta(r, segs, Kept)
    BY <1>2 DEF ProcMeta
<1>. QED
    BY <1>1, <1>3, MetaStays

\* Nothing is known of a version when it is catalogued.
LEMMA EnumerateMeta ==
    ASSUME StoreInv, MetaInv, NEW p \in Proc, EnumerateReference(p) \/ EnumerateFull(p)
    PROVE  MetaInv'
<1>1. /\ Claimed(p) /\ proc[p].pc = "catalogue"
      /\ UNCHANGED <<segs, metas, wounded, unclean>>
    BY DEF EnumerateReference, EnumerateFull, Claimed, disk, history
<1>2. IsProcess(proc[p])
    BY <1>1, OfClaimant
<1>3. \/ proc' = [proc EXCEPT ![p] = Gone]
      \/ Catalogued(p, Kinds(proc[p].mode))
    BY DEF EnumerateReference, EnumerateFull, Refuse, Kinds
<1>4. Unsaved(proc[p]) = {} /\ Kept' = Kept
    BY <1>1 DEF Unsaved, Making, Kept
<1>5. CASE proc' = [proc EXCEPT ![p] = Gone]
    BY <1>1, <1>4, <1>5, GoneIsProcess, MetaRests DEF Served
<1>6. CASE Catalogued(p, Kinds(proc[p].mode))
    <2>. DEFINE kinds == Kinds(proc[p].mode)
                none == [n \in Name |-> Unknown]
                r == [proc[p] EXCEPT !.pc = "serve", !.cat = Listing(kinds), !.todo = kinds,
                                     !.held = none]
    <2>1. /\ IsProcess(r) /\ r.pc = "serve" /\ r.cat = Listing(kinds) /\ r.todo = kinds
          /\ r.held = none
        <3>. HIDE DEF none
        <3>. QED
            BY <1>2 DEF IsProcess, Field
    <2>2. proc' = [proc EXCEPT ![p] = r]
        BY <1>6 DEF Catalogued, Becomes
    <2>. HIDE DEF r
    <2>3. Opened(r) = {}
        BY <2>1 DEF Opened, Listing
    <2>4. none \in [Name -> Rec]
        BY RecordsTyped
    <2>5. ProcMeta(r, segs, Kept)
        BY <2>1, <2>3, <2>4 DEF ProcMeta, Making
    <2>. QED
        BY <1>1, <1>4, <2>1, <2>2, <2>5, MetaStays
<1>. QED
    BY <1>3, <1>5, <1>6

\* The records of a class are read when it is opened, and no one has newer ones.
LEMMA OpenClassMeta ==
    ASSUME StoreInv, MetaInv, NEW p \in Proc, proc[p].pc = "serve",
           NEW k \in proc[p].todo, OpenClass(p, k)
    PROVE  MetaInv'
<1>1. Claimed(p) /\ proc[p].pc \in Served /\ UNCHANGED <<segs, metas, wounded, unclean>>
    BY DEF OpenClass, Claimed, Served, disk, history
<1>2. IsProcess(proc[p]) /\ CataloguePart(p) /\ ProcMeta(proc[p], segs, Kept)
    BY <1>1, OfClaimant DEF MetaInv
<1>3. Unsaved(proc[p]) = {} /\ Kept' = Kept
    BY <1>1 DEF Unsaved, Making, Kept
<1>. DEFINE own == {n \in proc[p].cat : n[1] = k}
            more == SumFunction([n \in Counted(own) |-> Cardinality(KeysOn(n))])
            loaded == LoadMetadata(proc[p].held, own)
            r == [proc[p] EXCEPT !.todo = @ \ {k}, !.mapped = @ \cup {k},
                                 !.count = @ + more, !.held = loaded]
<1>4. \/ proc' = [proc EXCEPT ![p] = Gone]
      \/ proc' = [proc EXCEPT ![p] = r]
    BY DEF OpenClass, Refuse, Becomes
<1>5. CASE proc' = [proc EXCEPT ![p] = Gone]
    BY <1>1, <1>3, <1>5, GoneIsProcess, MetaRests DEF Served
<1>6. CASE proc' = [proc EXCEPT ![p] = r]
    <2>1. /\ IsProcess(r) /\ r.pc = proc[p].pc /\ r.cat = proc[p].cat
          /\ r.todo = proc[p].todo \ {k} /\ r.held = loaded
        <3>. HIDE DEF more, loaded
        <3>. QED
            BY <1>2 DEF IsProcess, Field
    <2>. HIDE DEF r, more
    <2>2. \A n \in Name : loaded[n] = IF n \in own THEN RecordOf(metas, n) ELSE proc[p].held[n]
        BY DEF LoadMetadata, ReadMetadata, RecordOf
    <2>3. proc[p].held \in [Name -> Rec] /\ metas \in [DOMAIN metas -> Rec]
        BY <1>1, <1>2 DEF ProcMeta, MetaInv
    <2>4. \A n : RecordOf(metas, n) \in Rec
        BY <2>3, RecordsTyped
    <2>5. loaded \in [Name -> Rec]
        <3>1. loaded = [n \in Name |-> loaded[n]]
            BY DEF LoadMetadata
        <3>. HIDE DEF loaded, own
        <3>. QED
            BY <2>2, <2>3, <2>4, <3>1
    <2>6. proc[p].cat \subseteq DOMAIN segs /\ proc[p].cat \subseteq Name
        BY <1>1, <1>2 DEF CataloguePart, StoreInv, DiskShape
    <2>. HIDE DEF loaded
    <2>7. ASSUME Kept, NEW n \in Opened(r) PROVE Covers(r.held[n], segs[n].keys)
        <3>1. n \in Name /\ n \in DOMAIN segs
            BY <2>1, <2>6 DEF Opened
        <3>2. CASE n \in own
            <4>1. r.held[n] = RecordOf(metas, n)
                BY <2>1, <2>2, <3>1, <3>2
            <4>2. Covers(RecordOf(metas, n), segs[n].keys)
                BY <1>1, <1>3, <2>7, <3>1, OthersSaved
            <4>. QED
                BY <4>1, <4>2
        <3>3. CASE n \notin own
            <4>1. r.held[n] = proc[p].held[n]
                BY <2>1, <2>2, <3>1, <3>3
            <4>2. n \in Opened(proc[p])
                BY <2>1, <2>7, <3>3 DEF Opened
            <4>. QED
                BY <1>1, <1>2, <2>7, <4>1, <4>2 DEF ProcMeta
        <3>. QED
            BY <3>2, <3>3
    <2>8. ProcMeta(r, segs, Kept)
        BY <2>1, <2>5, <2>7 DEF ProcMeta, Making
    <2>. QED
        BY <1>1, <1>3, <1>6, <2>1, <2>8, MetaStays
<1>. QED
    BY <1>4, <1>5, <1>6

\* The rest of open().
LEMMA ServeMeta ==
    ASSUME StoreInv, ContentInv, MetaInv, NEW p \in Proc,
           OpenReference(p) \/ OpenFull(p) \/ MapFails(p) \/ FreshClass(p) \/ OpenReturns(p)
    PROVE  MetaInv'
<1>1. proc[p].pc = "serve" /\ Claimed(p) /\ proc[p].pc \in Served
    BY DEF OpenReference, OpenFull, MapFails, FreshClass, OpenReturns, Claimed, Served
<1>2. /\ IsProcess(proc[p])
      /\ proc[p].todo # {} => Turn(p) \in proc[p].todo
    <2>1. proc[p].todo \subseteq Kinds(proc[p].mode) /\ IsProcess(proc[p])
        BY <1>1, OfClaimant DEF CataloguePart
    <2>. QED
        BY <2>1, TurnLeft
<1>3. Unsaved(proc[p]) = {}
    BY <1>1 DEF Unsaved, Making
<1>4. CASE OpenReference(p) \/ OpenFull(p)
    BY <1>1, <1>2, <1>4, OpenClassMeta DEF OpenReference, OpenFull
<1>5. CASE MapFails(p)
    <2>1. /\ proc' = [proc EXCEPT ![p] = Gone] /\ UNCHANGED <<segs, metas>> /\ Kept' = Kept
        BY <1>5 DEF MapFails, Refuse, disk, history, Kept
    <2>. QED
        BY <1>3, <2>1, GoneIsProcess, MetaRests DEF Served
<1>6. CASE FreshClass(p)
    <2>1. UNCHANGED <<segs, metas, wounded, unclean>> /\ VersionsOf(proc[p].cat, Turn(p)) = {}
        BY <1>6 DEF FreshClass, disk, history
    <2>2. PICK k : k = Turn(p)
        OBVIOUS
    <2>3. \A n \in proc[p].cat : n[1] # k
        BY <2>1, <2>2 DEF VersionsOf
    <2>4. CASE Becomes(p, [proc[p] EXCEPT !.todo = @ \ {Turn(p)}])
        <3>. DEFINE r == [proc[p] EXCEPT !.todo = @ \ {k}]
        <3>1. /\ IsProcess(r) /\ r.pc = proc[p].pc /\ r.held = proc[p].held
              /\ r.cat = proc[p].cat /\ r.todo = proc[p].todo \ {k}
            BY <1>2 DEF IsProcess, Field
        <3>2. proc' = [proc EXCEPT ![p] = r]
            BY <2>2, <2>4 DEF Becomes
        <3>. HIDE DEF r
        <3>3. Opened(r) = Opened(proc[p]) /\ r.pc \notin Making
            BY <1>1, <2>3, <3>1 DEF Opened, Making
        <3>. QED
            BY <1>1, <1>3, <2>1, <3>1, <3>2, <3>3, MetaKeeps
    <2>5. CASE Becomes(p, [proc[p] EXCEPT !.pc = "create", !.at = <<Turn(p), 0>>])
        <3>. DEFINE r == [proc[p] EXCEPT !.pc = "create", !.at = <<k, 0>>]
        <3>1. /\ IsProcess(r) /\ r.pc = "create" /\ r.held = proc[p].held
              /\ r.cat = proc[p].cat /\ r.todo = proc[p].todo
              /\ r.mapped = proc[p].mapped /\ r.at = <<k, 0>>
            BY <1>2 DEF IsProcess, Field
        <3>2. proc' = [proc EXCEPT ![p] = r]
            BY <2>2, <2>5 DEF Becomes
        <3>. HIDE DEF r
        <3>3. k \notin proc[p].mapped
            BY <2>3 DEF ContentInv, ProcContent
        <3>4. Opened(r) = Opened(proc[p]) /\ r.pc \in Served /\ r.at[1] \notin r.mapped
            BY <3>1, <3>3 DEF Opened, Served
        <3>. QED
            BY <1>1, <1>3, <2>1, <3>1, <3>2, <3>4, MetaKeeps
    <2>. QED
        BY <1>6, <2>4, <2>5 DEF FreshClass
<1>7. CASE OpenReturns(p)
    <2>. DEFINE r == [proc[p] EXCEPT !.pc = "open"]
    <2>1. /\ IsProcess(r) /\ r.pc = "open" /\ r.held = proc[p].held
          /\ r.cat = proc[p].cat /\ r.todo = proc[p].todo
        BY <1>2 DEF IsProcess, Field
    <2>2. proc' = [proc EXCEPT ![p] = r] /\ UNCHANGED <<segs, metas, wounded, unclean>>
        BY <1>7 DEF OpenReturns, Goto, Becomes, disk, history
    <2>. HIDE DEF r
    <2>3. Opened(r) = Opened(proc[p]) /\ r.pc \in Served /\ r.pc \notin Making
        BY <2>1 DEF Opened, Served, Making
    <2>. QED
        BY <1>1, <1>3, <2>1, <2>2, <2>3, MetaKeeps
<1>. QED
    BY <1>4, <1>5, <1>6, <1>7

\* A record covers the version still when the directory holds the same entries.
LEMMA CoversSame ==
    ASSUME NEW sg, NEW sg2, SameKeys(sg, sg2), NEW n \in DOMAIN sg2, NEW m \in Rec,
           n \in DOMAIN sg => Covers(m, sg[n].keys)
    PROVE  Covers(m, sg2[n].keys)
<1>1. CASE sg2[n].keys = {}
    BY <1>1, CoversNothing
<1>2. CASE sg2[n].keys # {}
    <2>1. n \in DOMAIN sg /\ sg2[n].keys = sg[n].keys
        BY <1>2 DEF SameKeys, Holding
    <2>. QED
        BY <2>1
<1>. QED
    BY <1>1, <1>2

\* The claimant changes files that hold nothing.
LEMMA MetaGoesOn ==
    ASSUME StoreInv, MetaInv, NEW p \in Proc, Claimed(p), NEW r, IsProcess(r),
           proc' = [proc EXCEPT ![p] = r], UNCHANGED <<metas, wounded, unclean>>,
           SameKeys(segs, segs'), ProcMeta(r, segs', Kept), Unsaved(proc[p]) \subseteq Unsaved(r)
    PROVE  MetaInv'
<1>1. Kept' = Kept
    BY DEF Kept
<1>2. metas \in [DOMAIN metas -> Rec]
    BY DEF MetaInv
<1>3. ASSUME Kept, NEW n \in DOMAIN segs', n \notin Unsaved(r)
      PROVE  Covers(RecordOf(metas, n), segs'[n].keys)
    <2>1. RecordOf(metas, n) \in Rec
        BY <1>2, RecordsTyped
    <2>2. n \in DOMAIN segs => Covers(RecordOf(metas, n), segs[n].keys)
        BY <1>3, OthersSaved
    <2>. QED
        BY <2>1, <2>2, CoversSame
<1>. QED
    BY <1>1, <1>2, <1>3, MetaMoves

\* The file being created is withdrawn or goes on being created; its record is blank,
\* or one that has stayed on disk: either covers a version that holds nothing.
LEMMA CreationMeta ==
    ASSUME StoreInv, ContentInv, MetaInv, StoreInv', NEW p \in Proc,
           \/ CreateFile(p) \/ SizeFile(p) \/ PlaceStamp(p) \/ ConstructMap(p)
           \/ ConstructorFails(p) \/ RollBack(p)
    PROVE  MetaInv'
<1>1. /\ Claimed(p) /\ proc[p].pc \in Served /\ proc[p].pc \in Making
      /\ UNCHANGED <<metas, wounded, unclean>>
    BY DEF CreateFile, SizeFile, PlaceStamp, ConstructMap, ConstructorFails, RollBack, Claimed,
           Served, Making, disk, history
<1>2. /\ IsProcess(proc[p]) /\ ProcMeta(proc[p], segs, Kept) /\ CreationPart(p)
      /\ proc[p].cat \subseteq DOMAIN segs
    BY <1>1, OfClaimant DEF MetaInv, CataloguePart
<1>3. PICK n : n = proc[p].at
    OBVIOUS
<1>4. SameKeys(segs, segs')
    BY CreationSame
<1>5. ~proc[p].rotating => Unsaved(proc[p]) = {}
    BY <1>1 DEF Unsaved, Making
<1>6. /\ proc[p].held \in [Name -> Rec] /\ n[1] \notin proc[p].mapped
      /\ Kept => \A m \in Opened(proc[p]) : Covers(proc[p].held[m], segs[m].keys)
      /\ n \in Name /\ n \notin proc[p].cat
    BY <1>1, <1>2, <1>3 DEF ProcMeta, CreationPart, Making
<1>7. ASSUME NEW r, proc' = [proc EXCEPT ![p] = r], IsProcess(r), r.pc \in Served,
             NEW m \in Name, m \in Opened(proc[p]), proc[p].cat \subseteq r.cat, Kept
      PROVE  Covers(proc[p].held[m], segs'[m].keys)
    <2>1. proc'[p] = r
        BY <1>7, OneMoves DEF StoreInv
    <2>2. Claimed(p)'
        BY <1>7, <2>1 DEF Claimed, Served
    <2>3. ClaimantInv(p)'
        BY <2>2 DEF StoreInv
    <2>4. r.cat \subseteq DOMAIN segs'
        BY <1>7, <2>1, <2>3 DEF ClaimantInv, CataloguePart
    <2>5. m \in DOMAIN segs' /\ proc[p].held[m] \in Rec /\ Covers(proc[p].held[m], segs[m].keys)
        BY <1>6, <1>7, <2>4 DEF Opened
    <2>. QED
        BY <1>4, <2>5, CoversSame
<1>8. Opened(proc[p]) \subseteq Name
    BY <1>2 DEF Opened, StoreInv, DiskShape
<1>9. CASE ~proc[p].rotating /\ proc' = [proc EXCEPT ![p] = Gone]
    <2>1. ProcMeta(Gone, segs', Kept)
        BY GoneIsProcess DEF ProcMeta, Served
    <2>. QED
        BY <1>1, <1>4, <1>5, <1>9, <2>1, GoneIsProcess, MetaGoesOn
<1>10. ASSUME NEW r, IsProcess(r), proc' = [proc EXCEPT ![p] = r],
              \/ r.pc \in {"size", "stamp", "map"} /\ r.at = proc[p].at
              \/ r.pc = "latched" /\ proc[p].rotating,
              r.mapped = proc[p].mapped, r.cat = proc[p].cat, r.todo = proc[p].todo,
              r.held = proc[p].held, r.rotating = proc[p].rotating
       PROVE  MetaInv'
    <2>1. r.pc \in Served /\ Opened(r) = Opened(proc[p])
        BY <1>10 DEF Served, Opened
    <2>2. Kept => \A m \in Opened(r) : Covers(r.held[m], segs'[m].keys)
        BY <1>7, <1>8, <1>10, <2>1
    <2>3. r.pc \in Making => r.at[1] \notin r.mapped
        BY <1>3, <1>6, <1>10 DEF Making
    <2>4. ProcMeta(r, segs', Kept)
        BY <1>6, <1>10, <2>2, <2>3 DEF ProcMeta
    <2>5. Unsaved(proc[p]) \subseteq Unsaved(r)
        BY <1>1, <1>10 DEF Unsaved, Making
    <2>. QED
        BY <1>1, <1>4, <1>10, <2>4, <2>5, MetaGoesOn
<1>11. CASE ConstructMap(p)
    <2>1. PICK rec : rec = IF proc[p].rotating THEN Blank ELSE ReadMetadata(n)
        OBVIOUS
    <2>2. PICK r : /\ IsProcess(r) /\ proc' = [proc EXCEPT ![p] = r]
                   /\ r.pc = (IF proc[p].rotating THEN "open" ELSE "serve")
                   /\ r.mapped = proc[p].mapped \cup {n[1]} /\ r.cat = proc[p].cat \cup {n}
                   /\ r.held = [proc[p].held EXCEPT ![n] = rec]
                   /\ Opened(r) = Opened(proc[p]) \cup {n}
        BY <1>3, <1>11, <2>1, MapConstructed
    <2>3. rec \in Rec
        <3>1. ReadMetadata(n) = RecordOf(metas, n)
            BY DEF ReadMetadata, RecordOf
        <3>. QED
            BY <2>1, <3>1, RecordsTyped DEF MetaInv
    <2>4. r.held \in [Name -> Rec] /\ r.held[n] = rec
          /\ \A m \in Name : m # n => r.held[m] = proc[p].held[m]
        BY <1>6, <2>2, <2>3
    <2>5. r.pc \in Served /\ r.pc \notin Making
        BY <2>2 DEF Served, Making
    <2>6. ASSUME Kept, NEW m \in Opened(r) PROVE Covers(r.held[m], segs'[m].keys)
        <3>1. CASE m = n
            <4>1. segs'[n].keys = {}
                <5>1. Creating(p) /\ segs' = [segs EXCEPT ![n].map = TRUE]
                    BY <1>3, <1>11 DEF ConstructMap, Creating
                <5>2. n \in DOMAIN segs /\ segs[n].keys = {} /\ segs[n] \in File
                    BY <1>3, <5>1, CreationHollow
                <5>3. segs'[n] = [segs[n] EXCEPT !.map = TRUE]
                    BY <5>1, <5>2 DEF StoreInv, DiskShape
                <5>. QED
                    BY <5>2, <5>3 DEF File
            <4>. QED
                BY <2>3, <2>4, <3>1, <4>1, CoversNothing
        <3>2. CASE m # n
            <4>1. m \in Opened(proc[p]) /\ m \in Name
                BY <1>8, <2>2, <2>6, <3>2
            <4>2. Covers(proc[p].held[m], segs'[m].keys)
                BY <1>7, <2>2, <2>5, <2>6, <4>1
            <4>. QED
                BY <2>4, <3>2, <4>1, <4>2
        <3>. QED
            BY <3>1, <3>2
    <2>7. ProcMeta(r, segs', Kept)
        BY <2>4, <2>5, <2>6 DEF ProcMeta
    <2>8. ASSUME NEW k \in proc[p].mapped PROVE ActiveOf(r.cat, k) = ActiveOf(proc[p].cat, k)
        <3>1. k # n[1]
            BY <1>6
        <3>2. VersionsOf(r.cat, k) = VersionsOf(proc[p].cat, k)
            BY <2>2, <3>1 DEF VersionsOf
        <3>. QED
            BY <3>2 DEF ActiveOf
    <2>9. Unsaved(proc[p]) \subseteq Unsaved(r)
        <3>1. CASE ~proc[p].rotating
            BY <1>5, <3>1
        <3>2. CASE proc[p].rotating
            <4>1. Unsaved(r) = {<<k, ActiveOf(r.cat, k)>> : k \in r.mapped}
                BY <2>2, <3>2 DEF Unsaved
            <4>2. Unsaved(proc[p]) = {<<k, ActiveOf(proc[p].cat, k)>> : k \in proc[p].mapped}
                BY <1>1, <3>2 DEF Unsaved
            <4>. QED
                BY <2>2, <2>8, <4>1, <4>2
        <3>. QED
            BY <3>1, <3>2
    <2>. QED
        BY <1>1, <1>4, <2>2, <2>7, <2>9, MetaGoesOn
<1>. QED
    BY <1>9, <1>10, <1>11, CreationSteps

\* Records stay records.
LEMMA ChangedRecords ==
    ASSUME NEW m \in Rec
    PROVE  Shrunk(m) \in Rec /\ \A key \in Nat : Grown(m, key) \in Rec
<1>1. ASSUME NEW key \in Nat PROVE Grown(m, key) \in Rec
    <2>. DEFINE K == {}
    <2>1. IsFiniteSet(K) /\ K \subseteq Nat /\ Covers(m, K)
        BY CoversNothing, FS_EmptySet
    <2>. HIDE DEF K
    <2>. QED
        BY <2>1, GrownCovers
<1>2. Shrunk(m) \in Rec
    <2>1. m.n \in Nat /\ m.lo \in Nat /\ m.hi \in Nat /\ m.known \in BOOLEAN /\ (m.known \/ m.n = 0)
        BY DEF Rec
    <2>2. CASE m.n > 0
        <3>1. m.n - 1 \in Nat /\ m.known
            BY <2>1, <2>2
        <3>2. [m EXCEPT !.n = m.n - 1] \in Rec
            BY <2>1, <3>1 DEF Rec
        <3>. QED
            BY <2>2, <3>2 DEF Shrunk
    <2>3. CASE ~(m.n > 0)
        BY <2>3 DEF Shrunk
    <2>. QED
        BY <2>2, <2>3
<1>. QED
    BY <1>1, <1>2

\* What is on disk once the records of some versions have been saved.
LEMMA SavedRecords ==
    ASSUME metas \in [DOMAIN metas -> Rec], NEW held \in [Name -> Rec], NEW S \in SUBSET Name,
           SaveMetadata(held, S)
    PROVE  /\ metas' \in [DOMAIN metas' -> Rec]
           /\ \A n : n \notin S => RecordOf(metas', n) = RecordOf(metas, n)
           /\ \A n \in S : \A K :
                 IsFiniteSet(K) /\ Covers(held[n], K) => Covers(RecordOf(metas', n), K)
<1>. DEFINE T == {n \in S : held[n].known}
<1>1. metas' = [n \in DOMAIN metas \cup T |-> IF n \in T THEN held[n] ELSE metas[n]]
    BY DEF SaveMetadata, WriteMetadata
<1>2. T \subseteq S /\ T \subseteq Name
    OBVIOUS
<1>3. \A n \in S : ~held[n].known => n \notin T
    OBVIOUS
<1>4. \A n \in S : held[n].known => n \in T
    OBVIOUS
<1>. HIDE DEF T
<1>5. DOMAIN metas' = DOMAIN metas \cup T
    BY <1>1
<1>6. metas' \in [DOMAIN metas' -> Rec]
    BY <1>1, <1>2
<1>7. \A n : n \notin T => RecordOf(metas', n) = RecordOf(metas, n)
    BY <1>1, <1>5 DEF RecordOf
<1>8. \A n \in T : RecordOf(metas', n) = held[n]
    BY <1>1, <1>5 DEF RecordOf
<1>9. ASSUME NEW n \in S, NEW K, IsFiniteSet(K), Covers(held[n], K)
      PROVE  Covers(RecordOf(metas', n), K)
    <2>1. CASE held[n].known
        BY <1>4, <1>8, <1>9, <2>1
    <2>2. CASE ~held[n].known
        <3>1. K = {}
            BY <1>9, <2>2, CoversSomething
        <3>2. RecordOf(metas', n) \in Rec
            BY <1>6, RecordsTyped
        <3>. QED
            BY <3>1, <3>2, CoversNothing
    <2>. QED
        BY <2>1, <2>2
<1>10. \A n : n \notin S => RecordOf(metas', n) = RecordOf(metas, n)
    BY <1>2, <1>7
<1>. QED
    BY <1>6, <1>9, <1>10

\* What a process with a session has: all its classes opened, and their records.
LEMMA SessionKnows ==
    ASSUME StoreInv, ContentInv, MetaInv, NEW p \in Proc, proc[p].pc \in {"open", "latched"}
    PROVE  /\ Claimed(p) /\ proc[p].pc \in Served /\ IsProcess(proc[p])
           /\ proc[p].cat \subseteq DOMAIN segs /\ proc[p].cat \subseteq Name
           /\ Opened(proc[p]) = proc[p].cat /\ proc[p].todo = {}
           /\ Unsaved(proc[p]) = {<<k, ActiveOf(proc[p].cat, k)>> : k \in proc[p].mapped}
           /\ \A k \in proc[p].mapped : <<k, ActiveOf(proc[p].cat, k)>> \in proc[p].cat
           /\ proc[p].held \in [Name -> Rec]
           /\ Kept => \A n \in proc[p].cat : Covers(proc[p].held[n], segs[n].keys)
           /\ \A n \in DOMAIN segs : IsFiniteSet(segs[n].keys) /\ segs[n].keys \subseteq Nat
<1>1. Claimed(p) /\ proc[p].pc \in Served
    BY DEF Claimed, Served
<1>2. CataloguePart(p) /\ IsProcess(proc[p])
    BY <1>1, OfClaimant
<1>3. proc[p].cat \subseteq DOMAIN segs /\ proc[p].todo = {} /\ DiskShape
    BY <1>1, <1>2 DEF CataloguePart, StoreInv
<1>4. proc[p].cat \subseteq Name /\ Opened(proc[p]) = proc[p].cat
    BY <1>3 DEF DiskShape, Opened
<1>5. Unsaved(proc[p]) = {<<k, ActiveOf(proc[p].cat, k)>> : k \in proc[p].mapped}
    BY DEF Unsaved
<1>6. \A k \in proc[p].mapped : <<k, ActiveOf(proc[p].cat, k)>> \in proc[p].cat
    BY <1>4, ActiveThere DEF ContentInv, ProcContent
<1>7. ProcMeta(proc[p], segs, Kept)
    BY DEF MetaInv
<1>8. /\ proc[p].held \in [Name -> Rec]
      /\ Kept => \A n \in proc[p].cat : Covers(proc[p].held[n], segs[n].keys)
    BY <1>1, <1>4, <1>7 DEF ProcMeta
<1>9. \A n \in DOMAIN segs : IsFiniteSet(segs[n].keys) /\ segs[n].keys \subseteq Nat
    <2>1. \A n \in DOMAIN segs : segs[n].keys \subseteq Nat
        BY <1>3, OpeningAssumption DEF DiskShape, File
    <2>. QED
        BY <1>3, <2>1, FiniteStore
<1>. QED
    BY <1>1, <1>2, <1>3, <1>4, <1>5, <1>6, <1>8, <1>9

\* The session changes the keys of one version and its record with them.
LEMMA KeysMeta ==
    ASSUME StoreInv, ContentInv, MetaInv, NEW p \in Proc, Serving(p), NEW r, IsProcess(r),
           proc' = [proc EXCEPT ![p] = r], UNCHANGED <<metas, wounded, unclean>>,
           r.pc = proc[p].pc, r.cat = proc[p].cat, r.mapped = proc[p].mapped,
           r.todo = proc[p].todo,
           NEW n \in proc[p].cat, NEW K, segs' = [segs EXCEPT ![n].keys = K],
           NEW m \in Rec, r.held = [proc[p].held EXCEPT ![n] = m], Kept => Covers(m, K),
           Kept => Covers(RecordOf(metas, n), K) \/ n \in Unsaved(proc[p])
    PROVE  MetaInv'
<1>1. proc[p].pc = "open"
    BY DEF Serving
<1>2. /\ Claimed(p) /\ proc[p].cat \subseteq DOMAIN segs /\ proc[p].cat \subseteq Name
      /\ Opened(proc[p]) = proc[p].cat /\ proc[p].held \in [Name -> Rec]
      /\ Kept => \A j \in proc[p].cat : Covers(proc[p].held[j], segs[j].keys)
    BY <1>1, SessionKnows
<1>3. /\ DOMAIN segs' = DOMAIN segs /\ segs'[n].keys = K
      /\ \A j \in DOMAIN segs : j # n => segs'[j] = segs[j]
    BY <1>2, KeysSet DEF StoreInv
<1>4. /\ r.held \in [Name -> Rec] /\ r.held[n] = m
      /\ \A j \in Name : j # n => r.held[j] = proc[p].held[j]
    BY <1>2
<1>5. Opened(r) = proc[p].cat /\ Unsaved(r) = Unsaved(proc[p])
    BY <1>1, <1>2 DEF Opened, Unsaved
<1>6. ASSUME Kept, NEW j \in Opened(r) PROVE Covers(r.held[j], segs'[j].keys)
    BY <1>2, <1>3, <1>4, <1>5, <1>6
<1>7. r.pc \notin Making
    BY <1>1 DEF Making
<1>8. ProcMeta(r, segs', Kept)
    BY <1>4, <1>6, <1>7 DEF ProcMeta
<1>9. ASSUME Kept, NEW j \in DOMAIN segs'
      PROVE  Covers(RecordOf(metas, j), segs'[j].keys) \/ j \in Unsaved(r)
    <2>1. CASE j = n
        BY <1>3, <1>5, <1>9, <2>1
    <2>2. CASE j # n
        BY <1>2, <1>3, <1>5, <1>9, <2>2, OthersSaved
    <2>. QED
        BY <2>1, <2>2
<1>10. Kept' = Kept /\ metas \in [DOMAIN metas -> Rec]
    BY DEF Kept, MetaInv
<1>. QED
    BY <1>2, <1>8, <1>9, <1>10, MetaMoves

\* An insertion is recorded by the process that has the version active.
LEMMA InsertMeta ==
    ASSUME StoreInv, ContentInv, MetaInv, NEW p \in Proc, NEW k, NEW key \in Key,
           Insert(p, k, key)
    PROVE  MetaInv'
<1>1. /\ Serving(p) /\ proc[p].pc = "open" /\ k \in proc[p].mapped
      /\ UNCHANGED <<metas, wounded, unclean>>
    BY DEF Insert, Serving
<1>2. PICK n : n = <<k, ActiveOf(proc[p].cat, k)>>
    OBVIOUS
<1>3. /\ IsProcess(proc[p]) /\ n \in proc[p].cat /\ n \in Name /\ n \in Unsaved(proc[p])
      /\ n \in DOMAIN segs /\ proc[p].held \in [Name -> Rec]
      /\ Kept => Covers(proc[p].held[n], segs[n].keys)
      /\ IsFiniteSet(segs[n].keys) /\ segs[n].keys \subseteq Nat
    BY <1>1, <1>2, SessionKnows
<1>. DEFINE m == Grown(proc[p].held[n], key)
            K == segs[n].keys \cup {key}
            r == [proc[p] EXCEPT !.held[n] = Grown(@, key), !.count = @ + 1]
<1>4. /\ IsProcess(r) /\ r.pc = proc[p].pc /\ r.mapped = proc[p].mapped
      /\ r.cat = proc[p].cat /\ r.todo = proc[p].todo /\ r.held = [proc[p].held EXCEPT ![n] = m]
    BY <1>3 DEF IsProcess, Field
<1>5. proc' = [proc EXCEPT ![p] = r] /\ segs' = [segs EXCEPT ![n].keys = K]
    BY <1>2 DEF Insert, Becomes
<1>. HIDE DEF r
<1>6. key \in Nat /\ proc[p].held[n] \in Rec
    BY <1>3, OpeningAssumption
<1>7. m \in Rec /\ (Kept => Covers(m, K))
    BY <1>3, <1>6, ChangedRecords, GrownCovers
<1>. HIDE DEF m, K
<1>. QED
    BY <1>1, <1>3, <1>4, <1>5, <1>7, KeysMeta

\* A deletion leaves a record on disk that covers more than there is.
LEMMA EraseMeta ==
    ASSUME StoreInv, ContentInv, MetaInv, NEW p \in Proc, NEW n, NEW key \in Key,
           Erase(p, n, key)
    PROVE  MetaInv'
<1>1. /\ Serving(p) /\ proc[p].pc = "open" /\ n \in proc[p].cat /\ key \in segs[n].keys
      /\ UNCHANGED <<metas, wounded, unclean>>
    BY DEF Erase, Serving, KeysOn
<1>2. /\ IsProcess(proc[p]) /\ n \in Name /\ Claimed(p)
      /\ n \in DOMAIN segs /\ proc[p].held \in [Name -> Rec]
      /\ Kept => Covers(proc[p].held[n], segs[n].keys)
      /\ IsFiniteSet(segs[n].keys)
    BY <1>1, SessionKnows
<1>. DEFINE m == Shrunk(proc[p].held[n])
            K == segs[n].keys \ {key}
            r == [proc[p] EXCEPT !.held[n] = Shrunk(@), !.count = @ - 1]
<1>3. /\ IsProcess(r) /\ r.pc = proc[p].pc /\ r.mapped = proc[p].mapped
      /\ r.cat = proc[p].cat /\ r.todo = proc[p].todo /\ r.held = [proc[p].held EXCEPT ![n] = m]
    BY <1>2 DEF IsProcess, Field
<1>4. proc' = [proc EXCEPT ![p] = r] /\ segs' = [segs EXCEPT ![n].keys = K]
    BY DEF Erase, Becomes
<1>. HIDE DEF r
<1>5. proc[p].held[n] \in Rec /\ RecordOf(metas, n) \in Rec
    BY <1>2, RecordsTyped DEF MetaInv
<1>6. m \in Rec /\ (Kept => Covers(m, K))
    BY <1>1, <1>2, <1>5, ChangedRecords, ShrunkCovers
<1>7. Kept => Covers(RecordOf(metas, n), K) \/ n \in Unsaved(proc[p])
    <2>. SUFFICES ASSUME Kept, Covers(RecordOf(metas, n), segs[n].keys)
                  PROVE  Covers(RecordOf(metas, n), K)
        BY <1>2, OthersSaved
    <2>. QED
        BY <1>1, <1>2, <1>5, ShrunkCovers
<1>. HIDE DEF m, K
<1>. QED
    BY <1>1, <1>3, <1>4, <1>6, <1>7, KeysMeta

\* A rotation saves the record of the version it leaves, or says that it could not.
LEMMA RotateMeta ==
    ASSUME StoreInv, ContentInv, MetaInv, NEW p \in Proc, NEW k, Rotate(p, k)
    PROVE  MetaInv'
<1>1. /\ proc[p].pc = "open" /\ k \in proc[p].mapped /\ UNCHANGED <<segs, wounded>>
    BY DEF Rotate, Serving
<1>2. /\ Claimed(p) /\ proc[p].pc \in Served /\ IsProcess(proc[p])
      /\ proc[p].cat \subseteq DOMAIN segs /\ proc[p].cat \subseteq Name
      /\ Unsaved(proc[p]) = {<<j, ActiveOf(proc[p].cat, j)>> : j \in proc[p].mapped}
      /\ \A j \in proc[p].mapped : <<j, ActiveOf(proc[p].cat, j)>> \in proc[p].cat
      /\ proc[p].held \in [Name -> Rec]
      /\ Kept => \A n \in proc[p].cat : Covers(proc[p].held[n], segs[n].keys)
      /\ \A n \in DOMAIN segs : IsFiniteSet(segs[n].keys)
    BY <1>1, SessionKnows
<1>3. PICK old : old = <<k, ActiveOf(proc[p].cat, k)>>
    OBVIOUS
<1>4. PICK next : next = <<k, ActiveOf(proc[p].cat, k) + 1>>
    OBVIOUS
<1>. DEFINE r == [proc[p] EXCEPT !.pc = "create", !.at = next, !.rotating = TRUE,
                                 !.mapped = @ \ {k}]
<1>5. /\ IsProcess(r) /\ r.pc = "create" /\ r.at = next /\ r.rotating = TRUE
      /\ r.mapped = proc[p].mapped \ {k} /\ r.cat = proc[p].cat /\ r.todo = proc[p].todo
      /\ r.held = proc[p].held
    BY <1>2 DEF IsProcess, Field
<1>6. proc' = [proc EXCEPT ![p] = r]
    BY <1>4 DEF Rotate, Becomes
<1>. HIDE DEF r
<1>7. old \in proc[p].cat /\ old \in Name /\ old \in DOMAIN segs /\ {old} \in SUBSET Name
    BY <1>1, <1>2, <1>3
<1>8. ProcMeta(proc[p], segs, Kept) /\ metas \in [DOMAIN metas -> Rec]
    BY DEF MetaInv
<1>9. Opened(r) = Opened(proc[p]) /\ r.at[1] \notin r.mapped
    BY <1>4, <1>5 DEF Opened
<1>10. ProcMeta(r, segs, Kept)
    BY <1>2, <1>5, <1>8, <1>9 DEF ProcMeta
<1>11. Unsaved(r) = {<<j, ActiveOf(proc[p].cat, j)>> : j \in proc[p].mapped \ {k}}
    BY <1>5 DEF Unsaved, Making
<1>12. \A n \in Unsaved(proc[p]) : n = old \/ n \in Unsaved(r)
    BY <1>2, <1>3, <1>11
<1>13. CASE SaveMetadata(proc[p].held, {old}) /\ UNCHANGED unclean
    <2>1. /\ metas' \in [DOMAIN metas' -> Rec]
          /\ \A n : n # old => RecordOf(metas', n) = RecordOf(metas, n)
          /\ \A K : IsFiniteSet(K) /\ Covers(proc[p].held[old], K) =>
                Covers(RecordOf(metas', old), K)
        BY <1>2, <1>7, <1>8, <1>13, SavedRecords
    <2>2. Kept' = Kept
        BY <1>1, <1>13 DEF Kept
    <2>3. ASSUME Kept, NEW n \in DOMAIN segs
          PROVE  Covers(RecordOf(metas', n), segs[n].keys) \/ n \in Unsaved(r)
        <3>1. CASE n = old
            BY <1>2, <1>7, <2>1, <2>3, <3>1
        <3>2. CASE n # old
            BY <1>2, <1>12, <2>1, <2>3, <3>2, OthersSaved
        <3>. QED
            BY <3>1, <3>2
    <2>. QED
        BY <1>1, <1>2, <1>5, <1>6, <1>10, <2>1, <2>2, <2>3, MetaMoves
<1>14. CASE unclean' = TRUE /\ UNCHANGED metas
    <2>1. ~Kept'
        BY <1>14 DEF Kept
    <2>2. ProcMeta(r, segs', Kept')
        BY <1>10, <2>1 DEF ProcMeta
    <2>. QED
        BY <1>2, <1>5, <1>6, <1>8, <1>14, <2>1, <2>2, MetaMoves
<1>. QED
    BY <1>3, <1>13, <1>14 DEF Rotate

\* close() saves the records of the active versions, or says that it could not; a
\* process that dies with versions active takes their records with it.
LEMMA EndMeta ==
    ASSUME StoreInv, ContentInv, MetaInv, NEW p \in Proc, Close(p) \/ Crash(p)
    PROVE  MetaInv'
<1>1. proc' = [proc EXCEPT ![p] = Gone] /\ UNCHANGED <<segs, wounded>>
    BY DEF Close, Crash, Refuse, disk
<1>2. CASE Crash(p)
    <2>1. UNCHANGED metas /\ unclean' = (unclean \/ proc[p].mapped # {})
        BY <1>2 DEF Crash, disk
    <2>2. Kept' => Kept /\ Unsaved(proc[p]) = {}
        BY <1>1, <2>1 DEF Kept, Unsaved
    <2>. QED
        BY <1>1, <2>1, <2>2, GoneIsProcess, MetaRests DEF Served
<1>3. CASE Close(p)
    <2>1. proc[p].pc \in {"open", "latched"}
        BY <1>3 DEF Close
    <2>2. /\ Claimed(p) /\ proc[p].cat \subseteq DOMAIN segs /\ proc[p].cat \subseteq Name
          /\ Unsaved(proc[p]) = ActiveVersions(p) /\ ActiveVersions(p) \subseteq proc[p].cat
          /\ proc[p].held \in [Name -> Rec]
          /\ Kept => \A n \in proc[p].cat : Covers(proc[p].held[n], segs[n].keys)
          /\ \A n \in DOMAIN segs : IsFiniteSet(segs[n].keys)
        BY <2>1, SessionKnows DEF ActiveVersions
    <2>3. PICK S \in SUBSET ActiveVersions(p) :
              /\ SaveMetadata(proc[p].held, S)
              /\ IF S = ActiveVersions(p) THEN UNCHANGED unclean ELSE unclean' = TRUE
        BY <1>3 DEF Close
    <2>4. S \in SUBSET Name /\ metas \in [DOMAIN metas -> Rec]
        BY <2>2 DEF MetaInv
    <2>5. /\ metas' \in [DOMAIN metas' -> Rec]
          /\ \A n : n \notin S => RecordOf(metas', n) = RecordOf(metas, n)
          /\ \A n \in S : \A K : IsFiniteSet(K) /\ Covers(proc[p].held[n], K) =>
                Covers(RecordOf(metas', n), K)
        BY <2>2, <2>3, <2>4, SavedRecords
    <2>6. ASSUME Kept', NEW n \in DOMAIN segs PROVE Covers(RecordOf(metas', n), segs[n].keys)
        <3>1. Kept /\ S = ActiveVersions(p)
            BY <1>1, <2>3, <2>6 DEF Kept
        <3>2. CASE n \in S
            BY <2>2, <2>5, <3>1, <3>2
        <3>3. CASE n \notin S
            BY <2>2, <2>5, <3>1, <3>3, OthersSaved
        <3>. QED
            BY <3>2, <3>3
    <2>7. ProcMeta(Gone, segs', Kept')
        BY GoneIsProcess DEF ProcMeta, Served
    <2>. QED
        BY <1>1, <2>2, <2>5, <2>6, <2>7, GoneIsProcess, MetaMoves
<1>. QED
    BY <1>2, <1>3

\* Whatever record there is for the name of a file brought in by hand, the file holds
\* nothing that counts.
LEMMA StrayMeta ==
    ASSUME StoreInv, ContentInv, MetaInv, NEW n \in Name, NEW s, Stray(n, s)
    PROVE  MetaInv'
<1>1. UNCHANGED <<proc, metas, wounded, unclean>> /\ n \notin DOMAIN segs
    BY DEF Stray
<1>. DEFINE f == [sized |-> TRUE, stamp |-> s, map |-> TRUE, keys |-> {}, by |-> NoBuild]
<1>2. f.keys = {}
    OBVIOUS
<1>3. segs' = [m \in DOMAIN segs \cup {n} |-> IF m = n THEN f ELSE segs[m]]
    BY DEF Stray
<1>. HIDE DEF f
<1>4. /\ DOMAIN segs' = DOMAIN segs \cup {n} /\ segs'[n].keys = {}
      /\ \A m \in DOMAIN segs : segs'[m] = segs[m]
    BY <1>1, <1>2, <1>3
<1>5. Kept' = Kept /\ metas' \in [DOMAIN metas' -> Rec] /\ metas \in [DOMAIN metas -> Rec]
    BY <1>1 DEF Kept, MetaInv
<1>6. ASSUME NEW p \in Proc PROVE ProcMeta(proc[p], segs', Kept)
    <2>1. CASE proc[p].pc = "open"
        <3>1. proc[p].cat \subseteq DOMAIN segs /\ Opened(proc[p]) = proc[p].cat
            BY <2>1, SessionKnows
        <3>2. ProcMeta(proc[p], segs, Kept)
            BY DEF MetaInv
        <3>. QED
            BY <1>4, <3>1, <3>2 DEF ProcMeta
    <2>2. CASE proc[p].pc = "idle"
        BY <2>2 DEF ProcMeta, Served
    <2>. QED
        BY <2>1, <2>2 DEF Stray
<1>7. ASSUME Kept, NEW m \in DOMAIN segs'
      PROVE  Covers(RecordOf(metas, m), segs'[m].keys) \/ \E p \in Proc : m \in Unsaved(proc[p])
    <2>1. CASE m = n
        <3>1. RecordOf(metas, m) \in Rec
            BY <1>5, RecordsTyped
        <3>. QED
            BY <1>4, <2>1, <3>1, CoversNothing
    <2>2. CASE m # n
        BY <1>4, <1>7, <2>2 DEF MetaInv
    <2>. QED
        BY <2>1, <2>2
<1>. QED
    BY <1>1, <1>5, <1>6, <1>7 DEF MetaInv

\* An empty directory, a closed store whose one entry is on record, or one whose merge was
\* cut short and lost a record.
LEMMA MetaStarts ==
    ASSUME Init
    PROVE  MetaInv
<1>1. \A p \in Proc : ProcMeta(proc[p], segs, Kept)
    <2>1. \A p \in Proc : proc[p].pc = "idle"
        BY GoneIsProcess DEF Init
    <2>. QED
        BY <2>1 DEF ProcMeta, Served
<1>2. CASE segs = <<>> /\ metas = <<>>
    <2>1. DOMAIN segs = {} /\ metas \in [DOMAIN metas -> Rec]
        BY <1>2
    <2>. QED
        BY <1>1, <2>1 DEF MetaInv
<1>3. ASSUME NEW mode \in {"full", "reference"}, ClosedStore(AnyProc, mode, Min(Key))
      PROVE  MetaInv
    <2>1. PICK b : b = BuildOf[AnyProc]
        OBVIOUS
    <2>2. PICK key : key = Min(Key)
        OBVIOUS
    <2>3. key \in Nat
        BY <2>2, OpeningAssumption, MinOf
    <2>. DEFINE first == <<Min(Kinds(mode)), 0>>
                files == Kinds(mode) \X {0}
                made(n) == [sized |-> TRUE, stamp |-> LocalIdentity(b, 1, n), map |-> TRUE,
                            keys |-> IF n = first THEN {key} ELSE {}, by |-> b]
                rec == Grown(Unknown, key)
    <2>4. segs = [n \in files |-> made(n)] /\ metas = [n \in {first} |-> rec]
        BY <1>3, <2>1, <2>2 DEF ClosedStore, OwnFile
    <2>5. \A n \in files : made(n).keys = IF n = first THEN {key} ELSE {}
        OBVIOUS
    <2>. HIDE DEF made, files, first
    <2>6. DOMAIN segs = files /\ \A n \in files : segs[n] = made(n)
        BY <2>4
    <2>7. rec \in Rec /\ Covers(rec, {key})
        <3>. DEFINE K == {}
        <3>1. IsFiniteSet(K) /\ K \subseteq Nat /\ Covers(Unknown, K) /\ Unknown \in Rec
            BY RecordsTyped, CoversNothing, FS_EmptySet
        <3>2. K \cup {key} = {key}
            OBVIOUS
        <3>. HIDE DEF K
        <3>3. Covers(rec, K \cup {key}) /\ rec \in Rec
            BY <2>3, <3>1, GrownCovers
        <3>. QED
            BY <3>2, <3>3
    <2>. HIDE DEF rec
    <2>8. metas \in [DOMAIN metas -> Rec] /\ DOMAIN metas = {first} /\ metas[first] = rec
        BY <2>4, <2>7
    <2>9. ASSUME NEW n \in DOMAIN segs PROVE Covers(RecordOf(metas, n), segs[n].keys)
        <3>1. CASE n = first
            BY <2>5, <2>6, <2>7, <2>8, <3>1 DEF RecordOf
        <3>2. CASE n # first
            <4>1. segs[n].keys = {} /\ RecordOf(metas, n) \in Rec
                BY <2>5, <2>6, <2>8, <3>2, RecordsTyped
            <4>. QED
                BY <4>1, CoversNothing
        <3>. QED
            BY <3>1, <3>2
    <2>. QED
        BY <1>1, <2>8, <2>9 DEF MetaInv
<1>4. ASSUME NEW mode, NEW published, MergingStore(AnyProc, mode, Min(Key), published)
      PROVE  MetaInv
    <2>1. PICK key : key = Min(Key)
        OBVIOUS
    <2>2. PICK k : k = Min(Kinds(mode))
        OBVIOUS
    <2>. DEFINE rec == Grown(Unknown, key)
                name == <<k, 0>>
    <2>3. unclean = TRUE /\ metas = [n \in {name} |-> rec]
        BY <1>4, <2>1, <2>2 DEF MergingStore
    <2>4. rec \in Rec
        <3>1. key \in Nat
            BY <2>1, OpeningAssumption, MinOf
        <3>. QED
            BY <3>1 DEF Grown, Unknown, Rec
    <2>. HIDE DEF rec, name
    <2>5. metas \in [DOMAIN metas -> Rec] /\ ~Kept
        BY <2>3, <2>4 DEF Kept
    <2>. QED
        BY <1>1, <2>5 DEF MetaInv
<1>. QED
    BY <1>2, <1>3, <1>4 DEF Init

\* Every record, in memory and on disk, covers its version, unless a record was lost:
\* across the sessions of all processes, their rotations, failures and crashes.
THEOREM MetadataInvariant == Spec => []MetaInv
<1>1. Init => MetaInv
    BY MetaStarts
<1>2. StoreInv /\ StoreInv' /\ MergeInv /\ ContentInv /\ MetaInv /\ [Next]_vars => MetaInv'
    <2>. SUFFICES ASSUME StoreInv, StoreInv', MergeInv, ContentInv, MetaInv, [Next]_vars
                  PROVE  MetaInv'
        OBVIOUS
    <2>1. ASSUME NEW p \in Proc, Opening(p) PROVE MetaInv'
        BY <2>1, EarlyMeta, RemoveMeta, RecoverMeta, EnumerateMeta, ServeMeta DEF Opening
    <2>2. ASSUME NEW p \in Proc, Creation(p) PROVE MetaInv'
        BY <2>2, CreationMeta DEF Creation
    <2>3. ASSUME NEW p \in Proc, Session(p) \/ Crash(p) PROVE MetaInv'
        BY <2>3, InsertMeta, EraseMeta, RotateMeta, EndMeta DEF Session
    <2>4. CASE Next
        BY <2>1, <2>2, <2>3, <2>4, StrayMeta DEF Next
    <2>5. CASE UNCHANGED vars
        BY <2>5 DEF vars, MetaInv, Kept
    <2>. QED
        BY <2>4, <2>5
<1>. QED
    BY <1>1, <1>2, StoreInvariant, MergeInvariant, ContentInvariant, PTL DEF Spec

\* A record that a process serving the store holds covers the version it describes, in
\* its number of entries and in its range of keys: through open(), rotations and close()
\* of any number of processes, none of them having lost a record.
THEOREM MetadataCoversHolds == Spec => []MetadataCovers
<1>1. StoreInv /\ ContentInv /\ MetaInv => MetadataCovers
    <2>. SUFFICES ASSUME StoreInv, ContentInv, MetaInv, NEW p \in Proc, Serving(p), Kept,
                         NEW n \in proc[p].cat
                  PROVE  /\ proc[p].held[n].n >= Cardinality(KeysOn(n))
                         /\ \A key \in KeysOn(n) :
                               key \in proc[p].held[n].lo .. proc[p].held[n].hi
        BY DEF MetadataCovers, Kept
    <2>1. /\ n \in DOMAIN segs /\ proc[p].held[n] \in Rec
          /\ Covers(proc[p].held[n], segs[n].keys) /\ segs[n].keys \subseteq Nat
        BY SessionKnows DEF Serving
    <2>2. proc[p].held[n].lo \in Nat /\ proc[p].held[n].hi \in Nat
        BY <2>1 DEF Rec
    <2>. QED
        BY <2>1, <2>2 DEF Covers, KeysOn
<1>. QED
    BY <1>1, StoreInvariant, ContentInvariant, MetadataInvariant, PTL
=============================================================================
