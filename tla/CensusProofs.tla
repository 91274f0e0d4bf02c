---------------------------- MODULE CensusProofs ----------------------------
(***************************************************************************)
(* The census, proved of Inspection for every store, every length of an    *)
(* entry and every size of a segment and of what is in it: on a store      *)
(* nobody disturbed its report covers every version once, its totals are   *)
(* those of the files, the figures of a class agree with each other, and   *)
(* no total is called measured of which a part is missing.                 *)
(*                                                                         *)
(* The argument goes from the figures of one version to sums over disjoint *)
(* sets of versions, to the tally of a census under way, which accounts at *)
(* every step for the versions it has come past, and to the report.        *)
(***************************************************************************)
EXTENDS UniquenessProofs

-----------------------------------------------------------------------------
(* The figures of one version *)

\* A reference store has one class.
ModeType ==
    /\ mode \in {"full", "reference"}
    /\ mode = "reference" => \A n \in DOMAIN gens : n[1] = 0

\* A figure that may be absent, and the figures of a version, a class or a store.
FigureType == [status : {"measured", "not_applicable", "unavailable"}, bytes : Nat]
SumsType == [exact : [Exact -> Nat], opt : [Optional -> FigureType]]

\* Where a figure does not apply to any version.
Never(f, o) == (f = "physical" /\ ~o.blocks) \/ (f = "unused" /\ mode = "reference")

\* A figure that was looked for: a number, or that there is none.
Given(v) == v = Unavailable \/ (v.bytes \in Nat /\ v = Measured(v.bytes))

\* A checked product is a number, cut off or not.
LEMMA CheckedMulNat == \A a, b \in Nat : CheckedMul(a, b).value \in Nat
<1>. SUFFICES ASSUME NEW a \in Nat, NEW b \in Nat PROVE CheckedMul(a, b).value \in Nat
    OBVIOUS
<1>. DEFINE p == a * b
            m == Limit + 1
<1>1. p \in Nat
    BY ProductNat
<1>2. m \in Nat /\ m > 0
    BY EntriesAssumption
<1>3. CheckedMul(a, b).value = p % m
    BY DEF CheckedMul
<1>. HIDE DEF p, m
<1>4. p % m \in Nat
    BY <1>1, <1>2
<1>. QED
    BY <1>3, <1>4

\* The sizes the census is given are numbers.
LEMMA CensusNumbers ==
    /\ SegmentSize \in Nat /\ Buckets \in Nat /\ SlotBytes \in Nat /\ ReferenceBytes \in Nat
    /\ Blocks \in Nat /\ \A k \in Class : Capacity[k] \in Nat
    /\ \A key \in Key : LengthOf[key] \in Nat
    /\ GroupMetadata(Buckets).value \in Nat
    /\ Buckets * SlotBytes \in Nat
<1>. USE CensusAssumption
<1>1. Buckets \in Nat
    OBVIOUS
<1>2. Buckets \div 15 + 1 \in Nat
    BY <1>1
<1>3. GroupMetadata(Buckets).value \in Nat
    BY <1>2, CheckedMulNat DEF GroupMetadata
<1>4. Buckets * SlotBytes \in Nat
    BY ProductNat
<1>. QED
    BY <1>3, <1>4

\* The recorded lengths of a version's entries are numbers, and so is their sum.
LEMMA PayloadNat ==
    ASSUME StoreType, NEW n \in DOMAIN gens
    PROVE  /\ IsFiniteSet(gens[n].keys) /\ EntriesOf(n) \in Nat /\ Capacity[n[1]] \in Nat
           /\ \A key \in gens[n].keys : RecordedLength(n, key) \in Nat
           /\ Payload(n) \in Nat
           /\ Payload(n) = SumFunctionOnSet([key \in gens[n].keys |-> RecordedLength(n, key)],
                                            gens[n].keys)
<1>1. gens[n].keys \subseteq Key /\ n[1] \in Class
    BY DEF StoreType, Version
<1>2. IsFiniteSet(gens[n].keys)
    BY <1>1, EntriesAssumption, FS_Subset
<1>3. Capacity[n[1]] \in Nat /\ Capacity[n[1]] + 1 \in Nat
    BY <1>1, CensusNumbers
<1>4. \A key \in gens[n].keys : RecordedLength(n, key) \in Nat
    BY <1>1, <1>3, CensusNumbers DEF RecordedLength
<1>. DEFINE f == [key \in gens[n].keys |-> RecordedLength(n, key)]
<1>5. Payload(n) = SumFunctionOnSet(f, gens[n].keys)
    BY DEF Payload, SumFunction
<1>6. SumFunctionOnSet(f, gens[n].keys) \in Nat
    <2>1. \A key \in gens[n].keys : f[key] \in Nat
        BY <1>4
    <2>. HIDE DEF f
    <2>. QED
        BY <1>2, <2>1, SumNat
<1>. QED
    BY <1>2, <1>3, <1>4, <1>5, <1>6, FS_CardinalityType DEF EntriesOf

\* A version that is counted has no more entries than the map has buckets.
LEMMA CountedBuckets ==
    ASSUME StoreType, NEW n \in DOMAIN gens, VersionRefusal(n) = "ok"
    PROVE  /\ BucketsOf(n) = Buckets /\ EntriesOf(n) <= Buckets
           /\ mode = "full" => \A key \in gens[n].keys : RecordedLength(n, key) <= Capacity[n[1]]
<1>1. ValidCounts(n) /\ (mode = "full" => ValidLengths(n))
    BY DEF VersionRefusal
<1>2. EntriesOf(n) \in Nat /\ EntriesOf(n) <= BucketsOf(n)
    BY <1>1, PayloadNat DEF ValidCounts
<1>3. BucketsOf(n) = Buckets
    BY <1>2 DEF BucketsOf
<1>. QED
    BY <1>1, <1>2, <1>3 DEF ValidLengths

\* What a figure may be is a figure.
LEMMA GivenTyped ==
    /\ \A v : Given(v) => v \in FigureType
    /\ NotApplicable \in FigureType /\ Unavailable \in FigureType
BY DEF Given, FigureType, Measured, NotApplicable, Unavailable

\* The exact figures of a version, by name.
ExactOf(n) ==
    LET payload == IF mode = "full" THEN Payload(n) ELSE EntriesOf(n) * ReferenceBytes
    IN [entries |-> EntriesOf(n), payload |-> payload, size |-> SegmentSize,
        free |-> FreeOf(n), file |-> SegmentSize, occupied |-> EntriesOf(n) * SlotBytes,
        empty |-> (BucketsOf(n) - EntriesOf(n)) * SlotBytes,
        metadata |-> GroupMetadata(BucketsOf(n)).value]

\* The figures of a version, one by one.
LEMMA ExactFigures ==
    ASSUME NEW n, NEW o
    PROVE  /\ VersionCensus(n, o).exact = ExactOf(n)
           /\ VersionCensus(n, o).opt \in
                 [Optional -> {VersionCensus(n, o).opt[f] : f \in Optional}]
           /\ DOMAIN VersionCensus(n, o) = {"exact", "opt"}
           /\ VersionCensus(n, o).opt["unused"] =
                 IF mode = "full" THEN Measured(EntriesOf(n) * Capacity[n[1]] - Payload(n))
                 ELSE NotApplicable
           /\ VersionCensus(n, o).opt["residual"] =
                 Residual(SegmentSize, FreeOf(n),
                          EntriesOf(n) * SlotBytes + (BucketsOf(n) - EntriesOf(n)) * SlotBytes
                              + GroupMetadata(BucketsOf(n)).value)
           /\ VersionCensus(n, o).opt["physical"] = PhysicalOf(n, o)
<1>. DEFINE payload == IF mode = "full" THEN Payload(n) ELSE EntriesOf(n) * ReferenceBytes
            occupied == EntriesOf(n) * SlotBytes
            empty == (BucketsOf(n) - EntriesOf(n)) * SlotBytes
            metadata == GroupMetadata(BucketsOf(n)).value
            unused == IF mode = "full" THEN Measured(EntriesOf(n) * Capacity[n[1]] - payload)
                                 ELSE NotApplicable
            residual == Residual(SegmentSize, FreeOf(n), occupied + empty + metadata)
            physical == PhysicalOf(n, o)
            free == FreeOf(n)
            entries == EntriesOf(n)
            ex == [f \in Exact |->
                CASE f = "entries" -> entries
                  [] f = "payload" -> payload
                  [] f = "size" -> SegmentSize
                  [] f = "file" -> SegmentSize
                  [] f = "free" -> free
                  [] f = "occupied" -> occupied
                  [] f = "empty" -> empty
                  [] f = "metadata" -> metadata]
            op == [f \in Optional |->
                CASE f = "unused" -> unused
                  [] f = "residual" -> residual
                  [] f = "physical" -> physical]
<1>1. VersionCensus(n, o) = [exact |-> ex, opt |-> op]
    BY Zenon DEF VersionCensus
<1>2. unused = IF mode = "full" THEN Measured(EntriesOf(n) * Capacity[n[1]] - Payload(n))
                                 ELSE NotApplicable
    OBVIOUS
<1>3. ExactOf(n) = [entries |-> entries, payload |-> payload, size |-> SegmentSize,
        free |-> free, file |-> SegmentSize, occupied |-> occupied,
        empty |-> empty, metadata |-> metadata]
    BY Zenon DEF ExactOf
<1>4. residual = Residual(SegmentSize, FreeOf(n),
                          EntriesOf(n) * SlotBytes + (BucketsOf(n) - EntriesOf(n)) * SlotBytes
                              + GroupMetadata(BucketsOf(n)).value)
    OBVIOUS
<1>. HIDE DEF payload, occupied, empty, metadata, unused, residual, physical, free, entries
<1>5. ex = [entries |-> entries, payload |-> payload, size |-> SegmentSize,
        free |-> free, file |-> SegmentSize, occupied |-> occupied,
        empty |-> empty, metadata |-> metadata]
    BY DEF Exact
<1>6. op["unused"] = unused /\ op["residual"] = residual /\ op["physical"] = physical
    BY DEF Optional
<1>7. op \in [Optional -> {op[f] : f \in Optional}]
    OBVIOUS
<1>. HIDE DEF ex, op
<1>8. VersionCensus(n, o).exact = ex /\ VersionCensus(n, o).opt = op
      /\ DOMAIN VersionCensus(n, o) = {"exact", "opt"}
    BY <1>1
<1>. QED
    BY <1>2, <1>3, <1>4, <1>5, <1>6, <1>7, <1>8 DEF physical

\* Differences and products of numbers.
LEMMA TimesLess ==
    \A a, b, c \in Nat : a <= b => /\ a * c <= b * c /\ (b - a) * c \in Nat
                                  /\ a * c + (b - a) * c = b * c
OBVIOUS

\* What the figures of a version that is counted have to do with each other: its slots are
\* all the map's, its payload and what it does not use are its entries' capacity.
LEMMA VersionFigures ==
    ASSUME StoreType, ModeType, NEW n \in DOMAIN gens, NEW o, VersionRefusal(n) = "ok"
    PROVE  LET v == VersionCensus(n, o)
           IN /\ v \in SumsType
              /\ v.exact["entries"] = EntriesOf(n)
              /\ v.exact["occupied"] + v.exact["empty"] = Buckets * SlotBytes
              /\ mode = "full" =>
                    /\ v.exact["payload"] = Payload(n)
                    /\ Payload(n) <= EntriesOf(n) * Capacity[n[1]]
                    /\ v.opt["unused"] = Measured(EntriesOf(n) * Capacity[n[1]] - Payload(n))
              /\ \A f \in Optional :
                    IF Never(f, o) THEN v.opt[f] = NotApplicable ELSE Given(v.opt[f])
<1>. DEFINE v == VersionCensus(n, o)
            e == EntriesOf(n)
            c == Capacity[n[1]]
            p == Payload(n)
<1>1. /\ e \in Nat /\ c \in Nat /\ p \in Nat /\ IsFiniteSet(gens[n].keys)
      /\ \A key \in gens[n].keys : RecordedLength(n, key) \in Nat
      /\ p = SumFunctionOnSet([key \in gens[n].keys |-> RecordedLength(n, key)], gens[n].keys)
    BY PayloadNat
<1>2. /\ BucketsOf(n) = Buckets /\ e <= Buckets
      /\ mode = "full" => \A key \in gens[n].keys : RecordedLength(n, key) <= c
    BY CountedBuckets
<1>3. mode = "full" => p <= e * c /\ e * c - p \in Nat
    <2>. SUFFICES ASSUME mode = "full" PROVE p <= e * c /\ e * c - p \in Nat
        OBVIOUS
    <2>. DEFINE f == [key \in gens[n].keys |-> RecordedLength(n, key)]
                K == gens[n].keys
                g == [key \in K |-> c]
    <2>1. \A key \in K : f[key] \in Nat /\ g[key] \in Nat /\ f[key] <= g[key] /\ g[key] = c
        BY <1>1, <1>2
    <2>2. p = SumFunctionOnSet(f, K) /\ e = Cardinality(K)
        BY <1>1 DEF EntriesOf
    <2>. HIDE DEF f, g
    <2>3. SumFunctionOnSet(f, K) <= SumFunctionOnSet(g, K)
        BY <1>1, <2>1, SumLess
    <2>4. SumFunctionOnSet(g, K) = c * Cardinality(K)
        BY <1>1, <2>1, SumConst
    <2>. HIDE DEF p, e, c, K
    <2>5. p <= c * e
        BY <2>2, <2>3, <2>4
    <2>. QED
        BY <1>1, <2>5
<1>4. FreeOf(n) \in Nat
    BY CensusNumbers, SegmentAssumption DEF FreeOf
<1>5. /\ e * SlotBytes \in Nat /\ (Buckets - e) * SlotBytes \in Nat
      /\ e * SlotBytes + (Buckets - e) * SlotBytes = Buckets * SlotBytes
      /\ e * ReferenceBytes \in Nat
    <2>. HIDE DEF e
    <2>1. e * ReferenceBytes \in Nat
        BY <1>1, CensusNumbers, ProductNat
    <2>2. e * SlotBytes \in Nat
        BY <1>1, CensusNumbers, ProductNat
    <2>. QED
        BY <1>1, <1>2, <2>1, <2>2, CensusNumbers, TimesLess
<1>6. /\ v.exact = ExactOf(n) /\ DOMAIN v = {"exact", "opt"}
      /\ v.opt \in [Optional -> {v.opt[f] : f \in Optional}]
      /\ v.opt["unused"] = IF mode = "full" THEN Measured(e * c - p) ELSE NotApplicable
      /\ v.opt["residual"] =
            Residual(SegmentSize, FreeOf(n), e * SlotBytes + (Buckets - e) * SlotBytes
                                                + GroupMetadata(Buckets).value)
      /\ v.opt["physical"] = PhysicalOf(n, o)
    BY <1>2, ExactFigures
<1>61. v = [exact |-> v.exact, opt |-> v.opt]
    BY ExactFigures DEF VersionCensus
<1>. HIDE DEF v, e, c, p
<1>7. /\ v.exact \in [Exact -> Nat] /\ v.exact["entries"] = e
      /\ v.exact["occupied"] = e * SlotBytes /\ v.exact["empty"] = (Buckets - e) * SlotBytes
      /\ mode = "full" => v.exact["payload"] = p
    <2>. DEFINE payload == IF mode = "full" THEN p ELSE e * ReferenceBytes
                x == [entries |-> e, payload |-> payload, size |-> SegmentSize,
                      free |-> FreeOf(n), file |-> SegmentSize, occupied |-> e * SlotBytes,
                      empty |-> (Buckets - e) * SlotBytes,
                      metadata |-> GroupMetadata(Buckets).value]
    <2>1. v.exact = x
        BY <1>2, <1>6, Zenon DEF ExactOf, e, p
    <2>2. payload \in Nat
        BY <1>1, <1>5
    <2>3. mode = "full" => payload = p
        OBVIOUS
    <2>. DEFINE oc == e * SlotBytes
                em == (Buckets - e) * SlotBytes
    <2>. HIDE DEF payload
    <2>4. x \in [Exact -> Nat]
        BY <1>1, <1>4, <1>5, <2>2, CensusNumbers DEF Exact
    <2>5. /\ x["entries"] = e /\ x["payload"] = payload /\ x["occupied"] = e * SlotBytes
          /\ x["empty"] = (Buckets - e) * SlotBytes
        OBVIOUS
    <2>. HIDE DEF x
    <2>. QED
        BY <2>1, <2>3, <2>4, <2>5
<1>8. IF Never("unused", o) THEN v.opt["unused"] = NotApplicable ELSE Given(v.opt["unused"])
    <2>1. CASE mode = "full"
        BY <1>3, <1>6, <2>1 DEF Never, Given, Measured
    <2>2. CASE mode = "reference"
        BY <1>6, <2>2 DEF Never
    <2>. QED
        BY <2>1, <2>2 DEF ModeType
<1>9. ~Never("residual", o) /\ Given(v.opt["residual"])
    <2>. DEFINE size == SegmentSize
                free == FreeOf(n)
                modelled == e * SlotBytes + (Buckets - e) * SlotBytes + GroupMetadata(Buckets).value
    <2>1. size \in Nat /\ free \in Nat /\ modelled \in Nat
        BY <1>4, <1>5, CensusNumbers
    <2>2. v.opt["residual"] = Residual(size, free, modelled)
        BY <1>6
    <2>. HIDE DEF size, free, modelled
    <2>3. ~(free > size \/ modelled > size - free) => size - free - modelled \in Nat
        BY <2>1
    <2>4. Given(Residual(size, free, modelled))
        BY <2>3 DEF Residual, Given, Measured
    <2>. QED
        BY <2>2, <2>4 DEF Never
<1>10. IF Never("physical", o) THEN v.opt["physical"] = NotApplicable
                                ELSE Given(v.opt["physical"])
    BY <1>6, CensusNumbers DEF Never, Given, PhysicalOf, Measured
<1>11. \A f \in Optional : IF Never(f, o) THEN v.opt[f] = NotApplicable ELSE Given(v.opt[f])
    BY <1>8, <1>9, <1>10 DEF Optional
<1>12. \A f \in Optional : v.opt[f] \in FigureType
    BY <1>11, GivenTyped
<1>13. v.opt \in [Optional -> FigureType]
    BY <1>6, <1>12
<1>14. v \in SumsType
    BY <1>7, <1>13, <1>61 DEF SumsType
<1>15. v.exact["occupied"] + v.exact["empty"] = Buckets * SlotBytes
    BY <1>5, <1>7
<1>. QED
    BY <1>3, <1>6, <1>7, <1>11, <1>14, <1>15 DEF v, e, c, p

-----------------------------------------------------------------------------
(* Sums of figures *)

\* An exact figure, summed over versions.
ExactSum(S, f, o) == SumFunction([n \in S |-> VersionCensus(n, o).exact[f]])

\* Versions that a census counts.
Counted(S) == S \subseteq DOMAIN gens /\ \A n \in S : VersionRefusal(n) = "ok"

\* The sums s are those of the versions S.
SumsOf(s, S, o) ==
    /\ s \in SumsType
    /\ \A f \in Exact : s.exact[f] = ExactSum(S, f, o)
    /\ \A f \in Optional : s.opt[f] = Expected(S, f, o)

\* Some of the versions' figures is missing.
Lacks(S, f, o) == \E n \in S : VersionCensus(n, o).opt[f] = Unavailable

\* And the bytes of the others.
BytesSum(S, f, o) == SumFunction([n \in S |-> VersionCensus(n, o).opt[f].bytes])

\* Expected, for versions that a census counts.
LEMMA ExpectedIs ==
    ASSUME StoreType, ModeType, NEW S, Counted(S), NEW o, NEW f \in Optional
    PROVE  Expected(S, f, o) = IF Never(f, o) THEN NotApplicable
                               ELSE IF Lacks(S, f, o) THEN Unavailable
                               ELSE Measured(BytesSum(S, f, o))
<1>. DEFINE v(n) == VersionCensus(n, o).opt[f]
            parts == {v(n).status : n \in S}
<1>1. \A n \in S : IF Never(f, o) THEN v(n) = NotApplicable ELSE Given(v(n))
    BY VersionFigures DEF Counted
<1>2. CASE Never(f, o)
    <2>1. "unavailable" \notin parts
        BY <1>1, <1>2 DEF NotApplicable
    <2>2. (f = "physical" /\ ~o.blocks) \/ (f = "unused" /\ mode = "reference")
        BY <1>2 DEF Never
    <2>3. Expected(S, f, o) = NotApplicable
        BY <2>1, <2>2 DEF Expected
    <2>. QED
        BY <1>2, <2>3
<1>3. CASE ~Never(f, o)
    <2>0. \A n \in S : Given(v(n))
        BY <1>1, <1>3
    <2>1. \A n \in S : /\ v(n).status # "not_applicable"
                       /\ v(n).status = "unavailable" <=> v(n) = Unavailable
        <3>1. \A x : Given(x) => /\ x.status # "not_applicable"
                                 /\ x.status = "unavailable" <=> x = Unavailable
            BY DEF Given, Measured, Unavailable
        <3>. QED
            BY <2>0, <3>1
    <2>2. ~((f = "physical" /\ ~o.blocks) \/ (f = "unused" /\ mode = "reference"))
        BY <1>3 DEF Never
    <2>3. "unavailable" \in parts <=> Lacks(S, f, o)
        BY <2>1, Zenon DEF Lacks
    <2>31. "not_applicable" \notin parts
        <3>1. \A n \in S : v(n).status # "not_applicable"
            BY <2>1, Zenon
        <3>. HIDE DEF v
        <3>. QED
            BY <3>1, Zenon
    <2>4. Expected(S, f, o) = IF "unavailable" \in parts THEN Unavailable
                              ELSE Measured(BytesSum(S, f, o))
        <3>1. Expected(S, f, o) =
                 IF "unavailable" \in parts THEN Unavailable
                 ELSE IF \/ "not_applicable" \in parts
                         \/ f = "physical" /\ ~o.blocks
                         \/ f = "unused" /\ mode = "reference" THEN NotApplicable
                 ELSE Measured(BytesSum(S, f, o))
            BY Zenon DEF Expected, BytesSum
        <3>. HIDE DEF parts
        <3>. QED
            BY <2>2, <2>31, <3>1
    <2>. HIDE DEF parts
    <2>. QED
        BY <1>3, <2>3, <2>4
<1>. QED
    BY <1>2, <1>3

\* A sum over two disjoint sets of counted versions.
LEMMA ExactJoin ==
    ASSUME StoreType, ModeType, NEW S, Counted(S), NEW T, Counted(T), S \cap T = {}, NEW o,
           NEW f \in Exact
    PROVE  ExactSum(S \cup T, f, o) = ExactSum(S, f, o) + ExactSum(T, f, o)
<1>. DEFINE w == [n \in S \cup T |-> VersionCensus(n, o).exact[f]]
            u == [n \in S |-> VersionCensus(n, o).exact[f]]
            v == [n \in T |-> VersionCensus(n, o).exact[f]]
<1>1. IsFiniteSet(S) /\ IsFiniteSet(T)
    BY FS_Subset DEF StoreType, Counted
<1>2. \A n \in S \cup T : w[n] \in Nat
    <2>1. \A n \in S \cup T : VersionCensus(n, o) \in SumsType
        BY VersionFigures DEF Counted
    <2>2. \A n \in S \cup T : VersionCensus(n, o).exact[f] \in Nat
        BY <2>1 DEF SumsType
    <2>. QED
        BY <2>2
<1>3. /\ ExactSum(S \cup T, f, o) = SumFunctionOnSet(w, S \cup T)
      /\ ExactSum(S, f, o) = SumFunctionOnSet(u, S) /\ ExactSum(T, f, o) = SumFunctionOnSet(v, T)
    BY DEF ExactSum, SumFunction
<1>4. (\A n \in S : u[n] = w[n]) /\ \A n \in T : v[n] = w[n]
    OBVIOUS
<1>. HIDE DEF u, v, w
<1>5. SumFunctionOnSet(u, S) = SumFunctionOnSet(w, S)
    BY <1>1, <1>4, SumSame
<1>6. SumFunctionOnSet(v, T) = SumFunctionOnSet(w, T)
    BY <1>1, <1>4, SumSame
<1>7. SumFunctionOnSet(w, S \cup T) = SumFunctionOnSet(w, S) + SumFunctionOnSet(w, T)
    BY <1>1, <1>2, SumJoin
<1>. QED
    BY <1>3, <1>5, <1>6, <1>7

\* The same of the figures that may be absent.
LEMMA BytesJoin ==
    ASSUME StoreType, ModeType, NEW S, Counted(S), NEW T, Counted(T), S \cap T = {}, NEW o,
           NEW f \in Optional
    PROVE  /\ BytesSum(S \cup T, f, o) = BytesSum(S, f, o) + BytesSum(T, f, o)
           /\ BytesSum(S, f, o) \in Nat /\ BytesSum(T, f, o) \in Nat
<1>. DEFINE w == [n \in S \cup T |-> VersionCensus(n, o).opt[f].bytes]
            u == [n \in S |-> VersionCensus(n, o).opt[f].bytes]
            v == [n \in T |-> VersionCensus(n, o).opt[f].bytes]
<1>1. IsFiniteSet(S) /\ IsFiniteSet(T)
    BY FS_Subset DEF StoreType, Counted
<1>2. \A n \in S \cup T : w[n] \in Nat
    <2>1. \A n \in S \cup T : VersionCensus(n, o) \in SumsType
        BY VersionFigures DEF Counted
    <2>2. \A n \in S \cup T : VersionCensus(n, o).opt[f] \in FigureType
        BY <2>1 DEF SumsType
    <2>3. \A n \in S \cup T : VersionCensus(n, o).opt[f].bytes \in Nat
        BY <2>2 DEF FigureType
    <2>. QED
        BY <2>3
<1>3. /\ BytesSum(S \cup T, f, o) = SumFunctionOnSet(w, S \cup T)
      /\ BytesSum(S, f, o) = SumFunctionOnSet(u, S) /\ BytesSum(T, f, o) = SumFunctionOnSet(v, T)
    BY DEF BytesSum, SumFunction
<1>4. (\A n \in S : u[n] = w[n]) /\ \A n \in T : v[n] = w[n]
    OBVIOUS
<1>. HIDE DEF u, v, w
<1>5. SumFunctionOnSet(u, S) = SumFunctionOnSet(w, S)
    BY <1>1, <1>4, SumSame
<1>6. SumFunctionOnSet(v, T) = SumFunctionOnSet(w, T)
    BY <1>1, <1>4, SumSame
<1>7. SumFunctionOnSet(w, S \cup T) = SumFunctionOnSet(w, S) + SumFunctionOnSet(w, T)
    BY <1>1, <1>2, SumJoin
<1>8. SumFunctionOnSet(w, S) \in Nat /\ SumFunctionOnSet(w, T) \in Nat
    BY <1>1, <1>2, SumNat
<1>. QED
    BY <1>3, <1>5, <1>6, <1>7, <1>8

\* What is expected of two disjoint sets of versions is what adding yields.
LEMMA ExpectedJoin ==
    ASSUME StoreType, ModeType, NEW S, Counted(S), NEW T, Counted(T), S \cap T = {}, NEW o,
           NEW f \in Optional
    PROVE  Expected(S \cup T, f, o) = AddOptional(Expected(S, f, o), Expected(T, f, o))
<1>1. Counted(S \cup T)
    BY DEF Counted
<1>. DEFINE x == BytesSum(S, f, o)
            y == BytesSum(T, f, o)
            z == BytesSum(S \cup T, f, o)
<1>2. x \in Nat /\ y \in Nat /\ z = x + y
    BY BytesJoin
<1>3. Lacks(S \cup T, f, o) <=> Lacks(S, f, o) \/ Lacks(T, f, o)
    BY DEF Lacks
<1>4. /\ Expected(S, f, o) = IF Never(f, o) THEN NotApplicable
                             ELSE IF Lacks(S, f, o) THEN Unavailable ELSE Measured(x)
      /\ Expected(T, f, o) = IF Never(f, o) THEN NotApplicable
                             ELSE IF Lacks(T, f, o) THEN Unavailable ELSE Measured(y)
      /\ Expected(S \cup T, f, o) = IF Never(f, o) THEN NotApplicable
                             ELSE IF Lacks(S \cup T, f, o) THEN Unavailable ELSE Measured(z)
    BY <1>1, ExpectedIs
<1>. HIDE DEF x, y, z
<1>5. /\ AddOptional(NotApplicable, NotApplicable) = NotApplicable
      /\ AddOptional(Unavailable, Unavailable) = Unavailable
      /\ AddOptional(Unavailable, Measured(y)) = Unavailable
      /\ AddOptional(Measured(x), Unavailable) = Unavailable
      /\ AddOptional(Measured(x), Measured(y)) = Measured(x + y)
    BY <1>2 DEF AddOptional, NotApplicable, Unavailable, Measured
<1>. QED
    BY <1>2, <1>3, <1>4, <1>5, Zenon

\* The figures of one version are the sums over it.
LEMMA VersionIsSum ==
    ASSUME StoreType, ModeType, NEW n \in DOMAIN gens, NEW o, VersionRefusal(n) = "ok"
    PROVE  Counted({n}) /\ SumsOf(VersionCensus(n, o), {n}, o)
<1>. DEFINE v == VersionCensus(n, o)
<1>1. Counted({n})
    BY DEF Counted
<1>2. v \in SumsType
    BY VersionFigures
<1>3. ASSUME NEW w, w[n] \in Nat PROVE SumFunctionOnSet(w, {n}) = w[n]
    <2>1. IsFiniteSet({}) /\ {} \cup {n} = {n}
        BY FS_EmptySet
    <2>2. SumFunctionOnSet(w, {} \cup {n}) = w[n] + SumFunctionOnSet(w, {})
        BY <1>3, <2>1, SumAdd
    <2>. QED
        BY <1>3, <2>1, <2>2, SumEmpty
<1>4. \A f \in Exact : ExactSum({n}, f, o) = v.exact[f]
    <2>. SUFFICES ASSUME NEW f \in Exact PROVE ExactSum({n}, f, o) = v.exact[f]
        OBVIOUS
    <2>. DEFINE w == [m \in {n} |-> VersionCensus(m, o).exact[f]]
    <2>1. w[n] = v.exact[f] /\ v.exact[f] \in Nat
        BY <1>2 DEF SumsType
    <2>2. ExactSum({n}, f, o) = SumFunctionOnSet(w, {n})
        BY DEF ExactSum, SumFunction
    <2>. HIDE DEF w
    <2>. QED
        BY <1>3, <2>1, <2>2
<1>5. \A f \in Optional : Expected({n}, f, o) = v.opt[f]
    <2>. SUFFICES ASSUME NEW f \in Optional PROVE Expected({n}, f, o) = v.opt[f]
        OBVIOUS
    <2>. DEFINE w == [m \in {n} |-> VersionCensus(m, o).opt[f].bytes]
                b == v.opt[f].bytes
    <2>1. IF Never(f, o) THEN v.opt[f] = NotApplicable ELSE Given(v.opt[f])
        BY VersionFigures
    <2>2. w[n] = b /\ b \in Nat
        BY <1>2 DEF SumsType, FigureType
    <2>3. BytesSum({n}, f, o) = SumFunctionOnSet(w, {n})
        BY DEF BytesSum, SumFunction
    <2>4. BytesSum({n}, f, o) = b
        <3>. HIDE DEF w, b
        <3>. QED
            BY <1>3, <2>2, <2>3
    <2>5. Lacks({n}, f, o) <=> v.opt[f] = Unavailable
        BY DEF Lacks
    <2>6. Expected({n}, f, o) = IF Never(f, o) THEN NotApplicable
                               ELSE IF Lacks({n}, f, o) THEN Unavailable
                               ELSE Measured(b)
        BY <1>1, <2>4, ExpectedIs
    <2>. QED
        BY <2>1, <2>5, <2>6 DEF Given
<1>. QED
    BY <1>1, <1>2, <1>4, <1>5 DEF SumsOf

\* No versions: nothing, or a figure that does not apply.
LEMMA NothingIsSum ==
    ASSUME StoreType, ModeType, NEW o
    PROVE  /\ Counted({}) /\ SumsOf(ZeroClass(o), {}, o)
           /\ ZeroOf(o, Measured(0)) \in SumsType
           /\ \A f \in Exact : ZeroOf(o, Measured(0)).exact[f] = ExactSum({}, f, o)
           /\ \A f \in Optional : (f = "unused" /\ mode = "reference") \/
                 ZeroOf(o, Measured(0)).opt[f] = Expected({}, f, o)
           /\ ZeroOf(o, Measured(0)).opt["unused"] = Measured(0)
           /\ ZeroOf(o, Measured(0)).exact = ZeroClass(o).exact
<1>1. Counted({})
    BY DEF Counted
<1>2. \A f \in Exact : ExactSum({}, f, o) = 0
    BY SumEmpty DEF ExactSum, SumFunction
<1>3. \A f : BytesSum({}, f, o) = 0 /\ ~Lacks({}, f, o)
    BY SumEmpty DEF BytesSum, SumFunction, Lacks
<1>4. \A f \in Optional : Expected({}, f, o) = IF Never(f, o) THEN NotApplicable ELSE Measured(0)
    BY <1>1, <1>3, ExpectedIs
<1>5. ASSUME NEW unused \in FigureType
      PROVE  LET z == ZeroOf(o, unused)
             IN /\ z \in SumsType /\ \A f \in Exact : z.exact[f] = 0
                /\ z.opt["unused"] = unused /\ z.opt["residual"] = Measured(0)
                /\ z.opt["physical"] = IF ~o.blocks THEN NotApplicable ELSE Measured(0)
                /\ z.exact = [f \in Exact |-> 0]
    <2>. DEFINE ex == [f \in Exact |-> 0]
                op == [f \in Optional |->
                          CASE f = "unused" -> unused
                            [] f = "physical" /\ ~o.blocks -> NotApplicable
                            [] OTHER -> Measured(0)]
    <2>1. ZeroOf(o, unused) = [exact |-> ex, opt |-> op]
        BY Zenon DEF ZeroOf
    <2>2. op["unused"] = unused /\ op["residual"] = Measured(0)
        BY DEF Optional
    <2>3. op["physical"] = IF ~o.blocks THEN NotApplicable ELSE Measured(0)
        BY DEF Optional
    <2>4. Measured(0) \in FigureType /\ NotApplicable \in FigureType
        BY DEF Measured, FigureType, NotApplicable
    <2>5. \A f \in Optional : op[f] \in FigureType
        BY <2>2, <2>3, <2>4 DEF Optional
    <2>6. op \in [Optional -> FigureType] /\ ex \in [Exact -> Nat]
        BY <2>5
    <2>7. \A f \in Exact : ex[f] = 0
        OBVIOUS
    <2>. HIDE DEF op
    <2>. QED
        BY <2>1, <2>2, <2>3, <2>6, <2>7 DEF SumsType
<1>6. Measured(0) \in FigureType /\ NotApplicable \in FigureType
    BY DEF Measured, FigureType, NotApplicable
<1>7. SumsOf(ZeroClass(o), {}, o)
    <2>. DEFINE u == IF mode = "full" THEN Measured(0) ELSE NotApplicable
                z == ZeroOf(o, u)
    <2>1. u \in FigureType /\ z = ZeroClass(o)
        BY <1>6 DEF ZeroClass
    <2>2. u = IF Never("unused", o) THEN NotApplicable ELSE Measured(0)
        BY DEF Never, ModeType
    <2>. HIDE DEF u
    <2>3. /\ z \in SumsType /\ \A f \in Exact : z.exact[f] = 0
          /\ z.opt["unused"] = u /\ z.opt["residual"] = Measured(0)
          /\ z.opt["physical"] = IF ~o.blocks THEN NotApplicable ELSE Measured(0)
        BY <1>5, <2>1
    <2>. HIDE DEF z
    <2>4. z.opt["physical"] = IF Never("physical", o) THEN NotApplicable ELSE Measured(0)
        BY <2>3 DEF Never
    <2>5. ~Never("residual", o)
        BY DEF Never
    <2>6. \A f \in Optional : z.opt[f] = IF Never(f, o) THEN NotApplicable ELSE Measured(0)
        BY <2>2, <2>3, <2>4, <2>5 DEF Optional
    <2>. QED
        BY <1>2, <1>4, <2>1, <2>3, <2>6 DEF SumsOf
<1>. DEFINE z == ZeroOf(o, Measured(0))
<1>8. /\ z \in SumsType /\ \A f \in Exact : z.exact[f] = 0
      /\ z.opt["unused"] = Measured(0) /\ z.opt["residual"] = Measured(0)
      /\ z.opt["physical"] = IF ~o.blocks THEN NotApplicable ELSE Measured(0)
      /\ z.exact = [f \in Exact |-> 0]
    BY <1>5, <1>6
<1>9. ZeroClass(o).exact = [f \in Exact |-> 0]
    BY <1>5, <1>6 DEF ZeroClass
<1>. HIDE DEF z
<1>10. z.opt["physical"] = Expected({}, "physical", o)
    BY <1>4, <1>8 DEF Never, Optional
<1>11. z.opt["residual"] = Expected({}, "residual", o)
    BY <1>4, <1>8 DEF Never, Optional
<1>12. mode = "full" => z.opt["unused"] = Expected({}, "unused", o)
    BY <1>4, <1>8 DEF Never, Optional
<1>13. \A f \in Optional : (f = "unused" /\ mode = "reference") \/ z.opt[f] = Expected({}, f, o)
    BY <1>10, <1>11, <1>12 DEF Optional, ModeType
<1>. QED
    BY <1>1, <1>2, <1>7, <1>8, <1>9, <1>13 DEF z

\* An optional figure added to another is one.
LEMMA AddedTyped == \A v, w \in FigureType : AddOptional(v, w) \in FigureType
BY DEF AddOptional, FigureType, Measured

\* Without overflow a fold adds every figure.
LEMMA FoldFigures ==
    ASSUME NEW a \in SumsType, NEW b \in SumsType, ~FoldOverflows(a, b)
    PROVE  /\ Fold(a, b) \in SumsType
           /\ \A f \in Exact : Fold(a, b).exact[f] = a.exact[f] + b.exact[f]
           /\ \A f \in Optional : Fold(a, b).opt[f] = AddOptional(a.opt[f], b.opt[f])
<1>1. \A f \in Exact : a.exact[f] \in Nat /\ b.exact[f] \in Nat
    BY DEF SumsType
<1>2. \A f \in Optional : a.opt[f] \in FigureType /\ b.opt[f] \in FigureType
    BY DEF SumsType
<1>. DEFINE ex == [f \in Exact |-> CheckedAdd(a.exact[f], b.exact[f]).value]
            op == [f \in Optional |-> AddOptional(a.opt[f], b.opt[f])]
<1>3. \A f \in Exact : ~Overflows(a.exact[f] + b.exact[f])
    BY DEF FoldOverflows, CheckedAdd
<1>4. \A f \in Exact : ex[f] = a.exact[f] + b.exact[f]
    BY <1>3 DEF CheckedAdd
<1>5. \A f \in Exact : ex[f] \in Nat
    <2>. HIDE DEF ex
    <2>. QED
        BY <1>1, <1>4
<1>6. \A f \in Optional : op[f] = AddOptional(a.opt[f], b.opt[f])
    OBVIOUS
<1>7. \A f \in Optional : op[f] \in FigureType
    BY <1>2, <1>6, AddedTyped
<1>8. ex \in [Exact -> Nat] /\ op \in [Optional -> FigureType]
    BY <1>5, <1>7
<1>9. Fold(a, b) = [exact |-> ex, opt |-> op]
    BY DEF Fold
<1>. HIDE DEF ex, op
<1>. QED
    BY <1>4, <1>6, <1>8, <1>9 DEF SumsType

\* Sums over two disjoint sets of versions fold into the sums over both.
LEMMA FoldJoins ==
    ASSUME StoreType, ModeType, NEW S, Counted(S), NEW T, Counted(T), S \cap T = {}, NEW o,
           NEW a, NEW b, SumsOf(a, S, o), SumsOf(b, T, o), ~FoldOverflows(a, b)
    PROVE  Counted(S \cup T) /\ SumsOf(Fold(a, b), S \cup T, o)
<1>1. Counted(S \cup T)
    BY DEF Counted
<1>2. /\ Fold(a, b) \in SumsType
      /\ \A f \in Exact : Fold(a, b).exact[f] = a.exact[f] + b.exact[f]
      /\ \A f \in Optional : Fold(a, b).opt[f] = AddOptional(a.opt[f], b.opt[f])
    BY FoldFigures DEF SumsOf
<1>3. \A f \in Exact : Fold(a, b).exact[f] = ExactSum(S \cup T, f, o)
    BY <1>2, ExactJoin DEF SumsOf
<1>4. \A f \in Optional : Fold(a, b).opt[f] = Expected(S \cup T, f, o)
    BY <1>2, ExpectedJoin DEF SumsOf
<1>. QED
    BY <1>1, <1>2, <1>3, <1>4 DEF SumsOf

\* The total before a class is folded into it: in a reference store it starts as if what
\* is unused in a slot could be told, and no class says so.
TotalOf(s, S, D, o) ==
    /\ s \in SumsType
    /\ \A f \in Exact : s.exact[f] = ExactSum(S, f, o)
    /\ \A f \in Optional :
          s.opt[f] = IF f = "unused" /\ mode = "reference" /\ D = {} THEN Measured(0)
                     ELSE Expected(S, f, o)

\* The class k is folded into the total of the classes D.
LEMMA TotalJoins ==
    ASSUME StoreType, ModeType, NEW S, Counted(S), NEW T, Counted(T), S \cap T = {}, NEW o,
           NEW a, NEW b, NEW D, NEW k, TotalOf(a, S, D, o), SumsOf(b, T, o), ~FoldOverflows(a, b)
    PROVE  TotalOf(Fold(a, b), S \cup T, D \cup {k}, o)
<1>1. /\ Fold(a, b) \in SumsType
      /\ \A f \in Exact : Fold(a, b).exact[f] = a.exact[f] + b.exact[f]
      /\ \A f \in Optional : Fold(a, b).opt[f] = AddOptional(a.opt[f], b.opt[f])
    BY FoldFigures DEF SumsOf, TotalOf
<1>2. \A f \in Exact : Fold(a, b).exact[f] = ExactSum(S \cup T, f, o)
    BY <1>1, ExactJoin DEF SumsOf, TotalOf
<1>3. \A f \in Optional : Fold(a, b).opt[f] = Expected(S \cup T, f, o)
    <2>. SUFFICES ASSUME NEW f \in Optional PROVE Fold(a, b).opt[f] = Expected(S \cup T, f, o)
        OBVIOUS
    <2>0. Fold(a, b).opt[f] = AddOptional(a.opt[f], Expected(T, f, o))
        BY <1>1 DEF SumsOf
    <2>1. CASE f = "unused" /\ mode = "reference" /\ D = {}
        <3>1. Never(f, o)
            BY <2>1 DEF Never
        <3>2. Counted(S \cup T)
            BY DEF Counted
        <3>3. Expected(T, f, o) = NotApplicable /\ Expected(S \cup T, f, o) = NotApplicable
            BY <3>1, <3>2, ExpectedIs
        <3>4. a.opt[f] = Measured(0)
            BY <2>1 DEF TotalOf
        <3>5. AddOptional(Measured(0), NotApplicable) = NotApplicable
            BY DEF AddOptional, Measured, NotApplicable
        <3>. QED
            BY <2>0, <3>3, <3>4, <3>5
    <2>2. CASE ~(f = "unused" /\ mode = "reference" /\ D = {})
        <3>1. a.opt[f] = Expected(S, f, o)
            BY <2>2 DEF TotalOf
        <3>. QED
            BY <2>0, <3>1, ExpectedJoin
    <2>. QED
        BY <2>1, <2>2
<1>4. D \cup {k} # {}
    OBVIOUS
<1>. QED
    BY <1>1, <1>2, <1>3, <1>4 DEF TotalOf

-----------------------------------------------------------------------------
(* The sums of one class *)

\* What the figures of a class have to do with each other.
Balanced(s, S, k) ==
    /\ s.exact["occupied"] + s.exact["empty"] = Cardinality(S) * Buckets * SlotBytes
    /\ mode = "full" =>
          s.exact["payload"] + s.opt["unused"].bytes = s.exact["entries"] * Capacity[k]

\* The lengths of a class's entries, one for each of them.
Lengths(L) == [e \in L |-> e[1]]

\* The lengths L are those of the entries of the versions S, whose sums are s.
LengthsOf(L, S, s) ==
    /\ IsFiniteSet(L) /\ \A e \in L : e[1] \in Nat /\ e[2] \in S
    /\ mode = "full" => /\ Cardinality(L) = s.exact["entries"]
                        /\ SumFunctionOnSet(Lengths(L), L) = s.exact["payload"]

\* The entries of one version have as many lengths, which make its payload.
LEMMA HistogramIs ==
    ASSUME StoreType, NEW n \in DOMAIN gens, mode = "full"
    PROVE  LET H == Histogram(n)
           IN /\ IsFiniteSet(H) /\ Cardinality(H) = EntriesOf(n)
              /\ SumFunctionOnSet(Lengths(H), H) = Payload(n)
              /\ \A e \in H : e[1] \in Nat /\ e[2] = n
<1>. DEFINE K == gens[n].keys
            f == [key \in K |-> RecordedLength(n, key)]
            h == [key \in K |-> <<RecordedLength(n, key), n, key>>]
            H == Histogram(n)
            g == Lengths(H)
<1>1. /\ IsFiniteSet(K) /\ \A key \in K : RecordedLength(n, key) \in Nat
      /\ Payload(n) = SumFunctionOnSet(f, K)
    BY PayloadNat
<1>2. H = {h[key] : key \in K}
    BY DEF Histogram
<1>3. \A key \in K : h[key] \in H /\ f[key] \in Nat /\ g[h[key]] = f[key]
    <2>. SUFFICES ASSUME NEW key \in K PROVE h[key] \in H /\ f[key] \in Nat /\ g[h[key]] = f[key]
        OBVIOUS
    <2>1. h[key] \in H
        BY <1>2
    <2>2. h[key][1] = RecordedLength(n, key) /\ f[key] = RecordedLength(n, key)
        OBVIOUS
    <2>. HIDE DEF H, h
    <2>3. g[h[key]] = h[key][1]
        BY <2>1 DEF Lengths
    <2>. QED
        BY <1>1, <2>1, <2>2, <2>3
<1>4. \A x, y \in K : x # y => h[x] # h[y]
    OBVIOUS
<1>5. \A e \in H : e[1] \in Nat /\ e[2] = n
    <2>. SUFFICES ASSUME NEW e \in H PROVE e[1] \in Nat /\ e[2] = n
        OBVIOUS
    <2>1. PICK key \in K : e = <<RecordedLength(n, key), n, key>>
        BY <1>2
    <2>. QED
        BY <1>1, <2>1
<1>51. IsFiniteSet(K) /\ \A x \in K : f[x] \in Nat /\ g[h[x]] = f[x]
    BY <1>1, <1>3
<1>. HIDE DEF f, h, g, H, K
<1>6. /\ IsFiniteSet({h[key] : key \in K})
      /\ Cardinality({h[key] : key \in K}) = Cardinality(K)
      /\ SumFunctionOnSet(g, {h[key] : key \in K}) = SumFunctionOnSet(f, K)
    BY <1>4, <1>51, SumImage
<1>7. IsFiniteSet(H) /\ Cardinality(H) = EntriesOf(n) /\ SumFunctionOnSet(g, H) = Payload(n)
    BY <1>1, <1>2, <1>6 DEF EntriesOf, K
<1>. QED
    BY <1>5, <1>7 DEF H, g

\* A reference store has no histogram.
LEMMA NoHistogram == \A n : mode = "reference" => Histogram(n) = {}
BY DEF Histogram

\* The lengths of two disjoint sets of entries.
LEMMA LengthsJoin ==
    ASSUME NEW L, NEW H, IsFiniteSet(L), IsFiniteSet(H), L \cap H = {},
           \A e \in L \cup H : e[1] \in Nat
    PROVE  /\ IsFiniteSet(L \cup H) /\ Cardinality(L \cup H) = Cardinality(L) + Cardinality(H)
           /\ SumFunctionOnSet(Lengths(L \cup H), L \cup H) =
                 SumFunctionOnSet(Lengths(L), L) + SumFunctionOnSet(Lengths(H), H)
<1>1. /\ IsFiniteSet(L \cup H)
      /\ Cardinality(L \cup H) = Cardinality(L) + Cardinality(H) - Cardinality(L \cap H)
    BY FS_Union
<1>2. Cardinality(L \cap H) = 0 /\ Cardinality(L) \in Nat /\ Cardinality(H) \in Nat
    BY FS_EmptySet, FS_CardinalityType
<1>. DEFINE w == Lengths(L \cup H)
            u == Lengths(L)
            v == Lengths(H)
<1>3. /\ \A e \in L \cup H : w[e] \in Nat
      /\ \A e \in L : u[e] = w[e]
      /\ \A e \in H : v[e] = w[e]
    BY DEF Lengths
<1>. HIDE DEF u, v, w
<1>4. SumFunctionOnSet(w, L \cup H) = SumFunctionOnSet(w, L) + SumFunctionOnSet(w, H)
    BY <1>3, SumJoin
<1>5. SumFunctionOnSet(u, L) = SumFunctionOnSet(w, L)
    BY <1>3, SumSame
<1>6. SumFunctionOnSet(v, H) = SumFunctionOnSet(w, H)
    BY <1>3, SumSame
<1>7. Cardinality(L \cup H) = Cardinality(L) + Cardinality(H)
    BY <1>1, <1>2
<1>. QED
    BY <1>1, <1>4, <1>5, <1>6, <1>7 DEF u, v, w

\* The histogram says of each length how many entries have it.
LEMMA CompactedIs ==
    ASSUME NEW L, IsFiniteSet(L), \A e \in L : e[1] \in Nat
    PROVE  LET c == Compacted(L)
           IN /\ SumFunction(c) = Cardinality(L)
              /\ SumFunction([l \in DOMAIN c |-> l * c[l]]) = SumFunctionOnSet(Lengths(L), L)
<1>. DEFINE D == {e[1] : e \in L}
            content == [l \in D |-> {e \in L : e[1] = l}]
            w == Lengths(L)
            c == Compacted(L)
            p == [l \in D |-> l * c[l]]
<1>1. IsFiniteSet(D)
    <2>1. [e \in L |-> e[1]] \in Surjection(L, D)
        BY DEF Surjection
    <2>. QED
        BY <2>1, FS_Surjection
<1>2. \A l \in D : /\ content[l] = {e \in L : e[1] = l} /\ content[l] \subseteq L
                   /\ IsFiniteSet(content[l]) /\ Cardinality(content[l]) \in Nat
    BY FS_Subset, FS_CardinalityType
<1>3. \A x, y \in D : x # y => content[x] \cap content[y] = {}
    OBVIOUS
<1>4. UNION {content[l] : l \in D} = L
    <2>1. \A e \in L : e[1] \in D /\ e \in content[e[1]]
        OBVIOUS
    <2>2. \A l \in D : content[l] \subseteq L
        BY <1>2
    <2>. HIDE DEF D, content
    <2>. QED
        BY <2>1, <2>2
<1>5. c = [l \in D |-> Cardinality(content[l])] /\ DOMAIN c = D
    BY DEF Compacted
<1>6. \A l \in D : l \in Nat /\ c[l] = Cardinality(content[l]) /\ p[l] = l * c[l]
    BY <1>5
<1>7. \A e \in L : w[e] = e[1] /\ w[e] \in Nat
    BY DEF Lengths
<1>8. \A l \in D : \A e \in content[l] : w[e] = l
    BY <1>2, <1>7
<1>9. SumFunctionOnSet([l \in D |-> Cardinality(content[l])], D) =
         Cardinality(UNION {content[l] : l \in D})
    <2>1. \A l \in D : IsFiniteSet(content[l])
        BY <1>2
    <2>. HIDE DEF D, content
    <2>. QED
        BY <1>1, <1>3, <2>1, SumOfDisjoint
<1>10. SumFunction(c) = Cardinality(L)
    BY <1>4, <1>5, <1>9, Zenon DEF SumFunction
<1>11. \A l \in D : p[l] = SumFunctionOnSet(w, content[l])
    <2>. SUFFICES ASSUME NEW l \in D PROVE p[l] = SumFunctionOnSet(w, content[l])
        OBVIOUS
    <2>. DEFINE C == content[l]
    <2>0. IsFiniteSet(C) /\ l \in Nat /\ \A e \in C : w[e] = l
        BY <1>2, <1>6, <1>8
    <2>. HIDE DEF D, content, w, p, c, C
    <2>1. SumFunctionOnSet(w, C) = l * Cardinality(C)
        BY <2>0, SumConst
    <2>. QED
        BY <1>6, <2>1 DEF C
<1>12. SumFunctionOnSet(p, D) = SumFunctionOnSet(w, UNION {content[l] : l \in D})
    <2>1. \A l \in D : \A e \in content[l] : w[e] \in Nat
        BY <1>2, <1>7
    <2>2. \A l \in D : IsFiniteSet(content[l]) /\ p[l] = SumFunctionOnSet(w, content[l])
        BY <1>2, <1>11
    <2>. HIDE DEF D, content, w, p, c
    <2>. QED
        BY <1>1, <1>3, <2>1, <2>2, SumGroups
<1>13. SumFunction([l \in DOMAIN c |-> l * c[l]]) = SumFunctionOnSet(p, D)
    BY <1>5 DEF SumFunction
<1>. HIDE DEF D, content, w, p, c
<1>14. SumFunction([l \in DOMAIN c |-> l * c[l]]) = SumFunctionOnSet(w, L)
    BY <1>4, <1>12, <1>13
<1>. QED
    BY <1>10, <1>14 DEF c, w

-----------------------------------------------------------------------------
(* A census under way *)

\* The shape of a tally.
TallyFields == {"pc", "opts", "classes", "k", "todo", "cls", "lengths", "total", "files",
                "done"}
Histograms == UNION {[D -> Nat] : D \in SUBSET Nat}
ClassRecord == [k : Nat, sums : SumsType, histogram : Histograms]

\* The classes a census is done with, the versions of classes, and those of the class
\* under way that it has come past.
Seen(t) == {t.done[i].k : i \in 1 .. Len(t.done)}
VersionsOf(D) == {n \in DOMAIN gens : n[1] \in D}
Behind(t) == VersionsIn(t.k) \ t.todo

\* A class the census is done with.
ClassDone(c, o) ==
    /\ SumsOf(c.sums, VersionsIn(c.k), o) /\ Balanced(c.sums, VersionsIn(c.k), c.k)
    /\ mode = "full" =>
          /\ SumFunction(c.histogram) = c.sums.exact["entries"]
          /\ SumFunction([l \in DOMAIN c.histogram |-> l * c.histogram[l]])
                = c.sums.exact["payload"]

\* A class the census is in: its sums are those of the versions behind it.
ClassUnderWay(t) ==
    /\ t.k \in ClassesOf(mode) \ t.classes /\ t.todo \subseteq VersionsIn(t.k)
    /\ Counted(Behind(t)) /\ SumsOf(t.cls, Behind(t), t.opts)
    /\ Balanced(t.cls, Behind(t), t.k) /\ LengthsOf(t.lengths, Behind(t), t.cls)

\* The tally t accounts for the versions it has come past, class by class.
TallyIs(t) ==
    /\ DOMAIN t = TallyFields /\ t.pc \in {"class", "versions"}
    /\ t.classes \subseteq ClassesOf(mode)
    /\ t.done \in Seq(ClassRecord)
    /\ \A i \in 1 .. Len(t.done) : ClassDone(t.done[i], t.opts)
    /\ Counted(VersionsOf(Seen(t))) /\ TotalOf(t.total, VersionsOf(Seen(t)), Seen(t), t.opts)
    /\ t.pc = "class" =>
          /\ Seen(t) = ClassesOf(mode) \ t.classes
          /\ t.files = Cardinality(VersionsOf(Seen(t)))
    /\ t.pc = "versions" =>
          /\ ClassUnderWay(t)
          /\ Seen(t) = (ClassesOf(mode) \ t.classes) \ {t.k}
          /\ t.files = Cardinality(VersionsOf(Seen(t)) \cup Behind(t))

\* The invariant of a census, on a store nobody has disturbed.
TallyingInv == Counting /\ disturbed = 0 => TallyIs(tally)

\* A store that does not change has the same figures.
LEMMA SameFigures ==
    ASSUME UNCHANGED store
    PROVE  /\ \A n, o : VersionCensus(n, o)' = VersionCensus(n, o)
           /\ \A n : (VersionRefusal(n) = "ok")' <=> VersionRefusal(n) = "ok"
           /\ \A k : VersionsIn(k)' = VersionsIn(k)
<1>1. gens' = gens /\ mode' = mode /\ mapped' = mapped
    BY DEF store
<1>2. \A n : EntriesOf(n)' = EntriesOf(n)
    BY <1>1 DEF EntriesOf
<1>3. \A n : BucketsOf(n)' = BucketsOf(n)
    BY <1>1, <1>2 DEF BucketsOf
<1>4. \A n : Longest(n)' = Longest(n)
    BY <1>1 DEF Longest
<1>5. \A n, key : RecordedLength(n, key)' = RecordedLength(n, key)
    BY <1>1, <1>4 DEF RecordedLength
<1>6. \A n : FreeOf(n)' = FreeOf(n)
    BY <1>1 DEF FreeOf
<1>7. \A n : Payload(n)' = Payload(n)
    <2>. SUFFICES ASSUME NEW n PROVE Payload(n)' = Payload(n)
        OBVIOUS
    <2>1. [key \in gens[n].keys |-> RecordedLength(n, key)]' =
             [key \in gens[n].keys |-> RecordedLength(n, key)]
        BY <1>1, <1>5
    <2>. QED
        BY <2>1 DEF Payload
<1>8. \A n, o : PhysicalOf(n, o)' = PhysicalOf(n, o)
    BY <1>1 DEF PhysicalOf
<1>9. \A n, o : VersionCensus(n, o)' = VersionCensus(n, o)
    <2>. SUFFICES ASSUME NEW n, NEW o PROVE VersionCensus(n, o)' = VersionCensus(n, o)
        OBVIOUS
    <2>. DEFINE payload == IF mode = "full" THEN Payload(n) ELSE EntriesOf(n) * ReferenceBytes
                occupied == EntriesOf(n) * SlotBytes
                empty == (BucketsOf(n) - EntriesOf(n)) * SlotBytes
                metadata == GroupMetadata(BucketsOf(n)).value
                unused == IF mode = "full" THEN Measured(EntriesOf(n) * Capacity[n[1]] - payload)
                          ELSE NotApplicable
                residual == Residual(SegmentSize, FreeOf(n), occupied + empty + metadata)
                physical == PhysicalOf(n, o)
                free == FreeOf(n)
                entries == EntriesOf(n)
                ex == [f \in Exact |->
                          CASE f = "entries" -> entries
                            [] f = "payload" -> payload
                            [] f = "size" -> SegmentSize
                            [] f = "file" -> SegmentSize
                            [] f = "free" -> free
                            [] f = "occupied" -> occupied
                            [] f = "empty" -> empty
                            [] f = "metadata" -> metadata]
                op == [f \in Optional |->
                          CASE f = "unused" -> unused
                            [] f = "residual" -> residual
                            [] f = "physical" -> physical]
    <2>1. entries' = entries /\ free' = free /\ physical' = physical /\ payload' = payload
        BY <1>1, <1>2, <1>6, <1>7, <1>8
    <2>2. occupied' = occupied /\ empty' = empty /\ metadata' = metadata
        BY <1>2, <1>3
    <2>3. unused' = unused /\ residual' = residual
        BY <1>1, <1>2, <1>6, <2>1, <2>2
    <2>4. VersionCensus(n, o) = [exact |-> ex, opt |-> op]
        BY Zenon DEF VersionCensus
    <2>5. VersionCensus(n, o)' = [exact |-> ex', opt |-> op']
        BY Zenon DEF VersionCensus
    <2>. HIDE DEF payload, occupied, empty, metadata, unused, residual, physical, free, entries
    <2>6. ex' = ex
        BY <2>1, <2>2
    <2>7. op' = op
        BY <2>1, <2>3
    <2>. HIDE DEF ex, op
    <2>. QED
        BY <2>4, <2>5, <2>6, <2>7
<1>10. \A n : ValidCounts(n)' <=> ValidCounts(n)
    BY <1>2, <1>3 DEF ValidCounts
<1>11. \A n : ValidLengths(n)' <=> ValidLengths(n)
    BY <1>1, <1>5 DEF ValidLengths
<1>12. \A n : PayloadBound(n)' = PayloadBound(n)
    BY <1>1 DEF PayloadBound
<1>13. \A n : ModelledInBytes(n)' <=> ModelledInBytes(n)
    BY <1>2, <1>3 DEF ModelledInBytes
<1>14. \A n : OpenToRead(n)' = OpenToRead(n)
    BY <1>1 DEF OpenToRead, InPlace, Active, ActiveOf
<1>15. \A n : Sized(n)' <=> Sized(n)
    BY <1>1 DEF Sized
<1>16. \A n : VersionRefusal(n)' = VersionRefusal(n)
    BY <1>1, <1>2, <1>10, <1>11, <1>12, <1>13, <1>14, <1>15 DEF VersionRefusal
<1>17. \A k : VersionsIn(k)' = VersionsIn(k)
    BY <1>1 DEF VersionsIn
<1>. QED
    BY <1>9, <1>16, <1>17

\* And the same sums of them.
LEMMA SameFigureSums ==
    ASSUME UNCHANGED store
    PROVE  /\ \A S : Counted(S)' <=> Counted(S)
           /\ \A s, S, o : SumsOf(s, S, o)' <=> SumsOf(s, S, o)
           /\ \A s, S, D, o : TotalOf(s, S, D, o)' <=> TotalOf(s, S, D, o)
           /\ \A s, S, k : Balanced(s, S, k)' <=> Balanced(s, S, k)
           /\ \A c, o : ClassDone(c, o)' <=> ClassDone(c, o)
<1>1. gens' = gens /\ mode' = mode
    BY DEF store
<1>2. /\ \A n, o : VersionCensus(n, o)' = VersionCensus(n, o)
      /\ \A n : (VersionRefusal(n) = "ok")' <=> VersionRefusal(n) = "ok"
      /\ \A k : VersionsIn(k)' = VersionsIn(k)
    BY SameFigures
<1>3. \A S, f, o : ExactSum(S, f, o)' = ExactSum(S, f, o)
    <2>. SUFFICES ASSUME NEW S, NEW f, NEW o PROVE ExactSum(S, f, o)' = ExactSum(S, f, o)
        OBVIOUS
    <2>1. [n \in S |-> VersionCensus(n, o).exact[f]]' = [n \in S |-> VersionCensus(n, o).exact[f]]
        BY <1>2
    <2>. QED
        BY <2>1 DEF ExactSum
<1>4. \A S, f, o : Expected(S, f, o)' = Expected(S, f, o)
    <2>. SUFFICES ASSUME NEW S, NEW f, NEW o PROVE Expected(S, f, o)' = Expected(S, f, o)
        OBVIOUS
    <2>1. [n \in S |-> VersionCensus(n, o).opt[f].bytes]' =
              [n \in S |-> VersionCensus(n, o).opt[f].bytes]
        BY <1>2
    <2>2. {VersionCensus(n, o).opt[f].status : n \in S}' =
              {VersionCensus(n, o).opt[f].status : n \in S}
        BY <1>2
    <2>. QED
        BY <1>1, <2>1, <2>2 DEF Expected
<1>5. \A S : Counted(S)' <=> Counted(S)
    BY <1>1, <1>2 DEF Counted
<1>6. \A s, S, o : SumsOf(s, S, o)' <=> SumsOf(s, S, o)
    BY <1>3, <1>4 DEF SumsOf
<1>7. \A s, S, D, o : TotalOf(s, S, D, o)' <=> TotalOf(s, S, D, o)
    BY <1>1, <1>3, <1>4 DEF TotalOf
<1>8. \A s, S, k : Balanced(s, S, k)' <=> Balanced(s, S, k)
    BY <1>1 DEF Balanced
<1>10. \A c, o : ClassDone(c, o)' <=> ClassDone(c, o)
    <2>. SUFFICES ASSUME NEW c, NEW o PROVE ClassDone(c, o)' <=> ClassDone(c, o)
        OBVIOUS
    <2>1. VersionsIn(c.k)' = VersionsIn(c.k)
        BY <1>2
    <2>2. SumsOf(c.sums, VersionsIn(c.k), o)' <=> SumsOf(c.sums, VersionsIn(c.k), o)
        BY <1>6, <2>1
    <2>3. Balanced(c.sums, VersionsIn(c.k), c.k)' <=> Balanced(c.sums, VersionsIn(c.k), c.k)
        BY <1>8, <2>1
    <2>. QED
        BY <1>1, <2>2, <2>3 DEF ClassDone
<1>. QED
    BY <1>5, <1>6, <1>7, <1>8, <1>10

\* And a tally that accounts for it still does.
LEMMA SameTally ==
    ASSUME UNCHANGED store
    PROVE  \A t : TallyIs(t)' <=> TallyIs(t)
<1>1. gens' = gens /\ mode' = mode
    BY DEF store
<1>2. \A k : VersionsIn(k)' = VersionsIn(k)
    BY SameFigures
<1>3. /\ \A S : Counted(S)' <=> Counted(S)
      /\ \A s, S, o : SumsOf(s, S, o)' <=> SumsOf(s, S, o)
      /\ \A s, S, D, o : TotalOf(s, S, D, o)' <=> TotalOf(s, S, D, o)
      /\ \A s, S, k : Balanced(s, S, k)' <=> Balanced(s, S, k)
      /\ \A c, o : ClassDone(c, o)' <=> ClassDone(c, o)
    BY SameFigureSums
<1>9. \A L, S, s : LengthsOf(L, S, s)' <=> LengthsOf(L, S, s)
    BY <1>1 DEF LengthsOf
<1>11. \A t : Behind(t)' = Behind(t)
    BY <1>2 DEF Behind
<1>12. \A t : ClassUnderWay(t)' <=> ClassUnderWay(t)
    <2>. SUFFICES ASSUME NEW t PROVE ClassUnderWay(t)' <=> ClassUnderWay(t)
        OBVIOUS
    <2>1. Behind(t)' = Behind(t) /\ VersionsIn(t.k)' = VersionsIn(t.k)
        BY <1>2, <1>11
    <2>2. Counted(Behind(t))' <=> Counted(Behind(t))
        BY <1>3, <2>1
    <2>3. SumsOf(t.cls, Behind(t), t.opts)' <=> SumsOf(t.cls, Behind(t), t.opts)
        BY <1>3, <2>1
    <2>4. Balanced(t.cls, Behind(t), t.k)' <=> Balanced(t.cls, Behind(t), t.k)
        BY <1>3, <2>1
    <2>5. LengthsOf(t.lengths, Behind(t), t.cls)' <=> LengthsOf(t.lengths, Behind(t), t.cls)
        BY <1>9, <2>1
    <2>. QED
        BY <1>1, <2>1, <2>2, <2>3, <2>4, <2>5 DEF ClassUnderWay
<1>13. \A D : VersionsOf(D)' = VersionsOf(D)
    BY <1>1 DEF VersionsOf
<1>. SUFFICES ASSUME NEW t PROVE TallyIs(t)' <=> TallyIs(t)
    OBVIOUS
<1>. DEFINE V == VersionsOf(Seen(t))
<1>14. V' = V /\ Behind(t)' = Behind(t)
    BY <1>11, <1>13
<1>15. Counted(V)' <=> Counted(V)
    BY <1>3, <1>14
<1>16. TotalOf(t.total, V, Seen(t), t.opts)' <=> TotalOf(t.total, V, Seen(t), t.opts)
    BY <1>3, <1>14
<1>17. (\A i \in 1 .. Len(t.done) : ClassDone(t.done[i], t.opts))'
            <=> \A i \in 1 .. Len(t.done) : ClassDone(t.done[i], t.opts)
    BY <1>3
<1>18. ClassUnderWay(t)' <=> ClassUnderWay(t)
    BY <1>12
<1>. QED
    BY <1>1, <1>14, <1>15, <1>16, <1>17, <1>18, Zenon DEF TallyIs

-----------------------------------------------------------------------------
(* The steps of a census *)

\* The classes are numbers.
LEMMA ClassesNat == ClassesOf(mode) \subseteq Nat
BY EntriesAssumption DEF ClassesOf

\* The versions of a class, and of several, are finitely many.
LEMMA VersionsFinite ==
    ASSUME StoreType
    PROVE  /\ \A k : IsFiniteSet(VersionsIn(k)) /\ VersionsIn(k) \subseteq DOMAIN gens
           /\ \A D : IsFiniteSet(VersionsOf(D)) /\ VersionsOf(D) \subseteq DOMAIN gens
<1>1. /\ \A k : VersionsIn(k) \subseteq DOMAIN gens
      /\ \A D : VersionsOf(D) \subseteq DOMAIN gens
    BY DEF VersionsIn, VersionsOf
<1>2. IsFiniteSet(DOMAIN gens)
    BY DEF StoreType
<1>3. \A k : IsFiniteSet(VersionsIn(k))
    BY <1>1, <1>2, FS_Subset
<1>4. \A D : IsFiniteSet(VersionsOf(D))
    BY <1>1, <1>2, FS_Subset
<1>. QED
    BY <1>1, <1>3, <1>4

\* The figures of no versions.
LEMMA ZeroFigures ==
    ASSUME StoreType, ModeType, NEW o
    PROVE  /\ \A f \in Exact : ZeroClass(o).exact[f] = 0
           /\ mode = "full" => ZeroClass(o).opt["unused"].bytes = 0
<1>1. SumsOf(ZeroClass(o), {}, o) /\ Counted({})
    BY NothingIsSum
<1>2. \A f \in Exact : ZeroClass(o).exact[f] = 0
    BY <1>1, SumEmpty DEF SumsOf, ExactSum, SumFunction
<1>3. ASSUME mode = "full" PROVE ZeroClass(o).opt["unused"].bytes = 0
    <2>1. ~Never("unused", o) /\ "unused" \in Optional
        BY <1>3 DEF Never, Optional
    <2>2. ~Lacks({}, "unused", o) /\ BytesSum({}, "unused", o) = 0
        BY SumEmpty DEF Lacks, BytesSum, SumFunction
    <2>3. Expected({}, "unused", o) = Measured(0)
        BY <1>1, <2>1, <2>2, ExpectedIs
    <2>. QED
        BY <1>1, <2>1, <2>3 DEF SumsOf, Measured
<1>. QED
    BY <1>2, <1>3

\* A census starts with nothing.
LEMMA CountStarts ==
    ASSUME StoreType, ModeType, NEW o, NEW t,
           t = [pc |-> "class", opts |-> o, classes |-> ClassesOf(mode), k |-> 0,
                todo |-> {}, cls |-> ZeroClass(o), lengths |-> {},
                total |-> ZeroOf(o, Measured(0)), files |-> 0, done |-> <<>>]
    PROVE  TallyIs(t)
<1>1. /\ DOMAIN t = TallyFields /\ t.pc = "class" /\ t.classes = ClassesOf(mode) /\ t.opts = o
      /\ t.done = <<>> /\ t.total = ZeroOf(o, Measured(0)) /\ t.files = 0
    BY DEF TallyFields
<1>2. t.done \in Seq(ClassRecord) /\ Len(t.done) = 0
    BY <1>1
<1>3. Seen(t) = {}
    BY <1>2 DEF Seen
<1>4. VersionsOf(Seen(t)) = {}
    BY <1>3 DEF VersionsOf
<1>. DEFINE z == ZeroOf(o, Measured(0))
<1>5. /\ Counted({}) /\ z \in SumsType
      /\ \A f \in Exact : z.exact[f] = ExactSum({}, f, o)
      /\ \A f \in Optional : (f = "unused" /\ mode = "reference") \/ z.opt[f] = Expected({}, f, o)
      /\ z.opt["unused"] = Measured(0)
    BY NothingIsSum
<1>. HIDE DEF z
<1>6. TotalOf(z, {}, {}, o)
    BY <1>5 DEF TotalOf
<1>7. Cardinality({}) = 0
    BY FS_EmptySet
<1>8. \A i \in 1 .. Len(t.done) : ClassDone(t.done[i], t.opts)
    BY <1>2
<1>9. t.total = z
    BY <1>1 DEF z
<1>. QED
    BY <1>1, <1>2, <1>3, <1>4, <1>5, <1>6, <1>7, <1>8, <1>9 DEF TallyIs

\* A class begins with nothing.
LEMMA ClassBegins ==
    ASSUME StoreType, ModeType, TallyIs(tally), BeginClass
    PROVE  TallyIs(tally')
<1>. DEFINE t == tally
            u == tally'
            k == Min(t.classes)
            o == t.opts
<1>1. /\ DOMAIN t = TallyFields /\ t.pc = "class" /\ t.classes # {}
      /\ t.classes \subseteq ClassesOf(mode)
      /\ u = [t EXCEPT !.pc = "versions", !.k = k, !.classes = t.classes \ {k},
                       !.todo = VersionsIn(k), !.cls = ZeroClass(o), !.lengths = {}]
    BY DEF TallyIs, BeginClass
<1>2. k \in t.classes
    BY <1>1, ClassesNat, MinOf
<1>. HIDE DEF k
<1>3. /\ DOMAIN u = TallyFields /\ u.pc = "versions" /\ u.k = k /\ u.classes = t.classes \ {k}
      /\ u.todo = VersionsIn(k) /\ u.cls = ZeroClass(o) /\ u.lengths = {}
      /\ u.opts = o /\ u.done = t.done /\ u.total = t.total /\ u.files = t.files
    BY <1>1 DEF TallyFields
<1>. HIDE DEF t, u, o
<1>4. Seen(u) = Seen(t)
    BY <1>3 DEF Seen
<1>5. Behind(u) = {}
    BY <1>3 DEF Behind
<1>6. /\ Seen(t) = ClassesOf(mode) \ t.classes
      /\ t.files = Cardinality(VersionsOf(Seen(t)))
      /\ t.done \in Seq(ClassRecord) /\ \A i \in 1 .. Len(t.done) : ClassDone(t.done[i], o)
      /\ Counted(VersionsOf(Seen(t))) /\ TotalOf(t.total, VersionsOf(Seen(t)), Seen(t), o)
    BY <1>1 DEF TallyIs, t, o
<1>7. Seen(u) = (ClassesOf(mode) \ u.classes) \ {k} /\ k \in ClassesOf(mode) \ u.classes
    BY <1>1, <1>2, <1>3, <1>4, <1>6
<1>8. Counted({}) /\ SumsOf(ZeroClass(o), {}, o)
    BY NothingIsSum
<1>9. Balanced(ZeroClass(o), {}, k)
    <2>. DEFINE z == ZeroClass(o)
    <2>1. /\ z.exact["occupied"] = 0 /\ z.exact["empty"] = 0 /\ z.exact["payload"] = 0
          /\ z.exact["entries"] = 0
          /\ mode = "full" => z.opt["unused"].bytes = 0
        BY ZeroFigures DEF Exact
    <2>2. Cardinality({}) = 0 /\ Buckets \in Nat /\ SlotBytes \in Nat
        BY FS_EmptySet, CensusNumbers
    <2>3. mode = "full" => Capacity[k] \in Nat
        BY <1>7, CensusNumbers DEF ClassesOf
    <2>. HIDE DEF z
    <2>4. \A b \in Nat : 0 * b = 0
        OBVIOUS
    <2>. QED
        BY <2>1, <2>2, <2>3, <2>4 DEF Balanced, z
<1>10. LengthsOf({}, {}, ZeroClass(o))
    <2>1. ZeroClass(o).exact["payload"] = 0 /\ ZeroClass(o).exact["entries"] = 0
        BY ZeroFigures DEF Exact
    <2>2. IsFiniteSet({}) /\ Cardinality({}) = 0 /\ SumFunctionOnSet(Lengths({}), {}) = 0
        BY FS_EmptySet, SumEmpty
    <2>. QED
        BY <2>1, <2>2 DEF LengthsOf
<1>11. ClassUnderWay(u)
    BY <1>3, <1>5, <1>7, <1>8, <1>9, <1>10 DEF ClassUnderWay
<1>12. u.classes \subseteq ClassesOf(mode)
    BY <1>1, <1>3
<1>13. VersionsOf(Seen(u)) \cup Behind(u) = VersionsOf(Seen(t))
    BY <1>4, <1>5
<1>. QED
    BY <1>3, <1>4, <1>6, <1>7, <1>11, <1>12, <1>13 DEF TallyIs, u

\* A product of three, one more.
LEMMA ThriceNext ==
    \A a, b, c \in Nat : (a + 1) * b * c = a * b * c + b * c
<1>. SUFFICES ASSUME NEW a \in Nat, NEW b \in Nat, NEW c \in Nat
              PROVE  (a + 1) * b * c = a * b * c + b * c
    OBVIOUS
<1>1. (a + 1) * b = a * b + b /\ a * b \in Nat
    OBVIOUS
<1>. DEFINE x == a * b
<1>. HIDE DEF x
<1>2. x \in Nat => (x + b) * c = x * c + b * c
    OBVIOUS
<1>. QED
    BY <1>1, <1>2 DEF x

\* A sum times a number.
LEMMA SumTimes == \A a, b, c \in Nat : (a + b) * c = a * c + b * c
OBVIOUS

\* The balance of a class with one version more.
LEMMA BalancedNext ==
    ASSUME StoreType, ModeType, NEW k, NEW S \in SUBSET VersionsIn(k), NEW n \in VersionsIn(k),
           n \notin S, VersionRefusal(n) = "ok", NEW o, NEW a, a \in SumsType, Balanced(a, S, k),
           mode = "full" => Given(a.opt["unused"]) /\ a.opt["unused"] # Unavailable,
           ~FoldOverflows(a, VersionCensus(n, o))
    PROVE  Balanced(Fold(a, VersionCensus(n, o)), S \cup {n}, k)
<1>. DEFINE v == VersionCensus(n, o)
            s == Fold(a, v)
            c == Cardinality(S)
            z == Capacity[k]
            e == EntriesOf(n)
            p == Payload(n)
<1>1. n \in DOMAIN gens /\ n[1] = k
    BY DEF VersionsIn
<1>2. /\ v \in SumsType /\ v.exact["entries"] = e
      /\ v.exact["occupied"] + v.exact["empty"] = Buckets * SlotBytes
      /\ mode = "full" => /\ v.exact["payload"] = p /\ p <= e * z
                          /\ v.opt["unused"] = Measured(e * z - p)
    BY <1>1, VersionFigures
<1>3. e \in Nat /\ z \in Nat /\ p \in Nat
    BY <1>1, PayloadNat
<1>4. c \in Nat /\ Cardinality(S \cup {n}) = c + 1
    BY VersionsFinite, FS_Subset, FS_AddElement, FS_CardinalityType
<1>. HIDE DEF v, e, p, z, c
<1>5. /\ \A f \in Exact : s.exact[f] = a.exact[f] + v.exact[f]
      /\ \A f \in Optional : s.opt[f] = AddOptional(a.opt[f], v.opt[f])
    BY <1>2, FoldFigures DEF v
<1>6. \A f \in Exact : a.exact[f] \in Nat /\ v.exact[f] \in Nat
    BY <1>2 DEF SumsType
<1>7. {"occupied", "empty", "payload", "entries"} \subseteq Exact /\ "unused" \in Optional
    BY DEF Exact, Optional
<1>. HIDE DEF s
<1>8. s.exact["occupied"] + s.exact["empty"] = Cardinality(S \cup {n}) * Buckets * SlotBytes
    <2>1. a.exact["occupied"] + a.exact["empty"] = c * Buckets * SlotBytes
        BY DEF Balanced, c
    <2>2. (c + 1) * Buckets * SlotBytes = c * Buckets * SlotBytes + Buckets * SlotBytes
        BY <1>4, CensusNumbers, ThriceNext
    <2>. DEFINE ao == a.exact["occupied"]
                ae == a.exact["empty"]
                vo == v.exact["occupied"]
                ve == v.exact["empty"]
                x == c * Buckets * SlotBytes
                y == Buckets * SlotBytes
                w == (c + 1) * Buckets * SlotBytes
    <2>3. /\ ao \in Nat /\ ae \in Nat /\ vo \in Nat /\ ve \in Nat
          /\ s.exact["occupied"] = ao + vo /\ s.exact["empty"] = ae + ve
        BY <1>5, <1>6, <1>7
    <2>4. ao + ae = x /\ vo + ve = y /\ w = x + y
        BY <1>2, <2>1, <2>2
    <2>. HIDE DEF ao, ae, vo, ve, x, y, w
    <2>5. (ao + vo) + (ae + ve) = w
        BY <2>3, <2>4
    <2>. QED
        BY <1>4, <2>3, <2>5 DEF w
<1>9. ASSUME mode = "full"
      PROVE  s.exact["payload"] + s.opt["unused"].bytes = s.exact["entries"] * Capacity[k]
    <2>. DEFINE ap == a.exact["payload"]
                ae == a.exact["entries"]
                b == a.opt["unused"].bytes
    <2>1. ap \in Nat /\ ae \in Nat /\ ap + b = ae * z
        BY <1>6, <1>7, <1>9 DEF Balanced, z
    <2>2. b \in Nat /\ a.opt["unused"] = Measured(b)
        BY <1>9 DEF Given
    <2>3. s.exact["payload"] = ap + p /\ s.exact["entries"] = ae + e
        BY <1>2, <1>5, <1>7, <1>9
    <2>4. s.opt["unused"] = AddOptional(Measured(b), Measured(e * z - p))
        BY <1>2, <1>5, <1>7, <1>9, <2>2
    <2>. HIDE DEF ap, ae, b
    <2>5. e * z \in Nat /\ p <= e * z
        BY <1>2, <1>3, <1>9, ProductNat
    <2>. DEFINE m == e * z
                r == ae * z
                q == (ae + e) * z
    <2>6. q = r + m
        BY <1>3, <2>1, SumTimes
    <2>7. m \in Nat /\ p <= m /\ ap + b = r
        BY <2>1, <2>5
    <2>8. s.opt["unused"].bytes = b + (m - p)
        BY <2>4 DEF AddOptional, Measured
    <2>. HIDE DEF m, r, q
    <2>9. (ap + p) + (b + (m - p)) = q
        BY <1>3, <2>1, <2>2, <2>6, <2>7
    <2>. QED
        BY <2>3, <2>8, <2>9 DEF q, z
<1>. QED
    BY <1>8, <1>9 DEF Balanced, s, v

\* The lengths of the entries of one version more.
LEMMA LengthsNext ==
    ASSUME StoreType, ModeType, NEW S, S \subseteq DOMAIN gens, NEW n \in DOMAIN gens, n \notin S,
           VersionRefusal(n) = "ok", NEW o, NEW a, a \in SumsType, NEW L, LengthsOf(L, S, a),
           ~FoldOverflows(a, VersionCensus(n, o))
    PROVE  LengthsOf(L \cup Histogram(n), S \cup {n}, Fold(a, VersionCensus(n, o)))
<1>. DEFINE v == VersionCensus(n, o)
            s == Fold(a, v)
            H == Histogram(n)
            M == L \cup H
            T == S \cup {n}
<1>1. /\ v \in SumsType /\ v.exact["entries"] = EntriesOf(n)
      /\ mode = "full" => v.exact["payload"] = Payload(n)
    BY VersionFigures
<1>2. \A f \in Exact : s.exact[f] = a.exact[f] + v.exact[f]
    BY <1>1, FoldFigures
<1>3. {"payload", "entries"} \subseteq Exact
    BY DEF Exact
<1>4. /\ IsFiniteSet(L) /\ \A e \in L : e[1] \in Nat /\ e[2] \in S
      /\ mode = "full" => /\ Cardinality(L) = a.exact["entries"]
                          /\ SumFunctionOnSet(Lengths(L), L) = a.exact["payload"]
    BY DEF LengthsOf
<1>5. CASE mode = "full"
    <2>1. /\ IsFiniteSet(H) /\ Cardinality(H) = EntriesOf(n)
          /\ SumFunctionOnSet(Lengths(H), H) = Payload(n)
          /\ \A e \in H : e[1] \in Nat /\ e[2] = n
        BY <1>5, HistogramIs
    <2>. HIDE DEF H, v, s
    <2>2. L \cap H = {}
        BY <1>4, <2>1
    <2>3. \A e \in L \cup H : e[1] \in Nat
        BY <1>4, <2>1
    <2>4. /\ IsFiniteSet(M) /\ Cardinality(M) = Cardinality(L) + Cardinality(H)
          /\ SumFunctionOnSet(Lengths(M), M) =
                SumFunctionOnSet(Lengths(L), L) + SumFunctionOnSet(Lengths(H), H)
        BY <1>4, <2>1, <2>2, <2>3, LengthsJoin
    <2>5. Cardinality(M) = s.exact["entries"]
        BY <1>1, <1>2, <1>3, <1>4, <1>5, <2>1, <2>4
    <2>6. SumFunctionOnSet(Lengths(M), M) = s.exact["payload"]
        BY <1>1, <1>2, <1>3, <1>4, <1>5, <2>1, <2>4
    <2>7. \A e \in M : e[1] \in Nat /\ e[2] \in T
        BY <1>4, <2>1
    <2>. HIDE DEF M, T
    <2>. QED
        BY <2>4, <2>5, <2>6, <2>7 DEF LengthsOf, M, T, H, s, v
<1>6. CASE mode = "reference"
    <2>1. M = L
        BY <1>6, NoHistogram
    <2>2. \A e \in L : e[1] \in Nat /\ e[2] \in T
        BY <1>4
    <2>. HIDE DEF T, s
    <2>3. LengthsOf(L, T, s)
        BY <1>4, <1>6, <2>2 DEF LengthsOf
    <2>. QED
        BY <2>1, <2>3 DEF T, s
<1>. QED
    BY <1>5, <1>6 DEF ModeType

\* What is unused in the slots of versions that are counted can be told, in a full store.
LEMMA UnusedGiven ==
    ASSUME StoreType, ModeType, NEW S, Counted(S), NEW o, NEW a, SumsOf(a, S, o), mode = "full"
    PROVE  Given(a.opt["unused"]) /\ a.opt["unused"] # Unavailable
<1>1. ~Never("unused", o) /\ "unused" \in Optional
    BY DEF Never, Optional
<1>2. \A n \in S : VersionCensus(n, o).opt["unused"] # Unavailable
    <2>. SUFFICES ASSUME NEW n \in S PROVE VersionCensus(n, o).opt["unused"] # Unavailable
        OBVIOUS
    <2>1. n \in DOMAIN gens /\ VersionRefusal(n) = "ok"
        BY DEF Counted
    <2>2. VersionCensus(n, o).opt["unused"] = Measured(EntriesOf(n) * Capacity[n[1]] - Payload(n))
        BY <2>1, VersionFigures
    <2>. QED
        BY <2>2 DEF Measured, Unavailable
<1>3. ~Lacks(S, "unused", o)
    BY <1>2 DEF Lacks
<1>4. Expected(S, "unused", o) = Measured(BytesSum(S, "unused", o))
    BY <1>1, <1>3, ExpectedIs
<1>5. a.opt["unused"] = Measured(BytesSum(S, "unused", o)) /\ a.opt["unused"] \in FigureType
    BY <1>1, <1>4 DEF SumsOf, SumsType
<1>. DEFINE b == BytesSum(S, "unused", o)
<1>. HIDE DEF b
<1>6. Measured(b) \in FigureType => b \in Nat /\ Given(Measured(b)) /\ Measured(b) # Unavailable
    BY DEF Measured, FigureType, Given, Unavailable
<1>. QED
    BY <1>5, <1>6 DEF b

\* A version is counted.
LEMMA VersionCounted ==
    ASSUME StoreType, ModeType, TallyIs(tally), CountVersion, Counting'
    PROVE  TallyIs(tally') /\ census' = census
<1>. DEFINE t == tally
            u == tally'
            n == First(t.todo)
            o == t.opts
            k == t.k
            v == VersionCensus(n, o)
            s == Fold(t.cls, v)
            S == Behind(t)
            T == S \cup {n}
            V == VersionsOf(Seen(t))
<1>1. /\ t.pc = "versions" /\ t.todo # {} /\ VersionRefusal(n) = "ok" /\ ~FoldOverflows(t.cls, v)
      /\ u = [t EXCEPT !.todo = t.todo \ {n}, !.files = t.files + 1, !.cls = s,
                       !.lengths = t.lengths \cup Histogram(n)]
      /\ census' = census
    BY DEF CountVersion, CensusRefused, Counting, IdleTally
<1>2. /\ DOMAIN t = TallyFields /\ t.classes \subseteq ClassesOf(mode)
      /\ t.done \in Seq(ClassRecord)
      /\ \A i \in 1 .. Len(t.done) : ClassDone(t.done[i], o)
      /\ Counted(V) /\ TotalOf(t.total, V, Seen(t), o)
      /\ ClassUnderWay(t)
      /\ Seen(t) = (ClassesOf(mode) \ t.classes) \ {k}
      /\ t.files = Cardinality(V \cup S)
    BY <1>1 DEF TallyIs
<1>3. /\ k \in ClassesOf(mode) \ t.classes /\ t.todo \subseteq VersionsIn(k)
      /\ Counted(S) /\ SumsOf(t.cls, S, o) /\ Balanced(t.cls, S, k)
      /\ LengthsOf(t.lengths, S, t.cls)
    BY <1>2 DEF ClassUnderWay
<1>4. t.todo \in SUBSET Version
    BY <1>3 DEF VersionsIn, StoreType
<1>5. n \in t.todo
    BY <1>1, <1>4, FirstIn
<1>. HIDE DEF n
<1>6. n \in VersionsIn(k) /\ n \in DOMAIN gens /\ n[1] = k
    BY <1>3, <1>5 DEF VersionsIn
<1>7. n \notin S /\ S \subseteq VersionsIn(k) /\ S \subseteq DOMAIN gens
    BY <1>5 DEF Behind, VersionsIn
<1>8. /\ DOMAIN u = TallyFields /\ u.pc = "versions" /\ u.k = k /\ u.classes = t.classes
      /\ u.todo = t.todo \ {n} /\ u.cls = s /\ u.lengths = t.lengths \cup Histogram(n)
      /\ u.opts = o /\ u.done = t.done /\ u.total = t.total /\ u.files = t.files + 1
    BY <1>1, <1>2 DEF TallyFields
<1>. HIDE DEF t, u, o, k, v, s
<1>9. Seen(u) = Seen(t)
    BY <1>8 DEF Seen
<1>10. Behind(u) = T
    BY <1>3, <1>5, <1>6, <1>8 DEF Behind, k
<1>. HIDE DEF S, T, V
<1>11. Counted({n}) /\ SumsOf(v, {n}, o) /\ S \cap {n} = {}
    BY <1>1, <1>6, <1>7, VersionIsSum DEF v
<1>12. Counted(T) /\ SumsOf(s, T, o)
    BY <1>1, <1>3, <1>11, FoldJoins DEF s, T
<1>13. t.cls \in SumsType
    BY <1>3 DEF SumsOf
<1>14. mode = "full" => Given(t.cls.opt["unused"]) /\ t.cls.opt["unused"] # Unavailable
    BY <1>3, UnusedGiven
<1>15. Balanced(s, T, k)
    <2>1. S \in SUBSET VersionsIn(k) /\ ~FoldOverflows(t.cls, VersionCensus(n, o))
        BY <1>1, <1>7 DEF v
    <2>2. Balanced(Fold(t.cls, VersionCensus(n, o)), S \cup {n}, k)
        BY <1>1, <1>3, <1>6, <1>7, <1>13, <1>14, <2>1, BalancedNext
    <2>. QED
        BY <2>2 DEF s, v, T
<1>16. LengthsOf(u.lengths, T, s)
    <2>1. ~FoldOverflows(t.cls, VersionCensus(n, o))
        BY <1>1 DEF v
    <2>2. LengthsOf(t.lengths \cup Histogram(n), S \cup {n}, Fold(t.cls, VersionCensus(n, o)))
        BY <1>1, <1>3, <1>6, <1>7, <1>13, <2>1, LengthsNext
    <2>. QED
        BY <1>8, <2>2 DEF s, v, T
<1>17. ClassUnderWay(u)
    BY <1>3, <1>8, <1>10, <1>12, <1>15, <1>16 DEF ClassUnderWay
<1>18. u.files = Cardinality(V \cup T)
    <2>1. V \subseteq DOMAIN gens /\ IsFiniteSet(DOMAIN gens)
        BY <1>2 DEF Counted, StoreType
    <2>2. IsFiniteSet(V \cup S)
        BY <1>7, <2>1, FS_Subset
    <2>3. n \notin V
        BY <1>2, <1>6 DEF V, VersionsOf
    <2>4. n \notin V \cup S
        BY <1>7, <2>3
    <2>5. Cardinality((V \cup S) \cup {n}) = Cardinality(V \cup S) + 1
        BY <2>2, <2>4, FS_AddElement
    <2>6. (V \cup S) \cup {n} = V \cup T
        BY DEF T
    <2>. QED
        BY <1>2, <1>8, <2>5, <2>6
<1>19. V = VersionsOf(Seen(u))
    BY <1>9 DEF V
<1>20. TallyIs(u)
    BY <1>2, <1>8, <1>9, <1>10, <1>17, <1>18, <1>19 DEF TallyIs
<1>. QED
    BY <1>1, <1>20 DEF u

\* A histogram is one.
LEMMA CompactedTyped ==
    ASSUME NEW L, IsFiniteSet(L), \A e \in L : e[1] \in Nat
    PROVE  Compacted(L) \in Histograms
<1>. DEFINE D == {e[1] : e \in L}
            C(l) == {e \in L : e[1] = l}
<1>1. \A l \in D : Cardinality(C(l)) \in Nat
    BY FS_Subset, FS_CardinalityType
<1>2. Compacted(L) = [l \in D |-> Cardinality(C(l))]
    BY DEF Compacted
<1>3. D \in SUBSET Nat
    OBVIOUS
<1>. HIDE DEF D, C
<1>4. Compacted(L) \in [D -> Nat]
    BY <1>1, <1>2
<1>. QED
    BY <1>3, <1>4 DEF Histograms

\* A class ends: its sums go into the total and it is one of those seen.
LEMMA ClassEnds ==
    ASSUME StoreType, ModeType, TallyIs(tally), EndClass, Counting'
    PROVE  TallyIs(tally') /\ census' = census
<1>. DEFINE t == tally
            u == tally'
            o == t.opts
            k == t.k
            L == t.lengths
            r == [k |-> k, sums |-> t.cls, histogram |-> Compacted(L)]
            S == VersionsIn(k)
            V == VersionsOf(Seen(t))
            D == Seen(t)
<1>1. /\ t.pc = "versions" /\ t.todo = {} /\ ~FoldOverflows(t.total, t.cls)
      /\ u = [t EXCEPT !.pc = "class", !.total = Fold(t.total, t.cls),
                       !.done = Append(t.done, r)]
      /\ census' = census
    BY DEF EndClass, CensusRefused, Counting, IdleTally
<1>2. /\ DOMAIN t = TallyFields /\ t.classes \subseteq ClassesOf(mode)
      /\ t.done \in Seq(ClassRecord)
      /\ \A i \in 1 .. Len(t.done) : ClassDone(t.done[i], o)
      /\ Counted(V) /\ TotalOf(t.total, V, D, o)
      /\ ClassUnderWay(t)
      /\ D = (ClassesOf(mode) \ t.classes) \ {k}
      /\ t.files = Cardinality(V \cup Behind(t))
    BY <1>1 DEF TallyIs
<1>3. Behind(t) = S
    BY <1>1 DEF Behind
<1>4. /\ k \in ClassesOf(mode) \ t.classes
      /\ Counted(S) /\ SumsOf(t.cls, S, o) /\ Balanced(t.cls, S, k) /\ LengthsOf(L, S, t.cls)
    BY <1>2, <1>3 DEF ClassUnderWay
<1>5. /\ DOMAIN u = TallyFields /\ u.pc = "class" /\ u.classes = t.classes
      /\ u.opts = o /\ u.done = Append(t.done, r) /\ u.total = Fold(t.total, t.cls)
      /\ u.files = t.files
    BY <1>1, <1>2 DEF TallyFields
<1>6. r.k = k /\ r.sums = t.cls /\ r.histogram = Compacted(L)
    OBVIOUS
<1>. HIDE DEF t, u, o, k, L, S
<1>7. IsFiniteSet(L) /\ \A e \in L : e[1] \in Nat
    BY <1>4 DEF LengthsOf
<1>8. r \in ClassRecord
    <2>1. k \in Nat
        BY <1>4, ClassesNat
    <2>2. t.cls \in SumsType /\ Compacted(L) \in Histograms
        BY <1>4, <1>7, CompactedTyped DEF SumsOf
    <2>. QED
        BY <2>1, <2>2 DEF ClassRecord
<1>9. ClassDone(r, o)
    <2>1. /\ SumFunction(Compacted(L)) = Cardinality(L)
          /\ SumFunction([l \in DOMAIN Compacted(L) |-> l * Compacted(L)[l]])
                = SumFunctionOnSet(Lengths(L), L)
        BY <1>7, CompactedIs
    <2>2. mode = "full" => /\ Cardinality(L) = t.cls.exact["entries"]
                           /\ SumFunctionOnSet(Lengths(L), L) = t.cls.exact["payload"]
        BY <1>4 DEF LengthsOf
    <2>3. /\ SumsOf(r.sums, VersionsIn(r.k), o) /\ Balanced(r.sums, VersionsIn(r.k), r.k)
        BY <1>4, <1>6 DEF S
    <2>. HIDE DEF r
    <2>4. mode = "full" =>
            /\ SumFunction(r.histogram) = r.sums.exact["entries"]
            /\ SumFunction([l \in DOMAIN r.histogram |-> l * r.histogram[l]])
                  = r.sums.exact["payload"]
        BY <1>6, <2>1, <2>2
    <2>. QED
        BY <2>3, <2>4 DEF ClassDone
<1>. HIDE DEF r
<1>10. /\ u.done \in Seq(ClassRecord) /\ Len(u.done) = Len(t.done) + 1 /\ Len(t.done) \in Nat
       /\ \A i \in 1 .. Len(t.done) : u.done[i] = t.done[i]
       /\ u.done[Len(t.done) + 1] = r
    BY <1>2, <1>5, <1>8
<1>11. \A i \in 1 .. Len(u.done) : ClassDone(u.done[i], u.opts)
    <2>. SUFFICES ASSUME NEW i \in 1 .. Len(u.done) PROVE ClassDone(u.done[i], u.opts)
        OBVIOUS
    <2>1. i \in 1 .. Len(t.done) \/ i = Len(t.done) + 1
        BY <1>10
    <2>. QED
        BY <1>2, <1>5, <1>9, <1>10, <2>1
<1>12. Seen(u) = D \cup {k}
    <2>1. \A x \in Seen(u) : x \in D \cup {k}
        <3>. SUFFICES ASSUME NEW i \in 1 .. Len(u.done) PROVE u.done[i].k \in D \cup {k}
            BY DEF Seen
        <3>1. i \in 1 .. Len(t.done) \/ i = Len(t.done) + 1
            BY <1>10
        <3>. QED
            BY <1>6, <1>10, <3>1 DEF Seen
    <2>2. \A x \in D : x \in Seen(u)
        <3>. SUFFICES ASSUME NEW i \in 1 .. Len(t.done) PROVE t.done[i].k \in Seen(u)
            BY DEF Seen
        <3>1. i \in 1 .. Len(u.done) /\ u.done[i] = t.done[i]
            BY <1>10
        <3>. QED
            BY <3>1 DEF Seen
    <2>3. k \in Seen(u)
        <3>1. Len(t.done) + 1 \in 1 .. Len(u.done) /\ u.done[Len(t.done) + 1].k = k
            BY <1>6, <1>10
        <3>. QED
            BY <3>1 DEF Seen
    <2>. QED
        BY <2>1, <2>2, <2>3
<1>. HIDE DEF V, D
<1>13. VersionsOf(Seen(u)) = V \cup S
    BY <1>12 DEF VersionsOf, VersionsIn, V, D, S
<1>14. V \cap S = {}
    BY <1>2 DEF VersionsOf, VersionsIn, V, D, S
<1>15. Counted(V \cup S)
    BY <1>2, <1>4 DEF Counted
<1>16. TotalOf(u.total, V \cup S, D \cup {k}, o)
    <2>1. /\ Counted(V) /\ Counted(S) /\ TotalOf(t.total, V, D, o) /\ SumsOf(t.cls, S, o)
          /\ ~FoldOverflows(t.total, t.cls)
        BY <1>1, <1>2, <1>4
    <2>2. TotalOf(Fold(t.total, t.cls), V \cup S, D \cup {k}, o)
        BY <1>14, <2>1, TotalJoins
    <2>. QED
        BY <1>5, <2>2
<1>17. Seen(u) = ClassesOf(mode) \ u.classes
    BY <1>2, <1>4, <1>5, <1>12
<1>18. u.files = Cardinality(VersionsOf(Seen(u)))
    BY <1>2, <1>3, <1>5, <1>13
<1>19. Counted(VersionsOf(Seen(u))) /\ TotalOf(u.total, VersionsOf(Seen(u)), Seen(u), u.opts)
    BY <1>5, <1>12, <1>13, <1>15, <1>16
<1>20. TallyIs(u)
    BY <1>2, <1>5, <1>10, <1>11, <1>17, <1>18, <1>19 DEF TallyIs
<1>. QED
    BY <1>1, <1>20 DEF u

-----------------------------------------------------------------------------
(* The report *)

\* A report is of every version, and its classes are all there are.
ReportIs(c) ==
    /\ c.files = Cardinality(DOMAIN gens)
    /\ {c.classes[i].k : i \in 1 .. Len(c.classes)} = ClassesOf(mode)
    /\ TotalOf(c.total, DOMAIN gens, ClassesOf(mode), c.opts)
    /\ \A i \in 1 .. Len(c.classes) : ClassDone(c.classes[i], c.opts)

\* The invariant of the report, on a store nobody has disturbed.
ReportInv == Undisturbed => ReportIs(census)

\* The last class was seen: the tally is the report.
LEMMA CensusEnds ==
    ASSUME StoreType, ModeType, TallyIs(tally), EndCensus
    PROVE  ~Counting' /\ ReportIs(census')
<1>. DEFINE t == tally
            c == census'
<1>1. /\ t.pc = "class" /\ t.classes = {} /\ tally' = IdleTally
      /\ c = [error |-> "ok", opts |-> t.opts, total |-> t.total, files |-> t.files,
              classes |-> t.done]
    BY DEF EndCensus
<1>2. /\ \A i \in 1 .. Len(t.done) : ClassDone(t.done[i], t.opts)
      /\ TotalOf(t.total, VersionsOf(Seen(t)), Seen(t), t.opts)
      /\ Seen(t) = ClassesOf(mode) \ t.classes
      /\ t.files = Cardinality(VersionsOf(Seen(t)))
    BY <1>1 DEF TallyIs
<1>3. Seen(t) = ClassesOf(mode)
    BY <1>1, <1>2
<1>4. VersionsOf(Seen(t)) = DOMAIN gens
    <2>1. \A n \in DOMAIN gens : n[1] \in ClassesOf(mode)
        BY DEF StoreType, ModeType, ClassesOf, Version
    <2>. QED
        BY <1>3, <2>1 DEF VersionsOf
<1>5. /\ c.opts = t.opts /\ c.total = t.total /\ c.files = t.files /\ c.classes = t.done
    BY <1>1
<1>6. ~Counting'
    BY <1>1 DEF Counting, IdleTally
<1>. HIDE DEF t, c
<1>7. {c.classes[i].k : i \in 1 .. Len(c.classes)} = ClassesOf(mode)
    BY <1>3, <1>5 DEF Seen
<1>8. ReportIs(c)
    BY <1>2, <1>3, <1>4, <1>5, <1>7 DEF ReportIs
<1>. QED
    BY <1>6, <1>8 DEF c

\* A report on a store that does not change stays true.
LEMMA SameReport ==
    ASSUME UNCHANGED store
    PROVE  \A c : ReportIs(c)' <=> ReportIs(c)
<1>1. gens' = gens /\ mode' = mode
    BY DEF store
<1>2. \A s, S, D, o : TotalOf(s, S, D, o)' <=> TotalOf(s, S, D, o)
    BY SameFigureSums
<1>3. \A c, o : ClassDone(c, o)' <=> ClassDone(c, o)
    BY SameFigureSums
<1>. SUFFICES ASSUME NEW c PROVE ReportIs(c)' <=> ReportIs(c)
    OBVIOUS
<1>4. (\A i \in 1 .. Len(c.classes) : ClassDone(c.classes[i], c.opts))'
            <=> \A i \in 1 .. Len(c.classes) : ClassDone(c.classes[i], c.opts)
    BY <1>3
<1>5. TotalOf(c.total, DOMAIN gens, ClassesOf(mode), c.opts)'
            <=> TotalOf(c.total, DOMAIN gens, ClassesOf(mode), c.opts)
    BY <1>1, <1>2 DEF ClassesOf
<1>6. ClassesOf(mode)' = ClassesOf(mode)
    BY <1>1 DEF ClassesOf
<1>. QED
    BY <1>1, <1>4, <1>5, <1>6 DEF ReportIs

\* What a step that nobody disturbs is for the census: a call, a step of its walk, or
\* something that leaves its tally and does not make a report.
LEMMA CensusSteps ==
    ASSUME StoreType, [Next]_vars, disturbed' = 0
    PROVE  /\ UNCHANGED store /\ disturbed = 0
           /\ \/ \E o \in CensusOptions : Count(o)
              \/ CensusStep
              \/ tally' = tally /\ (census' = census \/ census' = NoCensus)
<1>0. UNCHANGED store /\ disturbed = 0
    BY QuietSteps
<1>1. CASE UNCHANGED vars
    BY <1>0, <1>1 DEF vars, counting
<1>2. ASSUME NEW o \in VerifyOptions, AskVerify(o)
      PROVE  tally' = tally /\ census' = census
    BY <1>2 DEF AskVerify, counting
<1>3. ASSUME NEW o \in CensusOptions, AskCount(o)
      PROVE  Count(o)
    BY <1>3 DEF AskCount
<1>4. ASSUME Disturb \/ (VerifyStep /\ UNCHANGED <<counting, exit, scans>>)
      PROVE  tally' = tally /\ census' = census
    BY <1>4 DEF Disturb, counting
<1>5. ASSUME NEW written \in BOOLEAN, VerifyToolEnds(written) \/ CensusToolEnds(written)
      PROVE  tally' = tally /\ census' = census
    BY <1>5 DEF VerifyToolEnds, CensusToolEnds, counting
<1>6. ASSUME VerifyCannotOpen \/ CensusCannotOpen
      PROVE  tally' = tally /\ census' = NoCensus
    BY <1>6 DEF VerifyCannotOpen, CensusCannotOpen, ToolStops
<1>. QED
    BY <1>0, <1>1, <1>2, <1>3, <1>4, <1>5, <1>6 DEF Next, Scan

\* A census step that goes on changes the tally as the lemmas above say, and one that
\* does not go on ends with a refusal or with the report.
LEMMA CensusStepKeeps ==
    ASSUME StoreType, ModeType, TallyIs(tally), CensusStep
    PROVE  \/ Counting' /\ TallyIs(tally') /\ census' = census
           \/ ~Counting' /\ (census'.error = "ok" => ReportIs(census'))
<1>1. ASSUME NEW error, error # "ok", CensusRefused(error)
      PROVE  ~Counting' /\ census'.error # "ok"
    BY <1>1 DEF CensusRefused, Counting, IdleTally
<1>2. CASE BeginClass
    <2>1. TallyIs(tally') /\ census' = census
        BY <1>2, ClassBegins DEF BeginClass
    <2>2. Counting'
        <3>1. tally'.pc \in {"class", "versions"}
            BY <2>1 DEF TallyIs
        <3>. QED
            BY <3>1 DEF Counting
    <2>. QED
        BY <2>1, <2>2
<1>3. CASE CountVersion
    <2>1. CASE Counting'
        BY <1>3, <2>1, VersionCounted
    <2>2. CASE ~Counting'
        <3>. DEFINE n == First(tally.todo)
                    part == VersionCensus(n, tally.opts)
                    w == [tally EXCEPT !.todo = @ \ {n}, !.files = @ + 1,
                                       !.cls = Fold(@, part),
                                       !.lengths = @ \cup Histogram(n)]
        <3>1. w.pc = "versions"
            BY <1>3 DEF CountVersion, TallyIs, TallyFields
        <3>2. \/ VersionRefusal(n) # "ok" /\ CensusRefused(VersionRefusal(n))
              \/ CensusRefused("entry_corrupt")
              \/ tally' = w
            BY <1>3, Zenon DEF CountVersion
        <3>. HIDE DEF w, n
        <3>3. tally' # w
            BY <2>2, <3>1 DEF Counting
        <3>. QED
            BY <1>1, <2>2, <3>2, <3>3
    <2>. QED
        BY <2>1, <2>2
<1>4. CASE EndClass
    <2>1. CASE Counting'
        BY <1>4, <2>1, ClassEnds
    <2>2. CASE ~Counting'
        <3>. DEFINE w == [tally EXCEPT !.pc = "class", !.total = Fold(@, tally.cls),
                              !.done = Append(@, [k |-> tally.k, sums |-> tally.cls,
                                                  histogram |-> Compacted(tally.lengths)])]
        <3>1. w.pc = "class"
            BY DEF TallyIs, TallyFields
        <3>2. CensusRefused("entry_corrupt") \/ tally' = w
            BY <1>4, Zenon DEF EndClass
        <3>. HIDE DEF w
        <3>3. tally' # w
            BY <2>2, <3>1 DEF Counting
        <3>. QED
            BY <1>1, <2>2, <3>2, <3>3
    <2>. QED
        BY <2>1, <2>2
<1>5. CASE EndCensus
    BY <1>5, CensusEnds
<1>. QED
    BY <1>2, <1>3, <1>4, <1>5 DEF CensusStep

\* The mode of a store never changes, and a reference store keeps its one class.
LEMMA ModeTypeStep ==
    ASSUME StoreType, ModeType, [Next]_vars
    PROVE  ModeType'
<1>1. mode' = mode /\ DOMAIN gens' = DOMAIN gens
    BY WalkSteps, VerifySteps, DisturbSteps DEF store
<1>. QED
    BY <1>1 DEF ModeType

\* A step keeps the tally and the report true of the store.
LEMMA CensusInvStep ==
    ASSUME StoreType, ModeType, TallyingInv, ReportInv, [Next]_vars
    PROVE  TallyingInv' /\ ReportInv'
<1>. SUFFICES ASSUME disturbed' = 0
              PROVE  (Counting' => TallyIs(tally)') /\ (census'.error = "ok" => ReportIs(census)')
    BY DEF TallyingInv, ReportInv, Undisturbed
<1>1. UNCHANGED store /\ disturbed = 0
    BY CensusSteps
<1>2. TallyIs(tally)' <=> TallyIs(tally')
    BY <1>1, SameTally
<1>3. ReportIs(census)' <=> ReportIs(census')
    BY <1>1, SameReport
<1>4. Counting => TallyIs(tally)
    BY <1>1 DEF TallyingInv
<1>5. census.error = "ok" => ReportIs(census)
    BY <1>1 DEF ReportInv, Undisturbed
<1>. SUFFICES (Counting' => TallyIs(tally')) /\ (census'.error = "ok" => ReportIs(census'))
    BY <1>2, <1>3
<1>6. ASSUME NEW o \in CensusOptions, Count(o)
      PROVE  (Counting' => TallyIs(tally')) /\ (census'.error = "ok" => ReportIs(census'))
    <2>1. CASE latch = "integrity"
        <3>1. tally' = IdleTally /\ census'.error = "integrity"
            BY <1>6, <2>1 DEF Count, CensusRefused
        <3>. QED
            BY <3>1 DEF Counting, IdleTally
    <2>2. CASE latch # "integrity"
        <3>1. /\ tally' = [pc |-> "class", opts |-> o, classes |-> ClassesOf(mode), k |-> 0,
                           todo |-> {}, cls |-> ZeroClass(o), lengths |-> {},
                           total |-> ZeroOf(o, Measured(0)), files |-> 0, done |-> <<>>]
              /\ census' = NoCensus
            BY <1>6, <2>2 DEF Count
        <3>2. TallyIs(tally')
            BY <3>1, CountStarts
        <3>. QED
            BY <3>1, <3>2 DEF NoCensus
    <2>. QED
        BY <2>1, <2>2
<1>7. CASE CensusStep
    <2>1. Counting
        BY <1>7 DEF CensusStep, BeginClass, CountVersion, EndClass, EndCensus, Counting
    <2>2. TallyIs(tally)
        BY <1>4, <2>1
    <2>. QED
        BY <1>5, <1>7, <2>2, CensusStepKeeps
<1>8. CASE tally' = tally /\ (census' = census \/ census' = NoCensus)
    BY <1>4, <1>5, <1>8 DEF Counting, NoCensus
<1>. QED
    BY <1>6, <1>7, <1>8, CensusSteps

\* The invariant of the census: on a store nobody has disturbed, the tally is that of
\* the versions it has come past, class by class, and the report that of them all.
THEOREM TallyingInvariant == Spec => [](ModeType /\ TallyingInv /\ ReportInv)
<1>1. Init => ModeType /\ TallyingInv /\ ReportInv
    <2>. SUFFICES ASSUME Init PROVE ModeType /\ TallyingInv /\ ReportInv
        OBVIOUS
    <2>1. ~Counting /\ census.error # "ok"
        BY DEF Init, CensusInit, Counting, IdleTally, NoCensus
    <2>2. ModeType
        <3>1. mode \in {"full", "reference"}
            BY DEF Init, StoreInit
        <3>2. PICK c \in Contents :
                 /\ mode = "reference" => \A n \in DOMAIN c : n[1] = 0
                 /\ DOMAIN gens = DOMAIN c
            BY DEF Init, StoreInit
        <3>. QED
            BY <3>1, <3>2 DEF ModeType
    <2>. QED
        BY <2>1, <2>2 DEF TallyingInv, ReportInv, Undisturbed
<1>2. BudgetTyped /\ ModeType /\ TallyingInv /\ ReportInv /\ [Next]_vars
      => (ModeType /\ TallyingInv /\ ReportInv)'
    BY ModeTypeStep, CensusInvStep DEF BudgetTyped
<1>. QED
    BY <1>1, <1>2, BudgetInvariant, PTL DEF Spec

\* A report on a store nobody has disturbed covers every version of every class once, its
\* totals are those of the files, and the figures of a class agree with each other: for
\* every store, every length of an entry and every size of a segment and its parts.
THEOREM CensusWholeHolds == Spec => []CensusWhole
<1>1. ReportInv => CensusWhole
    <2>. SUFFICES ASSUME ReportInv, Undisturbed PROVE CensusWhole
        BY DEF CensusWhole
    <2>1. ReportIs(census)
        BY DEF ReportInv
    <2>2. \A f \in Exact : census.total.exact[f] = Whole(DOMAIN gens, f)
        BY <2>1 DEF ReportIs, TotalOf, ExactSum, Whole
    <2>3. ASSUME NEW i \in 1 .. Len(census.classes)
          PROVE  LET c == census.classes[i]
                 IN /\ c.sums.exact["entries"] = Whole(VersionsIn(c.k), "entries")
                    /\ mode = "full" =>
                         /\ SumFunction(c.histogram) = c.sums.exact["entries"]
                         /\ SumFunction([l \in DOMAIN c.histogram |-> l * c.histogram[l]])
                               = c.sums.exact["payload"]
                         /\ c.sums.exact["payload"] + c.sums.opt["unused"].bytes
                               = c.sums.exact["entries"] * Capacity[c.k]
                    /\ c.sums.exact["occupied"] + c.sums.exact["empty"]
                         = Cardinality(VersionsIn(c.k)) * Buckets * SlotBytes
        <3>. DEFINE c == census.classes[i]
        <3>1. ClassDone(c, census.opts)
            BY <2>1, <2>3 DEF ReportIs
        <3>. HIDE DEF c
        <3>2. c.sums.exact["entries"] = Whole(VersionsIn(c.k), "entries")
            BY <3>1 DEF ClassDone, SumsOf, ExactSum, Whole, Exact
        <3>. QED
            BY <3>1, <3>2 DEF ClassDone, Balanced, c
    <2>. QED
        BY <2>1, <2>2, <2>3 DEF CensusWhole, ReportIs
<1>. QED
    BY <1>1, TallyingInvariant, PTL

\* A sum of figures is called measured only when every part of it was, in the totals and
\* in every class, whatever was missing in whichever version.
THEOREM AbsenceKeptHolds == Spec => []AbsenceKept
<1>1. ReportInv => AbsenceKept
    <2>. SUFFICES ASSUME ReportInv, Undisturbed PROVE AbsenceKept
        BY DEF AbsenceKept
    <2>1. ReportIs(census)
        BY DEF ReportInv
    <2>2. mode = "reference" => ClassesOf(mode) # {}
        BY DEF ClassesOf
    <2>3. \A f \in Optional : census.total.opt[f] = Expected(DOMAIN gens, f, census.opts)
        BY <2>1, <2>2 DEF ReportIs, TotalOf
    <2>4. \A f \in Optional : \A i \in 1 .. Len(census.classes) :
                  census.classes[i].sums.opt[f]
                      = Expected(VersionsIn(census.classes[i].k), f, census.opts)
        BY <2>1 DEF ReportIs, ClassDone, SumsOf
    <2>. QED
        BY <2>3, <2>4 DEF AbsenceKept
<1>. QED
    BY <1>1, TallyingInvariant, PTL
=============================================================================
