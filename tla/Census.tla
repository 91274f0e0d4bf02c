------------------------------- MODULE Census -------------------------------
(***************************************************************************)
(* census(): what a store holds, counted from its files.  Each version is  *)
(* read whole, its figures are added to those of its class and the class   *)
(* to the report.  A figure that could not be obtained is not a zero: it   *)
(* has a status, and so has every sum it goes into.                        *)
(*                                                                         *)
(* One step per version and one per class.  The wording that accompanies a *)
(* figure, the durations and the two presentations of the report are left  *)
(* out.                                                                    *)
(***************************************************************************)
EXTENDS StoredEntries

CONSTANTS
    LengthOf,           \* the payload length of each key's entry
    Capacity,           \* the payload capacity of each class
    SegmentSize,        \* bytes of a segment
    Buckets,            \* buckets of a map
    SlotBytes,          \* sizeof(value_type)
    ReferenceBytes,     \* sizeof(reference_value)
    Blocks              \* bytes the file system gave a file

ASSUME CensusAssumption ==
    /\ LengthOf \in [Key -> Nat] /\ Capacity \in [Class -> Nat]
    /\ {SegmentSize, Buckets, SlotBytes, ReferenceBytes, Blocks} \subseteq Nat

VARIABLES
    tally,      \* the census under way
    census      \* what the last one returned

counting == <<tally, census>>

Exact == {"entries", "payload", "size", "free", "file", "occupied", "empty", "metadata"}
Optional == {"unused", "residual", "physical"}

NoCensus == [error |-> "none"]
IdleTally == [pc |-> "idle"]
Counting == tally.pc # "idle"

Measured(n) == [status |-> "measured", bytes |-> n]
NotApplicable == [status |-> "not_applicable", bytes |-> 0]
Unavailable == [status |-> "unavailable", bytes |-> 0]

CensusRefused(error) == tally' = IdleTally /\ census' = [error |-> error]
-----------------------------------------------------------------------------
(* Sums of figures that may be absent *)

\* Mutant of AddOptional: an unavailable total is added to like any other.
AddToUnavailable(total, part) ==
    IF part.status = "measured" /\ (total.status = "measured" \/ total.bytes = 0)
    THEN Measured(total.bytes + part.bytes)
    ELSE IF part = NotApplicable /\ total = NotApplicable THEN total
    ELSE [status |-> part.status, bytes |-> 0]

\* add_optional: absent plus present is absent.
AddOptional(total, part) ==
    IF total.status = "unavailable" THEN total
    ELSE IF part.status = "measured" /\ (total.status = "measured" \/ total.bytes = 0)
    THEN Measured(total.bytes + part.bytes)
    ELSE IF part.status = "not_applicable" /\ total.status = "not_applicable" THEN total
    ELSE [status |-> part.status, bytes |-> 0]

\* fold_into_class, fold_into_report: every exact figure at once, or overflow.
FoldOverflows(total, part) ==
    \E f \in Exact : ~CheckedAdd(total.exact[f], part.exact[f]).ok
Fold(total, part) ==
    [exact |-> [f \in Exact |-> CheckedAdd(total.exact[f], part.exact[f]).value],
     opt |-> [f \in Optional |-> AddOptional(total.opt[f], part.opt[f])]]

\* set_residual
Residual(size, free, modelled) ==
    IF free > size \/ modelled > size - free THEN Unavailable
    ELSE Measured(size - free - modelled)

\* group_metadata_model
GroupMetadata(buckets) == CheckedMul(buckets \div 15 + 1, 16)

\* The slots and the metadata of a map are allocated in its segment.
ASSUME SegmentAssumption ==
    Buckets * SlotBytes + GroupMetadata(Buckets).value <= SegmentSize
-----------------------------------------------------------------------------
(* One version *)

EntriesOf(n) == Cardinality(gens[n].keys)
\* A damaged version claims more entries than it has buckets.
BucketsOf(n) ==
    IF gens[n].damage = "overfull" /\ EntriesOf(n) > 0 THEN EntriesOf(n) - 1 ELSE Buckets
Longest(n) == Max({LengthOf[key] : key \in gens[n].keys} \cup {0})
\* The recorded length of an entry: a damaged version has one too long for its class.
RecordedLength(n, key) ==
    IF gens[n].damage = "oversized" /\ LengthOf[key] = Longest(n) THEN Capacity[n[1]] + 1
    ELSE LengthOf[key]
FreeOf(n) == IF gens[n].damage = "shrunk" THEN SegmentSize
             ELSE SegmentSize - (Buckets * SlotBytes + GroupMetadata(Buckets).value)

\* validate_generation_counts and validate_payload_length
ValidCounts(n) == EntriesOf(n) <= BucketsOf(n)
ValidLengths(n) == \A key \in gens[n].keys : RecordedLength(n, key) <= Capacity[n[1]]

\* What bounds the payload of one entry: the capacity of a class, or the fixed record.
PayloadBound(n) == IF mode = "full" THEN Capacity[n[1]] ELSE ReferenceBytes

\* finish_generation: the slots and the metadata of a version can be told in bytes.
ModelledInBytes(n) ==
    LET occupied == CheckedMul(EntriesOf(n), SlotBytes)
        empty == CheckedMul(BucketsOf(n) - EntriesOf(n), SlotBytes)
        metadata == GroupMetadata(BucketsOf(n))
        slots == CheckedAdd(occupied.value, empty.value)
    IN /\ occupied.ok /\ empty.ok /\ metadata.ok
       /\ slots.ok /\ CheckedAdd(slots.value, metadata.value).ok

\* file_facts: the file system says how long the file is.
Sized(n) == gens[n].damage # "unsized"

\* Everything that ends a census at this version, in the order it is met.
VersionRefusal(n) ==
    IF ~Sized(n) THEN "file_open_failed"
    ELSE IF OpenToRead(n) # "ok" THEN OpenToRead(n)
    ELSE IF \/ ~ValidCounts(n)
            \/ mode = "full" /\ ~ValidLengths(n)
            \/ ~CheckedMul(EntriesOf(n), PayloadBound(n)).ok
            \/ ~ModelledInBytes(n) THEN "entry_corrupt"
    ELSE "ok"

Payload(n) == SumFunction([key \in gens[n].keys |-> RecordedLength(n, key)])

\* physical_allocation_of, asked for only if the caller wants the blocks.
PhysicalOf(n, o) ==
    IF ~o.blocks THEN NotApplicable
    ELSE IF gens[n].damage = "unmeasured" THEN Unavailable
    ELSE Measured(Blocks)

\* file_facts, accumulate_full or accumulate_reference, finish_generation
VersionCensus(n, o) ==
    LET payload == IF mode = "full" THEN Payload(n) ELSE EntriesOf(n) * ReferenceBytes
        occupied == EntriesOf(n) * SlotBytes
        empty == (BucketsOf(n) - EntriesOf(n)) * SlotBytes
        metadata == GroupMetadata(BucketsOf(n)).value
    IN [exact |-> [f \in Exact |->
            CASE f = "entries" -> EntriesOf(n)
              [] f = "payload" -> payload
              [] f = "size" -> SegmentSize
              [] f = "file" -> SegmentSize
              [] f = "free" -> FreeOf(n)
              [] f = "occupied" -> occupied
              [] f = "empty" -> empty
              [] f = "metadata" -> metadata],
        opt |-> [f \in Optional |->
            CASE f = "unused" -> IF mode = "full"
                                 THEN Measured(EntriesOf(n) * Capacity[n[1]] - payload)
                                 ELSE NotApplicable
              [] f = "residual" -> Residual(SegmentSize, FreeOf(n), occupied + empty + metadata)
              [] f = "physical" -> PhysicalOf(n, o)]]

\* A total before anything is added: measured zeros, so that an empty store has zeros.
ZeroOf(o, unused) ==
    [exact |-> [f \in Exact |-> 0],
     opt |-> [f \in Optional |->
        CASE f = "unused" -> unused
          [] f = "physical" /\ ~o.blocks -> NotApplicable
          [] OTHER -> Measured(0)]]
-----------------------------------------------------------------------------
(* The walk *)

ClassesOf(m) == IF m = "reference" THEN {0} ELSE Class
VersionsIn(k) == {n \in DOMAIN gens : n[1] = k}
ZeroClass(o) == ZeroOf(o, IF mode = "full" THEN Measured(0) ELSE NotApplicable)

\* db_base::census: refused by the latch of integrity and by no other.
Count(o) ==
    /\ ~Counting
    /\ \/ /\ latch = "integrity"
          /\ CensusRefused("integrity")
       \/ /\ latch # "integrity"
          /\ tally' = [pc |-> "class", opts |-> o, classes |-> ClassesOf(mode), k |-> 0,
                       todo |-> {}, cls |-> ZeroClass(o), lengths |-> {},
                       total |-> ZeroOf(o, Measured(0)), files |-> 0, done |-> <<>>]
          /\ census' = NoCensus
    /\ UNCHANGED store

\* Mutant of BeginClass: the sums of the class before are not cleared.
BeginClassOver ==
    /\ tally.pc = "class" /\ tally.classes # {}
    /\ LET k == Min(tally.classes)
       IN tally' = [tally EXCEPT !.pc = "versions", !.k = k, !.classes = @ \ {k},
                                 !.todo = VersionsIn(k), !.lengths = {}]
    /\ UNCHANGED <<store, census>>

BeginClass ==
    /\ tally.pc = "class" /\ tally.classes # {}
    /\ LET k == Min(tally.classes)
       IN tally' = [tally EXCEPT !.pc = "versions", !.k = k, !.classes = @ \ {k},
                                 !.todo = VersionsIn(k), !.cls = ZeroClass(tally.opts),
                                 !.lengths = {}]
    /\ UNCHANGED <<store, census>>

\* The histogram of payload lengths, as the entries that have each length.
Histogram(n) ==
    IF mode = "full" THEN {<<RecordedLength(n, key), n, key>> : key \in gens[n].keys} ELSE {}

CountVersion ==
    LET n == First(tally.todo)
        part == VersionCensus(n, tally.opts)
    IN /\ tally.pc = "versions" /\ tally.todo # {}
       /\ \/ /\ VersionRefusal(n) # "ok"
             /\ CensusRefused(VersionRefusal(n))
          \/ /\ VersionRefusal(n) = "ok" /\ FoldOverflows(tally.cls, part)
             /\ CensusRefused("entry_corrupt")
          \/ /\ VersionRefusal(n) = "ok" /\ ~FoldOverflows(tally.cls, part)
             /\ tally' = [tally EXCEPT !.todo = @ \ {n}, !.files = @ + 1,
                                       !.cls = Fold(@, part),
                                       !.lengths = @ \cup Histogram(n)]
             /\ UNCHANGED census
       /\ UNCHANGED store

\* compact_histogram: only the lengths that occur.
Compacted(lengths) ==
    [l \in {e[1] : e \in lengths} |-> Cardinality({e \in lengths : e[1] = l})]

EndClass ==
    /\ tally.pc = "versions" /\ tally.todo = {}
    /\ \/ /\ FoldOverflows(tally.total, tally.cls)
          /\ CensusRefused("entry_corrupt")
       \/ /\ ~FoldOverflows(tally.total, tally.cls)
          /\ tally' = [tally EXCEPT !.pc = "class", !.total = Fold(@, tally.cls),
                          !.done = Append(@, [k |-> tally.k, sums |-> tally.cls,
                                              histogram |-> Compacted(tally.lengths)])]
          /\ UNCHANGED census
    /\ UNCHANGED store

EndCensus ==
    /\ tally.pc = "class" /\ tally.classes = {}
    /\ tally' = IdleTally
    /\ census' = [error |-> "ok", opts |-> tally.opts, total |-> tally.total, files |-> tally.files,
                  classes |-> tally.done]
    /\ UNCHANGED store
-----------------------------------------------------------------------------
CensusInit == tally = IdleTally /\ census = NoCensus
CensusStep == BeginClass \/ CountVersion \/ EndClass \/ EndCensus
-----------------------------------------------------------------------------
(* Properties of the census, stated over the versions of the store *)

Whole(S, f) == SumFunction([n \in S |-> VersionCensus(n, census.opts).exact[f]])
Undisturbed == census.error = "ok" /\ disturbed = 0

\* A report covers every version of every class, each of them once and in its class,
\* and its totals are those of the files however they were folded: slots account for
\* every bucket, and the entries of the histogram are the entries counted.
CensusWhole ==
    Undisturbed =>
        /\ census.files = Cardinality(DOMAIN gens)
        /\ {census.classes[i].k : i \in 1 .. Len(census.classes)} = ClassesOf(mode)
        /\ \A f \in Exact : census.total.exact[f] = Whole(DOMAIN gens, f)
        /\ \A i \in 1 .. Len(census.classes) :
              LET c == census.classes[i]
              IN /\ c.sums.exact["entries"] = Whole(VersionsIn(c.k), "entries")
                 /\ mode = "full" =>
                      /\ SumFunction(c.histogram) = c.sums.exact["entries"]
                      /\ SumFunction([l \in DOMAIN c.histogram |-> l * c.histogram[l]])
                            = c.sums.exact["payload"]
                      /\ c.sums.exact["payload"] + c.sums.opt["unused"].bytes
                            = c.sums.exact["entries"] * Capacity[c.k]
                 /\ c.sums.exact["occupied"] + c.sums.exact["empty"]
                      = Cardinality(VersionsIn(c.k)) * Buckets * SlotBytes

\* What a sum of figures has to be: unavailable if one of them is, absent if one of
\* them does not apply, and their sum otherwise.
Expected(S, f, o) ==
    LET parts == {VersionCensus(n, o).opt[f].status : n \in S}
    IN IF "unavailable" \in parts THEN Unavailable
       ELSE IF \/ "not_applicable" \in parts
               \/ f = "physical" /\ ~o.blocks
               \/ f = "unused" /\ mode = "reference" THEN NotApplicable
       ELSE Measured(SumFunction([n \in S |-> VersionCensus(n, o).opt[f].bytes]))

\* A total is called measured only when every part of it was: no sum skips the version
\* that could not be measured and goes by the name of a complete one.
AbsenceKept ==
    Undisturbed =>
        \A f \in Optional :
            /\ census.total.opt[f] = Expected(DOMAIN gens, f, census.opts)
            /\ \A i \in 1 .. Len(census.classes) :
                  census.classes[i].sums.opt[f]
                      = Expected(VersionsIn(census.classes[i].k), f, census.opts)
=============================================================================
