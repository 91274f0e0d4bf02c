----------------------------- MODULE Uniqueness -----------------------------
(***************************************************************************)
(* verify_unique_outpoints(): is any outpoint stored more than once?  The  *)
(* store is walked once to count the entries of each partition prefix, the *)
(* prefixes are gathered into groups whose records fit the memory budget,  *)
(* and the store is walked again once per group, whose records are         *)
(* collected, sorted and counted key by key.                               *)
(*                                                                         *)
(* One step per version visited and per key counted.  Bytes are counted in *)
(* units given by the constants; sorting is the choice of the least key.   *)
(***************************************************************************)
EXTENDS StoredEntries

CONSTANTS
    PlanningPrefixes,           \* planning_prefixes
    PrefixOf,           \* the prefix of a key's partition hash
    RecordBytes, SortAllowance, CounterBytes, GroupBytes, FindingBytes, LocationBytes,
    Addressable,        \* the largest size_t
    VectorMax,          \* max_size() of a vector
    VerifyOptions       \* the options a caller may pass

ASSUME UniquenessAssumption ==
    /\ PlanningPrefixes \in Nat \ {0} /\ PrefixOf \in [Key -> 0 .. PlanningPrefixes - 1]
    /\ {SortAllowance, CounterBytes, GroupBytes, FindingBytes, LocationBytes} \subseteq Nat
    /\ RecordBytes \in Nat \ {0} /\ {Addressable, VectorMax} \subseteq Nat
    /\ IsFiniteSet(VerifyOptions) /\ VerifyOptions \subseteq
          [budget : 0 .. Limit, passes : 0 .. Limit, findings : 0 .. Limit,
           locations : 0 .. Limit, outpoints : BOOLEAN]

VARIABLES
    walk,       \* the verification under way
    verdict     \* what the last one returned

verifying == <<walk, verdict>>

NoVerdict == [error |-> "none"]
IdleWalk == [pc |-> "idle"]
Walking == walk.pc # "idle"

VerifyRefused(error, o) == walk' = IdleWalk /\ verdict' = [error |-> error, opts |-> o]
Proceed(w) == walk' = w /\ UNCHANGED verdict
-----------------------------------------------------------------------------
(* The budget *)

HeadroomOf(budget) == budget \div 10
Ceiling(o) == o.budget - HeadroomOf(o.budget)

\* Mutant of Grants: each allocation is held against the whole ceiling.
GrantsAlone(w, bytes) == bytes <= Ceiling(w.opts)

\* budget_meter::acquire, for a whole allocation: counted_allocator::allocate.
Grants(w, bytes) == bytes <= Ceiling(w.opts) - w.out
Acquire(w, bytes) == [w EXCEPT !.out = @ + bytes, !.peak = Max({@, w.out + bytes})]

\* budget_meter::release
Release(w, bytes) == [w EXCEPT !.out = @ - bytes]

Fixed(w) == w.out       \* what is held before the first record

\* fits_in_budget
FitsInBudget(w, records) ==
    LET reserved == CheckedMul(records, RecordBytes)
        withFixed == CheckedAdd(reserved.value, Fixed(w))
        peak == CheckedAdd(withFixed.value, HeadroomOf(w.opts.budget))
    IN reserved.ok /\ withFixed.ok /\ peak.ok /\ peak.value <= w.opts.budget

SampleLocations(o) == CheckedMul(o.findings, o.locations)

\* The size of the sample cannot be counted, indexed or held by a vector.
SampleRefusal(o) ==
    LET places == SampleLocations(o)
        report == CheckedMul(o.findings, FindingBytes)
        bytes == CheckedMul(places.value, LocationBytes)
    IN \/ ~places.ok \/ ~report.ok \/ ~bytes.ok
       \/ ~CheckedAdd(report.value, bytes.value).ok
       \/ o.findings > Addressable \/ places.value > Addressable
       \/ o.findings > VectorMax \/ places.value > VectorMax
-----------------------------------------------------------------------------
(* Planning *)

NewWalk(o) ==
    [pc |-> "sample", opts |-> o, todo |-> {}, counts |-> [p \in 0 .. PlanningPrefixes - 1 |-> 0],
     groups |-> <<>>, at |-> 0, perPass |-> 0, records |-> {}, capacity |-> 0,
     out |-> 0, peak |-> 0, planned |-> 0, visits |-> 0, examined |-> 0, passes |-> 0,
     distinct |-> 0, physical |-> 0, extra |-> 0, multiple |-> 0, most |-> 0,
     sample |-> <<>>, places |-> <<>>]

\* db_base::verify_unique_outpoints and the checks on the size of the sample.  A
\* latched store is given no verdict: its second copies may be a merge cut short.
Verify(o) ==
    /\ ~Walking
    /\ \/ /\ latch # "none"
          /\ VerifyRefused(latch, o)
       \/ /\ latch = "none" /\ SampleRefusal(o)
          /\ VerifyRefused("insufficient_space", o)
       \/ /\ latch = "none" /\ ~SampleRefusal(o)
          /\ walk' = NewWalk(o) /\ verdict' = NoVerdict
    /\ UNCHANGED store

\* The sample, in two blocks that never grow.
ReserveSample ==
    LET first == walk.opts.findings * FindingBytes
        second == SampleLocations(walk.opts).value * LocationBytes
        w == Acquire(walk, first)
    IN /\ walk.pc = "sample"
       /\ \/ /\ Grants(walk, first) /\ Grants(w, second)
             /\ Proceed([Acquire(w, second) EXCEPT !.pc = "start"])
          \/ /\ ~(Grants(walk, first) /\ Grants(w, second))
             /\ VerifyRefused("insufficient_space", walk.opts)
       /\ UNCHANGED store

\* walk_distinct_keys: the allowance for the sort, then the counters.
StartWalk ==
    LET w == Acquire(walk, SortAllowance)
    IN /\ walk.pc = "start"
       /\ \/ /\ Grants(walk, SortAllowance) /\ Grants(w, PlanningPrefixes * CounterBytes)
             /\ Proceed([Acquire(w, PlanningPrefixes * CounterBytes) EXCEPT
                           !.pc = "plan", !.todo = DOMAIN gens])
          \/ /\ ~(Grants(walk, SortAllowance) /\ Grants(w, PlanningPrefixes * CounterBytes))
             /\ VerifyRefused("insufficient_space", walk.opts)
       /\ UNCHANGED store

\* The entries of a version by prefix.
OfPrefix(keys, p) == {key \in keys : PrefixOf[key] = p}

\* A version that cannot be read ends the walk: there is no partial report.
PlanVisit ==
    LET n == First(walk.todo)
    IN /\ walk.pc = "plan" /\ walk.todo # {}
       /\ \/ /\ OpenToRead(n) # "ok"
             /\ VerifyRefused(OpenToRead(n), walk.opts)
          \/ /\ OpenToRead(n) = "ok"
             /\ Proceed([walk EXCEPT
                    !.todo = @ \ {n},
                    !.visits = @ + 1,
                    !.examined = @ + Cardinality(gens[n].keys),
                    !.planned = @ + Cardinality(gens[n].keys),
                    !.counts = [p \in DOMAIN @ |->
                                  @[p] + Cardinality(OfPrefix(gens[n].keys, p))]])
       /\ UNCHANGED store
-----------------------------------------------------------------------------
(* Grouping *)

RecordsPerPass(w) == (Ceiling(w.opts) - w.out) \div RecordBytes

\* The list of groups is reserved, and what is left is the records' share.
ReserveGroups ==
    LET w == Acquire(walk, PlanningPrefixes * GroupBytes)
    IN /\ walk.pc = "plan" /\ walk.todo = {}
       /\ \/ /\ Grants(walk, PlanningPrefixes * GroupBytes) /\ RecordsPerPass(w) > 0
             /\ Proceed([w EXCEPT !.pc = "group", !.at = 0, !.perPass = RecordsPerPass(w)])
          \/ /\ ~(Grants(walk, PlanningPrefixes * GroupBytes) /\ RecordsPerPass(w) > 0)
             /\ VerifyRefused("insufficient_space", walk.opts)
       /\ UNCHANGED store

\* Mutant of Joins: the open group is compared without the prefix at hand.
JoinsRegardless(group, here) == group.records < walk.perPass

\* A prefix joins the open group when the records of both fit a pass.
Joins(group, here) == group.records + here <= walk.perPass

\* Mutant of GroupPrefix: an empty prefix is skipped without going on to the next.
GroupPrefixStays ==
    LET here == walk.counts[walk.at]
        last == Len(walk.groups)
        new == [first |-> walk.at, last |-> walk.at, records |-> here]
    IN /\ walk.pc = "group" /\ walk.at < PlanningPrefixes
       /\ Proceed(CASE here = 0 -> walk
                    [] here > 0 /\ last > 0 /\ Joins(walk.groups[last], here) ->
                         [walk EXCEPT !.at = @ + 1, !.groups[last].last = walk.at,
                                      !.groups[last].records = @ + here]
                    [] OTHER -> [walk EXCEPT !.at = @ + 1, !.groups = Append(@, new)])
       /\ UNCHANGED store

\* One prefix: it joins the open group or opens the next; an empty one opens none.
GroupPrefix ==
    LET here == walk.counts[walk.at]
        last == Len(walk.groups)
        new == [first |-> walk.at, last |-> walk.at, records |-> here]
        wider == [walk.groups[last] EXCEPT !.last = walk.at, !.records = @ + here]
    IN /\ walk.pc = "group" /\ walk.at < PlanningPrefixes
       /\ Proceed([walk EXCEPT
             !.at = @ + 1,
             !.groups = CASE last = 0 /\ here = 0 -> walk.groups
                          [] last > 0 /\ Joins(walk.groups[last], here) ->
                               [walk.groups EXCEPT ![last] = wider]
                          [] OTHER -> Append(walk.groups, new)])
       /\ UNCHANGED store

\* A plan is refused before the first record is collected.
PlanRefusal ==
    \/ Len(walk.groups) > walk.opts.passes
    \/ \E i \in 1 .. Len(walk.groups) : ~FitsInBudget(walk, walk.groups[i].records)

CheckPlan ==
    /\ walk.pc = "group" /\ walk.at = PlanningPrefixes
    /\ \/ /\ ~PlanRefusal
          /\ Proceed([walk EXCEPT !.pc = "pass", !.at = 1])
       \/ /\ PlanRefusal
          /\ VerifyRefused("insufficient_space", walk.opts)
    /\ UNCHANGED store
-----------------------------------------------------------------------------
(* One pass per group *)

Group == walk.groups[walk.at]

\* A vector that cannot hold the group, or that the meter does not grant.
ReserveRefusal ==
    \/ Group.records > Addressable \/ Group.records > VectorMax
    \/ ~Grants(walk, Group.records * RecordBytes)

BeginPass ==
    /\ walk.pc = "pass" /\ walk.at <= Len(walk.groups)
    /\ IF ReserveRefusal THEN VerifyRefused("insufficient_space", walk.opts)
       ELSE Proceed([Acquire(walk, Group.records * RecordBytes) EXCEPT
                       !.pc = "collect", !.todo = DOMAIN gens, !.capacity = Group.records])
    /\ UNCHANGED store

InGroup(g, key) == PrefixOf[key] >= g.first /\ PrefixOf[key] <= g.last

\* A vector that outgrows its reservation asks for a block twice the size before it
\* gives the old one back.
Grown ==
    [Release(Acquire(walk, 2 * walk.capacity * RecordBytes), walk.capacity * RecordBytes)
        EXCEPT !.capacity = 2 * @]

Collect ==
    LET n == First(walk.todo)
        found == {[key |-> key, at |-> n, active |-> Active(n)] :
                    key \in {k \in gens[n].keys : InGroup(Group, k)}}
    IN /\ walk.pc = "collect" /\ walk.todo # {}
       /\ \/ /\ OpenToRead(n) # "ok"
             /\ VerifyRefused(OpenToRead(n), walk.opts)
          \/ /\ OpenToRead(n) = "ok"
             /\ Cardinality(walk.records \cup found) <= walk.capacity
             /\ Proceed([walk EXCEPT !.todo = @ \ {n},
                                     !.visits = @ + 1,
                                     !.examined = @ + Cardinality(gens[n].keys),
                                     !.records = @ \cup found])
          \/ /\ OpenToRead(n) = "ok"
             /\ Cardinality(walk.records \cup found) > walk.capacity
             /\ IF Grants(walk, 2 * walk.capacity * RecordBytes)
                THEN Proceed([Grown EXCEPT !.todo = @ \ {n},
                                           !.visits = @ + 1,
                                           !.examined = @ + Cardinality(gens[n].keys),
                                           !.records = @ \cup found])
                ELSE VerifyRefused("insufficient_space", walk.opts)
       /\ UNCHANGED store

\* Mutant of Collected: what the pass found is not compared with the plan.
CollectedAnyway == TRUE

\* The pass found as many records as the plan counted.
Collected == Cardinality(walk.records) = Group.records

EndOfCollection ==
    /\ walk.pc = "collect" /\ walk.todo = {}
    /\ \/ /\ ~Collected
          /\ VerifyRefused("entry_corrupt", walk.opts)
       \/ /\ Collected
          /\ Proceed([walk EXCEPT !.pc = "count", !.passes = @ + 1])
    /\ UNCHANGED store

LeastKey == Min({c.key : c \in walk.records})
\* Mutant of OfKey: the same outpoint in a later class begins a run of its own.
OfKeyInClass(key) ==
    LET same == {c \in walk.records : c.key = key}
    IN {c \in same : \A d \in same : c.at[1] <= d.at[1]}

\* The run of equal keys.
OfKey(key) == {c \in walk.records : c.key = key}
InOrder(copies) ==
    CHOOSE s \in SetToSeqs(copies) : \A i, j \in 1 .. Len(s) : i < j => Before(s[i].at, s[j].at)

\* Mutant of Sampled: a finding takes the place of the first location, always.
SampledAtZero(w, key, copies) ==
    LET kept == Min({Cardinality(copies), w.opts.locations})
    IN [w EXCEPT
          !.sample = Append(@, [key |-> key, multiplicity |-> Cardinality(copies),
                                omitted |-> Cardinality(copies) - kept,
                                first |-> 0, count |-> kept]),
          !.places = @ \o SubSeq(InOrder(copies), 1, kept)]

\* on_group: the finding, with its locations in the flat vector beside it.
Sampled(w, key, copies) ==
    LET kept == Min({Cardinality(copies), w.opts.locations})
    IN [w EXCEPT
          !.sample = Append(@, [key |-> key, multiplicity |-> Cardinality(copies),
                                omitted |-> Cardinality(copies) - kept,
                                first |-> Len(w.places), count |-> kept]),
          !.places = @ \o SubSeq(InOrder(copies), 1, kept)]

\* on_distinct, then on_group when there is more than one copy and room for it.
CountKey ==
    LET key == LeastKey
        copies == OfKey(key)
        m == Cardinality(copies)
        w == [walk EXCEPT !.records = @ \ copies,
                          !.distinct = @ + 1,
                          !.physical = @ + m,
                          !.extra = @ + (m - 1),
                          !.multiple = IF m > 1 THEN @ + 1 ELSE @,
                          !.most = Max({@, m})]
    IN /\ walk.pc = "count" /\ walk.records # {}
       /\ Proceed(IF m > 1 /\ Len(walk.sample) < walk.opts.findings
                  THEN Sampled(w, key, copies) ELSE w)
       /\ UNCHANGED store

\* The records of the pass are destroyed before the next are asked for.
EndPass ==
    /\ walk.pc = "count" /\ walk.records = {}
    /\ Proceed([Release(walk, walk.capacity * RecordBytes) EXCEPT
                  !.pc = "pass", !.capacity = 0, !.at = @ + 1])
    /\ UNCHANGED store

\* A finding as the report has it: the outpoint only where it was asked for.
Finding(w, f) ==
    [multiplicity |-> f.multiplicity, omitted |-> f.omitted,
     outpoint |-> IF w.opts.outpoints THEN {f.key} ELSE {},
     locations |-> [i \in 1 .. f.count |->
                      [at |-> w.places[f.first + i].at, active |-> w.places[f.first + i].active]]]

Report(w) ==
    [error |-> "ok", unique |-> w.extra = 0, physical |-> w.physical, distinct |-> w.distinct,
     extra |-> w.extra, multiple |-> w.multiple, most |-> w.most,
     findings |-> [i \in 1 .. Len(w.sample) |-> Finding(w, w.sample[i])],
     omitted |-> w.multiple - Len(w.sample),
     peak |-> w.peak + HeadroomOf(w.opts.budget),
     passes |-> w.passes, visits |-> w.visits, examined |-> w.examined]

Conclude ==
    /\ walk.pc = "pass" /\ walk.at > Len(walk.groups)
    /\ walk' = IdleWalk
    /\ verdict' = Report(walk)
    /\ UNCHANGED store
-----------------------------------------------------------------------------
VerifyInit == walk = IdleWalk /\ verdict = NoVerdict

VerifyStep ==
    \/ ReserveSample \/ StartWalk \/ PlanVisit \/ ReserveGroups \/ GroupPrefix \/ CheckPlan
    \/ BeginPass \/ Collect \/ EndOfCollection \/ CountKey \/ EndPass \/ Conclude
-----------------------------------------------------------------------------
(* Properties of the verification, stated over the store and the options *)

\* What the operation holds, counted from what it has allocated.
Held(w) ==
    LET o == w.opts
        sample == IF w.pc = "sample" THEN 0
                  ELSE o.findings * FindingBytes + o.findings * o.locations * LocationBytes
        engine == IF w.pc \in {"sample", "start"} THEN 0
                  ELSE SortAllowance + PlanningPrefixes * CounterBytes
        list == IF w.pc \in {"sample", "start", "plan"} THEN 0 ELSE PlanningPrefixes * GroupBytes
    IN sample + engine + list + w.capacity * RecordBytes

\* What the verification holds at any moment, counted from what it has allocated and
\* not from the meter, stays under the budget less its headroom.
BudgetHeld == Walking => Held(walk) <= Ceiling(walk.opts)

\* A report on a store nobody wrote to under the walk says what is stored: every
\* copy of every key counted once, whatever the partition, and the verdict is that of
\* the definition.
VerdictExact ==
    verdict.error = "ok" /\ disturbed = 0 =>
        /\ latch = "none"
        /\ verdict.unique <=> \A key \in StoredKeys : Cardinality(Copies(key)) = 1
        /\ verdict.physical = Physical
        /\ verdict.distinct = Cardinality(StoredKeys)
        /\ verdict.extra = Physical - Cardinality(StoredKeys)
        /\ verdict.multiple = Cardinality({key \in StoredKeys : Cardinality(Copies(key)) > 1})
        /\ verdict.most = Max({Cardinality(Copies(key)) : key \in StoredKeys} \cup {0})
        /\ verdict.visits = Cardinality(DOMAIN gens) * (1 + verdict.passes)
        /\ verdict.examined = Physical * (1 + verdict.passes)

\* Each finding is one duplicated key with as many copies as it says, at places where
\* it is, and no outpoint is reported twice: the flat sample is cut where it was put
\* together.
FindingTrue(f) ==
    \E key \in StoredKeys :
        /\ f.outpoint \subseteq {key}
        /\ f.multiplicity = Cardinality(Copies(key))
        /\ f.multiplicity = Len(f.locations) + f.omitted
        /\ {f.locations[i].at : i \in 1 .. Len(f.locations)} \subseteq Copies(key)
        /\ Cardinality({f.locations[i].at : i \in 1 .. Len(f.locations)}) = Len(f.locations)

FindingsTrue ==
    verdict.error = "ok" /\ disturbed = 0 =>
        /\ \A i \in 1 .. Len(verdict.findings) : FindingTrue(verdict.findings[i])
        /\ \A i, j \in 1 .. Len(verdict.findings) :
              i # j => verdict.findings[i].outpoint \cap verdict.findings[j].outpoint = {}
        /\ Len(verdict.findings) + verdict.omitted = verdict.multiple
        /\ verdict.unique => verdict.findings = <<>>

\* A walk that gets to its conclusion has found as many copies as it planned for,
\* even when a writer or a lost file came under it: what it cannot account for is an
\* error and never a count.
FoundAsPlanned ==
    walk.pc = "pass" /\ walk.at > Len(walk.groups) => walk.physical = walk.planned

\* A budget that would do: the sample and the engine fit, a pass's share of the records
\* can be indexed and held by a vector, and the prefixes can be cut into so many runs
\* that each fits beside them.
RunRecords(cuts, c) ==
    Cardinality({e \in StoredCopies :
                   PrefixOf[e[2]] >= c /\ \A d \in cuts : d > c => PrefixOf[e[2]] < d})
Feasible(o) ==
    LET fixed == o.findings * FindingBytes + o.findings * o.locations * LocationBytes
                    + SortAllowance + PlanningPrefixes * CounterBytes
                    + PlanningPrefixes * GroupBytes
    IN /\ fixed + RecordBytes <= Ceiling(o)
       /\ (Ceiling(o) - fixed) \div RecordBytes <= Min({Addressable, VectorMax})
       /\ o.findings * o.locations <= Min({Addressable, VectorMax, Limit})
       /\ o.findings <= Min({Addressable, VectorMax})
       /\ \E cuts \in SUBSET (1 .. PlanningPrefixes - 1) :
             LET runs == {c \in cuts \cup {0} : RunRecords(cuts, c) > 0}
             IN /\ Cardinality(runs) <= o.passes
                /\ \A c \in runs : fixed + RunRecords(cuts, c) * RecordBytes <= Ceiling(o)

\* A store is refused for want of space only when no partition of it into runs of
\* prefixes would have fitted the budget and the passes allowed: the greedy grouping
\* loses nothing.
RefusedOnlyIfInfeasible ==
    verdict.error = "insufficient_space" /\ disturbed = 0 => ~Feasible(verdict.opts)
=============================================================================
