-------------------------- MODULE UniquenessProofs --------------------------
(***************************************************************************)
(* The verification of unique outpoints, proved of Inspection for every    *)
(* finite set of keys and classes, every assignment of prefixes, every     *)
(* size, limit and option, and whatever else the scans and the tools do in *)
(* between: it never holds more than its budget less its headroom; it      *)
(* never reports a count that it cannot account for; on a store nobody     *)
(* disturbed its report is exactly what is stored, each of its findings is *)
(* true, and the tool's status says so; and it refuses for want of space   *)
(* only what no other grouping of the prefixes could have done.            *)
(*                                                                         *)
(* The invariants go from what a step does to a record of a walk up to the *)
(* report: types, budget, plan, visits, groups, records, tally, sample,    *)
(* and last the greedy grouping.                                           *)
(***************************************************************************)
EXTENDS Inspection, SetLemmas, TLAPS, SequenceTheorems

-----------------------------------------------------------------------------
(* The steps of a walk *)

Fields == {"pc", "opts", "todo", "counts", "groups", "at", "perPass", "records", "capacity",
           "out", "peak", "planned", "visits", "examined", "passes", "distinct", "physical",
           "extra", "multiple", "most", "sample", "places"}
Phases == {"sample", "start", "plan", "group", "pass", "collect", "count"}
Passing == {"pass", "collect", "count"}
Version == Class \X Nat
Copy == [key : Key, at : Version, active : BOOLEAN]
GroupType == [first : Nat, last : Nat, records : Nat]
OptionType == [budget : 0 .. Limit, passes : 0 .. Limit, findings : 0 .. Limit,
               locations : 0 .. Limit, outpoints : BOOLEAN]

StoreType ==
    /\ IsFiniteSet(DOMAIN gens) /\ DOMAIN gens \subseteq Version
    /\ gens \in [DOMAIN gens -> [keys : SUBSET Key, damage : Damages]]
    /\ disturbed \in Nat

Figures == {"at", "perPass", "capacity", "planned", "visits", "examined", "passes", "distinct",
            "physical", "extra", "multiple", "most"}

WalkType ==
    Walking =>
        /\ DOMAIN walk = Fields /\ \A f \in Figures : walk[f] \in Nat
        /\ walk.pc \in Phases /\ walk.opts \in VerifyOptions /\ walk.todo \subseteq DOMAIN gens
        /\ walk.counts \in [0 .. PlanningPrefixes - 1 -> Nat]
        /\ walk.groups \in Seq(GroupType)
        /\ walk.out \in Int /\ walk.records \subseteq Copy /\ IsFiniteSet(walk.records)
        /\ walk.pc \in Passing => walk.at >= 1

\* The fields a step leaves as they were.
Keeps(F) == \A f \in Fields \ F : walk'[f] = walk[f]

\* The figures by name.
LEMMA FigureNumbers ==
    ASSUME WalkType, Walking
    PROVE  /\ walk.at \in Nat /\ walk.perPass \in Nat /\ walk.capacity \in Nat
           /\ walk.planned \in Nat /\ walk.visits \in Nat /\ walk.examined \in Nat
           /\ walk.passes \in Nat /\ walk.distinct \in Nat /\ walk.physical \in Nat
           /\ walk.extra \in Nat /\ walk.multiple \in Nat /\ walk.most \in Nat
           /\ walk.out \in Int /\ walk.opts \in VerifyOptions /\ walk.todo \subseteq DOMAIN gens
           /\ walk.groups \in Seq(GroupType) /\ Len(walk.groups) \in Nat
           /\ walk.records \subseteq Copy /\ IsFiniteSet(walk.records)
           /\ walk.pc \in Passing => walk.at >= 1
BY DEF WalkType, Figures

\* Of a set of versions that is not empty, First is one and comes before the others.
LEMMA FirstIn ==
    ASSUME NEW S \in SUBSET Version, S # {}
    PROVE  First(S) \in S /\ \A b \in S \ {First(S)} : Before(First(S), b)
<1>. USE EntriesAssumption DEF Version
<1>. DEFINE K == {n[1] : n \in S}
            k == Min(K)
            V == {n[2] : n \in {m \in S : m[1] = k}}
            v == Min(V)
<1>1. K \subseteq Nat /\ K # {}
    OBVIOUS
<1>2. k \in K /\ \A x \in K : k <= x
    BY <1>1, MinOf
<1>. HIDE DEF k
<1>3. V \subseteq Nat /\ V # {}
    BY <1>2
<1>4. v \in V /\ \A x \in V : v <= x
    BY <1>3, MinOf
<1>. HIDE DEF v
<1>5. PICK a \in S : a[1] = k /\ a[2] = v
    BY <1>4
<1>6. \A b \in S \ {a} : Before(a, b)
    <2>. SUFFICES ASSUME NEW b \in S \ {a} PROVE Before(a, b)
        OBVIOUS
    <2>0. a \in Nat \X Nat /\ b \in Nat \X Nat /\ a # b
        <3>1. Class \X Nat \subseteq Nat \X Nat
            BY EntriesAssumption
        <3>. QED
            BY <3>1
    <2>1. /\ a[1] \in Nat /\ a[2] \in Nat /\ b[1] \in Nat /\ b[2] \in Nat
          /\ ~(a[1] = b[1] /\ a[2] = b[2])
        BY ONLY <2>0
    <2>2. k <= b[1]
        BY <1>2
    <2>3. b[1] = k => v <= b[2]
        BY <1>4
    <2>. QED
        BY <1>5, <2>1, <2>2, <2>3 DEF Before
<1>. QED
    BY <1>6 DEF First

\* What the meter's two operations, and a change of phase, do to the walk's record.
LEMMA AcquireEffect ==
    ASSUME NEW w, DOMAIN w = Fields, NEW bytes
    PROVE  /\ DOMAIN Acquire(w, bytes) = Fields /\ Acquire(w, bytes).out = w.out + bytes
           /\ \A f \in Fields \ {"out", "peak"} : Acquire(w, bytes)[f] = w[f]
BY DEF Acquire, Fields

\* Giving back changes the meter's figure alone.
LEMMA ReleaseEffect ==
    ASSUME NEW w, DOMAIN w = Fields, NEW bytes
    PROVE  /\ DOMAIN Release(w, bytes) = Fields /\ Release(w, bytes).out = w.out - bytes
           /\ \A f \in Fields \ {"out"} : Release(w, bytes)[f] = w[f]
BY DEF Release, Fields

\* A change of phase changes nothing else.
LEMMA PhaseEffect ==
    ASSUME NEW w, DOMAIN w = Fields, NEW pc
    PROVE  /\ DOMAIN [w EXCEPT !.pc = pc] = Fields /\ [w EXCEPT !.pc = pc].pc = pc
           /\ \A f \in Fields \ {"pc"} : [w EXCEPT !.pc = pc][f] = w[f]
BY DEF Fields

\* The sample: both blocks are granted and nothing else changes, or the call is refused.
LEMMA ReserveSampleSteps ==
    ASSUME WalkType, ReserveSample
    PROVE  LET first == walk.opts.findings * FindingBytes
               second == SampleLocations(walk.opts).value * LocationBytes
               held == walk.out + first
           IN /\ walk.pc = "sample" /\ UNCHANGED store
              /\ \/ /\ first <= Ceiling(walk.opts) - walk.out
                    /\ second <= Ceiling(walk.opts) - held
                    /\ DOMAIN walk' = Fields /\ walk'.pc = "start" /\ walk'.out = held + second
                    /\ Keeps({"pc", "out", "peak"}) /\ UNCHANGED verdict
                 \/ /\ ~(first <= Ceiling(walk.opts) - walk.out
                           /\ second <= Ceiling(walk.opts) - held)
                    /\ VerifyRefused("insufficient_space", walk.opts)
<1>. DEFINE first == walk.opts.findings * FindingBytes
            second == SampleLocations(walk.opts).value * LocationBytes
            w == Acquire(walk, first)
            u == Acquire(w, second)
            v == [u EXCEPT !.pc = "start"]
<1>1. DOMAIN walk = Fields /\ walk.pc = "sample" /\ UNCHANGED store
    BY DEF WalkType, ReserveSample, Walking
<1>2. \/ Grants(walk, first) /\ Grants(w, second) /\ Proceed(v)
      \/ /\ ~(Grants(walk, first) /\ Grants(w, second))
         /\ VerifyRefused("insufficient_space", walk.opts)
    BY DEF ReserveSample
<1>. HIDE DEF first, second
<1>3. /\ DOMAIN w = Fields /\ w.out = walk.out + first
      /\ \A f \in Fields \ {"out", "peak"} : w[f] = walk[f]
    BY <1>1, AcquireEffect
<1>. HIDE DEF w
<1>4. /\ DOMAIN u = Fields /\ u.out = w.out + second
      /\ \A f \in Fields \ {"out", "peak"} : u[f] = w[f]
    BY <1>3, AcquireEffect
<1>. HIDE DEF u
<1>5. /\ DOMAIN v = Fields /\ v.pc = "start"
      /\ \A f \in Fields \ {"pc"} : v[f] = u[f]
    BY <1>4, PhaseEffect
<1>. HIDE DEF v
<1>6. "opts" \in Fields \ {"out", "peak"} /\ "out" \in Fields \ {"pc"}
    BY DEF Fields
<1>7. w.opts = walk.opts /\ v.out = walk.out + first + second
    BY <1>3, <1>4, <1>5, <1>6
<1>8. \A f \in Fields \ {"pc", "out", "peak"} : v[f] = walk[f]
    BY <1>3, <1>4, <1>5
<1>9. Grants(walk, first) <=> first <= Ceiling(walk.opts) - walk.out
    BY DEF Grants
<1>10. Grants(w, second) <=> second <= Ceiling(walk.opts) - (walk.out + first)
    BY <1>3, <1>7 DEF Grants
<1>11. Proceed(v) => /\ DOMAIN walk' = Fields /\ walk'.pc = "start"
                     /\ walk'.out = walk.out + first + second
                     /\ Keeps({"pc", "out", "peak"}) /\ UNCHANGED verdict
    BY <1>5, <1>7, <1>8 DEF Proceed, Keeps
<1>. QED
    BY <1>1, <1>2, <1>9, <1>10, <1>11, Zenon DEF first, second

\* The allowance for the sort and the counters are granted, or the call is refused.
LEMMA StartWalkSteps ==
    ASSUME WalkType, StartWalk
    PROVE  LET counters == PlanningPrefixes * CounterBytes
               held == walk.out + SortAllowance
           IN /\ walk.pc = "start" /\ UNCHANGED store
              /\ \/ /\ SortAllowance <= Ceiling(walk.opts) - walk.out
                    /\ counters <= Ceiling(walk.opts) - held
                    /\ DOMAIN walk' = Fields /\ walk'.pc = "plan" /\ walk'.out = held + counters
                    /\ walk'.todo = DOMAIN gens
                    /\ Keeps({"pc", "out", "peak", "todo"}) /\ UNCHANGED verdict
                 \/ /\ ~(SortAllowance <= Ceiling(walk.opts) - walk.out
                           /\ counters <= Ceiling(walk.opts) - held)
                    /\ VerifyRefused("insufficient_space", walk.opts)
<1>. DEFINE second == PlanningPrefixes * CounterBytes
            w == Acquire(walk, SortAllowance)
            u == Acquire(w, second)
            v == [u EXCEPT !.pc = "plan", !.todo = DOMAIN gens]
<1>1. DOMAIN walk = Fields /\ walk.pc = "start" /\ UNCHANGED store
    BY DEF WalkType, StartWalk, Walking
<1>2. \/ Grants(walk, SortAllowance) /\ Grants(w, second) /\ Proceed(v)
      \/ /\ ~(Grants(walk, SortAllowance) /\ Grants(w, second))
         /\ VerifyRefused("insufficient_space", walk.opts)
    BY DEF StartWalk
<1>. HIDE DEF second
<1>3. /\ DOMAIN w = Fields /\ w.out = walk.out + SortAllowance
      /\ \A f \in Fields \ {"out", "peak"} : w[f] = walk[f]
    BY <1>1, AcquireEffect
<1>. HIDE DEF w
<1>4. /\ DOMAIN u = Fields /\ u.out = w.out + second
      /\ \A f \in Fields \ {"out", "peak"} : u[f] = w[f]
    BY <1>3, AcquireEffect
<1>. HIDE DEF u
<1>5. /\ DOMAIN v = Fields /\ v.pc = "plan" /\ v.todo = DOMAIN gens
      /\ \A f \in Fields \ {"pc", "todo"} : v[f] = u[f]
    BY <1>4 DEF Fields
<1>. HIDE DEF v
<1>6. "opts" \in Fields \ {"out", "peak"} /\ "out" \in Fields \ {"pc", "todo"}
    BY DEF Fields
<1>7. w.opts = walk.opts /\ v.out = walk.out + SortAllowance + second
    BY <1>3, <1>4, <1>5, <1>6
<1>8. \A f \in Fields \ {"pc", "out", "peak", "todo"} : v[f] = walk[f]
    BY <1>3, <1>4, <1>5
<1>9. Grants(walk, SortAllowance) <=> SortAllowance <= Ceiling(walk.opts) - walk.out
    BY DEF Grants
<1>10. Grants(w, second) <=> second <= Ceiling(walk.opts) - (walk.out + SortAllowance)
    BY <1>3, <1>7 DEF Grants
<1>11. Proceed(v) => /\ DOMAIN walk' = Fields /\ walk'.pc = "plan" /\ walk'.todo = DOMAIN gens
                     /\ walk'.out = walk.out + SortAllowance + second
                     /\ Keeps({"pc", "out", "peak", "todo"}) /\ UNCHANGED verdict
    BY <1>5, <1>7, <1>8 DEF Proceed, Keeps
<1>. QED
    BY <1>1, <1>2, <1>9, <1>10, <1>11, Zenon DEF second

\* A version cannot be read, or its entries are added to the counters of their prefixes.
LEMMA PlanVisitSteps ==
    ASSUME WalkType, PlanVisit
    PROVE  LET n == First(walk.todo)
           IN /\ walk.pc = "plan" /\ walk.todo # {} /\ UNCHANGED store
              /\ \/ /\ OpenToRead(n) # "ok"
                    /\ VerifyRefused(OpenToRead(n), walk.opts)
                 \/ /\ OpenToRead(n) = "ok" /\ UNCHANGED verdict
                    /\ DOMAIN walk' = Fields
                    /\ walk'.todo = walk.todo \ {n} /\ walk'.visits = walk.visits + 1
                    /\ walk'.examined = walk.examined + Cardinality(gens[n].keys)
                    /\ walk'.planned = walk.planned + Cardinality(gens[n].keys)
                    /\ walk'.counts = [p \in 0 .. PlanningPrefixes - 1 |->
                          walk.counts[p] + Cardinality(OfPrefix(gens[n].keys, p))]
                    /\ Keeps({"todo", "visits", "examined", "planned", "counts"})
<1>. DEFINE n == First(walk.todo)
            c == Cardinality(gens[n].keys)
            new == [p \in DOMAIN walk.counts |->
                          walk.counts[p] + Cardinality(OfPrefix(gens[n].keys, p))]
            v == [walk EXCEPT !.todo = @ \ {n}, !.visits = @ + 1, !.examined = @ + c,
                              !.planned = @ + c, !.counts = new]
<1>1. /\ DOMAIN walk = Fields /\ walk.pc = "plan" /\ walk.todo # {} /\ UNCHANGED store
      /\ walk.counts \in [0 .. PlanningPrefixes - 1 -> Nat]
    BY DEF WalkType, PlanVisit, Walking
<1>2. \/ OpenToRead(n) # "ok" /\ VerifyRefused(OpenToRead(n), walk.opts)
      \/ OpenToRead(n) = "ok" /\ Proceed(v)
    BY <1>1, Zenon DEF PlanVisit
<1>3. new = [p \in 0 .. PlanningPrefixes - 1 |->
                walk.counts[p] + Cardinality(OfPrefix(gens[n].keys, p))]
    BY <1>1
<1>. HIDE DEF n, c, new
<1>4. /\ DOMAIN v = Fields /\ v.todo = walk.todo \ {n} /\ v.visits = walk.visits + 1
      /\ v.examined = walk.examined + c /\ v.planned = walk.planned + c /\ v.counts = new
      /\ \A f \in Fields \ {"todo", "visits", "examined", "planned", "counts"} : v[f] = walk[f]
    BY <1>1 DEF Fields
<1>. HIDE DEF v
<1>5. Proceed(v) => /\ DOMAIN walk' = Fields /\ UNCHANGED verdict
                    /\ walk'.todo = walk.todo \ {n} /\ walk'.visits = walk.visits + 1
                    /\ walk'.examined = walk.examined + c /\ walk'.planned = walk.planned + c
                    /\ walk'.counts = new
                    /\ Keeps({"todo", "visits", "examined", "planned", "counts"})
    BY <1>4 DEF Proceed, Keeps
<1>. QED
    BY <1>1, <1>2, <1>3, <1>5, Zenon DEF n, c

\* The list of groups is granted and leaves a share for the records, or the call is
\* refused.
LEMMA ReserveGroupsSteps ==
    ASSUME WalkType, ReserveGroups
    PROVE  LET list == PlanningPrefixes * GroupBytes
               left == (Ceiling(walk.opts) - (walk.out + list)) \div RecordBytes
           IN /\ walk.pc = "plan" /\ walk.todo = {} /\ UNCHANGED store
              /\ \/ /\ list <= Ceiling(walk.opts) - walk.out /\ left > 0
                    /\ DOMAIN walk' = Fields /\ walk'.pc = "group" /\ walk'.at = 0
                    /\ walk'.out = walk.out + list /\ walk'.perPass = left
                    /\ Keeps({"pc", "at", "out", "peak", "perPass"}) /\ UNCHANGED verdict
                 \/ /\ ~(list <= Ceiling(walk.opts) - walk.out /\ left > 0)
                    /\ VerifyRefused("insufficient_space", walk.opts)
<1>. DEFINE list == PlanningPrefixes * GroupBytes
            w == Acquire(walk, list)
            left == (Ceiling(walk.opts) - (walk.out + list)) \div RecordBytes
            v == [w EXCEPT !.pc = "group", !.at = 0, !.perPass = RecordsPerPass(w)]
<1>1. DOMAIN walk = Fields /\ walk.pc = "plan" /\ walk.todo = {} /\ UNCHANGED store
    BY DEF WalkType, ReserveGroups, Walking
<1>2. \/ Grants(walk, list) /\ RecordsPerPass(w) > 0 /\ Proceed(v)
      \/ /\ ~(Grants(walk, list) /\ RecordsPerPass(w) > 0)
         /\ VerifyRefused("insufficient_space", walk.opts)
    BY DEF ReserveGroups
<1>3. Grants(walk, list) <=> list <= Ceiling(walk.opts) - walk.out
    BY DEF Grants
<1>. HIDE DEF list
<1>4. /\ DOMAIN w = Fields /\ w.out = walk.out + list
      /\ \A f \in Fields \ {"out", "peak"} : w[f] = walk[f]
    BY <1>1, AcquireEffect
<1>. HIDE DEF w
<1>5. RecordsPerPass(w) = left
    <2>1. w.opts = walk.opts
        BY <1>4 DEF Fields
    <2>. QED
        BY <1>4, <2>1 DEF RecordsPerPass
<1>6. /\ DOMAIN v = Fields /\ v.pc = "group" /\ v.at = 0 /\ v.perPass = left
      /\ \A f \in Fields \ {"pc", "at", "perPass"} : v[f] = w[f]
    BY <1>4, <1>5 DEF Fields
<1>. HIDE DEF v, left
<1>7. /\ v.out = walk.out + list
      /\ \A f \in Fields \ {"pc", "at", "out", "peak", "perPass"} : v[f] = walk[f]
    <2>1. "out" \in Fields \ {"pc", "at", "perPass"}
        BY DEF Fields
    <2>. QED
        BY <1>4, <1>6, <2>1
<1>8. Proceed(v) => /\ DOMAIN walk' = Fields /\ walk'.pc = "group" /\ walk'.at = 0
                    /\ walk'.out = walk.out + list /\ walk'.perPass = left
                    /\ Keeps({"pc", "at", "out", "peak", "perPass"}) /\ UNCHANGED verdict
    BY <1>6, <1>7 DEF Proceed, Keeps
<1>. QED
    BY <1>1, <1>2, <1>3, <1>5, <1>8, Zenon DEF list, left

\* What the prefix at hand makes of the list of groups: nothing, as long as there is
\* none and the prefix is empty; a longer last group; or a new group.
Skips == Len(walk.groups) = 0 /\ walk.counts[walk.at] = 0
Widens ==
    /\ Len(walk.groups) > 0
    /\ walk.groups[Len(walk.groups)].records + walk.counts[walk.at] <= walk.perPass
Widened ==
    [walk.groups EXCEPT ![Len(walk.groups)] =
        [first |-> walk.groups[Len(walk.groups)].first, last |-> walk.at,
         records |-> walk.groups[Len(walk.groups)].records + walk.counts[walk.at]]]
NewGroup == [first |-> walk.at, last |-> walk.at, records |-> walk.counts[walk.at]]

\* One prefix is passed over, widens the last group or opens a new one.
LEMMA GroupPrefixSteps ==
    ASSUME WalkType, GroupPrefix
    PROVE  /\ walk.pc = "group" /\ walk.at < PlanningPrefixes /\ UNCHANGED <<store, verdict>>
           /\ DOMAIN walk' = Fields /\ walk'.at = walk.at + 1
           /\ Keeps({"at", "groups"})
           /\ \/ Skips /\ walk'.groups = walk.groups
              \/ Widens /\ walk'.groups = Widened
              \/ ~Skips /\ ~Widens /\ walk'.groups = Append(walk.groups, NewGroup)
<1>. DEFINE here == walk.counts[walk.at]
            last == Len(walk.groups)
            wider == [walk.groups[last] EXCEPT !.last = walk.at, !.records = @ + here]
            gs == CASE last = 0 /\ here = 0 -> walk.groups
                    [] last > 0 /\ Joins(walk.groups[last], here) ->
                         [walk.groups EXCEPT ![last] = wider]
                    [] OTHER -> Append(walk.groups, NewGroup)
            v == [walk EXCEPT !.at = @ + 1, !.groups = gs]
<1>1. /\ DOMAIN walk = Fields /\ walk.pc = "group" /\ walk.at < PlanningPrefixes
      /\ UNCHANGED store /\ walk.groups \in Seq(GroupType)
      /\ walk.counts \in [0 .. PlanningPrefixes - 1 -> Nat]
      /\ walk.at \in Nat
    BY FigureNumbers DEF WalkType, GroupPrefix, Walking
<1>2. Proceed(v)
    BY Zenon DEF GroupPrefix, NewGroup
<1>3. \/ Skips /\ gs = walk.groups
      \/ Widens /\ gs = Widened
      \/ ~Skips /\ ~Widens /\ gs = Append(walk.groups, NewGroup)
    <2>1. last \in Nat /\ here \in Nat
        <3>1. walk.at \in 0 .. PlanningPrefixes - 1
            BY <1>1, UniquenessAssumption
        <3>2. walk.counts[walk.at] \in Nat
            BY <1>1, <3>1
        <3>3. Len(walk.groups) \in Nat
            BY <1>1
        <3>. QED
            BY <3>2, <3>3
    <2>2. CASE Skips
        BY <2>2 DEF Skips
    <2>3. CASE Widens
        <3>1. last > 0 /\ Joins(walk.groups[last], here)
            BY <2>3 DEF Widens, Joins
        <3>2. gs = [walk.groups EXCEPT ![last] = wider]
            <4>1. ~(last = 0 /\ here = 0)
                BY <2>1, <3>1
            <4>. HIDE DEF last, here
            <4>. QED
                BY <3>1, <4>1
        <3>3. walk.groups[last] \in GroupType
            BY <1>1, <2>1, <3>1
        <3>. DEFINE g == walk.groups[last]
        <3>4. wider = [first |-> g.first, last |-> walk.at, records |-> g.records + here]
            <4>. HIDE DEF g, here
            <4>1. g \in GroupType
                BY <3>3 DEF g
            <4>2. wider = [g EXCEPT !.last = walk.at, !.records = @ + here]
                BY DEF g
            <4>. HIDE DEF wider
            <4>. QED
                BY <4>1, <4>2 DEF GroupType
        <3>5. Widened = [walk.groups EXCEPT ![last] = wider]
            BY <3>4 DEF Widened
        <3>. QED
            BY <2>3, <3>2, <3>5
    <2>4. CASE ~Skips /\ ~Widens
        BY <2>4 DEF Skips, Widens, Joins
    <2>. QED
        BY <2>2, <2>3, <2>4
<1>. HIDE DEF gs
<1>4. /\ DOMAIN v = Fields /\ v.at = walk.at + 1 /\ v.groups = gs
      /\ \A f \in Fields \ {"at", "groups"} : v[f] = walk[f]
    BY <1>1 DEF Fields
<1>. HIDE DEF v
<1>5. /\ DOMAIN walk' = Fields /\ walk'.at = walk.at + 1 /\ walk'.groups = gs
      /\ Keeps({"at", "groups"}) /\ UNCHANGED verdict
    BY <1>2, <1>4 DEF Proceed, Keeps
<1>. QED
    BY <1>1, <1>3, <1>5

\* The plan is refused, or the first pass is the next step.
LEMMA CheckPlanSteps ==
    ASSUME WalkType, CheckPlan
    PROVE  /\ walk.pc = "group" /\ walk.at = PlanningPrefixes /\ UNCHANGED store
           /\ \/ /\ ~PlanRefusal /\ UNCHANGED verdict
                 /\ DOMAIN walk' = Fields /\ walk'.pc = "pass" /\ walk'.at = 1
                 /\ Keeps({"pc", "at"})
              \/ PlanRefusal /\ VerifyRefused("insufficient_space", walk.opts)
<1>. DEFINE v == [walk EXCEPT !.pc = "pass", !.at = 1]
<1>1. /\ DOMAIN walk = Fields /\ walk.pc = "group" /\ walk.at = PlanningPrefixes
      /\ UNCHANGED store
    BY DEF WalkType, CheckPlan, Walking
<1>2. /\ DOMAIN v = Fields /\ v.pc = "pass" /\ v.at = 1
      /\ \A f \in Fields \ {"pc", "at"} : v[f] = walk[f]
    BY <1>1 DEF Fields
<1>3. \/ ~PlanRefusal /\ Proceed(v)
      \/ PlanRefusal /\ VerifyRefused("insufficient_space", walk.opts)
    BY DEF CheckPlan
<1>. HIDE DEF v
<1>. QED
    BY <1>1, <1>2, <1>3 DEF Proceed, Keeps

\* A pass begins with its group's room for records reserved, or the call is refused.
LEMMA BeginPassSteps ==
    ASSUME WalkType, BeginPass
    PROVE  /\ walk.pc = "pass" /\ walk.at <= Len(walk.groups) /\ UNCHANGED store
           /\ \/ ReserveRefusal /\ VerifyRefused("insufficient_space", walk.opts)
              \/ /\ ~ReserveRefusal /\ UNCHANGED verdict
                 /\ DOMAIN walk' = Fields /\ walk'.pc = "collect" /\ walk'.todo = DOMAIN gens
                 /\ walk'.capacity = Group.records
                 /\ walk'.out = walk.out + Group.records * RecordBytes
                 /\ Keeps({"pc", "todo", "capacity", "out", "peak"})
<1>. DEFINE bytes == Group.records * RecordBytes
            w == Acquire(walk, bytes)
            v == [w EXCEPT !.pc = "collect", !.todo = DOMAIN gens, !.capacity = Group.records]
<1>1. DOMAIN walk = Fields /\ walk.pc = "pass" /\ walk.at <= Len(walk.groups) /\ UNCHANGED store
    BY DEF WalkType, BeginPass, Walking
<1>2. \/ ReserveRefusal /\ VerifyRefused("insufficient_space", walk.opts)
      \/ ~ReserveRefusal /\ Proceed(v)
    BY DEF BeginPass
<1>. HIDE DEF bytes
<1>3. /\ DOMAIN w = Fields /\ w.out = walk.out + bytes
      /\ \A f \in Fields \ {"out", "peak"} : w[f] = walk[f]
    BY <1>1, AcquireEffect
<1>. HIDE DEF w
<1>4. /\ DOMAIN v = Fields /\ v.pc = "collect" /\ v.todo = DOMAIN gens
      /\ v.capacity = Group.records
      /\ \A f \in Fields \ {"pc", "todo", "capacity"} : v[f] = w[f]
    BY <1>3 DEF Fields
<1>. HIDE DEF v
<1>5. /\ v.out = walk.out + bytes
      /\ \A f \in Fields \ {"pc", "todo", "capacity", "out", "peak"} : v[f] = walk[f]
    <2>1. "out" \in Fields \ {"pc", "todo", "capacity"}
        BY DEF Fields
    <2>. QED
        BY <1>3, <1>4, <2>1
<1>6. Proceed(v) => /\ UNCHANGED verdict
                    /\ DOMAIN walk' = Fields /\ walk'.pc = "collect" /\ walk'.todo = DOMAIN gens
                    /\ walk'.capacity = Group.records
                    /\ walk'.out = walk.out + bytes
                    /\ Keeps({"pc", "todo", "capacity", "out", "peak"})
    BY <1>4, <1>5 DEF Proceed, Keeps
<1>. QED
    BY <1>1, <1>2, <1>6, Zenon DEF bytes

\* The records of the group at hand that a version holds.
Found(n) == {[key |-> key, at |-> n, active |-> Active(n)] :
                key \in {k \in gens[n].keys : InGroup(Group, k)}}

\* A version is read into the records, with the room there is or with twice as much.
LEMMA CollectSteps ==
    ASSUME WalkType, Collect
    PROVE  LET n == First(walk.todo)
               all == walk.records \cup Found(n)
               more == 2 * walk.capacity * RecordBytes
           IN /\ walk.pc = "collect" /\ walk.todo # {} /\ UNCHANGED store
              /\ \/ OpenToRead(n) # "ok" /\ VerifyRefused(OpenToRead(n), walk.opts)
                 \/ /\ Cardinality(all) > walk.capacity
                    /\ VerifyRefused("insufficient_space", walk.opts)
                 \/ /\ OpenToRead(n) = "ok" /\ UNCHANGED verdict
                    /\ DOMAIN walk' = Fields
                    /\ walk'.todo = walk.todo \ {n} /\ walk'.visits = walk.visits + 1
                    /\ walk'.examined = walk.examined + Cardinality(gens[n].keys)
                    /\ walk'.records = all
                    /\ Keeps({"todo", "visits", "examined", "records", "capacity", "out", "peak"})
                    /\ \/ /\ Cardinality(all) <= walk.capacity
                          /\ walk'.capacity = walk.capacity /\ walk'.out = walk.out
                       \/ /\ Cardinality(all) > walk.capacity
                          /\ more <= Ceiling(walk.opts) - walk.out
                          /\ walk'.capacity = 2 * walk.capacity
                          /\ walk'.out = (walk.out + more) - walk.capacity * RecordBytes
<1>. DEFINE n == First(walk.todo)
            all == walk.records \cup Found(n)
            c == Cardinality(gens[n].keys)
            more == 2 * walk.capacity * RecordBytes
            w == Acquire(walk, more)
            u == Release(w, walk.capacity * RecordBytes)
            plain == [walk EXCEPT !.todo = @ \ {n}, !.visits = @ + 1, !.examined = @ + c,
                                  !.records = @ \cup Found(n)]
            grown == [Grown EXCEPT !.todo = @ \ {n}, !.visits = @ + 1, !.examined = @ + c,
                                  !.records = @ \cup Found(n)]
<1>1. DOMAIN walk = Fields /\ walk.pc = "collect" /\ walk.todo # {} /\ UNCHANGED store
    BY DEF WalkType, Collect, Walking
<1>2. \/ OpenToRead(n) # "ok" /\ VerifyRefused(OpenToRead(n), walk.opts)
      \/ OpenToRead(n) = "ok" /\ Cardinality(all) <= walk.capacity /\ Proceed(plain)
      \/ /\ OpenToRead(n) = "ok" /\ Cardinality(all) > walk.capacity
         /\ Grants(walk, more) /\ Proceed(grown)
      \/ /\ OpenToRead(n) = "ok" /\ Cardinality(all) > walk.capacity
         /\ VerifyRefused("insufficient_space", walk.opts)
    BY Zenon DEF Collect, Found
<1>3. Grants(walk, more) <=> more <= Ceiling(walk.opts) - walk.out
    BY DEF Grants
<1>4. /\ DOMAIN w = Fields /\ w.out = walk.out + more
      /\ \A f \in Fields \ {"out", "peak"} : w[f] = walk[f]
    <2>. HIDE DEF more
    <2>. QED
        BY <1>1, AcquireEffect
<1>5. /\ DOMAIN u = Fields /\ u.out = w.out - walk.capacity * RecordBytes
      /\ \A f \in Fields \ {"out"} : u[f] = w[f]
    <2>. HIDE DEF w
    <2>. QED
        BY <1>4, ReleaseEffect
<1>6. Grown = [u EXCEPT !.capacity = 2 * @]
    BY DEF Grown
<1>. HIDE DEF u, w, more, c, n
<1>7. /\ DOMAIN Grown = Fields /\ Grown.capacity = 2 * walk.capacity
      /\ Grown.out = (walk.out + more) - walk.capacity * RecordBytes
      /\ \A f \in Fields \ {"capacity", "out", "peak"} : Grown[f] = walk[f]
    <2>1. u.capacity = walk.capacity
        BY <1>4, <1>5 DEF Fields
    <2>. DEFINE double == 2 * u.capacity
                g == [u EXCEPT !.capacity = double]
    <2>2. /\ DOMAIN g = Fields /\ g.capacity = double
          /\ \A f \in Fields \ {"capacity"} : g[f] = u[f]
        <3>. HIDE DEF double
        <3>. QED
            BY <1>5 DEF Fields
    <2>. HIDE DEF g
    <2>3. g.out = u.out
        BY <2>2 DEF Fields
    <2>4. Grown = g
        BY <1>6 DEF g
    <2>5. \A f \in Fields \ {"capacity", "out", "peak"} : Grown[f] = walk[f]
        BY <1>4, <1>5, <2>2, <2>4
    <2>6. Grown.out = (walk.out + more) - walk.capacity * RecordBytes
        BY <1>4, <1>5, <2>3, <2>4
    <2>. QED
        BY <2>1, <2>2, <2>4, <2>5, <2>6
<1>8. /\ DOMAIN plain = Fields /\ plain.todo = walk.todo \ {n} /\ plain.visits = walk.visits + 1
      /\ plain.examined = walk.examined + c /\ plain.records = all
      /\ \A f \in Fields \ {"todo", "visits", "examined", "records"} : plain[f] = walk[f]
    BY <1>1 DEF Fields
<1>9. /\ DOMAIN grown = Fields /\ grown.todo = walk.todo \ {n} /\ grown.visits = walk.visits + 1
      /\ grown.examined = walk.examined + c /\ grown.records = all
      /\ \A f \in Fields \ {"todo", "visits", "examined", "records"} : grown[f] = Grown[f]
    <2>1. /\ Grown.todo = walk.todo /\ Grown.visits = walk.visits
          /\ Grown.examined = walk.examined /\ Grown.records = walk.records
        BY <1>7 DEF Fields
    <2>. DEFINE gr == Grown
    <2>2. DOMAIN gr = Fields
        BY <1>7
    <2>. HIDE DEF gr
    <2>3. /\ DOMAIN [gr EXCEPT !.todo = @ \ {n}, !.visits = @ + 1, !.examined = @ + c,
                                  !.records = @ \cup Found(n)] = Fields
          /\ grown.todo = gr.todo \ {n} /\ grown.visits = gr.visits + 1
          /\ grown.examined = gr.examined + c /\ grown.records = gr.records \cup Found(n)
          /\ \A f \in Fields \ {"todo", "visits", "examined", "records"} : grown[f] = gr[f]
        BY <2>2 DEF Fields, gr
    <2>. QED
        BY <2>1, <2>3 DEF gr
<1>. HIDE DEF plain, grown, all
<1>10. ASSUME Proceed(plain)
       PROVE  /\ DOMAIN walk' = Fields /\ UNCHANGED verdict
              /\ walk'.todo = walk.todo \ {n} /\ walk'.visits = walk.visits + 1
              /\ walk'.examined = walk.examined + c /\ walk'.records = all
              /\ Keeps({"todo", "visits", "examined", "records", "capacity", "out", "peak"})
              /\ walk'.capacity = walk.capacity /\ walk'.out = walk.out
    <2>1. walk'.capacity = walk.capacity /\ walk'.out = walk.out
        BY <1>8, <1>10 DEF Proceed, Fields
    <2>. QED
        BY <1>8, <1>10, <2>1 DEF Proceed, Keeps
<1>11. ASSUME Proceed(grown)
       PROVE  /\ DOMAIN walk' = Fields /\ UNCHANGED verdict
              /\ walk'.todo = walk.todo \ {n} /\ walk'.visits = walk.visits + 1
              /\ walk'.examined = walk.examined + c /\ walk'.records = all
              /\ Keeps({"todo", "visits", "examined", "records", "capacity", "out", "peak"})
              /\ walk'.capacity = 2 * walk.capacity
              /\ walk'.out = (walk.out + more) - walk.capacity * RecordBytes
    <2>1. /\ walk'.capacity = 2 * walk.capacity
          /\ walk'.out = (walk.out + more) - walk.capacity * RecordBytes
        BY <1>7, <1>9, <1>11 DEF Proceed, Fields
    <2>2. \A f \in Fields \ {"todo", "visits", "examined", "records", "capacity", "out", "peak"} :
             walk'[f] = walk[f]
        BY <1>7, <1>9, <1>11 DEF Proceed
    <2>. QED
        BY <1>9, <1>11, <2>1, <2>2 DEF Proceed, Keeps
<1>. QED
    BY <1>1, <1>2, <1>3, <1>10, <1>11, Zenon DEF n, all, c, more

\* The records are as many as planned and will be counted, or the store is corrupt.
LEMMA EndOfCollectionSteps ==
    ASSUME WalkType, EndOfCollection
    PROVE  /\ walk.pc = "collect" /\ walk.todo = {} /\ UNCHANGED store
           /\ \/ /\ Cardinality(walk.records) # Group.records
                 /\ VerifyRefused("entry_corrupt", walk.opts)
              \/ /\ Cardinality(walk.records) = Group.records /\ UNCHANGED verdict
                 /\ DOMAIN walk' = Fields /\ walk'.pc = "count"
                 /\ walk'.passes = walk.passes + 1 /\ Keeps({"pc", "passes"})
<1>. DEFINE v == [walk EXCEPT !.pc = "count", !.passes = @ + 1]
<1>1. DOMAIN walk = Fields /\ walk.pc = "collect" /\ walk.todo = {} /\ UNCHANGED store
    BY DEF WalkType, EndOfCollection, Walking
<1>2. /\ DOMAIN v = Fields /\ v.pc = "count" /\ v.passes = walk.passes + 1
      /\ \A f \in Fields \ {"pc", "passes"} : v[f] = walk[f]
    BY <1>1 DEF Fields
<1>3. \/ ~Collected /\ VerifyRefused("entry_corrupt", walk.opts)
      \/ Collected /\ Proceed(v)
    BY DEF EndOfCollection
<1>. HIDE DEF v
<1>. QED
    BY <1>1, <1>2, <1>3 DEF Proceed, Keeps, Collected

\* The records' room is given back and the next pass may begin.
LEMMA EndPassSteps ==
    ASSUME WalkType, EndPass
    PROVE  /\ walk.pc = "count" /\ walk.records = {} /\ UNCHANGED <<store, verdict>>
           /\ DOMAIN walk' = Fields /\ walk'.pc = "pass" /\ walk'.capacity = 0
           /\ walk'.at = walk.at + 1 /\ walk'.out = walk.out - walk.capacity * RecordBytes
           /\ Keeps({"pc", "capacity", "at", "out"})
<1>. DEFINE u == Release(walk, walk.capacity * RecordBytes)
            v == [u EXCEPT !.pc = "pass", !.capacity = 0, !.at = @ + 1]
<1>1. DOMAIN walk = Fields /\ walk.pc = "count" /\ walk.records = {} /\ UNCHANGED store
    BY DEF WalkType, EndPass, Walking
<1>2. Proceed(v)
    BY DEF EndPass
<1>3. /\ DOMAIN u = Fields /\ u.out = walk.out - walk.capacity * RecordBytes
      /\ \A f \in Fields \ {"out"} : u[f] = walk[f]
    BY <1>1, ReleaseEffect
<1>. HIDE DEF u
<1>4. u.at = walk.at
    BY <1>3 DEF Fields
<1>5. /\ DOMAIN v = Fields /\ v.pc = "pass" /\ v.capacity = 0 /\ v.at = u.at + 1
      /\ \A f \in Fields \ {"pc", "capacity", "at"} : v[f] = u[f]
    BY <1>3 DEF Fields
<1>. HIDE DEF v
<1>6. v.out = u.out
    BY <1>5 DEF Fields
<1>. QED
    BY <1>1, <1>2, <1>3, <1>4, <1>5, <1>6 DEF Proceed, Keeps

\* What a duplicated key adds to the sample: how many of its copies are located, and
\* the finding that says where they are in the flat list.
KeptOf(m) == Min({m, walk.opts.locations})
EntryOf(key, m) ==
    [key |-> key, multiplicity |-> m, omitted |-> m - KeptOf(m),
     first |-> Len(walk.places), count |-> KeptOf(m)]

\* The copies of the least key are counted, and sampled if they are several and there is
\* room.
LEMMA CountKeySteps ==
    ASSUME WalkType, CountKey
    PROVE  LET copies == OfKey(LeastKey)
               m == Cardinality(copies)
           IN /\ walk.pc = "count" /\ walk.records # {} /\ UNCHANGED <<store, verdict>>
              /\ DOMAIN walk' = Fields /\ walk'.records = walk.records \ copies
              /\ walk'.distinct = walk.distinct + 1 /\ walk'.physical = walk.physical + m
              /\ walk'.extra = walk.extra + (m - 1)
              /\ walk'.multiple = IF m > 1 THEN walk.multiple + 1 ELSE walk.multiple
              /\ walk'.most = Max({walk.most, m})
              /\ Keeps({"records", "distinct", "physical", "extra", "multiple", "most",
                        "sample", "places"})
              /\ \/ /\ m > 1 /\ Len(walk.sample) < walk.opts.findings
                    /\ walk'.sample = Append(walk.sample, EntryOf(LeastKey, m))
                    /\ walk'.places = walk.places \o SubSeq(InOrder(copies), 1, KeptOf(m))
                 \/ /\ ~(m > 1 /\ Len(walk.sample) < walk.opts.findings)
                    /\ walk'.sample = walk.sample /\ walk'.places = walk.places
<1>. DEFINE copies == OfKey(LeastKey)
            m == Cardinality(copies)
            most == Max({walk.most, m})
            multiple == IF m > 1 THEN walk.multiple + 1 ELSE walk.multiple
            w == [walk EXCEPT !.records = @ \ copies, !.distinct = @ + 1, !.physical = @ + m,
                              !.extra = @ + (m - 1), !.multiple = multiple, !.most = most]
<1>1. DOMAIN walk = Fields /\ walk.pc = "count" /\ walk.records # {} /\ UNCHANGED store
    BY DEF WalkType, CountKey, Walking
<1>2. Proceed(IF m > 1 /\ Len(walk.sample) < walk.opts.findings
              THEN Sampled(w, LeastKey, copies) ELSE w)
    BY Zenon DEF CountKey
<1>. HIDE DEF copies, m, most, multiple
<1>3. /\ DOMAIN w = Fields /\ w.records = walk.records \ copies
      /\ w.distinct = walk.distinct + 1 /\ w.physical = walk.physical + m
      /\ w.extra = walk.extra + (m - 1) /\ w.multiple = multiple /\ w.most = most
      /\ \A f \in Fields \ {"records", "distinct", "physical", "extra", "multiple", "most"} :
            w[f] = walk[f]
    BY <1>1 DEF Fields
<1>. HIDE DEF w
<1>4. w.opts = walk.opts /\ w.sample = walk.sample /\ w.places = walk.places
    BY <1>3 DEF Fields
<1>. DEFINE v == Sampled(w, LeastKey, copies)
<1>5. /\ DOMAIN v = Fields
      /\ v.sample = Append(walk.sample, EntryOf(LeastKey, m))
      /\ v.places = walk.places \o SubSeq(InOrder(copies), 1, KeptOf(m))
      /\ \A f \in Fields \ {"sample", "places"} : v[f] = w[f]
    <2>. DEFINE s == Append(w.sample, EntryOf(LeastKey, m))
                p == w.places \o SubSeq(InOrder(copies), 1, KeptOf(m))
    <2>1. v = [w EXCEPT !.sample = s, !.places = p]
        BY <1>4 DEF Sampled, EntryOf, KeptOf, m
    <2>. HIDE DEF v, s, p
    <2>2. /\ DOMAIN v = Fields /\ v.sample = s /\ v.places = p
          /\ \A f \in Fields \ {"sample", "places"} : v[f] = w[f]
        BY <1>3, <2>1 DEF Fields
    <2>. QED
        BY <1>4, <2>2 DEF s, p
<1>. HIDE DEF v
<1>6. CASE m > 1 /\ Len(walk.sample) < walk.opts.findings
    <2>1. walk' = v /\ UNCHANGED verdict
        BY <1>2, <1>6 DEF Proceed, v
    <2>2. /\ v.records = w.records /\ v.distinct = w.distinct /\ v.physical = w.physical
          /\ v.extra = w.extra /\ v.multiple = w.multiple /\ v.most = w.most
        BY <1>5 DEF Fields
    <2>3. \A f \in Fields \ {"records", "distinct", "physical", "extra", "multiple", "most",
                             "sample", "places"} : v[f] = walk[f]
        BY <1>3, <1>5
    <2>. QED
        BY <1>1, <1>3, <1>5, <1>6, <2>1, <2>2, <2>3 DEF Keeps, m, copies, most, multiple
<1>7. CASE ~(m > 1 /\ Len(walk.sample) < walk.opts.findings)
    <2>1. walk' = w /\ UNCHANGED verdict
        BY <1>2, <1>7 DEF Proceed
    <2>. QED
        BY <1>1, <1>3, <1>4, <1>7, <2>1 DEF Keeps, m, copies, most, multiple
<1>. QED
    BY <1>6, <1>7

\* A verification begins with a walk of which nothing is done yet.
LEMMA NewWalkFields ==
    ASSUME NEW o
    PROVE  /\ DOMAIN NewWalk(o) = Fields
           /\ NewWalk(o).pc = "sample" /\ NewWalk(o).opts = o /\ NewWalk(o).todo = {}
           /\ NewWalk(o).counts = [p \in 0 .. PlanningPrefixes - 1 |-> 0]
           /\ NewWalk(o).groups = <<>> /\ NewWalk(o).at = 0 /\ NewWalk(o).perPass = 0
           /\ NewWalk(o).records = {} /\ NewWalk(o).capacity = 0 /\ NewWalk(o).out = 0
           /\ NewWalk(o).planned = 0 /\ NewWalk(o).visits = 0 /\ NewWalk(o).examined = 0
           /\ NewWalk(o).passes = 0 /\ NewWalk(o).distinct = 0 /\ NewWalk(o).physical = 0
           /\ NewWalk(o).extra = 0 /\ NewWalk(o).multiple = 0 /\ NewWalk(o).most = 0
           /\ NewWalk(o).sample = <<>> /\ NewWalk(o).places = <<>>
BY DEF NewWalk, Fields
-----------------------------------------------------------------------------
(* The groups, the least key and the steps of the system *)

\* The list of groups after a prefix, element by element.
LEMMA GroupsAfter ==
    ASSUME WalkType, GroupPrefix
    PROVE  /\ walk.at \in 0 .. PlanningPrefixes - 1 /\ walk.counts[walk.at] \in Nat
           /\ walk'.groups \in Seq(GroupType)
           /\ Skips => Len(walk'.groups) = Len(walk.groups) /\ walk'.groups = walk.groups
           /\ Widens => /\ Len(walk'.groups) = Len(walk.groups)
                        /\ \A i \in 1 .. Len(walk.groups) - 1 : walk'.groups[i] = walk.groups[i]
                        /\ walk'.groups[Len(walk.groups)] =
                              [first |-> walk.groups[Len(walk.groups)].first, last |-> walk.at,
                               records |-> walk.groups[Len(walk.groups)].records
                                              + walk.counts[walk.at]]
           /\ ~Skips /\ ~Widens =>
                 /\ Len(walk'.groups) = Len(walk.groups) + 1
                 /\ \A i \in 1 .. Len(walk.groups) : walk'.groups[i] = walk.groups[i]
                 /\ walk'.groups[Len(walk.groups) + 1] = NewGroup
<1>1. /\ walk.pc = "group" /\ walk.at < PlanningPrefixes
      /\ \/ Skips /\ walk'.groups = walk.groups
         \/ Widens /\ walk'.groups = Widened
         \/ ~Skips /\ ~Widens /\ walk'.groups = Append(walk.groups, NewGroup)
    BY GroupPrefixSteps
<1>2. /\ walk.groups \in Seq(GroupType) /\ walk.at \in Nat
      /\ walk.counts \in [0 .. PlanningPrefixes - 1 -> Nat]
    BY <1>1, FigureNumbers DEF WalkType, Walking
<1>3. walk.at \in 0 .. PlanningPrefixes - 1
    BY <1>1, <1>2, UniquenessAssumption
<1>4. walk.counts[walk.at] \in Nat
    BY <1>2, <1>3
<1>. DEFINE gs == walk.groups
            last == Len(gs)
            wide == [first |-> gs[last].first, last |-> walk.at,
                     records |-> gs[last].records + walk.counts[walk.at]]
<1>5. last \in Nat
    BY <1>2
<1>6. ~(Skips /\ Widens)
    BY <1>5 DEF Skips, Widens
<1>7. ASSUME Widens
      PROVE  /\ last \in 1 .. last /\ wide \in GroupType
             /\ Widened \in Seq(GroupType) /\ Len(Widened) = last
             /\ \A i \in 1 .. last - 1 : Widened[i] = gs[i]
             /\ Widened[last] = wide
    <2>1. last \in 1 .. Len(gs)
        BY <1>5, <1>7 DEF Widens
    <2>2. gs[last] \in GroupType
        BY <1>2, <2>1, ElementOfSeq
    <2>3. wide \in GroupType
        <3>. DEFINE g == gs[last]
                    c == walk.counts[walk.at]
        <3>1. g \in GroupType /\ c \in Nat /\ walk.at \in Nat
            BY <1>2, <1>4, <2>2
        <3>2. wide = [first |-> g.first, last |-> walk.at, records |-> g.records + c]
            OBVIOUS
        <3>. HIDE DEF g, c, wide
        <3>3. g.first \in Nat /\ g.records \in Nat
            BY <3>1 DEF GroupType
        <3>4. g.records + c \in Nat
            BY <3>1, <3>3
        <3>. QED
            BY <3>1, <3>2, <3>3, <3>4 DEF GroupType
    <2>4. Widened = [gs EXCEPT ![last] = wide]
        BY DEF Widened
    <2>. HIDE DEF wide
    <2>5. /\ [gs EXCEPT ![last] = wide] \in Seq(GroupType)
          /\ Len([gs EXCEPT ![last] = wide]) = Len(gs)
          /\ \A j \in 1 .. Len(gs) :
                [gs EXCEPT ![last] = wide][j] = IF j = last THEN wide ELSE gs[j]
        <3>. HIDE DEF gs, last
        <3>. QED
            BY <1>2, <2>1, <2>3, ExceptSeq DEF gs
    <2>6. \A i \in 1 .. last - 1 : i \in 1 .. Len(gs) /\ i # last
        BY <1>5
    <2>. QED
        BY <2>1, <2>3, <2>4, <2>5, <2>6
<1>8. NewGroup \in GroupType
    BY <1>2, <1>4 DEF NewGroup, GroupType
<1>9. /\ Append(gs, NewGroup) \in Seq(GroupType) /\ Len(Append(gs, NewGroup)) = last + 1
      /\ \A i \in 1 .. last : Append(gs, NewGroup)[i] = gs[i]
      /\ Append(gs, NewGroup)[last + 1] = NewGroup
    BY <1>2, <1>8, AppendProperties
<1>10. CASE Skips /\ walk'.groups = walk.groups
    BY <1>2, <1>3, <1>4, <1>6, <1>10
<1>11. CASE Widens /\ walk'.groups = Widened
    BY <1>3, <1>4, <1>6, <1>7, <1>11
<1>12. CASE ~Skips /\ ~Widens /\ walk'.groups = Append(walk.groups, NewGroup)
    BY <1>3, <1>4, <1>9, <1>12
<1>. QED
    BY <1>1, <1>10, <1>11, <1>12

\* The next key counted is one of those collected, with at least one copy.
LEMMA LeastKeyIn ==
    ASSUME walk.records \subseteq Copy, IsFiniteSet(walk.records), walk.records # {}
    PROVE  /\ LeastKey \in {c.key : c \in walk.records} /\ LeastKey \in Key
           /\ OfKey(LeastKey) \subseteq walk.records /\ IsFiniteSet(OfKey(LeastKey))
           /\ Cardinality(OfKey(LeastKey)) \in Nat \ {0}
<1>. DEFINE K == {c.key : c \in walk.records}
<1>1. K \subseteq Key /\ K # {}
    BY DEF Copy
<1>2. K \subseteq Nat
    BY <1>1, EntriesAssumption
<1>3. Min(K) \in K
    BY <1>1, <1>2, MinOf
<1>4. LeastKey \in K
    BY <1>3 DEF LeastKey
<1>5. PICK c \in walk.records : c.key = LeastKey
    BY <1>4
<1>6. c \in OfKey(LeastKey)
    BY <1>5 DEF OfKey
<1>7. OfKey(LeastKey) \subseteq walk.records
    BY DEF OfKey
<1>8. IsFiniteSet(OfKey(LeastKey))
    BY <1>7, FS_Subset
<1>9. Cardinality(OfKey(LeastKey)) \in Nat /\ Cardinality(OfKey(LeastKey)) # 0
    BY <1>6, <1>8, FS_CardinalityType, FS_EmptySet
<1>. QED
    BY <1>1, <1>4, <1>7, <1>8, <1>9

\* The greater of two numbers.
LEMMA MaxOfTwo ==
    ASSUME NEW a \in Nat, NEW b \in Nat
    PROVE  Max({a, b}) = IF a <= b THEN b ELSE a
<1>1. {a, b} \subseteq 0 .. a + b /\ {a, b} # {} /\ a + b \in Nat
    OBVIOUS
<1>2. Max({a, b}) \in {a, b} /\ \A x \in {a, b} : x <= Max({a, b})
    BY <1>1, MaxOf
<1>. QED
    BY <1>2

\* The lesser of two numbers.
LEMMA MinOfTwo ==
    ASSUME NEW a \in Nat, NEW b \in Nat
    PROVE  Min({a, b}) = IF a <= b THEN a ELSE b
<1>1. {a, b} \subseteq Nat /\ {a, b} # {}
    OBVIOUS
<1>2. Min({a, b}) \in {a, b} /\ \A x \in {a, b} : Min({a, b}) <= x
    BY <1>1, MinOf
<1>. QED
    BY <1>2

\* A version is opened, closed or not there, and holds a finite number of keys.
LEMMA KeysOf ==
    ASSUME StoreType
    PROVE  \A n \in DOMAIN gens :
              /\ gens[n].keys \subseteq Key /\ IsFiniteSet(gens[n].keys)
              /\ Cardinality(gens[n].keys) \in Nat
<1>. SUFFICES ASSUME NEW n \in DOMAIN gens
              PROVE  /\ gens[n].keys \subseteq Key /\ IsFiniteSet(gens[n].keys)
                     /\ Cardinality(gens[n].keys) \in Nat
    OBVIOUS
<1>1. gens[n].keys \subseteq Key
    BY DEF StoreType
<1>2. IsFiniteSet(gens[n].keys)
    BY <1>1, EntriesAssumption, FS_Subset
<1>. QED
    BY <1>1, <1>2, FS_CardinalityType

\* A writer or a lost file changes what a version holds or its damage, and is counted.
LEMMA DisturbSteps ==
    ASSUME StoreType, Disturb
    PROVE  /\ StoreType' /\ DOMAIN gens' = DOMAIN gens /\ disturbed' # 0
           /\ UNCHANGED <<walk, verdict, tally, census, exit, scans, mode, mapped, latch>>
<1>1. PICK n \in DOMAIN gens : LoseFile(n) \/ \E key \in Key : Interfere(n, key)
    BY DEF Disturb
<1>2. gens[n] \in [keys : SUBSET Key, damage : Damages]
    BY DEF StoreType
<1>3. disturbed' = disturbed + 1 /\ UNCHANGED <<mode, mapped, latch>>
    BY <1>1 DEF LoseFile, Interfere
<1>4. \E r \in [keys : SUBSET Key, damage : Damages] : gens' = [gens EXCEPT ![n] = r]
    <2>1. CASE LoseFile(n)
        <3>. DEFINE r == [gens[n] EXCEPT !.damage = "unreadable"]
        <3>1. r \in [keys : SUBSET Key, damage : Damages]
            BY <1>2 DEF Damages
        <3>2. gens' = [gens EXCEPT ![n] = r]
            BY <2>1 DEF LoseFile
        <3>. QED
            BY <3>1, <3>2
    <2>2. ASSUME NEW key \in Key, Interfere(n, key)
          PROVE  \E r \in [keys : SUBSET Key, damage : Damages] : gens' = [gens EXCEPT ![n] = r]
        <3>. DEFINE K == IF key \in gens[n].keys THEN gens[n].keys \ {key}
                         ELSE gens[n].keys \cup {key}
                    r == [gens[n] EXCEPT !.keys = K]
        <3>1. K \in SUBSET Key
            BY <1>2
        <3>2. gens' = [gens EXCEPT ![n] = r]
            BY <2>2 DEF Interfere
        <3>3. r \in [keys : SUBSET Key, damage : Damages]
            <4>. HIDE DEF K
            <4>. QED
                BY <1>2, <3>1
        <3>. QED
            BY <3>2, <3>3
    <2>. QED
        BY <1>1, <2>1, <2>2
<1>5. DOMAIN gens' = DOMAIN gens /\ gens' \in [DOMAIN gens -> [keys : SUBSET Key, damage : Damages]]
    BY <1>4 DEF StoreType
<1>6. disturbed' \in Nat /\ disturbed' # 0
    BY <1>3 DEF StoreType
<1>7. UNCHANGED <<walk, verdict, tally, census, exit, scans>>
    BY DEF Disturb, verifying, counting
<1>. QED
    BY <1>3, <1>5, <1>6, <1>7 DEF StoreType

\* What a step of the system is for the verification: a call, a step of its walk, a
\* disturbance, or something that does not concern it.
LEMMA WalkSteps ==
    ASSUME [Next]_vars
    PROVE  \/ \E o \in VerifyOptions : Verify(o) /\ exit' = NoExit
           \/ VerifyStep /\ UNCHANGED store /\ UNCHANGED exit
           \/ Disturb
           \/ /\ UNCHANGED <<store, walk>>
              /\ verdict' = verdict \/ verdict' = NoVerdict
<1>1. CASE UNCHANGED vars
    BY <1>1 DEF vars, verifying
<1>2. ASSUME NEW o \in VerifyOptions, AskVerify(o)
      PROVE  Verify(o) /\ exit' = NoExit
    BY <1>2 DEF AskVerify
<1>3. ASSUME NEW o \in CensusOptions, AskCount(o)
      PROVE  UNCHANGED <<store, walk, verdict>>
    BY <1>3 DEF AskCount, Count, verifying
<1>4. ASSUME VerifyStep, UNCHANGED <<counting, exit, scans>>
      PROVE  UNCHANGED store /\ UNCHANGED exit
    BY <1>4 DEF VerifyStep, ReserveSample, StartWalk, PlanVisit, ReserveGroups, GroupPrefix,
                CheckPlan, BeginPass, Collect, EndOfCollection, CountKey, EndPass, Conclude
<1>5. ASSUME CensusStep, UNCHANGED <<verifying, exit, scans>>
      PROVE  UNCHANGED <<store, walk, verdict>>
    BY <1>5 DEF CensusStep, BeginClass, CountVersion, EndClass, EndCensus, verifying
<1>6. ASSUME NEW written \in BOOLEAN, VerifyToolEnds(written) \/ CensusToolEnds(written)
      PROVE  UNCHANGED <<store, walk, verdict>>
    BY <1>6 DEF VerifyToolEnds, CensusToolEnds, verifying
<1>7. ASSUME VerifyCannotOpen \/ CensusCannotOpen
      PROVE  UNCHANGED <<store, walk>> /\ verdict' = NoVerdict
    BY <1>7 DEF VerifyCannotOpen, CensusCannotOpen, ToolStops
<1>. QED
    BY <1>1, <1>2, <1>3, <1>4, <1>5, <1>6, <1>7 DEF Next, Scan

\* A refused verification is over.
LEMMA RefusedIsIdle ==
    ASSUME NEW error, NEW o, VerifyRefused(error, o)
    PROVE  ~Walking' /\ verdict' = [error |-> error, opts |-> o]
BY DEF VerifyRefused, Walking, IdleWalk

\* What a call does: an error at once, or a walk that begins.
LEMMA VerifySteps ==
    ASSUME NEW o \in VerifyOptions, Verify(o)
    PROVE  /\ UNCHANGED store
           /\ \/ /\ ~Walking' /\ latch # "none" /\ verdict' = [error |-> latch, opts |-> o]
              \/ /\ ~Walking' /\ SampleRefusal(o)
                 /\ verdict' = [error |-> "insufficient_space", opts |-> o]
              \/ /\ latch = "none" /\ ~SampleRefusal(o)
                 /\ walk' = NewWalk(o) /\ verdict' = NoVerdict
BY RefusedIsIdle DEF Verify
-----------------------------------------------------------------------------
(* Types *)

\* The initial store is one of those the constants allow.
LEMMA StoreInitType ==
    ASSUME Init
    PROVE  StoreType
<1>. USE EntriesAssumption
<1>1. PICK c \in Contents, d \in IF latch = "none" THEN Damages ELSE {"none"} :
         \E bad \in IF d = "none" THEN {First(DOMAIN c)} ELSE DOMAIN c :
             gens = [n \in DOMAIN c |->
                          [keys |-> c[n], damage |-> IF n = bad THEN d ELSE "none"]]
    BY DEF Init, StoreInit
<1>2. PICK bad : gens = [n \in DOMAIN c |->
                          [keys |-> c[n], damage |-> IF n = bad THEN d ELSE "none"]]
    BY <1>1
<1>3. d \in Damages /\ "none" \in Damages
    BY <1>1 DEF Damages
<1>4. DOMAIN gens = DOMAIN c
    BY <1>2
<1>5. \A n \in DOMAIN c : gens[n] \in [keys : SUBSET Key, damage : Damages]
    BY <1>2, <1>3
<1>6. gens = [n \in DOMAIN gens |-> gens[n]]
    BY <1>2
<1>7. disturbed = 0
    BY DEF Init, StoreInit
<1>. QED
    BY <1>4, <1>5, <1>6, <1>7 DEF StoreType, Version

\* Every step of the system keeps the types of the store.
LEMMA StoreTypeStep ==
    ASSUME StoreType, [Next]_vars
    PROVE  StoreType'
<1>1. ASSUME UNCHANGED store PROVE StoreType'
    BY <1>1 DEF StoreType, store
<1>. QED
    BY <1>1, WalkSteps, VerifySteps, DisturbSteps DEF store

\* The fields a step leaves alone keep their types.
LEMMA KeptTypes ==
    ASSUME WalkType, Walking, NEW F, Keeps(F), DOMAIN gens' = DOMAIN gens
    PROVE  /\ \A f \in Figures \ F : walk'[f] \in Nat
           /\ "pc" \notin F => walk'.pc \in Phases /\ walk'.pc = walk.pc
           /\ "at" \notin F => walk'.at = walk.at
           /\ "opts" \notin F => walk'.opts \in VerifyOptions
           /\ "todo" \notin F => walk'.todo \subseteq DOMAIN gens'
           /\ "counts" \notin F => walk'.counts \in [0 .. PlanningPrefixes - 1 -> Nat]
           /\ "groups" \notin F => walk'.groups \in Seq(GroupType)
           /\ "out" \notin F => walk'.out \in Int
           /\ "records" \notin F => walk'.records \subseteq Copy /\ IsFiniteSet(walk'.records)
<1>1. \A f \in Fields : f \notin F => walk'[f] = walk[f]
    BY DEF Keeps
<1>2. Figures \subseteq Fields
    BY DEF Figures, Fields
<1>3. \A f \in Figures \ F : walk'[f] \in Nat
    BY <1>1, <1>2 DEF WalkType
<1>4. "pc" \notin F => walk'.pc \in Phases /\ walk'.pc = walk.pc
    BY <1>1 DEF WalkType, Fields
<1>5. "at" \notin F => walk'.at = walk.at
    BY <1>1 DEF Fields
<1>6. "opts" \notin F => walk'.opts \in VerifyOptions
    BY <1>1 DEF WalkType, Fields
<1>7. "todo" \notin F => walk'.todo \subseteq DOMAIN gens'
    BY <1>1 DEF WalkType, Fields
<1>8. "counts" \notin F => walk'.counts \in [0 .. PlanningPrefixes - 1 -> Nat]
    <2>1. "counts" \notin F => walk'.counts = walk.counts
        BY <1>1 DEF Fields
    <2>. QED
        BY <2>1 DEF WalkType
<1>9. "groups" \notin F => walk'.groups \in Seq(GroupType)
    <2>1. "groups" \notin F => walk'.groups = walk.groups
        BY <1>1 DEF Fields
    <2>. QED
        BY <2>1 DEF WalkType
<1>10. "out" \notin F => walk'.out \in Int
    BY <1>1 DEF WalkType, Fields
<1>11. "records" \notin F => walk'.records \subseteq Copy /\ IsFiniteSet(walk'.records)
    <2>1. "records" \notin F => walk'.records = walk.records
        BY <1>1 DEF Fields
    <2>. QED
        BY <2>1 DEF WalkType
<1>. QED
    BY <1>3, <1>4, <1>5, <1>6, <1>7, <1>8, <1>9, <1>10, <1>11

\* The fields a step changes have their types again.
Retyped(F) ==
    /\ DOMAIN walk' = Fields /\ \A f \in F : f \in Figures => walk'[f] \in Nat
    /\ "pc" \in F => walk'.pc \in Phases
    /\ "opts" \notin F
    /\ "todo" \in F => walk'.todo \subseteq DOMAIN gens'
    /\ "counts" \in F => walk'.counts \in [0 .. PlanningPrefixes - 1 -> Nat]
    /\ "groups" \in F => walk'.groups \in Seq(GroupType)
    /\ "out" \in F => walk'.out \in Int
    /\ "records" \in F => walk'.records \subseteq Copy /\ IsFiniteSet(walk'.records)
    /\ walk'.pc \in Passing => walk'.at >= 1

\* The walk is typed after a step that leaves every field of its type.
LEMMA TypedAgain ==
    ASSUME WalkType, Walking, NEW F, Keeps(F), DOMAIN gens' = DOMAIN gens, Retyped(F)
    PROVE  WalkType'
<1>1. \A f \in Figures : walk'[f] \in Nat
    BY KeptTypes DEF Retyped
<1>2. walk'.pc \in Phases
    BY KeptTypes DEF Retyped
<1>3. walk'.counts \in [0 .. PlanningPrefixes - 1 -> Nat]
    BY KeptTypes, Zenon DEF Retyped
<1>4. walk'.groups \in Seq(GroupType)
    BY KeptTypes, Zenon DEF Retyped
<1>5. walk'.opts \in VerifyOptions /\ walk'.todo \subseteq DOMAIN gens' /\ walk'.out \in Int
    BY KeptTypes, Zenon DEF Retyped
<1>6. walk'.records \subseteq Copy /\ IsFiniteSet(walk'.records)
    BY KeptTypes, Zenon DEF Retyped
<1>. QED
    BY <1>1, <1>2, <1>3, <1>4, <1>5, <1>6 DEF WalkType, Retyped

\* The options are numbers, and what the budget leaves is one.
LEMMA OptionNumbers ==
    ASSUME NEW o \in VerifyOptions
    PROVE  /\ o \in OptionType /\ o.budget \in Nat /\ o.passes \in Nat /\ o.findings \in Nat
           /\ o.locations \in Nat /\ o.budget <= Limit /\ Limit \in Nat
           /\ HeadroomOf(o.budget) \in Nat /\ Ceiling(o) \in Nat
           /\ Ceiling(o) + HeadroomOf(o.budget) = o.budget
<1>1. o \in OptionType /\ Limit \in Nat
    BY UniquenessAssumption, EntriesAssumption DEF OptionType
<1>2. o.budget \in 0 .. Limit /\ o.passes \in Nat /\ o.findings \in Nat /\ o.locations \in Nat
    BY <1>1 DEF OptionType
<1>3. ASSUME NEW b \in Nat PROVE b \div 10 \in Nat /\ b \div 10 <= b
    OBVIOUS
<1>. QED
    BY <1>1, <1>2, <1>3 DEF HeadroomOf, Ceiling

\* The sizes the meter is asked for are numbers.
LEMMA SizeNumbers ==
    /\ PlanningPrefixes \in Nat /\ PlanningPrefixes > 0
    /\ SortAllowance \in Nat /\ CounterBytes \in Nat /\ GroupBytes \in Nat
    /\ FindingBytes \in Nat /\ LocationBytes \in Nat /\ RecordBytes \in Nat /\ RecordBytes > 0
    /\ PlanningPrefixes * CounterBytes \in Nat /\ PlanningPrefixes * GroupBytes \in Nat
BY UniquenessAssumption

\* A product of sizes is one.
LEMMA ProductNat == \A a, b \in Nat : a * b \in Nat
OBVIOUS

\* What a version adds to the records of a pass is a finite set of records.
LEMMA FoundFinite ==
    ASSUME StoreType, NEW n \in DOMAIN gens
    PROVE  Found(n) \subseteq Copy /\ IsFiniteSet(Found(n))
<1>. DEFINE K == {k \in gens[n].keys : InGroup(Group, k)}
            R(k) == [key |-> k, at |-> n, active |-> Active(n)]
<1>1. K \subseteq Key /\ IsFiniteSet(K)
    BY KeysOf, FS_Subset
<1>2. n \in Version /\ Active(n) \in BOOLEAN
    BY DEF StoreType, Active
<1>3. \A k \in K : R(k) \in Copy
    BY <1>1, <1>2 DEF Copy
<1>4. Found(n) = {R(k) : k \in K}
    BY DEF Found
<1>5. IsFiniteSet({R(k) : k \in K})
    <2>. DEFINE f == [k \in K |-> R(k)]
    <2>1. f \in Surjection(K, {R(k) : k \in K})
        BY DEF Surjection
    <2>. QED
        BY <1>1, <2>1, FS_Surjection
<1>. QED
    BY <1>3, <1>4, <1>5

\* Every step of the system keeps the types of the walk.
LEMMA WalkTypeStep ==
    ASSUME StoreType, WalkType, [Next]_vars
    PROVE  WalkType'
<1>1. ASSUME NEW o \in VerifyOptions, Verify(o) PROVE WalkType'
    <2>1. ASSUME walk' = NewWalk(o) PROVE WalkType'
        <3>. DEFINE zeros == [p \in 0 .. PlanningPrefixes - 1 |-> 0]
        <3>1. zeros \in [0 .. PlanningPrefixes - 1 -> Nat]
            OBVIOUS
        <3>2. <<>> \in Seq(GroupType) /\ IsFiniteSet({})
            BY FS_EmptySet
        <3>3. NewWalk(o).counts = zeros
            BY NewWalkFields
        <3>4. \A f \in Figures : NewWalk(o)[f] = 0
            BY NewWalkFields DEF Figures
        <3>. HIDE DEF zeros
        <3>. QED
            <4>1. /\ DOMAIN walk' = Fields /\ walk'.pc = "sample" /\ walk'.opts = o
                  /\ walk'.todo = {} /\ walk'.groups = <<>> /\ walk'.out = 0
                  /\ walk'.records = {} /\ walk'.counts = zeros
                BY <2>1, <3>3, NewWalkFields
            <4>2. \A f \in Figures : walk'[f] \in Nat
                BY <2>1, <3>4
            <4>. QED
                BY <3>1, <3>2, <4>1, <4>2 DEF WalkType, Phases, Passing
    <2>. QED
        BY <1>1, <2>1, VerifySteps DEF WalkType
<1>2. ASSUME ReserveSample PROVE WalkType'
    <2>. DEFINE F == {"pc", "out", "peak"}
                first == walk.opts.findings * FindingBytes
                value == SampleLocations(walk.opts).value
                second == value * LocationBytes
    <2>1. CASE ~Walking'
        BY <2>1 DEF WalkType
    <2>2. CASE Walking'
        <3>1. /\ walk.pc = "sample" /\ DOMAIN walk' = Fields /\ walk'.pc = "start" /\ Keeps(F)
              /\ DOMAIN gens' = DOMAIN gens /\ walk'.out = walk.out + first + second
            BY <1>2, <2>2, ReserveSampleSteps, RefusedIsIdle DEF store
        <3>2. Walking
            BY <3>1 DEF Walking
        <3>3. first \in Nat /\ value \in Nat
            <4>1. walk.opts.findings \in Nat /\ walk.opts.locations \in Nat /\ Limit \in Nat
                BY <3>2, OptionNumbers DEF WalkType
            <4>2. \A x, y \in Nat : x % (y + 1) \in Nat
                OBVIOUS
            <4>. QED
                BY <4>1, <4>2, SizeNumbers, ProductNat DEF SampleLocations, CheckedMul
        <3>4. second \in Nat
            <4>. HIDE DEF value
            <4>. QED
                BY <3>3, SizeNumbers, ProductNat
        <3>5. walk'.out \in Int
            <4>. HIDE DEF first, second
            <4>. QED
                BY <3>1, <3>2, <3>3, <3>4 DEF WalkType
        <3>. QED
            BY <3>1, <3>2, <3>5, TypedAgain DEF Retyped, Figures, Phases, Passing
    <2>. QED
        BY <2>1, <2>2
<1>3. ASSUME StartWalk PROVE WalkType'
    <2>. DEFINE F == {"pc", "out", "peak", "todo"}
                counters == PlanningPrefixes * CounterBytes
    <2>1. CASE ~Walking'
        BY <2>1 DEF WalkType
    <2>2. CASE Walking'
        <3>1. /\ walk.pc = "start" /\ DOMAIN walk' = Fields /\ walk'.pc = "plan" /\ Keeps(F)
              /\ DOMAIN gens' = DOMAIN gens /\ walk'.todo = DOMAIN gens
              /\ walk'.out = walk.out + SortAllowance + counters
            BY <1>3, <2>2, StartWalkSteps, RefusedIsIdle DEF store
        <3>2. Walking
            BY <3>1 DEF Walking
        <3>3. walk'.out \in Int
            <4>1. counters \in Nat
                BY SizeNumbers
            <4>. HIDE DEF counters
            <4>. QED
                BY <3>1, <3>2, <4>1, SizeNumbers DEF WalkType
        <3>. QED
            BY <3>1, <3>2, <3>3, TypedAgain DEF Retyped, Figures, Phases, Passing
    <2>. QED
        BY <2>1, <2>2
<1>4. ASSUME PlanVisit PROVE WalkType'
    <2>. DEFINE F == {"todo", "visits", "examined", "planned", "counts"}
                n == First(walk.todo)
                c == Cardinality(gens[n].keys)
                new == [p \in 0 .. PlanningPrefixes - 1 |->
                          walk.counts[p] + Cardinality(OfPrefix(gens[n].keys, p))]
    <2>1. CASE ~Walking'
        BY <2>1 DEF WalkType
    <2>2. CASE Walking'
        <3>1. /\ walk.pc = "plan" /\ DOMAIN walk' = Fields /\ Keeps(F) /\ walk.todo # {}
              /\ DOMAIN gens' = DOMAIN gens /\ walk'.todo = walk.todo \ {n}
              /\ walk'.visits = walk.visits + 1 /\ walk'.examined = walk.examined + c
              /\ walk'.planned = walk.planned + c /\ walk'.counts = new
            BY <1>4, <2>2, PlanVisitSteps, RefusedIsIdle DEF store
        <3>2. Walking
            BY <3>1 DEF Walking
        <3>3. n \in DOMAIN gens
            BY <3>1, <3>2, FirstIn DEF WalkType, StoreType
        <3>4. c \in Nat
            BY <3>3, KeysOf
        <3>5. new \in [0 .. PlanningPrefixes - 1 -> Nat]
            <4>1. \A p : Cardinality(OfPrefix(gens[n].keys, p)) \in Nat
                <5>1. \A p : OfPrefix(gens[n].keys, p) \subseteq gens[n].keys
                    BY DEF OfPrefix
                <5>. QED
                    BY <3>3, <5>1, KeysOf, FS_Subset, FS_CardinalityType
            <4>2. walk.counts \in [0 .. PlanningPrefixes - 1 -> Nat]
                BY <3>2 DEF WalkType
            <4>3. \A p \in 0 .. PlanningPrefixes - 1 :
                     walk.counts[p] + Cardinality(OfPrefix(gens[n].keys, p)) \in Nat
                <5>. SUFFICES ASSUME NEW p \in 0 .. PlanningPrefixes - 1
                     PROVE  walk.counts[p] + Cardinality(OfPrefix(gens[n].keys, p)) \in Nat
                    OBVIOUS
                <5>. DEFINE k == Cardinality(OfPrefix(gens[n].keys, p))
                <5>1. walk.counts[p] \in Nat /\ k \in Nat
                    BY <4>1, <4>2
                <5>. HIDE DEF k
                <5>2. walk.counts[p] + k \in Nat
                    BY <5>1
                <5>. QED
                    BY <5>2 DEF k
            <4>. QED
                BY <4>3
        <3>. HIDE DEF c, new, n
        <3>6. /\ walk'.visits \in Nat /\ walk'.examined \in Nat /\ walk'.planned \in Nat
              /\ walk'.todo \subseteq DOMAIN gens'
            <4>1. /\ walk.visits \in Nat /\ walk.examined \in Nat /\ walk.planned \in Nat
                  /\ walk.todo \subseteq DOMAIN gens
                BY <3>2, FigureNumbers
            <4>. QED
                BY <3>1, <3>4, <4>1
        <3>7. walk'.pc = "plan"
            BY <3>1 DEF Keeps, Fields
        <3>8. Retyped(F)
            BY <3>1, <3>5, <3>6, <3>7 DEF Retyped, Figures, Passing
        <3>. HIDE DEF F
        <3>. QED
            BY <3>1, <3>2, <3>8, TypedAgain
    <2>. QED
        BY <2>1, <2>2
<1>5. ASSUME ReserveGroups PROVE WalkType'
    <2>. DEFINE F == {"pc", "at", "out", "peak", "perPass"}
                list == PlanningPrefixes * GroupBytes
                left == (Ceiling(walk.opts) - (walk.out + list)) \div RecordBytes
    <2>1. CASE ~Walking'
        BY <2>1 DEF WalkType
    <2>2. CASE Walking'
        <3>1. /\ walk.pc = "plan" /\ DOMAIN walk' = Fields /\ walk'.pc = "group" /\ Keeps(F)
              /\ DOMAIN gens' = DOMAIN gens /\ walk'.at = 0 /\ walk'.perPass = left /\ left > 0
              /\ walk'.out = walk.out + list
            BY <1>5, <2>2, ReserveGroupsSteps, RefusedIsIdle DEF store
        <3>2. Walking
            BY <3>1 DEF Walking
        <3>3. left \in Nat /\ walk'.out \in Int
            <4>1. list \in Nat /\ walk.out \in Int /\ Ceiling(walk.opts) \in Nat
                BY <3>2, SizeNumbers, OptionNumbers DEF WalkType
            <4>2. \A x \in Int : \A y \in Nat \ {0} : x \div y \in Int
                OBVIOUS
            <4>. HIDE DEF list
            <4>3. left \in Int
                BY <4>1, <4>2, SizeNumbers
            <4>. QED
                BY <3>1, <4>1, <4>3
        <3>. HIDE DEF left
        <3>. QED
            BY <3>1, <3>2, <3>3, TypedAgain DEF Retyped, Figures, Phases, Passing
    <2>. QED
        BY <2>1, <2>2
<1>6. ASSUME GroupPrefix PROVE WalkType'
    <2>. DEFINE F == {"at", "groups"}
    <2>1. /\ walk.pc = "group" /\ DOMAIN walk' = Fields /\ Keeps(F)
          /\ DOMAIN gens' = DOMAIN gens /\ walk'.at = walk.at + 1
        BY <1>6, GroupPrefixSteps DEF store
    <2>2. Walking
        BY <2>1 DEF Walking
    <2>3. walk'.at \in Nat /\ walk'.groups \in Seq(GroupType)
        <3>1. walk'.groups \in Seq(GroupType)
            BY <1>6, GroupsAfter
        <3>2. walk.at \in Nat
            BY <2>2, FigureNumbers
        <3>. QED
            BY <2>1, <3>1, <3>2
    <2>4. walk'.pc = "group"
        BY <2>1 DEF Keeps, Fields
    <2>5. Retyped(F)
        BY <2>1, <2>3, <2>4 DEF Retyped, Figures, Passing
    <2>. HIDE DEF F
    <2>. QED
        BY <2>1, <2>2, <2>5, TypedAgain
<1>7. ASSUME CheckPlan PROVE WalkType'
    <2>. DEFINE F == {"pc", "at"}
    <2>1. CASE ~Walking'
        BY <2>1 DEF WalkType
    <2>2. CASE Walking'
        <3>1. /\ walk.pc = "group" /\ DOMAIN walk' = Fields /\ walk'.pc = "pass" /\ Keeps(F)
              /\ DOMAIN gens' = DOMAIN gens /\ walk'.at = 1
            BY <1>7, <2>2, CheckPlanSteps, RefusedIsIdle DEF store
        <3>2. Walking
            BY <3>1 DEF Walking
        <3>. QED
            BY <3>1, <3>2, TypedAgain DEF Retyped, Figures, Phases, Passing
    <2>. QED
        BY <2>1, <2>2
<1>8. ASSUME BeginPass PROVE WalkType'
    <2>. DEFINE F == {"pc", "todo", "capacity", "out", "peak"}
    <2>1. CASE ~Walking'
        BY <2>1 DEF WalkType
    <2>2. CASE Walking'
        <3>1. /\ walk.pc = "pass" /\ DOMAIN walk' = Fields /\ walk'.pc = "collect" /\ Keeps(F)
              /\ DOMAIN gens' = DOMAIN gens /\ walk'.todo = DOMAIN gens
              /\ walk'.capacity = Group.records /\ walk.at <= Len(walk.groups)
              /\ walk'.out = walk.out + Group.records * RecordBytes
            BY <1>8, <2>2, BeginPassSteps, RefusedIsIdle DEF store
        <3>2. Walking
            BY <3>1 DEF Walking
        <3>3. Group.records \in Nat
            <4>1. walk.at \in 1 .. Len(walk.groups)
                BY <3>1, <3>2, FigureNumbers DEF WalkType, Passing
            <4>. QED
                <5>1. walk.groups[walk.at] \in GroupType
                    BY <3>2, <4>1, FigureNumbers, ElementOfSeq
                <5>. QED
                    BY <5>1 DEF Group, GroupType
        <3>4. walk'.out \in Int
            <4>. DEFINE bytes == Group.records * RecordBytes
            <4>1. bytes \in Nat
                BY <3>3, SizeNumbers, ProductNat
            <4>. HIDE DEF bytes
            <4>. QED
                BY <3>1, <3>2, <4>1 DEF WalkType, bytes
        <3>. QED
            <4>1. walk'.at = walk.at /\ walk.at >= 1
                BY <3>1, <3>2 DEF Keeps, Fields, WalkType, Passing
            <4>2. Retyped(F)
                BY <3>1, <3>3, <3>4, <4>1 DEF Retyped, Figures, Phases, Passing
            <4>. HIDE DEF F
            <4>. QED
                BY <3>1, <3>2, <4>2, TypedAgain
    <2>. QED
        BY <2>1, <2>2
<1>9. ASSUME Collect PROVE WalkType'
    <2>. DEFINE F == {"todo", "visits", "examined", "records", "capacity", "out", "peak"}
                n == First(walk.todo)
                c == Cardinality(gens[n].keys)
                more == 2 * walk.capacity * RecordBytes
                less == walk.capacity * RecordBytes
    <2>1. CASE ~Walking'
        BY <2>1 DEF WalkType
    <2>2. CASE Walking'
        <3>1. /\ walk.pc = "collect" /\ DOMAIN walk' = Fields /\ Keeps(F) /\ walk.todo # {}
              /\ DOMAIN gens' = DOMAIN gens /\ walk'.todo = walk.todo \ {n}
              /\ walk'.visits = walk.visits + 1 /\ walk'.examined = walk.examined + c
              /\ walk'.records = walk.records \cup Found(n)
              /\ \/ walk'.capacity = walk.capacity /\ walk'.out = walk.out
                 \/ walk'.capacity = 2 * walk.capacity /\ walk'.out = (walk.out + more) - less
            BY <1>9, <2>2, CollectSteps, RefusedIsIdle DEF store
        <3>2. Walking
            BY <3>1 DEF Walking
        <3>3. n \in DOMAIN gens
            BY <3>1, <3>2, FirstIn DEF WalkType, StoreType
        <3>4. c \in Nat
            BY <3>3, KeysOf
        <3>5. Found(n) \subseteq Copy /\ IsFiniteSet(Found(n))
            BY <3>3, FoundFinite
        <3>6. walk'.records \subseteq Copy /\ IsFiniteSet(walk'.records)
            <4>1. walk.records \subseteq Copy /\ IsFiniteSet(walk.records)
                BY <3>2, FigureNumbers
            <4>2. IsFiniteSet(walk.records \cup Found(n))
                BY <3>5, <4>1, FS_Union
            <4>. QED
                BY <3>1, <3>5, <4>1, <4>2
        <3>7. more \in Nat /\ less \in Nat
            BY <3>2, SizeNumbers, FigureNumbers, ProductNat
        <3>. HIDE DEF c, n, more, less
        <3>8. /\ walk'.visits \in Nat /\ walk'.examined \in Nat /\ walk'.capacity \in Nat
              /\ walk'.todo \subseteq DOMAIN gens' /\ walk'.out \in Int
            <4>1. /\ walk.visits \in Nat /\ walk.examined \in Nat /\ walk.capacity \in Nat
                  /\ walk.todo \subseteq DOMAIN gens /\ walk.out \in Int
                BY <3>2, FigureNumbers
            <4>. QED
                BY <3>1, <3>4, <3>7, <4>1
        <3>9. walk'.at = walk.at /\ walk.at >= 1 /\ walk'.pc = "collect"
            BY <3>1, <3>2 DEF Keeps, Fields, WalkType, Passing
        <3>10. Retyped(F)
            BY <3>1, <3>6, <3>8, <3>9 DEF Retyped, Figures, Passing
        <3>. HIDE DEF F
        <3>. QED
            BY <3>1, <3>2, <3>10, TypedAgain
    <2>. QED
        BY <2>1, <2>2
<1>10. ASSUME EndOfCollection PROVE WalkType'
    <2>. DEFINE F == {"pc", "passes"}
    <2>1. CASE ~Walking'
        BY <2>1 DEF WalkType
    <2>2. CASE Walking'
        <3>1. /\ walk.pc = "collect" /\ DOMAIN walk' = Fields /\ Keeps(F)
              /\ DOMAIN gens' = DOMAIN gens /\ walk'.pc = "count"
              /\ walk'.passes = walk.passes + 1
            BY <1>10, <2>2, EndOfCollectionSteps, RefusedIsIdle DEF store
        <3>2. Walking
            BY <3>1 DEF Walking
        <3>3. walk'.passes \in Nat
            BY <3>1, <3>2, FigureNumbers
        <3>4. walk'.at = walk.at /\ walk.at >= 1
            BY <3>1, <3>2 DEF Keeps, Fields, WalkType, Passing
        <3>5. Retyped(F)
            BY <3>1, <3>3, <3>4 DEF Retyped, Figures, Phases
        <3>. HIDE DEF F
        <3>. QED
            BY <3>1, <3>2, <3>5, TypedAgain
    <2>. QED
        BY <2>1, <2>2
<1>11. ASSUME CountKey PROVE WalkType'
    <2>. DEFINE F == {"records", "distinct", "physical", "extra", "multiple", "most",
                        "sample", "places"}
                copies == OfKey(LeastKey)
                m == Cardinality(copies)
    <2>1. /\ walk.pc = "count" /\ DOMAIN walk' = Fields /\ Keeps(F) /\ walk.records # {}
          /\ DOMAIN gens' = DOMAIN gens /\ walk'.records = walk.records \ copies
          /\ walk'.distinct = walk.distinct + 1 /\ walk'.physical = walk.physical + m
          /\ walk'.extra = walk.extra + (m - 1)
          /\ walk'.multiple = IF m > 1 THEN walk.multiple + 1 ELSE walk.multiple
          /\ walk'.most = Max({walk.most, m})
        BY <1>11, CountKeySteps, Zenon DEF store
    <2>2. Walking
        BY <2>1 DEF Walking
    <2>3. m \in Nat \ {0}
        BY <2>1, <2>2, LeastKeyIn DEF WalkType
    <2>4. walk'.records \subseteq Copy /\ IsFiniteSet(walk'.records)
        BY <2>1, <2>2, FS_Subset DEF WalkType
    <2>. HIDE DEF m
    <2>5. /\ walk'.distinct \in Nat /\ walk'.physical \in Nat /\ walk'.extra \in Nat
          /\ walk'.multiple \in Nat /\ walk'.most \in Nat
        <3>1. /\ walk.distinct \in Nat /\ walk.physical \in Nat /\ walk.extra \in Nat
              /\ walk.multiple \in Nat /\ walk.most \in Nat
            BY <2>2, FigureNumbers
        <3>2. Max({walk.most, m}) \in Nat
            BY <2>3, <3>1, MaxOfTwo
        <3>. QED
            BY <2>1, <2>3, <3>1, <3>2
    <2>6. walk'.at = walk.at /\ walk.at >= 1 /\ walk'.pc = "count"
        BY <2>1, <2>2 DEF Keeps, Fields, WalkType, Passing
    <2>7. Retyped(F)
        BY <2>1, <2>4, <2>5, <2>6 DEF Retyped, Figures
    <2>. HIDE DEF F
    <2>. QED
        BY <2>1, <2>2, <2>7, TypedAgain
<1>12. ASSUME EndPass PROVE WalkType'
    <2>. DEFINE F == {"pc", "capacity", "at", "out"}
                less == walk.capacity * RecordBytes
    <2>1. /\ walk.pc = "count" /\ DOMAIN walk' = Fields /\ Keeps(F)
          /\ DOMAIN gens' = DOMAIN gens /\ walk'.pc = "pass" /\ walk'.capacity = 0
          /\ walk'.at = walk.at + 1 /\ walk'.out = walk.out - less
        BY <1>12, EndPassSteps DEF store
    <2>2. Walking
        BY <2>1 DEF Walking
    <2>3. less \in Nat
        BY <2>2, SizeNumbers, FigureNumbers, ProductNat
    <2>. HIDE DEF less
    <2>4. walk'.out \in Int /\ walk'.at \in Nat /\ walk'.at >= 1
        <3>1. walk.out \in Int /\ walk.at \in Nat
            BY <2>2, FigureNumbers
        <3>. QED
            BY <2>1, <2>3, <3>1
    <2>5. Retyped(F)
        BY <2>1, <2>4 DEF Retyped, Figures, Phases
    <2>. HIDE DEF F
    <2>. QED
        BY <2>1, <2>2, <2>5, TypedAgain
<1>13. ASSUME Conclude PROVE WalkType'
    BY <1>13 DEF Conclude, WalkType, Walking, IdleWalk
<1>14. ASSUME Disturb PROVE WalkType'
    BY <1>14, DisturbSteps DEF WalkType, Walking
<1>15. ASSUME UNCHANGED <<store, walk>> PROVE WalkType'
    BY <1>15 DEF WalkType, Walking, store
<1>. QED
    BY <1>1, <1>2, <1>3, <1>4, <1>5, <1>6, <1>7, <1>8, <1>9, <1>10, <1>11, <1>12, <1>13, <1>14,
       <1>15, WalkSteps DEF VerifyStep
-----------------------------------------------------------------------------
(* The budget *)

\* The invariant of the budget: the meter's figure is what is held, the sample has a
\* size that could be counted, and records are held only while a pass is under way.
BudgetInv ==
    Walking =>
        /\ ~SampleRefusal(walk.opts)
        /\ walk.out = Held(walk) /\ walk.out <= Ceiling(walk.opts)
        /\ walk.pc \notin {"collect", "count"} => walk.capacity = 0 /\ walk.records = {}

SampleBytes(o) == o.findings * FindingBytes + o.findings * o.locations * LocationBytes
EngineBytes == SortAllowance + PlanningPrefixes * CounterBytes
ListBytes == PlanningPrefixes * GroupBytes

\* The parts of what is held are numbers.
LEMMA PartNumbers ==
    /\ EngineBytes \in Nat /\ ListBytes \in Nat
    /\ \A o \in VerifyOptions : SampleBytes(o) \in Nat
<1>1. EngineBytes \in Nat /\ ListBytes \in Nat
    BY SizeNumbers DEF EngineBytes, ListBytes
<1>2. ASSUME NEW o \in VerifyOptions PROVE SampleBytes(o) \in Nat
    <2>1. /\ o.findings \in Nat /\ o.locations \in Nat
          /\ FindingBytes \in Nat /\ LocationBytes \in Nat
        BY OptionNumbers, SizeNumbers
    <2>2. o.findings * FindingBytes \in Nat /\ o.findings * o.locations \in Nat
        BY <2>1, ProductNat
    <2>. DEFINE places == o.findings * o.locations
                first == o.findings * FindingBytes
    <2>. HIDE DEF places, first
    <2>3. first \in Nat /\ places * LocationBytes \in Nat
        BY <2>1, <2>2, ProductNat DEF places, first
    <2>4. first + places * LocationBytes \in Nat
        BY <2>3
    <2>. QED
        BY <2>4 DEF SampleBytes, places, first
<1>. QED
    BY <1>1, <1>2

\* What is held, phase by phase.
LEMMA HeldParts ==
    ASSUME NEW w, w.opts \in VerifyOptions, w.capacity * RecordBytes \in Nat
    PROVE  /\ w.pc = "sample" => Held(w) = w.capacity * RecordBytes
           /\ w.pc = "start" => Held(w) = SampleBytes(w.opts) + w.capacity * RecordBytes
           /\ w.pc = "plan" =>
                Held(w) = SampleBytes(w.opts) + EngineBytes + w.capacity * RecordBytes
           /\ w.pc \in {"group", "pass", "collect", "count"} =>
                Held(w) = SampleBytes(w.opts) + EngineBytes + ListBytes
                            + w.capacity * RecordBytes
<1>. DEFINE S == SampleBytes(w.opts)
            c == w.capacity * RecordBytes
            E == EngineBytes
            L == ListBytes
<1>1. S \in Nat /\ E \in Nat /\ L \in Nat /\ c \in Nat
    BY PartNumbers
<1>2. Held(w) = (IF w.pc = "sample" THEN 0 ELSE S)
                + (IF w.pc \in {"sample", "start"} THEN 0 ELSE E)
                + (IF w.pc \in {"sample", "start", "plan"} THEN 0 ELSE L) + c
    BY Zenon DEF Held, SampleBytes, EngineBytes, ListBytes
<1>. HIDE DEF S, c, E, L
<1>3. /\ w.pc = "sample" => Held(w) = c
      /\ w.pc = "start" => Held(w) = S + c
      /\ w.pc = "plan" => Held(w) = S + E + c
      /\ w.pc \in {"group", "pass", "collect", "count"} => Held(w) = S + E + L + c
    BY <1>1, <1>2
<1>. QED
    BY <1>3 DEF S, c, E, L

\* A sample that was not refused has as many places as its two limits multiply to.
LEMMA SampleValue ==
    ASSUME NEW o \in VerifyOptions, ~SampleRefusal(o)
    PROVE  SampleLocations(o).value = o.findings * o.locations
<1>. DEFINE p == o.findings * o.locations
<1>1. p \in Nat /\ Limit \in Nat
    BY OptionNumbers, ProductNat
<1>2. ~(p > Limit)
    BY DEF SampleRefusal, SampleLocations, CheckedMul, Overflows
<1>3. SampleLocations(o).value = p % (Limit + 1)
    BY DEF SampleLocations, CheckedMul
<1>. HIDE DEF p
<1>4. p % (Limit + 1) = p
    BY <1>1, <1>2
<1>. QED
    BY <1>3, <1>4 DEF p

\* The budget is kept by a step that leaves the phase's share and the records alone.
LEMMA BudgetKept ==
    ASSUME BudgetInv, Walking, walk'.pc = walk.pc, walk'.opts = walk.opts, walk'.out = walk.out,
           walk'.capacity = walk.capacity,
           walk.pc \notin {"collect", "count"} => walk'.records = walk.records
    PROVE  BudgetInv'
<1>1. Held(walk)' = Held(walk)
    BY DEF Held
<1>2. /\ SampleRefusal(walk.opts)' = SampleRefusal(walk.opts)
      /\ Ceiling(walk.opts)' = Ceiling(walk.opts)
    BY DEF SampleRefusal, SampleLocations, Ceiling, HeadroomOf
<1>3. Walking'
    BY DEF Walking
<1>. QED
    BY <1>1, <1>2, <1>3 DEF BudgetInv

\* The budget is kept by a step after which what is held is the meter's figure again
\* and the ceiling is not passed.
LEMMA BudgetAgain ==
    ASSUME BudgetInv, Walking, walk'.opts = walk.opts, walk'.out = Held(walk'),
           walk'.out <= Ceiling(walk.opts),
           walk'.pc \notin {"collect", "count"} => walk'.capacity = 0 /\ walk'.records = {}
    PROVE  BudgetInv'
BY Zenon DEF BudgetInv

\* The group at hand during a pass is one of those planned.
LEMMA GroupIn ==
    ASSUME WalkType, Walking, walk.pc \in Passing, walk.at <= Len(walk.groups)
    PROVE  walk.at \in 1 .. Len(walk.groups) /\ Group \in GroupType
<1>1. walk.at \in 1 .. Len(walk.groups) /\ walk.groups \in Seq(GroupType)
    BY FigureNumbers
<1>. QED
    BY <1>1, ElementOfSeq DEF Group

\* Every step of the system keeps the budget's invariant.
LEMMA BudgetStep ==
    ASSUME StoreType, WalkType, BudgetInv, [Next]_vars
    PROVE  BudgetInv'
<1>0. ASSUME ~Walking' PROVE BudgetInv'
    BY <1>0 DEF BudgetInv
<1>1. ASSUME NEW o \in VerifyOptions, Verify(o), Walking' PROVE BudgetInv'
    <2>1. walk' = NewWalk(o) /\ ~SampleRefusal(o)
        BY <1>1, VerifySteps
    <2>2. /\ walk'.opts = o /\ walk'.pc = "sample" /\ walk'.out = 0 /\ walk'.capacity = 0
          /\ walk'.records = {}
        BY <2>1, NewWalkFields
    <2>3. walk'.capacity * RecordBytes = 0
        BY <2>2, SizeNumbers
    <2>4. Held(walk') = 0
        BY <2>2, <2>3, HeldParts
    <2>5. 0 <= Ceiling(o)
        BY OptionNumbers
    <2>. QED
        BY <2>1, <2>2, <2>4, <2>5 DEF BudgetInv
<1>2. ASSUME ReserveSample, Walking' PROVE BudgetInv'
    <2>. DEFINE first == walk.opts.findings * FindingBytes
                second == SampleLocations(walk.opts).value * LocationBytes
    <2>1. /\ walk.pc = "sample" /\ walk'.pc = "start" /\ Keeps({"pc", "out", "peak"})
          /\ second <= Ceiling(walk.opts) - (walk.out + first)
          /\ walk'.out = walk.out + first + second
        BY <1>2, ReserveSampleSteps, RefusedIsIdle
    <2>2. Walking
        BY <2>1 DEF Walking
    <2>3. /\ walk'.opts = walk.opts /\ walk'.capacity = walk.capacity
          /\ walk'.records = walk.records
        BY <2>1 DEF Keeps, Fields
    <2>4. walk.out \in Int /\ walk.opts \in VerifyOptions
        BY <2>2, FigureNumbers
    <2>5. /\ walk.capacity = 0 /\ walk.records = {}
          /\ ~SampleRefusal(walk.opts) /\ walk.out = Held(walk)
        BY <2>1, <2>2 DEF BudgetInv
    <2>6. first + second = SampleBytes(walk.opts)
        BY <2>4, <2>5, SampleValue DEF SampleBytes
    <2>7. SampleBytes(walk.opts) \in Nat /\ Ceiling(walk.opts) \in Nat
        BY <2>4, PartNumbers, OptionNumbers
    <2>8. 0 * RecordBytes = 0
        BY SizeNumbers
    <2>9. Held(walk) = 0 /\ Held(walk') = SampleBytes(walk.opts) + 0
        BY <2>1, <2>3, <2>4, <2>5, <2>8, HeldParts
    <2>10. first \in Nat /\ second \in Nat
        <3>1. /\ walk.opts.findings \in Nat /\ walk.opts.locations \in Nat
              /\ FindingBytes \in Nat /\ LocationBytes \in Nat
            BY <2>4, OptionNumbers, SizeNumbers
        <3>2. SampleLocations(walk.opts).value \in Nat
            BY <2>4, <2>5, <3>1, SampleValue, ProductNat
        <3>. QED
            BY <3>1, <3>2, ProductNat
    <2>. HIDE DEF first, second
    <2>11. walk'.out = Held(walk') /\ walk'.out <= Ceiling(walk.opts)
        BY <2>1, <2>5, <2>6, <2>7, <2>9, <2>10
    <2>. QED
        BY <2>2, <2>3, <2>5, <2>11, BudgetAgain
<1>3. ASSUME StartWalk, Walking' PROVE BudgetInv'
    <2>. DEFINE counters == PlanningPrefixes * CounterBytes
    <2>1. /\ walk.pc = "start" /\ walk'.pc = "plan" /\ Keeps({"pc", "out", "peak", "todo"})
          /\ counters <= Ceiling(walk.opts) - (walk.out + SortAllowance)
          /\ walk'.out = walk.out + SortAllowance + counters
        BY <1>3, StartWalkSteps, RefusedIsIdle
    <2>2. Walking
        BY <2>1 DEF Walking
    <2>3. /\ walk'.opts = walk.opts /\ walk'.capacity = walk.capacity
          /\ walk'.records = walk.records
        BY <2>1 DEF Keeps, Fields
    <2>4. walk.out \in Int /\ walk.opts \in VerifyOptions
        BY <2>2, FigureNumbers
    <2>5. walk.capacity = 0 /\ walk.records = {} /\ walk.out = Held(walk)
        BY <2>1, <2>2 DEF BudgetInv
    <2>6. SampleBytes(walk.opts) \in Nat /\ Ceiling(walk.opts) \in Nat
        BY <2>4, PartNumbers, OptionNumbers
    <2>7. 0 * RecordBytes = 0
        BY SizeNumbers
    <2>8. /\ Held(walk) = SampleBytes(walk.opts) + 0
          /\ Held(walk') = SampleBytes(walk.opts) + EngineBytes + 0
        BY <2>1, <2>3, <2>4, <2>5, <2>7, HeldParts
    <2>9. counters \in Nat /\ SortAllowance \in Nat /\ EngineBytes = SortAllowance + counters
        BY SizeNumbers DEF EngineBytes
    <2>. HIDE DEF counters
    <2>10. walk'.out = Held(walk') /\ walk'.out <= Ceiling(walk.opts)
        BY <2>1, <2>5, <2>6, <2>8, <2>9
    <2>. QED
        BY <2>2, <2>3, <2>5, <2>10, BudgetAgain
<1>5. ASSUME ReserveGroups, Walking' PROVE BudgetInv'
    <2>1. /\ walk.pc = "plan" /\ walk'.pc = "group" /\ Keeps({"pc", "at", "out", "peak", "perPass"})
          /\ ListBytes <= Ceiling(walk.opts) - walk.out
          /\ walk'.out = walk.out + ListBytes
        BY <1>5, ReserveGroupsSteps, RefusedIsIdle DEF ListBytes
    <2>2. Walking
        BY <2>1 DEF Walking
    <2>3. /\ walk'.opts = walk.opts /\ walk'.capacity = walk.capacity
          /\ walk'.records = walk.records
        BY <2>1 DEF Keeps, Fields
    <2>4. walk.out \in Int /\ walk.opts \in VerifyOptions
        BY <2>2, FigureNumbers
    <2>5. walk.capacity = 0 /\ walk.records = {} /\ walk.out = Held(walk)
        BY <2>1, <2>2 DEF BudgetInv
    <2>6. /\ SampleBytes(walk.opts) \in Nat /\ Ceiling(walk.opts) \in Nat
          /\ ListBytes \in Nat /\ EngineBytes \in Nat
        BY <2>4, PartNumbers, OptionNumbers
    <2>7. 0 * RecordBytes = 0
        BY SizeNumbers
    <2>8. /\ Held(walk) = SampleBytes(walk.opts) + EngineBytes + 0
          /\ Held(walk') = SampleBytes(walk.opts) + EngineBytes + ListBytes + 0
        BY <2>1, <2>3, <2>4, <2>5, <2>7, HeldParts
    <2>9. walk'.out = Held(walk') /\ walk'.out <= Ceiling(walk.opts)
        BY <2>1, <2>5, <2>6, <2>8
    <2>. QED
        BY <2>2, <2>3, <2>5, <2>9, BudgetAgain
<1>4. ASSUME PlanVisit, Walking' PROVE BudgetInv'
    <2>1. /\ walk.pc = "plan" /\ Keeps({"todo", "visits", "examined", "planned", "counts"})
        BY <1>4, PlanVisitSteps, RefusedIsIdle
    <2>2. /\ walk'.pc = walk.pc /\ walk'.opts = walk.opts /\ walk'.out = walk.out
          /\ walk'.capacity = walk.capacity /\ walk'.records = walk.records
        BY <2>1 DEF Keeps, Fields
    <2>3. Walking
        BY <2>1 DEF Walking
    <2>. QED
        BY <2>2, <2>3, BudgetKept
<1>6. ASSUME GroupPrefix PROVE BudgetInv'
    <2>1. walk.pc = "group" /\ Keeps({"at", "groups"})
        BY <1>6, GroupPrefixSteps
    <2>2. /\ walk'.pc = walk.pc /\ walk'.opts = walk.opts /\ walk'.out = walk.out
          /\ walk'.capacity = walk.capacity /\ walk'.records = walk.records
        BY <2>1 DEF Keeps, Fields
    <2>3. Walking
        BY <2>1 DEF Walking
    <2>. QED
        BY <2>2, <2>3, BudgetKept
<1>7. ASSUME CheckPlan, Walking' PROVE BudgetInv'
    <2>1. walk.pc = "group" /\ walk'.pc = "pass" /\ Keeps({"pc", "at"})
        BY <1>7, CheckPlanSteps, RefusedIsIdle
    <2>2. Walking
        BY <2>1 DEF Walking
    <2>3. /\ walk'.opts = walk.opts /\ walk'.capacity = walk.capacity
          /\ walk'.records = walk.records /\ walk'.out = walk.out
        BY <2>1 DEF Keeps, Fields
    <2>4. walk.opts \in VerifyOptions
        BY <2>2, FigureNumbers
    <2>5. /\ walk.capacity = 0 /\ walk.records = {} /\ walk.out = Held(walk)
          /\ walk.out <= Ceiling(walk.opts)
        BY <2>1, <2>2 DEF BudgetInv
    <2>6. 0 * RecordBytes = 0
        BY SizeNumbers
    <2>7. Held(walk') = Held(walk)
        BY <2>1, <2>3, <2>4, <2>5, <2>6, HeldParts
    <2>. QED
        BY <2>2, <2>3, <2>5, <2>7, BudgetAgain
<1>8. ASSUME BeginPass, Walking' PROVE BudgetInv'
    <2>. DEFINE bytes == Group.records * RecordBytes
    <2>1. /\ walk.pc = "pass" /\ walk'.pc = "collect" /\ walk'.capacity = Group.records
          /\ walk'.out = walk.out + bytes /\ ~ReserveRefusal
          /\ Keeps({"pc", "todo", "capacity", "out", "peak"})
          /\ walk.at <= Len(walk.groups)
        BY <1>8, BeginPassSteps, RefusedIsIdle
    <2>2. Walking
        BY <2>1 DEF Walking
    <2>3. walk'.opts = walk.opts
        BY <2>1 DEF Keeps, Fields
    <2>4. walk.out \in Int /\ walk.opts \in VerifyOptions
        BY <2>2, FigureNumbers
    <2>5. walk.capacity = 0 /\ walk.out = Held(walk)
        BY <2>1, <2>2 DEF BudgetInv
    <2>6. bytes <= Ceiling(walk.opts) - walk.out
        BY <2>1 DEF ReserveRefusal, Grants
    <2>7. Group.records \in Nat
        BY <2>1, <2>2, GroupIn DEF Passing, GroupType
    <2>8. bytes \in Nat
        BY <2>7, SizeNumbers, ProductNat
    <2>9. 0 * RecordBytes = 0
        BY SizeNumbers
    <2>10. /\ SampleBytes(walk.opts) \in Nat /\ Ceiling(walk.opts) \in Nat
           /\ ListBytes \in Nat /\ EngineBytes \in Nat
        BY <2>4, PartNumbers, OptionNumbers
    <2>11. /\ Held(walk) = SampleBytes(walk.opts) + EngineBytes + ListBytes + 0
           /\ Held(walk') = SampleBytes(walk.opts) + EngineBytes + ListBytes + bytes
        BY <2>1, <2>3, <2>4, <2>5, <2>8, <2>9, HeldParts
    <2>. HIDE DEF bytes
    <2>12. walk'.out = Held(walk') /\ walk'.out <= Ceiling(walk.opts)
        BY <2>1, <2>4, <2>5, <2>6, <2>8, <2>10, <2>11
    <2>. QED
        BY <2>1, <2>2, <2>3, <2>12, BudgetAgain
<1>9. ASSUME Collect, Walking' PROVE BudgetInv'
    <2>. DEFINE more == 2 * walk.capacity * RecordBytes
                less == walk.capacity * RecordBytes
    <2>1. /\ walk.pc = "collect"
          /\ Keeps({"todo", "visits", "examined", "records", "capacity", "out", "peak"})
          /\ \/ walk'.capacity = walk.capacity /\ walk'.out = walk.out
             \/ /\ walk'.capacity = 2 * walk.capacity /\ walk'.out = (walk.out + more) - less
                /\ more <= Ceiling(walk.opts) - walk.out
        BY <1>9, CollectSteps, RefusedIsIdle
    <2>2. Walking
        BY <2>1 DEF Walking
    <2>3. walk'.opts = walk.opts /\ walk'.pc = walk.pc
        BY <2>1 DEF Keeps, Fields
    <2>4. CASE walk'.capacity = walk.capacity /\ walk'.out = walk.out
        BY <2>1, <2>2, <2>3, <2>4, BudgetKept
    <2>5. CASE /\ walk'.capacity = 2 * walk.capacity /\ walk'.out = (walk.out + more) - less
               /\ more <= Ceiling(walk.opts) - walk.out
        <3>1. walk.out \in Int /\ walk.opts \in VerifyOptions /\ walk.capacity \in Nat
            BY <2>2, FigureNumbers
        <3>2. less \in Nat /\ more = less + less
            BY <3>1, SizeNumbers, ProductNat
        <3>3. walk.out = Held(walk)
            BY <2>2 DEF BudgetInv
        <3>4. walk'.capacity * RecordBytes = more
            BY <2>5
        <3>5. more \in Nat
            BY <3>2
        <3>6. /\ SampleBytes(walk.opts) \in Nat /\ Ceiling(walk.opts) \in Nat
              /\ ListBytes \in Nat /\ EngineBytes \in Nat
            BY <3>1, PartNumbers, OptionNumbers
        <3>7. /\ Held(walk) = SampleBytes(walk.opts) + EngineBytes + ListBytes + less
              /\ Held(walk') = SampleBytes(walk.opts) + EngineBytes + ListBytes + more
            BY <2>1, <2>3, <3>1, <3>2, <3>4, <3>5, HeldParts
        <3>. HIDE DEF more, less
        <3>8. walk'.out = Held(walk') /\ walk'.out <= Ceiling(walk.opts)
            BY <2>5, <3>1, <3>2, <3>3, <3>5, <3>6, <3>7
        <3>. QED
            BY <2>1, <2>2, <2>3, <3>8, BudgetAgain
    <2>. QED
        BY <2>1, <2>4, <2>5
<1>10. ASSUME EndOfCollection, Walking' PROVE BudgetInv'
    <2>1. walk.pc = "collect" /\ walk'.pc = "count" /\ Keeps({"pc", "passes"})
        BY <1>10, EndOfCollectionSteps, RefusedIsIdle
    <2>2. Walking
        BY <2>1 DEF Walking
    <2>3. /\ walk'.opts = walk.opts /\ walk'.capacity = walk.capacity
          /\ walk'.records = walk.records /\ walk'.out = walk.out
        BY <2>1 DEF Keeps, Fields
    <2>4. walk.opts \in VerifyOptions /\ walk.capacity \in Nat
        BY <2>2, FigureNumbers
    <2>5. walk.out = Held(walk) /\ walk.out <= Ceiling(walk.opts)
        BY <2>2 DEF BudgetInv
    <2>6. walk.capacity * RecordBytes \in Nat
        BY <2>4, SizeNumbers, ProductNat
    <2>7. Held(walk') = Held(walk)
        BY <2>1, <2>3, <2>4, <2>6, HeldParts
    <2>. QED
        BY <2>1, <2>2, <2>3, <2>5, <2>7, BudgetAgain
<1>11. ASSUME CountKey PROVE BudgetInv'
    <2>1. /\ walk.pc = "count"
          /\ Keeps({"records", "distinct", "physical", "extra", "multiple", "most",
                    "sample", "places"})
        BY <1>11, CountKeySteps
    <2>2. /\ walk'.pc = walk.pc /\ walk'.opts = walk.opts /\ walk'.out = walk.out
          /\ walk'.capacity = walk.capacity
        BY <2>1 DEF Keeps, Fields
    <2>3. Walking
        BY <2>1 DEF Walking
    <2>. QED
        BY <2>1, <2>2, <2>3, BudgetKept
<1>12. ASSUME EndPass PROVE BudgetInv'
    <2>. DEFINE less == walk.capacity * RecordBytes
    <2>1. /\ walk.pc = "count" /\ walk'.pc = "pass" /\ walk'.capacity = 0 /\ walk.records = {}
          /\ walk'.out = walk.out - less /\ Keeps({"pc", "capacity", "at", "out"})
        BY <1>12, EndPassSteps
    <2>2. Walking
        BY <2>1 DEF Walking
    <2>3. walk'.opts = walk.opts /\ walk'.records = walk.records
        BY <2>1 DEF Keeps, Fields
    <2>4. walk.out \in Int /\ walk.opts \in VerifyOptions /\ walk.capacity \in Nat
        BY <2>2, FigureNumbers
    <2>5. walk.out = Held(walk) /\ walk.out <= Ceiling(walk.opts)
        BY <2>2 DEF BudgetInv
    <2>6. less \in Nat /\ 0 * RecordBytes = 0
        BY <2>4, SizeNumbers, ProductNat
    <2>7. /\ SampleBytes(walk.opts) \in Nat /\ Ceiling(walk.opts) \in Nat
          /\ ListBytes \in Nat /\ EngineBytes \in Nat
        BY <2>4, PartNumbers, OptionNumbers
    <2>8. /\ Held(walk) = SampleBytes(walk.opts) + EngineBytes + ListBytes + less
          /\ Held(walk') = SampleBytes(walk.opts) + EngineBytes + ListBytes + 0
        BY <2>1, <2>3, <2>4, <2>6, HeldParts
    <2>. HIDE DEF less
    <2>9. walk'.out = Held(walk') /\ walk'.out <= Ceiling(walk.opts)
        BY <2>1, <2>4, <2>5, <2>6, <2>7, <2>8
    <2>. QED
        BY <2>1, <2>2, <2>3, <2>9, BudgetAgain
<1>13. ASSUME Conclude PROVE ~Walking'
    BY <1>13 DEF Conclude, Walking, IdleWalk
<1>14. ASSUME Disturb \/ UNCHANGED <<store, walk>> PROVE BudgetInv'
    <2>1. walk' = walk
        BY <1>14, DisturbSteps
    <2>. QED
        BY <2>1 DEF BudgetInv, Walking, Held, SampleRefusal, SampleLocations, Ceiling, HeadroomOf
<1>. QED
    BY <1>0, <1>1, <1>2, <1>3, <1>4, <1>5, <1>6, <1>7, <1>8, <1>9, <1>10, <1>11, <1>12, <1>13,
       <1>14, WalkSteps DEF VerifyStep

\* The types and the budget, of every reachable state: together they are inductive.
BudgetTyped == StoreType /\ WalkType /\ BudgetInv

\* The inductive invariant of the budget.
THEOREM BudgetInvariant == Spec => []BudgetTyped
<1>1. Init => BudgetTyped
    <2>. SUFFICES ASSUME Init PROVE BudgetTyped
        OBVIOUS
    <2>1. ~Walking
        BY DEF Init, VerifyInit, Walking, IdleWalk
    <2>. QED
        BY <2>1, StoreInitType DEF BudgetTyped, WalkType, BudgetInv
<1>2. BudgetTyped /\ [Next]_vars => BudgetTyped'
    BY StoreTypeStep, WalkTypeStep, BudgetStep DEF BudgetTyped
<1>. QED
    BY <1>1, <1>2, PTL DEF Spec

\* What the verification holds stays under the budget less its headroom, for every
\* size of a record, a finding or a counter, every budget and whatever happens to the
\* store under the walk.
THEOREM BudgetHeldHolds == Spec => []BudgetHeld
<1>1. BudgetTyped => BudgetHeld
    BY DEF BudgetTyped, BudgetInv, BudgetHeld
<1>. QED
    BY <1>1, BudgetInvariant, PTL
-----------------------------------------------------------------------------
(* Sums of the groups and of the counters *)

\* A sum of zeros.
LEMMA SumZero ==
    ASSUME NEW f, NEW S, IsFiniteSet(S), \A x \in S : f[x] = 0
    PROVE  SumFunctionOnSet(f, S) = 0
<1>. DEFINE Good == {T \in SUBSET S : SumFunctionOnSet(f, T) = 0}
<1>1. ASSUME NEW T \in SUBSET S, \A x \in T : T \ {x} \in Good
      PROVE  T \in Good
    <2>1. CASE T = {}
        BY <2>1, SumEmpty
    <2>2. CASE T # {}
        <3>1. Chosen(T) \in T
            BY <2>2, ChosenIn
        <3>2. SumFunctionOnSet(f, T) = f[Chosen(T)] + SumFunctionOnSet(f, T \ {Chosen(T)})
            BY <2>2, FS_Subset, SumChosen
        <3>3. f[Chosen(T)] = 0 /\ SumFunctionOnSet(f, T \ {Chosen(T)}) = 0
            BY <1>1, <3>1
        <3>. QED
            BY <3>2, <3>3
    <2>. QED
        BY <2>1, <2>2
<1>2. S \in Good
    <2>. HIDE DEF Good
    <2>. QED
        BY <1>1, FiniteInduction
<1>. QED
    BY <1>2

\* The records of the first i groups, and the entries of the first p prefixes.
Records(groups) == [i \in DOMAIN groups |-> groups[i].records]
Upto(groups, i) == SumFunctionOnSet(Records(groups), 1 .. i)
Below(counts, p) == SumFunctionOnSet(counts, 0 .. p - 1)

\* The records of one group more.
LEMMA UptoNext ==
    ASSUME NEW gs \in Seq(GroupType), NEW i \in 1 .. Len(gs)
    PROVE  /\ Upto(gs, i - 1) \in Nat /\ gs[i].records \in Nat
           /\ Upto(gs, i) = Upto(gs, i - 1) + gs[i].records
<1>1. Len(gs) \in Nat /\ DOMAIN gs = 1 .. Len(gs)
    BY LenProperties
<1>. DEFINE f == Records(gs)
<1>2. \A j \in 1 .. Len(gs) : f[j] = gs[j].records /\ f[j] \in Nat
    <2>1. \A j \in 1 .. Len(gs) : gs[j] \in GroupType
        BY ElementOfSeq
    <2>. QED
        BY <1>1, <2>1 DEF GroupType, Records
<1>. HIDE DEF f
<1>3. 1 .. i = (1 .. i - 1) \cup {i} /\ i \notin 1 .. i - 1 /\ 1 .. i \subseteq 1 .. Len(gs)
    BY <1>1
<1>4. IsFiniteSet(1 .. i - 1)
    BY <1>1, FS_Interval
<1>5. SumFunctionOnSet(f, (1 .. i - 1) \cup {i}) = f[i] + SumFunctionOnSet(f, 1 .. i - 1)
    BY <1>2, <1>3, <1>4, SumAdd
<1>6. SumFunctionOnSet(f, 1 .. i - 1) \in Nat
    BY <1>2, <1>3, <1>4, SumNat
<1>7. f[i] = gs[i].records /\ f[i] \in Nat
    BY <1>2
<1>8. Upto(gs, i) = SumFunctionOnSet(f, 1 .. i) /\ Upto(gs, i - 1) = SumFunctionOnSet(f, 1 .. i - 1)
    BY DEF Upto, f
<1>9. Upto(gs, i) = f[i] + Upto(gs, i - 1) /\ Upto(gs, i - 1) \in Nat
    BY <1>3, <1>5, <1>6, <1>8, Zenon
<1>. QED
    BY <1>7, <1>9

\* The records of no group.
LEMMA UptoNone == \A gs : Upto(gs, 0) = 0
<1>1. 1 .. 0 = {}
    OBVIOUS
<1>. QED
    BY <1>1, SumEmpty DEF Upto

\* The records of groups that are the same up to the one given.
LEMMA UptoSame ==
    ASSUME NEW gs \in Seq(GroupType), NEW hs \in Seq(GroupType), NEW i \in Nat,
           i <= Len(gs), i <= Len(hs), \A j \in 1 .. i : gs[j] = hs[j]
    PROVE  Upto(gs, i) = Upto(hs, i)
<1>1. DOMAIN gs = 1 .. Len(gs) /\ DOMAIN hs = 1 .. Len(hs) /\ Len(gs) \in Nat /\ Len(hs) \in Nat
    BY LenProperties
<1>2. \A j \in 1 .. i : j \in DOMAIN gs /\ j \in DOMAIN hs
    BY <1>1
<1>3. \A j \in 1 .. i : Records(gs)[j] = Records(hs)[j]
    BY <1>2 DEF Records
<1>4. IsFiniteSet(1 .. i)
    BY FS_Interval
<1>. QED
    BY <1>3, <1>4, SumSame DEF Upto

\* The counters of one prefix more.
LEMMA BelowNext ==
    ASSUME NEW counts \in [0 .. PlanningPrefixes - 1 -> Nat], NEW p \in 0 .. PlanningPrefixes - 1
    PROVE  /\ Below(counts, p) \in Nat /\ counts[p] \in Nat
           /\ Below(counts, p + 1) = Below(counts, p) + counts[p]
<1>1. PlanningPrefixes \in Nat /\ p \in Nat /\ p < PlanningPrefixes
    BY SizeNumbers
<1>2. /\ 0 .. (p + 1) - 1 = (0 .. p - 1) \cup {p} /\ p \notin 0 .. p - 1
      /\ (0 .. p - 1) \cup {p} \subseteq 0 .. PlanningPrefixes - 1
    BY <1>1
<1>3. \A x \in (0 .. p - 1) \cup {p} : counts[x] \in Nat
    BY <1>2
<1>4. IsFiniteSet(0 .. p - 1)
    BY <1>1, FS_Interval
<1>5. SumFunctionOnSet(counts, (0 .. p - 1) \cup {p}) =
         counts[p] + SumFunctionOnSet(counts, 0 .. p - 1)
    BY <1>2, <1>3, <1>4, SumAdd
<1>6. SumFunctionOnSet(counts, 0 .. p - 1) \in Nat
    BY <1>3, <1>4, SumNat
<1>7. Below(counts, p) \in Nat /\ Below(counts, p + 1) = counts[p] + Below(counts, p)
    BY <1>2, <1>5, <1>6, Zenon DEF Below
<1>8. counts[p] \in Nat
    OBVIOUS
<1>. QED
    BY <1>7, <1>8

\* The counters of no prefix.
LEMMA BelowNone == \A counts : Below(counts, 0) = 0
<1>1. 0 .. 0 - 1 = {}
    OBVIOUS
<1>. QED
    BY <1>1, SumEmpty DEF Below

\* The keys of a version, counted prefix by prefix, are its keys.
LEMMA PrefixesPartition ==
    ASSUME NEW K \in SUBSET Key, IsFiniteSet(K)
    PROVE  /\ \A p : IsFiniteSet(OfPrefix(K, p)) /\ Cardinality(OfPrefix(K, p)) \in Nat
           /\ Below([p \in 0 .. PlanningPrefixes - 1 |-> Cardinality(OfPrefix(K, p))],
                    PlanningPrefixes) = Cardinality(K)
<1>. DEFINE P == 0 .. PlanningPrefixes - 1
            content == [p \in P |-> OfPrefix(K, p)]
<1>1. \A p : OfPrefix(K, p) \subseteq K
    BY DEF OfPrefix
<1>2. \A p : IsFiniteSet(OfPrefix(K, p)) /\ Cardinality(OfPrefix(K, p)) \in Nat
    BY <1>1, FS_Subset, FS_CardinalityType
<1>3. IsFiniteSet(P)
    BY SizeNumbers, FS_Interval
<1>4. \A p \in P : content[p] = OfPrefix(K, p)
    OBVIOUS
<1>. HIDE DEF content
<1>5. UNION {content[p] : p \in P} = K
    <2>1. \A k \in K : k \in OfPrefix(K, PrefixOf[k]) /\ PrefixOf[k] \in P
        BY UniquenessAssumption DEF OfPrefix
    <2>2. \A k \in K : \E p \in P : k \in content[p]
        BY <1>4, <2>1
    <2>3. \A p \in P : content[p] \subseteq K
        BY <1>1, <1>4
    <2>. HIDE DEF P
    <2>. QED
        BY <2>2, <2>3
<1>6. \A p, q \in P : p # q => content[p] \cap content[q] = {}
    BY <1>4 DEF OfPrefix
<1>. HIDE DEF P
<1>7. SumFunctionOnSet([p \in P |-> Cardinality(content[p])], P) = Cardinality(K)
    <2>1. \A p \in P : IsFiniteSet(content[p])
        BY <1>2, <1>4
    <2>2. SumFunctionOnSet([p \in P |-> Cardinality(content[p])], P) =
            Cardinality(UNION {content[p] : p \in P})
        BY <1>3, <1>6, <2>1, SumOfDisjoint, Zenon
    <2>. QED
        BY <1>5, <2>2
<1>8. [p \in P |-> Cardinality(content[p])] = [p \in P |-> Cardinality(OfPrefix(K, p))]
    BY <1>4
<1>. QED
    BY <1>2, <1>7, <1>8 DEF Below, P
-----------------------------------------------------------------------------
(* The plan *)

\* The invariant of the plan: what is planned is the sum of the counters; the groups
\* take the counters of the prefixes seen so far, and in the end of all; and what has
\* been counted is what the groups done were planned to hold.
PlanInv ==
    Walking =>
        /\ walk.planned = Below(walk.counts, PlanningPrefixes)
        /\ walk.pc \in {"sample", "start", "plan"} => walk.groups = <<>>
        /\ walk.pc \notin Passing => walk.physical = 0
        /\ walk.pc = "group" =>
              /\ walk.at <= PlanningPrefixes
              /\ Upto(walk.groups, Len(walk.groups)) = Below(walk.counts, walk.at)
        /\ walk.pc \in Passing =>
              /\ walk.at \in 1 .. Len(walk.groups) + 1
              /\ Upto(walk.groups, Len(walk.groups)) = walk.planned
        /\ walk.pc \in {"collect", "count"} => walk.at <= Len(walk.groups)
        /\ walk.pc \in {"pass", "collect"} =>
              walk.physical = Upto(walk.groups, walk.at - 1)
        /\ walk.pc = "count" =>
              walk.physical + Cardinality(walk.records) = Upto(walk.groups, walk.at)

\* The counters after a version add up to what they did and its entries.
LEMMA PlannedNext ==
    ASSUME NEW counts \in [0 .. PlanningPrefixes - 1 -> Nat], NEW K \in SUBSET Key, IsFiniteSet(K)
    PROVE  Below([p \in 0 .. PlanningPrefixes - 1 |->
                    counts[p] + Cardinality(OfPrefix(K, p))], PlanningPrefixes)
              = Below(counts, PlanningPrefixes) + Cardinality(K)
<1>. DEFINE P == 0 .. PlanningPrefixes - 1
            g == [p \in P |-> Cardinality(OfPrefix(K, p))]
            h == [p \in P |-> counts[p] + Cardinality(OfPrefix(K, p))]
<1>1. IsFiniteSet(P)
    BY SizeNumbers, FS_Interval
<1>2. \A p : Cardinality(OfPrefix(K, p)) \in Nat
    BY PrefixesPartition
<1>3. AddUp(counts, g, h, P)
    BY <1>2 DEF AddUp
<1>4. SumFunctionOnSet(g, P) = Cardinality(K)
    BY PrefixesPartition DEF Below
<1>. HIDE DEF g, h, P
<1>5. SumFunctionOnSet(h, P) = SumFunctionOnSet(counts, P) + SumFunctionOnSet(g, P)
    BY <1>1, <1>3, SumPlus, SMT
<1>6. SumFunctionOnSet(h, P) = SumFunctionOnSet(counts, P) + Cardinality(K)
    BY <1>4, <1>5
<1>. QED
    BY <1>6, Zenon DEF Below, h, P

\* A prefix hands its entries to the groups.
LEMMA GroupedNext ==
    ASSUME WalkType, GroupPrefix
    PROVE  Upto(walk'.groups, Len(walk'.groups)) =
              Upto(walk.groups, Len(walk.groups)) + walk.counts[walk.at]
<1>. DEFINE gs == walk.groups
            hs == walk'.groups
            last == Len(gs)
            here == walk.counts[walk.at]
<1>1. Walking
    BY GroupPrefixSteps DEF Walking
<1>2. gs \in Seq(GroupType) /\ hs \in Seq(GroupType) /\ last \in Nat /\ here \in Nat
    BY <1>1, FigureNumbers, GroupsAfter
<1>3. Upto(gs, last) \in Nat
    <2>1. CASE last = 0
        BY <2>1, UptoNone
    <2>2. CASE last # 0
        <3>1. last \in 1 .. Len(gs)
            BY <1>2, <2>2
        <3>. QED
            BY <1>2, <3>1, UptoNext
    <2>. QED
        BY <2>1, <2>2
<1>4. CASE Skips
    <2>1. hs = gs /\ here = 0
        BY <1>4, GroupsAfter DEF Skips
    <2>2. Upto(hs, Len(hs)) = Upto(gs, last)
        BY <2>1
    <2>. HIDE DEF gs, hs, here, last
    <2>. QED
        BY <1>3, <2>1, <2>2 DEF gs, hs, here, last
<1>5. CASE Widens
    <2>1. last \in 1 .. Len(gs) /\ last - 1 \in Nat
        BY <1>2, <1>5 DEF Widens
    <2>2. /\ Len(hs) = last /\ \A i \in 1 .. last - 1 : hs[i] = gs[i]
          /\ hs[last] = [first |-> gs[last].first, last |-> walk.at,
                         records |-> gs[last].records + here]
        BY <1>5, GroupsAfter
    <2>3. hs[last].records = gs[last].records + here
        BY <2>2
    <2>4. last \in 1 .. Len(hs)
        BY <2>1, <2>2
    <2>. HIDE DEF gs, hs, here, last
    <2>5. /\ Upto(gs, last - 1) \in Nat /\ gs[last].records \in Nat
          /\ Upto(gs, last) = Upto(gs, last - 1) + gs[last].records
        BY <1>2, <2>1, UptoNext
    <2>6. Upto(hs, last) = Upto(hs, last - 1) + hs[last].records
        BY <1>2, <2>4, UptoNext
    <2>7. Upto(gs, last - 1) = Upto(hs, last - 1)
        <3>1. last - 1 <= Len(gs) /\ last - 1 <= Len(hs)
            BY <2>1, <2>4
        <3>. QED
            BY <1>2, <2>1, <2>2, <3>1, UptoSame
    <2>8. Upto(hs, last) = Upto(gs, last) + here
        BY <1>2, <2>3, <2>5, <2>6, <2>7
    <2>. QED
        BY <2>2, <2>8 DEF gs, hs, here, last
<1>6. CASE ~Skips /\ ~Widens
    <2>1. /\ Len(hs) = last + 1 /\ \A i \in 1 .. last : hs[i] = gs[i]
          /\ hs[last + 1] = NewGroup
        BY <1>6, GroupsAfter
    <2>2. hs[last + 1].records = here
        BY <2>1 DEF NewGroup
    <2>3. last + 1 \in 1 .. Len(hs) /\ (last + 1) - 1 = last
        BY <1>2, <2>1
    <2>. HIDE DEF gs, hs, here, last
    <2>4. Upto(hs, last + 1) = Upto(hs, last) + hs[last + 1].records
        BY <1>2, <2>3, UptoNext
    <2>5. Upto(gs, last) = Upto(hs, last)
        <3>1. last <= Len(gs) /\ last <= Len(hs)
            BY <1>2, <2>1 DEF last
        <3>. QED
            BY <1>2, <2>1, <3>1, UptoSame
    <2>6. Upto(hs, last + 1) = Upto(gs, last) + here
        BY <2>2, <2>4, <2>5
    <2>. QED
        BY <2>1, <2>6 DEF gs, hs, here, last
<1>. QED
    BY <1>4, <1>5, <1>6

\* The plan is kept by a step of a pass that leaves the figures of the plan alone.
LEMMA PlanKept ==
    ASSUME PlanInv, Walking, Walking', walk'.planned = walk.planned, walk'.counts = walk.counts,
           walk'.groups = walk.groups, walk'.physical = walk.physical,
           walk'.at = walk.at,
           \/ walk'.pc = walk.pc /\ (walk.pc = "count" => walk'.records = walk.records)
           \/ walk.pc \in {"sample", "start"} /\ walk'.pc \in {"start", "plan"}
           \/ walk.pc = "pass" /\ walk'.pc = "collect" /\ walk.at <= Len(walk.groups)
    PROVE  PlanInv'
BY DEF PlanInv, Passing

\* Every step of the system keeps the plan's invariant.
LEMMA PlanStep ==
    ASSUME StoreType, WalkType, PlanInv, [Next]_vars
    PROVE  PlanInv'
<1>0. ASSUME ~Walking' PROVE PlanInv'
    BY <1>0 DEF PlanInv
<1>1. ASSUME NEW o \in VerifyOptions, Verify(o), Walking' PROVE PlanInv'
    <2>1. walk' = NewWalk(o)
        BY <1>1, VerifySteps
    <2>2. /\ walk'.pc = "sample" /\ walk'.planned = 0 /\ walk'.groups = <<>>
          /\ walk'.physical = 0 /\ walk'.counts = [p \in 0 .. PlanningPrefixes - 1 |-> 0]
        BY <2>1, NewWalkFields
    <2>3. Below([p \in 0 .. PlanningPrefixes - 1 |-> 0], PlanningPrefixes) = 0
        <3>1. IsFiniteSet(0 .. PlanningPrefixes - 1)
            BY SizeNumbers, FS_Interval
        <3>. QED
            BY <3>1, SumZero DEF Below
    <2>. QED
        BY <2>2, <2>3 DEF PlanInv, Passing
<1>2. ASSUME ReserveSample, Walking' PROVE PlanInv'
    <2>1. walk.pc = "sample" /\ walk'.pc = "start" /\ Keeps({"pc", "out", "peak"})
        BY <1>2, ReserveSampleSteps, RefusedIsIdle
    <2>2. /\ walk'.planned = walk.planned /\ walk'.counts = walk.counts
          /\ walk'.groups = walk.groups /\ walk'.physical = walk.physical /\ walk'.at = walk.at
        BY <2>1 DEF Keeps, Fields
    <2>. QED
        BY <1>2, <2>1, <2>2, PlanKept DEF Walking
<1>3. ASSUME StartWalk, Walking' PROVE PlanInv'
    <2>1. walk.pc = "start" /\ walk'.pc = "plan" /\ Keeps({"pc", "out", "peak", "todo"})
        BY <1>3, StartWalkSteps, RefusedIsIdle
    <2>2. /\ walk'.planned = walk.planned /\ walk'.counts = walk.counts
          /\ walk'.groups = walk.groups /\ walk'.physical = walk.physical /\ walk'.at = walk.at
        BY <2>1 DEF Keeps, Fields
    <2>. QED
        BY <1>3, <2>1, <2>2, PlanKept DEF Walking
<1>4. ASSUME PlanVisit, Walking' PROVE PlanInv'
    <2>. DEFINE n == First(walk.todo)
                K == gens[n].keys
    <2>1. /\ walk.pc = "plan" /\ walk.todo # {}
          /\ walk'.planned = walk.planned + Cardinality(K)
          /\ walk'.counts = [p \in 0 .. PlanningPrefixes - 1 |->
                               walk.counts[p] + Cardinality(OfPrefix(K, p))]
          /\ Keeps({"todo", "visits", "examined", "planned", "counts"})
        BY <1>4, PlanVisitSteps, RefusedIsIdle
    <2>2. Walking
        BY <2>1 DEF Walking
    <2>3. walk.todo \subseteq DOMAIN gens
        BY <2>2, FigureNumbers
    <2>4. n \in DOMAIN gens
        BY <2>1, <2>3, FirstIn DEF StoreType
    <2>5. K \subseteq Key /\ IsFiniteSet(K)
        BY <2>4, KeysOf
    <2>6. walk.counts \in [0 .. PlanningPrefixes - 1 -> Nat]
        BY <2>2 DEF WalkType
    <2>7. /\ walk'.pc = "plan" /\ walk'.groups = walk.groups /\ walk'.physical = walk.physical
        BY <2>1 DEF Keeps, Fields
    <2>8. /\ walk.planned = Below(walk.counts, PlanningPrefixes) /\ walk.groups = <<>>
          /\ walk.physical = 0
        BY <2>1, <2>2 DEF PlanInv, Passing
    <2>. HIDE DEF K
    <2>9. walk'.planned = Below(walk'.counts, PlanningPrefixes)
        BY <2>1, <2>5, <2>6, <2>8, PlannedNext
    <2>. QED
        BY <2>7, <2>8, <2>9 DEF PlanInv, Passing
<1>5. ASSUME ReserveGroups, Walking' PROVE PlanInv'
    <2>1. /\ walk.pc = "plan" /\ walk'.pc = "group" /\ walk'.at = 0
          /\ Keeps({"pc", "at", "out", "peak", "perPass"})
        BY <1>5, ReserveGroupsSteps, RefusedIsIdle
    <2>2. /\ walk'.planned = walk.planned /\ walk'.counts = walk.counts
          /\ walk'.groups = walk.groups /\ walk'.physical = walk.physical
        BY <2>1 DEF Keeps, Fields
    <2>3. /\ walk.planned = Below(walk.counts, PlanningPrefixes) /\ walk.groups = <<>>
          /\ walk.physical = 0
        BY <2>1 DEF PlanInv, Passing, Walking
    <2>4. Len(walk.groups) = 0 /\ 0 <= PlanningPrefixes
        BY <2>3, SizeNumbers
    <2>5. Upto(walk.groups, 0) = 0 /\ Below(walk.counts, 0) = 0
        BY UptoNone, BelowNone
    <2>. QED
        BY <2>1, <2>2, <2>3, <2>4, <2>5 DEF PlanInv, Passing
<1>6. ASSUME GroupPrefix PROVE PlanInv'
    <2>1. walk.pc = "group" /\ walk'.at = walk.at + 1 /\ Keeps({"at", "groups"})
        BY <1>6, GroupPrefixSteps
    <2>2. Walking
        BY <2>1 DEF Walking
    <2>3. /\ walk'.planned = walk.planned /\ walk'.counts = walk.counts
          /\ walk'.physical = walk.physical /\ walk'.pc = "group"
        BY <2>1 DEF Keeps, Fields
    <2>4. walk.at \in 0 .. PlanningPrefixes - 1
        BY <1>6, GroupsAfter
    <2>5. walk.counts \in [0 .. PlanningPrefixes - 1 -> Nat]
        BY <2>2 DEF WalkType
    <2>6. Below(walk.counts, walk.at + 1) = Below(walk.counts, walk.at) + walk.counts[walk.at]
        BY <2>4, <2>5, BelowNext
    <2>7. Upto(walk'.groups, Len(walk'.groups)) =
              Upto(walk.groups, Len(walk.groups)) + walk.counts[walk.at]
        BY <1>6, GroupedNext
    <2>8. /\ walk.planned = Below(walk.counts, PlanningPrefixes) /\ walk.physical = 0
          /\ Upto(walk.groups, Len(walk.groups)) = Below(walk.counts, walk.at)
        BY <2>1, <2>2 DEF PlanInv, Passing
    <2>9. walk'.at <= PlanningPrefixes
        BY <2>1, <2>4, SizeNumbers
    <2>10. Upto(walk'.groups, Len(walk'.groups)) = Below(walk'.counts, walk'.at)
        BY <2>1, <2>3, <2>6, <2>7, <2>8
    <2>. QED
        BY <2>3, <2>8, <2>9, <2>10 DEF PlanInv, Passing
<1>7. ASSUME CheckPlan, Walking' PROVE PlanInv'
    <2>1. /\ walk.pc = "group" /\ walk'.pc = "pass" /\ walk.at = PlanningPrefixes
          /\ walk'.at = 1 /\ Keeps({"pc", "at"})
        BY <1>7, CheckPlanSteps, RefusedIsIdle
    <2>2. Walking
        BY <2>1 DEF Walking
    <2>3. /\ walk'.planned = walk.planned /\ walk'.counts = walk.counts
          /\ walk'.groups = walk.groups /\ walk'.physical = walk.physical
        BY <2>1 DEF Keeps, Fields
    <2>4. Len(walk.groups) \in Nat
        BY <2>2, FigureNumbers
    <2>5. walk'.at \in 1 .. Len(walk'.groups) + 1 /\ walk'.at - 1 = 0
        BY <2>1, <2>3, <2>4
    <2>6. /\ walk.planned = Below(walk.counts, PlanningPrefixes) /\ walk.physical = 0
          /\ Upto(walk.groups, Len(walk.groups)) = walk.planned
        BY <2>1, <2>2 DEF PlanInv, Passing
    <2>7. Upto(walk'.groups, 0) = 0
        BY UptoNone
    <2>. QED
        BY <2>1, <2>3, <2>5, <2>6, <2>7 DEF PlanInv, Passing
<1>8. ASSUME BeginPass, Walking' PROVE PlanInv'
    <2>1. /\ walk.pc = "pass" /\ walk'.pc = "collect" /\ walk.at <= Len(walk.groups)
          /\ Keeps({"pc", "todo", "capacity", "out", "peak"})
        BY <1>8, BeginPassSteps, RefusedIsIdle
    <2>2. /\ walk'.planned = walk.planned /\ walk'.counts = walk.counts
          /\ walk'.groups = walk.groups /\ walk'.physical = walk.physical /\ walk'.at = walk.at
        BY <2>1 DEF Keeps, Fields
    <2>. QED
        BY <1>8, <2>1, <2>2, PlanKept DEF Walking
<1>9. ASSUME Collect, Walking' PROVE PlanInv'
    <2>1. /\ walk.pc = "collect"
          /\ Keeps({"todo", "visits", "examined", "records", "capacity", "out", "peak"})
        BY <1>9, CollectSteps, RefusedIsIdle
    <2>2. /\ walk'.planned = walk.planned /\ walk'.counts = walk.counts /\ walk'.pc = walk.pc
          /\ walk'.groups = walk.groups /\ walk'.physical = walk.physical /\ walk'.at = walk.at
        BY <2>1 DEF Keeps, Fields
    <2>. QED
        BY <1>9, <2>1, <2>2, PlanKept DEF Walking
<1>10. ASSUME EndOfCollection, Walking' PROVE PlanInv'
    <2>1. /\ walk.pc = "collect" /\ walk'.pc = "count" /\ Keeps({"pc", "passes"})
          /\ Cardinality(walk.records) = Group.records
        BY <1>10, EndOfCollectionSteps, RefusedIsIdle
    <2>2. Walking
        BY <2>1 DEF Walking
    <2>3. /\ walk'.planned = walk.planned /\ walk'.counts = walk.counts
          /\ walk'.records = walk.records
          /\ walk'.groups = walk.groups /\ walk'.physical = walk.physical /\ walk'.at = walk.at
        BY <2>1 DEF Keeps, Fields
    <2>4. /\ walk.planned = Below(walk.counts, PlanningPrefixes)
          /\ walk.at \in 1 .. Len(walk.groups) + 1 /\ walk.at <= Len(walk.groups)
          /\ Upto(walk.groups, Len(walk.groups)) = walk.planned
          /\ walk.physical = Upto(walk.groups, walk.at - 1)
        BY <2>1, <2>2 DEF PlanInv, Passing
    <2>5. walk.at \in 1 .. Len(walk.groups) /\ walk.groups \in Seq(GroupType)
        BY <2>1, <2>2, GroupIn, FigureNumbers, <2>4 DEF Passing
    <2>6. Upto(walk.groups, walk.at) = Upto(walk.groups, walk.at - 1) + Group.records
        BY <2>5, UptoNext DEF Group
    <2>7. walk'.physical + Cardinality(walk'.records) = Upto(walk'.groups, walk'.at)
        BY <2>1, <2>3, <2>4, <2>6
    <2>. QED
        BY <2>1, <2>3, <2>4, <2>7 DEF PlanInv, Passing
<1>11. ASSUME CountKey PROVE PlanInv'
    <2>. DEFINE copies == OfKey(LeastKey)
    <2>1. /\ walk.pc = "count" /\ walk.records # {}
          /\ walk'.records = walk.records \ copies
          /\ walk'.physical = walk.physical + Cardinality(copies)
          /\ Keeps({"records", "distinct", "physical", "extra", "multiple", "most",
                    "sample", "places"})
        BY <1>11, CountKeySteps
    <2>2. Walking
        BY <2>1 DEF Walking
    <2>3. /\ walk'.planned = walk.planned /\ walk'.counts = walk.counts /\ walk'.pc = "count"
          /\ walk'.groups = walk.groups /\ walk'.at = walk.at
        BY <2>1 DEF Keeps, Fields
    <2>4. walk.records \subseteq Copy /\ IsFiniteSet(walk.records) /\ walk.physical \in Nat
        BY <2>2, FigureNumbers
    <2>5. copies \subseteq walk.records /\ IsFiniteSet(copies) /\ Cardinality(copies) \in Nat
        BY <2>1, <2>4, LeastKeyIn
    <2>6. /\ Cardinality(walk.records \ copies) = Cardinality(walk.records) - Cardinality(copies)
          /\ Cardinality(walk.records) \in Nat
        <3>1. walk.records \cap copies = copies
            BY <2>5, SMT
        <3>. HIDE DEF copies
        <3>2. Cardinality(walk.records \ copies) =
                Cardinality(walk.records) - Cardinality(walk.records \cap copies)
            BY <2>4, FS_Difference
        <3>. QED
            BY <2>4, <3>1, <3>2, FS_CardinalityType
    <2>7. /\ walk.planned = Below(walk.counts, PlanningPrefixes)
          /\ walk.at \in 1 .. Len(walk.groups) + 1 /\ walk.at <= Len(walk.groups)
          /\ Upto(walk.groups, Len(walk.groups)) = walk.planned
          /\ walk.physical + Cardinality(walk.records) = Upto(walk.groups, walk.at)
        BY <2>1, <2>2 DEF PlanInv, Passing
    <2>. HIDE DEF copies
    <2>8. walk'.physical + Cardinality(walk'.records) = Upto(walk'.groups, walk'.at)
        <3>1. walk'.physical + Cardinality(walk'.records)
                = walk.physical + Cardinality(walk.records)
            BY <2>1, <2>4, <2>5, <2>6
        <3>. QED
            BY <2>3, <2>7, <3>1
    <2>. QED
        BY <2>3, <2>7, <2>8 DEF PlanInv, Passing
<1>12. ASSUME EndPass PROVE PlanInv'
    <2>1. /\ walk.pc = "count" /\ walk'.pc = "pass" /\ walk.records = {}
          /\ walk'.at = walk.at + 1 /\ Keeps({"pc", "capacity", "at", "out"})
        BY <1>12, EndPassSteps
    <2>2. Walking
        BY <2>1 DEF Walking
    <2>3. /\ walk'.planned = walk.planned /\ walk'.counts = walk.counts
          /\ walk'.groups = walk.groups /\ walk'.physical = walk.physical
        BY <2>1 DEF Keeps, Fields
    <2>4. walk.physical \in Nat /\ Len(walk.groups) \in Nat
        BY <2>2, FigureNumbers
    <2>5. Cardinality({}) = 0
        BY FS_EmptySet
    <2>6. /\ walk.planned = Below(walk.counts, PlanningPrefixes)
          /\ walk.at \in 1 .. Len(walk.groups) + 1 /\ walk.at <= Len(walk.groups)
          /\ Upto(walk.groups, Len(walk.groups)) = walk.planned
          /\ walk.physical + Cardinality(walk.records) = Upto(walk.groups, walk.at)
        BY <2>1, <2>2 DEF PlanInv, Passing
    <2>7. walk'.physical = Upto(walk'.groups, walk.at)
        BY <2>1, <2>3, <2>4, <2>5, <2>6
    <2>8. walk'.at \in 1 .. Len(walk'.groups) + 1 /\ walk'.at - 1 = walk.at
        BY <2>1, <2>3, <2>4, <2>6
    <2>. QED
        BY <2>1, <2>3, <2>6, <2>7, <2>8 DEF PlanInv, Passing
<1>13. ASSUME Conclude PROVE ~Walking'
    BY <1>13 DEF Conclude, Walking, IdleWalk
<1>14. ASSUME Disturb \/ UNCHANGED <<store, walk>> PROVE PlanInv'
    <2>1. walk' = walk
        BY <1>14, DisturbSteps
    <2>. QED
        BY <2>1 DEF PlanInv, Walking
<1>. QED
    BY <1>0, <1>1, <1>2, <1>3, <1>4, <1>5, <1>6, <1>7, <1>8, <1>9, <1>10, <1>11, <1>12, <1>13,
       <1>14, WalkSteps DEF VerifyStep

\* The plan, of every reachable state.
THEOREM PlanInvariant == Spec => []PlanInv
<1>1. Init => PlanInv
    BY DEF Init, VerifyInit, Walking, IdleWalk, PlanInv
<1>2. BudgetTyped /\ PlanInv /\ [Next]_vars => PlanInv'
    BY PlanStep DEF BudgetTyped
<1>. QED
    BY <1>1, <1>2, BudgetInvariant, PTL DEF Spec

\* A walk that gets to its conclusion has counted as many copies as it planned for,
\* whatever wrote to the store or took a file from it on the way.
THEOREM FoundAsPlannedHolds == Spec => []FoundAsPlanned
<1>1. BudgetTyped /\ PlanInv => FoundAsPlanned
    <2>. SUFFICES ASSUME BudgetTyped, PlanInv, walk.pc = "pass", walk.at > Len(walk.groups)
                  PROVE  walk.physical = walk.planned
        BY DEF FoundAsPlanned
    <2>1. Walking
        BY DEF Walking
    <2>2. walk.at \in Nat /\ Len(walk.groups) \in Nat
        BY <2>1, FigureNumbers DEF BudgetTyped
    <2>3. /\ walk.at \in 1 .. Len(walk.groups) + 1
          /\ Upto(walk.groups, Len(walk.groups)) = walk.planned
          /\ walk.physical = Upto(walk.groups, walk.at - 1)
        BY <2>1 DEF PlanInv, Passing
    <2>4. walk.at - 1 = Len(walk.groups)
        BY <2>2, <2>3
    <2>. QED
        BY <2>3, <2>4
<1>. QED
    BY <1>1, BudgetInvariant, PlanInvariant, PTL
-----------------------------------------------------------------------------
(* The versions visited *)

\* The entries of some versions, and the versions a walk has been to.
OfVersions(V) == {e \in StoredCopies : e[1] \in V}
Visited == DOMAIN gens \ walk.todo

\* What is stored is a finite number of copies of a finite number of keys, and a key
\* that is stored has a copy.
LEMMA StoredFinite ==
    ASSUME StoreType
    PROVE  /\ StoredKeys \subseteq Key /\ IsFiniteSet(StoredKeys)
           /\ StoredCopies \subseteq (DOMAIN gens) \X Key /\ IsFiniteSet(StoredCopies)
           /\ Physical \in Nat /\ Cardinality(DOMAIN gens) \in Nat
           /\ \A key : /\ Copies(key) \subseteq DOMAIN gens /\ IsFiniteSet(Copies(key))
                       /\ Cardinality(Copies(key)) \in Nat
           /\ \A key \in StoredKeys : Copies(key) # {} /\ Cardinality(Copies(key)) > 0
<1>1. IsFiniteSet(DOMAIN gens) /\ IsFiniteSet(Key)
    BY EntriesAssumption DEF StoreType
<1>2. StoredKeys \subseteq Key
    BY KeysOf DEF StoredKeys
<1>3. StoredCopies \subseteq (DOMAIN gens) \X Key
    <2>1. ASSUME NEW n \in DOMAIN gens, NEW k \in gens[n].keys
          PROVE  <<n, k>> \in (DOMAIN gens) \X Key
        <3>1. k \in Key
            BY <2>1, KeysOf
        <3>. QED
            BY <2>1, <3>1
    <2>2. \A e \in StoredCopies : \E n \in DOMAIN gens : \E k \in gens[n].keys : e = <<n, k>>
        BY DEF StoredCopies
    <2>. QED
        BY <2>1, <2>2
<1>4. IsFiniteSet((DOMAIN gens) \X Key)
    BY <1>1, FS_Product
<1>5. IsFiniteSet(StoredKeys) /\ IsFiniteSet(StoredCopies)
    BY <1>1, <1>2, <1>3, <1>4, FS_Subset
<1>6. Physical \in Nat /\ Cardinality(DOMAIN gens) \in Nat
    BY <1>1, <1>5, FS_CardinalityType DEF Physical
<1>7. \A key : Copies(key) \subseteq DOMAIN gens
    BY DEF Copies
<1>8. \A key : IsFiniteSet(Copies(key)) /\ Cardinality(Copies(key)) \in Nat
    BY <1>1, <1>7, FS_Subset, FS_CardinalityType
<1>9. \A key \in StoredKeys : Copies(key) # {}
    BY DEF StoredKeys, Copies
<1>10. \A key \in StoredKeys : Cardinality(Copies(key)) > 0
    <2>1. \A key \in StoredKeys : Cardinality(Copies(key)) # 0
        BY <1>8, <1>9, FS_EmptySet
    <2>. QED
        BY <1>8, <2>1
<1>. QED
    BY <1>2, <1>3, <1>5, <1>6, <1>7, <1>8, <1>9, <1>10

\* The entries of one more version.
LEMMA OfVersionsNext ==
    ASSUME StoreType, NEW V \in SUBSET DOMAIN gens, NEW n \in DOMAIN gens, n \notin V
    PROVE  /\ Cardinality(OfVersions(V \cup {n})) =
                Cardinality(OfVersions(V)) + Cardinality(gens[n].keys)
           /\ Cardinality(OfVersions(V)) \in Nat
<1>. DEFINE K == gens[n].keys
            E == {n} \X K
            O == OfVersions(V)
<1>1. OfVersions(V \cup {n}) = O \cup E
    BY DEF OfVersions, StoredCopies
<1>2. O \cap E = {}
    BY DEF OfVersions
<1>3. IsFiniteSet(K) /\ IsFiniteSet({n}) /\ Cardinality(K) \in Nat
    BY KeysOf, FS_Singleton
<1>4. IsFiniteSet(O)
    BY StoredFinite, FS_Subset DEF OfVersions
<1>5. IsFiniteSet(E) /\ Cardinality(E) = Cardinality(K)
    <2>1. IsFiniteSet(E) /\ Cardinality(E) = Cardinality({n}) * Cardinality(K)
        BY <1>3, FS_Product
    <2>2. Cardinality({n}) = 1
        BY FS_Singleton
    <2>. QED
        BY <1>3, <2>1, <2>2
<1>6. Cardinality(O) \in Nat
    BY <1>4, FS_CardinalityType
<1>. HIDE DEF E, O, K
<1>7. Cardinality(O \cup E) = Cardinality(O) + Cardinality(E) - Cardinality(O \cap E)
    BY <1>4, <1>5, FS_Union
<1>8. Cardinality(O \cup E) = Cardinality(O) + Cardinality(K)
    BY <1>2, <1>3, <1>5, <1>6, <1>7, FS_EmptySet
<1>. QED
    BY <1>1, <1>6, <1>8 DEF O, K

\* The entries of no version, and of all.
LEMMA OfVersionsEnds ==
    /\ OfVersions({}) = {} /\ Cardinality(OfVersions({})) = 0
    /\ OfVersions(DOMAIN gens) = StoredCopies
<1>1. OfVersions({}) = {}
    BY DEF OfVersions
<1>2. OfVersions(DOMAIN gens) = StoredCopies
    BY DEF OfVersions, StoredCopies
<1>. QED
    BY <1>1, <1>2, FS_EmptySet

\* A step that nobody disturbs leaves the store alone and is a call, a step of the walk
\* or none of the verification's.
LEMMA QuietSteps ==
    ASSUME StoreType, [Next]_vars, disturbed' = 0
    PROVE  /\ UNCHANGED store /\ gens' = gens /\ latch' = latch /\ disturbed = 0
           /\ \/ \E o \in VerifyOptions : Verify(o)
              \/ VerifyStep
              \/ UNCHANGED walk
<1>1. ~Disturb
    BY DisturbSteps
<1>2. UNCHANGED store
    BY <1>1, WalkSteps, VerifySteps
<1>. QED
    BY <1>1, <1>2, WalkSteps DEF store

\* A version visited: it was to be visited, is no more, and has been.
LEMMA VisitNext ==
    ASSUME StoreType, WalkType, Walking, walk.todo # {}, gens' = gens,
           walk'.todo = walk.todo \ {First(walk.todo)}
    PROVE  /\ First(walk.todo) \in DOMAIN gens /\ First(walk.todo) \notin Visited
           /\ Visited \subseteq DOMAIN gens /\ Visited' = Visited \cup {First(walk.todo)}
           /\ IsFiniteSet(Visited) /\ Cardinality(Visited) \in Nat
           /\ Cardinality(Visited') = Cardinality(Visited) + 1
<1>. DEFINE n == First(walk.todo)
<1>1. walk.todo \subseteq DOMAIN gens
    BY FigureNumbers
<1>2. n \in walk.todo
    BY <1>1, FirstIn DEF StoreType
<1>. HIDE DEF n
<1>3. n \in DOMAIN gens /\ n \notin Visited /\ Visited \subseteq DOMAIN gens
    BY <1>1, <1>2 DEF Visited
<1>4. Visited' = Visited \cup {n}
    <2>1. walk'.todo = walk.todo \ {n}
        BY DEF n
    <2>. QED
        BY <1>1, <1>2, <2>1 DEF Visited
<1>5. IsFiniteSet(Visited)
    BY <1>3, FS_Subset DEF StoreType
<1>6. Cardinality(Visited \cup {n}) = Cardinality(Visited) + 1
    BY <1>3, <1>5, FS_AddElement
<1>. QED
    BY <1>3, <1>4, <1>5, <1>6, FS_CardinalityType DEF n
-----------------------------------------------------------------------------
(* The visits *)

\* What depends on the store alone is as it was when the store is.
LEMMA SameStore ==
    ASSUME gens' = gens
    PROVE  /\ StoredCopies' = StoredCopies /\ StoredKeys' = StoredKeys /\ Physical' = Physical
           /\ \A key : Copies(key)' = Copies(key)
           /\ \A n : Active(n)' = Active(n)
           /\ \A V : OfVersions(V)' = OfVersions(V)
<1>1. StoredCopies' = StoredCopies
    BY DEF StoredCopies
<1>2. StoredKeys' = StoredKeys
    BY DEF StoredKeys
<1>3. Physical' = Physical
    BY <1>1 DEF Physical
<1>4. \A key : Copies(key)' = Copies(key)
    BY DEF Copies
<1>5. \A n : Active(n)' = Active(n)
    BY DEF Active, ActiveOf
<1>6. \A V : OfVersions(V)' = OfVersions(V)
    BY <1>1 DEF OfVersions
<1>. QED
    BY <1>1, <1>2, <1>3, <1>4, <1>5, <1>6

\* The invariant of the visits, on a store nobody has disturbed: each walk of it has
\* been to every version once and has read every entry, and the plan has as many
\* records as there are copies.
VisitInv ==
    Walking /\ disturbed = 0 =>
        /\ latch = "none"
        /\ walk.pc \notin Passing => walk.passes = 0
        /\ walk.pc \in {"sample", "start"} =>
              walk.visits = 0 /\ walk.examined = 0 /\ walk.planned = 0
        /\ walk.pc = "plan" =>
              /\ walk.visits = Cardinality(Visited)
              /\ walk.examined = Cardinality(OfVersions(Visited)) /\ walk.planned = walk.examined
        /\ walk.pc \in {"group", "pass", "collect", "count"} => walk.planned = Physical
        /\ walk.pc \in {"group", "pass", "count"} =>
              /\ walk.visits = Cardinality(DOMAIN gens) * (1 + walk.passes)
              /\ walk.examined = Physical * (1 + walk.passes)
        /\ walk.pc = "collect" =>
              /\ walk.visits = Cardinality(DOMAIN gens) * (1 + walk.passes) + Cardinality(Visited)
              /\ walk.examined = Physical * (1 + walk.passes) + Cardinality(OfVersions(Visited))

\* One more pass over everything.
LEMMA OncePerPass == \A a, b \in Nat : a * (1 + b) + a = a * (1 + (b + 1)) /\ a * (1 + 0) = a
OBVIOUS

\* Nothing visited, and nothing left to visit.
LEMMA VisitedEnds ==
    /\ walk.todo = DOMAIN gens =>
         Visited = {} /\ Cardinality(Visited) = 0 /\ Cardinality(OfVersions(Visited)) = 0
    /\ walk.todo = {} =>
         Visited = DOMAIN gens /\ Cardinality(OfVersions(Visited)) = Physical
<1>1. walk.todo = DOMAIN gens => Visited = {}
    BY DEF Visited
<1>2. walk.todo = {} => Visited = DOMAIN gens
    BY DEF Visited
<1>. QED
    BY <1>1, <1>2, OfVersionsEnds, FS_EmptySet DEF Physical

\* The visits are as they were after a step that leaves their figures alone.
LEMMA VisitKept ==
    ASSUME VisitInv, Walking, disturbed = 0, gens' = gens, latch' = latch,
           walk'.visits = walk.visits, walk'.examined = walk.examined,
           walk'.planned = walk.planned, walk'.passes = walk.passes,
           \/ walk'.pc = walk.pc /\ walk'.todo = walk.todo
           \/ walk'.pc = walk.pc /\ walk.pc \in {"group", "pass", "count"}
           \/ walk.pc = "sample" /\ walk'.pc = "start"
           \/ walk.pc = "group" /\ walk'.pc = "pass"
           \/ walk.pc = "count" /\ walk'.pc = "pass"
    PROVE  VisitInv'
<1>1. Physical' = Physical
    BY SameStore
<1>2. walk'.todo = walk.todo => Visited' = Visited
    BY DEF Visited
<1>3. walk'.todo = walk.todo => OfVersions(Visited)' = OfVersions(Visited)
    BY <1>2, SameStore DEF OfVersions
<1>. QED
    BY <1>1, <1>2, <1>3 DEF VisitInv, Passing

\* Every step of the system keeps the visits' invariant.
LEMMA VisitStep ==
    ASSUME StoreType, WalkType, VisitInv, [Next]_vars
    PROVE  VisitInv'
<1>. SUFFICES ASSUME Walking', disturbed' = 0 PROVE VisitInv'
    BY DEF VisitInv
<1>0. gens' = gens /\ latch' = latch /\ disturbed = 0
    BY QuietSteps
<1>1. ASSUME NEW o \in VerifyOptions, Verify(o) PROVE VisitInv'
    <2>1. walk' = NewWalk(o) /\ latch = "none"
        BY <1>1, VerifySteps
    <2>2. /\ walk'.pc = "sample" /\ walk'.planned = 0 /\ walk'.visits = 0 /\ walk'.examined = 0
          /\ walk'.passes = 0
        BY <2>1, NewWalkFields
    <2>. QED
        BY <1>0, <2>1, <2>2 DEF VisitInv, Passing
<1>2. ASSUME ReserveSample PROVE VisitInv'
    <2>1. walk.pc = "sample" /\ walk'.pc = "start" /\ Keeps({"pc", "out", "peak"})
        BY <1>2, ReserveSampleSteps, RefusedIsIdle
    <2>2. /\ walk'.planned = walk.planned /\ walk'.visits = walk.visits
          /\ walk'.examined = walk.examined /\ walk'.passes = walk.passes
        BY <2>1 DEF Keeps, Fields
    <2>. QED
        BY <1>0, <2>1, <2>2, VisitKept DEF Walking
<1>3. ASSUME StartWalk PROVE VisitInv'
    <2>1. /\ walk.pc = "start" /\ walk'.pc = "plan" /\ walk'.todo = DOMAIN gens
          /\ Keeps({"pc", "out", "peak", "todo"})
        BY <1>3, StartWalkSteps, RefusedIsIdle
    <2>2. /\ walk'.planned = walk.planned /\ walk'.visits = walk.visits
          /\ walk'.examined = walk.examined /\ walk'.passes = walk.passes
        BY <2>1 DEF Keeps, Fields
    <2>3. /\ latch = "none" /\ walk.visits = 0 /\ walk.examined = 0 /\ walk.planned = 0
          /\ walk.passes = 0
        BY <1>0, <2>1 DEF VisitInv, Passing, Walking
    <2>4. Visited' = {}
        BY <1>0, <2>1 DEF Visited
    <2>5. OfVersions(Visited)' = {}
        BY <2>4 DEF OfVersions
    <2>6. Cardinality(Visited)' = 0 /\ Cardinality(OfVersions(Visited))' = 0
        BY <2>4, <2>5, FS_EmptySet
    <2>. QED
        BY <1>0, <2>1, <2>2, <2>3, <2>6 DEF VisitInv, Passing
<1>4. ASSUME PlanVisit PROVE VisitInv'
    <2>. DEFINE n == First(walk.todo)
    <2>1. /\ walk.pc = "plan" /\ walk.todo # {} /\ walk'.todo = walk.todo \ {n}
          /\ walk'.visits = walk.visits + 1
          /\ walk'.examined = walk.examined + Cardinality(gens[n].keys)
          /\ walk'.planned = walk.planned + Cardinality(gens[n].keys)
          /\ Keeps({"todo", "visits", "examined", "planned", "counts"})
        BY <1>4, PlanVisitSteps, RefusedIsIdle
    <2>2. Walking
        BY <2>1 DEF Walking
    <2>3. walk'.passes = walk.passes /\ walk'.pc = "plan"
        BY <2>1 DEF Keeps, Fields
    <2>4. /\ n \in DOMAIN gens /\ n \notin Visited /\ Visited \subseteq DOMAIN gens
          /\ Visited' = Visited \cup {n} /\ Cardinality(Visited)' = Cardinality(Visited) + 1
        BY <1>0, <2>1, <2>2, VisitNext
    <2>5. OfVersions(Visited)' = OfVersions(Visited \cup {n})
        BY <1>0, <2>4, SameStore DEF OfVersions
    <2>6. Cardinality(OfVersions(Visited \cup {n})) =
             Cardinality(OfVersions(Visited)) + Cardinality(gens[n].keys)
        BY <2>4, OfVersionsNext
    <2>7. /\ latch = "none" /\ walk.visits = Cardinality(Visited)
          /\ walk.examined = Cardinality(OfVersions(Visited)) /\ walk.planned = walk.examined
          /\ walk.passes = 0
        BY <1>0, <2>1, <2>2 DEF VisitInv, Passing
    <2>. HIDE DEF n
    <2>8. /\ walk'.visits = Cardinality(Visited)'
          /\ walk'.examined = Cardinality(OfVersions(Visited))' /\ walk'.planned = walk'.examined
        BY <2>1, <2>4, <2>5, <2>6, <2>7
    <2>. QED
        BY <1>0, <2>3, <2>7, <2>8 DEF VisitInv, Passing
<1>5. ASSUME ReserveGroups PROVE VisitInv'
    <2>1. /\ walk.pc = "plan" /\ walk.todo = {} /\ walk'.pc = "group"
          /\ Keeps({"pc", "at", "out", "peak", "perPass"})
        BY <1>5, ReserveGroupsSteps, RefusedIsIdle
    <2>2. /\ walk'.planned = walk.planned /\ walk'.visits = walk.visits
          /\ walk'.examined = walk.examined /\ walk'.passes = walk.passes
        BY <2>1 DEF Keeps, Fields
    <2>3. /\ latch = "none" /\ walk.visits = Cardinality(Visited)
          /\ walk.examined = Cardinality(OfVersions(Visited)) /\ walk.planned = walk.examined
          /\ walk.passes = 0
        BY <1>0, <2>1 DEF VisitInv, Passing, Walking
    <2>4. Visited = DOMAIN gens /\ Cardinality(OfVersions(Visited)) = Physical
        BY <2>1, VisitedEnds
    <2>5. Physical' = Physical /\ Physical \in Nat /\ Cardinality(DOMAIN gens) \in Nat
        BY <1>0, SameStore, StoredFinite
    <2>6. /\ Cardinality(DOMAIN gens) * (1 + 0) = Cardinality(DOMAIN gens)
          /\ Physical * (1 + 0) = Physical
        BY <2>5, OncePerPass
    <2>. QED
        BY <1>0, <2>1, <2>2, <2>3, <2>4, <2>5, <2>6 DEF VisitInv, Passing
<1>6. ASSUME GroupPrefix PROVE VisitInv'
    <2>1. walk.pc = "group" /\ Keeps({"at", "groups"})
        BY <1>6, GroupPrefixSteps
    <2>2. /\ walk'.planned = walk.planned /\ walk'.visits = walk.visits /\ walk'.pc = walk.pc
          /\ walk'.examined = walk.examined /\ walk'.passes = walk.passes
        BY <2>1 DEF Keeps, Fields
    <2>. QED
        BY <1>0, <2>1, <2>2, VisitKept DEF Walking
<1>7. ASSUME CheckPlan PROVE VisitInv'
    <2>1. walk.pc = "group" /\ walk'.pc = "pass" /\ Keeps({"pc", "at"})
        BY <1>7, CheckPlanSteps, RefusedIsIdle
    <2>2. /\ walk'.planned = walk.planned /\ walk'.visits = walk.visits
          /\ walk'.examined = walk.examined /\ walk'.passes = walk.passes
        BY <2>1 DEF Keeps, Fields
    <2>. QED
        BY <1>0, <2>1, <2>2, VisitKept DEF Walking
<1>8. ASSUME BeginPass PROVE VisitInv'
    <2>1. /\ walk.pc = "pass" /\ walk'.pc = "collect" /\ walk'.todo = DOMAIN gens
          /\ Keeps({"pc", "todo", "capacity", "out", "peak"})
        BY <1>8, BeginPassSteps, RefusedIsIdle
    <2>2. /\ walk'.planned = walk.planned /\ walk'.visits = walk.visits
          /\ walk'.examined = walk.examined /\ walk'.passes = walk.passes
        BY <2>1 DEF Keeps, Fields
    <2>3. /\ latch = "none" /\ walk.planned = Physical
          /\ walk.visits = Cardinality(DOMAIN gens) * (1 + walk.passes)
          /\ walk.examined = Physical * (1 + walk.passes)
        BY <1>0, <2>1 DEF VisitInv, Passing, Walking
    <2>4. Visited' = {}
        BY <1>0, <2>1 DEF Visited
    <2>5. OfVersions(Visited)' = {}
        BY <2>4 DEF OfVersions
    <2>6. Cardinality(Visited)' = 0 /\ Cardinality(OfVersions(Visited))' = 0
        BY <2>4, <2>5, FS_EmptySet
    <2>7. Physical' = Physical /\ Physical \in Nat /\ Cardinality(DOMAIN gens) \in Nat
        BY <1>0, SameStore, StoredFinite
    <2>8. walk.visits \in Nat /\ walk.examined \in Nat
        BY <2>1, FigureNumbers DEF Walking
    <2>9. /\ walk'.visits = Cardinality(DOMAIN gens) * (1 + walk.passes) + Cardinality(Visited)'
          /\ walk'.examined =
                Physical * (1 + walk.passes) + Cardinality(OfVersions(Visited))'
        <3>. DEFINE a == Cardinality(DOMAIN gens) * (1 + walk.passes)
                    b == Physical * (1 + walk.passes)
        <3>1. walk'.visits = a /\ walk'.examined = b /\ a \in Nat /\ b \in Nat
            BY <2>2, <2>3, <2>8
        <3>. HIDE DEF a, b
        <3>2. walk'.visits = a + 0 /\ walk'.examined = b + 0
            BY <3>1
        <3>. QED
            BY <2>6, <3>2 DEF a, b
    <2>. QED
        BY <1>0, <2>1, <2>2, <2>3, <2>7, <2>9 DEF VisitInv, Passing
<1>9. ASSUME Collect PROVE VisitInv'
    <2>. DEFINE n == First(walk.todo)
                a == Cardinality(DOMAIN gens) * (1 + walk.passes)
                b == Physical * (1 + walk.passes)
    <2>1. /\ walk.pc = "collect" /\ walk.todo # {} /\ walk'.todo = walk.todo \ {n}
          /\ walk'.visits = walk.visits + 1
          /\ walk'.examined = walk.examined + Cardinality(gens[n].keys)
          /\ Keeps({"todo", "visits", "examined", "records", "capacity", "out", "peak"})
        BY <1>9, CollectSteps, RefusedIsIdle
    <2>2. Walking
        BY <2>1 DEF Walking
    <2>3. walk'.passes = walk.passes /\ walk'.pc = "collect" /\ walk'.planned = walk.planned
        BY <2>1 DEF Keeps, Fields
    <2>4. /\ n \in DOMAIN gens /\ n \notin Visited /\ Visited \subseteq DOMAIN gens
          /\ Visited' = Visited \cup {n} /\ Cardinality(Visited)' = Cardinality(Visited) + 1
          /\ Cardinality(Visited) \in Nat
        BY <1>0, <2>1, <2>2, VisitNext
    <2>5. OfVersions(Visited)' = OfVersions(Visited \cup {n})
        BY <1>0, <2>4, SameStore DEF OfVersions
    <2>6. /\ Cardinality(OfVersions(Visited \cup {n})) =
                Cardinality(OfVersions(Visited)) + Cardinality(gens[n].keys)
          /\ Cardinality(OfVersions(Visited)) \in Nat /\ Cardinality(gens[n].keys) \in Nat
        BY <2>4, OfVersionsNext, KeysOf
    <2>7. /\ latch = "none" /\ walk.visits = a + Cardinality(Visited)
          /\ walk.examined = b + Cardinality(OfVersions(Visited)) /\ walk.planned = Physical
        BY <1>0, <2>1, <2>2 DEF VisitInv, Passing
    <2>8. Physical' = Physical /\ a \in Nat /\ b \in Nat
        <3>1. Physical \in Nat /\ Cardinality(DOMAIN gens) \in Nat /\ 1 + walk.passes \in Nat
            BY <2>2, FigureNumbers, StoredFinite
        <3>. QED
            BY <1>0, <3>1, SameStore, ProductNat
    <2>9. a' = a /\ b' = b
        BY <1>0, <2>3, <2>8
    <2>. HIDE DEF n, a, b
    <2>10. /\ walk'.visits = a + Cardinality(Visited)'
           /\ walk'.examined = b + Cardinality(OfVersions(Visited))'
        BY <2>1, <2>4, <2>5, <2>6, <2>7, <2>8
    <2>11. /\ walk'.visits = a' + Cardinality(Visited)'
           /\ walk'.examined = b' + Cardinality(OfVersions(Visited))'
        BY <2>9, <2>10
    <2>. QED
        BY <1>0, <2>3, <2>7, <2>8, <2>11 DEF VisitInv, Passing, a, b
<1>10. ASSUME EndOfCollection PROVE VisitInv'
    <2>1. /\ walk.pc = "collect" /\ walk.todo = {} /\ walk'.pc = "count"
          /\ walk'.passes = walk.passes + 1 /\ Keeps({"pc", "passes"})
        BY <1>10, EndOfCollectionSteps, RefusedIsIdle
    <2>2. Walking
        BY <2>1 DEF Walking
    <2>3. /\ walk'.planned = walk.planned /\ walk'.visits = walk.visits
          /\ walk'.examined = walk.examined
        BY <2>1 DEF Keeps, Fields
    <2>4. /\ latch = "none" /\ walk.planned = Physical
          /\ walk.visits = Cardinality(DOMAIN gens) * (1 + walk.passes) + Cardinality(Visited)
          /\ walk.examined = Physical * (1 + walk.passes) + Cardinality(OfVersions(Visited))
        BY <1>0, <2>1, <2>2 DEF VisitInv, Passing
    <2>5. Visited = DOMAIN gens /\ Cardinality(OfVersions(Visited)) = Physical
        BY <2>1, VisitedEnds
    <2>6. /\ Physical' = Physical /\ Physical \in Nat /\ Cardinality(DOMAIN gens) \in Nat
          /\ walk.passes \in Nat
        BY <1>0, <2>2, SameStore, StoredFinite, FigureNumbers
    <2>7. /\ walk.visits = Cardinality(DOMAIN gens) * (1 + walk'.passes)
          /\ walk.examined = Physical * (1 + walk'.passes)
        BY <2>1, <2>4, <2>5, <2>6, OncePerPass
    <2>. QED
        BY <1>0, <2>1, <2>3, <2>4, <2>6, <2>7 DEF VisitInv, Passing
<1>11. ASSUME CountKey PROVE VisitInv'
    <2>1. /\ walk.pc = "count"
          /\ Keeps({"records", "distinct", "physical", "extra", "multiple", "most",
                    "sample", "places"})
        BY <1>11, CountKeySteps
    <2>2. /\ walk'.planned = walk.planned /\ walk'.visits = walk.visits /\ walk'.pc = walk.pc
          /\ walk'.examined = walk.examined /\ walk'.passes = walk.passes
        BY <2>1 DEF Keeps, Fields
    <2>. QED
        BY <1>0, <2>1, <2>2, VisitKept DEF Walking
<1>12. ASSUME EndPass PROVE VisitInv'
    <2>1. walk.pc = "count" /\ walk'.pc = "pass" /\ Keeps({"pc", "capacity", "at", "out"})
        BY <1>12, EndPassSteps
    <2>2. /\ walk'.planned = walk.planned /\ walk'.visits = walk.visits
          /\ walk'.examined = walk.examined /\ walk'.passes = walk.passes
        BY <2>1 DEF Keeps, Fields
    <2>. QED
        BY <1>0, <2>1, <2>2, VisitKept DEF Walking
<1>13. ASSUME Conclude PROVE FALSE
    BY <1>13 DEF Conclude, Walking, IdleWalk
<1>14. ASSUME UNCHANGED walk PROVE VisitInv'
    <2>1. Walking
        BY <1>14 DEF Walking
    <2>. QED
        BY <1>0, <1>14, <2>1, VisitKept
<1>. QED
    BY <1>1, <1>2, <1>3, <1>4, <1>5, <1>6, <1>7, <1>8, <1>9, <1>10, <1>11, <1>12, <1>13,
       <1>14, QuietSteps DEF VerifyStep
-----------------------------------------------------------------------------
(* The groups cover the prefixes *)

\* A prefix is in one of the groups; the groups lie one after the other before a bound.
Covered(groups, p) == \E i \in 1 .. Len(groups) : groups[i].first <= p /\ p <= groups[i].last
Apart(groups, end) ==
    /\ \A i \in 1 .. Len(groups) : groups[i].first <= groups[i].last /\ groups[i].last < end
    /\ \A i, j \in 1 .. Len(groups) : i < j => groups[i].last < groups[j].first

\* The invariant of the groups, on a store nobody has disturbed: a stored key's prefix
\* has been counted, and every prefix counted is in one group and one only.
CoverInv ==
    Walking /\ disturbed = 0 =>
        /\ walk.pc = "plan" =>
              \A n \in Visited : \A key \in gens[n].keys : walk.counts[PrefixOf[key]] > 0
        /\ walk.pc = "group" =>
              /\ \A key \in StoredKeys : walk.counts[PrefixOf[key]] > 0
              /\ Apart(walk.groups, walk.at)
              /\ \A p \in 0 .. walk.at - 1 : walk.counts[p] > 0 => Covered(walk.groups, p)
        /\ walk.pc \in Passing =>
              /\ Apart(walk.groups, PlanningPrefixes)
              /\ \A key \in StoredKeys : Covered(walk.groups, PrefixOf[key])

\* The groups as they were before the prefix at hand are still apart and still cover
\* what they did; with it, they cover it too unless it is empty.
LEMMA CoverNext ==
    ASSUME WalkType, GroupPrefix, Apart(walk.groups, walk.at),
           \A p \in 0 .. walk.at - 1 : walk.counts[p] > 0 => Covered(walk.groups, p)
    PROVE  /\ Apart(walk'.groups, walk.at + 1)
           /\ \A p \in 0 .. walk.at : walk.counts[p] > 0 => Covered(walk'.groups, p)
<1>. DEFINE gs == walk.groups
            hs == walk'.groups
            m == Len(gs)
            at == walk.at
<1>1. Walking
    BY GroupPrefixSteps DEF Walking
<1>2. /\ gs \in Seq(GroupType) /\ m \in Nat /\ at \in Nat /\ at \in 0 .. PlanningPrefixes - 1
      /\ walk.counts[at] \in Nat
    BY <1>1, FigureNumbers, GroupsAfter
<1>3. \A i \in 1 .. m : gs[i].first \in Nat /\ gs[i].last \in Nat
    <2>1. \A i \in 1 .. m : gs[i] \in GroupType
        BY <1>2, ElementOfSeq
    <2>. QED
        BY <2>1 DEF GroupType
<1>4. \A p \in 0 .. at : p = at \/ p \in 0 .. at - 1
    BY <1>2
<1>5. CASE Skips
    <2>1. hs = gs /\ m = 0 /\ walk.counts[at] = 0
        BY <1>5, GroupsAfter DEF Skips
    <2>2. Apart(hs, at + 1)
        <3>1. Len(hs) = 0
            BY <2>1
        <3>. QED
            BY <3>1 DEF Apart
    <2>3. ~(walk.counts[at] > 0)
        BY <2>1
    <2>. QED
        BY <1>4, <2>1, <2>2, <2>3
<1>6. CASE Widens
    <2>1. m \in 1 .. m
        BY <1>2, <1>6 DEF Widens
    <2>2. /\ Len(hs) = m /\ \A i \in 1 .. m - 1 : hs[i] = gs[i]
          /\ hs[m].first = gs[m].first /\ hs[m].last = at
        BY <1>6, GroupsAfter
    <2>. HIDE DEF gs, hs, m, at
    <2>3. /\ \A i \in 1 .. m : gs[i].first <= gs[i].last /\ gs[i].last < at
          /\ \A i, j \in 1 .. m : i < j => gs[i].last < gs[j].first
        BY DEF Apart, gs, m, at
    <2>4. \A i \in 1 .. m : hs[i].first = gs[i].first
        BY <1>2, <2>2
    <2>5. \A i \in 1 .. m : gs[i].last <= hs[i].last /\ hs[i].last < at + 1
        BY <1>2, <1>3, <2>2, <2>3
    <2>10. \A i \in 1 .. m : hs[i].first <= hs[i].last
        BY <1>2, <1>3, <2>2, <2>3
    <2>6. \A i, j \in 1 .. m : i < j => hs[i].last < hs[j].first
        <3>. SUFFICES ASSUME NEW i \in 1 .. m, NEW j \in 1 .. m, i < j
                      PROVE  hs[i].last < hs[j].first
            OBVIOUS
        <3>1. i \in 1 .. m - 1
            BY <1>2
        <3>. QED
            BY <2>2, <2>3, <2>4, <3>1
    <2>7. Apart(hs, at + 1)
        BY <2>2, <2>5, <2>6, <2>10 DEF Apart
    <2>8. \A p \in 0 .. at - 1 : Covered(gs, p) => Covered(hs, p)
        <3>. SUFFICES ASSUME NEW p \in 0 .. at - 1, Covered(gs, p) PROVE Covered(hs, p)
            OBVIOUS
        <3>1. PICK i \in 1 .. m : gs[i].first <= p /\ p <= gs[i].last
            BY DEF Covered, m
        <3>2. hs[i].last \in Nat
            BY <1>2, <1>3, <2>2, <3>1
        <3>3. hs[i].first <= p /\ p <= hs[i].last
            BY <1>2, <1>3, <2>4, <2>5, <3>1, <3>2
        <3>. QED
            BY <2>2, <3>3 DEF Covered
    <2>9. Covered(hs, at)
        <3>1. hs[m].first <= at /\ at <= hs[m].last
            <4>1. /\ gs[m].first <= gs[m].last /\ gs[m].last < at
                  /\ gs[m].first \in Nat /\ gs[m].last \in Nat
                BY <1>3, <2>1, <2>3
            <4>. QED
                BY <1>2, <2>2, <4>1
        <3>. QED
            BY <2>1, <2>2, <3>1 DEF Covered
    <2>. QED
        BY <1>4, <2>7, <2>8, <2>9 DEF gs, hs, at
<1>7. CASE ~Skips /\ ~Widens
    <2>1. /\ Len(hs) = m + 1 /\ \A i \in 1 .. m : hs[i] = gs[i]
          /\ hs[m + 1].first = at /\ hs[m + 1].last = at
        BY <1>7, GroupsAfter DEF NewGroup
    <2>. HIDE DEF gs, hs, m, at
    <2>2. /\ \A i \in 1 .. m : gs[i].first <= gs[i].last /\ gs[i].last < at
          /\ \A i, j \in 1 .. m : i < j => gs[i].last < gs[j].first
        BY DEF Apart, gs, m, at
    <2>3. \A i \in 1 .. m + 1 : i \in 1 .. m \/ i = m + 1
        BY <1>2
    <2>4. \A i \in 1 .. m + 1 : hs[i].first <= hs[i].last /\ hs[i].last < at + 1
        BY <1>2, <1>3, <2>1, <2>2, <2>3
    <2>5. \A i, j \in 1 .. m + 1 : i < j => hs[i].last < hs[j].first
        <3>. SUFFICES ASSUME NEW i \in 1 .. m + 1, NEW j \in 1 .. m + 1, i < j
                      PROVE  hs[i].last < hs[j].first
            OBVIOUS
        <3>1. i \in 1 .. m
            BY <1>2
        <3>. QED
            BY <2>1, <2>2, <2>3, <3>1
    <2>6. Apart(hs, at + 1)
        BY <2>1, <2>4, <2>5 DEF Apart
    <2>7. \A p \in 0 .. at - 1 : Covered(gs, p) => Covered(hs, p)
        <3>. SUFFICES ASSUME NEW p \in 0 .. at - 1, Covered(gs, p) PROVE Covered(hs, p)
            OBVIOUS
        <3>1. PICK i \in 1 .. m : gs[i].first <= p /\ p <= gs[i].last
            BY DEF Covered, m
        <3>2. i \in 1 .. Len(hs) /\ hs[i] = gs[i]
            BY <1>2, <2>1, <3>1
        <3>. QED
            BY <3>1, <3>2 DEF Covered
    <2>8. Covered(hs, at)
        <3>1. m + 1 \in 1 .. Len(hs)
            BY <1>2, <2>1
        <3>. QED
            BY <1>2, <2>1, <3>1 DEF Covered
    <2>. QED
        BY <1>4, <2>6, <2>7, <2>8 DEF gs, hs, at
<1>. QED
    BY <1>5, <1>6, <1>7

\* The groups are as they were after a step that leaves them alone.
LEMMA CoverKept ==
    ASSUME CoverInv, Walking, disturbed = 0, gens' = gens,
           walk'.counts = walk.counts, walk'.groups = walk.groups,
           \/ walk'.pc = walk.pc /\ walk'.todo = walk.todo /\ walk'.at = walk.at
           \/ walk.pc = "sample" /\ walk'.pc = "start"
           \/ walk.pc \in Passing /\ walk'.pc \in Passing
    PROVE  CoverInv'
<1>1. StoredKeys' = StoredKeys
    BY SameStore
<1>2. walk'.todo = walk.todo => Visited' = Visited
    BY DEF Visited
<1>3. /\ walk.pc = "plan" =>
              \A n \in Visited : \A key \in gens[n].keys : walk.counts[PrefixOf[key]] > 0
      /\ walk.pc = "group" =>
              /\ \A key \in StoredKeys : walk.counts[PrefixOf[key]] > 0
              /\ Apart(walk.groups, walk.at)
              /\ \A p \in 0 .. walk.at - 1 : walk.counts[p] > 0 => Covered(walk.groups, p)
      /\ walk.pc \in Passing =>
              /\ Apart(walk.groups, PlanningPrefixes)
              /\ \A key \in StoredKeys : Covered(walk.groups, PrefixOf[key])
    BY DEF CoverInv
<1>4. CASE walk'.pc = walk.pc /\ walk'.todo = walk.todo /\ walk'.at = walk.at
    BY <1>1, <1>2, <1>3, <1>4 DEF CoverInv, Apart, Covered
<1>5. CASE walk.pc = "sample" /\ walk'.pc = "start"
    BY <1>5 DEF CoverInv, Passing
<1>6. CASE walk.pc \in Passing /\ walk'.pc \in Passing
    <2>1. walk'.pc # "plan" /\ walk'.pc # "group"
        BY <1>6 DEF Passing
    <2>. QED
        BY <1>1, <1>3, <1>6, <2>1 DEF CoverInv, Apart, Covered
<1>. QED
    BY <1>4, <1>5, <1>6

\* Every step of the system keeps the groups covering what has been counted.
LEMMA CoverStep ==
    ASSUME StoreType, WalkType, PlanInv, CoverInv, [Next]_vars
    PROVE  CoverInv'
<1>. SUFFICES ASSUME Walking', disturbed' = 0 PROVE CoverInv'
    BY DEF CoverInv
<1>0. gens' = gens /\ disturbed = 0 /\ StoredKeys' = StoredKeys
    BY QuietSteps, SameStore
<1>1. ASSUME NEW o \in VerifyOptions, Verify(o) PROVE CoverInv'
    <2>1. walk' = NewWalk(o)
        BY <1>1, VerifySteps
    <2>2. walk'.pc = "sample"
        BY <2>1, NewWalkFields
    <2>. QED
        BY <2>2 DEF CoverInv, Passing
<1>2. ASSUME ReserveSample PROVE CoverInv'
    <2>1. walk'.pc = "start"
        BY <1>2, ReserveSampleSteps, RefusedIsIdle
    <2>. QED
        BY <2>1 DEF CoverInv, Passing
<1>3. ASSUME StartWalk PROVE CoverInv'
    <2>1. walk'.pc = "plan" /\ walk'.todo = DOMAIN gens
        BY <1>3, StartWalkSteps, RefusedIsIdle
    <2>2. Visited' = {}
        BY <1>0, <2>1 DEF Visited
    <2>. QED
        BY <2>1, <2>2 DEF CoverInv, Passing
<1>4. ASSUME PlanVisit PROVE CoverInv'
    <2>. DEFINE n == First(walk.todo)
                K == gens[n].keys
    <2>1. /\ walk.pc = "plan" /\ walk.todo # {} /\ walk'.todo = walk.todo \ {n}
          /\ walk'.counts = [p \in 0 .. PlanningPrefixes - 1 |->
                               walk.counts[p] + Cardinality(OfPrefix(K, p))]
          /\ Keeps({"todo", "visits", "examined", "planned", "counts"})
        BY <1>4, PlanVisitSteps, RefusedIsIdle
    <2>2. Walking /\ walk'.pc = "plan"
        BY <2>1 DEF Walking, Keeps, Fields
    <2>3. n \in DOMAIN gens /\ Visited' = Visited \cup {n} /\ Visited \subseteq DOMAIN gens
        BY <1>0, <2>1, <2>2, VisitNext
    <2>4. K \subseteq Key /\ IsFiniteSet(K)
        BY <2>3, KeysOf
    <2>5. \A p \in 0 .. PlanningPrefixes - 1 : walk.counts[p] \in Nat
        BY <2>2 DEF WalkType
    <2>6. \A m \in Visited : \A key \in gens[m].keys : walk.counts[PrefixOf[key]] > 0
        BY <1>0, <2>1, <2>2 DEF CoverInv
    <2>7. \A m \in DOMAIN gens : \A key \in gens[m].keys :
             PrefixOf[key] \in 0 .. PlanningPrefixes - 1
        BY KeysOf, UniquenessAssumption
    <2>. HIDE DEF n, K
    <2>8. \A p : IsFiniteSet(OfPrefix(K, p)) /\ Cardinality(OfPrefix(K, p)) \in Nat
        BY <2>4, PrefixesPartition
    <2>9. ASSUME NEW key \in K PROVE Cardinality(OfPrefix(K, PrefixOf[key])) > 0
        <3>1. key \in OfPrefix(K, PrefixOf[key])
            BY DEF OfPrefix
        <3>2. Cardinality(OfPrefix(K, PrefixOf[key])) # 0
            BY <2>8, <3>1, FS_EmptySet
        <3>. QED
            BY <2>8, <3>2
    <2>10. \A p \in 0 .. PlanningPrefixes - 1 :
              walk'.counts[p] = walk.counts[p] + Cardinality(OfPrefix(K, p))
        BY <2>1
    <2>11. \A m \in Visited : \A key \in gens[m].keys : walk'.counts[PrefixOf[key]] > 0
        BY <2>3, <2>5, <2>6, <2>7, <2>8, <2>10
    <2>12. \A key \in gens[n].keys : walk'.counts[PrefixOf[key]] > 0
        BY <2>3, <2>5, <2>7, <2>8, <2>9, <2>10 DEF K
    <2>13. \A m \in Visited' : \A key \in gens'[m].keys : walk'.counts[PrefixOf[key]] > 0
        BY <1>0, <2>3, <2>11, <2>12
    <2>. QED
        BY <2>2, <2>13 DEF CoverInv, Passing
<1>5. ASSUME ReserveGroups PROVE CoverInv'
    <2>1. /\ walk.pc = "plan" /\ walk.todo = {} /\ walk'.pc = "group" /\ walk'.at = 0
          /\ Keeps({"pc", "at", "out", "peak", "perPass"})
        BY <1>5, ReserveGroupsSteps, RefusedIsIdle
    <2>2. walk'.counts = walk.counts /\ walk'.groups = walk.groups
        BY <2>1 DEF Keeps, Fields
    <2>3. /\ walk.groups = <<>>
          /\ \A n \in Visited : \A key \in gens[n].keys : walk.counts[PrefixOf[key]] > 0
        BY <1>0, <2>1 DEF CoverInv, PlanInv, Walking
    <2>4. Visited = DOMAIN gens
        BY <2>1, VisitedEnds
    <2>5. \A key \in StoredKeys : walk.counts[PrefixOf[key]] > 0
        BY <2>3, <2>4 DEF StoredKeys
    <2>6. Len(walk'.groups) = 0
        BY <2>2, <2>3
    <2>7. Apart(walk'.groups, 0)
        BY <2>6 DEF Apart
    <2>8. 0 .. 0 - 1 = {}
        OBVIOUS
    <2>. QED
        BY <1>0, <2>1, <2>2, <2>5, <2>7, <2>8 DEF CoverInv, Passing
<1>6. ASSUME GroupPrefix PROVE CoverInv'
    <2>1. walk.pc = "group" /\ walk'.at = walk.at + 1 /\ Keeps({"at", "groups"})
        BY <1>6, GroupPrefixSteps
    <2>2. walk'.counts = walk.counts /\ walk'.pc = "group"
        BY <2>1 DEF Keeps, Fields
    <2>3. /\ \A key \in StoredKeys : walk.counts[PrefixOf[key]] > 0
          /\ Apart(walk.groups, walk.at)
          /\ \A p \in 0 .. walk.at - 1 : walk.counts[p] > 0 => Covered(walk.groups, p)
        BY <1>0, <2>1 DEF CoverInv, Walking
    <2>4. /\ Apart(walk'.groups, walk.at + 1)
          /\ \A p \in 0 .. walk.at : walk.counts[p] > 0 => Covered(walk'.groups, p)
        BY <1>6, <2>3, CoverNext
    <2>5. walk.at \in 0 .. PlanningPrefixes - 1
        BY <1>6, GroupsAfter
    <2>6. (walk.at + 1) - 1 = walk.at
        BY <2>5
    <2>7. /\ Apart(walk'.groups, walk'.at)
          /\ \A p \in 0 .. walk'.at - 1 : walk'.counts[p] > 0 => Covered(walk'.groups, p)
        BY <2>1, <2>2, <2>4, <2>6
    <2>. QED
        BY <1>0, <2>2, <2>3, <2>7 DEF CoverInv, Passing
<1>7. ASSUME CheckPlan PROVE CoverInv'
    <2>1. /\ walk.pc = "group" /\ walk.at = PlanningPrefixes /\ walk'.pc = "pass"
          /\ Keeps({"pc", "at"})
        BY <1>7, CheckPlanSteps, RefusedIsIdle
    <2>2. walk'.groups = walk.groups
        BY <2>1 DEF Keeps, Fields
    <2>3. /\ \A key \in StoredKeys : walk.counts[PrefixOf[key]] > 0
          /\ Apart(walk.groups, PlanningPrefixes)
          /\ \A p \in 0 .. PlanningPrefixes - 1 :
                walk.counts[p] > 0 => Covered(walk.groups, p)
        BY <1>0, <2>1 DEF CoverInv, Walking
    <2>4. \A key \in StoredKeys : PrefixOf[key] \in 0 .. PlanningPrefixes - 1
        BY StoredFinite, UniquenessAssumption
    <2>5. \A key \in StoredKeys : Covered(walk.groups, PrefixOf[key])
        BY <2>3, <2>4
    <2>. QED
        BY <1>0, <2>1, <2>2, <2>3, <2>5 DEF CoverInv, Passing
<1>8. ASSUME BeginPass PROVE CoverInv'
    <2>1. /\ walk.pc = "pass" /\ walk'.pc = "collect"
          /\ Keeps({"pc", "todo", "capacity", "out", "peak"})
        BY <1>8, BeginPassSteps, RefusedIsIdle
    <2>2. walk'.counts = walk.counts /\ walk'.groups = walk.groups
        BY <2>1 DEF Keeps, Fields
    <2>. QED
        BY <1>0, <2>1, <2>2, CoverKept DEF Walking, Passing
<1>9. ASSUME Collect PROVE CoverInv'
    <2>1. /\ walk.pc = "collect"
          /\ Keeps({"todo", "visits", "examined", "records", "capacity", "out", "peak"})
        BY <1>9, CollectSteps, RefusedIsIdle
    <2>2. walk'.counts = walk.counts /\ walk'.groups = walk.groups /\ walk'.pc = "collect"
        BY <2>1 DEF Keeps, Fields
    <2>. QED
        BY <1>0, <2>1, <2>2, CoverKept DEF Walking, Passing
<1>10. ASSUME EndOfCollection PROVE CoverInv'
    <2>1. walk.pc = "collect" /\ walk'.pc = "count" /\ Keeps({"pc", "passes"})
        BY <1>10, EndOfCollectionSteps, RefusedIsIdle
    <2>2. walk'.counts = walk.counts /\ walk'.groups = walk.groups
        BY <2>1 DEF Keeps, Fields
    <2>. QED
        BY <1>0, <2>1, <2>2, CoverKept DEF Walking, Passing
<1>11. ASSUME CountKey PROVE CoverInv'
    <2>1. /\ walk.pc = "count"
          /\ Keeps({"records", "distinct", "physical", "extra", "multiple", "most",
                    "sample", "places"})
        BY <1>11, CountKeySteps
    <2>2. walk'.counts = walk.counts /\ walk'.groups = walk.groups /\ walk'.pc = "count"
        BY <2>1 DEF Keeps, Fields
    <2>. QED
        BY <1>0, <2>1, <2>2, CoverKept DEF Walking, Passing
<1>12. ASSUME EndPass PROVE CoverInv'
    <2>1. walk.pc = "count" /\ walk'.pc = "pass" /\ Keeps({"pc", "capacity", "at", "out"})
        BY <1>12, EndPassSteps
    <2>2. walk'.counts = walk.counts /\ walk'.groups = walk.groups
        BY <2>1 DEF Keeps, Fields
    <2>. QED
        BY <1>0, <2>1, <2>2, CoverKept DEF Walking, Passing
<1>13. ASSUME Conclude PROVE FALSE
    BY <1>13 DEF Conclude, Walking, IdleWalk
<1>14. ASSUME UNCHANGED walk PROVE CoverInv'
    <2>1. Walking
        BY <1>14 DEF Walking
    <2>. QED
        BY <1>0, <1>14, <2>1, CoverKept
<1>. QED
    BY <1>1, <1>2, <1>3, <1>4, <1>5, <1>6, <1>7, <1>8, <1>9, <1>10, <1>11, <1>12, <1>13,
       <1>14, QuietSteps DEF VerifyStep
-----------------------------------------------------------------------------
(* The records of a pass *)

\* The record of a copy, and the keys of some records.
Rec(n, key) == [key |-> key, at |-> n, active |-> Active(n)]
KeysIn(R) == {c.key : c \in R}

\* The invariant of a pass, on a store nobody has disturbed: what it holds is of copies
\* in its group; of the versions it has been to, all of them; and while it counts, with
\* a key's record it has those of all its copies.
RecordInv ==
    Walking /\ disturbed = 0 =>
        /\ walk.pc \in {"collect", "count"} =>
              \A c \in walk.records :
                 /\ InGroup(Group, c.key) /\ c.at \in Copies(c.key) /\ c = Rec(c.at, c.key)
        /\ walk.pc = "collect" =>
              \A n \in Visited : \A key \in gens[n].keys :
                 InGroup(Group, key) => Rec(n, key) \in walk.records
        /\ walk.pc = "count" =>
              \A key \in KeysIn(walk.records) : \A n \in Copies(key) : Rec(n, key) \in walk.records

\* Every step of the system keeps the records of a pass those of its group.
LEMMA RecordStep ==
    ASSUME StoreType, WalkType, BudgetInv, RecordInv, [Next]_vars
    PROVE  RecordInv'
<1>. SUFFICES ASSUME Walking', disturbed' = 0 PROVE RecordInv'
    BY DEF RecordInv
<1>0. /\ gens' = gens /\ disturbed = 0
      /\ \A key : Copies(key)' = Copies(key)
      /\ \A n, key : Rec(n, key)' = Rec(n, key)
    BY QuietSteps, SameStore DEF Rec
<1>1. ASSUME walk'.pc \notin {"collect", "count"} PROVE RecordInv'
    BY <1>1 DEF RecordInv
<1>2. ASSUME NEW o \in VerifyOptions, Verify(o) PROVE RecordInv'
    BY <1>1, <1>2, VerifySteps, NewWalkFields
<1>3. ASSUME ReserveSample PROVE RecordInv'
    BY <1>1, <1>3, ReserveSampleSteps, RefusedIsIdle
<1>4. ASSUME StartWalk PROVE RecordInv'
    BY <1>1, <1>4, StartWalkSteps, RefusedIsIdle
<1>5. ASSUME PlanVisit PROVE RecordInv'
    <2>1. walk'.pc = "plan"
        BY <1>5, PlanVisitSteps, RefusedIsIdle DEF Keeps, Fields
    <2>. QED
        BY <1>1, <2>1
<1>6. ASSUME ReserveGroups PROVE RecordInv'
    BY <1>1, <1>6, ReserveGroupsSteps, RefusedIsIdle
<1>7. ASSUME GroupPrefix PROVE RecordInv'
    <2>1. walk'.pc = "group"
        BY <1>7, GroupPrefixSteps DEF Keeps, Fields
    <2>. QED
        BY <1>1, <2>1
<1>8. ASSUME CheckPlan PROVE RecordInv'
    BY <1>1, <1>8, CheckPlanSteps, RefusedIsIdle
<1>9. ASSUME BeginPass PROVE RecordInv'
    <2>1. /\ walk.pc = "pass" /\ walk'.pc = "collect" /\ walk'.todo = DOMAIN gens
          /\ Keeps({"pc", "todo", "capacity", "out", "peak"})
        BY <1>9, BeginPassSteps, RefusedIsIdle
    <2>2. walk'.records = walk.records
        BY <2>1 DEF Keeps, Fields
    <2>3. walk.records = {}
        BY <2>1 DEF BudgetInv, Walking
    <2>4. Visited' = {}
        BY <1>0, <2>1 DEF Visited
    <2>. QED
        BY <2>1, <2>2, <2>3, <2>4 DEF RecordInv
<1>10. ASSUME Collect PROVE RecordInv'
    <2>. DEFINE n == First(walk.todo)
    <2>1. /\ walk.pc = "collect" /\ walk.todo # {} /\ walk'.todo = walk.todo \ {n}
          /\ walk'.records = walk.records \cup Found(n)
          /\ Keeps({"todo", "visits", "examined", "records", "capacity", "out", "peak"})
        BY <1>10, CollectSteps, RefusedIsIdle
    <2>2. Walking /\ walk'.pc = "collect" /\ walk'.groups = walk.groups /\ walk'.at = walk.at
        BY <2>1 DEF Walking, Keeps, Fields
    <2>3. Group' = Group
        BY <2>2 DEF Group
    <2>4. n \in DOMAIN gens /\ Visited' = Visited \cup {n}
        BY <1>0, <2>1, <2>2, VisitNext
    <2>. HIDE DEF n
    <2>5. \A c \in Found(n) :
             InGroup(Group, c.key) /\ c.at \in Copies(c.key) /\ c = Rec(c.at, c.key)
        BY <2>4 DEF Found, Rec, Copies
    <2>6. \A key \in gens[n].keys : InGroup(Group, key) => Rec(n, key) \in Found(n)
        BY DEF Found, Rec
    <2>7. /\ \A c \in walk.records :
                InGroup(Group, c.key) /\ c.at \in Copies(c.key) /\ c = Rec(c.at, c.key)
          /\ \A m \in Visited : \A key \in gens[m].keys :
                InGroup(Group, key) => Rec(m, key) \in walk.records
        BY <1>0, <2>1, <2>2 DEF RecordInv
    <2>8. \A c \in walk'.records :
             InGroup(Group', c.key) /\ c.at \in Copies(c.key)' /\ c = Rec(c.at, c.key)'
        BY <1>0, <2>1, <2>3, <2>5, <2>7
    <2>9. \A m \in Visited' : \A key \in gens'[m].keys :
             InGroup(Group', key) => Rec(m, key)' \in walk'.records
        BY <1>0, <2>1, <2>3, <2>4, <2>6, <2>7
    <2>. QED
        BY <2>2, <2>8, <2>9 DEF RecordInv, InGroup
<1>11. ASSUME EndOfCollection PROVE RecordInv'
    <2>1. walk.pc = "collect" /\ walk.todo = {} /\ walk'.pc = "count" /\ Keeps({"pc", "passes"})
        BY <1>11, EndOfCollectionSteps, RefusedIsIdle
    <2>2. walk'.records = walk.records /\ walk'.groups = walk.groups /\ walk'.at = walk.at
        BY <2>1 DEF Keeps, Fields
    <2>3. Group' = Group
        BY <2>2 DEF Group
    <2>4. Visited = DOMAIN gens
        BY <2>1, VisitedEnds
    <2>5. /\ \A c \in walk.records :
                InGroup(Group, c.key) /\ c.at \in Copies(c.key) /\ c = Rec(c.at, c.key)
          /\ \A m \in DOMAIN gens : \A key \in gens[m].keys :
                InGroup(Group, key) => Rec(m, key) \in walk.records
        BY <1>0, <2>1, <2>4 DEF RecordInv, Walking
    <2>6. \A key \in KeysIn(walk.records) : \A m \in Copies(key) : Rec(m, key) \in walk.records
        BY <2>5 DEF KeysIn, Copies
    <2>7. \A c \in walk'.records :
             InGroup(Group', c.key) /\ c.at \in Copies(c.key)' /\ c = Rec(c.at, c.key)'
        BY <1>0, <2>2, <2>3, <2>5
    <2>8. \A key \in KeysIn(walk'.records) : \A m \in Copies(key)' : Rec(m, key)' \in walk'.records
        BY <1>0, <2>2, <2>6
    <2>. QED
        BY <2>1, <2>7, <2>8 DEF RecordInv, InGroup
<1>12. ASSUME CountKey PROVE RecordInv'
    <2>1. /\ walk.pc = "count" /\ walk'.records = walk.records \ OfKey(LeastKey)
          /\ Keeps({"records", "distinct", "physical", "extra", "multiple", "most",
                    "sample", "places"})
        BY <1>12, CountKeySteps
    <2>2. walk'.pc = "count" /\ walk'.groups = walk.groups /\ walk'.at = walk.at
        BY <2>1 DEF Keeps, Fields
    <2>3. Group' = Group
        BY <2>2 DEF Group
    <2>4. /\ \A c \in walk.records :
                InGroup(Group, c.key) /\ c.at \in Copies(c.key) /\ c = Rec(c.at, c.key)
          /\ \A key \in KeysIn(walk.records) : \A m \in Copies(key) : Rec(m, key) \in walk.records
        BY <1>0, <2>1 DEF RecordInv, Walking
    <2>5. \A c \in walk'.records : c \in walk.records /\ c.key # LeastKey
        BY <2>1 DEF OfKey
    <2>6. \A key \in KeysIn(walk'.records) : key \in KeysIn(walk.records) /\ key # LeastKey
        BY <2>5 DEF KeysIn
    <2>7. \A m, key : key # LeastKey => Rec(m, key) \notin OfKey(LeastKey)
        BY DEF OfKey, Rec
    <2>8. \A c \in walk'.records :
             InGroup(Group', c.key) /\ c.at \in Copies(c.key)' /\ c = Rec(c.at, c.key)'
        BY <1>0, <2>3, <2>4, <2>5
    <2>9. \A key \in KeysIn(walk'.records) : \A m \in Copies(key)' : Rec(m, key)' \in walk'.records
        BY <1>0, <2>1, <2>4, <2>6, <2>7
    <2>. QED
        BY <2>2, <2>8, <2>9 DEF RecordInv, InGroup
<1>13. ASSUME EndPass PROVE RecordInv'
    BY <1>1, <1>13, EndPassSteps
<1>14. ASSUME Conclude PROVE FALSE
    BY <1>14 DEF Conclude, Walking, IdleWalk
<1>15. ASSUME UNCHANGED walk PROVE RecordInv'
    <2>1. Group' = Group /\ Visited' = Visited
        BY <1>0, <1>15 DEF Group, Visited
    <2>2. Walking
        BY <1>15 DEF Walking
    <2>3. /\ walk.pc \in {"collect", "count"} =>
                \A c \in walk.records :
                   InGroup(Group, c.key) /\ c.at \in Copies(c.key) /\ c = Rec(c.at, c.key)
          /\ walk.pc = "collect" =>
                \A n \in Visited : \A key \in gens[n].keys :
                   InGroup(Group, key) => Rec(n, key) \in walk.records
          /\ walk.pc = "count" =>
                \A key \in KeysIn(walk.records) : \A n \in Copies(key) :
                   Rec(n, key) \in walk.records
        BY <1>0, <2>2 DEF RecordInv
    <2>4. /\ walk'.pc \in {"collect", "count"} =>
                \A c \in walk'.records :
                   InGroup(Group', c.key) /\ c.at \in Copies(c.key)' /\ c = Rec(c.at, c.key)'
          /\ walk'.pc = "collect" =>
                \A n \in Visited' : \A key \in gens'[n].keys :
                   InGroup(Group', key) => Rec(n, key)' \in walk'.records
          /\ walk'.pc = "count" =>
                \A key \in KeysIn(walk'.records) : \A n \in Copies(key)' :
                   Rec(n, key)' \in walk'.records
        BY <1>0, <1>15, <2>1, <2>3
    <2>. QED
        BY <2>4 DEF RecordInv, InGroup
<1>. QED
    BY <1>2, <1>3, <1>4, <1>5, <1>6, <1>7, <1>8, <1>9, <1>10, <1>11, <1>12, <1>13,
       <1>14, <1>15, QuietSteps DEF VerifyStep
-----------------------------------------------------------------------------
(* The tally *)

\* The stored keys of the first groups, the keys counted so far, and of some keys those
\* with more than one copy.
Grouped(groups, i) == {key \in StoredKeys : \E j \in 1 .. i : InGroup(groups[j], key)}
Done == IF walk.pc = "count" THEN Grouped(walk.groups, walk.at) \ KeysIn(walk.records)
        ELSE Grouped(walk.groups, walk.at - 1)
Many(K) == {key \in K : Cardinality(Copies(key)) > 1}

\* The most copies a key of a set has, zero if there is none.
MostOf(K, m) ==
    /\ m = 0 \/ \E key \in K : m = Cardinality(Copies(key))
    /\ \A key \in K : Cardinality(Copies(key)) <= m

\* The invariant of the count, on a store nobody has disturbed: the figures are those
\* of the keys counted so far.
Tallied(K) ==
    /\ walk.distinct = Cardinality(K) /\ walk.multiple = Cardinality(Many(K))
    /\ MostOf(K, walk.most)

TallyInv ==
    Walking /\ disturbed = 0 =>
        /\ walk.extra + walk.distinct = walk.physical
        /\ walk.multiple <= walk.extra /\ (walk.multiple = 0 => walk.extra = 0)
        /\ walk.pc \notin Passing =>
              /\ walk.distinct = 0 /\ walk.physical = 0 /\ walk.extra = 0 /\ walk.multiple = 0
              /\ walk.most = 0
        /\ walk.pc \in Passing => Tallied(Done)

\* The records of a key while the pass counts are as many as its copies.
LEMMA CopiesCounted ==
    ASSUME StoreType, WalkType, RecordInv, walk.pc = "count", disturbed = 0,
           walk.records # {}
    PROVE  /\ LeastKey \in KeysIn(walk.records) /\ LeastKey \in StoredKeys
           /\ InGroup(Group, LeastKey)
           /\ OfKey(LeastKey) = {Rec(n, LeastKey) : n \in Copies(LeastKey)}
           /\ Cardinality(OfKey(LeastKey)) = Cardinality(Copies(LeastKey))
           /\ Cardinality(Copies(LeastKey)) \in Nat \ {0}
           /\ KeysIn(walk.records \ OfKey(LeastKey)) = KeysIn(walk.records) \ {LeastKey}
<1>. DEFINE key == LeastKey
            N == Copies(key)
            R == {Rec(n, key) : n \in N}
<1>1. Walking
    BY DEF Walking
<1>2. walk.records \subseteq Copy /\ IsFiniteSet(walk.records)
    BY <1>1, FigureNumbers
<1>3. key \in KeysIn(walk.records)
    BY <1>2, LeastKeyIn DEF KeysIn
<1>. HIDE DEF key
<1>4. /\ \A c \in walk.records :
             InGroup(Group, c.key) /\ c.at \in Copies(c.key) /\ c = Rec(c.at, c.key)
      /\ \A n \in N : Rec(n, key) \in walk.records
    BY <1>1, <1>3 DEF RecordInv
<1>5. InGroup(Group, key) /\ N # {}
    BY <1>3, <1>4 DEF KeysIn
<1>6. key \in StoredKeys
    BY <1>5 DEF Copies, StoredKeys
<1>7. OfKey(key) = R
    <2>1. \A c \in OfKey(key) : c.at \in N /\ c = Rec(c.at, key)
        BY <1>4 DEF OfKey
    <2>2. \A n \in N : Rec(n, key) \in OfKey(key)
        BY <1>4 DEF OfKey, Rec
    <2>. QED
        BY <2>1, <2>2
<1>8. IsFiniteSet(N) /\ Cardinality(N) \in Nat /\ Cardinality(N) > 0
    BY <1>6, StoredFinite
<1>9. ExistsBijection(N, R)
    <2>. DEFINE f == [n \in N |-> Rec(n, key)]
    <2>1. f \in [N -> R]
        OBVIOUS
    <2>2. \A m, n \in N : f[m] = f[n] => m = n
        BY DEF Rec
    <2>3. \A r \in R : \E n \in N : f[n] = r
        OBVIOUS
    <2>. HIDE DEF f, N, R
    <2>4. f \in Bijection(N, R)
        BY <2>1, <2>2, <2>3 DEF Bijection, Injection, Surjection, IsInjective
    <2>. QED
        BY <2>4 DEF ExistsBijection
<1>10. Cardinality(R) = Cardinality(N)
    BY <1>8, <1>9, FS_Bijection
<1>11. KeysIn(walk.records \ OfKey(key)) = KeysIn(walk.records) \ {key}
    BY DEF KeysIn, OfKey
<1>. QED
    BY <1>3, <1>5, <1>6, <1>7, <1>8, <1>10, <1>11 DEF key

\* One more key counted.
LEMMA TalliedNext ==
    ASSUME StoreType, NEW K \in SUBSET StoredKeys, NEW key \in StoredKeys, key \notin K
    PROVE  /\ Cardinality(K \cup {key}) = Cardinality(K) + 1
           /\ Cardinality(Many(K \cup {key})) =
                IF Cardinality(Copies(key)) > 1 THEN Cardinality(Many(K)) + 1
                ELSE Cardinality(Many(K))
           /\ \A m \in Nat : MostOf(K, m) =>
                MostOf(K \cup {key}, Max({m, Cardinality(Copies(key))}))
<1>. DEFINE c == Cardinality(Copies(key))
<1>1. /\ IsFiniteSet(K) /\ c \in Nat
      /\ \A k \in StoredKeys : Cardinality(Copies(k)) \in Nat
    BY StoredFinite, FS_Subset
<1>2. Cardinality(K \cup {key}) = Cardinality(K) + 1
    BY <1>1, FS_AddElement
<1>3. IsFiniteSet(Many(K)) /\ key \notin Many(K)
    BY <1>1, FS_Subset DEF Many
<1>4. c > 1 => Many(K \cup {key}) = Many(K) \cup {key}
    BY DEF Many
<1>5. ~(c > 1) => Many(K \cup {key}) = Many(K)
    BY DEF Many
<1>6. c > 1 => Cardinality(Many(K \cup {key})) = Cardinality(Many(K)) + 1
    BY <1>3, <1>4, FS_AddElement
<1>7. ASSUME NEW m \in Nat, MostOf(K, m) PROVE MostOf(K \cup {key}, Max({m, c}))
    <2>1. Max({m, c}) = IF m <= c THEN c ELSE m
        BY <1>1, MaxOfTwo
    <2>2. /\ m = 0 \/ \E k \in K : m = Cardinality(Copies(k))
          /\ \A k \in K : Cardinality(Copies(k)) <= m
        BY <1>7 DEF MostOf
    <2>. DEFINE M == Max({m, c})
    <2>3. M = 0 \/ \E k \in K \cup {key} : M = Cardinality(Copies(k))
        BY <2>1, <2>2
    <2>. HIDE DEF c
    <2>4. \A k \in K : Cardinality(Copies(k)) \in Nat
        BY <1>1
    <2>5. \A k \in K : Cardinality(Copies(k)) <= M
        BY <1>1, <2>1, <2>2, <2>4
    <2>6. c <= M
        BY <1>1, <2>1
    <2>. QED
        BY <2>3, <2>5, <2>6 DEF MostOf, c
<1>. QED
    BY <1>2, <1>5, <1>6, <1>7

\* The keys of a group are of no group before it.
LEMMA GroupedApart ==
    ASSUME StoreType, NEW gs \in Seq(GroupType), NEW end, Apart(gs, end), NEW i \in 1 .. Len(gs)
    PROVE  /\ Grouped(gs, i) = Grouped(gs, i - 1)
                                  \cup {key \in StoredKeys : InGroup(gs[i], key)}
           /\ \A key \in Grouped(gs, i - 1) : ~InGroup(gs[i], key)
<1>1. Len(gs) \in Nat
    OBVIOUS
<1>2. \A j \in 1 .. Len(gs) : gs[j].first \in Nat /\ gs[j].last \in Nat
    <2>1. \A j \in 1 .. Len(gs) : gs[j] \in GroupType
        BY ElementOfSeq
    <2>. QED
        BY <2>1 DEF GroupType
<1>3. \A j : j \in 1 .. i <=> j \in 1 .. i - 1 \/ j = i
    BY <1>1
<1>4. Grouped(gs, i) = Grouped(gs, i - 1) \cup {key \in StoredKeys : InGroup(gs[i], key)}
    BY <1>3 DEF Grouped
<1>5. ASSUME NEW key \in Grouped(gs, i - 1) PROVE ~InGroup(gs[i], key)
    <2>1. PICK j \in 1 .. i - 1 : InGroup(gs[j], key)
        BY DEF Grouped
    <2>2. j \in 1 .. Len(gs) /\ j < i
        BY <1>1
    <2>3. gs[j].last < gs[i].first
        BY <2>2 DEF Apart
    <2>4. PrefixOf[key] \in Nat
        BY StoredFinite, UniquenessAssumption DEF Grouped
    <2>. QED
        BY <1>2, <2>1, <2>2, <2>3, <2>4 DEF InGroup
<1>. QED
    BY <1>4, <1>5

\* What the tally is of: the figures it is kept in and the sample.
KeepsTally ==
    /\ walk'.distinct = walk.distinct /\ walk'.physical = walk.physical
    /\ walk'.extra = walk.extra /\ walk'.multiple = walk.multiple /\ walk'.most = walk.most
    /\ walk'.sample = walk.sample /\ walk'.places = walk.places

\* The tally is as it was after a step that leaves the keys counted and the figures.
LEMMA TallyKept ==
    ASSUME TallyInv, Walking, disturbed = 0, gens' = gens, KeepsTally,
           \/ walk'.pc \notin Passing /\ walk.pc \notin Passing
           \/ walk'.pc \in Passing /\ walk.pc \in Passing /\ Done' = Done
    PROVE  TallyInv'
<1>0. \A key : Copies(key)' = Copies(key)
    BY SameStore
<1>1. Done' = Done /\ Tallied(Done) => Tallied(Done)'
    <2>. SUFFICES ASSUME Done' = Done, Tallied(Done) PROVE Tallied(Done)'
        OBVIOUS
    <2>1. Many(Done)' = Many(Done)
        BY <1>0 DEF Many
    <2>2. MostOf(Done, walk.most)' <=> MostOf(Done, walk.most)
        BY <1>0 DEF MostOf, KeepsTally
    <2>. QED
        BY <2>1, <2>2 DEF Tallied, KeepsTally
<1>. QED
    BY <1>1 DEF TallyInv, KeepsTally

\* What a step does to the keys counted so far on a store nobody has disturbed: only the
\* count of a key adds to them, whatever else moves on in the walk.
LEMMA DoneSteps ==
    ASSUME StoreType, WalkType, PlanInv, CoverInv, RecordInv, [Next]_vars, Walking',
           disturbed' = 0
    PROVE  \/ \E o \in VerifyOptions : walk' = NewWalk(o)
           \/ CountKey
           \/ /\ Walking /\ KeepsTally
              /\ \/ walk'.pc \notin Passing /\ walk.pc \notin Passing
                 \/ walk.pc = "group" /\ walk'.pc = "pass" /\ Done' = {}
                 \/ walk'.pc \in Passing /\ walk.pc \in Passing /\ Done' = Done
<1>. DEFINE Outside == walk'.pc \notin Passing /\ walk.pc \notin Passing
            Inside == walk'.pc \in Passing /\ walk.pc \in Passing /\ Done' = Done
<1>0. gens' = gens /\ disturbed = 0 /\ StoredKeys' = StoredKeys
    BY QuietSteps, SameStore
<1>1. ASSUME NEW o \in VerifyOptions, Verify(o) PROVE walk' = NewWalk(o)
    BY <1>1, VerifySteps
<1>2. ASSUME ReserveSample PROVE Walking /\ KeepsTally /\ Outside
    <2>1. walk.pc = "sample" /\ walk'.pc = "start" /\ Keeps({"pc", "out", "peak"})
        BY <1>2, ReserveSampleSteps, RefusedIsIdle
    <2>. QED
        BY <2>1 DEF Keeps, Fields, KeepsTally, Walking, Passing
<1>3. ASSUME StartWalk PROVE Walking /\ KeepsTally /\ Outside
    <2>1. walk.pc = "start" /\ walk'.pc = "plan" /\ Keeps({"pc", "out", "peak", "todo"})
        BY <1>3, StartWalkSteps, RefusedIsIdle
    <2>. QED
        BY <2>1 DEF Keeps, Fields, KeepsTally, Walking, Passing
<1>4. ASSUME PlanVisit PROVE Walking /\ KeepsTally /\ Outside
    <2>1. walk.pc = "plan" /\ Keeps({"todo", "visits", "examined", "planned", "counts"})
        BY <1>4, PlanVisitSteps, RefusedIsIdle
    <2>. QED
        BY <2>1 DEF Keeps, Fields, KeepsTally, Walking, Passing
<1>5. ASSUME ReserveGroups PROVE Walking /\ KeepsTally /\ Outside
    <2>1. /\ walk.pc = "plan" /\ walk'.pc = "group"
          /\ Keeps({"pc", "at", "out", "peak", "perPass"})
        BY <1>5, ReserveGroupsSteps, RefusedIsIdle
    <2>. QED
        BY <2>1 DEF Keeps, Fields, KeepsTally, Walking, Passing
<1>6. ASSUME GroupPrefix PROVE Walking /\ KeepsTally /\ Outside
    <2>1. walk.pc = "group" /\ Keeps({"at", "groups"})
        BY <1>6, GroupPrefixSteps
    <2>. QED
        BY <2>1 DEF Keeps, Fields, KeepsTally, Walking, Passing
<1>7. ASSUME CheckPlan
      PROVE  Walking /\ KeepsTally /\ walk.pc = "group" /\ walk'.pc = "pass" /\ Done' = {}
    <2>1. walk.pc = "group" /\ walk'.pc = "pass" /\ walk'.at = 1 /\ Keeps({"pc", "at"})
        BY <1>7, CheckPlanSteps, RefusedIsIdle
    <2>2. KeepsTally /\ Walking
        BY <2>1 DEF Keeps, Fields, KeepsTally, Walking
    <2>3. 1 .. walk'.at - 1 = {}
        BY <2>1
    <2>4. Done' = {}
        BY <2>1, <2>3 DEF Done, Grouped
    <2>. QED
        BY <2>1, <2>2, <2>4
<1>8. ASSUME BeginPass PROVE Walking /\ KeepsTally /\ Inside
    <2>1. /\ walk.pc = "pass" /\ walk'.pc = "collect"
          /\ Keeps({"pc", "todo", "capacity", "out", "peak"})
        BY <1>8, BeginPassSteps, RefusedIsIdle
    <2>2. KeepsTally /\ walk'.groups = walk.groups /\ walk'.at = walk.at
        BY <2>1 DEF Keeps, Fields, KeepsTally
    <2>3. Done' = Done
        BY <1>0, <2>1, <2>2 DEF Done, Grouped, InGroup
    <2>. QED
        BY <2>1, <2>2, <2>3 DEF Walking, Passing
<1>9. ASSUME Collect PROVE Walking /\ KeepsTally /\ Inside
    <2>1. /\ walk.pc = "collect"
          /\ Keeps({"todo", "visits", "examined", "records", "capacity", "out", "peak"})
        BY <1>9, CollectSteps, RefusedIsIdle
    <2>2. /\ KeepsTally /\ walk'.groups = walk.groups /\ walk'.at = walk.at
          /\ walk'.pc = "collect"
        BY <2>1 DEF Keeps, Fields, KeepsTally
    <2>3. Done' = Done
        BY <1>0, <2>1, <2>2 DEF Done, Grouped, InGroup
    <2>. QED
        BY <2>1, <2>2, <2>3 DEF Walking, Passing
<1>10. ASSUME EndOfCollection PROVE Walking /\ KeepsTally /\ Inside
    <2>1. walk.pc = "collect" /\ walk.todo = {} /\ walk'.pc = "count" /\ Keeps({"pc", "passes"})
        BY <1>10, EndOfCollectionSteps, RefusedIsIdle
    <2>2. /\ KeepsTally /\ walk'.groups = walk.groups /\ walk'.at = walk.at
          /\ walk'.records = walk.records
        BY <2>1 DEF Keeps, Fields, KeepsTally
    <2>3. Walking /\ walk.at <= Len(walk.groups)
        BY <2>1 DEF Walking, PlanInv
    <2>4. walk.at \in 1 .. Len(walk.groups) /\ walk.groups \in Seq(GroupType)
        BY <2>1, <2>3, GroupIn, FigureNumbers DEF Passing
    <2>5. Apart(walk.groups, PlanningPrefixes)
        BY <1>0, <2>1, <2>3 DEF CoverInv, Passing
    <2>6. KeysIn(walk.records) = {key \in StoredKeys : InGroup(Group, key)}
        <3>1. /\ \A c \in walk.records : InGroup(Group, c.key) /\ c.at \in Copies(c.key)
              /\ \A n \in DOMAIN gens : \A key \in gens[n].keys :
                    InGroup(Group, key) => Rec(n, key) \in walk.records
            BY <1>0, <2>1, <2>3, VisitedEnds DEF RecordInv
        <3>2. \A key \in KeysIn(walk.records) : key \in StoredKeys /\ InGroup(Group, key)
            BY <3>1 DEF KeysIn, Copies, StoredKeys
        <3>3. \A key \in StoredKeys : InGroup(Group, key) => key \in KeysIn(walk.records)
            <4>1. \A key \in StoredKeys : \E n \in DOMAIN gens : key \in gens[n].keys
                BY DEF StoredKeys
            <4>2. \A n, key : Rec(n, key).key = key
                BY DEF Rec
            <4>. QED
                BY <3>1, <4>1, <4>2 DEF KeysIn
        <3>. QED
            BY <3>2, <3>3
    <2>7. /\ Grouped(walk.groups, walk.at) =
                Grouped(walk.groups, walk.at - 1) \cup {key \in StoredKeys : InGroup(Group, key)}
          /\ \A key \in Grouped(walk.groups, walk.at - 1) : ~InGroup(Group, key)
        BY <2>4, <2>5, GroupedApart DEF Group
    <2>8. Grouped(walk.groups, walk.at) \ KeysIn(walk.records) = Grouped(walk.groups, walk.at - 1)
        BY <2>6, <2>7
    <2>9. Done' = Grouped(walk.groups, walk.at) \ KeysIn(walk.records)
        BY <1>0, <2>1, <2>2 DEF Done, Grouped, InGroup, KeysIn
    <2>10. Done' = Done
        BY <2>1, <2>8, <2>9 DEF Done
    <2>. QED
        BY <2>1, <2>2, <2>3, <2>10 DEF Passing
<1>11. ASSUME EndPass PROVE Walking /\ KeepsTally /\ Inside
    <2>1. /\ walk.pc = "count" /\ walk'.pc = "pass" /\ walk.records = {}
          /\ walk'.at = walk.at + 1 /\ Keeps({"pc", "capacity", "at", "out"})
        BY <1>11, EndPassSteps
    <2>2. KeepsTally /\ walk'.groups = walk.groups
        BY <2>1 DEF Keeps, Fields, KeepsTally
    <2>3. walk.at \in Nat
        BY <2>1, FigureNumbers DEF Walking
    <2>4. Done = Grouped(walk.groups, walk.at)
        BY <2>1 DEF Done, KeysIn
    <2>5. walk'.at - 1 = walk.at
        BY <2>1, <2>3
    <2>6. Done' = Grouped(walk.groups, walk.at)
        BY <1>0, <2>1, <2>2, <2>5 DEF Done, Grouped, InGroup
    <2>. QED
        BY <2>1, <2>2, <2>4, <2>6 DEF Walking, Passing
<1>12. ASSUME Conclude PROVE FALSE
    BY <1>12 DEF Conclude, Walking, IdleWalk
<1>13. ASSUME UNCHANGED walk PROVE Walking /\ KeepsTally /\ (Outside \/ Inside)
    <2>1. Walking
        BY <1>13 DEF Walking
    <2>2. Done' = Done
        BY <1>0, <1>13 DEF Done, Grouped, InGroup, KeysIn
    <2>. QED
        BY <1>13, <2>1, <2>2 DEF KeepsTally
<1>. HIDE DEF Outside, Inside
<1>14. \/ \E o \in VerifyOptions : walk' = NewWalk(o)
       \/ CountKey
       \/ Walking /\ KeepsTally /\ Outside
       \/ Walking /\ KeepsTally /\ walk.pc = "group" /\ walk'.pc = "pass" /\ Done' = {}
       \/ Walking /\ KeepsTally /\ Inside
    BY <1>1, <1>2, <1>3, <1>4, <1>5, <1>6, <1>7, <1>8, <1>9, <1>10, <1>11, <1>12, <1>13,
       QuietSteps DEF VerifyStep
<1>. QED
    BY <1>14 DEF Outside, Inside

\* The key counted next is added to those counted, and was not among them.
LEMMA KeyCounted ==
    ASSUME StoreType, WalkType, PlanInv, RecordInv, CountKey, gens' = gens, disturbed = 0
    PROVE  /\ LeastKey \in StoredKeys /\ LeastKey \notin Done
           /\ Done' = Done \cup {LeastKey} /\ Done \subseteq StoredKeys
           /\ Cardinality(OfKey(LeastKey)) = Cardinality(Copies(LeastKey))
           /\ OfKey(LeastKey) = {Rec(n, LeastKey) : n \in Copies(LeastKey)}
           /\ Cardinality(Copies(LeastKey)) \in Nat \ {0}
           /\ Walking /\ walk.pc = "count" /\ walk'.pc = "count"
<1>. DEFINE key == LeastKey
<1>0. StoredKeys' = StoredKeys
    BY SameStore
<1>1. /\ walk.pc = "count" /\ walk.records # {}
      /\ walk'.records = walk.records \ OfKey(key)
      /\ Keeps({"records", "distinct", "physical", "extra", "multiple", "most",
                "sample", "places"})
    BY CountKeySteps
<1>2. Walking /\ walk'.pc = "count" /\ walk'.groups = walk.groups /\ walk'.at = walk.at
    BY <1>1 DEF Walking, Keeps, Fields
<1>3. /\ key \in KeysIn(walk.records) /\ key \in StoredKeys /\ InGroup(Group, key)
      /\ Cardinality(OfKey(key)) = Cardinality(Copies(key))
      /\ OfKey(key) = {Rec(n, key) : n \in Copies(key)}
      /\ Cardinality(Copies(key)) \in Nat \ {0}
      /\ KeysIn(walk.records \ OfKey(key)) = KeysIn(walk.records) \ {key}
    BY <1>1, CopiesCounted
<1>. HIDE DEF key
<1>4. walk.at \in 1 .. Len(walk.groups)
    <2>1. walk.at <= Len(walk.groups)
        BY <1>1, <1>2 DEF PlanInv
    <2>. QED
        BY <1>1, <1>2, <2>1, GroupIn DEF Passing
<1>5. key \in Grouped(walk.groups, walk.at)
    <2>1. walk.at \in 1 .. walk.at
        BY <1>4
    <2>. QED
        BY <1>3, <2>1 DEF Grouped, Group
<1>6. Done = Grouped(walk.groups, walk.at) \ KeysIn(walk.records)
    BY <1>1 DEF Done
<1>7. Done' = Grouped(walk.groups, walk.at) \ (KeysIn(walk.records) \ {key})
    <2>1. Done' = Grouped(walk.groups, walk.at) \ KeysIn(walk'.records)
        BY <1>0, <1>2 DEF Done, Grouped, InGroup, KeysIn
    <2>. QED
        BY <1>1, <1>3, <2>1
<1>8. Done' = Done \cup {key} /\ key \notin Done
    BY <1>3, <1>5, <1>6, <1>7
<1>9. Done \subseteq StoredKeys
    BY <1>6 DEF Grouped
<1>. QED
    BY <1>1, <1>2, <1>3, <1>8, <1>9 DEF key

\* Every step of the system keeps the tally that of the keys counted so far.
LEMMA TallyStep ==
    ASSUME StoreType, WalkType, PlanInv, CoverInv, RecordInv, TallyInv, [Next]_vars
    PROVE  TallyInv'
<1>. SUFFICES ASSUME Walking', disturbed' = 0 PROVE TallyInv'
    BY DEF TallyInv
<1>0. /\ gens' = gens /\ disturbed = 0 /\ \A key : Copies(key)' = Copies(key)
    BY QuietSteps, SameStore
<1>1. ASSUME NEW o \in VerifyOptions, walk' = NewWalk(o) PROVE TallyInv'
    <2>1. /\ walk'.pc = "sample" /\ walk'.distinct = 0 /\ walk'.physical = 0 /\ walk'.extra = 0
          /\ walk'.multiple = 0 /\ walk'.most = 0
        BY <1>1, NewWalkFields
    <2>. QED
        BY <2>1 DEF TallyInv, Passing
<1>2. ASSUME Walking, KeepsTally, walk.pc = "group", walk'.pc = "pass", Done' = {}
      PROVE  TallyInv'
    <2>1. /\ walk.distinct = 0 /\ walk.physical = 0 /\ walk.extra = 0 /\ walk.multiple = 0
          /\ walk.most = 0
        BY <1>0, <1>2 DEF TallyInv, Passing
    <2>2. /\ walk'.distinct = 0 /\ walk'.physical = 0 /\ walk'.extra = 0 /\ walk'.multiple = 0
          /\ walk'.most = 0
        BY <1>2, <2>1 DEF KeepsTally
    <2>3. Many(Done)' = {}
        BY <1>2 DEF Many
    <2>4. MostOf(Done, walk.most)'
        BY <1>2, <2>2 DEF MostOf
    <2>5. Tallied(Done)'
        BY <1>2, <2>2, <2>3, <2>4, FS_EmptySet DEF Tallied
    <2>. QED
        BY <1>2, <2>2, <2>5 DEF TallyInv, Passing
<1>3. ASSUME CountKey PROVE TallyInv'
    <2>. DEFINE key == LeastKey
                m == Cardinality(OfKey(key))
    <2>1. /\ walk'.distinct = walk.distinct + 1 /\ walk'.physical = walk.physical + m
          /\ walk'.extra = walk.extra + (m - 1)
          /\ walk'.multiple = IF m > 1 THEN walk.multiple + 1 ELSE walk.multiple
          /\ walk'.most = Max({walk.most, m})
        BY <1>3, CountKeySteps
    <2>2. /\ key \in StoredKeys /\ key \notin Done /\ Done \subseteq StoredKeys
          /\ Done' = Done \cup {key} /\ m = Cardinality(Copies(key)) /\ m \in Nat \ {0}
          /\ Walking /\ walk.pc = "count" /\ walk'.pc = "count"
        BY <1>0, <1>3, KeyCounted
    <2>. HIDE DEF key, m
    <2>3. /\ Cardinality(Done \cup {key}) = Cardinality(Done) + 1
          /\ Cardinality(Many(Done \cup {key})) =
                IF m > 1 THEN Cardinality(Many(Done)) + 1 ELSE Cardinality(Many(Done))
          /\ \A x \in Nat : MostOf(Done, x) => MostOf(Done \cup {key}, Max({x, m}))
        BY <2>2, TalliedNext
    <2>4. /\ walk.distinct \in Nat /\ walk.physical \in Nat /\ walk.extra \in Nat
          /\ walk.multiple \in Nat /\ walk.most \in Nat
        BY <2>2, FigureNumbers
    <2>5. /\ walk.extra + walk.distinct = walk.physical
          /\ walk.multiple <= walk.extra /\ (walk.multiple = 0 => walk.extra = 0)
          /\ walk.distinct = Cardinality(Done) /\ walk.multiple = Cardinality(Many(Done))
          /\ MostOf(Done, walk.most)
        BY <1>0, <2>2 DEF TallyInv, Passing, Tallied
    <2>6. /\ walk'.extra + walk'.distinct = walk'.physical
          /\ walk'.multiple <= walk'.extra /\ (walk'.multiple = 0 => walk'.extra = 0)
        BY <2>1, <2>2, <2>4, <2>5
    <2>7. Many(Done)' = Many(Done \cup {key})
        BY <1>0, <2>2 DEF Many
    <2>8. MostOf(Done, walk.most)'
        <3>1. MostOf(Done \cup {key}, walk'.most)
            BY <2>1, <2>3, <2>4, <2>5
        <3>. QED
            BY <1>0, <2>2, <3>1 DEF MostOf
    <2>9. /\ walk'.distinct = Cardinality(Done') /\ walk'.multiple = Cardinality(Many(Done)')
        BY <2>1, <2>2, <2>3, <2>5, <2>7
    <2>10. Tallied(Done)'
        BY <2>8, <2>9 DEF Tallied
    <2>. QED
        BY <2>2, <2>6, <2>10 DEF TallyInv, Passing
<1>. QED
    BY <1>0, <1>1, <1>2, <1>3, DoneSteps, TallyKept
-----------------------------------------------------------------------------
(* The verdict *)

\* The latch is one of three, and no scan changes it.
LatchType == latch \in {"none", "recovery", "integrity"}

\* Every step of the system leaves the latch of its type.
LEMMA LatchStep ==
    ASSUME StoreType, LatchType, [Next]_vars
    PROVE  LatchType'
<1>1. latch' = latch
    BY WalkSteps, VerifySteps, DisturbSteps DEF store
<1>. QED
    BY <1>1 DEF LatchType

\* The invariant of a scan that nobody disturbs.
ScanInv == LatchType /\ PlanInv /\ VisitInv /\ CoverInv /\ RecordInv /\ TallyInv

\* The invariant of the verification, of every reachable state.
THEOREM ScanInvariant == Spec => [](BudgetTyped /\ ScanInv)
<1>1. Init => ScanInv
    BY DEF Init, StoreInit, VerifyInit, Walking, IdleWalk, ScanInv, LatchType, PlanInv, VisitInv,
           CoverInv, RecordInv, TallyInv
<1>2. BudgetTyped /\ ScanInv /\ [Next]_vars => ScanInv'
    BY LatchStep, PlanStep, VisitStep, CoverStep, RecordStep, TallyStep DEF BudgetTyped, ScanInv
<1>. QED
    BY <1>1, <1>2, BudgetInvariant, PTL DEF Spec

\* What a step does to the verdict: nothing, unless a walk concludes or none is given.
LEMMA VerdictSteps ==
    ASSUME StoreType, WalkType, LatchType, [Next]_vars
    PROVE  verdict' = verdict \/ Conclude \/ verdict'.error # "ok"
<1>1. ASSUME NEW error, NEW o, VerifyRefused(error, o), error # "ok"
      PROVE  verdict'.error # "ok"
    BY <1>1, RefusedIsIdle
<1>2. NoVerdict.error # "ok"
    BY DEF NoVerdict
<1>3. ASSUME NEW o \in VerifyOptions, Verify(o) PROVE verdict'.error # "ok"
    <2>1. latch # "ok"
        BY DEF LatchType
    <2>. QED
        BY <1>2, <1>3, <2>1, VerifySteps
<1>4. ASSUME ReserveSample PROVE verdict' = verdict \/ verdict'.error # "ok"
    BY <1>1, <1>4, ReserveSampleSteps
<1>5. ASSUME StartWalk PROVE verdict' = verdict \/ verdict'.error # "ok"
    BY <1>1, <1>5, StartWalkSteps
<1>6. ASSUME PlanVisit PROVE verdict' = verdict \/ verdict'.error # "ok"
    BY <1>1, <1>6, PlanVisitSteps
<1>7. ASSUME ReserveGroups PROVE verdict' = verdict \/ verdict'.error # "ok"
    BY <1>1, <1>7, ReserveGroupsSteps
<1>8. ASSUME GroupPrefix PROVE verdict' = verdict
    BY <1>8, GroupPrefixSteps
<1>9. ASSUME CheckPlan PROVE verdict' = verdict \/ verdict'.error # "ok"
    BY <1>1, <1>9, CheckPlanSteps
<1>10. ASSUME BeginPass PROVE verdict' = verdict \/ verdict'.error # "ok"
    BY <1>1, <1>10, BeginPassSteps
<1>11. ASSUME Collect PROVE verdict' = verdict \/ verdict'.error # "ok"
    BY <1>1, <1>11, CollectSteps
<1>12. ASSUME EndOfCollection PROVE verdict' = verdict \/ verdict'.error # "ok"
    BY <1>1, <1>12, EndOfCollectionSteps
<1>13. ASSUME CountKey PROVE verdict' = verdict
    BY <1>13, CountKeySteps
<1>14. ASSUME EndPass PROVE verdict' = verdict
    BY <1>14, EndPassSteps
<1>15. ASSUME Disturb PROVE verdict' = verdict
    BY <1>15, DisturbSteps
<1>. QED
    BY <1>2, <1>3, <1>4, <1>5, <1>6, <1>7, <1>8, <1>9, <1>10, <1>11, <1>12, <1>13, <1>14,
       <1>15, WalkSteps DEF VerifyStep

\* The most copies a stored key has is the greatest of their numbers.
LEMMA MostIsMax ==
    ASSUME StoreType, NEW m, MostOf(StoredKeys, m)
    PROVE  m = Max({Cardinality(Copies(key)) : key \in StoredKeys} \cup {0})
<1>. DEFINE S == {Cardinality(Copies(key)) : key \in StoredKeys} \cup {0}
            n == Cardinality(DOMAIN gens)
<1>1. \A key \in StoredKeys : Cardinality(Copies(key)) \in 0 .. n
    <2>. SUFFICES ASSUME NEW key \in StoredKeys PROVE Cardinality(Copies(key)) \in 0 .. n
        OBVIOUS
    <2>1. /\ Copies(key) \subseteq DOMAIN gens /\ IsFiniteSet(DOMAIN gens)
          /\ n \in Nat /\ Cardinality(Copies(key)) \in Nat
        BY StoredFinite DEF StoreType
    <2>2. Cardinality(Copies(key)) <= n
        BY <2>1, FS_Subset
    <2>. QED
        BY <2>1, <2>2
<1>2. n \in Nat
    BY StoredFinite
<1>3. S \subseteq 0 .. n /\ S # {}
    <2>. HIDE DEF n
    <2>. QED
        BY <1>1, <1>2
<1>4. Max(S) \in S /\ \A x \in S : x <= Max(S)
    <2>. HIDE DEF S, n
    <2>. QED
        BY <1>2, <1>3, MaxOf
<1>5. m \in S /\ \A x \in S : x <= m
    <2>1. m \in Nat /\ m \in S
        BY <1>1, <1>2 DEF MostOf
    <2>2. \A key \in StoredKeys : Cardinality(Copies(key)) <= m
        BY DEF MostOf
    <2>. QED
        BY <2>1, <2>2
<1>6. m \in Nat /\ Max(S) \in Nat
    BY <1>2, <1>3, <1>4, <1>5
<1>7. m <= Max(S) /\ Max(S) <= m
    BY <1>4, <1>5
<1>. HIDE DEF S
<1>8. m = Max(S)
    BY <1>6, <1>7
<1>. QED
    BY <1>8 DEF S

\* A walk that concludes has counted every stored key.
LEMMA AllCounted ==
    ASSUME BudgetTyped, ScanInv, Conclude, disturbed = 0
    PROVE  /\ walk.pc = "pass" /\ Done = StoredKeys
           /\ walk.planned = Physical /\ walk.physical = walk.planned
<1>1. walk.pc = "pass" /\ walk.at > Len(walk.groups) /\ Walking
    BY DEF Conclude, Walking
<1>2. walk.at \in Nat /\ Len(walk.groups) \in Nat
    BY <1>1, FigureNumbers DEF BudgetTyped
<1>3. /\ walk.at \in 1 .. Len(walk.groups) + 1
      /\ Upto(walk.groups, Len(walk.groups)) = walk.planned
      /\ walk.physical = Upto(walk.groups, walk.at - 1)
    BY <1>1 DEF ScanInv, PlanInv, Passing
<1>4. walk.at - 1 = Len(walk.groups)
    BY <1>1, <1>2, <1>3
<1>5. \A key \in StoredKeys : Covered(walk.groups, PrefixOf[key])
    BY <1>1 DEF ScanInv, CoverInv, Passing
<1>6. Grouped(walk.groups, Len(walk.groups)) = StoredKeys
    BY <1>5 DEF Grouped, Covered, InGroup
<1>7. walk.planned = Physical
    BY <1>1 DEF ScanInv, VisitInv
<1>. QED
    BY <1>1, <1>3, <1>4, <1>6, <1>7 DEF Done

\* Every step of the system keeps the verdict exact: only a conclusion gives one.
LEMMA VerdictStep ==
    ASSUME BudgetTyped, ScanInv, VerdictExact, [Next]_vars
    PROVE  VerdictExact'
<1>. SUFFICES ASSUME verdict'.error = "ok", disturbed' = 0 PROVE VerdictExact'
    BY DEF VerdictExact
<1>. USE DEF BudgetTyped
<1>0. /\ gens' = gens /\ disturbed = 0 /\ latch' = latch /\ StoredKeys' = StoredKeys
      /\ Physical' = Physical /\ \A key : Copies(key)' = Copies(key)
    BY QuietSteps, SameStore
<1>1. CASE verdict' = verdict
    BY <1>0, <1>1 DEF VerdictExact
<1>2. CASE Conclude
    <2>1. verdict' = Report(walk)
        BY <1>2 DEF Conclude
    <2>2. /\ verdict'.unique <=> walk.extra = 0
          /\ verdict'.physical = walk.physical /\ verdict'.distinct = walk.distinct
          /\ verdict'.extra = walk.extra /\ verdict'.multiple = walk.multiple
          /\ verdict'.most = walk.most /\ verdict'.visits = walk.visits
          /\ verdict'.examined = walk.examined /\ verdict'.passes = walk.passes
        BY <2>1 DEF Report
    <2>3. /\ walk.pc = "pass" /\ Done = StoredKeys /\ walk.physical = Physical
        BY <1>0, <1>2, AllCounted
    <2>4. Walking
        BY <2>3 DEF Walking
    <2>5. /\ walk.extra + walk.distinct = walk.physical
          /\ walk.multiple <= walk.extra /\ (walk.multiple = 0 => walk.extra = 0)
          /\ walk.distinct = Cardinality(StoredKeys)
          /\ walk.multiple = Cardinality(Many(StoredKeys)) /\ MostOf(StoredKeys, walk.most)
        BY <1>0, <2>3, <2>4 DEF ScanInv, TallyInv, Passing, Tallied
    <2>6. /\ walk.extra \in Nat /\ walk.multiple \in Nat /\ walk.distinct \in Nat
          /\ walk.physical \in Nat
        BY <2>4, FigureNumbers
    <2>7. walk.extra = Physical - Cardinality(StoredKeys)
        BY <2>3, <2>5, <2>6
    <2>8. /\ latch = "none"
          /\ walk.visits = Cardinality(DOMAIN gens) * (1 + walk.passes)
          /\ walk.examined = Physical * (1 + walk.passes)
        BY <1>0, <2>3, <2>4 DEF ScanInv, VisitInv
    <2>9. walk.extra = 0 <=> \A key \in StoredKeys : Cardinality(Copies(key)) = 1
        <3>1. walk.extra = 0 <=> walk.multiple = 0
            BY <2>5, <2>6
        <3>2. IsFiniteSet(Many(StoredKeys))
            BY StoredFinite, FS_Subset DEF Many
        <3>3. walk.multiple = 0 <=> Many(StoredKeys) = {}
            BY <2>5, <3>2, FS_EmptySet
        <3>4. \A key \in StoredKeys :
                 Cardinality(Copies(key)) \in Nat /\ Cardinality(Copies(key)) > 0
            BY StoredFinite
        <3>5. \A key \in StoredKeys :
                 ~(Cardinality(Copies(key)) > 1) <=> Cardinality(Copies(key)) = 1
            BY <3>4
        <3>6. Many(StoredKeys) = {} <=> \A key \in StoredKeys : ~(Cardinality(Copies(key)) > 1)
            BY DEF Many
        <3>. QED
            BY <3>1, <3>3, <3>5, <3>6
    <2>10. walk.most = Max({Cardinality(Copies(key)) : key \in StoredKeys} \cup {0})
        BY <2>5, MostIsMax
    <2>11. /\ latch' = "none"
           /\ verdict'.unique <=> \A key \in StoredKeys' : Cardinality(Copies(key)') = 1
           /\ verdict'.physical = Physical'
           /\ verdict'.distinct = Cardinality(StoredKeys')
           /\ verdict'.extra = Physical' - Cardinality(StoredKeys')
        BY <1>0, <2>2, <2>3, <2>5, <2>7, <2>8, <2>9
    <2>12. {key \in StoredKeys' : Cardinality(Copies(key)') > 1} = Many(StoredKeys)
        BY <1>0 DEF Many
    <2>13. {Cardinality(Copies(key)') : key \in StoredKeys'} =
              {Cardinality(Copies(key)) : key \in StoredKeys}
        BY <1>0
    <2>14. /\ verdict'.multiple =
                Cardinality({key \in StoredKeys' : Cardinality(Copies(key)') > 1})
           /\ verdict'.most = Max({Cardinality(Copies(key)') : key \in StoredKeys'} \cup {0})
        BY <2>2, <2>5, <2>10, <2>12, <2>13
    <2>15. /\ verdict'.visits = Cardinality(DOMAIN gens') * (1 + verdict'.passes)
           /\ verdict'.examined = Physical' * (1 + verdict'.passes)
        BY <1>0, <2>2, <2>8
    <2>. QED
        BY <2>11, <2>14, <2>15 DEF VerdictExact
<1>. QED
    BY <1>1, <1>2, VerdictSteps DEF ScanInv

\* A report on a store nobody wrote to under the walk says exactly what is stored, for
\* every store, every assignment of prefixes and every budget.
THEOREM VerdictExactHolds == Spec => []VerdictExact
<1>1. Init => VerdictExact
    BY DEF Init, VerifyInit, NoVerdict, VerdictExact
<1>2. BudgetTyped /\ ScanInv /\ VerdictExact /\ [Next]_vars => VerdictExact'
    BY VerdictStep
<1>. QED
    BY <1>1, <1>2, ScanInvariant, PTL DEF Spec
-----------------------------------------------------------------------------
(* The exit status of the tool *)

\* What a step does to the exit status of the verifying tool: nothing, unless the tool
\* ends on its verdict or could not open the store.
LEMMA ExitSteps ==
    ASSUME [Next]_vars
    PROVE  \/ exit' = exit \/ exit'.tool # "verify" \/ exit'.status = 1
           \/ \E written \in BOOLEAN : VerifyToolEnds(written)
<1>1. CASE UNCHANGED vars
    BY <1>1 DEF vars
<1>2. ASSUME NEW o, AskVerify(o) \/ AskCount(o) PROVE exit'.tool # "verify"
    BY <1>2 DEF AskVerify, AskCount, NoExit
<1>3. ASSUME Scan \/ Disturb PROVE exit' = exit
    BY <1>3 DEF Scan, Disturb
<1>4. ASSUME NEW written, CensusToolEnds(written) PROVE exit'.tool # "verify"
    BY <1>4 DEF CensusToolEnds
<1>5. ASSUME VerifyCannotOpen PROVE exit'.status = 1
    BY <1>5 DEF VerifyCannotOpen, ToolStops
<1>6. ASSUME CensusCannotOpen PROVE exit'.tool # "verify"
    BY <1>6 DEF CensusCannotOpen, ToolStops
<1>. QED
    BY <1>1, <1>2, <1>3, <1>4, <1>5, <1>6 DEF Next

\* The status keeps meaning what it says.
LEMMA StatusStep ==
    ASSUME StoreType, VerdictExact, StatusIsTheVerdict, [Next]_vars
    PROVE  StatusIsTheVerdict'
<1>. SUFFICES ASSUME exit'.tool = "verify", disturbed' = 0 PROVE StatusIsTheVerdict'
    BY DEF StatusIsTheVerdict
<1>0. /\ gens' = gens /\ disturbed = 0 /\ StoredKeys' = StoredKeys
      /\ \A key : Copies(key)' = Copies(key)
    BY QuietSteps, SameStore
<1>1. CASE exit' = exit
    BY <1>0, <1>1 DEF StatusIsTheVerdict
<1>2. CASE exit'.status = 1
    BY <1>2 DEF StatusIsTheVerdict
<1>3. ASSUME NEW written \in BOOLEAN, VerifyToolEnds(written) PROVE StatusIsTheVerdict'
    <2>1. exit'.status = VerifyStatus(written) /\ exit'.whole = written
        BY <1>3 DEF VerifyToolEnds
    <2>2. CASE verdict.error # "ok" \/ ~written
        <3>1. exit'.status = 1
            BY <2>1, <2>2 DEF VerifyStatus
        <3>. QED
            BY <3>1 DEF StatusIsTheVerdict
    <2>3. CASE verdict.error = "ok" /\ written
        <3>1. exit'.whole /\ exit'.status = IF verdict.unique THEN 0 ELSE 2
            BY <2>1, <2>3 DEF VerifyStatus
        <3>2. verdict.unique <=> \A key \in StoredKeys : Cardinality(Copies(key)) = 1
            BY <1>0, <2>3 DEF VerdictExact
        <3>3. \A key \in StoredKeys :
                 Cardinality(Copies(key)) \in Nat /\ Cardinality(Copies(key)) > 0
            BY StoredFinite
        <3>4. \A key \in StoredKeys :
                 Cardinality(Copies(key)) # 1 => Cardinality(Copies(key)) > 1
            BY <3>3
        <3>5. exit'.status = 0 => verdict.unique
            BY <3>1
        <3>6. exit'.status = 2 => ~verdict.unique
            BY <3>1
        <3>7. exit'.status = 2 => \E key \in StoredKeys : Cardinality(Copies(key)) > 1
            BY <3>2, <3>4, <3>6
        <3>. QED
            BY <1>0, <3>1, <3>2, <3>5, <3>7 DEF StatusIsTheVerdict
    <2>. QED
        BY <2>2, <2>3
<1>. QED
    BY <1>1, <1>2, <1>3, ExitSteps

\* The status the verifying tool exits with is the verdict of the definition: zero for a
\* store without a second copy and a report that came out whole, two for one with.
THEOREM StatusIsTheVerdictHolds == Spec => []StatusIsTheVerdict
<1>1. Init => StatusIsTheVerdict
    BY DEF Init, NoExit, StatusIsTheVerdict
<1>2. BudgetTyped /\ VerdictExact /\ StatusIsTheVerdict /\ [Next]_vars => StatusIsTheVerdict'
    BY StatusStep DEF BudgetTyped
<1>. QED
    BY <1>1, <1>2, BudgetInvariant, VerdictExactHolds, PTL DEF Spec
-----------------------------------------------------------------------------
(* A run of equal keys in order *)

\* The versions of a set, one after the other.
Sorted(T, f) ==
    /\ f \in [1 .. Cardinality(T) -> T]
    /\ \A i, j \in 1 .. Cardinality(T) : i < j => Before(f[i], f[j])

\* A finite set of versions can be listed in their order.
LEMMA SortedExists ==
    ASSUME NEW N \in SUBSET Version, IsFiniteSet(N)
    PROVE  \E f : Sorted(N, f)
<1>. DEFINE Good == {T \in SUBSET N : \E f : Sorted(T, f)}
<1>1. ASSUME NEW T \in SUBSET N, \A x \in T : T \ {x} \in Good
      PROVE  T \in Good
    <2>1. CASE T = {}
        <3>1. Cardinality(T) = 0
            BY <2>1, FS_EmptySet
        <3>2. 1 .. Cardinality(T) = {}
            BY <3>1
        <3>3. Sorted(T, [i \in 1 .. Cardinality(T) |-> 0])
            BY <3>2 DEF Sorted
        <3>. QED
            BY <3>3
    <2>2. CASE T # {}
        <3>. DEFINE a == First(T)
                    R == T \ {a}
        <3>1. a \in T /\ \A b \in R : Before(a, b)
            BY <2>2, FirstIn
        <3>2. IsFiniteSet(T) /\ IsFiniteSet(R)
            BY FS_Subset
        <3>3. PICK g : Sorted(R, g)
            BY <1>1, <3>1
        <3>4. Cardinality(T) = Cardinality(R) + 1 /\ Cardinality(R) \in Nat
            <4>1. T = R \cup {a} /\ a \notin R
                BY <3>1
            <4>. HIDE DEF R, a
            <4>. QED
                BY <3>2, <4>1, FS_AddElement, FS_CardinalityType
        <3>. HIDE DEF a, R
        <3>. DEFINE n == Cardinality(R)
                    f == [i \in 1 .. n + 1 |-> IF i = 1 THEN a ELSE g[i - 1]]
        <3>5. \A i \in 1 .. n : g[i] \in R
            BY <3>3 DEF Sorted
        <3>6. \A i \in 1 .. n + 1 : i = 1 \/ i - 1 \in 1 .. n
            BY <3>4
        <3>7. R \subseteq T
            BY DEF R
        <3>8. f \in [1 .. n + 1 -> T]
            BY <3>1, <3>5, <3>6, <3>7
        <3>9. ASSUME NEW i \in 1 .. n + 1, NEW j \in 1 .. n + 1, i < j PROVE Before(f[i], f[j])
            <4>1. j # 1 /\ j - 1 \in 1 .. n /\ f[j] = g[j - 1]
                BY <3>4, <3>9
            <4>2. CASE i = 1
                <5>1. f[i] = a
                    BY <4>2
                <5>. QED
                    BY <3>1, <3>5, <4>1, <5>1
            <4>3. CASE i # 1
                <5>1. i - 1 \in 1 .. n /\ f[i] = g[i - 1] /\ i - 1 < j - 1
                    BY <3>4, <3>9, <4>3
                <5>. QED
                    BY <3>3, <4>1, <5>1 DEF Sorted
            <4>. QED
                BY <4>2, <4>3
        <3>. HIDE DEF f
        <3>10. Sorted(T, f)
            BY <3>4, <3>8, <3>9 DEF Sorted
        <3>. QED
            BY <3>10
    <2>. QED
        BY <2>1, <2>2
<1>. HIDE DEF Good
<1>2. N \in Good
    BY <1>1, FiniteInduction
<1>. QED
    BY <1>2 DEF Good

\* The records of a key, in the order of the walk: every copy of it, no place twice.
RunOf(key, N) == {Rec(n, key) : n \in N}
Listed(run, c) ==
    /\ InOrder(run) \in Seq(run) /\ Len(InOrder(run)) = c
    /\ \A i, j \in 1 .. c : i # j => InOrder(run)[i].at # InOrder(run)[j].at

\* A run can be put in order, and InOrder does.
LEMMA RunInOrder ==
    ASSUME NEW key, NEW N \in SUBSET Version, IsFiniteSet(N),
           Cardinality(RunOf(key, N)) = Cardinality(N)
    PROVE  Listed(RunOf(key, N), Cardinality(N))
<1>. DEFINE run == RunOf(key, N)
<1>. DEFINE n == Cardinality(N)
<1>0. n \in Nat
    BY FS_CardinalityType
<1>1. PICK f : Sorted(N, f)
    BY SortedExists
<1>2. \A m : Rec(m, key).at = m
    BY DEF Rec
<1>. DEFINE g == [i \in 1 .. n |-> Rec(f[i], key)]
            InRun(s) == \A i, j \in 1 .. Len(s) : i < j => Before(s[i].at, s[j].at)
<1>3. \A a \in N : a[1] \in Nat /\ a[2] \in Nat
    BY EntriesAssumption DEF Version
<1>4. \A a, b \in N : Before(a, b) => a # b
    BY <1>3 DEF Before
<1>5. /\ \A i \in 1 .. n : f[i] \in N
      /\ \A i, j \in 1 .. n : i < j => Before(f[i], f[j])
    BY <1>1 DEF Sorted
<1>. HIDE DEF n
<1>6. \A i \in 1 .. n : g[i] \in run /\ g[i].at = f[i]
    BY <1>2, <1>5 DEF RunOf
<1>7. g \in [1 .. n -> run] /\ Len(g) = n
    BY <1>0, <1>6
<1>. HIDE DEF g
<1>8. \A i, j \in 1 .. n : i # j => g[i] # g[j]
    <2>. SUFFICES ASSUME NEW i \in 1 .. n, NEW j \in 1 .. n, i # j PROVE g[i].at # g[j].at
        OBVIOUS
    <2>1. i < j \/ j < i
        BY <1>0
    <2>. QED
        BY <1>4, <1>5, <1>6, <2>1
<1>9. g \in SetToSeqs(run)
    BY <1>7, <1>8 DEF SetToSeqs, n
<1>10. InRun(g)
    BY <1>5, <1>6, <1>7
<1>. DEFINE s == InOrder(run)
<1>11. s \in SetToSeqs(run) /\ InRun(s)
    <2>. HIDE DEF n
    <2>. QED
        BY <1>9, <1>10 DEF InOrder
<1>. HIDE DEF s
<1>12. s \in [1 .. n -> run]
    BY <1>11 DEF SetToSeqs, n
<1>13. s \in Seq(run) /\ Len(s) = n
    BY <1>0, <1>12
<1>14. \A i \in 1 .. n : s[i] \in run /\ s[i].at \in N
    BY <1>2, <1>12 DEF RunOf
<1>15. \A i, j \in 1 .. n : i # j => s[i].at # s[j].at
    <2>. SUFFICES ASSUME NEW i \in 1 .. n, NEW j \in 1 .. n, i # j PROVE s[i].at # s[j].at
        OBVIOUS
    <2>1. i < j \/ j < i
        BY <1>0
    <2>. QED
        BY <1>4, <1>11, <1>13, <1>14, <2>1
<1>. QED
    BY <1>13, <1>15 DEF s, n, Listed
-----------------------------------------------------------------------------
(* The sample *)

\* A finding as it is kept: what it says of its key is so, and its share of the flat
\* list is places where the key is, none of them twice.
FindingType == [key : Key, multiplicity : Nat, omitted : Nat, first : Nat, count : Nat]
Located(f, places) ==
    /\ f.multiplicity = Cardinality(Copies(f.key)) /\ f.count + f.omitted = f.multiplicity
    /\ f.first + f.count <= Len(places)
    /\ \A j \in 1 .. f.count : places[f.first + j].at \in Copies(f.key)
    /\ \A j, k \in 1 .. f.count : j # k => places[f.first + j].at # places[f.first + k].at

\* The invariant of the sample, on a store nobody has disturbed.
SampleInv ==
    Walking /\ disturbed = 0 =>
        /\ walk.sample \in Seq(FindingType) /\ walk.places \in Seq(Copy)
        /\ Len(walk.sample) <= walk.multiple
        /\ walk.pc \notin Passing => walk.sample = <<>> /\ walk.places = <<>>
        /\ \A i \in 1 .. Len(walk.sample) :
              Located(walk.sample[i], walk.places) /\ walk.sample[i].key \in Done
        /\ \A i, j \in 1 .. Len(walk.sample) : i # j => walk.sample[i].key # walk.sample[j].key

\* What is located stays so in a list that has grown.
LEMMA LocatedInMore ==
    ASSUME NEW f \in FindingType, NEW p \in Seq(Copy), NEW q \in Seq(Copy), Located(f, p)
    PROVE  Located(f, p \o q)
<1>1. /\ Len(p \o q) = Len(p) + Len(q) /\ Len(p) \in Nat /\ Len(q) \in Nat
      /\ \A i \in 1 .. Len(p) + Len(q) : (p \o q)[i] = IF i <= Len(p) THEN p[i] ELSE q[i - Len(p)]
    BY ConcatProperties, LenProperties
<1>2. f.first \in Nat /\ f.count \in Nat /\ f.first + f.count <= Len(p)
    BY DEF FindingType, Located
<1>3. \A j \in 1 .. f.count : (p \o q)[f.first + j] = p[f.first + j]
    BY <1>1, <1>2
<1>4. f.first + f.count <= Len(p \o q)
    BY <1>1, <1>2
<1>. QED
    BY <1>3, <1>4 DEF Located

\* A finding just made is located by the run it was made of.
LEMMA NewFinding ==
    ASSUME StoreType, WalkType, Walking, walk.places \in Seq(Copy),
           NEW key \in StoredKeys, NEW run, run = {Rec(n, key) : n \in Copies(key)},
           Cardinality(run) = Cardinality(Copies(key)), run \subseteq Copy
    PROVE  LET m == Cardinality(run)
               more == SubSeq(InOrder(run), 1, KeptOf(m))
           IN /\ EntryOf(key, m) \in FindingType /\ EntryOf(key, m).key = key
              /\ more \in Seq(Copy) /\ Located(EntryOf(key, m), walk.places \o more)
<1>. DEFINE m == Cardinality(run)
            kept == KeptOf(m)
            s == InOrder(run)
            more == SubSeq(s, 1, kept)
            p == walk.places
            f == EntryOf(key, m)
            N == Copies(key)
<1>1. /\ N \subseteq DOMAIN gens /\ IsFiniteSet(N) /\ m \in Nat /\ key \in Key
      /\ DOMAIN gens \subseteq Version
    BY StoredFinite DEF StoreType
<1>2. /\ s \in Seq(run) /\ Len(s) = m
      /\ \A i, j \in 1 .. m : i # j => s[i].at # s[j].at
    <2>1. Copies(key) \in SUBSET Version /\ IsFiniteSet(Copies(key))
        BY <1>1
    <2>2. run = RunOf(key, Copies(key))
        BY DEF RunOf
    <2>3. Listed(run, m)
        BY <2>1, <2>2, RunInOrder
    <2>. QED
        BY <2>3 DEF Listed
<1>3. kept \in Nat /\ kept <= m
    <2>1. walk.opts.locations \in Nat
        BY FigureNumbers, OptionNumbers
    <2>. QED
        BY <1>1, <2>1, MinOfTwo DEF KeptOf
<1>4. \A r \in run : r.at \in N
    BY DEF Rec
<1>5. p \in Seq(Copy) /\ Len(p) \in Nat
    BY LenProperties
<1>. HIDE DEF s, kept, m
<1>6. \A i \in 1 .. m : s[i] \in run
    BY <1>2, ElementOfSeq
<1>7. /\ more \in Seq(Copy) /\ Len(more) = kept
      /\ \A i \in 1 .. kept : more[i] = s[i]
    <2>1. \A i \in 1 .. kept : s[i] \in Copy
        BY <1>1, <1>3, <1>6
    <2>2. /\ SubSeq(s, 1, kept) \in Seq(Copy)
          /\ Len(SubSeq(s, 1, kept)) = IF 1 <= kept THEN kept - 1 + 1 ELSE 0
          /\ \A i \in 1 .. kept - 1 + 1 : SubSeq(s, 1, kept)[i] = s[1 + i - 1]
        BY <1>3, <2>1, SubSeqProperties
    <2>3. kept - 1 + 1 = kept /\ \A i \in 1 .. kept : 1 + i - 1 = i
        BY <1>3
    <2>4. Len(more) = kept
        BY <1>3, <2>2, <2>3
    <2>. QED
        BY <2>2, <2>3, <2>4
<1>. HIDE DEF more, p
<1>8. /\ f.key = key /\ f.multiplicity = m /\ f.omitted = m - kept /\ f.first = Len(p)
      /\ f.count = kept /\ f \in FindingType
    <2>1. m - kept \in Nat
        BY <1>1, <1>3
    <2>2. f = [key |-> key, multiplicity |-> m, omitted |-> m - kept, first |-> Len(p),
               count |-> kept]
        BY DEF EntryOf, kept, p
    <2>. QED
        BY <1>1, <1>3, <1>5, <2>1, <2>2 DEF FindingType
<1>. HIDE DEF f
<1>9. /\ Len(p \o more) = Len(p) + kept
      /\ \A i \in 1 .. Len(p) + kept :
            (p \o more)[i] = IF i <= Len(p) THEN p[i] ELSE more[i - Len(p)]
    BY <1>5, <1>7, ConcatProperties
<1>10. \A j \in 1 .. kept : (p \o more)[Len(p) + j] = s[j]
    <2>. SUFFICES ASSUME NEW j \in 1 .. kept PROVE (p \o more)[Len(p) + j] = s[j]
        OBVIOUS
    <2>1. /\ Len(p) + j \in 1 .. Len(p) + kept /\ ~(Len(p) + j <= Len(p))
          /\ Len(p) + j - Len(p) = j
        BY <1>3, <1>5
    <2>2. (p \o more)[Len(p) + j] = more[j]
        BY <1>9, <2>1
    <2>. QED
        BY <1>7, <2>2
<1>11. \A j \in 1 .. kept : j \in 1 .. m
    BY <1>1, <1>3
<1>12. \A j \in 1 .. kept : (p \o more)[Len(p) + j].at \in N
    BY <1>4, <1>6, <1>10, <1>11
<1>13. \A j, k \in 1 .. kept :
          j # k => (p \o more)[Len(p) + j].at # (p \o more)[Len(p) + k].at
    <2>. SUFFICES ASSUME NEW j \in 1 .. kept, NEW k \in 1 .. kept, j # k
                  PROVE  (p \o more)[Len(p) + j].at # (p \o more)[Len(p) + k].at
        OBVIOUS
    <2>1. s[j].at # s[k].at
        BY <1>2, <1>11
    <2>. QED
        BY <1>10, <2>1
<1>14. kept + (m - kept) = m
    BY <1>1, <1>3
<1>15. m = Cardinality(Copies(key))
    BY DEF m
<1>16. Located(f, p \o more)
    BY <1>1, <1>3, <1>5, <1>8, <1>9, <1>12, <1>13, <1>14, <1>15 DEF Located
<1>. QED
    BY <1>7, <1>8, <1>16 DEF f, p, more, s, kept, m
-----------------------------------------------------------------------------
(* The sample after a key *)

\* What the sample says of the store as it is, put together from its parts.
LEMMA SampleAgain ==
    ASSUME gens' = gens, walk'.sample \in Seq(FindingType), walk'.places \in Seq(Copy),
           Len(walk'.sample) <= walk'.multiple,
           walk'.pc \notin Passing => walk'.sample = <<>> /\ walk'.places = <<>>,
           \A i \in 1 .. Len(walk'.sample) :
              Located(walk'.sample[i], walk'.places) /\ walk'.sample[i].key \in Done',
           \A i, j \in 1 .. Len(walk'.sample) :
              i # j => walk'.sample[i].key # walk'.sample[j].key
    PROVE  SampleInv'
<1>1. \A key : Copies(key)' = Copies(key)
    BY SameStore
<1>2. \A i \in 1 .. Len(walk'.sample) : Located(walk.sample[i], walk.places)'
    BY <1>1 DEF Located
<1>. QED
    BY <1>2 DEF SampleInv

\* The sample is as it was after a step that counts no key.
LEMMA SampleKept ==
    ASSUME SampleInv, Walking, disturbed = 0, gens' = gens, KeepsTally,
           \/ walk'.pc \notin Passing /\ walk.pc \notin Passing
           \/ walk.pc = "group" /\ walk'.pc = "pass"
           \/ walk'.pc \in Passing /\ walk.pc \in Passing /\ Done' = Done
    PROVE  SampleInv'
<1>1. /\ walk.sample \in Seq(FindingType) /\ walk.places \in Seq(Copy)
      /\ Len(walk.sample) <= walk.multiple
      /\ walk.pc \notin Passing => walk.sample = <<>> /\ walk.places = <<>>
      /\ \A i \in 1 .. Len(walk.sample) :
              Located(walk.sample[i], walk.places) /\ walk.sample[i].key \in Done
      /\ \A i, j \in 1 .. Len(walk.sample) : i # j => walk.sample[i].key # walk.sample[j].key
    BY DEF SampleInv
<1>2. walk'.sample = walk.sample /\ walk'.places = walk.places /\ walk'.multiple = walk.multiple
    BY DEF KeepsTally
<1>3. walk'.pc \notin Passing => walk'.sample = <<>> /\ walk'.places = <<>>
    BY <1>1, <1>2 DEF Passing
<1>4. \A i \in 1 .. Len(walk.sample) : walk.sample[i].key \in Done'
    <2>1. CASE Done' = Done
        BY <1>1, <2>1
    <2>2. CASE walk.pc \notin Passing
        BY <1>1, <2>2
    <2>. QED
        BY <2>1, <2>2 DEF Passing
<1>. QED
    BY <1>1, <1>2, <1>3, <1>4, SampleAgain

\* Every step of the system keeps the sample true of the store.
LEMMA SampleStep ==
    ASSUME StoreType, WalkType, PlanInv, CoverInv, RecordInv, SampleInv, [Next]_vars
    PROVE  SampleInv'
<1>. SUFFICES ASSUME Walking', disturbed' = 0 PROVE SampleInv'
    BY DEF SampleInv
<1>0. gens' = gens /\ disturbed = 0
    BY QuietSteps
<1>1. ASSUME NEW o \in VerifyOptions, walk' = NewWalk(o) PROVE SampleInv'
    <2>1. walk'.pc = "sample" /\ walk'.multiple = 0 /\ walk'.sample = <<>> /\ walk'.places = <<>>
        BY <1>1, NewWalkFields
    <2>2. /\ walk'.sample \in Seq(FindingType) /\ walk'.places \in Seq(Copy)
          /\ Len(walk'.sample) = 0
        BY <2>1, EmptySeq
    <2>. QED
        BY <1>0, <2>1, <2>2, SampleAgain
<1>2. ASSUME CountKey PROVE SampleInv'
    <2>. DEFINE key == LeastKey
                run == OfKey(key)
                m == Cardinality(run)
                f == EntryOf(key, m)
                more == SubSeq(InOrder(run), 1, KeptOf(m))
                s == walk.sample
                p == walk.places
                n == Len(s)
    <2>1. /\ key \in StoredKeys /\ key \notin Done /\ Done' = Done \cup {key}
          /\ m = Cardinality(Copies(key)) /\ run = {Rec(v, key) : v \in Copies(key)}
          /\ m \in Nat /\ Walking /\ walk.pc = "count" /\ walk'.pc = "count"
        BY <1>0, <1>2, KeyCounted
    <2>2. run \subseteq Copy
        <3>1. walk.records \subseteq Copy
            BY <2>1, FigureNumbers
        <3>. QED
            BY <3>1 DEF OfKey
    <2>3. /\ s \in Seq(FindingType) /\ p \in Seq(Copy) /\ n <= walk.multiple
          /\ \A i \in 1 .. n : Located(s[i], p) /\ s[i].key \in Done
          /\ \A i, j \in 1 .. n : i # j => s[i].key # s[j].key
        BY <1>0, <2>1 DEF SampleInv
    <2>4. n \in Nat /\ \A i \in 1 .. n : s[i] \in FindingType
        BY <2>3, LenProperties, ElementOfSeq
    <2>5. f \in FindingType /\ f.key = key /\ more \in Seq(Copy) /\ Located(f, p \o more)
        BY <2>1, <2>2, <2>3, NewFinding
    <2>6. /\ walk'.multiple = IF m > 1 THEN walk.multiple + 1 ELSE walk.multiple
          /\ \/ m > 1 /\ walk'.sample = Append(s, f) /\ walk'.places = p \o more
             \/ walk'.sample = s /\ walk'.places = p
        BY <1>2, CountKeySteps
    <2>7. walk.multiple \in Nat
        BY <2>1, FigureNumbers
    <2>8. walk'.pc \in Passing
        BY <2>1 DEF Passing
    <2>. HIDE DEF key, m, f, more, s, p, n, run
    <2>9. CASE walk'.sample = s /\ walk'.places = p
        <3>1. Len(walk'.sample) <= walk'.multiple
            BY <2>3, <2>4, <2>6, <2>7, <2>9 DEF n
        <3>2. /\ \A i \in 1 .. Len(walk'.sample) :
                    Located(walk'.sample[i], walk'.places) /\ walk'.sample[i].key \in Done'
              /\ \A i, j \in 1 .. Len(walk'.sample) :
                    i # j => walk'.sample[i].key # walk'.sample[j].key
            BY <2>1, <2>3, <2>9 DEF n
        <3>. QED
            BY <1>0, <2>3, <2>8, <2>9, <3>1, <3>2, SampleAgain
    <2>10. CASE m > 1 /\ walk'.sample = Append(s, f) /\ walk'.places = p \o more
        <3>1. /\ walk'.sample \in Seq(FindingType) /\ Len(walk'.sample) = n + 1
              /\ \A i \in 1 .. n : walk'.sample[i] = s[i]
              /\ walk'.sample[n + 1] = f
            BY <2>3, <2>5, <2>10, AppendProperties DEF n
        <3>2. walk'.places \in Seq(Copy)
            BY <2>3, <2>5, <2>10, ConcatProperties
        <3>3. Len(walk'.sample) <= walk'.multiple
            BY <2>3, <2>4, <2>6, <2>7, <2>10, <3>1
        <3>4. \A i \in 1 .. n + 1 : i \in 1 .. n \/ i = n + 1
            BY <2>4
        <3>5. \A i \in 1 .. n : Located(s[i], p \o more)
            BY <2>3, <2>4, <2>5, LocatedInMore
        <3>6. \A i \in 1 .. Len(walk'.sample) :
                 Located(walk'.sample[i], walk'.places) /\ walk'.sample[i].key \in Done'
            BY <2>1, <2>3, <2>5, <2>10, <3>1, <3>4, <3>5
        <3>7. \A i, j \in 1 .. Len(walk'.sample) :
                 i # j => walk'.sample[i].key # walk'.sample[j].key
            BY <2>1, <2>3, <2>5, <3>1, <3>4
        <3>. QED
            BY <1>0, <2>8, <3>1, <3>2, <3>3, <3>6, <3>7, SampleAgain
    <2>. QED
        BY <2>6, <2>9, <2>10
<1>. QED
    BY <1>0, <1>1, <1>2, DoneSteps, SampleKept

\* A located finding is reported as one of the store.
LEMMA FindingReported ==
    ASSUME StoreType, NEW f \in FindingType, f.key \in StoredKeys, walk.places \in Seq(Copy),
           Located(f, walk.places)
    PROVE  FindingTrue(Finding(walk, f)) /\ Finding(walk, f).outpoint \subseteq {f.key}
<1>. DEFINE r == Finding(walk, f)
            p == walk.places
            N == Copies(f.key)
            L == [i \in 1 .. f.count |->
                      [at |-> p[f.first + i].at, active |-> p[f.first + i].active]]
            A == {L[i].at : i \in 1 .. Len(L)}
<1>1. /\ r.multiplicity = f.multiplicity /\ r.omitted = f.omitted /\ r.locations = L
      /\ r.outpoint = IF walk.opts.outpoints THEN {f.key} ELSE {}
    BY DEF Finding
<1>. HIDE DEF r
<1>2. r.outpoint \subseteq {f.key}
    BY <1>1
<1>3. /\ f.count \in Nat /\ f.multiplicity = Cardinality(N)
      /\ f.multiplicity = f.count + f.omitted
      /\ \A j \in 1 .. f.count : p[f.first + j].at \in N
      /\ \A j, k \in 1 .. f.count : j # k => p[f.first + j].at # p[f.first + k].at
    BY DEF FindingType, Located
<1>4. Len(L) = f.count /\ \A i \in 1 .. f.count : L[i].at = p[f.first + i].at
    BY <1>3
<1>. HIDE DEF L
<1>5. A \subseteq N
    BY <1>3, <1>4
<1>6. Cardinality(A) = Len(L)
    <2>. DEFINE g == [i \in 1 .. f.count |-> L[i].at]
    <2>1. g \in [1 .. f.count -> A]
        BY <1>4
    <2>2. \A i, j \in 1 .. f.count : g[i] = g[j] => i = j
        BY <1>3, <1>4
    <2>3. \A a \in A : \E i \in 1 .. f.count : g[i] = a
        BY <1>4
    <2>. HIDE DEF g, A
    <2>4. g \in Bijection(1 .. f.count, A)
        BY <2>1, <2>2, <2>3 DEF Bijection, Injection, Surjection, IsInjective
    <2>5. ExistsBijection(1 .. f.count, A)
        BY <2>4 DEF ExistsBijection
    <2>6. IsFiniteSet(1 .. f.count) /\ Cardinality(1 .. f.count) = f.count
        BY <1>3, FS_Interval
    <2>. QED
        BY <1>4, <2>5, <2>6, FS_Bijection
<1>7. FindingTrue(r)
    <2>1. /\ r.multiplicity = Cardinality(N) /\ r.multiplicity = Len(r.locations) + r.omitted
          /\ {r.locations[i].at : i \in 1 .. Len(r.locations)} = A
        BY <1>1, <1>3, <1>4
    <2>. HIDE DEF A
    <2>2. /\ {r.locations[i].at : i \in 1 .. Len(r.locations)} \subseteq N
          /\ Cardinality({r.locations[i].at : i \in 1 .. Len(r.locations)}) = Len(r.locations)
        BY <1>1, <1>5, <1>6, <2>1
    <2>. QED
        BY <1>2, <2>1, <2>2 DEF FindingTrue
<1>. QED
    BY <1>2, <1>7 DEF r
-----------------------------------------------------------------------------
(* The findings *)

\* Every reachable sample is true of the store it was taken of.
THEOREM SampleInvariant == Spec => []SampleInv
<1>1. Init => SampleInv
    BY DEF Init, VerifyInit, Walking, IdleWalk, SampleInv
<1>2. BudgetTyped /\ ScanInv /\ SampleInv /\ [Next]_vars => SampleInv'
    BY SampleStep DEF BudgetTyped, ScanInv
<1>. QED
    BY <1>1, <1>2, ScanInvariant, PTL DEF Spec

\* A walk that concludes reports its sample, finding by finding.
LEMMA ReportTrue ==
    ASSUME BudgetTyped, ScanInv, SampleInv, Conclude, disturbed = 0
    PROVE  LET r == Report(walk)
           IN /\ \A i \in 1 .. Len(r.findings) : FindingTrue(r.findings[i])
              /\ \A i, j \in 1 .. Len(r.findings) :
                    i # j => r.findings[i].outpoint \cap r.findings[j].outpoint = {}
              /\ Len(r.findings) + r.omitted = r.multiple
              /\ r.unique => r.findings = <<>>
<1>. DEFINE r == Report(walk)
            n == Len(walk.sample)
            s == walk.sample
<1>1. Walking
    BY DEF Conclude, Walking
<1>2. /\ s \in Seq(FindingType) /\ walk.places \in Seq(Copy) /\ n <= walk.multiple
      /\ \A i \in 1 .. n : Located(s[i], walk.places) /\ s[i].key \in Done
      /\ \A i, j \in 1 .. n : i # j => s[i].key # s[j].key
    BY <1>1 DEF SampleInv
<1>3. n \in Nat /\ \A i \in 1 .. n : s[i] \in FindingType
    BY <1>2, LenProperties, ElementOfSeq
<1>4. Done = StoredKeys
    BY AllCounted
<1>5. /\ walk.multiple \in Nat /\ walk.extra \in Nat /\ walk.multiple <= walk.extra
    <2>1. walk.multiple \in Nat /\ walk.extra \in Nat
        BY <1>1, FigureNumbers DEF BudgetTyped
    <2>2. walk.multiple <= walk.extra
        BY <1>1 DEF ScanInv, TallyInv
    <2>. QED
        BY <2>1, <2>2
<1>6. /\ r.findings = [i \in 1 .. n |-> Finding(walk, s[i])] /\ r.omitted = walk.multiple - n
      /\ r.multiple = walk.multiple /\ r.unique = (walk.extra = 0)
    BY DEF Report
<1>. HIDE DEF r, n, s
<1>7. Len(r.findings) = n /\ \A i \in 1 .. n : r.findings[i] = Finding(walk, s[i])
    BY <1>3, <1>6
<1>8. \A i \in 1 .. n :
         FindingTrue(r.findings[i]) /\ r.findings[i].outpoint \subseteq {s[i].key}
    BY <1>2, <1>3, <1>4, <1>7, FindingReported DEF BudgetTyped
<1>9. \A i, j \in 1 .. n : i # j => r.findings[i].outpoint \cap r.findings[j].outpoint = {}
    <2>. SUFFICES ASSUME NEW i \in 1 .. n, NEW j \in 1 .. n, i # j
                  PROVE  r.findings[i].outpoint \cap r.findings[j].outpoint = {}
        OBVIOUS
    <2>1. s[i].key # s[j].key
        BY <1>2
    <2>. QED
        BY <1>8, <2>1
<1>10. n + (walk.multiple - n) = walk.multiple
    BY <1>3, <1>5
<1>11. r.unique => r.findings = <<>>
    <2>. SUFFICES ASSUME walk.extra = 0 PROVE r.findings = <<>>
        BY <1>6
    <2>1. n = 0
        BY <1>2, <1>3, <1>5
    <2>2. 1 .. n = {}
        BY <2>1
    <2>. QED
        BY <1>6, <2>2
<1>12. Len(r.findings) + r.omitted = r.multiple
    BY <1>6, <1>7, <1>10
<1>. QED
    BY <1>7, <1>8, <1>9, <1>11, <1>12 DEF r

\* What was reported of a store stays true of it.
LEMMA FindingsStep ==
    ASSUME BudgetTyped, ScanInv, SampleInv, FindingsTrue, [Next]_vars
    PROVE  FindingsTrue'
<1>. SUFFICES ASSUME verdict'.error = "ok", disturbed' = 0 PROVE FindingsTrue'
    BY DEF FindingsTrue
<1>0. /\ gens' = gens /\ disturbed = 0 /\ StoredKeys' = StoredKeys
      /\ \A key : Copies(key)' = Copies(key)
    BY QuietSteps, SameStore DEF BudgetTyped
<1>1. \A f : FindingTrue(f)' <=> FindingTrue(f)
    BY <1>0 DEF FindingTrue
<1>2. CASE verdict' = verdict
    BY <1>0, <1>1, <1>2 DEF FindingsTrue
<1>3. CASE Conclude
    <2>1. verdict' = Report(walk)
        BY <1>3 DEF Conclude
    <2>. DEFINE r == Report(walk)
    <2>2. /\ \A i \in 1 .. Len(r.findings) : FindingTrue(r.findings[i])
          /\ \A i, j \in 1 .. Len(r.findings) :
                i # j => r.findings[i].outpoint \cap r.findings[j].outpoint = {}
          /\ Len(r.findings) + r.omitted = r.multiple
          /\ r.unique => r.findings = <<>>
        BY <1>0, <1>3, ReportTrue
    <2>. HIDE DEF r
    <2>3. verdict' = r
        BY <2>1 DEF r
    <2>4. \A i \in 1 .. Len(verdict'.findings) : FindingTrue(verdict.findings[i])'
        <3>1. \A i \in 1 .. Len(verdict'.findings) : FindingTrue(verdict'.findings[i])
            BY <2>2, <2>3
        <3>. QED
            BY <1>0, <3>1 DEF FindingTrue
    <2>5. /\ \A i, j \in 1 .. Len(verdict'.findings) :
                i # j => verdict'.findings[i].outpoint \cap verdict'.findings[j].outpoint = {}
          /\ Len(verdict'.findings) + verdict'.omitted = verdict'.multiple
          /\ verdict'.unique => verdict'.findings = <<>>
        BY <2>2, <2>3
    <2>. QED
        BY <2>4, <2>5 DEF FindingsTrue
<1>. QED
    BY <1>2, <1>3, VerdictSteps DEF BudgetTyped, ScanInv

\* Every finding of a report is a duplicated key with the copies it says, where it says
\* they are, however the flat sample was cut: for every store and every cap.
THEOREM FindingsTrueHolds == Spec => []FindingsTrue
<1>1. Init => FindingsTrue
    BY DEF Init, VerifyInit, NoVerdict, FindingsTrue
<1>2. BudgetTyped /\ ScanInv /\ SampleInv /\ FindingsTrue /\ [Next]_vars => FindingsTrue'
    BY FindingsStep
<1>. QED
    BY <1>1, <1>2, ScanInvariant, SampleInvariant, PTL DEF Spec
-----------------------------------------------------------------------------
(* The counters, prefix by prefix *)

\* The entries stored under a range of prefixes, of all versions and of one prefix of some.
InRange(a, b) == {e \in StoredCopies : a <= PrefixOf[e[2]] /\ PrefixOf[e[2]] <= b}
Between(a, b) == Cardinality(InRange(a, b))
Under(V, p) == {e \in OfVersions(V) : PrefixOf[e[2]] = p}

\* The invariant of the counters, on a store nobody has disturbed: a counter has the
\* entries of its prefix in the versions the walk has been to.
ExactInv ==
    Walking /\ disturbed = 0 =>
        /\ walk.pc \in {"sample", "start"} =>
              \A p \in 0 .. PlanningPrefixes - 1 : walk.counts[p] = 0
        /\ walk.pc = "plan" =>
              \A p \in 0 .. PlanningPrefixes - 1 : walk.counts[p] = Cardinality(Under(Visited, p))
        /\ walk.pc = "group" =>
              \A p \in 0 .. PlanningPrefixes - 1 : walk.counts[p] = Between(p, p)

\* The entries under a range of prefixes are finitely many, and their prefixes numbers.
LEMMA RangeFinite ==
    ASSUME StoreType
    PROVE  /\ \A e \in StoredCopies : PrefixOf[e[2]] \in 0 .. PlanningPrefixes - 1
           /\ \A a, b : IsFiniteSet(InRange(a, b)) /\ Between(a, b) \in Nat
<1>1. \A e \in StoredCopies : e[2] \in Key
    BY StoredFinite
<1>2. \A e \in StoredCopies : PrefixOf[e[2]] \in 0 .. PlanningPrefixes - 1
    BY <1>1, UniquenessAssumption
<1>3. \A a, b : InRange(a, b) \subseteq StoredCopies
    BY DEF InRange
<1>4. \A a, b : IsFiniteSet(InRange(a, b)) /\ Between(a, b) \in Nat
    BY <1>3, StoredFinite, FS_Subset, FS_CardinalityType DEF Between
<1>. QED
    BY <1>2, <1>4

\* A range and the prefix after it, and one further on.
LEMMA RangeJoin ==
    ASSUME StoreType, NEW a \in Nat, NEW b \in Nat, NEW c \in Nat, NEW d \in Nat,
           a <= b, b < c, c <= d
    PROVE  /\ Between(a, b) + Between(c, d) <= Between(a, d)
           /\ c = b + 1 => Between(a, b) + Between(c, d) = Between(a, d)
<1>. DEFINE S == InRange(a, b)
            T == InRange(c, d)
            U == InRange(a, d)
<1>1. /\ \A e \in StoredCopies : PrefixOf[e[2]] \in Nat
      /\ IsFiniteSet(S) /\ IsFiniteSet(T) /\ IsFiniteSet(U)
      /\ Cardinality(S) \in Nat /\ Cardinality(T) \in Nat /\ Cardinality(U) \in Nat
    BY RangeFinite DEF Between
<1>2. S \cap T = {}
    BY <1>1 DEF InRange
<1>3. S \cup T \subseteq U
    BY <1>1 DEF InRange
<1>4. c = b + 1 => S \cup T = U
    BY <1>1 DEF InRange
<1>. HIDE DEF S, T, U
<1>5. Cardinality(S \cup T) = Cardinality(S) + Cardinality(T) - Cardinality(S \cap T)
    BY <1>1, FS_Union
<1>6. Cardinality(S \cup T) = Cardinality(S) + Cardinality(T)
    <2>1. Cardinality(S \cap T) = 0
        BY <1>2, FS_EmptySet
    <2>2. Cardinality(S) \in Nat /\ Cardinality(T) \in Nat
        BY <1>1
    <2>. QED
        BY ONLY <1>5, <2>1, <2>2
<1>7. Cardinality(S \cup T) <= Cardinality(U)
    BY <1>1, <1>3, FS_Subset
<1>. QED
    BY <1>4, <1>6, <1>7 DEF Between, S, T, U

\* The entries of one more version, prefix by prefix.
LEMMA UnderNext ==
    ASSUME StoreType, NEW V \in SUBSET DOMAIN gens, NEW n \in DOMAIN gens, n \notin V, NEW p
    PROVE  Cardinality(Under(V \cup {n}, p)) =
              Cardinality(Under(V, p)) + Cardinality(OfPrefix(gens[n].keys, p))
<1>. DEFINE K == OfPrefix(gens[n].keys, p)
            E == {n} \X K
            O == Under(V, p)
<1>1. Under(V \cup {n}, p) = O \cup E
    BY DEF Under, OfVersions, StoredCopies, OfPrefix
<1>2. O \cap E = {}
    BY DEF Under, OfVersions
<1>3. IsFiniteSet(K) /\ IsFiniteSet({n}) /\ Cardinality(K) \in Nat
    <2>1. IsFiniteSet(K)
        BY KeysOf, FS_Subset DEF OfPrefix
    <2>. QED
        BY <2>1, FS_Singleton, FS_CardinalityType
<1>4. IsFiniteSet(O)
    BY StoredFinite, FS_Subset DEF Under, OfVersions
<1>5. IsFiniteSet(E) /\ Cardinality(E) = Cardinality(K)
    <2>1. IsFiniteSet(E) /\ Cardinality(E) = Cardinality({n}) * Cardinality(K)
        BY <1>3, FS_Product
    <2>2. Cardinality({n}) = 1
        BY FS_Singleton
    <2>. QED
        BY <1>3, <2>1, <2>2
<1>6. Cardinality(O) \in Nat
    BY <1>4, FS_CardinalityType
<1>. HIDE DEF E, O, K
<1>7. Cardinality(O \cup E) = Cardinality(O) + Cardinality(E) - Cardinality(O \cap E)
    BY <1>4, <1>5, FS_Union
<1>8. Cardinality(O \cup E) = Cardinality(O) + Cardinality(K)
    BY <1>2, <1>3, <1>5, <1>6, <1>7, FS_EmptySet
<1>. QED
    BY <1>1, <1>8 DEF O, K

\* The entries under a prefix of no version, and of all.
LEMMA UnderEnds ==
    ASSUME StoreType, NEW p \in Nat
    PROVE  /\ Cardinality(Under({}, p)) = 0
           /\ Cardinality(Under(DOMAIN gens, p)) = Between(p, p)
<1>1. Under({}, p) = {}
    BY DEF Under, OfVersions
<1>2. Under(DOMAIN gens, p) = InRange(p, p)
    <2>1. OfVersions(DOMAIN gens) = StoredCopies
        BY OfVersionsEnds
    <2>2. \A e \in StoredCopies : PrefixOf[e[2]] \in Nat
        BY RangeFinite
    <2>3. \A e \in StoredCopies :
             PrefixOf[e[2]] = p <=> (p <= PrefixOf[e[2]] /\ PrefixOf[e[2]] <= p)
        BY <2>2
    <2>. QED
        BY <2>1, <2>3 DEF Under, InRange
<1>. QED
    BY <1>1, <1>2, FS_EmptySet DEF Between

\* The counters say what they did after a step that leaves them and the visits alone.
LEMMA ExactKept ==
    ASSUME ExactInv, Walking, disturbed = 0, gens' = gens, walk'.counts = walk.counts,
           \/ walk'.pc = walk.pc /\ walk'.todo = walk.todo
           \/ walk.pc = "sample" /\ walk'.pc = "start"
    PROVE  ExactInv'
<1>1. \A a, b : Between(a, b)' = Between(a, b)
    BY SameStore DEF Between, InRange
<1>2. walk'.todo = walk.todo => \A p : Under(Visited, p)' = Under(Visited, p)
    BY SameStore DEF Under, Visited, OfVersions
<1>3. CASE walk'.pc = walk.pc /\ walk'.todo = walk.todo
    BY <1>1, <1>2, <1>3 DEF ExactInv
<1>4. CASE walk.pc = "sample" /\ walk'.pc = "start"
    BY <1>4 DEF ExactInv
<1>. QED
    BY <1>3, <1>4

\* Every step of the system keeps the counters those of the versions visited.
LEMMA ExactStep ==
    ASSUME StoreType, WalkType, ExactInv, [Next]_vars
    PROVE  ExactInv'
<1>. SUFFICES ASSUME Walking', disturbed' = 0 PROVE ExactInv'
    BY DEF ExactInv
<1>0. gens' = gens /\ disturbed = 0
    BY QuietSteps
<1>1. ASSUME walk'.pc \in Passing PROVE ExactInv'
    BY <1>1 DEF ExactInv, Passing
<1>2. ASSUME NEW o \in VerifyOptions, Verify(o) PROVE ExactInv'
    <2>1. walk' = NewWalk(o)
        BY <1>2, VerifySteps
    <2>2. walk'.pc = "sample" /\ walk'.counts = [p \in 0 .. PlanningPrefixes - 1 |-> 0]
        BY <2>1, NewWalkFields
    <2>. QED
        BY <2>2 DEF ExactInv
<1>3. ASSUME ReserveSample PROVE ExactInv'
    <2>1. walk.pc = "sample" /\ walk'.pc = "start" /\ Keeps({"pc", "out", "peak"})
        BY <1>3, ReserveSampleSteps, RefusedIsIdle
    <2>2. walk'.counts = walk.counts
        BY <2>1 DEF Keeps, Fields
    <2>. QED
        BY <1>0, <2>1, <2>2, ExactKept DEF Walking
<1>4. ASSUME StartWalk PROVE ExactInv'
    <2>1. /\ walk.pc = "start" /\ walk'.pc = "plan" /\ walk'.todo = DOMAIN gens
          /\ Keeps({"pc", "out", "peak", "todo"})
        BY <1>4, StartWalkSteps, RefusedIsIdle
    <2>2. walk'.counts = walk.counts
        BY <2>1 DEF Keeps, Fields
    <2>3. \A p \in 0 .. PlanningPrefixes - 1 : walk'.counts[p] = 0
        BY <1>0, <2>1, <2>2 DEF ExactInv, Walking
    <2>4. Visited' = {}
        BY <1>0, <2>1 DEF Visited
    <2>5. \A p \in 0 .. PlanningPrefixes - 1 : Cardinality(Under({}, p)') = 0
        <3>1. \A p : Under({}, p)' = Under({}, p)
            BY <1>0, SameStore DEF Under
        <3>. QED
            BY <3>1, UnderEnds
    <2>6. \A p \in 0 .. PlanningPrefixes - 1 : walk'.counts[p] = Cardinality(Under(Visited, p)')
        BY <2>3, <2>4, <2>5 DEF Under, OfVersions
    <2>. QED
        BY <2>1, <2>6 DEF ExactInv
<1>5. ASSUME PlanVisit PROVE ExactInv'
    <2>. DEFINE n == First(walk.todo)
                K == gens[n].keys
    <2>1. /\ walk.pc = "plan" /\ walk.todo # {} /\ walk'.todo = walk.todo \ {n}
          /\ walk'.counts = [p \in 0 .. PlanningPrefixes - 1 |->
                               walk.counts[p] + Cardinality(OfPrefix(K, p))]
          /\ Keeps({"todo", "visits", "examined", "planned", "counts"})
        BY <1>5, PlanVisitSteps, RefusedIsIdle
    <2>2. Walking /\ walk'.pc = "plan"
        BY <2>1 DEF Walking, Keeps, Fields
    <2>3. /\ n \in DOMAIN gens /\ n \notin Visited /\ Visited' = Visited \cup {n}
          /\ Visited \subseteq DOMAIN gens
        BY <1>0, <2>1, <2>2, VisitNext
    <2>4. \A p \in 0 .. PlanningPrefixes - 1 : walk.counts[p] = Cardinality(Under(Visited, p))
        BY <1>0, <2>1, <2>2 DEF ExactInv
    <2>5. \A p \in 0 .. PlanningPrefixes - 1 :
             walk'.counts[p] = walk.counts[p] + Cardinality(OfPrefix(K, p))
        BY <2>1
    <2>. HIDE DEF n
    <2>6. \A p : Cardinality(Under(Visited \cup {n}, p)) =
                    Cardinality(Under(Visited, p)) + Cardinality(OfPrefix(K, p))
        BY <2>3, UnderNext
    <2>7. \A p : Under(Visited, p)' = Under(Visited \cup {n}, p)
        BY <1>0, <2>3, SameStore DEF Under, OfVersions
    <2>8. \A p \in 0 .. PlanningPrefixes - 1 : walk'.counts[p] = Cardinality(Under(Visited, p)')
        BY <2>4, <2>5, <2>6, <2>7
    <2>. QED
        BY <2>2, <2>8 DEF ExactInv
<1>6. ASSUME ReserveGroups PROVE ExactInv'
    <2>1. /\ walk.pc = "plan" /\ walk.todo = {} /\ walk'.pc = "group"
          /\ Keeps({"pc", "at", "out", "peak", "perPass"})
        BY <1>6, ReserveGroupsSteps, RefusedIsIdle
    <2>2. walk'.counts = walk.counts
        BY <2>1 DEF Keeps, Fields
    <2>3. Visited = DOMAIN gens
        BY <2>1, VisitedEnds
    <2>4. \A p \in 0 .. PlanningPrefixes - 1 : walk.counts[p] = Cardinality(Under(Visited, p))
        BY <1>0, <2>1 DEF ExactInv, Walking
    <2>5. \A p \in 0 .. PlanningPrefixes - 1 : walk.counts[p] = Between(p, p)
        BY <2>3, <2>4, UnderEnds
    <2>6. \A a, b : Between(a, b)' = Between(a, b)
        BY <1>0, SameStore DEF Between, InRange
    <2>. QED
        BY <2>1, <2>2, <2>5, <2>6 DEF ExactInv
<1>7. ASSUME GroupPrefix PROVE ExactInv'
    <2>1. walk.pc = "group" /\ Keeps({"at", "groups"})
        BY <1>7, GroupPrefixSteps
    <2>2. walk'.counts = walk.counts /\ walk'.pc = "group" /\ walk'.todo = walk.todo
        BY <2>1 DEF Keeps, Fields
    <2>. QED
        BY <1>0, <2>1, <2>2, ExactKept DEF Walking
<1>8. ASSUME CheckPlan PROVE walk'.pc \in Passing
    BY <1>8, CheckPlanSteps, RefusedIsIdle DEF Passing
<1>9. ASSUME BeginPass PROVE walk'.pc \in Passing
    BY <1>9, BeginPassSteps, RefusedIsIdle DEF Passing
<1>10. ASSUME Collect PROVE walk'.pc \in Passing
    <2>1. /\ walk.pc = "collect"
          /\ Keeps({"todo", "visits", "examined", "records", "capacity", "out", "peak"})
        BY <1>10, CollectSteps, RefusedIsIdle
    <2>. QED
        BY <2>1 DEF Keeps, Fields, Passing
<1>11. ASSUME EndOfCollection PROVE walk'.pc \in Passing
    BY <1>11, EndOfCollectionSteps, RefusedIsIdle DEF Passing
<1>12. ASSUME CountKey PROVE walk'.pc \in Passing
    <2>1. /\ walk.pc = "count"
          /\ Keeps({"records", "distinct", "physical", "extra", "multiple", "most",
                    "sample", "places"})
        BY <1>12, CountKeySteps
    <2>. QED
        BY <2>1 DEF Keeps, Fields, Passing
<1>13. ASSUME EndPass PROVE walk'.pc \in Passing
    BY <1>13, EndPassSteps DEF Passing
<1>14. ASSUME Conclude PROVE FALSE
    BY <1>14 DEF Conclude, Walking, IdleWalk
<1>15. ASSUME UNCHANGED walk PROVE ExactInv'
    <2>1. Walking
        BY <1>15 DEF Walking
    <2>. QED
        BY <1>0, <1>15, <2>1, ExactKept
<1>. QED
    BY <1>1, <1>2, <1>3, <1>4, <1>5, <1>6, <1>7, <1>8, <1>9, <1>10, <1>11, <1>12, <1>13,
       <1>14, <1>15, QuietSteps DEF VerifyStep
-----------------------------------------------------------------------------
(* The greedy grouping *)

\* A quotient is the most that many times fits.
LEMMA QuotientMeans ==
    ASSUME NEW a \in Nat, NEW b \in Nat \ {0}, NEW x \in Nat
    PROVE  /\ x * b <= a <=> x <= a \div b
           /\ a \div b \in Nat
<1>. DEFINE q == a \div b
<1>1. q \in Nat /\ q * b <= a /\ a < (q + 1) * b
    OBVIOUS
<1>. HIDE DEF q
<1>2. x <= q => x * b <= q * b
    <2>. SUFFICES ASSUME x <= q PROVE x * b <= q * b
        OBVIOUS
    <2>. DEFINE d == q - x
    <2>1. d \in Nat /\ q = x + d
        BY <1>1
    <2>. HIDE DEF d
    <2>2. q * b = x * b + d * b /\ d * b \in Nat /\ x * b \in Nat
        BY <2>1
    <2>. QED
        BY <2>2
<1>3. ~(x <= q) => (q + 1) * b <= x * b
    <2>. SUFFICES ASSUME ~(x <= q) PROVE (q + 1) * b <= x * b
        OBVIOUS
    <2>. DEFINE d == x - (q + 1)
    <2>1. d \in Nat /\ x = (q + 1) + d
        BY <1>1
    <2>. HIDE DEF d
    <2>2. x * b = (q + 1) * b + d * b /\ d * b \in Nat /\ (q + 1) * b \in Nat
        BY <1>1, <2>1
    <2>. QED
        BY <2>2
<1>4. x * b \in Nat /\ q * b \in Nat /\ (q + 1) * b \in Nat
    BY <1>1
<1>. QED
    BY <1>1, <1>2, <1>3, <1>4 DEF q

\* What is held before the first record, and how many records fit beside it.
FixedBytes(o) == SampleBytes(o) + EngineBytes + ListBytes
Share(o) == (Ceiling(o) - FixedBytes(o)) \div RecordBytes

\* The groups hold the entries of their ranges; one that holds more than a share is of
\* one prefix; and each but the first begins at a prefix that did not fit the one before.
Filled(groups, share) ==
    /\ \A i \in 1 .. Len(groups) :
          /\ groups[i].first <= groups[i].last
          /\ groups[i].records = Between(groups[i].first, groups[i].last)
          /\ groups[i].records > share => groups[i].first = groups[i].last
    /\ Len(groups) > 0 => Between(groups[1].first, groups[1].first) > 0
    /\ \A i \in 2 .. Len(groups) :
          groups[i - 1].records + Between(groups[i].first, groups[i].first) > share

\* The invariant of the grouping, on a store nobody has disturbed.
GreedyInv ==
    Walking /\ disturbed = 0 =>
        /\ walk.pc \in Passing \cup {"group"} =>
              /\ walk.perPass = Share(walk.opts) /\ walk.perPass > 0
              /\ Filled(walk.groups, walk.perPass)
        /\ walk.pc = "group" /\ Len(walk.groups) > 0 =>
              walk.groups[Len(walk.groups)].last + 1 = walk.at
        /\ walk.pc \in Passing =>
              \A i \in 1 .. Len(walk.groups) : walk.groups[i].records <= walk.perPass
        /\ walk.pc = "collect" => walk.capacity = Group.records

\* The groups after the prefix at hand.
LEMMA FilledNext ==
    ASSUME StoreType, WalkType, GroupPrefix, Filled(walk.groups, walk.perPass),
           Len(walk.groups) > 0 => walk.groups[Len(walk.groups)].last + 1 = walk.at,
           walk.counts[walk.at] = Between(walk.at, walk.at)
    PROVE  /\ Filled(walk'.groups, walk.perPass)
           /\ Len(walk'.groups) > 0 => walk'.groups[Len(walk'.groups)].last = walk.at
<1>. DEFINE gs == walk.groups
            hs == walk'.groups
            m == Len(gs)
            at == walk.at
            here == walk.counts[walk.at]
            share == walk.perPass
<1>1. Walking
    BY GroupPrefixSteps DEF Walking
<1>2. /\ gs \in Seq(GroupType) /\ m \in Nat /\ at \in Nat /\ here \in Nat /\ share \in Nat
    BY <1>1, FigureNumbers, GroupsAfter
<1>3. \A i \in 1 .. m : gs[i].first \in Nat /\ gs[i].last \in Nat /\ gs[i].records \in Nat
    <2>1. \A i \in 1 .. m : gs[i] \in GroupType
        BY <1>2, ElementOfSeq
    <2>. QED
        BY <2>1 DEF GroupType
<1>4. CASE Skips
    BY <1>4, GroupsAfter DEF Skips, Filled
<1>5. CASE Widens
    <2>1. /\ Len(hs) = m /\ m > 0 /\ gs[m].records + here <= share
          /\ \A i \in 1 .. m - 1 : hs[i] = gs[i]
          /\ hs[m] = [first |-> gs[m].first, last |-> at, records |-> gs[m].records + here]
        BY <1>5, GroupsAfter DEF Widens
    <2>2. /\ gs[m].first <= gs[m].last /\ gs[m].records = Between(gs[m].first, gs[m].last)
          /\ gs[m].last + 1 = at /\ gs[m].first \in Nat /\ gs[m].last \in Nat
          /\ gs[m].records \in Nat
        <3>1. m \in 1 .. m
            BY <1>2, <2>1
        <3>. QED
            BY <1>3, <2>1, <3>1 DEF Filled
    <2>3. Between(gs[m].first, gs[m].last) + Between(at, at) = Between(gs[m].first, at)
        <3>1. gs[m].last < at /\ at <= at /\ at = gs[m].last + 1
            BY <1>2, <2>2
        <3>. QED
            BY <1>2, <2>2, <3>1, RangeJoin
    <2>4. /\ hs[m].first = gs[m].first /\ hs[m].last = at /\ hs[m].first <= hs[m].last
          /\ hs[m].records = Between(hs[m].first, hs[m].last)
          /\ ~(hs[m].records > share)
        <3>1. gs[m].first <= at
            BY <1>2, <2>2
        <3>2. ~(gs[m].records + here > share)
            BY <1>2, <2>1, <2>2
        <3>. QED
            BY <2>1, <2>2, <2>3, <3>1, <3>2
    <2>5. \A i \in 1 .. m : hs[i].first = gs[i].first /\ (i # m => hs[i] = gs[i])
        <3>1. \A i \in 1 .. m : i = m \/ i \in 1 .. m - 1
            BY <1>2
        <3>. QED
            BY <2>1, <2>4, <3>1
    <2>6. \A i \in 2 .. m : hs[i - 1] = gs[i - 1] /\ hs[i].first = gs[i].first
        <3>1. \A i \in 2 .. m : i - 1 \in 1 .. m - 1 /\ i \in 1 .. m
            BY <1>2
        <3>. QED
            BY <2>1, <2>5, <3>1
    <2>7. 1 \in 1 .. m
        BY <1>2, <2>1
    <2>. HIDE DEF gs, hs, at, here, share
    <2>8. \A i \in 1 .. m :
             /\ hs[i].first <= hs[i].last
             /\ hs[i].records = Between(hs[i].first, hs[i].last)
             /\ hs[i].records > share => hs[i].first = hs[i].last
        BY <2>4, <2>5 DEF Filled, gs, share
    <2>9. Between(hs[1].first, hs[1].first) > 0
        BY <2>1, <2>5, <2>7 DEF Filled, gs
    <2>10. \A i \in 2 .. m : hs[i - 1].records + Between(hs[i].first, hs[i].first) > share
        BY <2>6 DEF Filled, gs, share
    <2>11. Filled(hs, share)
        BY <2>1, <2>8, <2>9, <2>10 DEF Filled
    <2>. QED
        BY <2>1, <2>4, <2>11 DEF hs, at, share
<1>6. CASE ~Skips /\ ~Widens
    <2>1. /\ Len(hs) = m + 1 /\ \A i \in 1 .. m : hs[i] = gs[i]
          /\ hs[m + 1] = [first |-> at, last |-> at, records |-> here]
        BY <1>6, GroupsAfter DEF NewGroup
    <2>2. m = 0 => here > 0
        BY <1>2, <1>6 DEF Skips
    <2>3. m > 0 => gs[m].records + here > share
        <3>1. m > 0 => m \in 1 .. m
            BY <1>2
        <3>2. m > 0 => ~(gs[m].records + here <= share) /\ gs[m].records \in Nat
            BY <1>3, <1>6, <3>1 DEF Widens
        <3>. QED
            BY <1>2, <3>2
    <2>4. /\ hs[m + 1].first = at /\ hs[m + 1].last = at /\ at <= at
          /\ hs[m + 1].records = Between(at, at)
        BY <1>2, <2>1
    <2>5. \A i \in 1 .. m + 1 : i = m + 1 \/ i \in 1 .. m
        BY <1>2
    <2>6. \A i \in 2 .. m + 1 : /\ i - 1 \in 1 .. m /\ (i = m + 1 => i - 1 = m)
                                /\ i # m + 1 => i \in 2 .. m /\ i \in 1 .. m
                                /\ i = m + 1 => m > 0
        BY <1>2
    <2>7. m > 0 => 1 \in 1 .. m
        BY <1>2
    <2>. HIDE DEF gs, hs, m, at, here, share
    <2>8. \A i \in 1 .. m + 1 :
             /\ hs[i].first <= hs[i].last
             /\ hs[i].records = Between(hs[i].first, hs[i].last)
             /\ hs[i].records > share => hs[i].first = hs[i].last
        BY <2>1, <2>4, <2>5 DEF Filled, gs, share, m
    <2>9. Between(hs[1].first, hs[1].first) > 0
        <3>1. CASE m = 0
            BY <2>2, <2>4, <3>1 DEF at, here
        <3>2. CASE m > 0
            BY <2>1, <2>7, <3>2 DEF Filled, gs, m
        <3>. QED
            BY <1>2, <3>1, <3>2 DEF m
    <2>10. ASSUME NEW i \in 2 .. m + 1
           PROVE  hs[i - 1].records + Between(hs[i].first, hs[i].first) > share
        <3>1. hs[i - 1] = gs[i - 1]
            BY <2>1, <2>6
        <3>2. CASE i = m + 1
            BY <2>3, <2>4, <2>6, <3>1, <3>2 DEF at, here
        <3>3. CASE i # m + 1
            <4>1. hs[i] = gs[i] /\ i \in 2 .. m
                BY <2>1, <2>6, <3>3
            <4>. QED
                BY <3>1, <4>1 DEF Filled, gs, m, share
        <3>. QED
            BY <3>2, <3>3
    <2>11. Filled(hs, share)
        BY <2>1, <2>8, <2>9, <2>10 DEF Filled
    <2>. QED
        BY <2>1, <2>4, <2>11 DEF hs, at, share
<1>. QED
    BY <1>4, <1>5, <1>6

\* What a pass holds of its group is no more than the group has: one record a copy.
LEMMA NeverOutgrown ==
    ASSUME StoreType, WalkType, Walking, disturbed = 0, RecordInv, walk.pc = "collect",
           walk.todo # {}
    PROVE  Cardinality(walk.records \cup Found(First(walk.todo)))
              <= Between(Group.first, Group.last)
<1>. DEFINE n == First(walk.todo)
            all == walk.records \cup Found(n)
            R == InRange(Group.first, Group.last)
            f == [c \in all |-> <<c.at, c.key>>]
<1>1. n \in DOMAIN gens
    <2>1. walk.todo \subseteq DOMAIN gens /\ DOMAIN gens \subseteq Version
        BY FigureNumbers DEF StoreType
    <2>. QED
        BY <2>1, FirstIn
<1>. HIDE DEF n
<1>2. \A c \in all : InGroup(Group, c.key) /\ c.at \in Copies(c.key) /\ c = Rec(c.at, c.key)
    <2>1. \A c \in walk.records :
             InGroup(Group, c.key) /\ c.at \in Copies(c.key) /\ c = Rec(c.at, c.key)
        BY DEF RecordInv
    <2>2. \A c \in Found(n) :
             InGroup(Group, c.key) /\ c.at \in Copies(c.key) /\ c = Rec(c.at, c.key)
        BY <1>1 DEF Found, Rec, Copies
    <2>. QED
        BY <2>1, <2>2
<1>3. \A c \in all : <<c.at, c.key>> \in R
    <2>1. \A c \in all : <<c.at, c.key>> \in StoredCopies
        BY <1>2 DEF Copies, StoredCopies
    <2>2. \A c \in all : Group.first <= PrefixOf[c.key] /\ PrefixOf[c.key] <= Group.last
        BY <1>2 DEF InGroup
    <2>. QED
        BY <2>1, <2>2 DEF InRange
<1>5. \A c, d \in all : <<c.at, c.key>> = <<d.at, d.key>> => c = d
    BY <1>2
<1>. HIDE DEF all
<1>6. f \in Injection(all, R)
    <2>1. f \in [all -> R]
        BY <1>3
    <2>2. IsInjective(f)
        BY <1>5 DEF IsInjective
    <2>. QED
        BY <2>1, <2>2 DEF Injection
<1>7. Cardinality(all) <= Cardinality(R)
    BY <1>6, RangeFinite, FS_Injection
<1>. QED
    BY <1>7 DEF all, n, Between

\* So the records collected are finite and never outgrow what was reserved for them.
LEMMA FitsCapacity ==
    ASSUME StoreType, WalkType, Walking, disturbed = 0, RecordInv, GreedyInv,
           BudgetInv, walk.pc = "collect", walk.todo # {}, walk.at <= Len(walk.groups)
    PROVE  LET all == walk.records \cup Found(First(walk.todo))
           IN  /\ Cardinality(all) <= walk.capacity /\ walk.capacity = Group.records
               /\ Cardinality(all) \in Nat /\ walk.capacity \in Nat
<1>. DEFINE n == First(walk.todo)
            all == walk.records \cup Found(n)
<1>1. /\ walk.at \in 1 .. Len(walk.groups) /\ walk.capacity = Group.records
      /\ Filled(walk.groups, walk.perPass)
    BY GroupIn DEF GreedyInv, Passing
<1>2. Group.records = Between(Group.first, Group.last)
    BY <1>1 DEF Filled, Group
<1>3. Cardinality(all) <= Between(Group.first, Group.last)
    BY NeverOutgrown
<1>4. IsFiniteSet(all) /\ walk.capacity \in Nat
    <2>1. walk.todo \subseteq DOMAIN gens /\ DOMAIN gens \subseteq Version
        BY FigureNumbers DEF StoreType
    <2>2. n \in DOMAIN gens
        BY <2>1, FirstIn
    <2>3. IsFiniteSet(Found(n)) /\ IsFiniteSet(walk.records)
        BY <2>2, FoundFinite, FigureNumbers
    <2>. QED
        BY <2>3, FS_Union, FigureNumbers
<1>. QED
    BY <1>1, <1>2, <1>3, <1>4, FS_CardinalityType

\* The checked arithmetic, of numbers that are no more than the type holds and of more.
LEMMA CheckedMeans ==
    ASSUME NEW a \in Nat, NEW b \in Nat
    PROVE  /\ CheckedMul(a, b).ok <=> a * b <= Limit
           /\ a * b <= Limit => CheckedMul(a, b).value = a * b
           /\ CheckedAdd(a, b).ok <=> a + b <= Limit
           /\ a + b <= Limit => CheckedAdd(a, b).value = a + b
<1>. DEFINE p == a * b
            s == a + b
<1>1. p \in Nat /\ s \in Nat /\ Limit \in Nat
    BY ProductNat, EntriesAssumption
<1>2. /\ CheckedMul(a, b).ok = ~(p > Limit) /\ CheckedMul(a, b).value = p % (Limit + 1)
      /\ CheckedAdd(a, b).ok = ~(s > Limit)
      /\ CheckedAdd(a, b).value = IF s > Limit THEN a ELSE s
    BY Zenon DEF CheckedMul, CheckedAdd, Overflows
<1>. HIDE DEF p, s
<1>3. p <= Limit => p % (Limit + 1) = p
    BY <1>1
<1>4. (~(p > Limit) <=> p <= Limit) /\ (~(s > Limit) <=> s <= Limit)
    BY <1>1
<1>5. s <= Limit => CheckedAdd(a, b).value = s
    BY <1>2, <1>4
<1>. QED
    BY <1>2, <1>3, <1>4, <1>5 DEF p, s

\* A group fits the budget as long as it has no more records than a share, and more
\* records do not.
LEMMA FitsIsShare ==
    ASSUME WalkType, Walking, BudgetInv, walk.pc \in {"group", "pass"}, NEW r \in Nat
    PROVE  /\ FitsInBudget(walk, r) <=> r <= Share(walk.opts)
           /\ r * RecordBytes <= Ceiling(walk.opts) - walk.out <=> r <= Share(walk.opts)
<1>. DEFINE o == walk.opts
            b == r * RecordBytes
            h == HeadroomOf(o.budget)
            c == Ceiling(o)
            F == FixedBytes(o)
<1>1. o \in VerifyOptions
    BY FigureNumbers
<1>2. b \in Nat
    BY SizeNumbers, ProductNat
<1>3. /\ o.budget \in 0 .. Limit /\ h \in Nat /\ h <= o.budget /\ c = o.budget - h
      /\ Limit \in Nat /\ c \in Nat
    BY <1>1, OptionNumbers DEF Ceiling
<1>4. walk.out = F /\ F \in Nat /\ F <= c
    <2>1. walk.capacity = 0 /\ walk.out = Held(walk) /\ walk.out <= c
        BY DEF BudgetInv
    <2>2. 0 * RecordBytes = 0
        BY SizeNumbers
    <2>3. walk.out = SampleBytes(o) + EngineBytes + ListBytes + 0
        BY <1>1, <2>1, <2>2, HeldParts
    <2>4. SampleBytes(o) \in Nat /\ EngineBytes \in Nat /\ ListBytes \in Nat
        BY <1>1, PartNumbers
    <2>. QED
        BY <2>1, <2>3, <2>4 DEF FixedBytes
<1>5. FitsInBudget(walk, r) <=> b + F <= c
    <2>. DEFINE reserved == CheckedMul(r, RecordBytes)
                withFixed == CheckedAdd(reserved.value, walk.out)
                peak == CheckedAdd(withFixed.value, h)
    <2>1. FitsInBudget(walk, r) <=>
             reserved.ok /\ withFixed.ok /\ peak.ok /\ peak.value <= o.budget
        BY DEF FitsInBudget, Fixed
    <2>2. (reserved.ok <=> b <= Limit) /\ (b <= Limit => reserved.value = b)
        BY SizeNumbers, CheckedMeans
    <2>3. CASE b <= Limit
        <3>1. reserved.value = b
            BY <2>2, <2>3
        <3>. HIDE DEF b, h, F, c, reserved
        <3>2. (withFixed.ok <=> b + F <= Limit) /\ (b + F <= Limit => withFixed.value = b + F)
            BY <1>2, <1>4, <3>1, CheckedMeans
        <3>3. CASE b + F <= Limit
            <4>. DEFINE held == withFixed.value
            <4>1. held = b + F /\ held \in Nat
                BY <1>2, <1>4, <3>2, <3>3
            <4>2. peak.ok <=> held + h <= Limit
                BY <1>3, <4>1, CheckedMeans
            <4>3. held + h <= Limit => peak.value = held + h
                BY <1>3, <4>1, CheckedMeans
            <4>. HIDE DEF peak, held
            <4>4. held + h <= Limit /\ held + h <= o.budget <=> b + F <= c
                BY <1>2, <1>3, <1>4, <4>1
            <4>5. peak.ok /\ peak.value <= o.budget <=> b + F <= c
                BY <4>2, <4>3, <4>4
            <4>. QED
                BY <2>1, <2>2, <2>3, <3>2, <3>3, <4>5
        <3>4. CASE ~(b + F <= Limit)
            <4>1. ~(b + F <= c)
                BY <1>2, <1>3, <1>4, <3>4
            <4>. QED
                BY <2>1, <3>2, <3>4, <4>1
        <3>. QED
            BY <3>3, <3>4
    <2>4. CASE ~(b <= Limit)
        <3>1. ~(b + F <= c)
            <4>. HIDE DEF b, F, c, h
            <4>. QED
                BY <1>2, <1>3, <1>4, <2>4
        <3>. QED
            BY <2>1, <2>2, <2>4, <3>1
    <2>. QED
        BY <2>3, <2>4
<1>6. b <= c - F <=> r <= Share(o)
    <2>1. RecordBytes \in Nat \ {0}
        BY UniquenessAssumption
    <2>2. c - F \in Nat
        <3>. HIDE DEF c, F
        <3>. QED
            BY <1>3, <1>4
    <2>3. r * RecordBytes <= c - F <=> r <= (c - F) \div RecordBytes
        <3>. HIDE DEF c, F
        <3>. QED
            BY <2>1, <2>2, QuotientMeans
    <2>. QED
        BY <2>3 DEF Share
<1>. HIDE DEF b, c, F
<1>7. b + F <= c <=> b <= c - F
    BY <1>2, <1>3, <1>4
<1>. QED
    BY <1>4, <1>5, <1>6, <1>7 DEF b, c, o

\* The grouping is as it was after a step that leaves its figures alone.
LEMMA GreedyKept ==
    ASSUME StoreType, GreedyInv, Walking, disturbed = 0, gens' = gens, walk'.opts = walk.opts,
           walk'.perPass = walk.perPass, walk'.groups = walk.groups,
           walk.pc \in Passing /\ walk'.pc \in Passing,
           walk'.pc = "collect" => walk'.capacity = walk'.groups[walk'.at].records
    PROVE  GreedyInv'
<1>1. Filled(walk.groups, walk.perPass)' = Filled(walk.groups, walk.perPass)
    <2>1. \A a, b : Between(a, b)' = Between(a, b)
        BY SameStore DEF Between, InRange
    <2>. QED
        BY <2>1 DEF Filled
<1>2. Share(walk.opts)' = Share(walk.opts)
    BY DEF Share, FixedBytes, SampleBytes, EngineBytes, ListBytes, Ceiling, HeadroomOf
<1>3. Group' = walk'.groups[walk'.at]
    BY DEF Group
<1>4. walk'.pc # "group"
    BY DEF Passing
<1>. QED
    BY <1>1, <1>2, <1>3, <1>4 DEF GreedyInv

\* Every step of the system keeps the grouping's invariant.
LEMMA GreedyStep ==
    ASSUME StoreType, WalkType, BudgetInv, PlanInv, RecordInv, ExactInv, GreedyInv, [Next]_vars
    PROVE  GreedyInv'
<1>. SUFFICES ASSUME Walking', disturbed' = 0 PROVE GreedyInv'
    BY DEF GreedyInv
<1>0. gens' = gens /\ disturbed = 0 /\ \A a, b : Between(a, b)' = Between(a, b)
    BY QuietSteps, SameStore DEF Between, InRange
<1>1. ASSUME walk'.pc \in {"sample", "start", "plan"} PROVE GreedyInv'
    BY <1>1 DEF GreedyInv, Passing
<1>2. ASSUME NEW o \in VerifyOptions, Verify(o) PROVE GreedyInv'
    BY <1>1, <1>2, VerifySteps, NewWalkFields
<1>3. ASSUME ReserveSample PROVE GreedyInv'
    BY <1>1, <1>3, ReserveSampleSteps, RefusedIsIdle
<1>4. ASSUME StartWalk PROVE GreedyInv'
    BY <1>1, <1>4, StartWalkSteps, RefusedIsIdle
<1>5. ASSUME PlanVisit PROVE GreedyInv'
    <2>1. walk'.pc = "plan"
        BY <1>5, PlanVisitSteps, RefusedIsIdle DEF Keeps, Fields
    <2>. QED
        BY <1>1, <2>1
<1>6. ASSUME ReserveGroups PROVE GreedyInv'
    <2>. DEFINE left == (Ceiling(walk.opts) - (walk.out + ListBytes)) \div RecordBytes
    <2>1. /\ walk.pc = "plan" /\ walk'.pc = "group" /\ walk'.perPass = left /\ left > 0
          /\ Keeps({"pc", "at", "out", "peak", "perPass"})
        BY <1>6, ReserveGroupsSteps, RefusedIsIdle DEF ListBytes
    <2>2. Walking
        BY <2>1 DEF Walking
    <2>3. walk'.opts = walk.opts /\ walk'.groups = walk.groups
        BY <2>1 DEF Keeps, Fields
    <2>4. walk.groups = <<>>
        BY <2>1, <2>2 DEF PlanInv
    <2>5. left = Share(walk.opts)
        <3>1. walk.capacity = 0 /\ walk.out = Held(walk)
            BY <2>1, <2>2 DEF BudgetInv
        <3>2. walk.opts \in VerifyOptions
            BY <2>2, FigureNumbers
        <3>3. 0 * RecordBytes = 0
            BY SizeNumbers
        <3>4. walk.out = SampleBytes(walk.opts) + EngineBytes + 0
            BY <2>1, <3>1, <3>2, <3>3, HeldParts
        <3>5. SampleBytes(walk.opts) \in Nat /\ EngineBytes \in Nat
            BY <3>2, PartNumbers
        <3>6. walk.out = SampleBytes(walk.opts) + EngineBytes
            BY <3>4, <3>5
        <3>. QED
            BY <3>6 DEF Share, FixedBytes
    <2>6. Share(walk.opts)' = Share(walk.opts)
        BY <2>3 DEF Share, FixedBytes, SampleBytes, EngineBytes, ListBytes, Ceiling, HeadroomOf
    <2>7. Len(walk'.groups) = 0
        BY <2>3, <2>4
    <2>8. Filled(walk.groups, walk.perPass)'
        BY <2>7 DEF Filled
    <2>. HIDE DEF left
    <2>9. walk'.perPass = Share(walk.opts)' /\ walk'.perPass > 0
        BY <2>1, <2>5, <2>6
    <2>. QED
        BY <2>1, <2>7, <2>8, <2>9 DEF GreedyInv, Passing
<1>7. ASSUME GroupPrefix PROVE GreedyInv'
    <2>1. walk.pc = "group" /\ Keeps({"at", "groups"}) /\ walk'.at = walk.at + 1
        BY <1>7, GroupPrefixSteps
    <2>2. Walking /\ walk'.pc = "group" /\ walk'.opts = walk.opts /\ walk'.perPass = walk.perPass
        BY <2>1 DEF Keeps, Fields, Walking
    <2>3. walk.counts[walk.at] = Between(walk.at, walk.at)
        <3>1. walk.at \in 0 .. PlanningPrefixes - 1
            BY <1>7, GroupsAfter
        <3>. QED
            BY <1>0, <2>1, <2>2, <3>1 DEF ExactInv
    <2>4. /\ walk.perPass = Share(walk.opts) /\ walk.perPass > 0
          /\ Filled(walk.groups, walk.perPass)
          /\ Len(walk.groups) > 0 => walk.groups[Len(walk.groups)].last + 1 = walk.at
        BY <1>0, <2>1, <2>2 DEF GreedyInv
    <2>5. /\ Filled(walk'.groups, walk.perPass)
          /\ Len(walk'.groups) > 0 => walk'.groups[Len(walk'.groups)].last = walk.at
        BY <1>7, <2>3, <2>4, FilledNext
    <2>6. Filled(walk.groups, walk.perPass)'
        BY <1>0, <2>2, <2>5 DEF Filled
    <2>7. Share(walk.opts)' = Share(walk.opts)
        BY <2>2 DEF Share, FixedBytes, SampleBytes, EngineBytes, ListBytes, Ceiling, HeadroomOf
    <2>. QED
        BY <2>1, <2>2, <2>4, <2>5, <2>6, <2>7 DEF GreedyInv, Passing
<1>8. ASSUME CheckPlan PROVE GreedyInv'
    <2>1. /\ walk.pc = "group" /\ walk'.pc = "pass" /\ Keeps({"pc", "at"}) /\ ~PlanRefusal
        BY <1>8, CheckPlanSteps, RefusedIsIdle
    <2>2. /\ Walking /\ walk'.opts = walk.opts /\ walk'.perPass = walk.perPass
          /\ walk'.groups = walk.groups
        BY <2>1 DEF Keeps, Fields, Walking
    <2>3. /\ walk.perPass = Share(walk.opts) /\ walk.perPass > 0
          /\ Filled(walk.groups, walk.perPass)
        BY <1>0, <2>1, <2>2 DEF GreedyInv
    <2>4. ASSUME NEW i \in 1 .. Len(walk.groups) PROVE walk.groups[i].records <= walk.perPass
        <3>1. FitsInBudget(walk, walk.groups[i].records)
            BY <2>1 DEF PlanRefusal
        <3>2. walk.groups[i].records \in Nat
            <4>1. walk.groups[i] \in GroupType
                BY <2>2, FigureNumbers, ElementOfSeq
            <4>. QED
                BY <4>1 DEF GroupType
        <3>3. walk.groups[i].records <= Share(walk.opts)
            BY <2>1, <2>2, <3>1, <3>2, FitsIsShare
        <3>. QED
            BY <2>3, <3>3
    <2>5. Filled(walk.groups, walk.perPass)'
        BY <1>0, <2>2, <2>3 DEF Filled
    <2>6. Share(walk.opts)' = Share(walk.opts)
        BY <2>2 DEF Share, FixedBytes, SampleBytes, EngineBytes, ListBytes, Ceiling, HeadroomOf
    <2>. QED
        BY <2>1, <2>2, <2>3, <2>4, <2>5, <2>6 DEF GreedyInv
<1>9. ASSUME BeginPass PROVE GreedyInv'
    <2>1. /\ walk.pc = "pass" /\ walk'.pc = "collect" /\ walk'.capacity = Group.records
          /\ Keeps({"pc", "todo", "capacity", "out", "peak"})
        BY <1>9, BeginPassSteps, RefusedIsIdle
    <2>2. /\ walk'.opts = walk.opts /\ walk'.perPass = walk.perPass
          /\ walk'.groups = walk.groups /\ walk'.at = walk.at
        BY <2>1 DEF Keeps, Fields
    <2>. QED
        BY <1>0, <2>1, <2>2, GreedyKept DEF Passing, Walking, Group
<1>10. ASSUME Collect PROVE GreedyInv'
    <2>. DEFINE all == walk.records \cup Found(First(walk.todo))
    <2>1. /\ walk.pc = "collect" /\ walk.todo # {}
          /\ Keeps({"todo", "visits", "examined", "records", "capacity", "out", "peak"})
          /\ walk'.capacity = walk.capacity \/ Cardinality(all) > walk.capacity
        BY <1>10, CollectSteps, RefusedIsIdle
    <2>2. /\ Walking /\ walk'.opts = walk.opts /\ walk'.perPass = walk.perPass
          /\ walk'.groups = walk.groups /\ walk'.at = walk.at /\ walk'.pc = "collect"
        BY <2>1 DEF Keeps, Fields, Walking
    <2>3. walk.at <= Len(walk.groups)
        BY <2>1, <2>2 DEF PlanInv
    <2>4. /\ Cardinality(all) <= walk.capacity /\ walk.capacity = Group.records
          /\ Cardinality(all) \in Nat /\ walk.capacity \in Nat
        BY <1>0, <2>1, <2>2, <2>3, FitsCapacity
    <2>. HIDE DEF all
    <2>5. walk'.capacity = walk.capacity
        BY <2>1, <2>4
    <2>. QED
        BY <1>0, <2>1, <2>2, <2>4, <2>5, GreedyKept DEF Passing, Group
<1>11. ASSUME EndOfCollection PROVE GreedyInv'
    <2>1. walk.pc = "collect" /\ walk'.pc = "count" /\ Keeps({"pc", "passes"})
        BY <1>11, EndOfCollectionSteps, RefusedIsIdle
    <2>2. /\ walk'.opts = walk.opts /\ walk'.perPass = walk.perPass
          /\ walk'.groups = walk.groups
        BY <2>1 DEF Keeps, Fields
    <2>. QED
        BY <1>0, <2>1, <2>2, GreedyKept DEF Passing, Walking
<1>12. ASSUME CountKey PROVE GreedyInv'
    <2>1. /\ walk.pc = "count"
          /\ Keeps({"records", "distinct", "physical", "extra", "multiple", "most",
                    "sample", "places"})
        BY <1>12, CountKeySteps
    <2>2. /\ walk'.opts = walk.opts /\ walk'.perPass = walk.perPass
          /\ walk'.groups = walk.groups /\ walk'.pc = "count"
        BY <2>1 DEF Keeps, Fields
    <2>. QED
        BY <1>0, <2>1, <2>2, GreedyKept DEF Passing, Walking
<1>13. ASSUME EndPass PROVE GreedyInv'
    <2>1. walk.pc = "count" /\ walk'.pc = "pass" /\ Keeps({"pc", "capacity", "at", "out"})
        BY <1>13, EndPassSteps
    <2>2. /\ walk'.opts = walk.opts /\ walk'.perPass = walk.perPass
          /\ walk'.groups = walk.groups
        BY <2>1 DEF Keeps, Fields
    <2>. QED
        BY <1>0, <2>1, <2>2, GreedyKept DEF Passing, Walking
<1>14. ASSUME Conclude PROVE FALSE
    BY <1>14 DEF Conclude, Walking, IdleWalk
<1>15. ASSUME UNCHANGED walk PROVE GreedyInv'
    <2>1. Walking
        BY <1>15 DEF Walking
    <2>2. Filled(walk.groups, walk.perPass)' = Filled(walk.groups, walk.perPass)
        BY <1>0, <1>15 DEF Filled
    <2>3. Share(walk.opts)' = Share(walk.opts) /\ Group' = Group
        BY <1>15 DEF Share, FixedBytes, SampleBytes, EngineBytes, ListBytes, Ceiling, HeadroomOf,
                     Group
    <2>. QED
        BY <1>0, <1>15, <2>1, <2>2, <2>3 DEF GreedyInv
<1>. QED
    BY <1>2, <1>3, <1>4, <1>5, <1>6, <1>7, <1>8, <1>9, <1>10, <1>11, <1>12, <1>13,
       <1>14, <1>15, QuietSteps DEF VerifyStep
-----------------------------------------------------------------------------
(* The greedy grouping is the best *)

\* The entries of a run of prefixes, from one cut to the next.
Run(cuts, c) ==
    {e \in StoredCopies : PrefixOf[e[2]] >= c /\ \A d \in cuts : d > c => PrefixOf[e[2]] < d}
Runs(cuts) == {c \in cuts \cup {0} : RunRecords(cuts, c) > 0}

\* The run a prefix is in begins at the last cut up to it.
RunStart(cuts, p) == Max({c \in cuts \cup {0} : c <= p})

\* It is a cut, or the first prefix.
LEMMA RunStarts ==
    ASSUME NEW cuts \in SUBSET (1 .. PlanningPrefixes - 1), NEW p \in 0 .. PlanningPrefixes - 1
    PROVE  /\ RunStart(cuts, p) \in cuts \cup {0} /\ RunStart(cuts, p) \in Nat
           /\ RunStart(cuts, p) <= p
           /\ \A c \in cuts \cup {0} : c <= p => c <= RunStart(cuts, p)
<1>. DEFINE S == {c \in cuts \cup {0} : c <= p}
<1>0. PlanningPrefixes \in Nat /\ p \in Nat
    BY SizeNumbers
<1>1. S \subseteq 0 .. p /\ 0 \in S
    <2>1. \A c \in cuts \cup {0} : c \in Nat
        BY <1>0
    <2>2. 0 \in S
        BY <1>0
    <2>3. S \subseteq 0 .. p
        <3>1. \A c \in S : c \in Nat /\ c <= p
            BY <2>1
        <3>. HIDE DEF S
        <3>. QED
            BY <1>0, <3>1
    <2>. QED
        BY <2>2, <2>3
<1>2. Max(S) \in S /\ \A x \in S : x <= Max(S)
    BY <1>0, <1>1, MaxOf
<1>. HIDE DEF S
<1>3. RunStart(cuts, p) = Max(S)
    BY DEF RunStart, S
<1>4. Max(S) \in Nat
    <2>1. Max(S) \in 0 .. p
        BY <1>1, <1>2
    <2>. QED
        BY <1>0, <2>1
<1>. QED
    BY <1>2, <1>3, <1>4 DEF S

\* A range of prefixes that begins and ends in the same run is part of it.
LEMMA RangeInRun ==
    ASSUME StoreType, NEW cuts \in SUBSET (1 .. PlanningPrefixes - 1),
           NEW a \in 0 .. PlanningPrefixes - 1, NEW b \in 0 .. PlanningPrefixes - 1,
           RunStart(cuts, a) = RunStart(cuts, b)
    PROVE  /\ Between(a, b) <= RunRecords(cuts, RunStart(cuts, a))
           /\ RunRecords(cuts, RunStart(cuts, a)) \in Nat
<1>. DEFINE r == RunStart(cuts, a)
            R == InRange(a, b)
            U == Run(cuts, r)
<1>0. PlanningPrefixes \in Nat /\ cuts \subseteq Nat
    BY SizeNumbers
<1>1. /\ r \in Nat /\ r <= a /\ \A d \in cuts : d <= b => d <= r
    BY RunStarts
<1>2. \A e \in StoredCopies : PrefixOf[e[2]] \in Nat
    BY RangeFinite
<1>. HIDE DEF r
<1>3. R \subseteq U
    <2>. SUFFICES ASSUME NEW e \in StoredCopies, a <= PrefixOf[e[2]], PrefixOf[e[2]] <= b
                  PROVE  PrefixOf[e[2]] >= r /\ \A d \in cuts : d > r => PrefixOf[e[2]] < d
        BY DEF InRange, Run
    <2>. DEFINE q == PrefixOf[e[2]]
    <2>1. q \in Nat /\ a <= q /\ q <= b
        BY <1>2
    <2>. HIDE DEF q
    <2>2. q >= r
        BY <1>1, <2>1
    <2>3. \A d \in cuts : d > r => q < d
        BY <1>0, <1>1, <2>1
    <2>. QED
        BY <2>2, <2>3 DEF q
<1>4. IsFiniteSet(U)
    BY StoredFinite, FS_Subset DEF Run
<1>5. Cardinality(R) <= Cardinality(U) /\ Cardinality(U) \in Nat
    BY <1>3, <1>4, FS_Subset, FS_CardinalityType
<1>6. RunRecords(cuts, r) = Cardinality(U)
    BY DEF RunRecords, Run
<1>. QED
    BY <1>5, <1>6 DEF Between, r

\* The greedy grouping is the best there is: where some cutting of the prefixes into
\* runs fits the share and the passes, its groups do.
LEMMA GreedyIsBest ==
    ASSUME StoreType, NEW gs \in Seq(GroupType), NEW share \in Nat, Filled(gs, share),
           Apart(gs, PlanningPrefixes), NEW cuts \in SUBSET (1 .. PlanningPrefixes - 1),
           NEW passes \in Nat, Cardinality(Runs(cuts)) <= passes,
           \A c \in Runs(cuts) : RunRecords(cuts, c) <= share
    PROVE  Len(gs) <= passes /\ \A i \in 1 .. Len(gs) : gs[i].records <= share
<1>. DEFINE m == Len(gs)
            first(i) == gs[i].first
            start(i) == RunStart(cuts, gs[i].first)
<1>0. m \in Nat /\ PlanningPrefixes \in Nat
    BY SizeNumbers
<1>1. \A i \in 1 .. m : /\ gs[i].first \in 0 .. PlanningPrefixes - 1 /\ gs[i].first \in Nat
                        /\ gs[i].last \in 0 .. PlanningPrefixes - 1 /\ gs[i].last \in Nat
                        /\ gs[i].records \in Nat /\ gs[i].first <= gs[i].last
    <2>1. \A i \in 1 .. m : gs[i] \in GroupType
        BY ElementOfSeq
    <2>2. \A i \in 1 .. m : gs[i].first <= gs[i].last /\ gs[i].last < PlanningPrefixes
        BY DEF Apart
    <2>. QED
        BY <1>0, <2>1, <2>2 DEF GroupType
<1>2. ASSUME NEW a \in 0 .. PlanningPrefixes - 1, NEW b \in 0 .. PlanningPrefixes - 1,
             RunStart(cuts, a) = RunStart(cuts, b)
      PROVE  Between(a, b) <= share
    <2>1. /\ Between(a, b) <= RunRecords(cuts, RunStart(cuts, a))
          /\ RunRecords(cuts, RunStart(cuts, a)) \in Nat /\ Between(a, b) \in Nat
        BY <1>2, RangeInRun, RangeFinite
    <2>2. CASE RunRecords(cuts, RunStart(cuts, a)) > 0
        <3>1. RunStart(cuts, a) \in Runs(cuts)
            BY <2>2, RunStarts DEF Runs
        <3>2. RunRecords(cuts, RunStart(cuts, a)) <= share
            BY <3>1
        <3>. QED
            BY <2>1, <3>2
    <2>3. CASE ~(RunRecords(cuts, RunStart(cuts, a)) > 0)
        BY <2>1, <2>3
    <2>. QED
        BY <2>2, <2>3
<1>3. ASSUME NEW i \in 1 .. m PROVE gs[i].records <= share
    <2>1. CASE gs[i].records > share
        <3>1. gs[i].first = gs[i].last /\ gs[i].records = Between(gs[i].first, gs[i].last)
            BY <2>1 DEF Filled
        <3>2. Between(gs[i].first, gs[i].first) <= share
            BY <1>1, <1>2
        <3>. QED
            BY <3>1, <3>2
    <2>2. CASE ~(gs[i].records > share)
        BY <1>1, <2>2
    <2>. QED
        BY <2>1, <2>2
<1>4. ASSUME NEW i \in 1 .. m PROVE Between(gs[i].first, gs[i].first) > 0
    <2>1. CASE i = 1
        <3>1. m > 0
            BY <1>0
        <3>. QED
            BY <2>1, <3>1 DEF Filled
    <2>2. CASE i # 1
        <3>1. i \in 2 .. m /\ i - 1 \in 1 .. m
            BY <1>0, <2>2
        <3>2. gs[i - 1].records + Between(gs[i].first, gs[i].first) > share
            BY <3>1 DEF Filled
        <3>3. gs[i - 1].records <= share /\ gs[i - 1].records \in Nat
            BY <1>1, <1>3, <3>1
        <3>4. Between(gs[i].first, gs[i].first) \in Nat
            BY RangeFinite
        <3>. QED
            BY <3>2, <3>3, <3>4
    <2>. QED
        BY <2>1, <2>2
<1>5. ASSUME NEW i \in 1 .. m PROVE start(i) \in Runs(cuts) /\ start(i) \in Nat
    <2>1. gs[i].first \in 0 .. PlanningPrefixes - 1
        BY <1>1
    <2>2. /\ Between(gs[i].first, gs[i].first) <= RunRecords(cuts, start(i))
          /\ RunRecords(cuts, start(i)) \in Nat /\ Between(gs[i].first, gs[i].first) \in Nat
        BY <2>1, RangeInRun, RangeFinite
    <2>3. RunRecords(cuts, start(i)) > 0
        BY <1>4, <2>2
    <2>. QED
        BY <2>1, <2>3, RunStarts DEF Runs
<1>6. ASSUME NEW i \in 2 .. m PROVE start(i - 1) < start(i)
    <2>1. i \in 1 .. m /\ i - 1 \in 1 .. m /\ i - 1 < i
        BY <1>0
    <2>2. gs[i - 1].last < gs[i].first
        BY <2>1 DEF Apart
    <2>. DEFINE a == gs[i - 1].first
                b == gs[i - 1].last
                c == gs[i].first
    <2>3. /\ a \in 0 .. PlanningPrefixes - 1 /\ b \in Nat /\ c \in 0 .. PlanningPrefixes - 1
          /\ a \in Nat /\ c \in Nat /\ a <= b /\ b < c /\ c <= c
        BY <1>1, <2>1, <2>2
    <2>4. gs[i - 1].records = Between(a, b)
        BY <2>1 DEF Filled
    <2>5. gs[i - 1].records + Between(c, c) > share
        BY DEF Filled
    <2>. HIDE DEF a, b, c
    <2>6. Between(a, b) + Between(c, c) <= Between(a, c)
        BY <2>3, RangeJoin
    <2>7. ~(Between(a, c) <= share)
        <3>1. Between(a, b) \in Nat /\ Between(c, c) \in Nat /\ Between(a, c) \in Nat
            BY RangeFinite
        <3>. QED
            BY <2>4, <2>5, <2>6, <3>1
    <2>8. RunStart(cuts, a) # RunStart(cuts, c)
        BY <1>2, <2>3, <2>7
    <2>9. RunStart(cuts, a) <= RunStart(cuts, c)
        <3>1. /\ RunStart(cuts, a) \in cuts \cup {0} /\ RunStart(cuts, a) <= a
              /\ RunStart(cuts, a) \in Nat
            BY <2>3, RunStarts
        <3>2. RunStart(cuts, a) <= c
            BY <2>3, <3>1
        <3>. QED
            BY <2>3, <3>1, <3>2, RunStarts
    <2>10. RunStart(cuts, a) \in Nat /\ RunStart(cuts, c) \in Nat
        BY <2>3, RunStarts
    <2>11. RunStart(cuts, a) < RunStart(cuts, c)
        BY <2>8, <2>9, <2>10
    <2>. QED
        BY <2>11 DEF a, c
<1>7. ASSUME NEW i \in 1 .. m, NEW j \in 1 .. m, i < j PROVE start(i) < start(j)
    <2>1. j \in 2 .. m /\ j - 1 \in 1 .. m /\ (i = j - 1 \/ i < j - 1)
        BY <1>0, <1>7
    <2>2. gs[i].first <= gs[j - 1].first
        <3>1. CASE i = j - 1
            BY <1>1, <3>1
        <3>2. CASE i < j - 1
            <4>1. gs[i].last < gs[j - 1].first
                BY <2>1, <3>2 DEF Apart
            <4>. QED
                BY <1>1, <2>1, <4>1
        <3>. QED
            BY <2>1, <3>1, <3>2
    <2>. DEFINE a == gs[i].first
                b == gs[j - 1].first
    <2>3. a \in 0 .. PlanningPrefixes - 1 /\ b \in 0 .. PlanningPrefixes - 1 /\ a <= b
        BY <1>1, <2>1, <2>2
    <2>4. start(j - 1) < start(j) /\ start(j - 1) \in Nat /\ start(j) \in Nat
        BY <1>5, <1>6, <2>1
    <2>. HIDE DEF a, b
    <2>5. RunStart(cuts, a) \in cuts \cup {0} /\ RunStart(cuts, a) <= a /\ RunStart(cuts, a) \in Nat
        BY <2>3, RunStarts
    <2>6. RunStart(cuts, a) <= b
        BY <1>0, <2>3, <2>5
    <2>7. RunStart(cuts, a) <= RunStart(cuts, b)
        BY <2>3, <2>5, <2>6, RunStarts
    <2>8. start(i) <= start(j - 1) /\ start(i) \in Nat
        BY <2>5, <2>7 DEF a, b
    <2>. HIDE DEF start
    <2>. QED
        BY <2>4, <2>8
<1>8. m <= passes
    <2>. DEFINE f == [i \in 1 .. m |-> start(i)]
    <2>1. f \in [1 .. m -> Runs(cuts)]
        BY <1>5
    <2>2. \A i, j \in 1 .. m : start(i) = start(j) => i = j
        <3>. HIDE DEF start
        <3>1. \A i, j \in 1 .. m : i < j \/ j < i \/ i = j
            BY <1>0
        <3>2. \A i \in 1 .. m : ~(start(i) < start(i))
            BY <1>5
        <3>. QED
            BY <1>7, <3>1, <3>2
    <2>3. f \in Injection(1 .. m, Runs(cuts))
        <3>1. IsInjective(f)
            BY <2>2 DEF IsInjective
        <3>. QED
            BY <2>1, <3>1 DEF Injection
    <2>4. IsFiniteSet(Runs(cuts))
        <3>1. Runs(cuts) \subseteq 0 .. PlanningPrefixes
            <4>1. \A c \in cuts : c \in 0 .. PlanningPrefixes
                BY <1>0
            <4>2. 0 \in 0 .. PlanningPrefixes
                BY <1>0
            <4>. QED
                BY <4>1, <4>2 DEF Runs
        <3>2. IsFiniteSet(0 .. PlanningPrefixes)
            BY <1>0, FS_Interval
        <3>. QED
            BY <3>1, <3>2, FS_Subset
    <2>5. Cardinality(1 .. m) <= Cardinality(Runs(cuts))
        BY <2>3, <2>4, FS_Injection
    <2>6. Cardinality(1 .. m) = m
        <3>. HIDE DEF m
        <3>1. Cardinality(1 .. m) = IF 1 > m THEN 0 ELSE m - 1 + 1
            BY <1>0, FS_Interval
        <3>. QED
            BY <1>0, <3>1
    <2>7. Cardinality(Runs(cuts)) \in Nat
        BY <2>4, FS_CardinalityType
    <2>. QED
        BY <1>0, <2>5, <2>6, <2>7
<1>. QED
    BY <1>3, <1>8
-----------------------------------------------------------------------------
(* Refusals *)

\* The invariants of the counters and of the groups, of every reachable state.
THEOREM GreedyInvariant == Spec => [](ExactInv /\ GreedyInv)
<1>1. Init => ExactInv /\ GreedyInv
    BY DEF Init, VerifyInit, Walking, IdleWalk, ExactInv, GreedyInv
<1>2. /\ BudgetTyped /\ ScanInv /\ ExactInv /\ GreedyInv /\ [Next]_vars
      => (ExactInv /\ GreedyInv)'
    BY ExactStep, GreedyStep DEF BudgetTyped, ScanInv
<1>. QED
    BY <1>1, <1>2, ScanInvariant, PTL DEF Spec

\* The records of a run fit beside what is held first just when they are no more than
\* a share.
LEMMA RunFits ==
    ASSUME NEW o \in VerifyOptions, FixedBytes(o) <= Ceiling(o), NEW r \in Nat
    PROVE  FixedBytes(o) + r * RecordBytes <= Ceiling(o) <=> r <= Share(o)
<1>. DEFINE c == Ceiling(o)
            F == FixedBytes(o)
            b == r * RecordBytes
<1>1. c \in Nat /\ b \in Nat
    BY OptionNumbers, SizeNumbers, ProductNat
<1>2. F \in Nat
    <2>1. SampleBytes(o) \in Nat /\ EngineBytes \in Nat /\ ListBytes \in Nat
        BY PartNumbers
    <2>. QED
        BY <2>1 DEF FixedBytes
<1>3. F <= c
    OBVIOUS
<1>4. RecordBytes \in Nat \ {0}
    BY UniquenessAssumption
<1>5. Share(o) = (c - F) \div RecordBytes
    BY DEF Share
<1>. HIDE DEF c, F
<1>6. c - F \in Nat
    BY <1>1, <1>2, <1>3
<1>7. b <= c - F <=> r <= (c - F) \div RecordBytes
    BY <1>4, <1>6, QuotientMeans
<1>. HIDE DEF b
<1>8. F + b <= c <=> b <= c - F
    BY <1>1, <1>2
<1>. QED
    BY <1>5, <1>7, <1>8 DEF c, F, b

\* What it means for a budget to do, in the terms of the proof.
LEMMA FeasibleMeans ==
    ASSUME StoreType, NEW o \in VerifyOptions, Feasible(o)
    PROVE  /\ FixedBytes(o) + RecordBytes <= Ceiling(o)
           /\ Share(o) \in Nat /\ Share(o) > 0
           /\ Share(o) <= Addressable /\ Share(o) <= VectorMax
           /\ o.findings * o.locations <= Limit
           /\ o.findings * o.locations <= Addressable /\ o.findings * o.locations <= VectorMax
           /\ o.findings <= Addressable /\ o.findings <= VectorMax
           /\ \E cuts \in SUBSET (1 .. PlanningPrefixes - 1) :
                 /\ Cardinality(Runs(cuts)) <= o.passes
                 /\ \A c \in Runs(cuts) : RunRecords(cuts, c) <= Share(o)
<1>. DEFINE fixed == o.findings * FindingBytes + o.findings * o.locations * LocationBytes
                       + SortAllowance + PlanningPrefixes * CounterBytes
                       + PlanningPrefixes * GroupBytes
            least == Min({Addressable, VectorMax})
            space == Min({Addressable, VectorMax, Limit})
<1>1. /\ fixed + RecordBytes <= Ceiling(o) /\ (Ceiling(o) - fixed) \div RecordBytes <= least
      /\ o.findings * o.locations <= space /\ o.findings <= least
      /\ \E cuts \in SUBSET (1 .. PlanningPrefixes - 1) :
            /\ Cardinality(Runs(cuts)) <= o.passes
            /\ \A c \in Runs(cuts) : fixed + RunRecords(cuts, c) * RecordBytes <= Ceiling(o)
    BY DEF Feasible, Runs
<1>2. fixed = FixedBytes(o)
    <2>. DEFINE a == o.findings * FindingBytes
                b == o.findings * o.locations * LocationBytes
                c == PlanningPrefixes * CounterBytes
                d == PlanningPrefixes * GroupBytes
    <2>1. a + b \in Nat /\ a \in Nat /\ b \in Nat
        <3>1. /\ o.findings \in Nat /\ o.locations \in Nat
              /\ FindingBytes \in Nat /\ LocationBytes \in Nat
            BY OptionNumbers, SizeNumbers
        <3>2. o.findings * o.locations \in Nat
            BY <3>1, ProductNat
        <3>3. a \in Nat /\ b \in Nat
            BY <3>1, <3>2, ProductNat
        <3>. HIDE DEF a, b
        <3>. QED
            BY <3>3
    <2>2. c \in Nat /\ d \in Nat /\ SortAllowance \in Nat
        BY SizeNumbers
    <2>. HIDE DEF a, b, c, d
    <2>3. a + b + SortAllowance + c + d = (a + b) + (SortAllowance + c) + d
        BY <2>1, <2>2
    <2>. QED
        BY <2>3 DEF a, b, c, d, FixedBytes, SampleBytes, EngineBytes, ListBytes
<1>. HIDE DEF fixed
<1>3. FixedBytes(o) \in Nat /\ Ceiling(o) \in Nat /\ RecordBytes \in Nat
    <2>1. SampleBytes(o) \in Nat /\ EngineBytes \in Nat /\ ListBytes \in Nat
        BY PartNumbers
    <2>. QED
        BY <2>1, OptionNumbers, SizeNumbers DEF FixedBytes
<1>4. FixedBytes(o) <= Ceiling(o)
    <2>. DEFINE F == FixedBytes(o)
                c == Ceiling(o)
    <2>1. F + RecordBytes <= c /\ F \in Nat /\ c \in Nat
        BY <1>1, <1>2, <1>3
    <2>. HIDE DEF F, c
    <2>2. F <= c
        BY <1>3, <2>1
    <2>. QED
        BY <2>2 DEF F, c
<1>5. Share(o) \in Nat
    <2>. DEFINE a == Ceiling(o) - FixedBytes(o)
    <2>1. a \in Nat
        BY <1>3, <1>4
    <2>2. RecordBytes \in Nat \ {0}
        BY UniquenessAssumption
    <2>. HIDE DEF a
    <2>3. a \div RecordBytes \in Nat
        BY <2>1, <2>2
    <2>. QED
        BY <2>3 DEF Share, a
<1>6. Share(o) > 0
    <2>1. FixedBytes(o) + 1 * RecordBytes <= Ceiling(o)
        BY <1>1, <1>2, <1>3
    <2>2. 1 <= Share(o)
        BY <1>4, <2>1, RunFits
    <2>. QED
        BY <1>5, <2>2
<1>7. /\ Addressable \in Nat /\ VectorMax \in Nat /\ Limit \in Nat
    BY UniquenessAssumption, EntriesAssumption
<1>8. least \in Nat /\ least <= Addressable /\ least <= VectorMax
    <2>1. {Addressable, VectorMax} \subseteq Nat /\ {Addressable, VectorMax} # {}
        BY <1>7
    <2>. QED
        BY <2>1, MinOf
<1>9. space \in Nat /\ space <= Addressable /\ space <= VectorMax /\ space <= Limit
    <2>1. {Addressable, VectorMax, Limit} \subseteq Nat /\ {Addressable, VectorMax, Limit} # {}
        BY <1>7
    <2>. QED
        BY <2>1, MinOf
<1>. HIDE DEF least, space
<1>10. Share(o) <= least
    BY <1>1, <1>2 DEF Share
<1>11. Share(o) <= Addressable /\ Share(o) <= VectorMax
    BY <1>5, <1>7, <1>8, <1>10
<1>12. o.findings * o.locations \in Nat /\ o.findings \in Nat
    BY OptionNumbers, ProductNat
<1>13. /\ o.findings <= Addressable /\ o.findings <= VectorMax
    BY <1>1, <1>7, <1>8, <1>12
<1>14. /\ o.findings * o.locations <= Limit
       /\ o.findings * o.locations <= Addressable /\ o.findings * o.locations <= VectorMax
    <2>. DEFINE p == o.findings * o.locations
    <2>1. p <= space /\ p \in Nat
        BY <1>1, <1>12
    <2>. HIDE DEF p
    <2>2. p <= Limit /\ p <= Addressable /\ p <= VectorMax
        BY <1>7, <1>9, <2>1
    <2>. QED
        BY <2>2 DEF p
<1>15. PICK cuts \in SUBSET (1 .. PlanningPrefixes - 1) :
          /\ Cardinality(Runs(cuts)) <= o.passes
          /\ \A c \in Runs(cuts) : FixedBytes(o) + RunRecords(cuts, c) * RecordBytes <= Ceiling(o)
    BY <1>1, <1>2
<1>16. \A c \in Runs(cuts) : RunRecords(cuts, c) <= Share(o)
    <2>. SUFFICES ASSUME NEW c \in Runs(cuts) PROVE RunRecords(cuts, c) <= Share(o)
        OBVIOUS
    <2>1. IsFiniteSet(Run(cuts, c))
        BY StoredFinite, FS_Subset DEF Run
    <2>2. RunRecords(cuts, c) \in Nat
        BY <2>1, FS_CardinalityType DEF RunRecords, Run
    <2>. QED
        BY <1>4, <1>15, <2>2, RunFits
<1>. QED
    BY <1>1, <1>2, <1>5, <1>6, <1>11, <1>13, <1>14, <1>15, <1>16

\* A sample that is part of a budget that would do is not refused.
LEMMA SampleFits ==
    ASSUME StoreType, NEW o \in VerifyOptions, Feasible(o)
    PROVE  ~SampleRefusal(o)
<1>. DEFINE f == o.findings
            p == o.findings * o.locations
            a == o.findings * FindingBytes
            b == o.findings * o.locations * LocationBytes
<1>1. /\ f \in Nat /\ o.locations \in Nat /\ p \in Nat /\ a \in Nat /\ b \in Nat
      /\ FindingBytes \in Nat /\ LocationBytes \in Nat /\ RecordBytes \in Nat
    <2>1. f \in Nat /\ o.locations \in Nat /\ FindingBytes \in Nat /\ LocationBytes \in Nat
          /\ RecordBytes \in Nat
        BY OptionNumbers, SizeNumbers
    <2>2. p \in Nat
        BY <2>1, ProductNat
    <2>3. a \in Nat /\ b \in Nat
        BY <2>1, <2>2, ProductNat
    <2>. QED
        BY <2>1, <2>2, <2>3
<1>2. a + b <= Limit
    <2>1. FixedBytes(o) + RecordBytes <= Ceiling(o)
        BY FeasibleMeans
    <2>2. /\ Ceiling(o) \in Nat /\ HeadroomOf(o.budget) \in Nat /\ o.budget \in Nat
          /\ Ceiling(o) + HeadroomOf(o.budget) = o.budget /\ o.budget <= Limit /\ Limit \in Nat
        BY OptionNumbers
    <2>3. EngineBytes \in Nat /\ ListBytes \in Nat
        BY PartNumbers
    <2>4. FixedBytes(o) = (a + b) + EngineBytes + ListBytes
        BY DEF FixedBytes, SampleBytes
    <2>. HIDE DEF a, b
    <2>. QED
        BY <1>1, <2>1, <2>2, <2>3, <2>4
<1>3. /\ p <= Limit /\ p <= Addressable /\ p <= VectorMax /\ f <= Addressable /\ f <= VectorMax
    BY FeasibleMeans
<1>4. Limit \in Nat /\ Addressable \in Nat /\ VectorMax \in Nat
    BY UniquenessAssumption, EntriesAssumption
<1>5. a <= Limit /\ b <= Limit
    <2>. HIDE DEF a, b
    <2>. QED
        BY <1>1, <1>2, <1>4
<1>. DEFINE places == SampleLocations(o)
            report == CheckedMul(f, FindingBytes)
            bytes == CheckedMul(places.value, LocationBytes)
            both == CheckedAdd(report.value, bytes.value)
<1>6. places.ok /\ places.value = p
    BY <1>1, <1>3, CheckedMeans DEF SampleLocations
<1>7. report.ok /\ report.value = a
    BY <1>1, <1>5, CheckedMeans
<1>8. bytes.ok /\ bytes.value = b
    <2>. DEFINE v == places.value
    <2>1. v \in Nat /\ v * LocationBytes = b
        BY <1>1, <1>6
    <2>. HIDE DEF v
    <2>2. CheckedMul(v, LocationBytes).ok /\ CheckedMul(v, LocationBytes).value = b
        BY <1>1, <1>5, <2>1, CheckedMeans
    <2>. QED
        BY <2>2 DEF v
<1>9. both.ok
    <2>. HIDE DEF a, b, report, bytes
    <2>. QED
        BY <1>1, <1>2, <1>7, <1>8, CheckedMeans
<1>10. ~(f > Addressable) /\ ~(p > Addressable) /\ ~(f > VectorMax) /\ ~(p > VectorMax)
    <2>. HIDE DEF f, p
    <2>. QED
        BY <1>1, <1>3, <1>4
<1>11. SampleRefusal(o) <=>
          \/ ~places.ok \/ ~report.ok \/ ~bytes.ok \/ ~both.ok
          \/ f > Addressable \/ places.value > Addressable
          \/ f > VectorMax \/ places.value > VectorMax
    BY Zenon DEF SampleRefusal
<1>. HIDE DEF places, report, bytes, both, f, p
<1>. QED
    BY <1>6, <1>7, <1>8, <1>9, <1>10, <1>11

\* A call that is refused for want of space, for its sample alone.
LEMMA CallRefused ==
    ASSUME StoreType, LatchType, NEW o \in VerifyOptions, Verify(o),
           verdict'.error = "insufficient_space"
    PROVE  verdict'.opts = o /\ ~Feasible(o)
<1>1. latch # "insufficient_space" /\ NoVerdict.error # "insufficient_space"
    BY DEF LatchType, NoVerdict
<1>2. verdict' = [error |-> "insufficient_space", opts |-> o] /\ SampleRefusal(o)
    BY <1>1, VerifySteps
<1>. QED
    BY <1>2, SampleFits

\* An allocation before the first record that is not granted.
LEMMA EngineRefused ==
    ASSUME StoreType, WalkType, BudgetInv, ReserveSample \/ StartWalk \/ ReserveGroups,
           verdict' # verdict
    PROVE  /\ verdict' = [error |-> "insufficient_space", opts |-> walk.opts]
           /\ walk.opts \in VerifyOptions /\ ~Feasible(walk.opts)
<1>. DEFINE o == walk.opts
            S == SampleBytes(o)
            E == EngineBytes
            L == ListBytes
            c == Ceiling(o)
<1>1. walk.pc \in {"sample", "start", "plan"} /\ Walking
    BY ReserveSampleSteps, StartWalkSteps, ReserveGroupsSteps DEF Walking
<1>2. o \in VerifyOptions /\ walk.capacity = 0 /\ walk.out = Held(walk) /\ ~SampleRefusal(o)
    BY <1>1, FigureNumbers DEF BudgetInv
<1>3. 0 * RecordBytes = 0
    BY SizeNumbers
<1>4. S \in Nat /\ E \in Nat /\ L \in Nat /\ c \in Nat
    BY <1>2, PartNumbers, OptionNumbers
<1>5. /\ walk.pc = "sample" => walk.out = 0
      /\ walk.pc = "start" => walk.out = S
      /\ walk.pc = "plan" => walk.out = S + E
    <2>1. /\ walk.pc = "sample" => walk.out = 0
          /\ walk.pc = "start" => walk.out = S + 0
          /\ walk.pc = "plan" => walk.out = S + E + 0
        BY <1>2, <1>3, HeldParts
    <2>. QED
        BY <1>4, <2>1
<1>6. Feasible(o) => S + E + L + RecordBytes <= c /\ Share(o) > 0 /\ RecordBytes \in Nat
    BY <1>2, FeasibleMeans, SizeNumbers DEF FixedBytes
<1>7. CASE ReserveSample
    <2>. DEFINE first == walk.opts.findings * FindingBytes
                second == SampleLocations(walk.opts).value * LocationBytes
    <2>1. /\ walk.pc = "sample"
          /\ ~(first <= c - walk.out /\ second <= c - (walk.out + first))
          /\ VerifyRefused("insufficient_space", walk.opts)
        BY <1>7, ReserveSampleSteps
    <2>2. S = first + second
        BY <1>2, SampleValue DEF SampleBytes
    <2>3. first \in Nat /\ second \in Nat
        <3>1. /\ o.findings \in Nat /\ o.locations \in Nat
              /\ FindingBytes \in Nat /\ LocationBytes \in Nat
            BY <1>2, OptionNumbers, SizeNumbers
        <3>2. SampleLocations(o).value \in Nat
            BY <1>2, <3>1, SampleValue, ProductNat
        <3>. QED
            BY <3>1, <3>2, ProductNat
    <2>. HIDE DEF first, second, S, E, L, c
    <2>4. ~(S + E + L + RecordBytes <= c /\ RecordBytes \in Nat)
        BY <1>4, <1>5, <2>1, <2>2, <2>3
    <2>. QED
        BY <1>2, <1>6, <2>1, <2>4, RefusedIsIdle
<1>8. CASE StartWalk
    <2>. DEFINE counters == PlanningPrefixes * CounterBytes
    <2>1. /\ walk.pc = "start"
          /\ ~(SortAllowance <= c - walk.out /\ counters <= c - (walk.out + SortAllowance))
          /\ VerifyRefused("insufficient_space", walk.opts)
        BY <1>8, StartWalkSteps
    <2>2. E = SortAllowance + counters /\ SortAllowance \in Nat /\ counters \in Nat
        BY SizeNumbers DEF EngineBytes
    <2>. HIDE DEF counters, S, E, L, c
    <2>3. ~(S + E + L + RecordBytes <= c /\ RecordBytes \in Nat)
        BY <1>4, <1>5, <2>1, <2>2
    <2>. QED
        BY <1>2, <1>6, <2>1, <2>3, RefusedIsIdle
<1>9. CASE ReserveGroups
    <2>. DEFINE left == (c - (walk.out + L)) \div RecordBytes
    <2>1. /\ walk.pc = "plan" /\ ~(L <= c - walk.out /\ left > 0)
          /\ VerifyRefused("insufficient_space", walk.opts)
        BY <1>9, ReserveGroupsSteps DEF ListBytes
    <2>2. left = Share(o)
        BY <1>5, <2>1 DEF Share, FixedBytes
    <2>. HIDE DEF left, S, E, L, c
    <2>3. ~(S + E + L + RecordBytes <= c /\ left > 0 /\ RecordBytes \in Nat)
        BY <1>4, <1>5, <2>1
    <2>. QED
        BY <1>2, <1>6, <2>1, <2>2, <2>3, RefusedIsIdle
<1>. QED
    BY <1>7, <1>8, <1>9

\* A plan that is refused, or a pass: nothing would have done.
LEMMA PlanRefused ==
    ASSUME StoreType, WalkType, BudgetInv, CoverInv, GreedyInv, disturbed = 0,
           CheckPlan \/ BeginPass, verdict' # verdict
    PROVE  /\ verdict' = [error |-> "insufficient_space", opts |-> walk.opts]
           /\ walk.opts \in VerifyOptions /\ ~Feasible(walk.opts)
<1>. DEFINE o == walk.opts
            gs == walk.groups
<1>1. walk.pc \in {"group", "pass"} /\ Walking
    BY CheckPlanSteps, BeginPassSteps DEF Walking
<1>2. o \in VerifyOptions /\ gs \in Seq(GroupType) /\ walk.perPass \in Nat /\ o.passes \in Nat
    BY <1>1, FigureNumbers, OptionNumbers
<1>3. walk.perPass = Share(o) /\ Filled(gs, Share(o))
    BY <1>1 DEF GreedyInv, Passing
<1>4. CASE CheckPlan
    <2>1. /\ walk.pc = "group" /\ walk.at = PlanningPrefixes /\ PlanRefusal
          /\ VerifyRefused("insufficient_space", o)
        BY <1>4, CheckPlanSteps
    <2>2. Apart(gs, PlanningPrefixes)
        BY <1>1, <2>1 DEF CoverInv
    <2>3. ASSUME Feasible(o) PROVE FALSE
        <3>1. PICK cuts \in SUBSET (1 .. PlanningPrefixes - 1) :
                 /\ Cardinality(Runs(cuts)) <= o.passes
                 /\ \A c \in Runs(cuts) : RunRecords(cuts, c) <= Share(o)
            BY <1>2, <2>3, FeasibleMeans
        <3>2. Share(o) \in Nat
            BY <1>2, <1>3
        <3>3. Len(gs) <= o.passes /\ \A i \in 1 .. Len(gs) : gs[i].records <= Share(o)
            BY <1>2, <1>3, <2>2, <3>1, <3>2, GreedyIsBest
        <3>4. \A i \in 1 .. Len(gs) : FitsInBudget(walk, gs[i].records)
            <4>. SUFFICES ASSUME NEW i \in 1 .. Len(gs) PROVE FitsInBudget(walk, gs[i].records)
                OBVIOUS
            <4>1. gs[i].records \in Nat
                <5>1. gs[i] \in GroupType
                    BY <1>2, ElementOfSeq
                <5>. QED
                    BY <5>1 DEF GroupType
            <4>2. gs[i].records <= Share(o)
                BY <3>3
            <4>. QED
                BY <1>1, <4>1, <4>2, FitsIsShare
        <3>5. Len(gs) \in Nat
            BY <1>2
        <3>6. ~(Len(gs) > o.passes)
            BY <1>2, <3>3, <3>5
        <3>. QED
            BY <2>1, <3>4, <3>6 DEF PlanRefusal
    <2>. QED
        BY <1>2, <2>1, <2>3, RefusedIsIdle
<1>5. CASE BeginPass
    <2>1. /\ walk.pc = "pass" /\ walk.at <= Len(gs) /\ ReserveRefusal
          /\ VerifyRefused("insufficient_space", o)
        BY <1>5, BeginPassSteps
    <2>2. walk.at \in 1 .. Len(gs) /\ Group \in GroupType
        BY <1>1, <2>1, GroupIn DEF Passing
    <2>. DEFINE r == Group.records
    <2>3. r \in Nat /\ r <= Share(o)
        BY <1>1, <1>3, <2>1, <2>2 DEF GreedyInv, Passing, Group, GroupType
    <2>4. r * RecordBytes <= Ceiling(o) - walk.out
        <3>. HIDE DEF r
        <3>. QED
            BY <1>1, <2>3, FitsIsShare
    <2>5. r > Addressable \/ r > VectorMax
        BY <2>1, <2>4 DEF ReserveRefusal, Grants
    <2>6. ASSUME Feasible(o) PROVE FALSE
        <3>1. Share(o) <= Addressable /\ Share(o) <= VectorMax /\ Share(o) \in Nat
            BY <1>2, <2>6, FeasibleMeans
        <3>2. Addressable \in Nat /\ VectorMax \in Nat
            BY UniquenessAssumption
        <3>. HIDE DEF r
        <3>. QED
            BY <2>3, <2>5, <3>1, <3>2
    <2>. QED
        BY <1>2, <2>1, <2>6, RefusedIsIdle
<1>. QED
    BY <1>4, <1>5

\* A store that is left alone is never found to have more records than were planned.
LEMMA CollectRefused ==
    ASSUME StoreType, WalkType, BudgetInv, PlanInv, RecordInv, GreedyInv, disturbed = 0,
           Collect, verdict' # verdict
    PROVE  verdict'.error # "insufficient_space"
<1>. DEFINE all == walk.records \cup Found(First(walk.todo))
<1>1. /\ walk.pc = "collect" /\ walk.todo # {}
      /\ \/ VerifyRefused(OpenToRead(First(walk.todo)), walk.opts)
         \/ Cardinality(all) > walk.capacity
    BY CollectSteps
<1>2. Walking /\ walk.at <= Len(walk.groups)
    BY <1>1 DEF Walking, PlanInv
<1>3. /\ Cardinality(all) <= walk.capacity
      /\ Cardinality(all) \in Nat /\ walk.capacity \in Nat
    BY <1>1, <1>2, FitsCapacity
<1>. HIDE DEF all
<1>4. ~(Cardinality(all) > walk.capacity)
    BY <1>3
<1>5. VerifyRefused(OpenToRead(First(walk.todo)), walk.opts)
    BY <1>1, <1>4
<1>6. OpenToRead(First(walk.todo)) # "insufficient_space"
    BY DEF OpenToRead
<1>. QED
    BY <1>5, <1>6, RefusedIsIdle

\* Every step of the system that refuses for want of space does so rightly, and what
\* was refused rightly stays so.
LEMMA RefusalStep ==
    ASSUME BudgetTyped, ScanInv, ExactInv, GreedyInv, RefusedOnlyIfInfeasible, [Next]_vars
    PROVE  RefusedOnlyIfInfeasible'
<1>. SUFFICES ASSUME verdict'.error = "insufficient_space", disturbed' = 0
              PROVE  ~Feasible(verdict.opts)'
    BY DEF RefusedOnlyIfInfeasible
<1>. USE DEF BudgetTyped, ScanInv
<1>0. gens' = gens /\ disturbed = 0 /\ StoredCopies' = StoredCopies
    BY QuietSteps, SameStore
<1>1. ASSUME NEW o, verdict'.opts = o, ~Feasible(o) PROVE ~Feasible(verdict.opts)'
    <2>1. \A cuts, c : RunRecords(cuts, c)' = RunRecords(cuts, c)
        BY <1>0 DEF RunRecords
    <2>. QED
        BY <1>1, <2>1 DEF Feasible, Ceiling, HeadroomOf
<1>2. CASE verdict' = verdict
    <2>1. ~Feasible(verdict.opts)
        BY <1>0, <1>2 DEF RefusedOnlyIfInfeasible
    <2>. QED
        BY <1>1, <1>2, <2>1
<1>3. ASSUME NEW o \in VerifyOptions, Verify(o) PROVE ~Feasible(verdict.opts)'
    BY <1>1, <1>3, CallRefused
<1>4. ASSUME ReserveSample \/ StartWalk \/ ReserveGroups PROVE ~Feasible(verdict.opts)'
    <2>1. CASE verdict' # verdict
        <3>1. verdict'.opts = walk.opts /\ ~Feasible(walk.opts)
            BY <1>4, <2>1, EngineRefused
        <3>. QED
            BY <1>1, <3>1
    <2>. QED
        BY <1>2, <2>1
<1>5. ASSUME CheckPlan \/ BeginPass PROVE ~Feasible(verdict.opts)'
    <2>1. CASE verdict' # verdict
        <3>1. verdict'.opts = walk.opts /\ ~Feasible(walk.opts)
            BY <1>0, <1>5, <2>1, PlanRefused
        <3>. QED
            BY <1>1, <3>1
    <2>. QED
        BY <1>2, <2>1
<1>6. ASSUME Collect PROVE ~Feasible(verdict.opts)'
    BY <1>0, <1>2, <1>6, CollectRefused
<1>7. ASSUME PlanVisit PROVE verdict' = verdict
    <2>1. OpenToRead(First(walk.todo)) # "insufficient_space"
        BY DEF OpenToRead
    <2>. QED
        BY <1>7, <2>1, PlanVisitSteps, RefusedIsIdle
<1>8. ASSUME GroupPrefix PROVE verdict' = verdict
    BY <1>8, GroupPrefixSteps
<1>9. ASSUME EndOfCollection PROVE verdict' = verdict
    BY <1>9, EndOfCollectionSteps, RefusedIsIdle
<1>10. ASSUME CountKey PROVE verdict' = verdict
    BY <1>10, CountKeySteps
<1>11. ASSUME EndPass PROVE verdict' = verdict
    BY <1>11, EndPassSteps
<1>12. ASSUME Conclude PROVE FALSE
    <2>1. verdict'.error = "ok"
        BY <1>12 DEF Conclude, Report
    <2>. QED
        BY <2>1
<1>13. NoVerdict.error # "insufficient_space"
    BY DEF NoVerdict
<1>14. ASSUME Disturb PROVE verdict' = verdict
    BY <1>14, DisturbSteps
<1>. QED
    BY <1>2, <1>3, <1>4, <1>5, <1>6, <1>7, <1>8, <1>9, <1>10, <1>11, <1>12, <1>13, <1>14,
       WalkSteps DEF VerifyStep

\* A store nobody has disturbed is refused for want of space only when no cutting of
\* its prefixes into runs would have fitted the budget and the passes: the greedy
\* grouping is the best one, for every store, assignment of prefixes and set of sizes.
THEOREM RefusedOnlyIfInfeasibleHolds == Spec => []RefusedOnlyIfInfeasible
<1>1. Init => RefusedOnlyIfInfeasible
    BY DEF Init, VerifyInit, NoVerdict, RefusedOnlyIfInfeasible
<1>2. /\ BudgetTyped /\ ScanInv /\ ExactInv /\ GreedyInv /\ RefusedOnlyIfInfeasible
      /\ [Next]_vars
      => RefusedOnlyIfInfeasible'
    BY RefusalStep
<1>. QED
    BY <1>1, <1>2, ScanInvariant, GreedyInvariant, PTL DEF Spec
=============================================================================
