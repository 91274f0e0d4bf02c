----------------------------- MODULE Inspection -----------------------------
(***************************************************************************)
(* The two scans of a store, called by the program that has it open or by  *)
(* the tools that open it for inspection, and the exit status the tools    *)
(* make of what they are told.                                             *)
(***************************************************************************)
EXTENDS Uniqueness, Census

CONSTANTS
    CensusOptions,      \* the options a caller of census() may pass
    MaxScans            \* bound: scans

ASSUME InspectionAssumption == IsFiniteSet(CensusOptions) /\ MaxScans \in Nat

VARIABLES
    exit,       \* which tool ended and how: its status, whether its report came out whole
    scans       \* scans begun

vars == <<store, verifying, counting, exit, scans>>

NoExit == [tool |-> "none", status |-> 9, whole |-> FALSE]
Begins == ~Walking /\ ~Counting /\ scans < MaxScans /\ scans' = scans + 1

Init ==
    /\ StoreInit /\ VerifyInit /\ CensusInit
    /\ exit = NoExit /\ scans = 0

\* A scan is asked for by the program that has the store open or by a tool that has
\* opened it for inspection.
AskVerify(o) == Begins /\ Verify(o) /\ exit' = NoExit /\ UNCHANGED counting
AskCount(o) == Begins /\ Count(o) /\ exit' = NoExit /\ UNCHANGED verifying

\* Mutant of VerifyStatus: a report that was cut short leaves the verdict standing.
StatusOfVerdict(written) ==
    CASE verdict.error # "ok" -> 1
      [] OTHER -> IF verdict.unique THEN 0 ELSE 2

\* The verdict, unless there is none or it did not reach the reader whole.
VerifyStatus(written) ==
    CASE verdict.error # "ok" \/ ~written -> 1
      [] OTHER -> IF verdict.unique THEN 0 ELSE 2

\* The caller is the tool: an instance fresh from open() is not latched.
VerifyToolEnds(written) ==
    /\ verdict.error # "none" /\ latch = "none" /\ exit = NoExit
    /\ exit' = [tool |-> "verify", status |-> VerifyStatus(written), whole |-> written]
    /\ UNCHANGED <<store, verifying, counting, scans>>

\* The census tool does not look at how much of its report it wrote.
CensusToolEnds(written) ==
    /\ census.error # "none" /\ latch = "none" /\ exit = NoExit
    /\ exit' = [tool |-> "census", status |-> IF census.error = "ok" THEN 0 ELSE 3,
                whole |-> written]
    /\ UNCHANGED <<store, verifying, counting, scans>>

\* open_for_inspection fails.
ToolStops(tool, status) ==
    /\ Begins /\ exit = NoExit
    /\ exit' = [tool |-> tool, status |-> status, whole |-> FALSE]
    /\ verdict' = NoVerdict /\ census' = NoCensus
    /\ UNCHANGED <<store, walk, tally>>

VerifyCannotOpen == ToolStops("verify", 1)
CensusCannotOpen == ToolStops("census", 2)

Scan ==
    \/ VerifyStep /\ UNCHANGED <<counting, exit, scans>>
    \/ CensusStep /\ UNCHANGED <<verifying, exit, scans>>

Disturb ==
    /\ Walking \/ Counting
    /\ \A n \in DOMAIN gens : gens[n].damage = "none"
    /\ \E n \in DOMAIN gens : LoseFile(n) \/ \E key \in Key : Interfere(n, key)
    /\ UNCHANGED <<verifying, counting, exit, scans>>

Next ==
    \/ \E o \in VerifyOptions : AskVerify(o)
    \/ \E o \in CensusOptions : AskCount(o)
    \/ Scan \/ Disturb
    \/ \E written \in BOOLEAN : VerifyToolEnds(written) \/ CensusToolEnds(written)
    \/ VerifyCannotOpen \/ CensusCannotOpen

\* A scan is one thread that does not wait for anything.
Spec == Init /\ [][Next]_vars /\ WF_vars(Scan)
-----------------------------------------------------------------------------
\* The shape of the two scans' state.
TypeOK ==
    /\ mode \in {"full", "reference"} /\ DOMAIN gens \subseteq Class \X Nat
    /\ \A n \in DOMAIN gens : gens[n].keys \subseteq Key /\ gens[n].damage \in Damages
    /\ Walking =>
          /\ walk.at \in 0 .. Max({PlanningPrefixes, Len(walk.groups) + 1})
          /\ walk.out \in 0 .. Limit /\ walk.todo \subseteq DOMAIN gens
          /\ Len(walk.places) <= walk.opts.findings * walk.opts.locations
    /\ Counting => tally.todo \subseteq VersionsIn(tally.k) /\ tally.classes \subseteq Class
    /\ exit.status \in {0, 1, 2, 3, 9}

\* The verifying tool's status says what is stored: zero for a store without a second
\* copy and a report that came out whole, two for one with, one for no answer.
StatusIsTheVerdict ==
    exit.tool = "verify" /\ disturbed = 0 =>
        /\ exit.status = 0 => exit.whole /\ \A key \in StoredKeys : Cardinality(Copies(key)) = 1
        /\ exit.status = 2 => exit.whole /\ \E key \in StoredKeys : Cardinality(Copies(key)) > 1

\* Every scan ends, with a report or with a refusal, whatever it meets.
ScanEnds == (Walking \/ Counting) ~> (~Walking /\ ~Counting)
=============================================================================
