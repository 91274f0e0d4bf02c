---------------------------- MODULE StoredEntries ----------------------------
(***************************************************************************)
(* What the two scans of an open store walk over: every entry of every     *)
(* version of every class, in place where the version is the active one    *)
(* and mapped, by opening the file otherwise.  The arithmetic on figures   *)
(* taken from files is here too, at the width of the type that holds them. *)
(*                                                                         *)
(* A scan is not protected from the rest of the process.  Its contract     *)
(* forbids concurrent mutation and nothing enforces it, and a file it has  *)
(* read may be gone when it reads it again: both are actions here.         *)
(***************************************************************************)
EXTENDS Naturals, FiniteSets, FiniteSetsExt, Sequences, SequencesExt

CONSTANTS
    Class,              \* size classes: 0 .. n - 1; a reference store has class 0 alone
    Key,                \* outpoints: naturals, in the order of their bytes
    Contents,           \* what the versions <<class, number>> of a store may hold
    Limit,              \* the largest value of the integer type
    MaxDisturbances     \* bound: writes and losses under a scan

ASSUME EntriesAssumption ==
    /\ Class \subseteq Nat /\ Key \subseteq Nat
    /\ IsFiniteSet(Class) /\ IsFiniteSet(Key)
    /\ \A c \in Contents :
          /\ IsFiniteSet(DOMAIN c) /\ DOMAIN c \subseteq Class \X Nat
          /\ \A n \in DOMAIN c : c[n] \subseteq Key
    /\ {Limit, MaxDisturbances} \subseteq Nat

VARIABLES
    mode,           \* storage mode
    gens,           \* the versions: what each holds and what is wrong with its file
    mapped,         \* classes whose active version is mapped
    latch,          \* what an operation before this one left behind
    disturbed       \* disturbances so far

store == <<mode, gens, mapped, latch, disturbed>>

Damages == {"none", "unreadable", "unsized", "unmeasured", "overfull", "oversized", "shrunk"}

ActiveOf(k) == Max({n[2] : n \in {m \in DOMAIN gens : m[1] = k}})
Active(n) == n[2] = ActiveOf(n[1])
InPlace(n) == Active(n) /\ n[1] \in mapped

\* The order of the walk: class by class, version by version.
Before(a, b) == a[1] < b[1] \/ (a[1] = b[1] /\ a[2] < b[2])
First(S) == CHOOSE a \in S : \A b \in S \ {a} : Before(a, b)

\* open_existing_segment, validate_stamp and find_single_named, asked of every
\* version that is not read in place.
OpenToRead(n) == IF InPlace(n) THEN "ok"
                 ELSE IF gens[n].damage = "unreadable" THEN "version_unreadable" ELSE "ok"

Overflows(x) == x > Limit
CheckedMul(a, b) == [ok |-> ~Overflows(a * b), value |-> (a * b) % (Limit + 1)]
CheckedAdd(a, b) == [ok |-> ~Overflows(a + b), value |-> IF Overflows(a + b) THEN a ELSE a + b]

Copies(key) == {n \in DOMAIN gens : key \in gens[n].keys}
StoredKeys == UNION {gens[n].keys : n \in DOMAIN gens}
StoredCopies == UNION {{n} \X gens[n].keys : n \in DOMAIN gens}
Physical == Cardinality(StoredCopies)

\* A store that was opened serves or is latched; one that is latched may have lost
\* its mappings.  A reference store has one class.
StoreInit ==
    /\ mode \in {"full", "reference"}
    /\ latch \in {"none", "recovery", "integrity"}
    /\ \E c \in Contents, d \in IF latch = "none" THEN Damages ELSE {"none"} :
          \E bad \in IF d = "none" THEN {First(DOMAIN c)} ELSE DOMAIN c :
             /\ mode = "reference" => \A n \in DOMAIN c : n[1] = 0
             /\ gens = [n \in DOMAIN c |->
                          [keys |-> c[n], damage |-> IF n = bad THEN d ELSE "none"]]
    /\ mapped \in {Class} \cup (IF latch = "recovery" THEN {{}} ELSE {})
    /\ disturbed = 0

\* A thread of the same process writes under the scan.
Interfere(n, key) ==
    /\ disturbed < MaxDisturbances
    /\ disturbed' = disturbed + 1
    /\ Active(n)
    /\ gens' = [gens EXCEPT ![n].keys = IF key \in @ THEN @ \ {key} ELSE @ \cup {key}]
    /\ UNCHANGED <<mode, mapped, latch>>

\* A file stops being readable under the scan.
LoseFile(n) ==
    /\ disturbed < MaxDisturbances
    /\ disturbed' = disturbed + 1
    /\ gens' = [gens EXCEPT ![n].damage = "unreadable"]
    /\ UNCHANGED <<mode, mapped, latch>>
=============================================================================
