--------------------------- MODULE DurableUtxoSet ---------------------------
(***************************************************************************)
(* What sync() promises its caller, with no files in it: the set of        *)
(* outpoints stored, a checkpoint of it, and a loss of power that may take *)
(* back only what happened to an outpoint after the checkpoint.  A sync()  *)
(* does not answer for what an earlier instance left unsynced, nor for the *)
(* generation a compaction found active and left behind.                   *)
(***************************************************************************)
CONSTANT Key

VARIABLES
    utxos,       \* the outpoints stored
    checkpoint,  \* utxos when sync() last returned
    touched,     \* outpoints inserted or deleted since, or not covered by it
    uncovered    \* those of them that sync() does not answer for

absvars == <<utxos, checkpoint, touched, uncovered>>

Init ==
    /\ utxos = {}
    /\ checkpoint = {}
    /\ touched = {}
    /\ uncovered = {}

Create(k) ==
    /\ utxos' = utxos \cup {k}
    /\ touched' = touched \cup {k}
    /\ UNCHANGED <<checkpoint, uncovered>>

Spend(K) ==
    /\ utxos' = utxos \ K
    /\ touched' = touched \cup K
    /\ UNCHANGED <<checkpoint, uncovered>>

Checkpoint ==
    /\ checkpoint' = utxos
    /\ touched' \in SUBSET uncovered
    /\ uncovered' = touched'
    /\ UNCHANGED utxos

\* The instance ends without a loss of power, or compacts.
Disown ==
    /\ \E K \in SUBSET touched : uncovered' = uncovered \cup K
    /\ UNCHANGED <<utxos, checkpoint, touched>>

\* Power is lost: what remains is on stable storage.
LosePower ==
    /\ utxos' \in SUBSET Key
    /\ utxos' \ touched = checkpoint \ touched
    /\ uncovered' = {}
    /\ UNCHANGED <<checkpoint, touched>>

Next ==
    \/ \E k \in Key : Create(k)
    \/ \E K \in SUBSET Key : Spend(K)
    \/ Checkpoint
    \/ Disown
    \/ LosePower

Spec == Init /\ [][Next]_absvars
=============================================================================
