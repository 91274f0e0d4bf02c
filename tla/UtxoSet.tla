------------------------------- MODULE UtxoSet -------------------------------
(***************************************************************************)
(* What the store is to its owner, with no files in it: a map from         *)
(* outpoints to their entries, changed by insertions and deletions alone,  *)
(* and the replies its operations give.                                    *)
(***************************************************************************)
CONSTANTS Key, Class, Nowhere

VARIABLES
    utxos,       \* where each outpoint's entry is: a size class, or Nowhere
    reply        \* what the last operation returned

Present == {k \in Key : utxos[k] # Nowhere}

Init ==
    /\ utxos = [k \in Key |-> Nowhere]
    /\ reply = [op |-> "none"]

Create(k, c) ==
    /\ reply' = [op |-> "insert", inserted |-> TRUE]
    /\ utxos[k] = Nowhere
    /\ utxos' = [utxos EXCEPT ![k] = c]

\* insert() may say false only of an entry that is there.
AlreadyThere(k) ==
    /\ reply' = [op |-> "insert", inserted |-> FALSE]
    /\ k \in Present
    /\ UNCHANGED utxos

\* An insert that reports an error may have stored its entry.
CreateInDoubt(k, c) ==
    /\ reply' = [op |-> "error"]
    /\ utxos[k] = Nowhere
    /\ utxos' = [utxos EXCEPT ![k] = c]

\* find() answers from part of the set: a miss says nothing.
Find(k) ==
    /\ \E hit \in BOOLEAN :
          /\ reply' = [op |-> "find", key |-> k, hit |-> hit]
          /\ hit => k \in Present
    /\ UNCHANGED utxos

\* resolve() finds only what is there.  (What its absences mean depends on what
\* the caller did since find(): AbsentUnlessMoved of module Engine.)
Resolve(K) ==
    /\ \E found \in SUBSET K :
          /\ reply' = [op |-> "resolve", found |-> found, absent |-> K \ found]
          /\ found \subseteq Present
    /\ UNCHANGED utxos

\* A batch is applied in full and the rest is absent, or in part and the rest
\* is left unresolved.
Spend(K) ==
    \E gone \in SUBSET K, complete \in BOOLEAN :
        /\ reply' = [op |-> "delete", batch |-> K, erased |-> gone,
                     absent |-> IF complete THEN K \ gone ELSE {},
                     unresolved |-> IF complete THEN {} ELSE K \ gone]
        /\ gone \subseteq Present
        /\ complete => gone = K \cap Present
        /\ utxos' = [k \in Key |-> IF k \in gone THEN Nowhere ELSE utxos[k]]

\* Compaction, close and failed operations.
Nothing ==
    /\ reply' \in {[op |-> "none"], [op |-> "error"]}
    /\ UNCHANGED utxos

Next ==
    \/ Nothing
    \/ \E k \in Key : AlreadyThere(k) \/ Find(k)
    \/ \E k \in Key, c \in Class : Create(k, c) \/ CreateInDoubt(k, c)
    \/ \E K \in SUBSET Key : Resolve(K) \/ Spend(K)

Spec == Init /\ [][Next]_<<utxos, reply>>
=============================================================================
