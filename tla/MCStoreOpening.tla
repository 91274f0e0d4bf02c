--------------------------- MODULE MCStoreOpening ---------------------------
(* Two processes running two builds that agree on the width of every stored *)
(* field and differ in the mutex a segment carries.                         *)
EXTENDS StoreOpening

CONSTANTS p1, p2

MCBuildOf ==
    [p \in Proc |-> [geometry |-> 3, layout |-> 1, hash |-> 1, data |-> 8,
                     family |-> IF p = p1 THEN 1 ELSE 3, tag |-> 4]]

\* A merge of a size class whose target has its name, and one of the reference
\* container whose target has not.
MCMerges ==
    {[mode |-> "full", published |-> TRUE], [mode |-> "reference", published |-> FALSE]}

\* The targets of the two, a class's first version, and a version above it.
MCStrays == {<<0, 1>>, <<0, 2>>, <<1, 0>>, <<2, 0>>, <<2, 2>>}
=============================================================================
