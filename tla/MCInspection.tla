---------------------------- MODULE MCInspection ----------------------------
(* Three outpoints in two prefixes of four, the catalogues a store of up to *)
(* three versions may have, and options on both sides of every limit.       *)
EXTENDS Inspection

Few == {{}, {1}, {1, 2}, {1, 2, 3}}
Fewer == {{1}, {2, 3}, {1, 2, 3}}
MCContents ==
    [{<<0, 0>>} -> {{}, {1, 2, 3}}]
        \cup [{<<0, 0>>, <<0, 2>>} -> Few] \cup [{<<0, 1>>, <<1, 0>>} -> Few]
        \cup [{<<0, 0>>, <<0, 1>>, <<1, 0>>} -> Fewer]
        \cup [{<<0, 0>>, <<0, 1>>, <<0, 2>>} -> Fewer]

MCPrefixOf == <<0, 2, 2>>
MCLengthOf == <<1, 2, 2>>
MCCapacity == [k \in Class |-> 3 + k]

Option(b, p, f, l, i) == [budget |-> b, passes |-> p, findings |-> f, locations |-> l,
                          outpoints |-> i]
MCVerifyOptions ==
    {Option(40, 4, 1, 2, FALSE), Option(32, 4, 2, 1, TRUE), Option(24, 4, 1, 1, FALSE),
     Option(26, 1, 1, 2, FALSE), Option(10, 4, 0, 1, FALSE), Option(16, 4, 9, 1, FALSE),
     Option(40, 4, 60, 4, FALSE), Option(90, 4, 50, 1, FALSE)}
MCCensusOptions == {[blocks |-> TRUE], [blocks |-> FALSE]}
=============================================================================
