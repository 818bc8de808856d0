------------------------------ MODULE MCGbBoot ------------------------------
(* Small instances of GbBoot: blocks of two bytes, images of up to three
   loads that end on a block boundary or inside a block, or are empty. *)
EXTENDS GbBoot

L(bytes, hash) == [length |-> bytes, hash |-> hash]
MCPlans == {<<L(2, FALSE), L(5, TRUE), L(1, FALSE)>>,
            <<L(1, FALSE), L(4, TRUE), L(3, TRUE)>>,
            <<L(3, FALSE), L(0, TRUE), L(9, TRUE)>>}
MCOnePlan == {<<L(2, FALSE), L(4, FALSE)>>}
=============================================================================
