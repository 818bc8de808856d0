---------------------------- MODULE MCFfffUpdate ----------------------------
(* Small instances of FfffUpdate: three firmware slots behind two
   erase blocks of four cells. *)
EXTENDS FfffUpdate

Elt(type, location, generation) ==
  [type |-> type, id |-> 1, location |-> location, length |-> 4,
   generation |-> generation]

MCTable(generation, location, previous) ==
  [sentinel |-> TRUE, trailing_sentinel |-> TRUE, header_size |-> 1,
   erase_block_size |-> 4, flash_capacity |-> 24, flash_image_length |-> 24,
   generation |-> generation, flush |-> FALSE,
   elements |-> <<Elt("STAGE_2_FW", previous, generation - 1),
                  Elt("STAGE_2_FW", location, generation), Elt("END", 0, 0)>>]
=============================================================================
