------------------------------- MODULE MCFfff -------------------------------
(* Ffff over every placement of a few headers in a flash of nine units. *)
EXTENDS Ffff

Elt(type, id, location, length, generation) ==
  [type |-> type, id |-> id, location |-> location, length |-> length,
   generation |-> generation]
End == Elt("END", 0, 0, 0, 0)
Fw(location, length, generation) == Elt("STAGE_2_FW", 1, location, length, generation)
Dat(location, length) == Elt("DATA", 1, location, length, 1)

Header(generation, elements) ==
  [sentinel |-> TRUE, trailing_sentinel |-> TRUE, header_size |-> 1,
   erase_block_size |-> 2, flash_capacity |-> 24, flash_image_length |-> 20,
   generation |-> generation, elements |-> elements, flush |-> FALSE]

Good == Header(1, <<Fw(4, 4, 1), Dat(8, 2), End>>)
Newest == Header(3, <<Fw(12, 2, 2), Fw(8, 4, 3), Fw(14, 2, 3), End>>)
\* The header is longer than an erase block, so the second copy is at 3.
Long == [Header(2, <<Fw(6, 2, 1), End>>) EXCEPT !.header_size = 3]
Wide == [Header(2, <<Dat(8, 4), Fw(12, 4, 1), End>>) EXCEPT !.erase_block_size = 4]

Blank == [Good EXCEPT !.sentinel = FALSE]
Rejected ==
  {[Newest EXCEPT !.header_size = 0], [Newest EXCEPT !.trailing_sentinel = FALSE],
   [Newest EXCEPT !.erase_block_size = 5], [Newest EXCEPT !.flash_capacity = 3],
   [Newest EXCEPT !.flash_image_length = 25],
   Header(4, <<Fw(2, 2, 1), End>>), Header(4, <<Fw(5, 2, 1), End>>),
   Header(4, <<Dat(8, 2), Fw(4, 5, 1), End>>),
   Header(4, <<Fw(4, 2, 1), Dat(8, 2), Fw(6, 2, 1), End>>),
   [Header(4, <<Fw(4, 2, 1), End>>) EXCEPT !.flush = TRUE]}
\* Valid, but without a second stage.
NoFirmware == Header(1, <<Dat(4, 2), End, Fw(8, 2, 1)>>)

\* The last address of the firmware is 8 + 26 - 1, which wraps around to 1.
Wrapping == Header(1, <<Fw(8, 26, 1), End>>)

Place(h0, h1, h2, h3, h4) ==
  [a \in 0 .. 8 |-> CASE a = 0 -> h0 [] a = 1 -> h1 [] a = 2 -> h2
                      [] a = 3 -> h3 [] a = 4 -> h4 [] OTHER -> Blank]

Headers == {Good, Newest, Long, Wide, Blank, NoFirmware} \cup Rejected
MCFlashes == {Place(h0, h1, h2, h3, h4) :
                h0 \in Headers, h1 \in {Blank, Good}, h2 \in Headers,
                h3 \in {Blank, Newest}, h4 \in {Blank, Good, Newest}}
MCWrapping == {Place(Wrapping, Blank, Wrapping, Blank, Blank)}
=============================================================================
