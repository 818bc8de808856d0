-------------------------------- MODULE Ffff --------------------------------
(***************************************************************************)
(* Finding the firmware in the flash: common/src/ffff.c and                *)
(* common/shared_inc/ffff.h.                                               *)
(*                                                                         *)
(* The flash is a function from addresses to what a header read there      *)
(* finds.  A header's field elements is the sequence of the descriptors    *)
(* that fit in front of the trailing sentinel; flush says that the last of *)
(* them ends exactly at that sentinel.  Sums are taken modulo 2^Width.     *)
(***************************************************************************)
EXTENDS Integers, Sequences

CONSTANTS
  Width,          \* bits of a uint32_t
  HeaderSizeMin,  \* FFFF_HEADER_SIZE_MIN
  HeaderSizeMax,  \* MAX_FFFF_HEADER_SIZE_SUPPORTED
  BlockSizeMax,   \* FFFF_ERASE_BLOCK_SIZE_MAX
  Flashes         \* what the flash may hold

ASSUME FfffAssumption ==
  /\ Width \in Nat /\ HeaderSizeMin \in Nat \ {0}
  /\ HeaderSizeMax \in Nat /\ BlockSizeMax \in Nat
  /\ HeaderSizeMin <= HeaderSizeMax /\ HeaderSizeMin <= BlockSizeMax
  /\ 4 * BlockSizeMax < 2^Width /\ 4 * HeaderSizeMax < 2^Width

Max2(a, b) == IF a < b THEN b ELSE a
Lowest(S) == CHOOSE i \in S : \A j \in S : i <= j

-----------------------------------------------------------------------------
(* Elements. *)
ElementEnd(e) == (e.location + e.length - 1) % 2^Width

\* block_aligned: address & (block_size - 1) is 0, for any block_size.
block_aligned(address, block_size) ==
  \A k \in 0 .. Width - 1 :
    ~ /\ (address \div 2^k) % 2 = 1
      /\ (((block_size - 1) % 2^Width) \div 2^k) % 2 = 1

\* Where the second copy of h is, and the first address behind both.
SecondCopy(h) == Max2(h.erase_block_size, h.header_size)
ElementLocationMin(h) == 2 * SecondCopy(h)

\* is_element_out_of_range refuses a descriptor that ends at the sentinel.
Slots(h) == 1 .. Len(h.elements) - (IF h.flush THEN 1 ELSE 0)

\* The slots of S in front of the end marker.
BeforeEnd(h, S) == {i \in S : \A j \in 1 .. i : h.elements[j].type # "END"}

\* A slip: elements that share one address are let through.
CollideMore(e, o) == /\ ElementEnd(o) > e.location
                     /\ o.location < ElementEnd(e)

Collide(e, o) == /\ ElementEnd(o) >= e.location
                 /\ o.location <= ElementEnd(e)

Duplicate(e, o) == /\ e.type = o.type /\ e.id = o.id
                   /\ e.generation = o.generation

(* The error valid_ffff_element reports for slot i, BRE_OK if it is valid.
   The first later element that collides or duplicates decides which. *)
valid_ffff_element(h, i) ==
  LET e == h.elements[i]
      bad == {j \in BeforeEnd(h, Slots(h)) :
                j > i /\ (Collide(e, h.elements[j]) \/ Duplicate(e, h.elements[j]))}
  IN  IF e.type = "END" THEN "BRE_OK"
      ELSE IF \/ e.location < ElementLocationMin(h)
              \/ ElementEnd(e) >= h.flash_image_length
           THEN "BRE_FFFF_ELT_RESERVED_MEMORY"
      ELSE IF ~block_aligned(e.location, h.erase_block_size)
           THEN "BRE_FFFF_ELT_ALIGNMENT"
      ELSE IF bad = {} THEN "BRE_OK"
      ELSE IF Collide(e, h.elements[Lowest(bad)]) THEN "BRE_FFFF_ELT_COLLISION"
      ELSE "BRE_FFFF_ELT_DUPLICATE"

-----------------------------------------------------------------------------
(* Headers. *)
InvalidSlots(h) ==
  {i \in BeforeEnd(h, Slots(h)) : valid_ffff_element(h, i) # "BRE_OK"}

(* The error validate_ffff_header reports, BRE_OK if the header is valid. *)
validate_ffff_header(h) ==
  IF ~h.trailing_sentinel THEN "BRE_FFFF_SENTINEL"
  ELSE IF h.erase_block_size > BlockSizeMax THEN "BRE_FFFF_BLOCK_SIZE"
  ELSE IF h.flash_capacity < 2 * h.erase_block_size
       THEN "BRE_FFFF_FLASH_CAPACITY"
  ELSE IF h.flash_image_length > h.flash_capacity THEN "BRE_FFFF_IMAGE_LENGTH"
  ELSE IF InvalidSlots(h) # {}
       THEN valid_ffff_element(h, Lowest(InvalidSlots(h)))
  ELSE IF BeforeEnd(h, Slots(h)) = Slots(h) THEN "BRE_FFFF_NO_TABLE_END"
  ELSE "BRE_OK"

(* What load_ffff_header finds wrong with a header it can read. *)
HeaderError(h) ==
  IF ~h.sentinel THEN "BRE_FFFF_SENTINEL"
  ELSE IF h.header_size < HeaderSizeMin \/ h.header_size > HeaderSizeMax
       THEN "BRE_FFFF_HEADER_SIZE"
  ELSE validate_ffff_header(h)

Valid(h) == HeaderError(h) = "BRE_OK"

-----------------------------------------------------------------------------
VARIABLES
  flash,       \* the storage, as header reads see it
  lpc,         \* where locate_ffff_element_on_storage is
  address,     \* locate_ffff_table: where the next header is read
  header1,     \* ffff.header1
  cur_header,  \* *ffff.cur_header
  cur_element, \* *ffff.cur_element
  last_error   \* error.c: the first error since it was last reset

locateVars == <<lpc, address, header1, cur_header, cur_element, last_error>>
vars == <<flash, locateVars>>

\* The static header buffers before anything is read into them.
ZeroHeader ==
  [sentinel |-> FALSE, trailing_sentinel |-> FALSE, header_size |-> 0,
   erase_block_size |-> 0, flash_capacity |-> 0, flash_image_length |-> 0,
   generation |-> 0, elements |-> <<>>, flush |-> FALSE]

None == "none"

LocateInit ==
  /\ lpc = "first" /\ address = 0
  /\ header1 = ZeroHeader /\ cur_header = ZeroHeader /\ cur_element = None
  /\ last_error = "BRE_OK"

Init == flash \in Flashes /\ LocateInit

\* A slip: a second code is ored into the first one.
ErrorAfterOred(err) ==
  IF last_error \in {"BRE_OK", err} THEN err ELSE "ored"

\* set_last_error: the first error is sticky.
ErrorAfter(err) == IF last_error = "BRE_OK" THEN err ELSE last_error

\* A slip: the errors of the headers that were tried are kept.
UseTableUnreset(h) ==
  cur_header' = h /\ lpc' = "element" /\ UNCHANGED last_error

\* locate_ffff_table succeeds with h and forgets the errors on the way.
UseTable(h) == cur_header' = h /\ lpc' = "element" /\ last_error' = "BRE_OK"

\* ops->read fails, which ends the search at once.
ReadFails ==
  /\ lpc' = "failed"
  /\ last_error' = ErrorAfter("BRE_FFFF_LOAD_HEADER")
  /\ UNCHANGED <<address, header1, cur_header>>

(* The header at address 0. *)
LoadFirst ==
  LET h == flash[0] IN
  /\ lpc = "first"
  /\ \/ ReadFails
     \/ /\ Valid(h)
        /\ header1' = h /\ address' = SecondCopy(h)
        /\ lpc' = "second"
        /\ UNCHANGED <<cur_header, last_error>>
     \/ /\ ~Valid(h)
        /\ address' = HeaderSizeMin
        /\ lpc' = "search"
        /\ last_error' = ErrorAfter(HeaderError(h))
        /\ UNCHANGED <<header1, cur_header>>
  /\ UNCHANGED <<flash, cur_element>>

\* A slip: a second copy behind the largest erase block is not reached.
SearchLimitShort == BlockSizeMax

SearchLimit == 2 * BlockSizeMax

\* A slip: the search starts over at its end.
NextAddressCyclic(a) == IF 2 * a < SearchLimit THEN 2 * a ELSE HeaderSizeMin

NextAddress(a) == 2 * a

(* One round of the search for the second copy alone. *)
SearchSecond ==
  LET h == flash[address] IN
  /\ lpc = "search" /\ address < SearchLimit
  /\ \/ ReadFails
     \/ Valid(h) /\ UseTable(h) /\ UNCHANGED <<address, header1>>
     \/ /\ ~Valid(h)
        /\ address' = NextAddress(address)
        /\ last_error' = ErrorAfter(HeaderError(h))
        /\ UNCHANGED <<lpc, header1, cur_header>>
  /\ UNCHANGED <<flash, cur_element>>

SearchExhausted ==
  /\ lpc = "search" /\ address >= SearchLimit
  /\ lpc' = "failed"
  /\ last_error' = ErrorAfter("BRE_FFFF_HEADER_NOT_FOUND")
  /\ UNCHANGED <<flash, address, header1, cur_header, cur_element>>

\* A slip: the older of the two headers is used.
Older(h1, h2) == IF h2.generation < h1.generation THEN h2 ELSE h1

Newer(h1, h2) == IF h2.generation > h1.generation THEN h2 ELSE h1

(* The second copy, where the valid first one says it is. *)
LoadSecond ==
  LET h == flash[address] IN
  /\ lpc = "second"
  /\ \/ ReadFails
     \/ /\ UseTable(IF Valid(h) THEN Newer(header1, h) ELSE header1)
        /\ UNCHANGED <<address, header1>>
  /\ UNCHANGED <<flash, cur_element>>

(* The second stages locate_element looks at.  The bound of its loop differs
   from is_element_out_of_range: it takes in a descriptor that ends at the
   trailing sentinel. *)
Candidates(h) ==
  {i \in BeforeEnd(h, DOMAIN h.elements) : h.elements[i].type = "STAGE_2_FW"}

\* A slip: the first second stage is taken, whatever its generation.
FirstCandidate(h) == Lowest(Candidates(h))

\* The newest candidate, and of several the first.
BestCandidate(h) ==
  Lowest({i \in Candidates(h) : \A j \in Candidates(h) :
            h.elements[i].generation >= h.elements[j].generation})

(* locate_element for a second stage, and the ops->read that only sets the
   position of the next load. *)
LocateElement ==
  /\ lpc = "element"
  /\ \/ /\ Candidates(cur_header) # {}
        /\ cur_element' = cur_header.elements[BestCandidate(cur_header)]
        /\ lpc' = "found"
        /\ UNCHANGED last_error
     \/ /\ Candidates(cur_header) = {}
        /\ lpc' = "failed"
        /\ last_error' = ErrorAfter("BRE_FFFF_NO_FIRMWARE")
        /\ UNCHANGED cur_element
  /\ UNCHANGED <<flash, address, header1, cur_header>>

Locate == \/ LoadFirst \/ SearchSecond \/ SearchExhausted
          \/ LoadSecond \/ LocateElement

\* locate_ffff_element_on_storage has returned.
Returned == lpc \in {"found", "failed"} /\ UNCHANGED vars

Next == Locate \/ Returned

\* Nothing but the processor and the SPI master is waited for.
Spec == Init /\ [][Next]_vars /\ WF_vars(Locate)

-----------------------------------------------------------------------------
Errors ==
  {"BRE_OK", "BRE_FFFF_LOAD_HEADER", "BRE_FFFF_HEADER_SIZE",
   "BRE_FFFF_SENTINEL", "BRE_FFFF_NO_TABLE_END", "BRE_FFFF_BLOCK_SIZE",
   "BRE_FFFF_FLASH_CAPACITY", "BRE_FFFF_IMAGE_LENGTH", "BRE_FFFF_NO_FIRMWARE",
   "BRE_FFFF_ELT_RESERVED_MEMORY", "BRE_FFFF_ELT_ALIGNMENT",
   "BRE_FFFF_ELT_COLLISION", "BRE_FFFF_ELT_DUPLICATE",
   "BRE_FFFF_HEADER_NOT_FOUND"}

(* Types: a header buffer is untouched or holds what the flash holds
   somewhere, and the search address stays below twice its limit. *)
TypeOK ==
  /\ lpc \in {"first", "search", "second", "element", "found", "failed"}
  /\ address \in 0 .. Max2(4 * BlockSizeMax, HeaderSizeMax)
  /\ {header1, cur_header} \subseteq {ZeroHeader} \cup {flash[a] : a \in DOMAIN flash}
  /\ last_error \in Errors

(* locate_ffff_table ends with a valid header, and with the newest one: of a
   valid first copy and the copy it points to, neither is newer.  Without a
   valid first copy it is the first valid header on a power-of-two boundary. *)
TableIsNewest ==
  lpc \in {"element", "found"} =>
    LET h1 == flash[0] IN
    /\ Valid(cur_header)
    /\ Valid(h1) =>
         LET h2 == flash[SecondCopy(h1)] IN
         /\ cur_header \in {h1, h2}
         /\ \A h \in {h1, h2} : Valid(h) => cur_header.generation >= h.generation
    /\ ~Valid(h1) =>
         LET on == {a \in DOMAIN flash :
                      /\ \E k \in 0 .. Width : a = HeaderSizeMin * 2^k
                      /\ Valid(flash[a])}
         IN  cur_header = flash[Lowest(on)]

(* The error that locate_ffff_element_on_storage leaves behind agrees with
   what it returns: the errors of discarded headers do not survive a success,
   and no failure is silent. *)
ReportMatches ==
  /\ lpc = "found" => last_error = "BRE_OK"
  /\ lpc = "failed" => last_error # "BRE_OK"

NoWrap(e) == e.location + e.length < 2^Width

(* The scan of validate_ffff_header looks only forward, but in the end the
   element that is found is clear of both header copies and of every other
   element in front of the end marker, if no end address wraps around. *)
ElementsApart ==
  lpc = "found" =>
    LET live == BeforeEnd(cur_header, DOMAIN cur_header.elements) IN
    \E i \in live :
      /\ cur_element = cur_header.elements[i]
      /\ cur_element.location >= ElementLocationMin(cur_header)
      /\ \A j \in live \ {i} :
           LET o == cur_header.elements[j] IN
           NoWrap(cur_element) /\ NoWrap(o) =>
             (cur_element.location .. cur_element.location + cur_element.length - 1)
             \cap (o.location .. o.location + o.length - 1) = {}

(* The comment in valid_ffff_element asks whether an element spills over the
   end of the image; one that is found should not. *)
FoundIsInside ==
  lpc = "found" =>
    cur_element.location + cur_element.length <= cur_header.flash_image_length

(* The search for a table and an element always comes to an end. *)
LocateTerminates == <>(lpc \in {"found", "failed"})
=============================================================================
