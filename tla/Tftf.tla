-------------------------------- MODULE Tftf --------------------------------
(***************************************************************************)
(* The TFTF image header and its validation: common/src/tftf.c from        *)
(* known_tftf_type to valid_tftf_header, the section scan of               *)
(* load_tftf_header, common/shared_inc/tftf.h, and                         *)
(* chip_validate_data_load_location of chips/tsb/src/tsb_chipapi.c.        *)
(*                                                                         *)
(* A header is a record whose field sections is the sequence of the        *)
(* descriptors that is_section_out_of_range lets the code see; out of      *)
(* range is then "past the end of the sequence".  (A descriptor that ends  *)
(* exactly at header_size is out of range for the code.)  Addresses and    *)
(* lengths are uint32_t: sums are taken modulo Modulus.                    *)
(***************************************************************************)
EXTENDS Integers, Sequences

CONSTANTS
  Modulus,    \* 2^32
  RamStart,   \* _workram_start
  RamEnd      \* _bootrom_data_area, the first address no image may reach

ASSUME TftfAssumption ==
  /\ Modulus \in Nat /\ RamStart \in Nat /\ RamEnd \in Nat
  /\ 0 < RamStart /\ RamStart < RamEnd /\ RamEnd < Modulus - 1

Addresses == 0 .. Modulus - 1
LoadingRam == RamStart .. RamEnd - 1

\* DATA_ADDRESS_TO_BE_IGNORED
Ignored == Modulus - 1

\* Section types of tftf.h; "UNKNOWN" stands for every other value.
UnsignedTypes == {"SIGNATURE", "CERTIFICATE"}
CompressedTypes == {"COMPRESSED_CODE", "COMPRESSED_DATA"}
known_tftf_type(t) ==
  t \in {"RAW_CODE", "RAW_DATA", "MANIFEST", "END"}
        \cup CompressedTypes \cup UnsignedTypes

SectionTypes == {"RAW_CODE", "RAW_DATA", "MANIFEST", "END", "UNKNOWN"}
                \cup CompressedTypes \cup UnsignedTypes

Slots(h) == 1 .. Len(h.sections)

\* The sections before the END marker (all slots if there is none).
Live(h) == {i \in Slots(h) : \A j \in 1 .. i : h.sections[j].type # "END"}

-----------------------------------------------------------------------------
chip_validate_data_load_location(base, length) ==
  /\ base >= RamStart
  /\ (base + length) % Modulus < RamEnd

\* One past the last address of a section, as the code computes it.
SectionEnd(s) == (s.addr + s.explen) % Modulus

\* A slip: a section that only touches another one counts as a collision.
CollidesInclusive(s, o) == ~ \/ SectionEnd(o) < s.addr
                             \/ o.addr > SectionEnd(s)

\* Do the address ranges of the two descriptors overlap?
Collides(s, o) == ~ \/ SectionEnd(o) <= s.addr
                    \/ o.addr >= SectionEnd(s)

(* The later sections the collision loop looks at.  It stops at the first
   section whose address is to be ignored. *)
Followers(h, i) ==
  {j \in Live(h) : j > i /\ \A k \in i + 1 .. j : h.sections[k].addr # Ignored}

ContainsStart(h, i) ==
  LET s == h.sections[i] IN
  /\ s.type = "RAW_CODE"
  /\ s.addr # Ignored
  /\ h.start >= s.addr
  /\ h.start < SectionEnd(s)

(* The error valid_tftf_section reports for slot i, BRE_OK if it is valid. *)
valid_tftf_section(h, i) ==
  LET s == h.sections[i] IN
  IF ~known_tftf_type(s.type) THEN "BRE_TFTF_HEADER_TYPE"
  ELSE IF s.type = "END" \/ s.addr = Ignored THEN "BRE_OK"
  ELSE IF s.explen < s.len THEN "BRE_TFTF_COMPRESSION_BAD"
  ELSE IF ~chip_validate_data_load_location(s.addr, s.explen)
       THEN "BRE_TFTF_MEMORY_RANGE"
  ELSE IF \E j \in Followers(h, i) : Collides(s, h.sections[j])
       THEN "BRE_TFTF_COLLISION"
  ELSE "BRE_OK"

\* The slots the loop of valid_tftf_header visits: up to and with the marker.
Visited(h) == {i \in Slots(h) : \A j \in 1 .. i - 1 : h.sections[j].type # "END"}

Least(S) == CHOOSE i \in S : \A j \in S : i <= j

(* The error valid_tftf_header reports, BRE_OK if the header is valid. *)
valid_tftf_header(h) ==
  LET bad == {i \in Visited(h) : valid_tftf_section(h, i) # "BRE_OK"} IN
  IF bad # {} THEN valid_tftf_section(h, Least(bad))
  ELSE IF Live(h) = Slots(h) THEN "BRE_TFTF_NO_TABLE_END"
  ELSE IF h.start # 0 /\ ~ \E i \in Live(h) : ContainsStart(h, i)
       THEN "BRE_TFTF_START_NOT_IN_CODE"
  ELSE "BRE_OK"

-----------------------------------------------------------------------------
(* Where the section scan of load_tftf_header stops: the END marker, a
   compressed section, or a hashed section after an unsigned one. *)
ScanStop(h) ==
  Least({i \in Visited(h) :
           \/ h.sections[i].type \in {"END"} \cup CompressedTypes
           \/ /\ h.sections[i].type \notin UnsignedTypes
              /\ \E j \in 1 .. i - 1 : h.sections[j].type \in UnsignedTypes})

ScanError(h) ==
  LET t == h.sections[ScanStop(h)].type IN
  IF t = "END" THEN "BRE_OK"
  ELSE IF t \in CompressedTypes THEN "BRE_TFTF_COMPRESSION_UNSUPPORTED"
  ELSE "BRE_TFTF_HASHED_SECTION_AFTER_UNHASHED"

ScanErrors == {"BRE_OK", "BRE_TFTF_COMPRESSION_UNSUPPORTED",
               "BRE_TFTF_HASHED_SECTION_AFTER_UNHASHED"}

\* The sections of type 0x80 and above in front of slot n.
UnsignedBefore(h, n) ==
  {i \in 1 .. n - 1 : h.sections[i].type \in UnsignedTypes}
=============================================================================
