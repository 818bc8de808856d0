----------------------------- MODULE TftfProofs -----------------------------
(***************************************************************************)
(* Facts about the header checks of module Tftf, for every header and      *)
(* every address space: what a header that passes them looks like to the   *)
(* loop that processes its sections.                                       *)
(***************************************************************************)
EXTENDS Tftf, WellFoundedInduction, TLAPS

(* The least element the scans choose exists in every set of slots that is
   not empty: each loop of tftf.c that stops at "the first section that" has
   a well-defined stopping place. *)
LEMMA LeastProperties ==
  ASSUME NEW S \in SUBSET Nat, S # {}
  PROVE  Least(S) \in S /\ \A j \in S : Least(S) <= j
<1> DEFINE R == {ss \in Nat \X Nat : ss[1] < ss[2]}
<1>1. IsWellFoundedOn(R, Nat)
  BY NatLessThanWellFounded, Zenon DEF OpToRel
<1>2. PICK x \in S : \A y \in S : ~ (<<y, x>> \in R)
  <2> HIDE DEF R
  <2> QED BY <1>1, WFMin, Zenon
<1>3. \A y \in S : x <= y
  <2> SUFFICES ASSUME NEW y \in S, y < x PROVE FALSE
    OBVIOUS
  <2>1. <<y, x>> \in Nat \X Nat /\ <<y, x>>[1] < <<y, x>>[2]
    OBVIOUS
  <2> QED BY <2>1, <1>2, Zenon
<1> QED BY <1>3 DEF Least

(* The section loop of load_tftf_header, on a header valid_tftf_header and
   the scan itself accept: it stops at the END marker, the sections in front
   of the marker are the ones load_tftf_image processes, and behind an
   unsigned section there are only unsigned ones. *)
THEOREM ScanProperties ==
  ASSUME NEW h, Len(h.sections) \in Nat,
         valid_tftf_header(h) = "BRE_OK", ScanError(h) = "BRE_OK"
  PROVE  /\ ScanStop(h) \in Slots(h)
         /\ h.sections[ScanStop(h)].type = "END"
         /\ Live(h) = 1 .. ScanStop(h) - 1
         /\ \A i, j \in Live(h) :
              i <= j /\ h.sections[i].type \in UnsignedTypes
                => h.sections[j].type \in UnsignedTypes
<1> DEFINE type(i) == h.sections[i].type
           Ends == {i \in Slots(h) : type(i) = "END"}
           Stops == {i \in Visited(h) :
                       \/ type(i) \in {"END"} \cup CompressedTypes
                       \/ /\ type(i) \notin UnsignedTypes
                          /\ \E j \in 1 .. i - 1 : type(j) \in UnsignedTypes}
<1>1. Ends # {}
  <2>1. Live(h) # Slots(h)
    <3> DEFINE bad == {i \in Visited(h) : valid_tftf_section(h, i) # "BRE_OK"}
    <3>1. bad \in SUBSET Nat
      BY DEF Visited, Slots
    <3>2. bad # {} => Least(bad) \in bad
      <4> HIDE DEF bad
      <4> QED BY <3>1, LeastProperties
    <3> QED BY <3>2 DEF valid_tftf_header
  <2> QED BY <2>1 DEF Live, Slots
<1>2. PICK e \in Ends : \A j \in Ends : e <= j
  <2>1. Ends \in SUBSET Nat
    BY DEF Slots
  <2> HIDE DEF Ends
  <2> QED BY <1>1, <2>1, LeastProperties
<1>3. e \in Stops /\ Stops \in SUBSET Nat
  BY <1>2 DEF Visited, Slots
<1>4. /\ Least(Stops) \in Stops
      /\ \A j \in Stops : Least(Stops) <= j
  <2> HIDE DEF Stops
  <2> QED BY <1>3, LeastProperties
<1> DEFINE n == Least(Stops)
<1>5. ScanStop(h) = n
  BY DEF ScanStop
<1>6. type(n) = "END" /\ n \in Visited(h)
  BY <1>4, <1>5 DEF ScanError
<1>7. Live(h) = 1 .. n - 1
  <2> HIDE DEF n
  <2> QED BY <1>6 DEF Live, Slots, Visited
<1>8. ASSUME NEW i \in Live(h), NEW j \in Live(h), i <= j,
             type(i) \in UnsignedTypes, type(j) \notin UnsignedTypes
      PROVE  FALSE
  <2>1. j \in Visited(h) /\ i \in 1 .. j - 1
    BY <1>8 DEF Live, Visited, Slots
  <2>2. j \in Stops
    BY <2>1, <1>8
  <2>3. n \in Nat /\ n <= j
    <3> HIDE DEF Stops
    <3> QED BY <2>2, <1>3, <1>4
  <2> HIDE DEF n
  <2> QED BY <2>3, <1>7
<1> HIDE DEF n
<1> QED BY <1>5, <1>6, <1>7, <1>8 DEF Visited
=============================================================================
