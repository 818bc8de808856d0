----------------------------- MODULE FfffUpdate -----------------------------
(***************************************************************************)
(* An update of the flash, interrupted by power losses, under the search   *)
(* of Ffff.  The program that updates the flash is not part of the boot    *)
(* ROM; what it does is taken from the comment in locate_ffff_table (two   *)
(* copies, damaged or out of sync if an update is interrupted) and from    *)
(* the repository's README.  It runs when the boot has found its firmware, *)
(* writes the new firmware where the old one is not, and then rewrites the *)
(* two headers one after the other, the one not in use first.              *)
(***************************************************************************)
EXTENDS Ffff

CONSTANTS
  Table(_, _, _), \* the header with a generation, the location of its
                  \* firmware and of the firmware of the generation before
  Locations,      \* where a second stage may be put
  MaxGeneration,  \* bound on the number of updates
  MaxPowerCuts    \* bound on the number of power losses

VARIABLES
  upc,        \* what the updater is doing
  target,     \* the address of the header copy it is rewriting
  new_table,  \* the header it writes
  complete,   \* locations that hold a complete second stage
  committed,  \* generation of the newest header ever completed
  power_cuts

updateVars == <<upc, target, new_table, complete, committed, power_cuts>>
uvars == <<vars, updateVars>>

Blank == ZeroHeader

\* The front of a header whose end has not been programmed yet.
Torn(h) ==
  [h EXCEPT !.trailing_sentinel = FALSE,
            !.elements = <<h.elements[1]>>]

UpdateInit ==
  /\ LocateInit
  /\ \E loc \in Locations, prev \in Locations :
       /\ loc # prev
       /\ flash = LET h == Table(1, loc, prev) IN
                  [a \in 0 .. 2 * BlockSizeMax |->
                     IF a \in {0, SecondCopy(h)} THEN h ELSE Blank]
       /\ complete = {loc}
  /\ upc = "idle" /\ target = 0 /\ new_table = Blank
  /\ committed = 1 /\ power_cuts = 0

Boot == Locate /\ UNCHANGED updateVars

\* The new firmware goes where the one in use is not.
BeginUpdate ==
  /\ lpc = "found" /\ upc = "idle"
  /\ cur_header.generation < MaxGeneration
  /\ \E loc \in Locations \ {cur_element.location} :
       /\ new_table' = Table(cur_header.generation + 1, loc, cur_element.location)
       /\ complete' = complete \ {loc}
  /\ upc' = "payload"
  /\ UNCHANGED <<vars, target, committed, power_cuts>>

\* The firmware is complete; the header copy that is not in use comes first.
WritePayload ==
  /\ upc = "payload"
  /\ complete' = complete \cup
       {new_table.elements[i].location : i \in Candidates(new_table)}
  /\ target' = IF flash[0] = cur_header THEN SecondCopy(new_table) ELSE 0
  /\ upc' = "erase"
  /\ UNCHANGED <<vars, new_table, committed, power_cuts>>

Program(h) == flash' = [flash EXCEPT ![target] = h]

EraseHeader ==
  /\ upc = "erase" /\ upc' = "front" /\ Program(Blank)
  /\ UNCHANGED <<locateVars, target, new_table, complete, committed, power_cuts>>

ProgramFront ==
  /\ upc = "front" /\ upc' = "back" /\ Program(Torn(new_table))
  /\ UNCHANGED <<locateVars, target, new_table, complete, committed, power_cuts>>

\* The header is complete.  The other copy follows, if it is still old.
ProgramBack ==
  LET other == IF target = 0 THEN SecondCopy(new_table) ELSE 0 IN
  /\ upc = "back" /\ Program(new_table)
  /\ committed' = new_table.generation
  /\ IF flash[other] = new_table
     THEN upc' = "done" /\ UNCHANGED target
     ELSE upc' = "erase" /\ target' = other
  /\ UNCHANGED <<locateVars, new_table, complete, power_cuts>>

(* The next boot starts: the update is complete, or the power is lost at any
   time, in the update or in the boot. *)
Restart ==
  /\ \/ upc = "done" /\ UNCHANGED power_cuts
     \/ power_cuts < MaxPowerCuts /\ power_cuts' = power_cuts + 1
  /\ lpc' = "first" /\ address' = 0
  /\ header1' = ZeroHeader /\ cur_header' = ZeroHeader /\ cur_element' = None
  /\ last_error' = "BRE_OK"
  /\ upc' = "idle" /\ target' = 0 /\ new_table' = Blank
  /\ UNCHANGED <<flash, complete, committed>>

Idle ==
  /\ \/ lpc = "failed"
     \/ lpc = "found" /\ upc = "idle" /\ cur_header.generation = MaxGeneration
  /\ UNCHANGED uvars

UpdateNext ==
  \/ Boot \/ BeginUpdate \/ WritePayload
  \/ EraseHeader \/ ProgramFront \/ ProgramBack \/ Restart \/ Idle

UpdateSpec == UpdateInit /\ [][UpdateNext]_uvars

-----------------------------------------------------------------------------
(* The duplicated tables let the boot go back to the intact one: whenever the
   power is lost, the search of locate_ffff_table finds a header and the
   header names a second stage.  (A read that fails ends the boot all the
   same.) *)
SpareIsFound ==
  /\ ~(lpc = "search" /\ address >= SearchLimit)
  /\ lpc = "element" => Candidates(cur_header) # {}

(* The firmware that a boot finds, by whichever copy of the table, was
   written to its end, however the updates before were interrupted. *)
FirmwareComplete ==
  lpc = "found" /\ upc = "idle" => cur_element.location \in complete

(* Once a header of some generation has been completed, no later boot goes
   back to an older table. *)
NoRollback ==
  lpc = "found" /\ upc = "idle" => cur_header.generation >= committed
=============================================================================
