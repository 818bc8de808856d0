------------------------------ MODULE DataLoad ------------------------------
(***************************************************************************)
(* What common/include/data_loading.h promises of a medium with random     *)
(* access: "read" and "load" transfer exactly the requested bytes or fail, *)
(* and "load" goes on where the call before ended.  A byte is identified   *)
(* with its address on the medium.                                         *)
(***************************************************************************)
EXTENDS Integers, Sequences

CONSTANTS
  AddressSpace,  \* the addresses of the medium wrap around at this number
  Lengths,       \* the lengths that are asked for
  Places         \* the addresses that are read

VARIABLES
  position,  \* where the next load starts
  last,      \* the call before: what was asked for, its result, its bytes
  hashed     \* what hash_update has been given

vars == <<position, last, hashed>>

Bytes(from, n) == [i \in 1 .. n |-> (from + i - 1) % AddressSpace]

NoCall == [length |-> 0, rc |-> 0, bytes |-> <<>>]

Init == position = 0 /\ last = NoCall /\ hashed = <<>>

\* A transfer of n bytes from a given address, hashed or not.
Transfer(from, n, hash) ==
  \/ /\ last' = [length |-> n, rc |-> 0, bytes |-> Bytes(from, n)]
     /\ position' = (from + n) % AddressSpace
     /\ hashed' = IF hash THEN hashed \o Bytes(from, n) ELSE hashed
  \/ /\ last' = [length |-> n, rc |-> -1, bytes |-> <<>>]
     /\ position' \in 0 .. AddressSpace - 1
     /\ UNCHANGED hashed

Read == \E p \in Places, n \in Lengths : Transfer(p, n, FALSE)
Load == \E n \in Lengths, hash \in BOOLEAN : Transfer(position, n, hash)

Next == Read \/ Load

Spec == Init /\ [][Next]_vars
=============================================================================
