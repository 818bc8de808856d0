------------------------------- MODULE SpiLoad ------------------------------
(***************************************************************************)
(* The SPI flash as a data_load_ops: data_load_spi_load and _read of       *)
(* chips/es3tsb/src/es3_spi.c, with the SPI master that fills a FIFO of    *)
(* 32-bit frames while the code empties it.  A frame that finds the FIFO   *)
(* full is lost.  A byte is identified with its address in the flash.      *)
(***************************************************************************)
EXTENDS Integers, Sequences

CONSTANTS
  AddressSpace,  \* 2^24, the addresses of the SPI read command
  FrameLimit,    \* 2^16, the frame numbers that fit in CTRLR1
  FifoDepth,     \* depth of the receive FIFO
  Lengths,       \* lengths of the calls
  Places,        \* addresses of the reads
  MaxCalls       \* bound on the number of calls

ASSUME SpiAssumption ==
  /\ AddressSpace \in Nat \ {0} /\ FrameLimit \in Nat \ {0}
  /\ FifoDepth \in Nat \ {0} /\ MaxCalls \in Nat
  /\ Lengths \subseteq Nat /\ Places \subseteq 0 .. AddressSpace - 1

VARIABLES
  spc,           \* what data_load_spi_load is doing
  current_addr,  \* es3_spi.c
  length, hash,  \* arguments of the call
  frames,        \* CTRLR1 + 1: the frames the master is to fetch
  fetched,       \* how many it has fetched
  fifo,          \* the flash addresses of the frames in the FIFO
  c,             \* frames taken out of the FIFO
  dest,          \* the bytes written to the destination so far
  before,        \* current_addr when the call was made
  last, hashed,  \* as in DataLoad
  calls

vars == <<spc, current_addr, length, hash, frames, fetched, fifo, c, dest, before,
          last, hashed, calls>>

Contract == INSTANCE DataLoad WITH
  position <- (IF spc = "idle" THEN current_addr ELSE before) % AddressSpace

Init ==
  /\ spc = "idle" /\ current_addr = 0 /\ length = 0 /\ hash = FALSE
  /\ frames = 0 /\ fetched = 0 /\ fifo = <<>> /\ c = 0 /\ dest = <<>> /\ before = 0
  /\ last = Contract!NoCall /\ hashed = <<>> /\ calls = 0

-----------------------------------------------------------------------------
\* A slip: the address keeps its carry.
Unmasked(a) == a

Masked(a) == a % AddressSpace

\* A slip: CTRLR1 is given the count itself.
FramesPlusOne(count) == count + 1

\* CTRLR1 holds count - 1 in 16 bits; the master fetches one frame more.
Frames(count) == ((count - 1) % FrameLimit) + 1

\* The call for n bytes returns rc; only a success is hashed, if h asks for it.
Return(n, h, rc, bytes) ==
  /\ spc' = "idle"
  /\ last' = [length |-> n, rc |-> rc,
              bytes |-> IF rc = 0 THEN bytes ELSE <<>>]
  /\ hashed' = IF rc = 0 /\ h THEN hashed \o bytes ELSE hashed

(* The entry of data_load_spi_load, or of data_load_spi_read, which only sets
   the address before it calls the other. *)
Enter(from) ==
  /\ dest' = <<>> /\ c' = 0 /\ fetched' = 0 /\ before' = current_addr
  /\ \/ /\ length' = 0
        /\ current_addr' = from /\ Return(length', hash', 0, <<>>)
        /\ UNCHANGED frames
     \/ /\ length' > 0 /\ (length' \div 4) >= FrameLimit
        /\ current_addr' = Masked(from) /\ Return(length', hash', -1, <<>>)
        /\ UNCHANGED frames
     \/ /\ length' > 0 /\ (length' \div 4) < FrameLimit
        /\ current_addr' = Masked(from)
        /\ frames' = Frames(length' \div 4)
        /\ spc' = "frames"
        /\ UNCHANGED <<last, hashed>>
  /\ UNCHANGED fifo

Call ==
  /\ spc = "idle" /\ calls < MaxCalls /\ calls' = calls + 1
  /\ length' \in Lengths
  /\ \/ hash' = FALSE /\ \E addr \in Places : Enter(addr)
     \/ hash' \in BOOLEAN /\ Enter(current_addr)

\* The SPI master fetches a frame.
Fetch ==
  /\ spc = "frames" /\ fetched < frames
  /\ fetched' = fetched + 1
  /\ fifo' = IF Len(fifo) < FifoDepth
             THEN Append(fifo, current_addr + 4 * fetched) ELSE fifo
  /\ UNCHANGED <<spc, current_addr, length, hash, frames, c, dest, before, last,
                 hashed, calls>>

\* One round of the loop that finds the FIFO not empty.
Drain ==
  /\ spc = "frames" /\ fifo # <<>>
  /\ dest' = dest \o Contract!Bytes(Head(fifo), 4)
  /\ fifo' = Tail(fifo) /\ c' = c + 1
  /\ UNCHANGED <<spc, current_addr, length, hash, frames, fetched, before, last,
                 hashed, calls>>

\* A slip: the loop waits for the frames it expects.
AllCounted == c = length \div 4

\* Neither SPIM_SR_BUSY nor SPIM_SR_RFNE, once a frame has been seen.
FramesDone == c > 0 /\ fetched = frames /\ fifo = <<>>

\* A round of the loop with nothing to do yet.
Poll == spc = "frames" /\ fifo = <<>> /\ ~FramesDone /\ UNCHANGED vars

\* A slip: lost frames are not noticed.
CountIgnored == TRUE

CountRight == c = length \div 4

\* The end of the loop.
EndFrames ==
  /\ spc = "frames" /\ FramesDone
  /\ \/ /\ ~CountRight
        /\ Return(length, hash, -1, <<>>) /\ UNCHANGED current_addr
     \/ /\ CountRight
        /\ current_addr' = Masked(current_addr + 4 * (length \div 4))
        /\ IF length % 4 = 0 THEN Return(length, hash, 0, dest)
           ELSE spc' = "trailing" /\ UNCHANGED <<last, hashed>>
  /\ UNCHANGED <<length, hash, frames, fetched, fifo, c, dest, before, calls>>

\* One more frame, of which the trailing bytes are used.
ReadTrailing ==
  /\ spc = "trailing"
  /\ dest' = dest \o Contract!Bytes(current_addr, length % 4)
  /\ current_addr' = current_addr + (length % 4)
  /\ Return(length, hash, 0, dest')
  /\ UNCHANGED <<length, hash, frames, fetched, fifo, c, before, calls>>

\* The image is loaded, or loading has failed.
Enough == spc = "idle" /\ calls = MaxCalls /\ UNCHANGED vars

Next == Call \/ Fetch \/ Drain \/ Poll \/ EndFrames \/ ReadTrailing \/ Enough

\* Both the processor and the SPI master keep going.
Spec == /\ Init /\ [][Next]_vars
        /\ WF_vars(Fetch) /\ WF_vars(Drain) /\ WF_vars(EndFrames \/ ReadTrailing)

-----------------------------------------------------------------------------
(* Types: the address leaves 24 bits by the trailing bytes at most. *)
TypeOK ==
  /\ spc \in {"idle", "frames", "trailing"}
  /\ current_addr \in 0 .. AddressSpace + 3
  /\ length \in Lengths \cup {0} /\ hash \in BOOLEAN
  /\ frames \in 0 .. FrameLimit /\ fetched \in 0 .. frames /\ c \in 0 .. frames
  /\ Len(fifo) <= FifoDepth

(* data_load_spi_load keeps the contract of data_loading.h: a call that
   returns 0 has transferred exactly the bytes that follow the call before,
   and hashed them if it was asked to, whether or not the FIFO overflowed. *)
KeepsContract == Contract!Spec

(* At no time has a call written more than it was asked for. *)
NoOverrun == Len(dest) <= length

(* Every call returns, also when frames are lost. *)
CallReturns == spc # "idle" ~> spc = "idle"
=============================================================================
