------------------------------- MODULE GbBoot -------------------------------
(***************************************************************************)
(* Firmware download over Greybus: the bridge (common/src/gbboot.c,        *)
(* gbcore.c, ara_mailbox.c and the receive path of tsb_unipro.c) and its   *)
(* peer, switch and AP in one (apps/gbboot_server/src/start.c).            *)
(*                                                                         *)
(* The bridge polls: a message is received, and its handler runs, only in  *)
(* greybus_loop, so one Receive step is a whole handler with the code up   *)
(* to the next wait.  Messages on a CPort stay in order.  The n-th byte of *)
(* the firmware is the number n; memory is the concatenation of the        *)
(* destinations of successive loads, so byte n belongs at mem[n].          *)
(***************************************************************************)
EXTENDS Integers, Sequences

CONSTANTS
  Modulus,       \* 2^32
  WorkramSize,   \* WORKRAM_SIZE
  MaxPayload,    \* GB_MAX_PAYLOAD_SIZE
  Plans,         \* sequences of [length, hash]: the loads of an image
  Sizes,         \* firmware sizes the AP may report
  MaxAsks,       \* bound on unsolicited GET_VID_PID requests
  MaxApReady     \* bound on the number of AP_READY requests

ASSUME GbBootAssumption ==
  /\ Modulus \in Nat /\ MaxPayload \in Nat \ {0} /\ WorkramSize \in Nat
  /\ WorkramSize < Modulus /\ MaxAsks \in Nat /\ MaxApReady \in Nat \ {0}

ControlCPort == 0
BootCPort == 1
CPorts == {ControlCPort, BootCPort}

VARIABLES
  \* the bridge
  gpc,            \* what bootrom_main is waiting for, or about to do
  armed,          \* CPorts whose receive buffer is armed
  responded_op,   \* gbboot.c: type of the last response handled
  size_response,  \* gbboot.c: firmware_size_response
  buff,           \* gbboot.c: fw_get_firmware_buff
  offset,         \* gbboot.c
  firmware_size,  \* gbboot.c
  plan,           \* the loads of the image
  done,           \* how many of them have returned
  length,         \* data_load_greybus_load: bytes left
  prev,           \* data_load_greybus_load: the block not hashed yet
  mem,            \* what the loads have written
  hashed,         \* what hash_update has been given
  last_error,
  \* the links
  mailbox,        \* mail for "bridge" and for "svc", 0 when picked up
  toBridge, toAp, \* the messages on each CPort
  \* the AP
  astep,          \* how far its script is
  awaiting,       \* it waits for the answer to its last step
  position,       \* spi_ops: where its next load reads
  ap_status,      \* the status of READY_TO_BOOT
  asks, ready_sent \* unsolicited requests so far

bridgeVars == <<gpc, armed, responded_op, size_response, buff, offset,
                firmware_size, plan, done, length, prev, mem, hashed,
                last_error>>
loadVars == <<plan, done, length, prev, hashed>>
apVars == <<astep, awaiting, position, ap_status, asks, ready_sent>>
vars == <<bridgeVars, mailbox, toBridge, toAp, apVars>>

None == "none"
Unwritten == -1
Block(base, size) == base .. base + size - 1
Total(p) == LET f[i \in 0 .. Len(p)] == IF i = 0 THEN 0 ELSE f[i - 1] + p[i].length
            IN  f[Len(p)]

\* ErrorAfter: set_last_error keeps the first error.
ErrorAfter(err) == IF last_error = "BRE_OK" THEN err ELSE last_error

Loops == {"ap_wait", "size_wait", "block_wait", "ready_valid", "ready_invalid"}

Init ==
  /\ gpc = "advertise" /\ armed = {ControlCPort}
  /\ responded_op = None /\ size_response = 0 /\ buff = [base |-> 0, size |-> 0]
  /\ offset = -1 /\ firmware_size = 0
  /\ plan \in Plans /\ done = 0 /\ length = 0 /\ prev = [base |-> 0, size |-> 0]
  /\ mem = [n \in 0 .. Total(plan) - 1 |-> Unwritten]
  /\ hashed = <<>> /\ last_error = "BRE_OK"
  /\ mailbox = [bridge |-> 0, svc |-> 0]
  /\ toBridge = [c \in CPorts |-> <<>>] /\ toAp = [c \in CPorts |-> <<>>]
  /\ astep = 0 /\ awaiting = FALSE /\ position = 0 /\ ap_status = None
  /\ asks = 0 /\ ready_sent = 0

-----------------------------------------------------------------------------
(* The bridge, outside greybus_loop. *)

\* advertise_ready: write the mailbox of the switch...
AdvertiseReady ==
  /\ gpc = "advertise" /\ gpc' = "poked"
  /\ mailbox' = [mailbox EXCEPT !.svc = 1]
  /\ UNCHANGED <<armed, responded_op, size_response, buff, offset, firmware_size,
                 loadVars, mem, last_error, toBridge, toAp, apVars>>

\* A slip: the offset of a download starts where it is.
InitGreybusOpsNoReset ==
  /\ gpc = "poked" /\ mailbox.svc = 0
  /\ gpc' = "ap_wait"
  /\ UNCHANGED <<armed, responded_op, size_response, buff, offset, firmware_size,
                 loadVars, mem, last_error, mailbox, toBridge, toAp, apVars>>

(* ...and wait until it is picked up; data_load_greybus_init up to the loop
   that waits for AP_READY. *)
InitGreybusOps ==
  /\ gpc = "poked" /\ mailbox.svc = 0
  /\ gpc' = "ap_wait" /\ offset' = 0
  /\ UNCHANGED <<armed, responded_op, size_response, buff, firmware_size,
                 loadVars, mem, last_error, mailbox, toBridge, toAp, apVars>>

\* The next load of load_tftf_image, or its end.
BeginLoad ==
  LET l == plan[done + 1].length IN
  /\ gpc = "idle"
  /\ \/ /\ done = Len(plan) /\ gpc' = "finish_valid"
        /\ UNCHANGED <<length, prev, last_error>>
     \/ /\ done < Len(plan) /\ (offset + l) % Modulus > firmware_size
        /\ gpc' = "finish_invalid" /\ last_error' = ErrorAfter("BRE_TFTF_LOAD")
        /\ UNCHANGED <<length, prev>>
     \/ /\ done < Len(plan) /\ (offset + l) % Modulus <= firmware_size
        /\ gpc' = "blocks"
        /\ length' = l /\ prev' = [base |-> 0, size |-> 0]
        /\ UNCHANGED last_error
  /\ UNCHANGED <<armed, responded_op, size_response, buff, offset, firmware_size,
                 plan, done, mem, hashed, mailbox, toBridge, toAp, apVars>>

\* A slip: the block that is being fetched is hashed, not the one before.
HashUpdateCurrent == hashed \o [i \in 1 .. buff.size |-> mem[buff.base + i - 1]]

HashUpdate == hashed \o [i \in 1 .. prev.size |-> mem[prev.base + i - 1]]

\* A slip: the rest of a load is asked for as one block.
BlockLengthWhole == length

BlockLength == IF length > MaxPayload THEN MaxPayload ELSE length

(* One round of the loop of data_load_greybus_load: request the next block
   and hash the one before while waiting; or the end of the loop. *)
NextBlock ==
  /\ gpc = "blocks"
  /\ hashed' = HashUpdate
  /\ \/ /\ length > 0
        /\ toAp' = [toAp EXCEPT ![BootCPort] = Append(@,
             [type |-> "GET_FIRMWARE", offset |-> offset, size |-> BlockLength])]
        /\ buff' = [base |-> offset, size |-> BlockLength]
        /\ gpc' = "block_wait"
        /\ UNCHANGED done
     \/ /\ length = 0
        /\ done' = done + 1 /\ gpc' = "idle"
        /\ UNCHANGED <<toAp, buff>>
  /\ UNCHANGED <<armed, responded_op, size_response, offset, firmware_size,
                 plan, length, prev, mem, last_error, mailbox, toBridge, apVars>>

\* data_load_greybus_finish; an image that loaded is secure or not.
Finish ==
  /\ gpc \in {"finish_valid", "finish_invalid"}
  /\ \E s \in IF gpc = "finish_valid" THEN {"SECURE", "INSECURE"} ELSE {"INVALID"} :
       toAp' = [toAp EXCEPT ![BootCPort] =
                  Append(@, [type |-> "READY_TO_BOOT", status |-> s])]
  /\ gpc' = IF gpc = "finish_valid" THEN "ready_valid" ELSE "ready_invalid"
  /\ UNCHANGED <<armed, responded_op, size_response, buff, offset, firmware_size,
                 loadVars, mem, last_error, mailbox, toBridge, apVars>>

-----------------------------------------------------------------------------
(* greybus_loop.  Its callers, once it is left. *)

\* A slip: a block counts for as much as a block can hold.
OffsetAfterFull == offset + MaxPayload

OffsetAfter == offset + buff.size

(* A handler returned a positive value.  replies is what the handler sent,
   op the response type it noted and size the size it stored. *)
LoopBreaks(replies, op, size) ==
  LET send(ms) == toAp' = [toAp EXCEPT ![BootCPort] = @ \o ms] IN
  \/ /\ gpc = "ap_wait"
     /\ send(replies \o <<[type |-> "FIRMWARE_SIZE"]>>)
     /\ gpc' = "size_wait"
     /\ UNCHANGED <<offset, firmware_size, length, prev, last_error>>
  \/ /\ gpc = "size_wait" /\ send(replies)
     /\ firmware_size' = size
     /\ IF size > WorkramSize
        THEN /\ gpc' = "halted"
             /\ last_error' = ErrorAfter("BRE_BOU_GBBOOT_FW_TOO_LARGE")
        ELSE gpc' = "idle" /\ UNCHANGED last_error
     /\ UNCHANGED <<offset, length, prev>>
  \/ /\ gpc = "block_wait" /\ send(replies)
     /\ op = "GET_FIRMWARE"
     /\ prev' = IF plan[done + 1].hash THEN buff ELSE prev
     /\ offset' = OffsetAfter /\ length' = length - buff.size
     /\ gpc' = "blocks"
     /\ UNCHANGED <<firmware_size, last_error>>
  \/ /\ gpc = "block_wait" /\ send(replies)
     /\ op # "GET_FIRMWARE"
     /\ gpc' = "finish_invalid"
     /\ last_error' = ErrorAfter("BRE_BOU_GBBOOT_GET_FW")
     /\ UNCHANGED <<offset, firmware_size, length, prev>>
  \/ /\ gpc \in {"ready_valid", "ready_invalid"} /\ send(replies)
     /\ gpc' = IF gpc = "ready_valid" THEN "jump" ELSE "halted"
     /\ firmware_size' = Modulus - 1 /\ offset' = -1
     /\ UNCHANGED <<length, prev, last_error>>

\* A slip: an image is started although READY_TO_BOOT failed.
LoopFailsIgnored ==
  /\ gpc' = CASE gpc = "block_wait" -> "finish_invalid"
              [] gpc = "ready_valid" -> "jump"
              [] OTHER -> "halted"
  /\ UNCHANGED <<toAp, offset, firmware_size, length, prev, last_error>>

(* A handler, or the receive itself, returned a negative value. *)
LoopFails ==
  /\ last_error' = ErrorAfter(
       CASE gpc = "ap_wait" -> "BRE_BOU_GBBOOT_CPORT"
         [] gpc = "size_wait" -> "BRE_BOU_GBBOOT_FW_SIZE"
         [] gpc = "block_wait" -> "BRE_BOU_GBBOOT_GET_FW"
         [] OTHER -> "BRE_BOU_GBBOOT_READY")
  /\ gpc' = IF gpc = "block_wait" THEN "finish_invalid" ELSE "halted"
  /\ IF gpc \in {"ready_valid", "ready_invalid"}
     THEN firmware_size' = Modulus - 1 /\ offset' = -1
     ELSE UNCHANGED <<offset, firmware_size>>
  /\ UNCHANGED <<toAp, length, prev>>

\* A request that is only answered: the loop goes on.
Answer(c, m) ==
  /\ toAp' = [toAp EXCEPT ![c] = Append(@, [type |-> "RESPONSE"])]
  /\ armed' = IF m.type = "CONNECTED" THEN armed \cup {BootCPort} ELSE armed
  /\ UNCHANGED <<gpc, responded_op, size_response, offset, firmware_size,
                 length, prev, mem, last_error>>

\* gbboot_ap_ready answers, and breaks the loop whatever it waits for.
ApReady ==
  /\ LoopBreaks(<<[type |-> "RESPONSE"]>>, responded_op, size_response)
  /\ UNCHANGED <<armed, responded_op, size_response, mem>>

\* The handlers of the three responses.
Response(m) ==
  /\ responded_op' = m.of
  /\ IF m.ok /\ (m.of = "GET_FIRMWARE" => Len(m.data) = buff.size)
     THEN /\ size_response' = IF m.of = "FIRMWARE_SIZE" THEN m.size ELSE size_response
          /\ mem' = IF m.of = "GET_FIRMWARE"
                    THEN [n \in DOMAIN mem |->
                            IF n \in Block(buff.base, buff.size)
                            THEN m.data[n - buff.base + 1] ELSE mem[n]]
                    ELSE mem
          /\ LoopBreaks(<<>>, m.of, size_response')
     ELSE LoopFails /\ UNCHANGED <<size_response, mem>>
  /\ UNCHANGED armed

(* unipro_receive and common_cport_handler, for a CPort that is armed. *)
Receive(c) ==
  /\ gpc \in Loops /\ c \in armed /\ toBridge[c] # <<>>
  /\ toBridge' = [toBridge EXCEPT ![c] = Tail(@)]
  /\ LET m == Head(toBridge[c]) IN
     \/ m.type \notin {"AP_READY", "RESPONSE"} /\ Answer(c, m)
     \/ m.type = "AP_READY" /\ ApReady
     \/ m.type = "RESPONSE" /\ Response(m)
  /\ UNCHANGED <<buff, plan, done, hashed, mailbox, apVars>>

\* The receiver reports an error or an overflow.
ReceiveError ==
  /\ gpc \in Loops
  /\ LoopFails
  /\ UNCHANGED <<armed, responded_op, size_response, buff, plan, done, mem,
                 hashed, mailbox, toBridge, apVars>>

\* chip_unipro_recv_cport: the mail that announces a CPort is picked up.
PickUpMail ==
  /\ gpc \in Loops /\ mailbox.bridge # 0
  /\ mailbox' = [mailbox EXCEPT !.bridge = 0]
  /\ UNCHANGED <<bridgeVars, toBridge, toAp, apVars>>

Bridge == \/ AdvertiseReady \/ InitGreybusOps \/ BeginLoad \/ NextBlock \/ Finish
          \/ PickUpMail \/ \E c \in CPorts : Receive(c)

-----------------------------------------------------------------------------
(* The peer: gb_control and gbboot_process. *)
Mail(c) == [mail |-> TRUE, cport |-> c]
Ask(c, type) == [mail |-> FALSE, cport |-> c, type |-> type]
Script ==
  <<Mail(ControlCPort), Ask(ControlCPort, "VERSION"), Ask(ControlCPort, "PROBE_AP"),
    Ask(ControlCPort, "GET_MANIFEST_SIZE"), Ask(ControlCPort, "GET_MANIFEST"),
    Mail(BootCPort), Ask(ControlCPort, "CONNECTED"),
    Ask(BootCPort, "VERSION"), Ask(BootCPort, "AP_READY")>>

Serving == astep = Len(Script) + 1
Step == Script[astep]
InScript == astep \in DOMAIN Script

Send(c, m) == toBridge' = [toBridge EXCEPT ![c] = Append(@, m)]

\* svc_wait_for_peer_ready.
WaitForPeerReady ==
  /\ astep = 0 /\ mailbox.svc # 0
  /\ mailbox' = [mailbox EXCEPT !.svc = 0]
  /\ astep' = 1
  /\ UNCHANGED <<bridgeVars, toBridge, toAp, awaiting, position, ap_status,
                 asks, ready_sent>>

\* create_connection: write_mailbox, and wait until the mail is picked up.
CreateConnection ==
  /\ InScript /\ Step.mail
  /\ \/ /\ ~awaiting /\ awaiting' = TRUE
        /\ mailbox' = [mailbox EXCEPT !.bridge = Step.cport + 1]
        /\ UNCHANGED astep
     \/ /\ awaiting /\ mailbox.bridge = 0
        /\ awaiting' = FALSE /\ astep' = astep + 1
        /\ UNCHANGED mailbox
  /\ UNCHANGED <<bridgeVars, toBridge, toAp, position, ap_status, asks, ready_sent>>

SendRequest ==
  /\ InScript /\ ~Step.mail /\ ~awaiting
  /\ Send(Step.cport, [type |-> Step.type])
  /\ awaiting' = TRUE
  /\ ready_sent' = IF Step.type = "AP_READY" THEN 1 ELSE ready_sent
  /\ UNCHANGED <<bridgeVars, mailbox, toAp, astep, position, ap_status, asks>>

\* The answer to the request before, which needs no handling.
ReceiveAnswer ==
  /\ InScript /\ ~Step.mail /\ awaiting /\ toAp[Step.cport] # <<>>
  /\ toAp' = [toAp EXCEPT ![Step.cport] = Tail(@)]
  /\ awaiting' = FALSE /\ astep' = astep + 1
  /\ UNCHANGED <<bridgeVars, mailbox, toBridge, position, ap_status, asks, ready_sent>>

\* A response to the request of type of; size or data as its type has it.
Respond(of, ok, size, data) ==
  [type |-> "RESPONSE", of |-> of, ok |-> ok, size |-> size, data |-> data]

\* gbboot_get_firmware_size: the image is found in the flash, or is not.
ServeSize ==
  /\ \/ \E s \in Sizes : Send(BootCPort, Respond("FIRMWARE_SIZE", TRUE, s, <<>>))
     \/ Send(BootCPort, Respond("FIRMWARE_SIZE", FALSE, 0, <<>>))
  /\ UNCHANGED <<astep, position, ap_status>>

(* gbboot_get_firmware: the next bytes of the flash, whatever the offset that
   is asked for.  A response that exceeds the payload cannot be sent. *)
ServeFirmware(m) ==
  /\ \/ /\ m.size <= MaxPayload
        /\ \/ Send(BootCPort, Respond("GET_FIRMWARE", TRUE, 0,
                     [i \in 1 .. m.size |-> position + i - 1]))
           \/ Send(BootCPort, Respond("GET_FIRMWARE", FALSE, 0, <<>>))
     \/ m.size > MaxPayload /\ UNCHANGED toBridge
  /\ position' = position + m.size
  /\ UNCHANGED <<astep, ap_status>>

\* gbboot_ready_to_boot.
ServeReady(m) ==
  /\ ap_status' = m.status /\ astep' = astep + 1
  /\ Send(BootCPort, Respond("READY_TO_BOOT", m.status # "INVALID", 0, <<>>))
  /\ UNCHANGED position

\* The loop of gbboot_process.
Serve ==
  /\ Serving /\ toAp[BootCPort] # <<>>
  /\ toAp' = [toAp EXCEPT ![BootCPort] = Tail(@)]
  /\ LET m == Head(toAp[BootCPort]) IN
     \/ m.type = "FIRMWARE_SIZE" /\ ServeSize
     \/ m.type = "GET_FIRMWARE" /\ ServeFirmware(m)
     \/ m.type = "READY_TO_BOOT" /\ ServeReady(m)
     \/ m.type = "RESPONSE" /\ UNCHANGED <<toBridge, astep, position, ap_status>>
  /\ UNCHANGED <<bridgeVars, mailbox, awaiting, asks, ready_sent>>

(* Another AP may ask for the VID and PID at any time, or say a second time
   that it is ready. *)
Unsolicited ==
  /\ Serving
  /\ \/ asks < MaxAsks /\ asks' = asks + 1 /\ UNCHANGED ready_sent
        /\ Send(BootCPort, [type |-> "GET_VID_PID"])
     \/ ready_sent < MaxApReady /\ ready_sent' = ready_sent + 1 /\ UNCHANGED asks
        /\ Send(BootCPort, [type |-> "AP_READY"])
  /\ UNCHANGED <<bridgeVars, mailbox, toAp, astep, awaiting, position, ap_status>>

Ap == \/ WaitForPeerReady \/ CreateConnection \/ SendRequest
      \/ ReceiveAnswer \/ Serve

-----------------------------------------------------------------------------
\* The image is started, or the boot ROM has halted.
Stopped == gpc \in {"jump", "halted"} /\ UNCHANGED vars

Next == Bridge \/ ReceiveError \/ Ap \/ Unsolicited \/ Stopped

(* The bridge polls without a pause, and gbboot_server blocks only to receive;
   nothing says that an AP asks anything on its own. *)
Spec == Init /\ [][Next]_vars /\ WF_vars(Bridge) /\ WF_vars(Ap)

-----------------------------------------------------------------------------
(* Types: offset and sizes are uint32_t, and no load returns twice. *)
TypeOK ==
  /\ gpc \in {"advertise", "poked", "idle", "blocks", "finish_valid",
              "finish_invalid", "jump", "halted"} \cup Loops
  /\ armed \subseteq CPorts
  /\ offset \in -1 .. Modulus - 1 /\ firmware_size \in 0 .. Modulus - 1
  /\ buff.base \in Nat /\ buff.size \in Nat
  /\ done \in 0 .. Len(plan) /\ length \in 0 .. Modulus - 1
  /\ mailbox.bridge \in 0 .. 2 /\ mailbox.svc \in 0 .. 1

(* Every byte that data_load_greybus_load has counted is in its place: the
   blocks of all loads are put together without a gap, although the peer
   serves them one after the other and never looks at the offset. *)
LoadedInPlace == \A n \in DOMAIN mem : n < offset => mem[n] = n

(* The bytes of the first k loads that are to be hashed, in order. *)
ToHash(k) ==
  LET f[i \in 0 .. k] ==
        IF i = 0 THEN [start |-> 0, bytes |-> <<>>]
        ELSE [start |-> f[i - 1].start + plan[i].length,
              bytes |-> f[i - 1].bytes \o
                IF plan[i].hash
                THEN [j \in 1 .. plan[i].length |-> f[i - 1].start + j - 1]
                ELSE <<>>]
  IN  f[k].bytes

(* Hashing lags one block behind fetching.  When a load returns it has caught
   up: every hashed byte was hashed once, in order, and after it arrived. *)
HashInOrder == gpc \in {"idle", "finish_valid"} => hashed = ToHash(done)

(* An image is only started when the AP has accepted READY_TO_BOOT for a valid
   image, and then all of it is in memory. *)
JumpIsAgreed ==
  gpc = "jump" => /\ ap_status \in {"SECURE", "INSECURE"}
                  /\ \A n \in DOMAIN mem : mem[n] = n

(* With a peer that serves what it is asked for, the bridge does not wait for
   ever: the download ends with the image or with a halt. *)
DownloadEnds == <>(gpc \in {"jump", "halted"})
=============================================================================
