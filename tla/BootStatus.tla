----------------------------- MODULE BootStatus -----------------------------
(***************************************************************************)
(* Error reporting of the two boot stages: common/src/error.c and          *)
(* chips/es3tsb/src/es3_advertise.c.                                       *)
(*                                                                         *)
(* The DME attribute DME_ARA_INIT_STATUS is one 32-bit word: a FAILED bit, *)
(* a status and three 8-bit error fields.  It is modelled as a record of   *)
(* those parts, which is what the masks of init_status.h and error.h take  *)
(* it for.  The attribute outlives the C code (the second stage reads it), *)
(* fw_errno is a C static.  Any DME access may fail.                       *)
(***************************************************************************)

VARIABLES
  pc,                    \* where bootrom_main is, "halted" for while(1)
  fw_errno,              \* error.c: first error of every reporting field
  init_status,           \* the DME attribute DME_ARA_INIT_STATUS
  boot_status_offline    \* es3_advertise.c: the attribute is unusable

statusVars == <<fw_errno, init_status, boot_status_offline>>

\* The masks BRE_S1_PAIMARY_MASK, BRE_S1_FALLBACK_MASK and BRE_S2_FW_MASK.
Fields == {"s1_primary", "s1_fallback", "s2_fw"}

NoErrno == [f \in Fields |-> "BRE_OK"]

\* The plain INIT_STATUS_xxx constants: no FAILED bit, empty error fields.
Status(s) == [status |-> s, failed |-> FALSE, errno |-> NoErrno]

\* merge_errno_with_boot_status, for a given value e of fw_errno.
Merge(s, e) == [Status(s) EXCEPT !.errno = e]

StatusNames ==
  {"UNINITIALIZED", "OPERATING", "SPI_BOOT_STARTED",
   "TRUSTED_SPI_FLASH_BOOT_FINISHED", "UNTRUSTED_SPI_FLASH_BOOT_FINISHED",
   "UNIPRO_BOOT_STARTED",
   "TRUSTED_UNIPRO_BOOT_FINISHED", "UNTRUSTED_UNIPRO_BOOT_FINISHED",
   "FALLBACK_UNIPRO_BOOT_STARTED",
   "FALLBACK_TRUSTED_UNIPRO_BOOT_FINISHED",
   "FALLBACK_UNTRUSTED_UNIPRO_BOOT_FINISHED"}

-----------------------------------------------------------------------------
\* A slip: the comparison forgets to mask the error fields out.
ErrorFieldUnmasked(stage) ==
  IF stage = 2 THEN "s2_fw"
  ELSE IF init_status = Status("FALLBACK_UNIPRO_BOOT_STARTED")
       THEN "s1_fallback"
       ELSE "s1_primary"

(* The field an error of this stage goes to.  Stage 1 derives it from the
   status it last advertised, not from a variable of its own. *)
ErrorField(stage) ==
  IF stage = 2 THEN "s2_fw"
  ELSE IF /\ init_status.status = "FALLBACK_UNIPRO_BOOT_STARTED"
          /\ ~init_status.failed
       THEN "s1_fallback"
       ELSE "s1_primary"

\* A slip: a later error of the same field overwrites the first one.
ErrnoAfterLast(stage, err) ==
  [fw_errno EXCEPT ![ErrorField(stage)] = err]

(* The value of fw_errno after set_last_error(err): the first error of a
   field is sticky. *)
ErrnoAfter(stage, err) ==
  IF fw_errno[ErrorField(stage)] = "BRE_OK"
  THEN [fw_errno EXCEPT ![ErrorField(stage)] = err]
  ELSE fw_errno

(* A read or write of DME_ARA_INIT_STATUS fails: boot_status_offline keeps
   halt_and_catch_fire from trying to advertise again. *)
DmeDown ==
  /\ boot_status_offline' = TRUE
  /\ pc' = "halted"
  /\ UNCHANGED init_status

(* chip_advertise_boot_status(w), after which control is at next. *)
Advertise(w, next) ==
  \/ /\ init_status' = w
     /\ pc' = next
     /\ UNCHANGED boot_status_offline
  \/ DmeDown

\* A slip: the status is published without the errno.
HaltUnmerged(s, e) ==
  /\ fw_errno' = e
  /\ pc' = "halted"
  /\ \/ init_status' = [Status(s) EXCEPT !.failed = TRUE]
        /\ UNCHANGED boot_status_offline
     \/ boot_status_offline' = TRUE /\ UNCHANGED init_status

(* halt_and_catch_fire(s) once fw_errno is e.  The write of the attribute
   may fail too; the recursive call then finds the attribute offline. *)
Halt(s, e) ==
  /\ fw_errno' = e
  /\ pc' = "halted"
  /\ \/ init_status' = [Merge(s, e) EXCEPT !.failed = TRUE]
        /\ UNCHANGED boot_status_offline
     \/ boot_status_offline' = TRUE /\ UNCHANGED init_status

(* set_last_error(err) in the given stage, after which control is at next.
   Only stage 1 reads the attribute, so only there the read can fail. *)
SetLastError(stage, err, next) ==
  \/ /\ fw_errno' = ErrnoAfter(stage, err)
     /\ pc' = next
     /\ UNCHANGED <<init_status, boot_status_offline>>
  \/ stage = 1 /\ DmeDown /\ UNCHANGED fw_errno

(* set_last_error(err) followed by halt_and_catch_fire(s). *)
FailAndHalt(stage, err, s) ==
  \/ Halt(s, ErrnoAfter(stage, err))
  \/ stage = 1 /\ DmeDown /\ UNCHANGED fw_errno

(* The start of a stage: init_last_error, which reset_last_error is another
   name of.  Stage 1 forgets everything; stage 2 keeps the fields of stage 1
   as the attribute holds them, or nothing if it cannot be read. *)
InitLastError(stage) ==
  IF stage = 1 THEN {NoErrno}
  ELSE {NoErrno, [init_status.errno EXCEPT !["s2_fw"] = "BRE_OK"]}
=============================================================================
