------------------------------- MODULE BootRom -------------------------------
(***************************************************************************)
(* The first boot stage: bootrom_main of apps/bootrom/src/start.c with     *)
(* what it calls.  The image is loaded from SPI flash or, when the         *)
(* bootselector says so or the flash attempt failed, over UniPro.          *)
(*                                                                         *)
(* The code is one thread without interrupts, so that each call of         *)
(* bootrom_main is one action; what makes it hard is that every DME access *)
(* and every transfer may fail, between any two of them.                   *)
(***************************************************************************)
EXTENDS TftfLoader

CONSTANTS
  SpiImages,     \* the images the flash may hold
  UniproImages,  \* the images the AP may send
  PublicKeys     \* the keys of manifest/public_keys.c

VARIABLES
  chip,                  \* bootselector and e-fuses, fixed: see Chips
  media,                 \* the image on each medium, fixed
  boot_status,           \* bootrom_main: the status reached
  boot_from_spi,         \* bootrom_main: the medium in use
  fallback_boot_unipro,  \* bootrom_main: UniPro because flash failed
  locked,                \* secrets whose access is disabled until reset
  ap_status,             \* the READY_TO_BOOT status the AP was sent
  spi_clk_usage_count    \* es3_spi.c

fixedVars == <<chip, media>>
mainVars == <<boot_status, boot_from_spi, fallback_boot_unipro>>
deviceVars == <<locked, ap_status, spi_clk_usage_count>>

vars == <<pc, statusVars, loaderVars, ram, comm_area, fixedVars, mainVars,
          deviceVars>>

Images == SpiImages \cup UniproImages

(* A section table is a finite sequence.  Nothing else is assumed of what a
   medium delivers: every field is data the code has to check. *)
ASSUME ImagesAssumption ==
  \A img \in Images : Len(img.sections) \in Nat

Media == {"spi", "unipro"}

(* SPIBOOT_N, the TRUSTED_ONLY bit and the revocation bits of the SCR. *)
Chips == [spiboot_n : BOOLEAN, trusted_only : BOOLEAN,
          revoked : SUBSET PublicKeys]

Medium == IF boot_from_spi THEN "spi" ELSE "unipro"
Image == media[Medium]

\* find_public_key skips the revoked keys.
UsableKeys == PublicKeys \ chip.revoked

Secrets == {"ims", "cms"}

Init ==
  /\ pc = "start"
  /\ fw_errno = NoErrno
  /\ init_status = Status("UNINITIALIZED")
  /\ boot_status_offline = FALSE
  /\ LoaderInit
  /\ chip \in Chips
  /\ media \in [spi : SpiImages, unipro : UniproImages]
  /\ boot_status = "OPERATING"
  /\ boot_from_spi = TRUE
  /\ fallback_boot_unipro = FALSE
  /\ locked = {}
  /\ ap_status = "NONE"
  /\ spi_clk_usage_count = 0

-----------------------------------------------------------------------------
(* chip_init to chip_advertise_boot_status(INIT_STATUS_OPERATING). *)
Start ==
  /\ pc = "start"
  /\ fw_errno' \in InitLastError(1)
  /\ Advertise(Status("OPERATING"), "boot_type")
  /\ UNCHANGED <<loaderVars, ram, comm_area, fixedVars, mainVars, deviceVars>>

(* chip_advertise_boot_type. *)
AdvertiseBootType ==
  /\ pc = "boot_type"
  /\ \/ pc' = "efuse" /\ UNCHANGED statusVars
     \/ Halt(boot_status, fw_errno)
  /\ UNCHANGED <<loaderVars, ram, comm_area, fixedVars, mainVars, deviceVars>>

EfuseErrors ==
  {"BRE_EFUSE_ECC", "BRE_EFUSE_BAD_ARA_VID", "BRE_EFUSE_BAD_ARA_PID",
   "BRE_EFUSE_BAD_IMS", "BRE_EFUSE_ENDPOINT_ID_WRITE"}

(* efuse_init: each of its checks may be the one that fails. *)
EfuseInit ==
  /\ pc = "efuse"
  /\ \/ pc' = "select" /\ UNCHANGED statusVars
     \/ \E err \in EfuseErrors : FailAndHalt(1, err, boot_status)
  /\ UNCHANGED <<loaderVars, ram, comm_area, fixedVars, mainVars, deviceVars>>

(* tsb_get_bootselector, and spi_ops.init when it selects the flash. *)
SelectMedium ==
  /\ pc = "select"
  /\ boot_from_spi' = ~chip.spiboot_n
  /\ IF chip.spiboot_n
     THEN pc' = "unipro" /\ UNCHANGED spi_clk_usage_count
     ELSE pc' = "locate" /\ spi_clk_usage_count' = spi_clk_usage_count + 1
  /\ UNCHANGED <<statusVars, loaderVars, ram, comm_area, fixedVars,
                 boot_status, fallback_boot_unipro, locked, ap_status>>

FfffErrors ==
  {"BRE_FFFF_LOAD_HEADER", "BRE_FFFF_HEADER_SIZE", "BRE_FFFF_SENTINEL",
   "BRE_FFFF_NO_TABLE_END", "BRE_FFFF_BLOCK_SIZE", "BRE_FFFF_FLASH_CAPACITY",
   "BRE_FFFF_IMAGE_LENGTH", "BRE_FFFF_NO_FIRMWARE",
   "BRE_FFFF_ELT_RESERVED_MEMORY", "BRE_FFFF_ELT_ALIGNMENT",
   "BRE_FFFF_ELT_COLLISION", "BRE_FFFF_ELT_DUPLICATE"}

(* locate_ffff_element_on_storage.  A table that is found resets the errors
   of the headers that were tried before it. *)
LocateFirmware ==
  /\ pc = "locate"
  /\ \/ /\ fw_errno' \in InitLastError(1)
        /\ boot_status' = "SPI_BOOT_STARTED"
        /\ Advertise(Status("SPI_BOOT_STARTED"), "load_header")
     \/ /\ \E err \in FfffErrors : SetLastError(1, err, "load_failed")
        /\ UNCHANGED boot_status
  /\ UNCHANGED <<loaderVars, ram, comm_area, fixedVars, boot_from_spi,
                 fallback_boot_unipro, deviceVars>>

-----------------------------------------------------------------------------
(* load_tftf_image, from either medium. *)
LoadImage ==
  /\ \/ load_tftf_header(1, Image, Medium)
     \/ LoadSignature(1, Image, Medium, UsableKeys)
     \/ LoadSection(1, Image, Medium)
     \/ load_tftf_image(1, Image, chip.trusted_only)
  /\ UNCHANGED <<fixedVars, mainVars, deviceVars>>

-----------------------------------------------------------------------------
(* spi_ops.finish(true, ...). *)
FinishSpi ==
  /\ pc = "loaded" /\ boot_from_spi
  /\ spi_clk_usage_count' = spi_clk_usage_count - 1
  /\ pc' = "finished"
  /\ UNCHANGED <<statusVars, loaderVars, ram, comm_area, fixedVars, mainVars,
                 locked, ap_status>>


(* The flash attempt failed: spi_ops.finish(false, false), fall back, clear
   the loading RAM. *)
FallBack ==
  /\ pc = "load_failed" /\ boot_from_spi
  /\ spi_clk_usage_count' = spi_clk_usage_count - 1
  /\ boot_from_spi' = FALSE
  /\ fallback_boot_unipro' = TRUE
  /\ ram' = chip_clear_image_loading_ram
  /\ pc' = "unipro"
  /\ UNCHANGED <<statusVars, loaderVars, comm_area, fixedVars, boot_status,
                 locked, ap_status>>

(* The start of boot over UniPro is advertised, in fallback with the errors
   of the flash attempt. *)
StartUnipro ==
  /\ pc = "unipro"
  /\ IF fallback_boot_unipro
     THEN /\ boot_status' = "FALLBACK_UNIPRO_BOOT_STARTED"
          /\ Advertise(Merge(boot_status', fw_errno), "greybus")
     ELSE /\ boot_status' = "UNIPRO_BOOT_STARTED"
          /\ Advertise(Status(boot_status'), "greybus")
  /\ UNCHANGED <<fw_errno, loaderVars, ram, comm_area, fixedVars,
                 boot_from_spi, fallback_boot_unipro, deviceVars>>

(* greybus_init (which cannot fail, CPort 0 being in range), advertise_ready
   (whose result is ignored) and greybus_ops.init. *)
InitGreybus ==
  /\ pc = "greybus"
  /\ \/ pc' = "load_header" /\ UNCHANGED statusVars
     \/ \E err \in {"BRE_BOU_GBBOOT_CPORT", "BRE_BOU_GBBOOT_FW_SIZE",
                    "BRE_BOU_GBBOOT_FW_TOO_LARGE"} :
          FailAndHalt(1, err, boot_status)
  /\ UNCHANGED <<loaderVars, ram, comm_area, fixedVars, mainVars, deviceVars>>

\* A slip: INSECURE and SECURE swapped.
ReadyToBootSwapped == IF is_secure_image THEN "INSECURE" ELSE "SECURE"

\* The status data_load_greybus_finish(true, ...) sends.
ReadyToBootStatus == IF is_secure_image THEN "SECURE" ELSE "INSECURE"

\* A slip: a failing READY_TO_BOOT does not halt.
FinishUniproGoesOn ==
  /\ pc = "loaded" /\ ~boot_from_spi
  /\ \/ /\ ap_status' = ReadyToBootStatus
        /\ pc' = "finished"
        /\ UNCHANGED statusVars
     \/ /\ ap_status' \in {ap_status, ReadyToBootStatus}
        /\ SetLastError(1, "BRE_BOU_GBBOOT_READY", "load_failed")
  /\ UNCHANGED <<loaderVars, ram, comm_area, fixedVars, mainVars, locked,
                 spi_clk_usage_count>>

(* greybus_ops.finish(true, ...): the READY_TO_BOOT request may be sent and
   its answer still be bad, or not come through at all. *)
FinishUnipro ==
  /\ pc = "loaded" /\ ~boot_from_spi
  /\ \/ /\ ap_status' = ReadyToBootStatus
        /\ pc' = "finished"
        /\ UNCHANGED statusVars
     \/ /\ ap_status' \in {ap_status, ReadyToBootStatus}
        /\ FailAndHalt(1, "BRE_BOU_GBBOOT_READY", boot_status)
  /\ UNCHANGED <<loaderVars, ram, comm_area, fixedVars, mainVars, locked,
                 spi_clk_usage_count>>

\* A slip: the flash is finished a second time instead of Greybus.
GiveUpWithSpi ==
  /\ pc = "load_failed" /\ ~boot_from_spi
  /\ spi_clk_usage_count' = spi_clk_usage_count - 1
  /\ Halt(boot_status, fw_errno)
  /\ UNCHANGED <<loaderVars, ram, comm_area, fixedVars, mainVars, locked,
                 ap_status>>

(* greybus_ops.finish(false, ...) and the final halt_and_catch_fire. *)
GiveUp ==
  /\ pc = "load_failed" /\ ~boot_from_spi
  /\ \/ /\ ap_status' = "INVALID"
        /\ Halt(boot_status, fw_errno)
     \/ /\ ap_status' \in {ap_status, "INVALID"}
        /\ FailAndHalt(1, "BRE_BOU_GBBOOT_READY", boot_status)
  /\ UNCHANGED <<loaderVars, ram, comm_area, fixedVars, mainVars, locked,
                 spi_clk_usage_count>>

-----------------------------------------------------------------------------
TrustedStatuses ==
  {"TRUSTED_SPI_FLASH_BOOT_FINISHED", "TRUSTED_UNIPRO_BOOT_FINISHED",
   "FALLBACK_TRUSTED_UNIPRO_BOOT_FINISHED"}
UntrustedStatuses ==
  {"UNTRUSTED_SPI_FLASH_BOOT_FINISHED", "UNTRUSTED_UNIPRO_BOOT_FINISHED",
   "FALLBACK_UNTRUSTED_UNIPRO_BOOT_FINISHED"}

FinishedStatus ==
  IF is_secure_image
  THEN IF boot_from_spi THEN "TRUSTED_SPI_FLASH_BOOT_FINISHED"
       ELSE IF fallback_boot_unipro
            THEN "FALLBACK_TRUSTED_UNIPRO_BOOT_FINISHED"
            ELSE "TRUSTED_UNIPRO_BOOT_FINISHED"
  ELSE IF boot_from_spi THEN "UNTRUSTED_SPI_FLASH_BOOT_FINISHED"
       ELSE IF fallback_boot_unipro
            THEN "FALLBACK_UNTRUSTED_UNIPRO_BOOT_FINISHED"
            ELSE "UNTRUSTED_UNIPRO_BOOT_FINISHED"

\* A slip: the chip's version of the function does nothing.
RigNothing == locked

\* IMS and CMS access are disabled until reset.
efuse_rig_for_untrusted == Secrets

(* The final status: efuse_rig_for_untrusted before an untrusted image, then
   the status, with the errno only when booting from flash. *)
AdvertiseFinished ==
  /\ pc = "finished"
  /\ boot_status' = FinishedStatus
  /\ locked' = IF is_secure_image THEN locked ELSE efuse_rig_for_untrusted
  /\ Advertise(IF boot_from_spi THEN Merge(FinishedStatus, fw_errno)
               ELSE Status(FinishedStatus), "jump")
  /\ UNCHANGED <<fw_errno, loaderVars, ram, comm_area, fixedVars,
                 boot_from_spi, fallback_boot_unipro, ap_status,
                 spi_clk_usage_count>>

(* jump_to_image: the boot ROM's data and buffers are cleared, the loading
   RAM and the communication area are what the image finds. *)
Jump ==
  /\ pc = "jump"
  /\ pc' = "jumped"
  /\ UNCHANGED <<statusVars, loaderVars, ram, comm_area, fixedVars, mainVars,
                 deviceVars>>

(* The image runs, or while(1). *)
Stopped ==
  /\ pc \in {"jumped", "halted", "wild"}
  /\ UNCHANGED vars

Next ==
  \/ Start \/ AdvertiseBootType \/ EfuseInit \/ SelectMedium
  \/ LocateFirmware \/ LoadImage \/ FinishSpi \/ FallBack
  \/ StartUnipro \/ InitGreybus \/ FinishUnipro \/ GiveUp
  \/ AdvertiseFinished \/ Jump \/ Stopped

Spec == Init /\ [][Next]_vars

(* The steps that wait for the SVC or the AP, without a time-out. *)
WaitsForPeer ==
  \/ pc = "greybus"
  \/ pc \in {"load_header", "sections", "loaded", "load_failed"}
     /\ ~boot_from_spi

(* The processor keeps executing, but nothing makes the peer answer. *)
Fairness == WF_vars(Next /\ ~WaitsForPeer)

FairSpec == Spec /\ Fairness

-----------------------------------------------------------------------------
Errors ==
  {"BRE_OK", "BRE_TFTF_LOAD_HEADER", "BRE_TFTF_SENTINEL",
   "BRE_TFTF_HEADER_SIZE", "BRE_TFTF_HEADER_TYPE", "BRE_TFTF_COMPRESSION_BAD",
   "BRE_TFTF_MEMORY_RANGE", "BRE_TFTF_COLLISION", "BRE_TFTF_NO_TABLE_END",
   "BRE_TFTF_START_NOT_IN_CODE", "BRE_TFTF_VIDPID_MISMATCH",
   "BRE_TFTF_LOAD_SIGNATURE", "BRE_TFTF_LOAD_DATA",
   "BRE_TFTF_IMAGE_CORRUPTED", "BRE_TFTF_UNTRUSTED_NOT_ALLOWED",
   "BRE_EFUSE_UNIPRO_VID_READ", "BRE_EFUSE_UNIPRO_PID_READ",
   "BRE_BOU_GBBOOT_CPORT", "BRE_BOU_GBBOOT_FW_SIZE",
   "BRE_BOU_GBBOOT_FW_TOO_LARGE", "BRE_BOU_GBBOOT_GET_FW",
   "BRE_BOU_GBBOOT_READY"} \cup ScanErrors \cup EfuseErrors \cup FfffErrors

Errnos == [Fields -> Errors]
Words == [status : StatusNames, failed : BOOLEAN, errno : Errnos]

PCs == {"start", "boot_type", "efuse", "select", "locate", "load_header",
        "sections", "loaded", "load_failed", "unipro", "greybus", "finished",
        "jump", "jumped", "halted", "wild"}

(* Every variable of the boot ROM holds a value of its C type. *)
TypeOK ==
  /\ pc \in PCs
  /\ fw_errno \in Errnos
  /\ init_status \in Words
  /\ boot_status_offline \in BOOLEAN
  /\ section \in Nat \ {0}
  /\ crypto_state \in CryptoStates
  /\ contain_signature \in BOOLEAN
  /\ is_secure_image \in BOOLEAN
  /\ DOMAIN ram = LoadingRam
  /\ DOMAIN comm_area = {"identity", "key", "package"}
  /\ chip \in Chips
  /\ media \in [spi : SpiImages, unipro : UniproImages]
  /\ boot_status \in StatusNames
  /\ boot_from_spi \in BOOLEAN
  /\ fallback_boot_unipro \in BOOLEAN
  /\ locked \in SUBSET Secrets
  /\ ap_status \in {"NONE", "SECURE", "INSECURE", "INVALID"}
  /\ spi_clk_usage_count \in 0 .. 1

\* The image that runs was announced as trusted, or as untrusted.
RunsTrusted == pc = "jumped" /\ init_status.status \in TrustedStatuses
RunsUntrusted == pc = "jumped" /\ init_status.status \in UntrustedStatuses

(* What a signature has to cover, stated for the whole image: the header in
   front of the first unsigned section, then the data of every section in
   front of it, in order. *)
FirstUnsigned(img) ==
  Least({i \in Slots(img) : img.sections[i].type \in UnsignedTypes})

SignedPart(img, k) == IF k = 1 THEN HeaderPart(img, FirstUnsigned(img))
                      ELSE SectionPart(img, k - 1)

SignedPortion(img) == [k \in 1 .. FirstUnsigned(img) |-> SignedPart(img, k)]

\* A signature of the image that verifies under a key the chip accepts.
SignedWith(img, keys) ==
  \E i \in Live(img) :
    /\ img.sections[i].type = "SIGNATURE"
    /\ img.sections[i].sig.key \in keys
    /\ img.sections[i].sig.digest = SignedPortion(img)

(* An image runs as trusted only if its header passed every check and one of
   its own signatures, under a key that is not revoked, covers exactly its
   signed portion.  Neither the section by section hashing of
   process_tftf_section nor the crypto state a failed flash attempt leaves
   behind may let another image through. *)
TrustedImageIsSigned ==
  RunsTrusted => /\ HeaderError(Image) = "BRE_OK"
                 /\ SignedWith(Image, UsableKeys)

(* An untrusted image runs only on a chip that allows it and only after
   efuse_rig_for_untrusted has closed both secrets. *)
UntrustedRunsLocked ==
  RunsUntrusted => ~chip.trusted_only /\ locked = Secrets

(* The image finds no byte of a failed attempt in the loading RAM: whatever
   is there came from the medium it was booted from. *)
NoStaleRam ==
  pc = "jumped" =>
    \A a \in LoadingRam : ram[a] # None => ram[a][1] = Medium

(* What the rest of the system is told at the jump agrees: the attribute the
   second stage reads names the medium and is not FAILED, and the AP that
   sent an image was told the same verdict.  The SPI clock is released. *)
HandOffAgrees ==
  pc = "jumped" =>
    /\ ~init_status.failed
    /\ RunsTrusted \/ RunsUntrusted
    /\ init_status.status \in {"TRUSTED_SPI_FLASH_BOOT_FINISHED",
                               "UNTRUSTED_SPI_FLASH_BOOT_FINISHED"}
         <=> ap_status = "NONE"
    /\ ap_status = "SECURE" => RunsTrusted
    /\ ap_status = "INSECURE" => RunsUntrusted
    /\ spi_clk_usage_count = 0

(* The identity and the key name a trusted image finds in the communication
   area are its own, also when the flash image had verified before it. *)
IdentityOfTrusted ==
  RunsTrusted => /\ comm_area.identity = SignedPortion(Image)
                 /\ comm_area.key \in UsableKeys
                 /\ comm_area.package = Image.name

(* Every failed attempt has left an error in its own field, although
   set_last_error finds the field from the attribute: a fallback has a
   reason in the primary field, a failed fallback one in its own. *)
FailuresRecorded ==
  /\ fallback_boot_unipro => fw_errno["s1_primary"] # "BRE_OK"
  /\ pc = "load_failed" => fw_errno[IF fallback_boot_unipro
                                    THEN "s1_fallback"
                                    ELSE "s1_primary"] # "BRE_OK"
  /\ ~fallback_boot_unipro => fw_errno["s1_fallback"] = "BRE_OK"

(* A halt that could still write the attribute publishes the FAILED bit and
   the errors of both attempts. *)
HaltReports ==
  pc = "halted" /\ ~boot_status_offline =>
    /\ init_status.failed
    /\ init_status.errno = fw_errno
    /\ fallback_boot_unipro =>
         init_status.status = "FALLBACK_UNIPRO_BOOT_STARTED"

(* The first error of a field is never overwritten, and nothing reported is
   forgotten: reset_last_error only runs before the first reported failure. *)
ErrnoSticky ==
  [][\A f \in Fields :
       fw_errno[f] # "BRE_OK" => fw_errno'[f] = fw_errno[f]]_vars

(* Once the AP has been told that its image boots, the image is final. *)
AnnouncedIsFinal ==
  [][(ap_status = "SECURE" \/ ap_status = "INSECURE") =>
       UNCHANGED <<ram, is_secure_image, ap_status>>]_vars

(* What comment tftf.c:311 counts on when the sections are processed: the
   section table has an END marker and no section of unknown type. *)
ProcessedTableIsValid ==
  pc = "sections" =>
    /\ \E i \in Slots(Image) : Image.sections[i].type = "END"
    /\ \A i \in Live(Image) : known_tftf_type(Image.sections[i].type)

(* The collision check of comment tftf.c:458, seen from the image that runs:
   a trusted image finds the bytes of each of its signed sections, and not
   those of a section that was loaded over them. *)
SignedSectionsIntact ==
  RunsTrusted =>
    \A i \in Live(Image) :
      LET s == Image.sections[i] IN
      s.type \notin UnsignedTypes /\ s.addr # Ignored =>
        \A a \in s.addr .. s.addr + s.len - 1 : ram[a] = <<Medium, i>>


-----------------------------------------------------------------------------
(* The inductive invariant behind the safety properties. *)

BeforeMedium == {"start", "boot_type", "efuse", "select"}
Loading == {"load_header", "sections", "loaded", "load_failed"}
Final == {"finished", "jump", "jumped"}

(* Which medium is in use where, and when its clock runs. *)
MediumInv ==
  /\ pc \in BeforeMedium \cup {"locate"} => boot_from_spi
  /\ pc \in {"unipro", "greybus"} => ~boot_from_spi
  /\ fallback_boot_unipro => ~boot_from_spi
  /\ pc = "locate" \/ (pc \in Loading /\ boot_from_spi)
       => spi_clk_usage_count = 1
  /\ pc \in BeforeMedium \cup {"unipro", "greybus"} \cup Final
       \/ (pc \in Loading /\ ~boot_from_spi)
       => spi_clk_usage_count = 0

(* What the crypto state says about the image being loaded: where the hash
   context stands, what the digest is of, and what VERIFIED means. *)
CryptoInv ==
  pc \in {"sections", "loaded"} \cup Final /\ crypto_state # "INIT" =>
    /\ HeaderError(Image) = "BRE_OK"
    /\ \E i \in Live(Image) : Image.sections[i].type \in UnsignedTypes
    /\ crypto_state = "HASHING" /\ pc = "sections" =>
         /\ section <= FirstUnsigned(Image)
         /\ shctx = [k \in 1 .. section |-> SignedPart(Image, k)]
    /\ crypto_state \in {"HASHED", "VERIFIED"} => hash = SignedPortion(Image)
    /\ crypto_state = "VERIFIED" => SignedWith(Image, UsableKeys)

(* The verdict on a loaded image, and what is published of it. *)
VerdictInv ==
  /\ pc \in {"loaded"} \cup Final =>
       IF is_secure_image THEN crypto_state = "VERIFIED"
                          ELSE ~chip.trusted_only
  /\ pc \in {"jump", "jumped"} =>
       /\ init_status.status = FinishedStatus
       /\ ~init_status.failed
       /\ is_secure_image \/ locked = Secrets
  /\ pc \in Final => ap_status = IF boot_from_spi THEN "NONE"
                                 ELSE ReadyToBootStatus
  /\ pc \notin Final \cup {"halted"} => ap_status = "NONE"

(* The loading RAM holds bytes of the medium in use only. *)
RamInv ==
  /\ \A a \in LoadingRam : ram[a] # None => ram[a][1] = Medium
  /\ pc \in BeforeMedium => ram = ClearedRam

(* The communication area of an image that verified. *)
IdentityInv ==
  /\ pc \in {"sections", "loaded"} \cup Final /\ crypto_state = "VERIFIED" =>
       /\ comm_area.identity = SignedPortion(Image)
       /\ comm_area.key \in UsableKeys
  /\ pc \in {"loaded"} \cup Final => comm_area.package = Image.name

(* How the status that is published follows the attempt being made, and
   what the error fields hold. *)
ErrnoInv ==
  /\ FailuresRecorded
  /\ pc \in BeforeMedium \cup {"locate"} =>
       fw_errno = NoErrno /\ ~fallback_boot_unipro
  /\ ~fallback_boot_unipro =>
       init_status.status # "FALLBACK_UNIPRO_BOOT_STARTED"
  /\ ~fallback_boot_unipro => boot_status # "FALLBACK_UNIPRO_BOOT_STARTED"
  /\ fallback_boot_unipro /\ pc \in {"greybus"} \cup Loading =>
       /\ init_status.status = "FALLBACK_UNIPRO_BOOT_STARTED"
       /\ ~init_status.failed
  /\ fallback_boot_unipro /\ pc \in {"greybus", "finished"} \cup Loading =>
       boot_status = "FALLBACK_UNIPRO_BOOT_STARTED"
  /\ HaltReports

(* Together they are preserved by every step. *)
IInv == /\ TypeOK /\ MediumInv /\ CryptoInv /\ VerdictInv
        /\ RamInv /\ IdentityInv /\ ErrnoInv
=============================================================================
