--------------------------- MODULE BootRomProofs ---------------------------
(***************************************************************************)
(* Proofs about the first boot stage for every address space, key set and  *)
(* set of images: the parts of the inductive invariant IInv of BootRom are *)
(* preserved one by one, and the safety properties follow from it.         *)
(***************************************************************************)
EXTENDS BootRom, TftfProofs, SequenceTheorems

-----------------------------------------------------------------------------
(* Types of the words and errors the status helpers are given. *)

(* Every value built by the INIT_STATUS_xxx constants and by
   merge_errno_with_boot_status is a word of the attribute. *)
LEMMA WordTypes ==
  ASSUME NEW s \in StatusNames, NEW e \in Errnos
  PROVE  /\ NoErrno \in Errnos
         /\ Status(s) \in Words
         /\ Merge(s, e) \in Words
         /\ [Merge(s, e) EXCEPT !.failed = TRUE] \in Words
<1>1. NoErrno \in Errnos
  BY DEF NoErrno, Errnos, Errors
<1>2. Status(s) \in Words
  BY <1>1 DEF Status, Words
<1> QED BY <1>1, <1>2, ZenonT(40) DEF Merge, Status, Words

(* set_last_error keeps every error field an error code. *)
LEMMA ErrnoAfterType ==
  ASSUME fw_errno \in Errnos, NEW err \in Errors
  PROVE  ErrnoAfter(1, err) \in Errnos
BY DEF ErrnoAfter, ErrorField, Errnos, Fields

(* What halt_and_catch_fire may do to the published state. *)
LEMMA HaltType ==
  ASSUME TypeOK, NEW s \in StatusNames, NEW e \in Errnos, Halt(s, e)
  PROVE  /\ pc' = "halted" /\ fw_errno' = e
         /\ init_status' \in Words /\ boot_status_offline' \in BOOLEAN
BY WordTypes, ZenonT(40) DEF Halt, TypeOK

(* What chip_advertise_boot_status may do to the published state. *)
LEMMA AdvertiseType ==
  ASSUME TypeOK, NEW w \in Words, NEW next \in PCs, Advertise(w, next)
  PROVE  /\ pc' \in {next, "halted"}
         /\ init_status' \in Words /\ boot_status_offline' \in BOOLEAN
BY ZenonT(40) DEF Advertise, DmeDown, TypeOK

(* What set_last_error may do to the published state. *)
LEMMA SetLastErrorType ==
  ASSUME TypeOK, NEW err \in Errors, NEW next \in PCs,
         SetLastError(1, err, next)
  PROVE  /\ pc' \in {next, "halted"} /\ fw_errno' \in Errnos
         /\ init_status' \in Words /\ boot_status_offline' \in BOOLEAN
BY ErrnoAfterType, ZenonT(40) DEF SetLastError, DmeDown, TypeOK

(* The same for set_last_error followed by halt_and_catch_fire. *)
LEMMA FailAndHaltType ==
  ASSUME TypeOK, NEW err \in Errors, NEW s \in StatusNames,
         FailAndHalt(1, err, s)
  PROVE  /\ pc' = "halted" /\ fw_errno' \in Errnos
         /\ init_status' \in Words /\ boot_status_offline' \in BOOLEAN
<1>1. CASE Halt(s, ErrnoAfter(1, err))
  BY <1>1, HaltType, ErrnoAfterType DEF TypeOK
<1>2. CASE DmeDown /\ UNCHANGED fw_errno
  BY <1>2 DEF DmeDown, TypeOK
<1> QED BY <1>1, <1>2 DEF FailAndHalt

(* The checks of the TFTF header report known error codes. *)
LEMMA HeaderErrorType ==
  ASSUME NEW img PROVE HeaderError(img) \in Errors
<1>1. valid_tftf_header(img) \in Errors
  BY ZenonT(40) DEF valid_tftf_header, valid_tftf_section, Errors
<1>2. ScanError(img) \in Errors
  BY DEF ScanError, ScanErrors, Errors
<1> QED BY <1>1, <1>2 DEF HeaderError, Errors

-----------------------------------------------------------------------------
(* Every step of bootrom_main keeps every variable in its type.  The count of
   spi_clk users needs to know which medium is in use where. *)
LEMMA TypeStep ==
  ASSUME TypeOK, MediumInv, [Next]_vars
  PROVE  TypeOK'
<1> USE DEF statusVars, loaderVars, fixedVars, mainVars, deviceVars
<1>1. CASE Start
  <2>1. Status("OPERATING") \in Words /\ NoErrno \in Errnos
    BY WordTypes, ZenonT(40) DEF StatusNames, TypeOK
  <2>2. /\ pc' \in PCs
        /\ init_status' \in Words /\ boot_status_offline' \in BOOLEAN
    BY <1>1, <2>1, AdvertiseType DEF Start, PCs
  <2> QED BY <1>1, <2>1, <2>2 DEF Start, InitLastError, TypeOK
<1>2. CASE AdvertiseBootType
  <2>1. /\ pc' \in PCs /\ fw_errno' \in Errnos
        /\ init_status' \in Words /\ boot_status_offline' \in BOOLEAN
    BY <1>2, HaltType DEF AdvertiseBootType, PCs, TypeOK
  <2> QED BY <1>2, <2>1 DEF AdvertiseBootType, TypeOK
<1>3. CASE EfuseInit
  <2>1. EfuseErrors \subseteq Errors
    BY DEF Errors
  <2>2. /\ pc' \in PCs /\ fw_errno' \in Errnos
        /\ init_status' \in Words /\ boot_status_offline' \in BOOLEAN
    BY <1>3, <2>1, FailAndHaltType DEF EfuseInit, PCs, TypeOK
  <2> QED BY <1>3, <2>2 DEF EfuseInit, TypeOK
<1>4. CASE SelectMedium
  BY <1>4 DEF SelectMedium, MediumInv, BeforeMedium, PCs, Chips, TypeOK
<1>5. CASE LocateFirmware
  <2>1. "SPI_BOOT_STARTED" \in StatusNames /\ FfffErrors \subseteq Errors
    BY DEF StatusNames, Errors
  <2>2. Status("SPI_BOOT_STARTED") \in Words /\ NoErrno \in Errnos
    BY <2>1, WordTypes, ZenonT(40) DEF TypeOK
  <2>3. /\ pc' \in PCs /\ fw_errno' \in Errnos /\ boot_status' \in StatusNames
        /\ init_status' \in Words /\ boot_status_offline' \in BOOLEAN
    <3>1. CASE \E err \in FfffErrors : SetLastError(1, err, "load_failed")
      BY <1>5, <3>1, <2>1, SetLastErrorType DEF LocateFirmware, PCs, TypeOK
    <3>2. CASE Advertise(Status("SPI_BOOT_STARTED"), "load_header")
               /\ fw_errno' \in InitLastError(1)
      BY <1>5, <3>2, <2>1, <2>2, AdvertiseType
      DEF LocateFirmware, InitLastError, PCs, TypeOK
    <3> QED BY <1>5, <3>1, <3>2 DEF LocateFirmware
  <2> QED BY <1>5, <2>3 DEF LocateFirmware, TypeOK
<1>6. CASE LoadImage
  <2>1. Image \in Images
    BY DEF Image, Medium, Images, TypeOK
  <2>2. CASE load_tftf_header(1, Image, Medium)
    <3>1. PICK err \in {HeaderError(Image)} \cup AccessErrors(Image, Medium) :
             /\ crypto_state' \in CryptoStates
             /\ contain_signature' \in BOOLEAN
             /\ IF err = "BRE_OK"
                THEN pc' = "sections" /\ UNCHANGED statusVars
                ELSE SetLastError(1, err, IF err \in LenientErrors
                                          THEN "sections" ELSE "load_failed")
      BY <2>2 DEF load_tftf_header, CryptoStateOfHeader, CryptoStates
    <3>2. err \in Errors
      BY <3>1, HeaderErrorType DEF AccessErrors, LoadErrors, Errors
    <3>3. /\ pc' \in PCs /\ fw_errno' \in Errnos
          /\ init_status' \in Words /\ boot_status_offline' \in BOOLEAN
      BY <3>1, <3>2, SetLastErrorType DEF PCs, TypeOK
    <3>4. /\ section' = 1 /\ is_secure_image' = FALSE
          /\ UNCHANGED <<ram, comm_area>>
      BY <2>2, Zenon DEF load_tftf_header
    <3>5. UNCHANGED <<fixedVars, mainVars, deviceVars>>
      BY <1>6 DEF LoadImage
    <3>6. crypto_state' \in CryptoStates /\ contain_signature' \in BOOLEAN
      BY <3>1
    <3>7. section' \in Nat \ {0}
      BY <3>4
    <3>8. is_secure_image' \in BOOLEAN
      BY <3>4, Zenon
    <3> QED BY <3>3, <3>4, <3>5, <3>6, <3>7, <3>8 DEF TypeOK
  <2>3. CASE LoadSignature(1, Image, Medium, UsableKeys)
    <3>1. LoadErrors(Medium, "BRE_TFTF_LOAD_SIGNATURE") \subseteq Errors
      BY SMTT(40) DEF LoadErrors, Errors
    <3>2. /\ pc' \in PCs /\ fw_errno' \in Errnos
          /\ init_status' \in Words /\ boot_status_offline' \in BOOLEAN
      BY <2>3, <3>1, SetLastErrorType DEF LoadSignature, PCs, TypeOK
    <3>3. section' \in Nat \ {0} /\ crypto_state' \in CryptoStates
      BY <2>3 DEF LoadSignature, CryptoStates, TypeOK
    <3>4. DOMAIN comm_area' = {"identity", "key", "package"}
      BY <2>3, ZenonT(40) DEF LoadSignature, StoreIdentity, TypeOK
    <3> QED BY <1>6, <2>3, <3>2, <3>3, <3>4
            DEF LoadImage, LoadSignature, TypeOK
  <2>4. CASE LoadSection(1, Image, Medium)
    <3>1. LoadErrors(Medium, "BRE_TFTF_LOAD_DATA") \subseteq Errors
      BY SMTT(40) DEF LoadErrors, Errors
    <3>2. /\ pc' \in PCs /\ fw_errno' \in Errnos
          /\ init_status' \in Words /\ boot_status_offline' \in BOOLEAN
      BY <2>4, <3>1, SetLastErrorType, ZenonT(40) DEF LoadSection, PCs, TypeOK
    <3>3. section' \in Nat \ {0} /\ crypto_state' \in CryptoStates
      BY <2>4, SMTT(40) DEF LoadSection, CryptoStates, TypeOK
    <3>4. DOMAIN ram' = LoadingRam
      BY <2>4 DEF LoadSection, RamAfter, TypeOK
    <3> QED BY <1>6, <2>4, <3>2, <3>3, <3>4, ZenonT(40) DEF LoadImage, LoadSection, TypeOK
  <2>5. CASE load_tftf_image(1, Image, chip.trusted_only)
    <3>1. {"BRE_TFTF_IMAGE_CORRUPTED", "BRE_TFTF_UNTRUSTED_NOT_ALLOWED"}
            \subseteq Errors
      BY DEF Errors
    <3>2. /\ pc' \in PCs /\ fw_errno' \in Errnos
          /\ init_status' \in Words /\ boot_status_offline' \in BOOLEAN
      BY <2>5, <3>1, SetLastErrorType DEF load_tftf_image, PCs, TypeOK
    <3>3. DOMAIN comm_area' = {"identity", "key", "package"}
      BY <2>5 DEF load_tftf_image, TypeOK
    <3> QED BY <1>6, <2>5, <3>2, <3>3 DEF LoadImage, load_tftf_image, TypeOK
  <2> QED BY <1>6, <2>2, <2>3, <2>4, <2>5 DEF LoadImage
<1>7. CASE FinishSpi
  BY <1>7, SMTT(40) DEF FinishSpi, MediumInv, Loading, PCs, TypeOK
<1>8. CASE FallBack
  <2>1. DOMAIN ram' = LoadingRam
    BY <1>8 DEF FallBack, chip_clear_image_loading_ram, ClearedRam
  <2>2. pc' \in PCs /\ spi_clk_usage_count' \in 0 .. 1
    BY <1>8 DEF FallBack, MediumInv, Loading, PCs, TypeOK
  <2> QED BY <1>8, <2>1, <2>2, ZenonT(40) DEF FallBack, TypeOK
<1>9. CASE StartUnipro
  <2>1. /\ "FALLBACK_UNIPRO_BOOT_STARTED" \in StatusNames
        /\ "UNIPRO_BOOT_STARTED" \in StatusNames
        /\ "greybus" \in PCs /\ "halted" \in PCs
    BY DEF StatusNames, PCs
  <2>2. boot_status' \in StatusNames
    BY <1>9, <2>1 DEF StartUnipro
  <2>3. /\ Merge(boot_status', fw_errno) \in Words
        /\ Status(boot_status') \in Words
    BY <2>2, WordTypes, ZenonT(40) DEF TypeOK
  <2>4. /\ pc' \in PCs
        /\ init_status' \in Words /\ boot_status_offline' \in BOOLEAN
    BY <1>9, <2>1, <2>3, AdvertiseType DEF StartUnipro
  <2> QED BY <1>9, <2>2, <2>4 DEF StartUnipro, TypeOK
<1>10. CASE InitGreybus
  <2>1. {"BRE_BOU_GBBOOT_CPORT", "BRE_BOU_GBBOOT_FW_SIZE",
         "BRE_BOU_GBBOOT_FW_TOO_LARGE"} \subseteq Errors
    BY DEF Errors
  <2>2. /\ pc' \in PCs /\ fw_errno' \in Errnos
        /\ init_status' \in Words /\ boot_status_offline' \in BOOLEAN
    BY <1>10, <2>1, FailAndHaltType DEF InitGreybus, PCs, TypeOK
  <2> QED BY <1>10, <2>2 DEF InitGreybus, TypeOK
<1>11. CASE FinishUnipro
  <2>1. "BRE_BOU_GBBOOT_READY" \in Errors
    BY DEF Errors
  <2>2. /\ pc' \in PCs /\ fw_errno' \in Errnos
        /\ init_status' \in Words /\ boot_status_offline' \in BOOLEAN
    BY <1>11, <2>1, FailAndHaltType DEF FinishUnipro, PCs, TypeOK
  <2> QED BY <1>11, <2>2 DEF FinishUnipro, ReadyToBootStatus, TypeOK
<1>12. CASE GiveUp
  <2>1. "BRE_BOU_GBBOOT_READY" \in Errors
    BY DEF Errors
  <2>2. /\ pc' \in PCs /\ fw_errno' \in Errnos
        /\ init_status' \in Words /\ boot_status_offline' \in BOOLEAN
    BY <1>12, <2>1, HaltType, FailAndHaltType DEF GiveUp, PCs, TypeOK
  <2> QED BY <1>12, <2>2 DEF GiveUp, TypeOK
<1>13. CASE AdvertiseFinished
  <2>1. FinishedStatus \in StatusNames /\ "jump" \in PCs /\ "halted" \in PCs
    BY DEF FinishedStatus, StatusNames, PCs
  <2>2. Merge(FinishedStatus, fw_errno) \in Words /\ Status(FinishedStatus) \in Words
    BY <2>1, WordTypes, ZenonT(40) DEF TypeOK
  <2>3. /\ pc' \in PCs
        /\ init_status' \in Words /\ boot_status_offline' \in BOOLEAN
    BY <1>13, <2>1, <2>2, AdvertiseType DEF AdvertiseFinished
  <2> QED BY <1>13, <2>1, <2>3
          DEF AdvertiseFinished, efuse_rig_for_untrusted, TypeOK
<1>14. CASE Jump
  BY <1>14 DEF Jump, PCs, TypeOK
<1>15. CASE UNCHANGED vars
  BY <1>15 DEF vars, TypeOK
<1> QED BY <1>1, <1>2, <1>3, <1>4, <1>5, <1>6, <1>7, <1>8, <1>9, <1>10,
           <1>11, <1>12, <1>13, <1>14, <1>15, SMTT(40) DEF Next, Stopped
-----------------------------------------------------------------------------
(* Where load_tftf_image starts from, where it leads to, and that it leaves
   the variables of bootrom_main and the devices alone. *)
LEMMA LoadImageControl ==
  ASSUME LoadImage
  PROVE  /\ pc \in {"load_header", "sections"}
         /\ pc' \in {"sections", "loaded", "load_failed", "halted", "wild"}
         /\ UNCHANGED <<fixedVars, mainVars, deviceVars>>
<1>1. UNCHANGED <<fixedVars, mainVars, deviceVars>>
  BY DEF LoadImage
<1>2. CASE load_tftf_header(1, Image, Medium)
  <2>1. /\ pc = "load_header"
        /\ \E err : IF err = "BRE_OK"
                    THEN pc' = "sections" /\ UNCHANGED statusVars
                    ELSE SetLastError(1, err, IF err \in LenientErrors
                                              THEN "sections" ELSE "load_failed")
    BY <1>2, Zenon DEF load_tftf_header
  <2> QED BY <1>1, <2>1 DEF SetLastError, DmeDown
<1>3. CASE LoadSignature(1, Image, Medium, UsableKeys)
  BY <1>1, <1>3, SMTT(40) DEF LoadSignature, SetLastError, DmeDown
<1>4. CASE LoadSection(1, Image, Medium)
  BY <1>1, <1>4 DEF LoadSection, SetLastError, DmeDown
<1>5. CASE load_tftf_image(1, Image, chip.trusted_only)
  BY <1>1, <1>5, SMTT(40) DEF load_tftf_image, SetLastError, DmeDown
<1> QED BY <1>2, <1>3, <1>4, <1>5 DEF LoadImage

(* Every step keeps the medium, the fallback flag and the SPI clock in step
   with the place bootrom_main is at. *)
LEMMA MediumStep ==
  ASSUME TypeOK, MediumInv, [Next]_vars
  PROVE  MediumInv'
<1> USE DEF MediumInv, BeforeMedium, Loading, Final, TypeOK,
            statusVars, fixedVars, mainVars, deviceVars
<1>1. CASE Start
  BY <1>1 DEF Start, Advertise, DmeDown
<1>2. CASE AdvertiseBootType
  BY <1>2 DEF AdvertiseBootType, Halt
<1>3. CASE EfuseInit
  BY <1>3 DEF EfuseInit, FailAndHalt, Halt, DmeDown
<1>4. CASE SelectMedium
  <2>1. ~fallback_boot_unipro /\ spi_clk_usage_count = 0
    BY <1>4 DEF SelectMedium
  <2>2. CASE chip.spiboot_n
    BY <1>4, <2>1, <2>2 DEF SelectMedium
  <2>3. CASE ~chip.spiboot_n
    <3>1. boot_from_spi'
      BY <1>4, <2>3, Zenon DEF SelectMedium
    <3> QED BY <1>4, <2>1, <2>3, <3>1 DEF SelectMedium
  <2> QED BY <2>2, <2>3
<1>5. CASE LocateFirmware
  BY <1>5 DEF LocateFirmware, Advertise, SetLastError, DmeDown
<1>6. CASE LoadImage
  BY <1>6, LoadImageControl
<1>7. CASE FinishSpi
  BY <1>7 DEF FinishSpi
<1>8. CASE FallBack
  BY <1>8 DEF FallBack
<1>9. CASE StartUnipro
  BY <1>9 DEF StartUnipro, Advertise, DmeDown
<1>10. CASE InitGreybus
  BY <1>10 DEF InitGreybus, FailAndHalt, Halt, DmeDown
<1>11. CASE FinishUnipro
  BY <1>11 DEF FinishUnipro, FailAndHalt, Halt, DmeDown
<1>12. CASE GiveUp
  BY <1>12 DEF GiveUp, FailAndHalt, Halt, DmeDown
<1>13. CASE AdvertiseFinished
  BY <1>13 DEF AdvertiseFinished, Advertise, DmeDown
<1>14. CASE Jump
  BY <1>14 DEF Jump
<1>15. CASE UNCHANGED vars
  BY <1>15 DEF vars
<1> QED BY <1>1, <1>2, <1>3, <1>4, <1>5, <1>6, <1>7, <1>8, <1>9, <1>10,
           <1>11, <1>12, <1>13, <1>14, <1>15, ZenonT(40) DEF Next, Stopped
-----------------------------------------------------------------------------
(* The signed portion of an accepted image ends where the section loop of
   load_tftf_image meets its first unsigned section: everything in front of
   that section is hashed, nothing behind it is. *)
LEMMA FirstUnsignedProperties ==
  ASSUME NEW img \in Images, HeaderError(img) = "BRE_OK",
         \E i \in Live(img) : img.sections[i].type \in UnsignedTypes
  PROVE  /\ FirstUnsigned(img) \in Nat \ {0}
         /\ FirstUnsigned(img) \in Live(img)
         /\ FirstUnsigned(img) = Least(UnsignedBefore(img, ScanStop(img)))
         /\ \A i \in Live(img) :
              img.sections[i].type \in UnsignedTypes <=> i >= FirstUnsigned(img)
<1>1. /\ Len(img.sections) \in Nat
      /\ valid_tftf_header(img) = "BRE_OK" /\ ScanError(img) = "BRE_OK"
  BY ImagesAssumption DEF HeaderError
<1>2. /\ ScanStop(img) \in Slots(img)
      /\ Live(img) = 1 .. ScanStop(img) - 1
      /\ \A i, j \in Live(img) :
           i <= j /\ img.sections[i].type \in UnsignedTypes
             => img.sections[j].type \in UnsignedTypes
  BY <1>1, ScanProperties
<1> DEFINE A == {i \in Slots(img) : img.sections[i].type \in UnsignedTypes}
           U == UnsignedBefore(img, ScanStop(img))
<1>3. U # {} /\ U \subseteq A /\ A \in SUBSET Nat /\ U \in SUBSET Nat
  BY <1>1, <1>2 DEF UnsignedBefore, Slots
<1>4. /\ Least(A) \in A /\ \A j \in A : Least(A) <= j
      /\ Least(U) \in U /\ \A j \in U : Least(U) <= j
  <2> HIDE DEF A, U
  <2> QED BY <1>3, LeastProperties, ZenonT(40)
<1>5. \A i \in A : i < ScanStop(img) => i \in U
  BY <1>1, <1>2 DEF UnsignedBefore, Slots
<1>6. \A i \in U : i < ScanStop(img) /\ i \in Nat \ {0} /\ i \in Live(img)
  BY <1>1, <1>2 DEF UnsignedBefore, Slots
<1>7. Least(A) \in U /\ Least(A) = Least(U)
  <2>1. ScanStop(img) \in Nat
    BY <1>1, <1>2 DEF Slots
  <2> HIDE DEF A, U
  <2>2. Least(U) \in A /\ Least(U) \in Nat /\ Least(A) \in Nat
    BY <1>3, <1>4, ZenonT(40)
  <2>3. Least(A) <= Least(U) /\ Least(U) < ScanStop(img)
    BY <1>4, <1>6, <2>2
  <2>4. Least(A) \in U
    BY <1>4, <1>5, <2>1, <2>2, <2>3
  <2>5. Least(U) <= Least(A)
    BY <1>4, <2>4
  <2> QED BY <2>2, <2>3, <2>4, <2>5
<1>8. FirstUnsigned(img) = Least(A)
  BY DEF FirstUnsigned
<1>9. /\ Least(A) \in Live(img)
      /\ img.sections[Least(A)].type \in UnsignedTypes
      /\ \A i \in Live(img) :
            img.sections[i].type \in UnsignedTypes => Least(A) <= i
  BY <1>1, <1>2, <1>4, <1>6, <1>7, SMTT(40) DEF Slots
<1> HIDE DEF A, U
<1> QED BY <1>2, <1>6, <1>7, <1>8, <1>9 DEF U
(* A step that leaves the medium, the images and the e-fuses alone leaves the
   image being loaded and the keys it is checked against alone. *)
LEMMA SameImage ==
  ASSUME UNCHANGED <<fixedVars, mainVars>>
  PROVE  Image' = Image /\ Medium' = Medium /\ UsableKeys' = UsableKeys
BY DEF Image, Medium, UsableKeys, fixedVars, mainVars

(* The digest the loader has when it meets the first unsigned section is the
   digest of the signed portion. *)
LEMMA DigestAtFirstUnsigned ==
  ASSUME TypeOK, CryptoInv, pc = "sections", section \in Live(Image),
         HashFinal(Image)
  PROVE  shctx = SignedPortion(Image)
<1>1. Image \in Images
  BY DEF Image, Medium, Images, TypeOK
<1>2. /\ HeaderError(Image) = "BRE_OK"
      /\ \E i \in Live(Image) : Image.sections[i].type \in UnsignedTypes
      /\ section <= FirstUnsigned(Image)
      /\ shctx = [k \in 1 .. section |-> SignedPart(Image, k)]
  BY DEF CryptoInv, HashFinal
<1>3. section >= FirstUnsigned(Image) /\ FirstUnsigned(Image) \in Nat
  BY <1>1, <1>2, FirstUnsignedProperties DEF HashFinal
<1>4. section = FirstUnsigned(Image)
  BY <1>2, <1>3 DEF TypeOK
<1> QED BY <1>2, <1>4 DEF SignedPortion

(* load_tftf_header leaves a hash context that has absorbed exactly the first
   part of the signed portion, if it starts one at all. *)
LEMMA HeaderCrypto ==
  ASSUME TypeOK, load_tftf_header(1, Image, Medium),
         UNCHANGED <<fixedVars, mainVars>>
  PROVE  CryptoInv'
<1>1. Image \in Images
  BY DEF Image, Medium, Images, TypeOK
<1>2. PICK err \in {HeaderError(Image)} \cup AccessErrors(Image, Medium) :
        /\ LET n == IF err \in ScanErrors THEN ScanStop(Image) ELSE 1
               unsigned == UnsignedBefore(Image, n)
           IN /\ crypto_state' = CryptoStateOfHeader(unsigned)
              /\ shctx' = IF unsigned = {} THEN shctx
                          ELSE <<HeaderPart(Image, Least(unsigned))>>
        /\ IF err = "BRE_OK"
           THEN pc' = "sections" /\ UNCHANGED statusVars
           ELSE SetLastError(1, err, IF err \in LenientErrors
                                     THEN "sections" ELSE "load_failed")
  BY Zenon DEF load_tftf_header
<1>3. section' = 1
  BY Zenon DEF load_tftf_header
<1> SUFFICES ASSUME pc' \in {"sections", "loaded"} \cup Final,
                    crypto_state' # "INIT"
             PROVE  CryptoInv'
  BY DEF CryptoInv
<1>4. pc' = "sections" /\ (err = "BRE_OK" \/ err \in LenientErrors)
  BY <1>2 DEF SetLastError, DmeDown, Final
<1>5. UnsignedBefore(Image, 1) = {}
  BY DEF UnsignedBefore
<1>6. err = "BRE_OK"
  BY <1>2, <1>4, <1>5 DEF CryptoStateOfHeader, LenientErrors, ScanErrors
<1>7. HeaderError(Image) = "BRE_OK"
  BY <1>2, <1>6 DEF AccessErrors, LoadErrors
<1> DEFINE U == UnsignedBefore(Image, ScanStop(Image))
<1>8. /\ U # {} /\ crypto_state' = "HASHING"
      /\ shctx' = <<HeaderPart(Image, Least(U))>>
  BY <1>2, <1>6 DEF CryptoStateOfHeader, ScanErrors
<1>9. Live(Image) = 1 .. ScanStop(Image) - 1
  BY <1>1, <1>7, ImagesAssumption, ScanProperties DEF HeaderError
<1>10. \E i \in Live(Image) : Image.sections[i].type \in UnsignedTypes
  BY <1>8, <1>9 DEF UnsignedBefore
<1>11. FirstUnsigned(Image) \in Nat \ {0} /\ FirstUnsigned(Image) = Least(U)
  BY <1>1, <1>7, <1>10, FirstUnsignedProperties
<1>12. shctx' = [k \in 1 .. 1 |-> SignedPart(Image, k)]
  <2> HIDE DEF U
  <2> QED BY <1>8, <1>11 DEF SignedPart
<1>13. Image' = Image /\ UsableKeys' = UsableKeys
  BY SameImage, SMTT(40)
<1> HIDE DEF U
<1> QED BY <1>3, <1>7, <1>8, <1>10, <1>11, <1>12, <1>13 DEF CryptoInv
(* A signature section: the digest is final, and VERIFIED is only reached by
   a signature over it under a usable key. *)
LEMMA SignatureCrypto ==
  ASSUME TypeOK, CryptoInv, LoadSignature(1, Image, Medium, UsableKeys),
         UNCHANGED <<fixedVars, mainVars>>
  PROVE  CryptoInv'
<1> DEFINE s == Image.sections[section]
           hash1 == IF HashFinal(Image) THEN shctx ELSE hash
           state1 == IF HashFinal(Image) THEN "HASHED" ELSE crypto_state
           verified == state1 = "HASHED"
                       /\ verify_signature(hash1, s.sig, UsableKeys)
<1>1. /\ pc = "sections" /\ section \in Live(Image) /\ s.type = "SIGNATURE"
      /\ hash' = hash1
      /\ \/ crypto_state' = IF verified THEN "VERIFIED" ELSE state1
         \/ pc' \in {"load_failed", "halted"}
  BY DEF LoadSignature, SetLastError, DmeDown
<1>2. Image' = Image /\ UsableKeys' = UsableKeys
  BY SameImage
<1> SUFFICES ASSUME pc' \in {"sections", "loaded"} \cup Final,
                    crypto_state' # "INIT"
             PROVE  CryptoInv'
  BY DEF CryptoInv
<1>3. crypto_state' = IF verified THEN "VERIFIED" ELSE state1
  BY <1>1 DEF Final
<1>4. crypto_state # "INIT"
  BY <1>3 DEF HashFinal
<1>5. state1 \in {"HASHED", "VERIFIED"}
  BY <1>1, <1>4 DEF HashFinal, UnsignedTypes, TypeOK, CryptoStates
<1>6. hash1 = SignedPortion(Image)
  <2>1. CASE HashFinal(Image)
    BY <2>1, <1>1, DigestAtFirstUnsigned, SMTT(40)
  <2>2. CASE ~HashFinal(Image)
    BY <2>2, <1>1, <1>5, SMTT(40) DEF CryptoInv
  <2> QED BY <2>1, <2>2, SMTT(40)
<1>7. verified => SignedWith(Image, UsableKeys)
  <2> HIDE DEF hash1, state1
  <2> QED BY <1>1, <1>6 DEF SignedWith, verify_signature
<1>8. crypto_state' = "VERIFIED" => SignedWith(Image, UsableKeys)
  <2>1. CASE verified
    BY <2>1, <1>7, SMTT(40)
  <2>2. CASE ~verified
    BY <2>2, <1>1, <1>3 DEF CryptoInv
  <2> QED BY <2>1, <2>2
<1>9. crypto_state' \in {"HASHED", "VERIFIED"}
  BY <1>3, <1>5, SMTT(40)
<1>10. /\ HeaderError(Image) = "BRE_OK"
       /\ \E i \in Live(Image) : Image.sections[i].type \in UnsignedTypes
  BY <1>1, <1>4 DEF CryptoInv
<1> HIDE DEF hash1, state1, verified
<1> QED BY <1>1, <1>2, <1>6, <1>8, <1>9, <1>10, SMTT(40) DEF CryptoInv

(* Any other section: in front of the first unsigned one its data is the next
   part of the signed portion, from there on it is not hashed. *)
LEMMA SectionCrypto ==
  ASSUME TypeOK, CryptoInv, LoadSection(1, Image, Medium),
         UNCHANGED <<fixedVars, mainVars>>
  PROVE  CryptoInv'
<1> DEFINE state1 == IF HashFinal(Image) THEN "HASHED" ELSE crypto_state
<1>1. /\ pc = "sections" /\ section \in Live(Image)
      /\ hash' = IF HashFinal(Image) THEN shctx ELSE hash
      /\ crypto_state' = state1
      /\ \/ /\ shctx' = IF state1 = "HASHING"
                         THEN Append(shctx, SectionPart(Image, section))
                         ELSE shctx
            /\ section' = section + 1
         \/ pc' \in {"load_failed", "halted", "wild"}
  BY DEF LoadSection, SetLastError, DmeDown
<1>2. Image' = Image /\ UsableKeys' = UsableKeys /\ Image \in Images
  BY SameImage DEF Image, Medium, Images, TypeOK
<1> SUFFICES ASSUME pc' \in {"sections", "loaded"} \cup Final,
                    crypto_state' # "INIT"
             PROVE  CryptoInv'
  BY SMTT(40) DEF CryptoInv
<1>3. /\ crypto_state # "INIT"
      /\ HeaderError(Image) = "BRE_OK"
      /\ \E i \in Live(Image) : Image.sections[i].type \in UnsignedTypes
  BY <1>1 DEF CryptoInv, HashFinal
<1>4. CASE HashFinal(Image)
  <2>1. hash' = SignedPortion(Image) /\ crypto_state' = "HASHED"
    BY <1>1, <1>4, DigestAtFirstUnsigned, SMTT(40)
  <2> QED BY <1>2, <1>3, <2>1 DEF CryptoInv
<1>5. CASE ~HashFinal(Image) /\ crypto_state # "HASHING"
  <2>1. hash' = hash /\ crypto_state' = crypto_state
    BY <1>1, <1>5
  <2> QED BY <1>1, <1>2, <1>3, <1>5, <2>1 DEF CryptoInv
<1>6. CASE ~HashFinal(Image) /\ crypto_state = "HASHING"
  <2> DEFINE f == FirstUnsigned(Image)
             Parts == {SignedPart(Image, k) : k \in Nat}
  <2>1. /\ section <= f
        /\ shctx = [k \in 1 .. section |-> SignedPart(Image, k)]
    BY <1>1, <1>6, SMTT(40) DEF CryptoInv
  <2>2. section < f /\ f \in Nat /\ section \in Nat \ {0}
    BY <1>1, <1>2, <1>3, <1>6, <2>1, FirstUnsignedProperties
    DEF HashFinal, TypeOK
  <2>3. /\ shctx' = Append(shctx, SectionPart(Image, section))
        /\ section' = section + 1 /\ crypto_state' = "HASHING"
    BY <1>1, <1>6 DEF Final
  <2>4. SectionPart(Image, section) = SignedPart(Image, section + 1)
    BY <2>2 DEF SignedPart
  <2>5. shctx' = [k \in 1 .. section + 1 |-> SignedPart(Image, k)]
    <3>1. shctx \in Seq(Parts) /\ Len(shctx) = section
      BY <2>1, <2>2
    <3>2. SectionPart(Image, section) \in Parts
      BY <2>2, <2>4
    <3> HIDE DEF Parts
    <3> QED BY <2>1, <2>2, <2>3, <2>4, <3>1, <3>2
  <2> QED BY <1>2, <1>3, <2>2, <2>3, <2>5, SMTT(40) DEF CryptoInv
<1> QED BY <1>4, <1>5, <1>6, SMTT(40)
(* Every step keeps the crypto state true of the image being loaded. *)
LEMMA CryptoStep ==
  ASSUME TypeOK, CryptoInv, [Next]_vars
  PROVE  CryptoInv'
<1> USE DEF Final
<1>1. CASE LoadImage
  <2>1. UNCHANGED <<fixedVars, mainVars>>
    BY <1>1 DEF LoadImage
  <2>2. CASE load_tftf_image(1, Image, chip.trusted_only)
    <3>1. /\ pc = "sections" /\ pc' \in {"loaded", "load_failed", "halted"}
          /\ UNCHANGED <<crypto_state, hash>>
      BY <2>2 DEF load_tftf_image, SetLastError, DmeDown
    <3> QED BY <2>1, <3>1, SameImage DEF CryptoInv
  <2> QED BY <1>1, <2>1, <2>2, HeaderCrypto, SignatureCrypto, SectionCrypto
          DEF LoadImage
<1>2. CASE \/ FinishSpi \/ FinishUnipro \/ AdvertiseFinished \/ Jump
  <2>1. /\ pc \in {"loaded"} \cup Final
        /\ pc' \in Final \cup {"halted"}
        /\ UNCHANGED <<crypto_state, hash, chip, media, boot_from_spi>>
    BY <1>2 DEF FinishSpi, FinishUnipro, AdvertiseFinished, Jump, FailAndHalt,
                Halt, Advertise, DmeDown, loaderVars, fixedVars, mainVars
  <2>2. Image' = Image /\ UsableKeys' = UsableKeys
    BY <2>1 DEF Image, Medium, UsableKeys
  <2> QED BY <2>1, <2>2 DEF CryptoInv
<1>3. CASE \/ Start \/ AdvertiseBootType \/ EfuseInit \/ SelectMedium
           \/ LocateFirmware \/ FallBack \/ StartUnipro \/ InitGreybus
           \/ GiveUp
  <2>1. pc' \notin {"sections", "loaded"} \cup Final
    BY <1>3, SMTT(40) DEF Start, AdvertiseBootType, EfuseInit, SelectMedium,
                LocateFirmware, FallBack, StartUnipro, InitGreybus, GiveUp,
                SetLastError, FailAndHalt, Halt, Advertise, DmeDown
  <2> QED BY <2>1 DEF CryptoInv
<1>4. CASE UNCHANGED vars
  BY <1>4, SMTT(40) DEF CryptoInv, vars, loaderVars, fixedVars, mainVars, Image, Medium,
              UsableKeys
<1> QED BY <1>1, <1>2, <1>3, <1>4 DEF Next, Stopped

-----------------------------------------------------------------------------
(* Every step keeps the verdict, the status that is published, the locks and
   what the AP was told in agreement. *)
LEMMA VerdictStep ==
  ASSUME TypeOK, VerdictInv, [Next]_vars
  PROVE  VerdictInv'
<1> USE DEF VerdictInv, Final, statusVars, loaderVars, fixedVars, mainVars,
            deviceVars
<1>1. CASE LoadImage
  <2>1. /\ pc' \in {"sections", "loaded", "load_failed", "halted", "wild"}
        /\ pc \in {"load_header", "sections"} /\ UNCHANGED <<ap_status, chip>>
    BY <1>1, LoadImageControl
  <2>2. pc' = "loaded" => IF is_secure_image' THEN crypto_state' = "VERIFIED"
                                              ELSE ~chip.trusted_only
    <3>1. CASE load_tftf_image(1, Image, chip.trusted_only)
      BY <3>1, SMTT(40) DEF load_tftf_image, SetLastError, DmeDown, TypeOK, Chips
    <3>2. CASE LoadSignature(1, Image, Medium, UsableKeys)
      BY <3>2, SMTT(40) DEF LoadSignature, SetLastError, DmeDown
    <3>3. CASE LoadSection(1, Image, Medium)
      BY <3>3, ZenonT(40) DEF LoadSection, SetLastError, DmeDown
    <3>4. CASE load_tftf_header(1, Image, Medium)
      <4>1. \E err : IF err = "BRE_OK"
                     THEN pc' = "sections" /\ UNCHANGED statusVars
                     ELSE SetLastError(1, err, IF err \in LenientErrors
                                               THEN "sections"
                                               ELSE "load_failed")
        BY <3>4, Zenon DEF load_tftf_header
      <4> QED BY <4>1 DEF SetLastError, DmeDown
    <3> QED BY <1>1, <3>1, <3>2, <3>3, <3>4 DEF LoadImage
  <2> QED BY <2>1, <2>2
<1>2. CASE FinishSpi
  BY <1>2 DEF FinishSpi, ReadyToBootStatus
<1>3. CASE FinishUnipro
  BY <1>3, SMTT(40) DEF FinishUnipro, FailAndHalt, Halt, DmeDown, ReadyToBootStatus
<1>4. CASE AdvertiseFinished
  <2>1. /\ pc = "finished" /\ pc' \in {"jump", "halted"}
        /\ UNCHANGED <<loaderVars, chip, boot_from_spi, fallback_boot_unipro,
                       ap_status>>
        /\ locked' = IF is_secure_image THEN locked ELSE Secrets
    BY <1>4 DEF AdvertiseFinished, Advertise, DmeDown, efuse_rig_for_untrusted
  <2>2. FinishedStatus' = FinishedStatus
        /\ ReadyToBootStatus' = ReadyToBootStatus
    BY <2>1 DEF FinishedStatus, ReadyToBootStatus
  <2>3. pc' = "jump" => /\ init_status'.status = FinishedStatus
                        /\ ~init_status'.failed
    BY <1>4 DEF AdvertiseFinished, Advertise, DmeDown, Merge, Status
  <2> QED BY <2>1, <2>2, <2>3
<1>5. CASE Jump
  BY <1>5 DEF Jump, FinishedStatus, ReadyToBootStatus
<1>6. CASE \/ Start \/ AdvertiseBootType \/ EfuseInit \/ SelectMedium
           \/ LocateFirmware \/ FallBack \/ StartUnipro \/ InitGreybus
           \/ GiveUp
  <2>1. /\ pc' \notin {"loaded"} \cup Final
        /\ pc \notin Final \cup {"halted"}
        /\ pc' = "halted" \/ UNCHANGED ap_status
    BY <1>6 DEF Start, AdvertiseBootType, EfuseInit, SelectMedium,
                LocateFirmware, FallBack, StartUnipro, InitGreybus, GiveUp,
                SetLastError, FailAndHalt, Halt, Advertise, DmeDown
  <2> QED BY <2>1, SMTT(40)
<1>7. CASE UNCHANGED vars
  BY <1>7 DEF vars, FinishedStatus, ReadyToBootStatus
<1> QED BY <1>1, <1>2, <1>3, <1>4, <1>5, <1>6, <1>7 DEF Next, Stopped
-----------------------------------------------------------------------------
(* Every step keeps the loading RAM free of bytes of another medium. *)
LEMMA RamStep ==
  ASSUME TypeOK, RamInv, [Next]_vars
  PROVE  RamInv'
<1> USE DEF RamInv, BeforeMedium
<1>1. CASE LoadImage
  <2>1. /\ pc' \notin BeforeMedium
        /\ Medium' = Medium
    BY <1>1, LoadImageControl, SameImage
  <2>2. CASE LoadSection(1, Image, Medium)
    <3>1. \/ ram' = ram
          \/ \E n : ram' = RamAfter(Image.sections[section], n, Medium)
      BY <2>2, Zenon DEF LoadSection
    <3> QED BY <2>1, <3>1 DEF RamAfter
  <2>3. CASE load_tftf_header(1, Image, Medium)
    <3>1. ram' = ram
      BY <2>3, Zenon DEF load_tftf_header
    <3> QED BY <2>1, <3>1
  <2>4. CASE \/ LoadSignature(1, Image, Medium, UsableKeys)
             \/ load_tftf_image(1, Image, chip.trusted_only)
    <3>1. ram' = ram
      BY <2>4 DEF LoadSignature, load_tftf_image
    <3> QED BY <2>1, <3>1
  <2> QED BY <1>1, <2>2, <2>3, <2>4 DEF LoadImage
<1>2. CASE SelectMedium
  <2>1. ram' = ClearedRam /\ pc' \notin BeforeMedium
    BY <1>2 DEF SelectMedium
  <2> QED BY <2>1 DEF ClearedRam
<1>3. CASE FallBack
  <2>1. ram' = ClearedRam /\ pc' \notin BeforeMedium
    BY <1>3 DEF FallBack, chip_clear_image_loading_ram
  <2> QED BY <2>1 DEF ClearedRam
<1>4. CASE \/ Start \/ AdvertiseBootType \/ EfuseInit
           \/ LocateFirmware \/ FinishSpi \/ StartUnipro \/ InitGreybus
           \/ FinishUnipro \/ GiveUp \/ AdvertiseFinished \/ Jump
  <2>1. /\ ram' = ram /\ boot_from_spi' = boot_from_spi
        /\ pc' \in BeforeMedium => pc \in BeforeMedium
    BY <1>4 DEF Start, AdvertiseBootType, EfuseInit, LocateFirmware,
                FinishSpi, StartUnipro, InitGreybus, FinishUnipro, GiveUp,
                AdvertiseFinished, Jump, SetLastError, FailAndHalt, Halt,
                Advertise, DmeDown, mainVars
  <2> QED BY <2>1, SMTT(40) DEF Medium
<1>5. CASE UNCHANGED vars
  BY <1>5, SMTT(40) DEF vars, mainVars, Medium
<1> QED BY <1>1, <1>2, <1>3, <1>4, <1>5, SMTT(40) DEF Next, Stopped

(* Every step keeps the identity in the communication area the one of the
   image that verified. *)
LEMMA IdentityStep ==
  ASSUME TypeOK, IdentityInv, CryptoInv', [Next]_vars
  PROVE  IdentityInv'
<1> USE DEF IdentityInv, Final
<1>1. CASE LoadImage
  <2>1. Image' = Image /\ UsableKeys' = UsableKeys
    BY <1>1, SameImage DEF LoadImage
  <2>2. /\ pc \in {"load_header", "sections"}
        /\ pc' \in {"sections", "loaded", "load_failed", "halted", "wild"}
    BY <1>1, LoadImageControl, SMTT(40)
  <2>3. CASE load_tftf_header(1, Image, Medium)
    <3>1. crypto_state' \in {"INIT", "HASHING"} /\ pc' # "loaded"
      <4>1. PICK err : /\ IF err = "BRE_OK"
                          THEN pc' = "sections" /\ UNCHANGED statusVars
                          ELSE SetLastError(1, err, IF err \in LenientErrors
                                            THEN "sections" ELSE "load_failed")
                       /\ crypto_state' \in {"INIT", "HASHING"}
        BY <2>3 DEF load_tftf_header, CryptoStateOfHeader
      <4> QED BY <4>1, SMTT(40) DEF SetLastError, DmeDown
    <3> QED BY <2>2, <3>1
  <2>4. CASE LoadSignature(1, Image, Medium, UsableKeys)
    <3>1. /\ pc = "sections" /\ pc' \in {"sections", "load_failed", "halted"}
      BY <2>4 DEF LoadSignature, SetLastError, DmeDown
    <3> SUFFICES ASSUME pc' = "sections", crypto_state' = "VERIFIED"
                 PROVE  /\ comm_area'.identity = SignedPortion(Image)
                        /\ comm_area'.key \in UsableKeys
      BY <2>1, <3>1
    <3>2. hash' = SignedPortion(Image)
      BY <2>1, SMTT(40) DEF CryptoInv
    <3>3. \/ /\ comm_area' = StoreIdentity(hash', Image.sections[section].sig.key)
             /\ Image.sections[section].sig.key \in UsableKeys
          \/ comm_area' = comm_area /\ crypto_state = "VERIFIED"
      BY <2>4 DEF LoadSignature, SetLastError, DmeDown, verify_signature
    <3> QED BY <3>1, <3>2, <3>3, ZenonT(40) DEF StoreIdentity, TypeOK
  <2>5. CASE LoadSection(1, Image, Medium)
    <3>1. /\ pc = "sections" /\ pc' # "loaded" /\ comm_area' = comm_area
          /\ crypto_state' = "VERIFIED" => crypto_state = "VERIFIED"
      BY <2>5, ZenonT(40) DEF LoadSection, SetLastError, DmeDown
    <3> QED BY <2>1, <2>2, <3>1, SMTT(40)
  <2>6. CASE load_tftf_image(1, Image, chip.trusted_only)
    <3>1. /\ pc = "sections" /\ crypto_state' = crypto_state
          /\ comm_area' = [comm_area EXCEPT !.package = Image.name]
      BY <2>6, SMTT(40) DEF load_tftf_image
    <3> QED BY <2>1, <2>2, <3>1 DEF TypeOK
  <2> QED BY <1>1, <2>3, <2>4, <2>5, <2>6, SMTT(40) DEF LoadImage
<1>2. CASE \/ FinishSpi \/ FinishUnipro \/ AdvertiseFinished \/ Jump
  <2>1. /\ pc \in {"loaded"} \cup Final
        /\ pc' \in Final \cup {"halted"}
        /\ UNCHANGED <<crypto_state, comm_area, chip, media, boot_from_spi>>
    BY <1>2, SMTT(40) DEF FinishSpi, FinishUnipro, AdvertiseFinished, Jump, FailAndHalt,
                Halt, Advertise, DmeDown, loaderVars, fixedVars, mainVars
  <2>2. Image' = Image /\ UsableKeys' = UsableKeys
    BY <2>1, SMTT(40) DEF Image, Medium, UsableKeys
  <2> QED BY <2>1, <2>2
<1>3. CASE \/ Start \/ AdvertiseBootType \/ EfuseInit \/ SelectMedium
           \/ LocateFirmware \/ FallBack \/ StartUnipro \/ InitGreybus
           \/ GiveUp
  <2>1. pc' \notin {"sections", "loaded"} \cup Final
    BY <1>3, SMTT(40) DEF Start, AdvertiseBootType, EfuseInit, SelectMedium,
                LocateFirmware, FallBack, StartUnipro, InitGreybus, GiveUp,
                SetLastError, FailAndHalt, Halt, Advertise, DmeDown
  <2> QED BY <2>1, SMTT(40)
<1>4. CASE UNCHANGED vars
  BY <1>4 DEF vars, loaderVars, fixedVars, mainVars, Image, Medium, UsableKeys
<1> QED BY <1>1, <1>2, <1>3, <1>4, SMTT(40) DEF Next, Stopped
-----------------------------------------------------------------------------
(* What load_tftf_image may do to the published state: nothing, record one
   error, or find the attribute unreadable. *)
LEMMA LoadImageErrno ==
  ASSUME LoadImage
  PROVE  \/ UNCHANGED statusVars /\ pc' \in {"sections", "loaded", "wild"}
         \/ /\ \E err : err # "BRE_OK" /\ fw_errno' = ErrnoAfter(1, err)
            /\ UNCHANGED <<init_status, boot_status_offline>>
            /\ pc' \in {"sections", "load_failed"}
         \/ DmeDown /\ UNCHANGED fw_errno
<1>1. CASE load_tftf_header(1, Image, Medium)
  <2>1. \E err : IF err = "BRE_OK"
                 THEN pc' = "sections" /\ UNCHANGED statusVars
                 ELSE SetLastError(1, err, IF err \in LenientErrors
                                           THEN "sections" ELSE "load_failed")
    BY <1>1, Zenon DEF load_tftf_header
  <2> QED BY <2>1 DEF SetLastError
<1>2. CASE LoadSignature(1, Image, Medium, UsableKeys)
  BY <1>2, ZenonT(40) DEF LoadSignature, SetLastError, LoadErrors
<1>3. CASE LoadSection(1, Image, Medium)
  BY <1>3 DEF LoadSection, SetLastError, LoadErrors
<1>4. CASE load_tftf_image(1, Image, chip.trusted_only)
  BY <1>4 DEF load_tftf_image, SetLastError
<1> QED BY <1>1, <1>2, <1>3, <1>4 DEF LoadImage

(* set_last_error records the error in the field of the attempt being made,
   unless that field holds one, and leaves the other fields alone. *)
LEMMA ErrnoAfterProperties ==
  ASSUME TypeOK, ErrnoInv, NEW err, err # "BRE_OK",
         pc \in {"efuse", "locate", "greybus"} \cup Loading
  PROVE  LET field == IF fallback_boot_unipro THEN "s1_fallback"
                      ELSE "s1_primary"
         IN /\ ErrnoAfter(1, err)[field] # "BRE_OK"
            /\ \A f \in Fields \ {field} : ErrnoAfter(1, err)[f] = fw_errno[f]
            /\ \A f \in Fields : fw_errno[f] # "BRE_OK"
                               => ErrnoAfter(1, err)[f] = fw_errno[f]
<1>1. ErrorField(1) = IF fallback_boot_unipro THEN "s1_fallback"
                      ELSE "s1_primary"
  BY DEF ErrorField, ErrnoInv, BeforeMedium
<1> QED BY <1>1 DEF ErrnoAfter, TypeOK, Errnos, Fields
(* A halt from a place where the published status follows the attempt keeps
   the error fields and publishes them. *)
LEMMA HaltErrno ==
  ASSUME TypeOK, ErrnoInv, NEW e \in Errnos, Halt(boot_status, e),
         pc \in {"boot_type", "efuse", "greybus", "loaded", "load_failed"},
         UNCHANGED mainVars,
         fallback_boot_unipro => e["s1_primary"] # "BRE_OK",
         ~fallback_boot_unipro => e["s1_fallback"] = "BRE_OK"
  PROVE  ErrnoInv'
<1>1. /\ fw_errno' = e /\ pc' = "halted"
      /\ UNCHANGED <<boot_status, boot_from_spi, fallback_boot_unipro>>
  BY DEF Halt, mainVars
<1>2. fallback_boot_unipro => boot_status = "FALLBACK_UNIPRO_BOOT_STARTED"
  BY DEF ErrnoInv, Loading, BeforeMedium
<1>3. \/ /\ init_status' = [Merge(boot_status, e) EXCEPT !.failed = TRUE]
         /\ UNCHANGED boot_status_offline
      \/ boot_status_offline' = TRUE /\ UNCHANGED init_status
  BY DEF Halt
<1>4. FailuresRecorded'
  BY <1>1 DEF FailuresRecorded
<1>5. HaltReports'
  BY <1>1, <1>2, <1>3, ZenonT(40) DEF HaltReports, Merge, Status
<1>6. ~fallback_boot_unipro =>
        /\ init_status'.status # "FALLBACK_UNIPRO_BOOT_STARTED"
        /\ boot_status # "FALLBACK_UNIPRO_BOOT_STARTED"
  BY <1>3, ZenonT(40) DEF Merge, Status, ErrnoInv
<1> QED BY <1>1, <1>4, <1>5, <1>6 DEF ErrnoInv, BeforeMedium, Loading

(* The attribute is found unusable: nothing is published any more. *)
LEMMA DmeDownErrno ==
  ASSUME TypeOK, ErrnoInv, DmeDown, UNCHANGED fw_errno,
         UNCHANGED <<boot_from_spi, fallback_boot_unipro>>,
         fallback_boot_unipro
           \/ boot_status' # "FALLBACK_UNIPRO_BOOT_STARTED"
  PROVE  ErrnoInv'
BY DEF DmeDown, ErrnoInv, FailuresRecorded, HaltReports, BeforeMedium, Loading

(* set_last_error followed by halt_and_catch_fire. *)
LEMMA FailAndHaltErrno ==
  ASSUME TypeOK, ErrnoInv, NEW err \in Errors, err # "BRE_OK",
         pc \in {"efuse", "greybus", "loaded", "load_failed"},
         FailAndHalt(1, err, boot_status), UNCHANGED mainVars
  PROVE  ErrnoInv'
<1>1. CASE Halt(boot_status, ErrnoAfter(1, err))
  <2>1. ErrnoAfter(1, err) \in Errnos
    BY ErrnoAfterType DEF TypeOK
  <2>2. /\ fallback_boot_unipro => fw_errno["s1_primary"] # "BRE_OK"
        /\ ~fallback_boot_unipro => fw_errno["s1_fallback"] = "BRE_OK"
    BY DEF ErrnoInv, FailuresRecorded
  <2>3. /\ fallback_boot_unipro =>
              ErrnoAfter(1, err)["s1_primary"] = fw_errno["s1_primary"]
        /\ ~fallback_boot_unipro =>
              ErrnoAfter(1, err)["s1_fallback"] = fw_errno["s1_fallback"]
    BY ErrnoAfterProperties DEF Loading, Fields
  <2> QED BY <1>1, <2>1, <2>2, <2>3, HaltErrno
<1>2. CASE DmeDown /\ UNCHANGED fw_errno
  BY <1>2, DmeDownErrno DEF mainVars, ErrnoInv
<1> QED BY <1>1, <1>2 DEF FailAndHalt

(* set_last_error during an attempt. *)
LEMMA RecordErrno ==
  ASSUME TypeOK, ErrnoInv, NEW err, err # "BRE_OK",
         pc \in {"locate", "load_header", "sections"},
         fw_errno' = ErrnoAfter(1, err),
         UNCHANGED <<init_status, boot_status_offline, mainVars>>,
         pc' \in {"sections", "load_failed"}
  PROVE  ErrnoInv'
<1> USE DEF mainVars
<1> DEFINE field == IF fallback_boot_unipro THEN "s1_fallback" ELSE "s1_primary"
<1>1. /\ fw_errno'[field] # "BRE_OK"
      /\ \A f \in Fields \ {field} : fw_errno'[f] = fw_errno[f]
  BY ErrnoAfterProperties DEF Loading
<1>2. FailuresRecorded'
  BY <1>1 DEF FailuresRecorded, ErrnoInv, Fields
<1>3. HaltReports'
  BY DEF HaltReports
<1>4. fallback_boot_unipro => pc # "locate"
  BY DEF ErrnoInv
<1> QED BY <1>2, <1>3, <1>4 DEF ErrnoInv, BeforeMedium, Loading
(* Every step keeps the error fields true of the attempts made so far. *)
LEMMA ErrnoStep ==
  ASSUME TypeOK, MediumInv, ErrnoInv, [Next]_vars
  PROVE  ErrnoInv'
<1> USE DEF mainVars, statusVars, BeforeMedium, Loading
<1>1. CASE Start
  <2>1. /\ ~fallback_boot_unipro /\ fw_errno' = fw_errno
        /\ boot_status # "FALLBACK_UNIPRO_BOOT_STARTED"
        /\ UNCHANGED mainVars
    BY <1>1 DEF Start, InitLastError, ErrnoInv
  <2>2. CASE DmeDown
    BY <2>1, <2>2, DmeDownErrno, SMTT(40)
  <2>3. CASE init_status' = Status("OPERATING") /\ pc' = "boot_type"
    BY <2>1, <2>3, <1>1
    DEF Start, ErrnoInv, FailuresRecorded, HaltReports, Status
  <2> QED BY <1>1, <2>2, <2>3, SMTT(40) DEF Start, Advertise
<1>2. CASE AdvertiseBootType
  <2>1. CASE Halt(boot_status, fw_errno)
    BY <1>2, <2>1, HaltErrno, SMTT(40)
    DEF AdvertiseBootType, ErrnoInv, FailuresRecorded, TypeOK
  <2>2. CASE pc' = "efuse" /\ UNCHANGED statusVars
    BY <1>2, <2>2
    DEF AdvertiseBootType, ErrnoInv, FailuresRecorded, HaltReports
  <2> QED BY <1>2, <2>1, <2>2, SMTT(40) DEF AdvertiseBootType
<1>3. CASE EfuseInit
  <2>1. \A err \in EfuseErrors : err \in Errors /\ err # "BRE_OK"
    BY DEF EfuseErrors, Errors
  <2>2. CASE \E err \in EfuseErrors : FailAndHalt(1, err, boot_status)
    BY <1>3, <2>1, <2>2, FailAndHaltErrno, SMTT(40) DEF EfuseInit
  <2>3. CASE pc' = "select" /\ UNCHANGED statusVars
    BY <1>3, <2>3, SMTT(40) DEF EfuseInit, ErrnoInv, FailuresRecorded, HaltReports
  <2> QED BY <1>3, <2>2, <2>3 DEF EfuseInit
<1>4. CASE SelectMedium
  <2>1. /\ pc = "select" /\ pc' \in {"locate", "unipro"}
        /\ UNCHANGED <<statusVars, boot_status, fallback_boot_unipro>>
    BY <1>4 DEF SelectMedium
  <2> QED BY <2>1 DEF ErrnoInv, FailuresRecorded, HaltReports
<1>5. CASE LocateFirmware
  <2>1. /\ ~fallback_boot_unipro /\ fw_errno = NoErrno /\ pc = "locate"
        /\ UNCHANGED <<boot_from_spi, fallback_boot_unipro>>
    BY <1>5 DEF LocateFirmware, ErrnoInv
  <2>2. CASE /\ fw_errno' \in InitLastError(1)
             /\ boot_status' = "SPI_BOOT_STARTED"
             /\ Advertise(Status("SPI_BOOT_STARTED"), "load_header")
    <3>1. fw_errno' = fw_errno
      BY <2>1, <2>2 DEF InitLastError
    <3>2. CASE DmeDown
      BY <2>1, <2>2, <3>1, <3>2, DmeDownErrno, SMTT(40)
    <3>3. CASE init_status' = Status("SPI_BOOT_STARTED") /\ pc' = "load_header"
      BY <2>1, <2>2, <3>1, <3>3
      DEF ErrnoInv, FailuresRecorded, HaltReports, Status
    <3> QED BY <2>2, <3>2, <3>3 DEF Advertise
  <2>3. CASE /\ \E err \in FfffErrors : SetLastError(1, err, "load_failed")
             /\ UNCHANGED boot_status
    <3>1. PICK err \in FfffErrors : SetLastError(1, err, "load_failed")
      BY <2>3
    <3>2. err # "BRE_OK"
      BY SMTT(40) DEF FfffErrors
    <3>3. CASE DmeDown /\ UNCHANGED fw_errno
      BY <2>1, <2>3, <3>3, DmeDownErrno DEF ErrnoInv
    <3>4. CASE /\ fw_errno' = ErrnoAfter(1, err) /\ pc' = "load_failed"
               /\ UNCHANGED <<init_status, boot_status_offline>>
      BY <2>1, <2>3, <3>2, <3>4, RecordErrno
    <3> QED BY <3>1, <3>3, <3>4 DEF SetLastError
  <2> QED BY <1>5, <2>2, <2>3 DEF LocateFirmware
<1>6. CASE LoadImage
  <2>1. pc \in {"load_header", "sections"} /\ UNCHANGED mainVars
    BY <1>6, LoadImageControl, SMTT(40)
  <2>2. CASE UNCHANGED statusVars /\ pc' \in {"sections", "loaded", "wild"}
    BY <2>1, <2>2, SMTT(40) DEF ErrnoInv, FailuresRecorded, HaltReports
  <2>3. CASE DmeDown /\ UNCHANGED fw_errno
    BY <2>1, <2>3, DmeDownErrno DEF ErrnoInv
  <2>4. CASE /\ \E err : err # "BRE_OK" /\ fw_errno' = ErrnoAfter(1, err)
             /\ UNCHANGED <<init_status, boot_status_offline>>
             /\ pc' \in {"sections", "load_failed"}
    BY <2>1, <2>4, RecordErrno, SMTT(40)
  <2> QED BY <1>6, <2>2, <2>3, <2>4, LoadImageErrno
<1>7. CASE FinishSpi
  BY <1>7, SMTT(40) DEF FinishSpi, ErrnoInv, FailuresRecorded, HaltReports
<1>8. CASE FallBack
  <2>1. ~fallback_boot_unipro /\ fw_errno["s1_primary"] # "BRE_OK"
    BY <1>8 DEF FallBack, MediumInv, ErrnoInv, FailuresRecorded
  <2> QED BY <1>8, <2>1, SMTT(40) DEF FallBack, ErrnoInv, FailuresRecorded, HaltReports
<1>9. CASE StartUnipro
  <2>1. /\ fw_errno' = fw_errno /\ pc = "unipro"
        /\ UNCHANGED <<boot_from_spi, fallback_boot_unipro>>
        /\ boot_status' = IF fallback_boot_unipro
                          THEN "FALLBACK_UNIPRO_BOOT_STARTED"
                          ELSE "UNIPRO_BOOT_STARTED"
    BY <1>9 DEF StartUnipro
  <2>2. CASE DmeDown
    BY <2>1, <2>2, DmeDownErrno, SMTT(40)
  <2>3. CASE /\ init_status'.status = boot_status' /\ ~init_status'.failed
             /\ pc' = "greybus"
    BY <2>1, <2>3 DEF ErrnoInv, FailuresRecorded, HaltReports
  <2> QED BY <1>9, <2>2, <2>3 DEF StartUnipro, Advertise, Merge, Status
<1>10. CASE InitGreybus
  <2> DEFINE errs == {"BRE_BOU_GBBOOT_CPORT", "BRE_BOU_GBBOOT_FW_SIZE",
                      "BRE_BOU_GBBOOT_FW_TOO_LARGE"}
  <2>1. \A err \in errs : err \in Errors /\ err # "BRE_OK"
    BY DEF Errors
  <2>2. CASE \E err \in errs : FailAndHalt(1, err, boot_status)
    <3> HIDE DEF errs
    <3> QED BY <1>10, <2>1, <2>2, FailAndHaltErrno, SMTT(40) DEF InitGreybus
  <2>3. CASE pc' = "load_header" /\ UNCHANGED statusVars
    BY <1>10, <2>3 DEF InitGreybus, ErrnoInv, FailuresRecorded, HaltReports
  <2> QED BY <1>10, <2>2, <2>3 DEF InitGreybus
<1>11. CASE FinishUnipro
  <2>1. CASE FailAndHalt(1, "BRE_BOU_GBBOOT_READY", boot_status)
    BY <1>11, <2>1, FailAndHaltErrno, SMTT(40) DEF FinishUnipro, Errors
  <2>2. CASE pc' = "finished" /\ UNCHANGED statusVars
    BY <1>11, <2>2 DEF FinishUnipro, ErrnoInv, FailuresRecorded, HaltReports
  <2> QED BY <1>11, <2>1, <2>2, SMTT(40) DEF FinishUnipro
<1>12. CASE GiveUp
  <2>1. CASE FailAndHalt(1, "BRE_BOU_GBBOOT_READY", boot_status)
    BY <1>12, <2>1, FailAndHaltErrno, SMTT(40) DEF GiveUp, Errors
  <2>2. CASE Halt(boot_status, fw_errno)
    BY <1>12, <2>2, HaltErrno, ZenonT(40) DEF GiveUp, ErrnoInv, FailuresRecorded, TypeOK
  <2> QED BY <1>12, <2>1, <2>2 DEF GiveUp
<1>13. CASE AdvertiseFinished
  <2>1. /\ fw_errno' = fw_errno /\ pc = "finished"
        /\ UNCHANGED <<boot_from_spi, fallback_boot_unipro>>
        /\ boot_status' = FinishedStatus
        /\ FinishedStatus # "FALLBACK_UNIPRO_BOOT_STARTED"
    BY <1>13 DEF AdvertiseFinished, FinishedStatus
  <2>2. CASE DmeDown
    BY <2>1, <2>2, DmeDownErrno, SMTT(40)
  <2>3. CASE init_status'.status = FinishedStatus /\ pc' = "jump"
    BY <2>1, <2>3, SMTT(40) DEF ErrnoInv, FailuresRecorded, HaltReports
  <2> QED BY <1>13, <2>2, <2>3, SMTT(40) DEF AdvertiseFinished, Advertise, Merge, Status
<1>14. CASE Jump
  BY <1>14, SMTT(40) DEF Jump, ErrnoInv, FailuresRecorded, HaltReports
<1>15. CASE UNCHANGED vars
  BY <1>15, SMTT(40) DEF vars, ErrnoInv, FailuresRecorded, HaltReports
<1> QED BY <1>1, <1>2, <1>3, <1>4, <1>5, <1>6, <1>7, <1>8, <1>9, <1>10,
           <1>11, <1>12, <1>13, <1>14, <1>15, SMTT(40) DEF Next, Stopped
-----------------------------------------------------------------------------
(* The invariant holds when bootrom_main starts. *)
LEMMA InitInv == Init => IInv
<1> SUFFICES ASSUME Init PROVE IInv
  OBVIOUS
<1>1. "OPERATING" \in StatusNames /\ "UNINITIALIZED" \in StatusNames
  BY DEF StatusNames
<1>2. NoErrno \in Errnos
  BY DEF NoErrno, Errnos, Errors
<1>3. TypeOK
  <2>1. fw_errno \in Errnos /\ init_status \in Words
    BY <1>1, <1>2, WordTypes, ZenonT(40) DEF Init
  <2>2. pc \in PCs /\ crypto_state \in CryptoStates
    BY DEF Init, LoaderInit, PCs, CryptoStates
  <2>4. section \in Nat \ {0} /\ spi_clk_usage_count \in 0 .. 1
    BY DEF Init, LoaderInit
  <2>5. /\ boot_status \in StatusNames
        /\ ap_status \in {"NONE", "SECURE", "INSECURE", "INVALID"}
        /\ locked \in SUBSET Secrets
    BY <1>1 DEF Init
  <2>6. /\ DOMAIN ram = LoadingRam
        /\ DOMAIN comm_area = {"identity", "key", "package"}
    BY DEF Init, LoaderInit, ClearedRam
  <2>7. chip \in Chips /\ media \in [spi : SpiImages, unipro : UniproImages]
    BY DEF Init
  <2>3. /\ boot_status_offline \in BOOLEAN /\ contain_signature \in BOOLEAN
        /\ is_secure_image \in BOOLEAN /\ boot_from_spi \in BOOLEAN
        /\ fallback_boot_unipro \in BOOLEAN
    BY Zenon DEF Init, LoaderInit
  <2> QED BY <2>1, <2>2, <2>3, <2>4, <2>5, <2>6, <2>7 DEF TypeOK
<1> USE DEF Init, LoaderInit
<1>4. MediumInv
  BY SMTT(40) DEF MediumInv, BeforeMedium, Loading, Final
<1>5. CryptoInv
  BY SMTT(40) DEF CryptoInv, Final
<1>6. VerdictInv
  BY SMTT(40) DEF VerdictInv, Final
<1>7. RamInv
  BY SMTT(40) DEF RamInv, ClearedRam
<1>8. IdentityInv
  BY SMTT(40) DEF IdentityInv, Final
<1>9. ErrnoInv
  BY DEF ErrnoInv, FailuresRecorded, HaltReports, BeforeMedium, Loading,
         NoErrno, Fields, Status
<1> QED BY <1>3, <1>4, <1>5, <1>6, <1>7, <1>8, <1>9 DEF IInv

(* The invariant is preserved by every step of bootrom_main. *)
LEMMA StepInv == IInv /\ [Next]_vars => IInv'
<1> SUFFICES ASSUME IInv, [Next]_vars PROVE IInv'
  OBVIOUS
<1>1. CryptoInv'
  BY CryptoStep DEF IInv
<1> QED BY <1>1, TypeStep, MediumStep, VerdictStep, RamStep, IdentityStep,
           ErrnoStep DEF IInv

(* Every reachable state of the first stage satisfies the invariant. *)
THEOREM Invariance == Spec => []IInv
<1>1. Init => IInv
  BY InitInv
<1>2. IInv /\ [Next]_vars => IInv'
  BY StepInv
<1> QED BY <1>1, <1>2, PTL DEF Spec

(* Every variable of the boot ROM always holds a value of its C type; in
   particular the count of SPI clock users never leaves 0 .. 1. *)
THEOREM TypeCorrect == Spec => []TypeOK
<1>1. IInv => TypeOK
  BY DEF IInv
<1> QED BY <1>1, Invariance, PTL

(* An image that bootrom_main announces as trusted and jumps to has passed
   every check of its header and carries a signature over exactly its signed
   portion under a key that is not revoked, whatever the media hold and
   wherever accesses fail. *)
THEOREM TrustedIsSigned == Spec => []TrustedImageIsSigned
<1>1. IInv => TrustedImageIsSigned
  <2> SUFFICES ASSUME IInv, RunsTrusted
               PROVE  /\ HeaderError(Image) = "BRE_OK"
                      /\ SignedWith(Image, UsableKeys)
    BY DEF TrustedImageIsSigned
  <2>1. pc = "jumped" /\ FinishedStatus \in TrustedStatuses
    BY DEF RunsTrusted, IInv, VerdictInv
  <2>2. is_secure_image
    BY <2>1 DEF FinishedStatus, TrustedStatuses
  <2>3. crypto_state = "VERIFIED"
    BY <2>1, <2>2 DEF IInv, VerdictInv, Final
  <2> QED BY <2>1, <2>3 DEF IInv, CryptoInv, Final
<1> QED BY <1>1, Invariance, PTL

(* An untrusted image only runs where the e-fuses allow it, and only after
   efuse_rig_for_untrusted has closed IMS and CMS. *)
THEOREM UntrustedIsLocked == Spec => []UntrustedRunsLocked
<1>1. IInv => UntrustedRunsLocked
  <2> SUFFICES ASSUME IInv, RunsUntrusted
               PROVE  ~chip.trusted_only /\ locked = Secrets
    BY DEF UntrustedRunsLocked
  <2>1. pc = "jumped" /\ FinishedStatus \in UntrustedStatuses
    BY DEF RunsUntrusted, IInv, VerdictInv
  <2>2. ~is_secure_image
    BY <2>1, SMTT(40) DEF FinishedStatus, UntrustedStatuses
  <2> QED BY <2>1, <2>2 DEF IInv, VerdictInv, Final
<1> QED BY <1>1, Invariance, PTL

(* The image that runs finds no byte of an earlier, failed attempt in the
   loading RAM. *)
THEOREM RamIsFresh == Spec => []NoStaleRam
<1>1. IInv => NoStaleRam
  BY SMTT(40) DEF IInv, RamInv, NoStaleRam
<1> QED BY <1>1, Invariance, PTL

(* The identity and the key name a trusted image finds in the communication
   area are its own. *)
THEOREM IdentityIsOwn == Spec => []IdentityOfTrusted
<1>1. IInv => IdentityOfTrusted
  <2> SUFFICES ASSUME IInv, RunsTrusted
               PROVE  /\ comm_area.identity = SignedPortion(Image)
                      /\ comm_area.key \in UsableKeys
                      /\ comm_area.package = Image.name
    BY SMTT(40) DEF IdentityOfTrusted
  <2>1. pc = "jumped" /\ FinishedStatus \in TrustedStatuses
    BY DEF RunsTrusted, IInv, VerdictInv
  <2>2. is_secure_image
    BY <2>1 DEF FinishedStatus, TrustedStatuses
  <2>3. crypto_state = "VERIFIED"
    BY <2>1, <2>2 DEF IInv, VerdictInv, Final
  <2> QED BY <2>1, <2>3, SMTT(40) DEF IInv, IdentityInv, Final
<1> QED BY <1>1, Invariance, PTL
(* At the jump the attribute, the AP and the SPI clock agree with the image
   that runs. *)
THEOREM HandOffIsConsistent == Spec => []HandOffAgrees
<1>1. IInv => HandOffAgrees
  <2> SUFFICES ASSUME IInv, pc = "jumped" PROVE HandOffAgrees
    BY DEF HandOffAgrees
  <2>1. /\ init_status.status = FinishedStatus /\ ~init_status.failed
        /\ ap_status = IF boot_from_spi THEN "NONE" ELSE ReadyToBootStatus
    BY DEF IInv, VerdictInv, Final
  <2>2. spi_clk_usage_count = 0
    BY DEF IInv, MediumInv, Final
  <2> QED BY <2>1, <2>2 DEF HandOffAgrees, FinishedStatus, ReadyToBootStatus,
             RunsTrusted, RunsUntrusted, TrustedStatuses, UntrustedStatuses
<1> QED BY <1>1, Invariance, PTL

(* Every failed attempt leaves an error in its own field, and a halt that can
   still write the attribute publishes all of them. *)
THEOREM FailuresAreReported == Spec => [](FailuresRecorded /\ HaltReports)
<1>1. IInv => FailuresRecorded /\ HaltReports
  BY DEF IInv, ErrnoInv
<1> QED BY <1>1, Invariance, PTL
(* No step overwrites the first error of a field or forgets one. *)
THEOREM FirstErrorSticks == Spec => ErrnoSticky
<1> DEFINE Sticks == \A f \in Fields :
                       fw_errno[f] # "BRE_OK" => fw_errno'[f] = fw_errno[f]
<1>1. ASSUME IInv, [Next]_vars PROVE Sticks
  <2>1. TypeOK /\ ErrnoInv
    BY <1>1 DEF IInv
  <2>2. CASE fw_errno' = fw_errno
    BY <2>2
  <2>3. CASE \E err : /\ err # "BRE_OK" /\ fw_errno' = ErrnoAfter(1, err)
                      /\ pc \in {"efuse", "locate", "greybus"} \cup Loading
    BY <2>1, <2>3, ErrnoAfterProperties
  <2>4. CASE Start \/ LocateFirmware
    <3>1. fw_errno = NoErrno
      BY <2>1, <2>4 DEF Start, LocateFirmware, ErrnoInv, BeforeMedium
    <3> QED BY <3>1 DEF NoErrno
  <2>5. CASE LoadImage
    <3>1. pc \in Loading
      BY <2>5, LoadImageControl DEF Loading
    <3> QED BY <2>2, <2>3, <2>5, <3>1, LoadImageErrno DEF statusVars
  <2>6. CASE EfuseInit \/ InitGreybus \/ FinishUnipro \/ GiveUp
    <3>1. \/ fw_errno' = fw_errno
          \/ \E err : /\ err # "BRE_OK" /\ fw_errno' = ErrnoAfter(1, err)
                      /\ pc \in {"efuse", "greybus", "loaded", "load_failed"}
      BY <2>6 DEF EfuseInit, EfuseErrors, InitGreybus, FinishUnipro, GiveUp,
                  FailAndHalt, Halt, statusVars
    <3> QED BY <2>2, <2>3, <3>1 DEF Loading
  <2>7. CASE \/ AdvertiseBootType \/ SelectMedium \/ FinishSpi \/ FallBack
             \/ StartUnipro \/ AdvertiseFinished \/ Jump \/ UNCHANGED vars
    <3>1. fw_errno' = fw_errno
      BY <2>7 DEF AdvertiseBootType, SelectMedium, FinishSpi, FallBack,
                  StartUnipro, AdvertiseFinished, Jump, Halt, statusVars, vars
    <3> QED BY <2>2, <3>1
  <2> QED BY <1>1, <2>4, <2>5, <2>6, <2>7 DEF Next, Stopped
<1>2. IInv /\ [Next]_vars => [Sticks]_vars
  BY <1>1
<1> QED BY <1>2, Invariance, PTL DEF Spec, ErrnoSticky

(* Once the AP was told that its image boots, no step changes the image, the
   verdict or what the AP was told. *)
THEOREM AnnouncementIsFinal == Spec => AnnouncedIsFinal
<1> DEFINE Final1 == (ap_status = "SECURE" \/ ap_status = "INSECURE") =>
                       UNCHANGED <<ram, is_secure_image, ap_status>>
<1>1. ASSUME IInv, [Next]_vars PROVE Final1
  <2> SUFFICES ASSUME ap_status = "SECURE" \/ ap_status = "INSECURE"
               PROVE  UNCHANGED <<ram, is_secure_image, ap_status>>
    OBVIOUS
  <2>1. pc \in Final \cup {"halted"}
    BY <1>1 DEF IInv, VerdictInv
  <2>2. ~LoadImage
    BY <2>1, LoadImageControl, SMTT(40) DEF Final
  <2>3. AdvertiseFinished \/ Jump \/ UNCHANGED vars
    BY <1>1, <2>1, <2>2
    DEF Next, Stopped, Start, AdvertiseBootType, EfuseInit, SelectMedium,
        LocateFirmware, FinishSpi, FallBack, StartUnipro, InitGreybus,
        FinishUnipro, GiveUp, Final
  <2> QED BY <2>3 DEF AdvertiseFinished, Jump, vars, loaderVars, deviceVars
<1>2. IInv /\ [Next]_vars => [Final1]_vars
  BY <1>1
<1> QED BY <1>2, Invariance, PTL DEF Spec, AnnouncedIsFinal
=============================================================================
