----------------------------- MODULE TftfLoader -----------------------------
(***************************************************************************)
(* load_tftf_image of common/src/tftf.c with the crypto state it drives,   *)
(* and the parts of common/src/crypto.c it calls.  Both boot stages load   *)
(* an image with this code, from a medium behind data_load_ops: an action  *)
(* takes the stage, the image the medium delivers and the medium's name.   *)
(*                                                                         *)
(* An image is a header (module Tftf) with a name.  What the SHA-256       *)
(* context has absorbed is the sequence of the parts fed to it, a digest   *)
(* is such a sequence, and the block of a signature section is the key it  *)
(* names with the digest its signature bytes verify for under that key.    *)
(***************************************************************************)
EXTENDS BootStatus, Tftf

VARIABLES
  section,            \* the slot load_tftf_image is at
  crypto_state,       \* tftf.crypto_state
  contain_signature,  \* tftf.contain_signature
  shctx,              \* what the SHA-256 context has absorbed
  hash,               \* tftf.hash, the digest hash_final produced
  is_secure_image,    \* the out parameter of load_tftf_image
  ram,                \* loading RAM: where the bytes at an address are from
  comm_area           \* what the image finds in the communication area

loaderVars == <<section, crypto_state, contain_signature, shctx, hash,
                is_secure_image>>

CryptoStates == {"INIT", "HASHING", "HASHED", "VERIFIED"}

\* Nothing in a RAM cell, no digest, no key.
None == <<>>

ClearedRam == [a \in LoadingRam |-> None]

\* A slip: the loop of the clearing code runs zero times.
ClearNothing == ram

chip_clear_image_loading_ram == ClearedRam

\* The parts of an image that are hashed: its header in front of slot n, and
\* the data of the section of slot i.
HeaderPart(img, n) == <<img.name, "header", n>>
SectionPart(img, i) == <<img.name, "section", i>>

LoaderInit ==
  /\ section = 1
  /\ crypto_state = "INIT"
  /\ contain_signature = FALSE
  /\ shctx = <<>>
  /\ hash = <<>>
  /\ is_secure_image = FALSE
  /\ ram = ClearedRam
  /\ comm_area = [identity |-> None, key |-> None, package |-> None]

-----------------------------------------------------------------------------
(* The first error a failing ops->load leaves: the Greybus loader reports one
   of its own before the caller reports err, unless it was asked for more
   than the AP announced. *)
LoadErrors(src, err) ==
  IF src = "unipro" THEN {err, "BRE_BOU_GBBOOT_GET_FW"} ELSE {err}

(* The error the header itself leads to, in the order of the checks. *)
HeaderError(img) ==
  IF ~img.sentinel THEN "BRE_TFTF_SENTINEL"
  ELSE IF ~img.size_ok THEN "BRE_TFTF_HEADER_SIZE"
  ELSE IF valid_tftf_header(img) # "BRE_OK" THEN valid_tftf_header(img)
  ELSE IF ~img.vidpid THEN "BRE_TFTF_VIDPID_MISMATCH"
  ELSE ScanError(img)

(* The errors of the accesses load_tftf_header makes on the way: a failing
   load, and a failing read of the UniPro manufacturer or product id. *)
AccessErrors(img, src) ==
  LoadErrors(src, "BRE_TFTF_LOAD_HEADER") \cup
  (IF /\ img.sentinel
      /\ img.size_ok
      /\ valid_tftf_header(img) = "BRE_OK"
   THEN {"BRE_EFUSE_UNIPRO_VID_READ", "BRE_EFUSE_UNIPRO_PID_READ"}
   ELSE {})

\* The two checks that report an error and then "return false", which is 0.
LenientErrors == {"BRE_TFTF_SENTINEL", "BRE_TFTF_HEADER_SIZE"}

\* A slip: the state is not reset at the start of an image.
CryptoStateNotReset(unsigned) ==
  IF unsigned = {} THEN crypto_state ELSE "HASHING"

(* tftf.crypto_state after the header: reset to INIT, HASHING from the first
   unsigned section the scan meets. *)
CryptoStateOfHeader(unsigned) ==
  IF unsigned = {} THEN "INIT" ELSE "HASHING"

(* load_tftf_image up to and with load_tftf_header.  The scan of the section
   table hashes the header once it meets the first unsigned section. *)
load_tftf_header(stage, img, src) ==
  /\ pc = "load_header"
  /\ is_secure_image' = FALSE
  /\ section' = 1
  /\ \E err \in {HeaderError(img)} \cup AccessErrors(img, src) :
       /\ LET n == IF err \in ScanErrors THEN ScanStop(img) ELSE 1
              unsigned == UnsignedBefore(img, n)
          IN /\ crypto_state' = CryptoStateOfHeader(unsigned)
             /\ contain_signature' =
                  \E i \in unsigned : img.sections[i].type = "SIGNATURE"
             /\ shctx' = IF unsigned = {} THEN shctx
                         ELSE <<HeaderPart(img, Least(unsigned))>>
       /\ IF err = "BRE_OK"
          THEN pc' = "sections" /\ UNCHANGED statusVars
          ELSE SetLastError(stage, err, IF err \in LenientErrors
                                        THEN "sections" ELSE "load_failed")
  /\ UNCHANGED <<hash, ram, comm_area>>

-----------------------------------------------------------------------------
(* verify_signature: the named key must be one the stage may use, and the
   signature must be one over exactly this digest. *)
verify_signature(digest, sig, keys) == sig.key \in keys /\ sig.digest = digest

\* A slip: what the communication area holds is not replaced.
StoreIdentityOnce(digest, key) ==
  IF comm_area.identity # None THEN comm_area
  ELSE [comm_area EXCEPT !.identity = digest, !.key = key]

\* verify_signature of stage 1 leaves the digest and the key name.
StoreIdentity(digest, key) ==
  [comm_area EXCEPT !.identity = digest, !.key = key]

\* A slip: only a signature section ends the hashing.
HashFinalAtSignature(img) ==
  /\ crypto_state = "HASHING"
  /\ img.sections[section].type = "SIGNATURE"

\* In front of an unsigned section the digest is retrieved.
HashFinal(img) ==
  /\ crypto_state = "HASHING"
  /\ img.sections[section].type \in UnsignedTypes

\* process_tftf_section for a signature section.
LoadSignature(stage, img, src, keys) ==
  LET s == img.sections[section]
      hash1 == IF HashFinal(img) THEN shctx ELSE hash
      state1 == IF HashFinal(img) THEN "HASHED" ELSE crypto_state
      verified == /\ state1 = "HASHED"
                  /\ verify_signature(hash1, s.sig, keys)
  IN /\ pc = "sections"
     /\ section \in Live(img)
     /\ s.type = "SIGNATURE"
     /\ hash' = hash1
     /\ \/ /\ crypto_state' = IF verified THEN "VERIFIED" ELSE state1
           /\ comm_area' = IF verified /\ stage = 1
                           THEN StoreIdentity(hash1, s.sig.key)
                           ELSE comm_area
           /\ section' = section + 1
           /\ UNCHANGED <<pc, statusVars>>
        \/ /\ crypto_state' = state1
           /\ \E err \in LoadErrors(src, "BRE_TFTF_LOAD_SIGNATURE") :
                SetLastError(stage, err, "load_failed")
           /\ UNCHANGED <<comm_area, section>>
     /\ UNCHANGED <<contain_signature, shctx, is_secure_image, ram>>

\* Do the first n bytes of the section stay in loading RAM?
Fits(s, n) == \A a \in s.addr .. s.addr + n - 1 : a \in LoadingRam

\* Loading RAM once n bytes of the section have arrived from src.
RamAfter(s, n, src) ==
  [a \in LoadingRam |->
     IF a \in s.addr .. s.addr + n - 1 THEN <<src, section>> ELSE ram[a]]

(* process_tftf_section for the other sections; the bytes of a section whose
   address is to be ignored go to a buffer on the stack.  A failing load may
   have delivered some of the bytes (what it hashed of them is lost with the
   next hash_start).  A load that leaves the loading RAM destroys the data of
   the running program: the model ends there. *)
LoadSection(stage, img, src) ==
  LET s == img.sections[section]
      state1 == IF HashFinal(img) THEN "HASHED" ELSE crypto_state
      kept == s.addr # Ignored
  IN /\ pc = "sections"
     /\ section \in Live(img)
     /\ s.type # "SIGNATURE"
     /\ hash' = IF HashFinal(img) THEN shctx ELSE hash
     /\ crypto_state' = state1
     /\ \/ /\ kept => Fits(s, s.len)
           /\ ram' = IF kept THEN RamAfter(s, s.len, src) ELSE ram
           /\ shctx' = IF state1 = "HASHING"
                       THEN Append(shctx, SectionPart(img, section))
                       ELSE shctx
           /\ section' = section + 1
           /\ UNCHANGED <<pc, statusVars>>
        \/ /\ \E n \in 0 .. s.len :
                /\ kept => Fits(s, n)
                /\ ram' = IF kept THEN RamAfter(s, n, src) ELSE ram
           /\ \E err \in LoadErrors(src, "BRE_TFTF_LOAD_DATA") :
                SetLastError(stage, err, "load_failed")
           /\ UNCHANGED <<shctx, section>>
        \/ /\ kept /\ ~Fits(s, s.len)
           /\ pc' = "wild"
           /\ UNCHANGED <<shctx, section, ram, statusVars>>
     /\ UNCHANGED <<contain_signature, is_secure_image, comm_area>>

(* load_tftf_image after the last section: the verdict on the image. *)
load_tftf_image(stage, img, trusted_only) ==
  /\ pc = "sections"
  /\ section \notin Live(img)
  /\ is_secure_image' = (crypto_state = "VERIFIED")
  /\ comm_area' = [comm_area EXCEPT !.package = img.name]
  /\ \/ /\ crypto_state # "VERIFIED" /\ contain_signature
        /\ SetLastError(stage, "BRE_TFTF_IMAGE_CORRUPTED", "load_failed")
     \/ /\ ~contain_signature /\ trusted_only
        /\ SetLastError(stage, "BRE_TFTF_UNTRUSTED_NOT_ALLOWED", "load_failed")
     \/ /\ IF contain_signature THEN crypto_state = "VERIFIED"
                                ELSE ~trusted_only
        /\ pc' = "loaded"
        /\ UNCHANGED statusVars
  /\ UNCHANGED <<section, crypto_state, contain_signature, shctx, hash, ram>>
=============================================================================
