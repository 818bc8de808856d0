------------------------------ MODULE MCBootRom ------------------------------
(* Small instances of BootRom: a RAM of six cells in a 4-bit address space,
   two keys, and one image for every way through load_tftf_image. *)
EXTENDS BootRom

Sig(key, digest) == [key |-> key, digest |-> digest]
NoSig == Sig(None, None)

Sec(type, addr, len) ==
  [type |-> type, addr |-> addr, len |-> len, explen |-> len, sig |-> NoSig]
SigSec(sig) == [Sec("SIGNATURE", Ignored, 1) EXCEPT !.sig = sig]

Code == Sec("RAW_CODE", 2, 2)
Data == Sec("RAW_DATA", 5, 2)
Dropped == Sec("MANIFEST", Ignored, 1)
Cert == Sec("CERTIFICATE", 4, 1)
End == Sec("END", 0, 0)

\* The digest of the image called name whose first unsigned slot is f.
Digest(name, f) ==
  [k \in 1 .. f |-> IF k = 1 THEN <<name, "header", f>>
                    ELSE <<name, "section", k - 1>>]

Img(name, sections) ==
  [name |-> name, sentinel |-> TRUE, size_ok |-> TRUE, vidpid |-> TRUE,
   start |-> 2, sections |-> sections]

\* Images that load; the certificate behind the signature is loaded last.
Signed == Img("signed", <<Code, Dropped, Data, SigSec(Sig("k1", Digest("signed", 4))), Cert, End>>)
OtherKey == Img("other_key", <<Code, SigSec(Sig("k2", Digest("other_key", 2))), End>>)
TwoSigs == Img("two_sigs", <<Code, Cert, SigSec(Sig("k3", Digest("two_sigs", 2))),
                             SigSec(Sig("k1", Digest("two_sigs", 2))), End>>)
Plain == Img("plain", <<Code, Data, End>>)
CertOnly == Img("cert_only", <<Code, Cert, End>>)

\* Images with a signature of something else.
Replayed == Img("replayed", <<Code, SigSec(Sig("k1", Digest("signed", 4))), End>>)
NoCode == [Img("no_code", <<SigSec(Sig("k1", Digest("no_code", 1))), End>>) EXCEPT !.start = 0]

\* Headers that must not be used.
BadSentinel == [Img("bad_sentinel", <<Code, Sec("UNKNOWN", 4, 1), SigSec(NoSig), End>>)
                  EXCEPT !.sentinel = FALSE]
BadSize == [Img("bad_size", <<Sec("RAW_CODE", 7, 2)>>) EXCEPT !.size_ok = FALSE]
Foreign == [Plain EXCEPT !.vidpid = FALSE, !.name = "foreign"]
Packed == Img("packed", <<Code, Sec("COMPRESSED_DATA", 5, 1), End>>)
Mixed == Img("mixed", <<Code, SigSec(NoSig), Data, End>>)
Overlap == Img("overlap", <<Code, Sec("RAW_DATA", 3, 1), End>>)
NoEnd == Img("no_end", <<Code, Data>>)

\* A certificate behind the signature overlaps the code.
LateOverlap == Img("late_overlap",
  <<Code, SigSec(Sig("k1", Digest("late_overlap", 2))), Sec("CERTIFICATE", 3, 1), End>>)

\* The end address of the data section wraps around to 1.
Wrapped == Img("wrapped", <<Code, Sec("RAW_DATA", 5, 12), End>>)

MCLoadable == {Signed, OtherKey, TwoSigs, Plain, CertOnly}
MCRejected == {Replayed, BadSentinel, BadSize, Foreign, Packed, Mixed, Overlap, NoEnd}
MCImages == MCLoadable \cup MCRejected \cup {NoCode, LateOverlap, Wrapped}
MCFewImages == {Signed, Plain, Replayed, BadSentinel}
MCOneImage == {Plain}
=============================================================================
