------------------------------ MODULE U32Coder ------------------------------
(***************************************************************************)
(* The selector-coded integer ("u2S" in the #[coder(...)] attributes of    *)
(* src/jxl/src/headers/frame_header.rs): a 2-bit selector picks one of     *)
(* four alternatives, each a constant or Bits(k) + offset.  The decoder    *)
(* itself lives in the headers crate outside src, so the read rule is      *)
(* modelled from the spec (section 4.1); the coders are the ones named in  *)
(* the attributes.                                                         *)
(*                                                                         *)
(* The model does not track the bit cursor, so a read is abstracted to the *)
(* value it yields.  A raw field of k bits is sampled at its boundaries    *)
(* (0, 1 and its largest value): the values where every alternative        *)
(* begins and ends, which is where numeric edges live.                     *)
(***************************************************************************)
EXTENDS Naturals

\* The largest integer TLC represents; Bits(32) raws are sampled up to it.
MaxTLCInt == 2147483647

\* One alternative: a constant (k = 0) or k raw bits plus an offset.
Val(v) == [k |-> 0, off |-> v]
BitsOff(k, off) == [k |-> k, off |-> off]

\* Boundary samples of a k-bit raw read.
RawSamples(k) ==
  IF k = 0 THEN {0}
  ELSE IF k <= 3 THEN 0 .. (2^k - 1)
  ELSE IF k >= 31 THEN {0, 1, MaxTLCInt}
  ELSE {0, 1, 2^k - 1}

\* The values a selector-coded read can yield: offset[s] + raw for the
\* alternative s chosen by the selector.
Values(c) == UNION {{c[s].off + r : r \in RawSamples(c[s].k)} : s \in 1 .. 4}

\* A plain #[coder(Bits(k))] field.
BitsValues(k) == RawSamples(k)

\* Default coding of an enum without a #[coder] attribute (the derive's
\* enum rule, modelled from the spec: a selector-coded integer mapped onto
\* a closed tag set): U32(0, 1, Bits(4) + 2, Bits(6) + 18).
EnumCoder == <<Val(0), Val(1), BitsOff(4, 2), BitsOff(6, 18)>>

\* The coders named in frame_header.rs.
NumPassesCoder == <<Val(1), Val(2), Val(3), BitsOff(3, 4)>>
NumDsCoder == <<Val(0), Val(1), Val(2), BitsOff(1, 3)>>
UpsamplingCoder == <<Val(1), Val(2), Val(4), Val(8)>>
BlendingModeCoder == <<Val(0), Val(1), Val(2), BitsOff(2, 3)>>
AlphaChannelCoder == <<Val(0), Val(1), Val(2), BitsOff(3, 3)>>
LfLevelCoder == <<Val(1), Val(2), Val(3), Val(4)>>
CropCoder == <<BitsOff(8, 0), BitsOff(11, 256), BitsOff(14, 2304), BitsOff(30, 18688)>>
DurationCoder == <<Val(0), Val(1), BitsOff(8, 0), BitsOff(32, 0)>>
TocEntryCoder == <<BitsOff(10, 0), BitsOff(14, 1024), BitsOff(22, 17408), BitsOff(30, 4211712)>>
=============================================================================
