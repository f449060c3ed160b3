---------------------------- MODULE BlendingInfo ----------------------------
(***************************************************************************)
(* struct BlendingInfo (frame_header.rs lines 72-122), decoded once for    *)
(* the base image and once per extra channel.  ns is its nonserialized     *)
(* context (BlendingInfoNonserialized, lines 81-90), which the frame       *)
(* header assembles from fields it decoded earlier.                       *)
(***************************************************************************)
EXTENDS Naturals, U32Coder
CONSTANTS Sample, Unset, Decoded, Default
VARIABLES bi, bphase, status
\* The nonserialized context, fixed by the parent for the whole walk.
VARIABLE ns

ASSUME /\ Sample["mode"] \subseteq Values(BlendingModeCoder)
       /\ Sample["alpha_channel"] \subseteq Values(AlphaChannelCoder)
       /\ Sample["clamp"] \subseteq BOOLEAN
       /\ Sample["source"] \subseteq Values(<<Val(0), Val(1), Val(2), Val(3)>>)

LOCAL E == INSTANCE RecordEngine WITH rec <- bi, phase <- bphase

\* enum BlendingMode (lines 72-79).
Replace == 0
Add == 1
Blend == 2
AlphaWeightedAdd == 3
Mul == 4
BlendingModes == {Replace, Add, Blend, AlphaWeightedAdd, Mul}

BIDefault == [mode |-> Replace, alpha_channel |-> 0, clamp |-> FALSE, source |-> 0]

\* The record when its walk starts: no field decoded yet.
BIStart == [f \in DOMAIN BIDefault |-> Unset]

\* full_frame: no crop, or the crop rectangle covers the whole image
\* (lines 115-120; the sums are taken in i64 in the code, exactly here).
FullFrame(c) ==
  \/ ~c.have_crop
  \/ /\ c.x0 = 0
     /\ c.y0 = 0
     /\ c.width + c.x0 >= c.img_width
     /\ c.height + c.y0 >= c.img_height

mode == E!Field("mode", TRUE, Replace, BlendingModes, "alpha_channel")

alpha_channel ==
  E!Field("alpha_channel",
          ns.num_extra_channels > 0 /\ bi.mode \in {Blend, AlphaWeightedAdd},
          0, Nat, "clamp")

clamp ==
  E!Field("clamp",
          ns.num_extra_channels > 0 /\ bi.mode \in {Blend, AlphaWeightedAdd, Mul},
          FALSE, BOOLEAN, "source")

source ==
  E!Field("source", bi.mode # Replace /\ ~FullFrame(ns),
          0, 0 .. 3, "done")

Next == mode \/ alpha_channel \/ clamp \/ source
=============================================================================
