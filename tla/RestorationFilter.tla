------------------------- MODULE RestorationFilter -------------------------
(***************************************************************************)
(* struct RestorationFilter (frame_header.rs lines 124-221).  encoding is  *)
(* its nonserialized context (RestorationFilterNonserialized).  The float  *)
(* tunables are Decoded or Default; fields that share one condition are    *)
(* one step: gab_weights (the six gab_*_weight fields), epf_weights        *)
(* (channel scale and the two zero-flush thresholds) and epf_sigma_scales  *)
(* (pass0/pass2 sigma scale and border SAD multiplier).                    *)
(***************************************************************************)
EXTENDS Naturals, U32Coder
CONSTANTS Sample, Unset, Decoded, Default
VARIABLES rf, rphase, status
\* The nonserialized encoding, fixed by the parent's decoded field.
VARIABLE encoding

ASSUME /\ Sample["epf_iters"] \subseteq BitsValues(2)
       /\ \A f \in {"all_default", "gab", "gab_custom", "epf_sharp_custom",
                   "epf_weight_custom", "epf_sigma_custom"} :
             Sample[f] \subseteq BOOLEAN

LOCAL E == INSTANCE RecordEngine
             WITH rec <- rf, phase <- rphase

\* enum Encoding (frame_header.rs lines 25-29).
VarDCT == 0
Modular == 1

RFDefault ==
  [all_default |-> TRUE, gab |-> TRUE, gab_custom |-> FALSE,
   gab_weights |-> Default, epf_iters |-> 2, epf_sharp_custom |-> FALSE,
   epf_sharp_lut |-> Default, epf_weight_custom |-> FALSE,
   epf_weights |-> Default, epf_sigma_custom |-> FALSE,
   epf_quant_mul |-> Default, epf_sigma_scales |-> Default,
   epf_sigma_for_modular |-> Default, extensions |-> Default]

\* The record when its walk starts: no field decoded yet.
RFStart == [f \in DOMAIN RFDefault |-> Unset]

Epf == rf.epf_iters > 0

\* An f32 field (or group of them) under condition c.
Float(f, c, nxt) == E!Field(f, c, Default, {Decoded}, nxt)
Flag(f, c, dflt, nxt) == E!Field(f, c, dflt, BOOLEAN, nxt)

all_default == E!Shortcut("all_default", RFDefault, "gab", "done")
gab == Flag("gab", TRUE, TRUE, "gab_custom")
gab_custom == Flag("gab_custom", rf.gab, FALSE, "gab_weights")
gab_weights == Float("gab_weights", rf.gab_custom, "epf_iters")
epf_iters == E!Field("epf_iters", TRUE, 2, 0 .. 3, "epf_sharp_custom")
epf_sharp_custom ==
  Flag("epf_sharp_custom", Epf /\ encoding = VarDCT, FALSE, "epf_sharp_lut")
epf_sharp_lut == Float("epf_sharp_lut", rf.epf_sharp_custom, "epf_weight_custom")
epf_weight_custom == Flag("epf_weight_custom", Epf, FALSE, "epf_weights")
epf_weights == Float("epf_weights", rf.epf_weight_custom, "epf_sigma_custom")
epf_sigma_custom == Flag("epf_sigma_custom", Epf, FALSE, "epf_quant_mul")
epf_quant_mul ==
  Float("epf_quant_mul", rf.epf_sigma_custom /\ encoding = VarDCT, "epf_sigma_scales")
epf_sigma_scales == Float("epf_sigma_scales", rf.epf_sigma_custom, "epf_sigma_for_modular")
epf_sigma_for_modular ==
  Float("epf_sigma_for_modular", Epf /\ encoding = Modular, "extensions")
extensions == Float("extensions", TRUE, "done")

Next ==
  \/ all_default \/ gab \/ gab_custom \/ gab_weights \/ epf_iters
  \/ epf_sharp_custom \/ epf_sharp_lut \/ epf_weight_custom \/ epf_weights
  \/ epf_sigma_custom \/ epf_quant_mul \/ epf_sigma_scales
  \/ epf_sigma_for_modular \/ extensions
=============================================================================
