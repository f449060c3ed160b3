------------------------------- MODULE Passes -------------------------------
(***************************************************************************)
(* struct Passes (frame_header.rs lines 42-70): the progressive-pass       *)
(* sub-record of the frame header.  The element values of shift,          *)
(* downsample and last_pass are read but never inspected by this code, so  *)
(* they are Decoded; their lengths are what check() and the TOC rely on.   *)
(***************************************************************************)
EXTENDS Naturals, U32Coder
CONSTANTS Sample, Unset, Decoded, Default
VARIABLES passes, pphase, status

ASSUME /\ Sample["num_passes"] \subseteq Values(NumPassesCoder)
       /\ Sample["num_ds"] \subseteq Values(NumDsCoder)

LOCAL E == INSTANCE RecordEngine
             WITH rec <- passes, phase <- pphase

\* #[default] of every field (Passes::default()).
PassesDefault ==
  [num_passes |-> 1, num_ds |-> 0,
   shift |-> <<>>, downsample |-> <<>>, last_pass |-> <<>>]

\* The record when its walk starts: no field decoded yet.
PassesStart == [f \in DOMAIN PassesDefault |-> Unset]

Multi == passes.num_passes # 1

num_passes == E!Field("num_passes", TRUE, 1, Nat, "num_ds")
num_ds == E!Field("num_ds", Multi, 0, Nat, "shift")
shift == E!Vector("shift", Multi, passes.num_passes - 1, <<>>, "downsample")
downsample == E!Vector("downsample", Multi, passes.num_ds, <<>>, "last_pass")
last_pass == E!Vector("last_pass", Multi, passes.num_ds, <<>>, "done")

Next == num_passes \/ num_ds \/ shift \/ downsample \/ last_pass
=============================================================================
