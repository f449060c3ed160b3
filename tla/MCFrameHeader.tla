--------------------------- MODULE MCFrameHeader ---------------------------
(***************************************************************************)
(* Models of FrameHeader for TLC.  Each run gives the caller's contexts    *)
(* and, per field, the values the stream may carry there (Sample); every   *)
(* sample is a value the field's coder can produce.                        *)
(***************************************************************************)
EXTENDS FrameHeader

D == Decoded

\* One value per field: the point every run starts from.
BaseSample ==
  [all_default |-> {FALSE}, frame_type |-> {RegularFrame}, encoding |-> {0},
   flags |-> {0}, do_ycbcr |-> {FALSE}, jpeg_upsampling |-> {<<0, 0, 0>>},
   upsampling |-> {1}, ec_upsampling |-> {1}, group_size_shift |-> {1},
   x_qm_scale |-> {D}, b_qm_scale |-> {D},
   num_passes |-> {1}, num_ds |-> {0}, shift |-> {D}, downsample |-> {D},
   last_pass |-> {D}, lf_level |-> {D}, have_crop |-> {FALSE},
   x0 |-> {0}, y0 |-> {0}, width |-> {256}, height |-> {256},
   mode |-> {0}, alpha_channel |-> {0}, clamp |-> {FALSE}, source |-> {0},
   duration |-> {0}, timecode |-> {D}, is_last |-> {TRUE},
   save_as_reference |-> {0}, save_before_ct |-> {FALSE}, name |-> {D},
   gab |-> {TRUE}, gab_custom |-> {FALSE}, gab_weights |-> {D},
   epf_iters |-> {2}, epf_sharp_custom |-> {FALSE}, epf_sharp_lut |-> {D},
   epf_weight_custom |-> {FALSE}, epf_weights |-> {D},
   epf_sigma_custom |-> {FALSE}, epf_quant_mul |-> {D},
   epf_sigma_scales |-> {D}, epf_sigma_for_modular |-> {D}, extensions |-> {D}]

Ctx(xyb, nec, ds, anim, tc) ==
  [xyb_encoded |-> xyb, num_extra_channels |-> nec, dim_shift |-> ds,
   have_animation |-> anim, have_timecode |-> tc,
   img_width |-> 256, img_height |-> 256]

(* fh_walk: every branch of the field walk.  Every frame type and one     *)
(* invalid code, both encodings, the LF-frame flag, crops that cover and  *)
(* miss the image, blending modes with and without a reference source    *)
(* (and one invalid mode), each sub-record's shortcut and long form.      *)
WalkContexts ==
  {Ctx(FALSE, 0, <<>>, TRUE, TRUE), Ctx(TRUE, 1, <<0>>, FALSE, FALSE)}
WalkSample ==
  [BaseSample EXCEPT
     !.all_default = BOOLEAN, !.frame_type = {0, 1, 2, 3, 18},
     !.encoding = {0, 1}, !.flags = {0, USE_LF_FRAME}, !.do_ycbcr = BOOLEAN,
     !.num_passes = {1, 2}, !.have_crop = BOOLEAN, !.width = {255, 256},
     !.mode = {0, 2, 6}, !.is_last = BOOLEAN, !.save_before_ct = BOOLEAN,
     !.gab = BOOLEAN, !.gab_custom = {TRUE}, !.epf_iters = {0, 1},
     !.epf_sharp_custom = {TRUE}, !.epf_weight_custom = {TRUE},
     !.epf_sigma_custom = {TRUE}]

(* fh_check: the numbers check() reads.  Every upsampling factor for the  *)
(* image and for one extra channel, dim shifts 0, 1 and 3, and pass       *)
(* structures on both sides of num_ds < num_passes.                       *)
CheckContexts ==
  {Ctx(FALSE, 0, <<>>, FALSE, FALSE)}
  \cup {Ctx(FALSE, 1, <<d>>, FALSE, FALSE) : d \in {0, 1, 3}}
CheckSample ==
  [BaseSample EXCEPT
     !.flags = {0, USE_LF_FRAME}, !.upsampling = {1, 2, 4, 8},
     !.ec_upsampling = {1, 2, 4, 8}, !.num_passes = {1, 2, 3, 11},
     !.num_ds = {0, 1, 2, 3, 4}]

(* fh_sbct: LF frames and all-default headers, the two ways save_before_ct *)
(* is left to its default.                                                *)
SbctSample ==
  [BaseSample EXCEPT !.all_default = BOOLEAN, !.frame_type = {LFFrame}]

(* toc_spec / toc_overflow: cropped frames of a few sizes, every group     *)
(* size and chroma subsampling with and without a horizontal shift.       *)
TocContexts == {Ctx(FALSE, 0, <<>>, FALSE, FALSE)}
TocSample ==
  [BaseSample EXCEPT
     !.encoding = {1}, !.do_ycbcr = {TRUE}, !.have_crop = {TRUE},
     !.jpeg_upsampling = {<<0, 0, 0>>, <<1, 0, 0>>},
     !.group_size_shift = {0, 1, 2, 3}, !.width = {255, 2304},
     !.height = {255, 2304}]
HugeCropSample ==
  [TocSample EXCEPT !.width = {2304, 1073760511}, !.height = {2304, 1073760511}]

(* fh_alpha: one extra channel, blending modes that read an alpha index,  *)
(* and the index values 0 and 1.                                         *)
AlphaContexts == {Ctx(FALSE, 1, <<0>>, FALSE, FALSE)}
AlphaSample ==
  [BaseSample EXCEPT !.mode = {2, 3}, !.alpha_channel = {0, 1}]

(* fh_ec_blending: one extra channel and the frame types that are not     *)
(* normal frames.                                                         *)
EcBlendSample ==
  [BaseSample EXCEPT !.frame_type = {LFFrame, ReferenceOnly}]
=============================================================================
