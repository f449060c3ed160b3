---------------------------- MODULE FrameHeader ----------------------------
(***************************************************************************)
(* FrameHeader::read_unconditional: the field walk of struct FrameHeader   *)
(* (frame_header.rs lines 256-400) over the nonserialized context          *)
(* FrameHeaderNonserialized (lines 246-254), its #[aligned] pad, and the   *)
(* #[validate] call to check() (lines 433-460).  The sub-records Passes,   *)
(* BlendingInfo (base and one per extra channel) and RestorationFilter are *)
(* instances of their own modules, sharing status.                        *)
(*                                                                         *)
(* ctx is the caller's context, fixed for the call; at is the field the    *)
(* walk has reached; fh holds the fields decoded so far.  A sub-record     *)
(* under construction lives in passes/bi/rf with its phase; the parent     *)
(* copies it into fh when its phase reaches "done".                        *)
(***************************************************************************)
EXTENDS Naturals, Sequences, FiniteSetsExt, Bitwise, U32Coder

CONSTANTS
  Contexts,   \* FrameHeaderNonserialized values the caller may pass
  Sample,     \* field name -> the values the stream carries for it
  Unset, Decoded, Default  \* model values (see RecordEngine)

ASSUME /\ \A f \in {"x0", "y0", "width", "height"} : Sample[f] \subseteq Values(CropCoder)
       /\ Sample["frame_type"] \subseteq Values(EnumCoder)
       /\ Sample["encoding"] \subseteq BitsValues(1)
       /\ Sample["jpeg_upsampling"] \subseteq [1 .. 3 -> BitsValues(2)]
       /\ Sample["upsampling"] \cup Sample["ec_upsampling"] \subseteq Values(UpsamplingCoder)
       /\ Sample["group_size_shift"] \cup Sample["save_as_reference"] \subseteq BitsValues(2)
       /\ Sample["duration"] \subseteq Values(DurationCoder)
       /\ \A f \in {"all_default", "do_ycbcr", "have_crop", "is_last", "save_before_ct"} :
             Sample[f] \subseteq BOOLEAN

VARIABLES ctx, status, at, fh, passes, pphase, bi, bphase, rf, rphase

vars == <<ctx, status, at, fh, passes, pphase, bi, bphase, rf, rphase>>
sub == <<passes, pphase, bi, bphase, rf, rphase>>

\* enum FrameType (lines 17-23).
RegularFrame == 0
LFFrame == 1
ReferenceOnly == 2
SkipProgressive == 3
FrameTypes == {RegularFrame, LFFrame, ReferenceOnly, SkipProgressive}

\* struct Flags (lines 31-40).  The u64 mask is a U64 field (its coding is
\* in the headers crate); only the USE_LF_FRAME bit steers this record.
USE_LF_FRAME == 32

NEC == ctx.num_extra_channels

LOCAL FE == INSTANCE RecordEngine
              WITH rec <- fh, phase <- at
P == INSTANCE Passes
R == INSTANCE RestorationFilter WITH encoding <- fh.encoding

\* The BlendingInfoNonserialized the header builds for every BlendingInfo
\* (lines 347-349 and 354-356): crop fields decoded so far and the image.
BlendNs ==
  [num_extra_channels |-> NEC, have_crop |-> fh.have_crop,
   x0 |-> fh.x0, y0 |-> fh.y0, width |-> fh.width, height |-> fh.height,
   img_width |-> ctx.img_width, img_height |-> ctx.img_height]
B == INSTANCE BlendingInfo WITH ns <- BlendNs

Normal(r) == r.frame_type \in {RegularFrame, SkipProgressive}
UseLfFrame(r) == (r.flags & USE_LF_FRAME) # 0

CropOf(r, c) ==
  [have_crop |-> r.have_crop, x0 |-> r.x0, y0 |-> r.y0, width |-> r.width,
   height |-> r.height, img_width |-> c.img_width, img_height |-> c.img_height]

\* #[default] of save_before_ct as the code computes it (lines 384-388).
SbctDefault(r, c) ==
  /\ ~B!FullFrame(CropOf(r, c))
  /\ Normal(r)
  /\ r.blending_info.mode = B!Replace
  /\ (r.duration = 0 \/ r.save_as_reference # 0)
  /\ ~r.is_last

\* The record before the walk starts: every field undecoded, the
\* per-extra-channel blending list empty.
FHFields ==
  {"all_default", "frame_type", "encoding", "flags", "do_ycbcr",
   "jpeg_upsampling", "upsampling", "ec_upsampling", "group_size_shift",
   "x_qm_scale", "b_qm_scale", "passes", "lf_level", "have_crop", "x0", "y0",
   "width", "height", "blending_info", "ec_blending_info", "duration",
   "timecode", "is_last", "save_as_reference", "save_before_ct", "name",
   "restoration_filter", "extensions"}
FHStart == [f \in FHFields |-> IF f = "ec_blending_info" THEN <<>> ELSE Unset]

\* Every field's #[default], in declaration order (the all_default path).
FHDefaults(c) ==
  LET d == [all_default |-> TRUE, frame_type |-> RegularFrame,
            encoding |-> R!VarDCT, flags |-> 0, do_ycbcr |-> FALSE,
            jpeg_upsampling |-> <<0, 0, 0>>, upsampling |-> 1,
            ec_upsampling |-> [i \in 1 .. c.num_extra_channels |-> 1],
            group_size_shift |-> 1, x_qm_scale |-> Default,
            b_qm_scale |-> Default, passes |-> P!PassesDefault,
            lf_level |-> Default, have_crop |-> FALSE,
            x0 |-> 0, y0 |-> 0, width |-> 0, height |-> 0,
            blending_info |-> B!BIDefault,
            ec_blending_info |-> [i \in 1 .. c.num_extra_channels |-> B!BIDefault],
            duration |-> 0, timecode |-> Default, is_last |-> TRUE,
            save_as_reference |-> 0, save_before_ct |-> FALSE,
            name |-> Default, restoration_filter |-> R!RFDefault,
            extensions |-> Default]
  IN [d EXCEPT !.save_before_ct = SbctDefault(d, c)]

-----------------------------------------------------------------------------
(* The field walk.  A plain field leaves the sub-record state alone.       *)

Plain(A) == A /\ UNCHANGED <<ctx, passes, pphase, bi, bphase, rf, rphase>>
Opaque(f, present, nxt) ==
  Plain(FE!Field(f, present, Default, {Decoded}, nxt))

all_default == Plain(FE!Shortcut("all_default", FHDefaults(ctx), "frame_type", "align"))
frame_type ==
  Plain(FE!Field("frame_type", TRUE, RegularFrame, FrameTypes, "encoding"))
encoding ==
  Plain(FE!Field("encoding", TRUE, R!VarDCT, {R!VarDCT, R!Modular}, "flags"))
flags == Plain(FE!Field("flags", TRUE, 0, Nat, "do_ycbcr"))
do_ycbcr ==
  Plain(FE!Field("do_ycbcr", ~ctx.xyb_encoded, FALSE, BOOLEAN, "jpeg_upsampling"))
jpeg_upsampling ==
  Plain(FE!Field("jpeg_upsampling", fh.do_ycbcr /\ ~UseLfFrame(fh), <<0, 0, 0>>,
                 [1 .. 3 -> 0 .. 3], "upsampling"))
upsampling ==
  Plain(FE!Field("upsampling", ~UseLfFrame(fh), 1, Nat, "ec_upsampling"))
\* Mutant: an absent ec_upsampling defaults to an empty Vec, as
\* #[default(Vec::new())] would, not to num_extra_channels ones.
ec_upsampling_empty ==
  Plain(FE!Vector("ec_upsampling", ~UseLfFrame(fh), NEC, <<>>, "group_size_shift"))
ec_upsampling ==
  Plain(FE!Vector("ec_upsampling", ~UseLfFrame(fh), NEC,
                  [i \in 1 .. NEC |-> 1], "group_size_shift"))
group_size_shift ==
  Plain(FE!Field("group_size_shift", fh.encoding = R!Modular, 1, 0 .. 3, "x_qm_scale"))
x_qm_scale == Opaque("x_qm_scale", fh.encoding = R!VarDCT /\ ctx.xyb_encoded, "b_qm_scale")
b_qm_scale == Opaque("b_qm_scale", fh.encoding = R!VarDCT /\ ctx.xyb_encoded, "passes")

\* A sub-record field: when present the sub-record is walked by its own
\* module (phase "idle" -> first field ... "done"), then stored in fh.
passes_field ==
  /\ FE!Decoding
  /\ at = "passes"
  /\ \/ /\ pphase = "idle"
        /\ fh.frame_type # ReferenceOnly
        /\ passes' = P!PassesStart
        /\ pphase' = "num_passes"
        /\ UNCHANGED <<ctx, status, at, fh, bi, bphase, rf, rphase>>
     \/ /\ pphase = "idle"
        /\ fh.frame_type = ReferenceOnly
        /\ fh' = [fh EXCEPT !.passes = P!PassesDefault]
        /\ at' = "lf_level"
        /\ UNCHANGED <<ctx, status, sub>>
     \/ /\ pphase = "done"
        /\ fh' = [fh EXCEPT !.passes = passes]
        /\ at' = "lf_level"
        /\ pphase' = "idle"
        /\ UNCHANGED <<ctx, status, passes, bi, bphase, rf, rphase>>

lf_level == Opaque("lf_level", fh.frame_type = LFFrame, "have_crop")
have_crop ==
  Plain(FE!Field("have_crop", fh.frame_type # LFFrame, FALSE, BOOLEAN, "x0"))
x0 ==
  Plain(FE!Field("x0", fh.have_crop /\ fh.frame_type # ReferenceOnly, 0, Nat, "y0"))
y0 ==
  Plain(FE!Field("y0", fh.have_crop /\ fh.frame_type # ReferenceOnly, 0, Nat, "width"))
width == Plain(FE!Field("width", fh.have_crop, 0, Nat, "height"))
height == Plain(FE!Field("height", fh.have_crop, 0, Nat, "blending_info"))

blending_info_field ==
  /\ FE!Decoding
  /\ at = "blending_info"
  /\ \/ /\ bphase = "idle"
        /\ Normal(fh)
        /\ bi' = B!BIStart
        /\ bphase' = "mode"
        /\ UNCHANGED <<ctx, status, at, fh, passes, pphase, rf, rphase>>
     \/ /\ bphase = "idle"
        /\ ~Normal(fh)
        /\ fh' = [fh EXCEPT !.blending_info = B!BIDefault]
        /\ at' = "ec_blending_info"
        /\ UNCHANGED <<ctx, status, sub>>
     \/ /\ bphase = "done"
        /\ fh' = [fh EXCEPT !.blending_info = bi]
        /\ at' = "ec_blending_info"
        /\ bphase' = "idle"
        /\ UNCHANGED <<ctx, status, passes, pphase, bi, rf, rphase>>

\* ec_blending_info has no #[condition]: NEC records are always read.
ec_blending_info_field ==
  /\ FE!Decoding
  /\ at = "ec_blending_info"
  /\ \/ /\ bphase = "idle"
        /\ Len(fh.ec_blending_info) < NEC
        /\ bi' = B!BIStart
        /\ bphase' = "mode"
        /\ UNCHANGED <<ctx, status, at, fh, passes, pphase, rf, rphase>>
     \/ /\ bphase = "done"
        /\ fh' = [fh EXCEPT !.ec_blending_info = Append(@, bi)]
        /\ bphase' = "idle"
        /\ UNCHANGED <<ctx, status, at, passes, pphase, bi, rf, rphase>>
     \/ /\ bphase = "idle"
        /\ Len(fh.ec_blending_info) = NEC
        /\ at' = "duration"
        /\ UNCHANGED <<ctx, status, fh, sub>>

duration ==
  Plain(FE!Field("duration", Normal(fh) /\ ctx.have_animation, 0, Nat, "timecode"))
timecode == Opaque("timecode", Normal(fh) /\ ctx.have_timecode, "is_last")
is_last ==
  Plain(FE!Field("is_last", Normal(fh), fh.frame_type = RegularFrame, BOOLEAN,
                 "save_as_reference"))
save_as_reference ==
  Plain(FE!Field("save_as_reference", fh.frame_type # LFFrame /\ ~fh.is_last, 0,
                 0 .. 3, "save_before_ct"))
save_before_ct ==
  Plain(FE!Field("save_before_ct", fh.frame_type # LFFrame, SbctDefault(fh, ctx),
                 BOOLEAN, "name"))
name == Opaque("name", TRUE, "restoration_filter")

restoration_filter_field ==
  /\ FE!Decoding
  /\ at = "restoration_filter"
  /\ \/ /\ rphase = "idle"
        /\ rf' = R!RFStart
        /\ rphase' = "all_default"
        /\ UNCHANGED <<ctx, status, at, fh, passes, pphase, bi, bphase>>
     \/ /\ rphase = "done"
        /\ fh' = [fh EXCEPT !.restoration_filter = rf]
        /\ at' = "extensions"
        /\ rphase' = "idle"
        /\ UNCHANGED <<ctx, status, passes, pphase, bi, bphase, rf>>

extensions == Opaque("extensions", TRUE, "align")

\* #[aligned]: the cursor skips to the next byte boundary; the pad bits
\* may be missing from the stream.
align ==
  /\ FE!Decoding
  /\ at = "align"
  /\ \/ at' = "check" /\ UNCHANGED <<status, fh>>
     \/ FE!Starve /\ UNCHANGED at
  /\ UNCHANGED <<ctx, sub>>

\* Mutant: num_ds > num_passes in place of >=.
CheckResultOffByOne(r, c) ==
  LET n == IF Len(c.dim_shift) < Len(r.ec_upsampling)
           THEN Len(c.dim_shift) ELSE Len(r.ec_upsampling)
      bad(i) == r.ec_upsampling[i] * 2^c.dim_shift[i] < r.upsampling
                \/ r.ec_upsampling[i] > 8
  IN IF r.upsampling > 1 /\ \E i \in 1 .. n : bad(i) THEN "InvalidEcUpsampling"
     ELSE IF r.passes.num_ds > r.passes.num_passes THEN "NumPassesTooLarge"
     ELSE "ok"

\* check() (lines 433-460): zip pairs the context's extra channels with
\* the decoded ec_upsampling, so it covers the shorter of the two.
CheckResult(r, c) ==
  LET n == IF Len(c.dim_shift) < Len(r.ec_upsampling)
           THEN Len(c.dim_shift) ELSE Len(r.ec_upsampling)
      bad(i) == r.ec_upsampling[i] * 2^c.dim_shift[i] < r.upsampling
                \/ r.ec_upsampling[i] > 8
  IN IF r.upsampling > 1 /\ \E i \in 1 .. n : bad(i) THEN "InvalidEcUpsampling"
     ELSE IF r.passes.num_ds >= r.passes.num_passes THEN "NumPassesTooLarge"
     ELSE "ok"

check ==
  /\ FE!Decoding
  /\ at = "check"
  /\ status' = CheckResult(fh, ctx)
  /\ at' = "done"
  /\ UNCHANGED <<ctx, fh, sub>>

PassesStep == P!Next /\ UNCHANGED <<ctx, at, fh, bi, bphase, rf, rphase>>
BlendingStep == B!Next /\ UNCHANGED <<ctx, at, fh, passes, pphase, rf, rphase>>
FilterStep == R!Next /\ UNCHANGED <<ctx, at, fh, passes, pphase, bi, bphase>>

\* The call has returned its result (or error); nothing further happens.
Returned ==
  /\ ~FE!Decoding
  /\ UNCHANGED vars

Init ==
  /\ ctx \in Contexts
  /\ status = "decoding"
  /\ at = "all_default"
  /\ fh = FHStart
  /\ passes = P!PassesStart /\ pphase = "idle"
  /\ bi = B!BIStart /\ bphase = "idle"
  /\ rf = R!RFStart /\ rphase = "idle"

\* One step of the decode call.
Decode ==
  \/ all_default \/ frame_type \/ encoding \/ flags \/ do_ycbcr
  \/ jpeg_upsampling \/ upsampling \/ ec_upsampling \/ group_size_shift
  \/ x_qm_scale \/ b_qm_scale \/ passes_field \/ PassesStep \/ lf_level
  \/ have_crop \/ x0 \/ y0 \/ width \/ height
  \/ blending_info_field \/ ec_blending_info_field \/ BlendingStep
  \/ duration \/ timecode \/ is_last \/ save_as_reference \/ save_before_ct
  \/ name \/ restoration_filter_field \/ FilterStep \/ extensions
  \/ align \/ check

Next == Decode \/ Returned

\* The decode call is synchronous: once it runs, it runs to its result.
Spec == Init /\ [][Next]_vars /\ WF_vars(Next)
-----------------------------------------------------------------------------
(* num_toc_entries (lines 403-432): the TOC length a decoded header        *)
(* predicts.  Its arithmetic is u32; TLC's integers are 32-bit signed, so  *)
(* a product that leaves u32 is detected by division before it is formed.  *)

DivCeil(a, b) == (a + b - 1) \div b

\* (2^32 - 1) \div b for b >= 3, without forming 2^32.
U32MaxDiv(b) ==
  LET q == 1073741824 \div b
      m == 1073741824 % b
  IN IF m = 0 THEN 4 * q - 1 ELSE 4 * q + (4 * m - 1) \div b

\* a * b does not fit in u32 (for a, b below 2^31, a * b < 2^32 when b <= 2).
U32MulOverflows(a, b) == b > 2 /\ a > U32MaxDiv(b)

H_SHIFT == <<0, 1, 1, 0>>
V_SHIFT == <<0, 1, 0, 1>>

\* The tiling num_toc_entries computes, every quantity as in the code.
Tiling(r) ==
  LET maxhs == Max({0} \cup {H_SHIFT[r.jpeg_upsampling[i] + 1] : i \in 1 .. 3})
      maxvs == Max({0} \cup {V_SHIFT[r.jpeg_upsampling[i] + 1] : i \in 1 .. 3})
      group_dim == 128 * 2^r.group_size_shift
      xsize_blocks == DivCeil(r.width, 8 * 2^maxhs) * 2^maxhs
      ysize_blocks == DivCeil(r.height, 8 * 2^maxvs) * 2^maxvs
  IN [xsize_groups |-> DivCeil(r.width, group_dim),
      ysize_groups |-> DivCeil(r.height, group_dim),
      xsize_dc_groups |-> DivCeil(xsize_blocks, group_dim),
      ysize_dc_groups |-> DivCeil(ysize_blocks, group_dim)]

\* num_groups or num_dc_groups leaves u32: a debug build panics, a release
\* build computes the entry count from a wrapped product.
TocCountOverflows(r) ==
  LET t == Tiling(r)
  IN \/ U32MulOverflows(t.xsize_groups, t.ysize_groups)
     \/ U32MulOverflows(t.xsize_dc_groups, t.ysize_dc_groups)

num_toc_entries(r) ==
  LET t == Tiling(r)
  IN IF t.xsize_groups * t.ysize_groups = 1 /\ r.passes.num_passes = 1
     THEN 1
     ELSE 2 + t.xsize_dc_groups * t.ysize_dc_groups

-----------------------------------------------------------------------------
(* Properties.                                                             *)

Statuses == {"decoding", "ok", "Truncated", "InvalidTag",
             "InvalidEcUpsampling", "NumPassesTooLarge"}

\* A returned header has every field in the type its Rust field has, and
\* its two per-extra-channel Vecs hold one element per extra channel of
\* the context, whether they were read, defaulted by their #[condition] or
\* by all_default: check() zips ec_upsampling with the context's channels
\* (line 438) and silently skips the ones a short Vec leaves unpaired.
HeaderType(c) ==
  [all_default : BOOLEAN, frame_type : FrameTypes,
   encoding : {R!VarDCT, R!Modular}, flags : Nat, do_ycbcr : BOOLEAN,
   jpeg_upsampling : [1 .. 3 -> 0 .. 3], upsampling : {1, 2, 4, 8},
   ec_upsampling : [1 .. c.num_extra_channels -> {1, 2, 4, 8}], group_size_shift : 0 .. 3,
   x_qm_scale : {Decoded, Default}, b_qm_scale : {Decoded, Default},
   passes : [num_passes : Nat \ {0}, num_ds : Nat, shift : Seq({Decoded}),
             downsample : Seq({Decoded}), last_pass : Seq({Decoded})],
   lf_level : {Decoded, Default}, have_crop : BOOLEAN,
   x0 : Nat, y0 : Nat, width : Nat, height : Nat,
   blending_info : [mode : B!BlendingModes, alpha_channel : 0 .. 10,
                    clamp : BOOLEAN, source : 0 .. 3],
   ec_blending_info : [1 .. c.num_extra_channels ->
                         [mode : B!BlendingModes, alpha_channel : 0 .. 10,
                          clamp : BOOLEAN, source : 0 .. 3]],
   duration : Nat, timecode : {Decoded, Default}, is_last : BOOLEAN,
   save_as_reference : 0 .. 3, save_before_ct : BOOLEAN,
   name : {Decoded, Default},
   restoration_filter : [all_default : BOOLEAN, gab : BOOLEAN, gab_custom : BOOLEAN,
                         gab_weights : {Decoded, Default}, epf_iters : 0 .. 3,
                         epf_sharp_custom : BOOLEAN,
                         epf_sharp_lut : {Decoded, Default},
                         epf_weight_custom : BOOLEAN,
                         epf_weights : {Decoded, Default},
                         epf_sigma_custom : BOOLEAN,
                         epf_quant_mul : {Decoded, Default},
                         epf_sigma_scales : {Decoded, Default},
                         epf_sigma_for_modular : {Decoded, Default},
                         extensions : {Decoded, Default}],
   extensions : {Decoded, Default}]

TypeOK ==
  /\ ctx \in Contexts
  /\ status \in Statuses
  /\ at \in FHFields \cup {"align", "check", "done"}
  /\ status = "ok" => fh \in HeaderType(ctx)

\* Spec section 8: validation fails iff some extra channel has
\* (u << d) < upsampling or u > 8, or num_ds >= num_passes.  The code only
\* looks at channels when upsampling > 1, and only at the pairs zip
\* produces; this says that its verdict is still the spec's, on every
\* header the field walk can produce.
SpecValid(r, c) ==
  /\ \A i \in 1 .. c.num_extra_channels :
       LET u == r.ec_upsampling[i]
       IN ~(u * 2^c.dim_shift[i] < r.upsampling \/ u > 8)
  /\ r.passes.num_ds < r.passes.num_passes

CheckAgreesWithSpec ==
  at = "done" => (status = "ok" <=> SpecValid(fh, ctx))

\* The comment at lines 381-383 gives save_before_ct's default as
\* d_sbct = !(full_frame && (frame_type == kRegularFrame || frame_type ==
\* kSkipProgressive) && blending_info.mode == kReplace && (duration == 0 ||
\* save_as_reference != 0) && !is_last).  Whenever the field is not read
\* (an LF frame, or the all_default shortcut) the decoded header should
\* carry that value.
CommentedSbct(r, c) ==
  ~ /\ B!FullFrame(CropOf(r, c))
    /\ Normal(r)
    /\ r.blending_info.mode = B!Replace
    /\ (r.duration = 0 \/ r.save_as_reference # 0)
    /\ ~r.is_last

SaveBeforeCtDefaultAsCommented ==
  (status = "ok" /\ (fh.all_default \/ fh.frame_type = LFFrame))
    => fh.save_before_ct = CommentedSbct(fh, ctx)

\* Spec section 8: the TOC has 1 entry when the crop needs a single group
\* and there is one pass, otherwise 2 + dc_group_count, with
\* dc_group_count from the crop ceiling-divided at
\* (128 << group_size_shift) << max_subsampling_shift.
SpecTocEntries(r) ==
  LET g == 128 * 2^r.group_size_shift
      hs == Max({0} \cup {H_SHIFT[r.jpeg_upsampling[i] + 1] : i \in 1 .. 3})
      vs == Max({0} \cup {V_SHIFT[r.jpeg_upsampling[i] + 1] : i \in 1 .. 3})
  IN IF DivCeil(r.width, g) * DivCeil(r.height, g) = 1 /\ r.passes.num_passes = 1
     THEN 1
     ELSE 2 + DivCeil(r.width, g * 2^hs) * DivCeil(r.height, g * 2^vs)

TocEntriesAsSpecified ==
  (status = "ok" /\ ~TocCountOverflows(fh))
    => num_toc_entries(fh) = SpecTocEntries(fh)

\* Spec section 4.3: the entry count is 2 + the number of DC groups.  For
\* every header decode can return, the u32 arithmetic of num_toc_entries
\* must not wrap (or panic) on the way there.
TocCountFitsU32 == status = "ok" => ~TocCountOverflows(fh)

\* Spec section 3 (line 38) gives BlendingInfo an "alpha-channel index":
\* whenever the base image's or an extra channel's blending reads one
\* (mode Blend or AlphaWeightedAdd with extra channels present), a header
\* decode returns should name an extra channel that exists.  The coder
\* (line 101) reaches 10 and check() never looks at it.
AlphaIndexed(b) ==
  (b.mode \in {B!Blend, B!AlphaWeightedAdd} /\ NEC > 0) => b.alpha_channel < NEC

AlphaChannelIsAnExtraChannel ==
  status = "ok" =>
    /\ AlphaIndexed(fh.blending_info)
    /\ \A i \in DOMAIN fh.ec_blending_info : AlphaIndexed(fh.ec_blending_info[i])

\* The comment at lines 345-346 names "normal_frame" (a regular or
\* skip-progressive frame) as the condition under which blending is coded,
\* and spec section 4.2 (line 60) has a blending-info list whose presence
\* condition is false default to one default element per extra channel.
\* No step should therefore start decoding an extra channel's BlendingInfo
\* record from the stream for an LF or reference-only frame.
EcBlendingReadOnlyForNormalFrames ==
  [][(at = "ec_blending_info" /\ bphase = "idle" /\ bphase' = "mode")
       => Normal(fh)]_vars
=============================================================================
