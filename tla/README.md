# TLA+ models of the jxl-rs frame-header and TOC decoder and its CLI

These modules model the frame-header and table-of-contents (TOC) decoder in
`src/jxl/src/headers/frame_header.rs` and the command-line driver in `src/jxl_cli/src/main.rs`. TLC checks them for the cases that
are hard to test: the decoder's data-dependent grammar, and the CLI's retry
loops, partial failures and edge-case options.

## The system

A frame header is a tree of records. Each record is a Rust struct with
`#[derive(UnconditionalCoder)]`. Each field carries attributes:

- `#[condition]` says whether the field is in the stream.
- `#[default]` gives its value when it is not. The default may be an
  expression over earlier fields.
- `#[coder]` gives how the field is coded. `u2S` is the 2-bit-selector integer
  with four alternatives.
- `#[size_coder(explicit(n))]` gives the length of a `Vec`.

`FrameHeader` has these sub-records:

- `Passes`
- `BlendingInfo`, once for the image and once per extra channel
  (`ec_blending_info`)
- `RestorationFilter`

`FrameHeader` and `RestorationFilter` start with an `#[all_default]` bit. When
it is set, every other field takes its default. `FrameHeader` is `#[aligned]`.
It is also `#[validate]`d by `check()` (lines 433-460).

`num_toc_entries()` (lines 403-432) derives the TOC length from the decoded
header. A caller then reads the `Toc` (lines 223-244) with that count in
`TocNonserialized`. In src, the only caller is the test helper `read_headers`
(lines 474-508).

`main` (lines 236-328) reads the whole input file. It runs `decode_jxl`
(lines 100-207) `--num-reps` times. `decode_jxl` feeds the file to the
incremental decoder `jxl::api::JxlDecoder` in three loops: image info, then
for each frame the frame info and the pixels. Each loop calls `process()`,
`.unwrap()`s the result and retries on `NeedsMoreInput` unless the buffer is
empty ("Source file truncated"). Between the frame info and the pixels it
allocates the output images. After the pixels it pushes the frame and asks
`has_more_frames()`. `main` then writes the ICC profiles and the output
image (`save_icc`, `save_image`). It returns the first of their errors.

The derive macro and the bit reader live in the headers crate, outside src.
The modules marked *spec-modelled* in `PROJECT.json` follow `spec.md`
sections 4.1 and 4.2 for them.

## Modules

| module | models | state |
|---|---|---|
| `U32Coder` | the u2S coders named in the attributes, as the value sets they yield; `RawSamples` picks the boundary values of each raw `Bits(k)` | none (operators) |
| `RecordEngine` | the field rule of the derive (spec 4.2): `Field` (condition, default, coder, invalid tag), `Vector` (explicit-size `Vec`), `Shortcut` (`all_default`), `Starve` (the reader runs out of bits) | `rec`, `phase`, `status` |
| `Passes`, `BlendingInfo`, `RestorationFilter` | one action per struct field, with its condition and default; `FullFrame` is `full_frame` of lines 115-120 | the record, its phase, the shared `status`, and the nonserialized input as a VARIABLE (`ns`, `encoding`) so the parent can wire it |
| `FrameHeader` | `FrameHeader::read_unconditional`: all 28 fields in declaration order, the sub-record walks, the alignment pad and `check()`; `num_toc_entries` as an operator with u32 overflow detection | `ctx` (the `FrameHeaderNonserialized`), `status`, `at` (field reached), `fh`, and the three sub-record states |
| `Toc` | `Toc::read_unconditional`: `permuted`, the empty `Permutation`, `num_entries` entries | `toc`, `tphase`, `status`, `num_entries` |
| `Frame` | `read_headers`: the header call, `.unwrap()`, then the TOC call with a caller-chosen count (`TocEntriesFor`) | `FrameHeader`'s state plus the TOC's |
| `JxlCli` | `main`'s repetition loop, `decode_jxl`'s three retry loops (`Process`), the unit completions with allocation, push and `has_more_frames` (`Completed`), the output section (`Finish`, with `SaveImage`'s dispatch on the extension), and `planes_from_interleaved` (`Planes`) | `flen`, `nframes` and `xsize` (the file's frames and width), `num_reps`, `bad` (the unit the decoder rejects), `rep`, `buf` (bytes left in `input_buffer`), `have` (bytes of the current unit the decoder holds), `stage` (which loop), `frames`, `result`, `out` (what became of each file) |
| `CliSpec` | the abstract, frame-level promise of the tool (spec section 6): `Push` a frame the file holds, `Restart` a repetition, `Truncate` after the last whole frame, `Succeed` after every repetition, `Fail` at any point | `flen`, `num_reps`, `rep`, `frames`, `result` |
| `MCFrameHeader`, `MCFrame`, `MCJxlCli` | contexts, stream samples and file lengths for TLC | |

### How the state maps to the code

The model abstracts the bit cursor. A read yields a value from `Sample[f]`,
a per-run CONSTANT that the module's ASSUMEs hold to what the coder can
produce. Or the read runs dry, which sets `status` to `"Truncated"`. A tag
outside its enum sets `"InvalidTag"`, and `check()` sets its own error kinds.

Values that no property looks at are the model values `Decoded` or `Default`.
These are the floats, `name`, the quantisation scales and `timecode`.
`alpha_channel` keeps its value (coder `u2S(0, 1, 2, Bits(3) + 3)`). A
sub-record starts at phase `"idle"` and walks to `"done"`. The parent then
copies it into `fh`, as the derive does.

The decoder behind the CLI is outside src. Spec section 6 describes it only
as a byte-by-byte state machine. `JxlCli` models it by what `decode_jxl` can
observe. The stream is `InfoLen` bytes of image info, then `nframes`
frames of `FHLen` header bytes and `PixLen` pixel bytes. The file decides
`nframes` (from `NumFramesOptions`) and the image width `xsize`
(`image_data.size.0`, from `XSizes`). `save_image` sees the channels per
frame (`Channels`: 1 or 3 plus the extra channels). `planes_from_interleaved` is the operator `Planes` on one row:
plane `c` takes sample `3(x-1)+c` of the interleaved row. A `process()` call
takes bytes from `input_buffer` (`Takes`) and either completes the unit,
returns `NeedsMoreInput`, or returns an `Err` on unit `bad`. The constant
`Buffers` says whether the decoder keeps a partial unit, which is the
contract the retry loops rely on. Image allocations (`AllocMayFail`), file
writes and the external encoders (`IoMayFail`) succeed or fail
nondeterministically. A panic is `result = "panic"`.

`JxlCli` is checked to implement `CliSpec` (`ImplementsCliSpec == Abs!ASpec`).
The refinement mapping is the identity on `flen`, `nframes`, `num_reps`,
`rep`, `frames` and `result`, except that a panic maps to the abstract `"error"`, since
`NoPanic` tells those two apart. A `process()` call that returns
`NeedsMoreInput`, or completes image info or frame info, is a stuttering
step of `CliSpec`. Completing a frame's pixels is `Push`. `NextRep` is
`Restart`, and `Finish` is `Succeed` or `Fail`.

### Deliberate abstractions

- Where the alignment pad sits is modelled at the end of the record, as in
  spec section 5. Section 4.2 step 3 puts it at the start. No property depends
  on where it sits, since truncation can happen at any read.
- `ctx` is consistent, as `read_headers` builds it:
  `num_extra_channels = Len(extra_channel_info)`. Only `dim_shift` of
  `ExtraChannelInfo` is kept.

## Runs

| run | result | shows |
|---|---|---|
| `fh_walk` | pass, 184k states | Every returned header is well typed, and its `ec_upsampling` and `ec_blending_info` hold one element per extra channel of the context, whether they were read, defaulted by their condition or by `all_default` (`TypeOK`). This is what keeps `check()`'s `zip` from skipping a channel. The sample covers all frame types and an invalid tag (18), the LF flag, crop or not, and full- or partial-frame crops (255 vs 256 on a 256-wide image). It also covers blending modes Replace, Blend and an invalid one, both `all_default` values, and the restoration filter's EPF branches under both encodings. |
| `fh_check` | pass, 61k states | `CheckAgreesWithSpec`: `check()` returns Ok exactly when spec section 8's validity holds over all channels. This holds even though the code only looks when `upsampling > 1`, and walks a `zip`. |
| `fh_sbct` | violation | `SaveBeforeCtDefaultAsCommented`: see finding 1 |
| `toc_spec` | violation | `TocEntriesAsSpecified`: see finding 2 |
| `toc_overflow` | violation | `TocCountFitsU32`: see finding 3 |
| `frame_read_headers` | violation | `TocLengthMatchesHeader` with `read_headers`' count of 0: see finding 4 |
| `fh_alpha` | violation | `AlphaChannelIsAnExtraChannel`: see finding 5 |
| `fh_ec_blending` | violation | `EcBlendingReadOnlyForNormalFrames`, an action property: see finding 6 |
| `cli_decode` | pass, 38k states | Files of 1 or 3 frames and of width 0, 1 or 3, of 0..12 bytes (the 3-frame stream is 11 bytes), `--num-reps 2`, a buffering decoder that may reject unit 1, 4 or 6, and failing allocations and writes. The byte-level loops implement `CliSpec` (`ImplementsCliSpec`). So each repetition starts from the first frame, frames are pushed one at a time and only as the file holds them, "truncated" comes right after the last whole frame of a short file, Ok comes only after every repetition, and the run ends (the abstract `WF`). The `TypeOK` here also bounds `frames` by the file's frame count. The three planes split from an interleaved row of the image's width give the row back exactly when read pixel by pixel (`PlanesFromInterleavedExact`, against `FlattenSeq`). |
| `cli_panic` | violation | `NoPanic`: see findings 7 and 8 |
| `cli_stall` | violation | `Termination` with a decoder that keeps no partial unit (`Buffers = FALSE`): see finding 9 |

Each property of a passing run has a mutant in `PROJECT.json` that TLC catches:

- an absent `ec_upsampling` defaulting to an empty `Vec`;
- `>` for `>=` in `check()`;
- a new repetition that keeps the previous `image_data` frames;
- a frame loop that stops one frame early;
- red and blue taken in swapped order by `planes_from_interleaved`.

### Findings

1. **`save_before_ct` default (line 384).** The code's default is
   `!full_frame && normal && ...`. The comment (lines 381-383) and the format
   give `!(full_frame && normal && ...)`. The two differ whenever the field is
   not read: LF frames, and the all-default header.
2. **DC-group granularity (line 421).** The code divides 8×8 block counts by
   the group dimension, so a DC group is 8 groups wide. Spec section 8 says
   `group_dim << max_subsampling_shift`. A 255×2304 crop gives 5 entries in the
   code and 38 in the spec. The code matches the JPEG XL layout (a DC group
   covers 8×8 groups), so the spec's sentence looks like the part in error.
3. **u32 overflow (line 424).** Crop sizes up to 2^30 + 18687 are accepted.
   `xsize_groups * ysize_groups` then exceeds u32. This panics in debug
   builds and wraps in release builds.
4. **`read_headers` count (line 502).** The helper passes `num_entries: 0`, so
   the tests decode the TOC as empty instead of with the header's count
   (at least 1). The `basic_toc` test (lines 534-544) and spec section 8's
   own end-to-end case (spec.md line 101) expect exactly that empty TOC, so
   the spec contradicts its sections 4.3 and 5 there, and the test pins the
   code's behaviour.
5. **`alpha_channel` unbounded (line 101).** The coder reaches 10, and
   nothing checks it against `num_extra_channels`. A Blend header with one
   extra channel and `alpha_channel = 1` decodes Ok. Spec section 3 calls the
   field an alpha-channel index.
6. **`ec_blending_info` is read for every frame type (line 352).** The field
   has no `#[condition]`. A reference-only or LF frame with extra channels
   therefore reads `num_extra_channels` BlendingInfo records from the stream,
   while `blending_info` is skipped for that same frame. The comment at lines
   345-346 names `normal_frame` as the blending condition. Spec section 4.2
   (line 60) describes the blending-info list as defaulting to default
   elements when its condition is false. The extra bits desynchronise every
   later field.
7. **`--num-reps 0` (main.rs:272).** clap accepts 0. The loop never runs and
   `image_data.unwrap()` panics. This is the trace TLC prints.
8. **`.unwrap()` on `process()` (main.rs:108, 142, 170).** A decode error
   panics instead of reaching the "Failed to decode image from" context at
   line 267. With `NumRepsOptions = {1}`, the same run fails on the rejected
   frame header.
9. **Retry loops need a consuming decoder (main.rs:173).** Each loop ends
   only when `input_buffer` is empty after a `NeedsMoreInput`. Spec section 5
   has a streaming caller re-invoke decode from the start of the record, with
   no resume. With a decoder that leaves a partial unit in the buffer, a file
   cut inside a unit makes the loop call `process()` forever. Nothing in the
   repository says the decoder consumes partial units.

### Bounds

Raw `Bits(k)` reads are sampled at 0, 1 and their maximum, and every
alternative's offset is kept. The contexts use a 256×256 image with 0 or 1
extra channels (the zip in `check()` needs only one). `dim_shift` takes
0, 1 and 3.

`num_passes` is 1 or 2 in the walk. In `fh_check` it is 1, 2, 3 and 11, and
`num_ds` is 0..4, so both sides of `num_ds >= num_passes` occur, equality
included. The upsampling values are all of {1, 2, 4, 8}.

The TOC runs use crops 255 and 2304, a group shift of 0..3, and no
subsampling or `jpeg_upsampling = <<1, 0, 0>>` (value 1 shifts both
directions, so the block grid halves horizontally and vertically). 2304 is the first value of the third
crop alternative. The overflow run adds 1073760511, the largest crop value.

The CLI runs use `InfoLen = 2`, `FHLen = 1` and `PixLen = 2`, the smallest
lengths where a unit can be cut after its first byte. `cli_decode` has
files of 1 frame (the only shape a ppm or pgm is written for) and of 3
frames, so a middle frame is followed by another frame. Widths 0, 1 and 3
give empty planes, a single pixel and pixels on both sides of a middle one. Files of
0..12 bytes cut the stream inside and at the edge of every unit, or hold the
whole stream plus a byte. `--num-reps 2` makes `decode_jxl` run again after a
complete decode. The rejected units 1, 4 and 6 are the first frame's header
and the second and third frames' pixels, and 99 means none. `cli_panic` uses
2 frames, files of 0..9 bytes, `--num-reps` 0 or 1, and rejected units 1 and
4. Extra channels are 0 or 1. `cli_stall` uses 2 frames, files of 0..9
bytes, one repetition and no rejected unit.

### Fairness

Each decode call is synchronous and single-threaded (spec section 5). Once
called, it always takes its next step, so `WF` on the next-state relation is
what the code gives. `main` is likewise one thread of synchronous calls, so
the same `WF` applies to `JxlCli`.

## Not modelled

- The decoder behind the CLI (`jxl::api`), beyond the bytes it consumes and
  the results it returns. It is not in the repository. The retry loops stop
  only on an empty buffer. So they terminate only if the decoder consumes
  the partial unit it is given. `cli_decode` assumes it does
  (`Buffers = TRUE`), and `cli_stall` shows the hang when it does not.
- The speedtest report (main.rs:273-295) only prints. Its `num_reps as u32`
  division fails only past 2^32 repetitions. TLC's integers stop at
  2^31 - 1, and the repetition loop would have to run that many times.
- `Predictor::try_from` (predict.rs). It is a flat tag-to-variant mapping
  with no state, which spec.md marks out of scope. Any property of it would
  restate the enum's discriminant list.
- What `save_image` does with each format, and main's three saves
  (lines 297-326), beyond one step of `Finish`. Each is straight-line code
  that a property could only restate.
- The external encoders (`enc`), `clap` parsing and the file system, beyond
  success or failure.
- The bit positions themselves. Desynchronisation shows up in the model as a
  wrong count or a wrong presence decision, never as misread bits.

## Plan for later work

1. A finer `U32Coder` that checks the selector read against a bit-level
   reference over bounded inputs.
2. A streaming property: re-invoking on a longer prefix never turns Ok into
   an error.
