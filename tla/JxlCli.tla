------------------------------- MODULE JxlCli -------------------------------
(***************************************************************************)
(* The command-line driver (src/jxl_cli/src/main.rs): main's repetition    *)
(* loop (lines 258-272) around decode_jxl (lines 100-207), which feeds the *)
(* whole file to the incremental decoder and retries on NeedsMoreInput.    *)
(*                                                                         *)
(* The decoder (jxl::api) is not in the repository; spec.md line 88        *)
(* describes it only as a byte-by-byte state machine                       *)
(* Initialized -> HasImageInfo -> HasFrameInfo -> pixels.  It is modelled  *)
(* by what the driver can observe: each process() call consumes some bytes *)
(* of input_buffer and returns Complete, NeedsMoreInput or an Err.  The    *)
(* stream is InfoLen bytes of image info, then nframes frames of FHLen    *)
(* header and PixLen pixel bytes.  Whether the decoder keeps a partial     *)
(* unit in its own buffer (Buffers) is the contract the retry loops lean   *)
(* on; spec.md does not state it.                                          *)
(***************************************************************************)
EXTENDS Naturals
LOCAL INSTANCE SequencesExt

CONSTANTS
  FileLens,     \* lengths of the input file, read whole at line 255
  InfoLen, FHLen, PixLen,
  NumFramesOptions, \* numbers of frames a file may hold
  NumRepsOptions, \* values of --num-reps, a usize that clap accepts as 0
  Buffers,      \* the decoder consumes a partial unit on NeedsMoreInput
  BadUnits,     \* units process() rejects with an Err (past the last: none)
  AllocMayFail, \* Image::new may fail (lines 153-160, and in 192)
  ExtraChannels,\* numbers of extra channels an image may have
  IoMayFail,    \* fs::write and the external encoders may fail
  XSizes        \* image widths (info.size.0) a file may give

ASSUME /\ FileLens \subseteq Nat /\ NumRepsOptions \subseteq Nat
       /\ {InfoLen, FHLen, PixLen} \cup NumFramesOptions \subseteq Nat \ {0}
       /\ BadUnits \subseteq Nat
       /\ {Buffers, AllocMayFail, IoMayFail} \subseteq BOOLEAN
       /\ ExtraChannels \subseteq Nat /\ XSizes \subseteq Nat

VARIABLES
  flen,    \* input_bytes.len()
  nframes, \* the frames the file holds
  xsize,   \* image_data.size.0
  num_reps,\* opt.num_reps
  bad,     \* the unit of the file the decoder rejects
  rep,     \* repetitions of decode_jxl completed
  buf,     \* bytes left in input_buffer
  have,    \* bytes of the current unit the decoder holds
  stage,   \* which of the three retry loops runs
  frames,  \* image_data.frames.len()
  result,  \* "running", or how main ended
  out      \* what became of each output file main may write

vars == <<flen, nframes, xsize, num_reps, bad, rep, buf, have, stage, frames, result, out>>

StreamLen == InfoLen + nframes * (FHLen + PixLen)

\* The bytes the decoder needs to finish the unit its current state decodes.
UnitLen(s) ==
  CASE s = "info" -> InfoLen
    [] s = "frame_info" -> FHLen
    [] s = "pixels" -> PixLen

\* Bytes one process() call takes from input_buffer when the unit still
\* needs need more bytes: a buffering decoder takes all it can use; one
\* that parses whole units only takes a complete unit.
Takes(need) ==
  IF Buffers
  THEN IF buf < need THEN buf ELSE need
  ELSE IF buf >= need THEN need ELSE 0

\* The units in stream order: image info 0, then header 2i+1 and pixels
\* 2i+2 of frame i.
Unit == CASE stage = "info" -> 0
          [] stage = "frame_info" -> 2 * frames + 1
          [] stage = "pixels" -> 2 * frames + 2

\* Mutant: image_data carried over from the previous repetition.
FreshKeepFrames(n) ==
  /\ buf' = n /\ have' = 0 /\ stage' = "info" /\ UNCHANGED frames

\* decode_jxl starts: a fresh JxlDecoder over the whole file (lines 101-104).
Fresh(n) ==
  /\ buf' = n /\ have' = 0 /\ stage' = "info" /\ frames' = 0

\* Mutant: the loop stops one frame early.
HasMoreFramesEarly == frames + 2 < nframes

\* has_more_frames() after the frame just pushed (lines 201-203).
HasMoreFrames == frames + 1 < nframes

\* A unit is complete.  Image info leads to the frame loop; frame info to
\* allocating the output images (each Image::new may fail, and its ? ends
\* main with an error); pixels to planes_from_interleaved (may fail the
\* same way), the push, and has_more_frames.  After the last frame
\* decode_jxl returns Ok and main runs the next repetition.
Completed ==
  CASE stage = "info" ->
         stage' = "frame_info" /\ UNCHANGED <<rep, frames, result>>
    [] stage = "frame_info" ->
         \/ stage' = "pixels" /\ UNCHANGED <<rep, frames, result>>
         \/ AllocMayFail /\ result' = "error" /\ UNCHANGED <<rep, stage, frames>>
    [] stage = "pixels" ->
         \/ /\ HasMoreFrames
            /\ frames' = frames + 1 /\ stage' = "frame_info"
            /\ UNCHANGED <<rep, result>>
         \/ /\ ~HasMoreFrames
            /\ rep' = rep + 1
            /\ frames' = frames + 1 /\ stage' = "returned"
            /\ UNCHANGED result
         \/ AllocMayFail /\ result' = "error" /\ UNCHANGED <<rep, stage, frames>>

\* NeedsMoreInput after taking k bytes (lines 173-178): an empty buffer
\* ends decode_jxl with "Source file truncated" (main's ? returns it);
\* otherwise the loop calls process() again on the fallback.
OnNeedsMoreInput(k) ==
  IF buf - k = 0 THEN result' = "truncated" ELSE UNCHANGED result

\* One process() call of whichever retry loop runs (lines 107-117,
\* 140-151, 167-180).
Process ==
  /\ result = "running"
  /\ rep < num_reps
  /\ stage # "returned"
  /\ UNCHANGED <<flen, nframes, xsize, num_reps, bad, out>>
  /\ LET k == Takes(UnitLen(stage) - have) IN
     \/ /\ Unit # bad \/ buf = 0
        /\ k = UnitLen(stage) - have
        /\ buf' = buf - k /\ have' = 0
        /\ Completed
     \/ /\ Unit # bad \/ buf = 0
        /\ k < UnitLen(stage) - have
        /\ buf' = buf - k /\ have' = have + k
        /\ OnNeedsMoreInput(k)
        /\ UNCHANGED <<rep, stage, frames>>
     \/ /\ Unit = bad /\ buf > 0         \* .unwrap() of an Err
        /\ result' = "panic"
        /\ UNCHANGED <<rep, buf, have, stage, frames>>

\* decode_jxl returned Ok: the next repetition decodes the file again.
NextRep ==
  /\ result = "running"
  /\ stage = "returned"
  /\ rep < num_reps
  /\ Fresh(flen)
  /\ UNCHANGED <<flen, nframes, xsize, num_reps, bad, rep, result, out>>

\* The files main may write: --original-icc-out, --icc-out and the output
\* image; and the extensions save_image tells apart (lines 44-62).
Outputs == {"orig_icc", "icc", "image"}
Formats == {"exr", "ppm", "pgm", "npy", "png", "other"}
Fates == {"skipped", "written", "io_error", "encode_error", "unsupported"}

\* std::fs::write of a file (lines 19, 66).
Write == IF IoMayFail THEN {"written", "io_error"} ELSE {"written"}

\* Channels per frame (lines 187-197): grayscale keeps one buffer per
\* channel, colour splits the interleaved buffer into three planes.
Channels(gray, ec) == IF gray THEN 1 + ec ELSE 3 + ec

\* Mutant: the red and blue samples taken in swapped order.
PlanesSwapped(src) ==
  [c \in 1 .. 3 |-> [x \in 1 .. Len(src) \div 3 |-> src[3 * (x - 1) + 4 - c]]]

\* planes_from_interleaved (lines 210-234), on one row: plane c (red,
\* green, blue) has a third of the row's width, and its sample x is sample
\* 3x + c of the interleaved row (counting from 0).
Planes(src) ==
  [c \in 1 .. 3 |-> [x \in 1 .. Len(src) \div 3 |-> src[3 * (x - 1) + c]]]

\* save_image (lines 36-68): the external encoders for exr, npy and png may
\* fail; ppm and pgm only produce bytes for one frame of exactly three or
\* one channels; no bytes at all is "Output format not supported".
SaveImage(f, nch) ==
  CASE f \in {"exr", "npy", "png"} ->
         Write \cup (IF IoMayFail THEN {"encode_error"} ELSE {})
    [] f = "ppm" -> IF frames = 1 /\ nch = 3 THEN Write ELSE {"unsupported"}
    [] f = "pgm" -> IF frames = 1 /\ nch = 1 THEN Write ELSE {"unsupported"}
    [] f = "other" -> {"unsupported"}

\* What may become of output x when the paths in req were given.
Attempt(x, req, f, nch) ==
  IF x \notin req THEN {"skipped"}
  ELSE IF x = "image" THEN SaveImage(f, nch) ELSE Write

\* Lines 297-321 save every requested file whatever became of the others.
Outcomes(req, f, nch) ==
  LET A(x) == Attempt(x, req, f, nch)
  IN {[orig_icc |-> a, icc |-> b, image |-> c] :
        a \in A("orig_icc"), b \in A("icc"), c \in A("image")}

\* The repetition loop is over: image_data.unwrap() (line 272) panics when
\* it never ran; otherwise main writes the files asked for and returns the
\* first error of lines 323-326.  The speedtest report (273-295) only prints.
Finish ==
  /\ result = "running"
  /\ rep = num_reps
  /\ UNCHANGED <<flen, nframes, xsize, num_reps, bad, rep, buf, have, stage, frames>>
  /\ IF rep = 0
     THEN result' = "panic" /\ UNCHANGED out
     ELSE \E req \in SUBSET Outputs, f \in Formats, gray \in BOOLEAN,
             ec \in ExtraChannels :
          \E o \in Outcomes(req, f, Channels(gray, ec)) :
            /\ out' = o
            /\ result' = IF \A x \in Outputs : o[x] \in {"skipped", "written"}
                         THEN "ok" ELSE "error"

Done == result # "running" /\ UNCHANGED vars

Init ==
  /\ flen \in FileLens
  /\ nframes \in NumFramesOptions /\ xsize \in XSizes
  /\ num_reps \in NumRepsOptions
  /\ bad \in BadUnits
  /\ rep = 0
  /\ buf = flen /\ have = 0 /\ stage = "info" /\ frames = 0
  /\ result = "running"
  /\ out = [x \in Outputs |-> "none"]

Next == Process \/ NextRep \/ Finish \/ Done

\* main is one thread making synchronous calls.
Spec == Init /\ [][Next]_vars /\ WF_vars(Next)

\* The frame-level specification, with a panic counted as a failure
\* (NoPanic tells the two apart).
Abs == INSTANCE CliSpec WITH result <- IF result = "panic" THEN "error" ELSE result
-----------------------------------------------------------------------------
(* Properties.                                                             *)

\* The stages the decode goes through, and how main can end.
TypeOK ==
  /\ flen \in FileLens /\ num_reps \in NumRepsOptions /\ bad \in BadUnits /\ rep \in 0 .. num_reps
  /\ buf \in 0 .. flen /\ have \in 0 .. InfoLen + FHLen + PixLen
  /\ stage \in {"info", "frame_info", "pixels", "returned"}
  /\ nframes \in NumFramesOptions /\ xsize \in XSizes /\ frames \in 0 .. nframes
  /\ result \in {"running", "ok", "truncated", "error", "panic"}
  /\ out \in [Outputs -> Fates \cup {"none"}]

\* Every run of the tool ends: each retry loop stops once input_buffer is
\* empty, and the frame loop once has_more_frames is false.
Termination == <>(result # "running")

\* main attaches "Failed to decode image from" to decode_jxl's errors
\* (line 267) and spec section 7 has every decode failure surfaced to the
\* caller: no input or option should make the tool panic.
NoPanic == result # "panic"

\* planes_from_interleaved splits a row of interleaved red, green and blue
\* samples into three planes that, read pixel by pixel, give back exactly
\* the row: no sample is lost, repeated or given to the wrong channel.
\* Checked on a row of the image's width (3 * size.0 samples, line 153)
\* whose samples are all distinct.
PlanesFromInterleavedExact ==
  LET src == [i \in 1 .. 3 * xsize |-> i]
      p == Planes(src)
  IN /\ \A c \in 1 .. 3 : Len(p[c]) = xsize
     /\ FlattenSeq([x \in 1 .. xsize |-> <<p[1][x], p[2][x], p[3][x]>>]) = src

\* The byte-level retry loops, the frame loop and the repetitions implement
\* the frame-level promise: each repetition starts from the file's first
\* frame, frames are pushed only as the file holds them and one at a time,
\* truncation comes right after the last whole frame, and the run ends.
ImplementsCliSpec == Abs!ASpec
=============================================================================
