------------------------------- MODULE CliSpec -------------------------------
(***************************************************************************)
(* What the command-line tool promises, frame by frame (spec.md section 6, *)
(* and main's and decode_jxl's contract in src/jxl_cli/src/main.rs): each  *)
(* of the --num-reps repetitions decodes the file from its start and       *)
(* pushes the frames the file holds one at a time; a file shorter than the *)
(* stream ends in "Source file truncated" right after its last whole       *)
(* frame; Ok comes only after every repetition decoded every frame.  Any   *)
(* step may instead fail.  JxlCli implements it (ImplementsCliSpec), with  *)
(* the byte-level retries as stuttering steps.                             *)
(***************************************************************************)
EXTENDS Naturals

CONSTANTS FileLens, NumRepsOptions, InfoLen, FHLen, PixLen, NumFramesOptions

VARIABLES flen, nframes, num_reps, rep, frames, result

avars == <<flen, nframes, num_reps, rep, frames, result>>

\* Frames wholly contained in the first n bytes of the stream.
FramesIn(n) ==
  IF n < InfoLen THEN 0
  ELSE LET f == (n - InfoLen) \div (FHLen + PixLen)
       IN IF f < nframes THEN f ELSE nframes

AInit ==
  /\ flen \in FileLens /\ nframes \in NumFramesOptions /\ num_reps \in NumRepsOptions
  /\ rep = 0 /\ frames = 0 /\ result = "running"

\* A frame the file holds is decoded and pushed; the last one completes the
\* repetition.
Push ==
  /\ result = "running" /\ rep < num_reps
  /\ frames < FramesIn(flen)
  /\ frames' = frames + 1
  /\ rep' = IF frames + 1 = nframes THEN rep + 1 ELSE rep
  /\ UNCHANGED <<flen, nframes, num_reps, result>>

\* The next repetition decodes the file again from its first frame.
Restart ==
  /\ result = "running" /\ rep < num_reps
  /\ frames = nframes
  /\ frames' = 0
  /\ UNCHANGED <<flen, nframes, num_reps, rep, result>>

\* The file ends before the next frame.
Truncate ==
  /\ result = "running" /\ rep < num_reps
  /\ frames = FramesIn(flen) /\ frames < nframes
  /\ result' = "truncated"
  /\ UNCHANGED <<flen, nframes, num_reps, rep, frames>>

\* Every repetition decoded the whole stream.
Succeed ==
  /\ result = "running" /\ rep = num_reps /\ rep > 0
  /\ result' = "ok"
  /\ UNCHANGED <<flen, nframes, num_reps, rep, frames>>

\* A decode, allocation or write error at any point.
Fail ==
  /\ result = "running"
  /\ result' = "error"
  /\ UNCHANGED <<flen, nframes, num_reps, rep, frames>>

ANext == Push \/ Restart \/ Truncate \/ Succeed \/ Fail

ASpec == AInit /\ [][ANext]_avars /\ WF_avars(ANext)
==============================================================================
