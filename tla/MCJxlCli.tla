------------------------------ MODULE MCJxlCli ------------------------------
(* JxlCli for TLC: a stream of 2 bytes of image info and 1 to 3 frames of *)
(* a 1-byte header and 2 pixel bytes, read from files of every length from *)
(* empty to one byte past the stream, so truncation falls in each unit, at *)
(* its first byte and inside it.                                           *)
EXTENDS JxlCli

\* cli_panic: the 2-frame, 8-byte stream.
AllFileLens == 0 .. 9
\* cli_decode: a 3-frame, 11-byte stream, from the empty file to one byte
\* past it.
BigFileLens == 0 .. 12
=============================================================================
