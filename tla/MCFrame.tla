------------------------------ MODULE MCFrame ------------------------------
(* Frame instantiated for TLC.  The header samples come from MCFrameHeader; *)
(* crops of 255 and 2304 pixels with one or two passes give TOCs of 1, 2+1 *)
(* and 2+2 entries.                                                        *)
EXTENDS Frame, MCFrameHeader

FrameSample ==
  [TocSample EXCEPT !.group_size_shift = {1}, !.jpeg_upsampling = {<<0, 0, 0>>},
                    !.num_passes = {1, 2}, !.width = {255, 2304}, !.height = {255}]

TocFieldSample == [permuted |-> BOOLEAN, entries |-> {0, 1024}]

\* read_headers (lines 498-505): TocNonserialized { num_entries: 0, .. }.
ReadHeadersEntries(r) == 0
=============================================================================
