-------------------------------- MODULE Toc --------------------------------
(***************************************************************************)
(* Toc::read_unconditional (frame_header.rs lines 223-244): the            *)
(* permutation flag, the (empty) Permutation record under it, and          *)
(* nonserialized.num_entries byte sizes.  num_entries is a VARIABLE so    *)
(* that a composing module can wire it to a state expression.              *)
(***************************************************************************)
EXTENDS Naturals, U32Coder

CONSTANTS Sample, Unset, Decoded, Default
VARIABLES toc, tphase, status, num_entries

ASSUME /\ Sample["permuted"] \subseteq BOOLEAN
       /\ Sample["entries"] \subseteq Values(TocEntryCoder)

LOCAL E == INSTANCE RecordEngine WITH rec <- toc, phase <- tphase

TocStart == [permuted |-> Unset, permutation |-> Unset, entries |-> Unset]

\* #[default(false)] permuted: bool.
permuted == E!Field("permuted", TRUE, FALSE, BOOLEAN, "permutation")

\* #[condition(permuted)] permutation: Permutation.  struct Permutation {}
\* reads no bits, so it cannot starve the cursor.
permutation ==
  /\ E!Decoding
  /\ tphase = "permutation"
  /\ toc' = [toc EXCEPT !.permutation = IF toc.permuted THEN Decoded ELSE Default]
  /\ tphase' = "entries"
  /\ UNCHANGED status

\* #[size_coder(explicit(nonserialized.num_entries))] entries: Vec<u32>.
entries == E!Vector("entries", TRUE, num_entries, <<>>, "done")

\* The walk has passed the last field: read_unconditional returns the Toc.
finish ==
  /\ E!Decoding
  /\ tphase = "done"
  /\ status' = "ok"
  /\ UNCHANGED <<toc, tphase>>

Step == (permuted \/ permutation \/ entries \/ finish) /\ UNCHANGED num_entries
=============================================================================
