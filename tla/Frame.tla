------------------------------- MODULE Frame -------------------------------
(***************************************************************************)
(* A frame's headers as read_headers reads them (frame_header.rs lines     *)
(* 474-508): FrameHeader::read_unconditional, unwrapped, then              *)
(* Toc::read_unconditional on the same cursor with a TocNonserialized      *)
(* whose num_entries the caller chooses.  TocEntriesFor is that choice:   *)
(* the spec (section 5) feeds the header's derived num_toc_entries         *)
(* forward; read_headers passes 0.                                         *)
(*                                                                         *)
(* tstatus is the TOC call's result: "idle" until the header call has      *)
(* returned a header, then as status is for the header.                   *)
(***************************************************************************)
EXTENDS FrameHeader

CONSTANTS
  TocFields,         \* Sample for the TOC's fields
  TocEntriesFor(_)   \* header -> TocNonserialized.num_entries

VARIABLES toc, tphase, tstatus, num_entries

tocvars == <<toc, tphase, tstatus, num_entries>>
fvars == <<vars, tocvars>>

T == INSTANCE Toc
       WITH Sample <- TocFields, status <- tstatus

FInit ==
  /\ Init
  /\ toc = T!TocStart /\ tphase = "permuted" /\ tstatus = "idle"
  /\ num_entries = 0

HeaderStep == Decode /\ UNCHANGED tocvars

\* The header call returned Ok: its .unwrap() passes, the caller builds
\* the TocNonserialized and the TOC call starts where the header's
\* aligned end left the cursor.  An Err panics
\* in the unwrap and no TOC is read.
StartToc ==
  /\ status = "ok"
  /\ tstatus = "idle"
  /\ tstatus' = "decoding"
  /\ num_entries' = TocEntriesFor(fh)
  /\ UNCHANGED <<vars, toc, tphase>>

TocStep == T!Step /\ UNCHANGED vars

\* Both calls have returned (or the header's error ended the test).
Finished ==
  /\ status \notin {"decoding", "ok"} \/ tstatus \notin {"idle", "decoding"}
  /\ UNCHANGED fvars

FNext == HeaderStep \/ StartToc \/ TocStep \/ Finished

\* Reading headers is a sequence of synchronous calls.
FSpec == FInit /\ [][FNext]_fvars /\ WF_fvars(FNext)
-----------------------------------------------------------------------------
(* Properties.                                                             *)

\* Spec sections 4.3 and 5: the TOC that follows a header has exactly the
\* number of entries the header's num_toc_entries derives, since the group
\* decoder locates group i by entry i.
TocLengthMatchesHeader ==
  tstatus = "ok" => Len(toc.entries) = num_toc_entries(fh)

=============================================================================
