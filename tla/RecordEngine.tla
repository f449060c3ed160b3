---------------------------- MODULE RecordEngine ----------------------------
(***************************************************************************)
(* The conditional-record rule every #[derive(UnconditionalCoder)] struct  *)
(* follows (spec section 4.2).  The derive macro that generates it is      *)
(* outside src, so this module is modelled from the spec; each record      *)
(* module instantiates it with its own record and phase variables, and the *)
(* conditions, defaults and coders it passes in are the attributes of the  *)
(* struct in src.                                                          *)
(*                                                                         *)
(* phase is the field the walk is at; status is shared by the whole decode *)
(* call and leaves "decoding" exactly once.  Sample[f] is the set of       *)
(* values the stream may carry for field f in this model: a subset of     *)
(* what f's coder can produce, chosen per run.                             *)
(***************************************************************************)
EXTENDS Naturals
CONSTANTS
  Sample,   \* field name -> values the stream may carry there
  Unset,    \* model value: a field the walk has not reached
  Decoded,  \* model value: a value read for a field no property inspects
  Default   \* model value: that field's #[default]
VARIABLES rec, phase, status

Decoding == status = "decoding"

\* The bit cursor runs dry inside a read: the whole decode aborts with a
\* truncation error and no partial record is returned.
Starve ==
  /\ status' = "Truncated"
  /\ UNCHANGED <<rec, phase>>

\* A present field decodes to v.  Codes outside Valid are a tag that maps
\* to no variant: a decode failure, never a default.
ReadAs(f, v, Valid, nxt) ==
  IF v \in Valid
  THEN /\ rec' = [rec EXCEPT ![f] = v]
       /\ phase' = nxt
       /\ UNCHANGED status
  ELSE /\ status' = "InvalidTag"
       /\ UNCHANGED <<rec, phase>>

\* Field f at the walk: when its condition holds it is read with its
\* coder (or the stream starves), otherwise it takes its default.
Field(f, present, dflt, Valid, nxt) ==
  /\ Decoding
  /\ phase = f
  /\ \/ present /\ \E v \in Sample[f] : ReadAs(f, v, Valid, nxt)
     \/ present /\ Starve
     \/ /\ ~present
        /\ rec' = [rec EXCEPT ![f] = dflt]
        /\ phase' = nxt
        /\ UNCHANGED status

\* A Vec field with #[size_coder(explicit(n))]: when present exactly n
\* elements are read with the element coder (any of them may starve the
\* cursor, none can when n = 0); when absent it takes dflt.
Vector(f, present, n, dflt, nxt) ==
  /\ Decoding
  /\ phase = f
  /\ \/ /\ present
        /\ \E s \in [1 .. n -> Sample[f]] :
             /\ rec' = [rec EXCEPT ![f] = s]
             /\ phase' = nxt
             /\ UNCHANGED status
     \/ present /\ n > 0 /\ Starve
     \/ /\ ~present
        /\ rec' = [rec EXCEPT ![f] = dflt]
        /\ phase' = nxt
        /\ UNCHANGED status

\* An #[all_default] field: one bit; when set, every other field takes its
\* default (Defaults) and the walk skips to the end of the record.
Shortcut(f, Defaults, nxt, last) ==
  /\ Decoding
  /\ phase = f
  /\ \E v \in Sample[f] :
       /\ rec' = IF v THEN Defaults ELSE [rec EXCEPT ![f] = FALSE]
       /\ phase' = IF v THEN last ELSE nxt
       /\ UNCHANGED status
     \/ Starve
=============================================================================
