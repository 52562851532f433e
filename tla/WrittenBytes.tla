---------------------------- MODULE WrittenBytes ----------------------------
(***************************************************************************)
(* What the written-region recorder of demmt (src/demmt/region.c) promises *)
(* its callers: the set of byte offsets of one GPU object that the traced  *)
(* program, or a decoded command, has written.                             *)
(*                                                                         *)
(* A call of regions_add_range is open from the moment the range is handed *)
(* over until the call returns.  The range is recorded at some moment in   *)
(* between, nothing else is ever recorded or forgotten, and the call       *)
(* returns only when all of the range is recorded.  A caller that aborts   *)
(* on a 0 result leaves its call open for ever.                            *)
(***************************************************************************)
EXTENDS Integers

CONSTANTS
  Limit,    \* offsets are 0 .. Limit - 1 (uint32_t in the code)
  NoRange   \* no call is open

VARIABLES
  written,  \* the recorded offsets
  open      \* the range of the open call, or NoRange

bytesVars == << written, open >>

Ranges == { r \in [start : 0 .. Limit, len : 0 .. Limit] : r.start + r.len < Limit }

BytesOf(r) == r.start .. (r.start + r.len - 1)

Init ==
  /\ written = {}
  /\ open = NoRange

Call(r) ==
  /\ open = NoRange
  /\ open' = r
  /\ UNCHANGED written

Record ==
  /\ open # NoRange
  /\ written' = written \cup BytesOf(open)
  /\ UNCHANGED open

Return ==
  /\ open # NoRange
  /\ BytesOf(open) \subseteq written
  /\ open' = NoRange
  /\ UNCHANGED written

\* free_regions, when the object is destroyed.
Clear ==
  /\ open = NoRange
  /\ written' = {}
  /\ UNCHANGED open

Next ==
  \/ \E r \in Ranges : Call(r)
  \/ Record
  \/ Return
  \/ Clear

Spec == Init /\ [][Next]_bytesVars
=============================================================================
