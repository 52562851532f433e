---------------------------- MODULE MCRegionList ----------------------------
(* Model checking RegionList.  Ranges of at least one byte that do not      *)
(* touch take two offsets each, so Limit \div 2 + 1 list nodes are enough   *)
(* for malloc to have one free whenever it is called.                       *)
EXTENDS RegionList

MCStarts == 0 .. Limit - 1
MCLens == 0 .. Limit - 1
=============================================================================
