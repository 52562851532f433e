--------------------------- MODULE MCCpuMappings ---------------------------
(***************************************************************************)
(* Model checking CpuMappings: two objects, three mappings, three regions  *)
(* at two addresses.                                                       *)
(***************************************************************************)
EXTENDS CpuMappings, TLC

MCId == 1..3
MCAddr == {10, 11}
MCOffset == {0, 20}
MCTag == {30}

Addresses == Permutations(Object) \cup Permutations(Mapping)
=============================================================================
