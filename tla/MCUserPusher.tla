---------------------------- MODULE MCUserPusher ----------------------------
(***************************************************************************)
(* Model checking UserPusher: any words in the memory, any values of       *)
(* DMA_PUT in, and between three mappings, one of them without a CPU        *)
(* mapping.                                                                *)
(***************************************************************************)
EXTENDS UserPusher

W(top, count, type, subc, mthd, low) ==
  [top |-> top, count |-> count, type |-> type, subc |-> subc, mthd |-> mthd, low |-> low]

H1 == W(0, 0, 0, 0, 20, 0)
MCWords == {
  Zero,
  W(0, 2, 0, 0, 5, 0),    \* two methods
  W(0, 0, 0, 0, 2, 1),    \* a jump to the start of the first mapping
  W(1, 1, 0, 0, 3, 0) }   \* an old jump

MCMappings == { [address |-> 2, length |-> 2, known |-> TRUE],
                [address |-> 8, length |-> 1, known |-> TRUE],
                [address |-> 6, length |-> 1, known |-> FALSE] }
MCValues == {2, 3, 4, 6, 8}
NoDefault == [s \in 0..7 |-> Zero]
MCCreated == {H1}
MCNameOf == [h \in {H1} |-> W(0, 0, 0, 0, 22, 0)]
=============================================================================
