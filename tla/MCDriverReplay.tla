--------------------------- MODULE MCDriverReplay ---------------------------
(***************************************************************************)
(* Model checking DriverReplay: a buffer of a few words, commands of one   *)
(* and two parameters, and parameters that read as jumps and commands.     *)
(***************************************************************************)
EXTENDS DriverReplay

W(top, count, type, subc, mthd, low) ==
  [top |-> top, count |-> count, type |-> type, subc |-> subc, mthd |-> mthd, low |-> low]

MCBuffer == [address |-> 2, length |-> 9, known |-> TRUE]
MCMappings == {MCBuffer, [address |-> 20, length |-> 1, known |-> FALSE]}

MCJumpBack == W(0, 0, 0, 0, 2, 1)
One == W(0, 1, 0, 1, 5, 0)    \* increasing, one parameter
Two == W(2, 2, 0, 0, 6, 0)    \* constant, two parameters
MCCommands == { << One, MCJumpBack >>, << Two, One, Zero >>, << Zero >> }
MCWords == {Zero, One, Two, MCJumpBack}

NoDefault == [s \in 0..7 |-> Zero]
NoName == [h \in {} |-> Zero]
=============================================================================
