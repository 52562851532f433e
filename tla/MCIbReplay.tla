----------------------------- MODULE MCIbReplay -----------------------------
(***************************************************************************)
(* Model checking IbReplay: a ring of two slots behind one that is not     *)
(* part of it, a pushbuffer of a few words on both sides of an address at  *)
(* which the low word of an entry starts again at 0.                        *)
(***************************************************************************)
EXTENDS IbReplay

W(t, n, y, s, m, l) ==
  [top |-> t, count |-> n, type |-> y, subc |-> s, mthd |-> m, low |-> l]

MCBuffer == [address |-> 6, length |-> 4]
MCMappings == {MCBuffer}

One == W(1, 0, 1, 1, 5, 0)   \* increasing, one parameter
Two == W(3, 0, 2, 0, 6, 0)   \* constant, two parameters
MCCommands == { << One, Two >>, << Two, One, Zero >>, << Zero >> }
MCWords == {Zero, One, Two}

NoDefault == [s \in 0..7 |-> Zero]
NoName == [h \in {} |-> Zero]
=============================================================================
