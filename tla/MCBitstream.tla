----------------------------- MODULE MCBitstream -----------------------------
(***************************************************************************)
(* Model checking Bitstream with bytes of 4 bits and words of 8: the bytes *)
(* that have to be escaped, the stop bit, codes that end in zeros, the     *)
(* shortest and the longest codes of numbers, and the first numbers that   *)
(* are too large.                                                          *)
(***************************************************************************)
EXTENDS Bitstream, TLC

C(o, n, v) == [op |-> o, size |-> n, v |-> v]
Bits == { C("u", 4, 0), C("u", 4, 1), C("u", 1, 0), C("u", 1, 1) }
Vlc == { C("vlc", 0, 7), C("vlc", 0, 9) }

MCCalls ==
  ("H261" :> Bits \cup Vlc) @@ ("H263" :> Bits \cup Vlc)
  @@ ("H262" :> { C("u", 4, 0), C("u", 4, 1), C("u", 4, 2), C("u", 1, 0), C("u", 1, 1), C("vlc", 0, 9) })
  @@ ("H264" :> { C("u", 8, 0), C("u", 4, 1), C("u", 4, 8), C("align", 0, 1),
                  C("ue", 0, 0), C("ue", 0, 63), C("se", 0, 3), C("se", 0, -63),
                  C("ue", 0, 127), C("ue", 0, 255), C("se", 0, 64), C("se", 0, -128) })
MCType == DOMAIN MCCalls

MCCodes == << [val |-> 7, bits |-> << 0, 1 >>], [val |-> 8, bits |-> << 0, 0, 1 >>], [val |-> 6, bits |-> << 1, 1 >>],
              [val |-> 9, bits |-> << 1, 0 >>] >>
MCZeroRun == [H261 |-> 5, H263 |-> 6]
MCStartBits == [H261 |-> 2, H263 |-> 3]
MCMaxCalls == [H261 |-> 2, H263 |-> 2, H262 |-> 2, H264 |-> 3]
=============================================================================
