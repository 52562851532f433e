----------------------------- MODULE CabacProofs -----------------------------
(***************************************************************************)
(* Proofs about Cabac, for all contexts, all tables whose entries leave    *)
(* something of every range, and any number of bins.  What makes the first *)
(* theorems go through is a bound on the sum of low and range: 1024, and   *)
(* 512 as long as no bit is known: a bin makes the interval smaller, and a *)
(* round of the renorm loop doubles it and takes off what it wrote.        *)
(*                                                                         *)
(* For the round trip the interval is read as what it means: a stream is   *)
(* possible when its bits, taken from where the encoder is, are inside.    *)
(* Every stream that is possible after a step was so before, and a decoder *)
(* of it takes the same step; the last bits leave only streams that are.   *)
(* So when the slice is sent there is a whole script for the decoder, and  *)
(* what is left is that the decoder follows it.                            *)
(***************************************************************************)
EXTENDS Cabac, TLAPS

(* The encoder's interval, by the place it is at. *)
Interval ==
  /\ pc = "bin" => range \in 256 .. 510
  /\ pc = "renorm" => range \in 1 .. 255
  /\ pc = "flush" => range \in 256 .. 510
  /\ pc \in {"bin", "renorm", "flush"} => low + range <= 1024
  /\ pc \in {"bin", "renorm", "flush"} /\ first = 1 => low + range <= 512

AtByte == pc = "init" => Len(out) % 8 = 0
ReadWritten == pos <= Len(out)

(* The decoder's. *)
Below ==
  /\ dpc = "bin" => drange \in 256 .. 510 /\ offset < drange
  /\ dpc = "renorm" => drange \in 1 .. 255 /\ offset < drange

EncType ==
  /\ range \in Nat /\ low \in Nat /\ first \in Bit /\ outstanding \in Nat
  /\ ectx \in [Ctx -> Context]
  /\ pc \in {"init", "bin", "renorm", "flush", "ended", "sent", "failed"}
  /\ bins \in Seq([kind : Kind, bin : Bit]) /\ out \in Seq(Bit) /\ damaged \in BOOLEAN

DecType ==
  /\ drange \in Nat /\ offset \in Nat
  /\ dctx \in [Ctx -> Context]
  /\ dpc \in {"off", "init", "bin", "renorm", "ended", "done", "failed"}
  /\ pos \in Nat /\ got \in Seq([kind : Kind, bin : Bit])

EncOK == EncType /\ EncoderNeverFails /\ Interval /\ AtByte
DecOK == DecType /\ Below
IInv == EncOK /\ DecOK /\ ReadWritten

-----------------------------------------------------------------------------
(* Lemmas about the operators.                                              *)

(* A part of the range is left on both sides, whatever the context. *)
LEMMA LpsInside ==
  ASSUME NEW s \in Context, NEW r \in 256 .. 510
  PROVE  LPS(s, r) \in 1 .. r - 1
<1> DEFINE q == (r \div 64) % 4
<1>1. q \in 0..3 /\ 255 + 64 * q <= r - 1
  OBVIOUS
<1>2. s.p \in State
  BY DEF Context
<1>3. rangeTabLPS[s.p][q] \in 1 .. 255 + 64 * q
  BY <1>1, <1>2, TableAssumption
<1> QED BY <1>1, <1>3 DEF LPS

(* A context stays one. *)
LEMMA LearnType ==
  ASSUME NEW s \in Context, NEW b \in Bit
  PROVE  Learn(s, b) \in Context
<1>1. s.p \in State /\ s.mps \in Bit
  BY DEF Context
<1>2. transIdxMPS[s.p] \in State /\ transIdxLPS[s.p] \in State
  BY <1>1, TableAssumption
<1> QED BY <1>1, <1>2 DEF Learn, Context, Bit

LEMMA LearnedType ==
  ASSUME NEW f \in [Ctx -> Context], NEW c \in Ctx, NEW b \in Bit
  PROVE  [f EXCEPT ![c] = Learn(@, b)] \in [Ctx -> Context]
BY LearnType

(* h264_cabac_init: any slope, offset and quantiser give a context. *)
LEMMA InitCtxType ==
  ASSUME NEW c \in Ctx, NEW qp \in SliceQp
  PROVE  InitCtx(c, qp) \in Context
<1> DEFINE pre == Clip3(1, 126, (CtxInit[c].m * Clip3(0, 51, qp)) \div 16 + CtxInit[c].n)
<1>1. (CtxInit[c].m * Clip3(0, 51, qp)) \div 16 + CtxInit[c].n \in Int
  <2>1. CtxInit[c].m \in Int /\ CtxInit[c].n \in Int /\ qp \in Int
    BY CtxAssumption
  <2>2. Clip3(0, 51, qp) \in Int
    BY <2>1 DEF Clip3
  <2>3. CtxInit[c].m * Clip3(0, 51, qp) \in Int
    BY <2>1, <2>2
  <2> QED BY <2>1, <2>3
<1>2. pre \in 1 .. 126
  BY <1>1 DEF Clip3
<1> HIDE DEF pre
<1>3. IF pre <= 63 THEN [p |-> 63 - pre, mps |-> 0] \in Context
                   ELSE [p |-> pre - 64, mps |-> 1] \in Context
  BY <1>2 DEF Context, State, Bit
<1> QED BY <1>3 DEF InitCtx, pre

LEMMA TimesType ==
  ASSUME NEW n \in Nat, NEW b \in Bit
  PROVE  Times(n, b) \in Seq(Bit) /\ Len(Times(n, b)) = n
BY DEF Times

(* Padding ends at a byte boundary. *)
LEMMA AlignedType ==
  ASSUME NEW s \in Seq(Bit)
  PROVE  /\ Aligned(s) \in Seq(Bit) /\ Len(Aligned(s)) >= Len(s)
         /\ Len(Aligned(s)) % 8 = 0
         /\ \A i \in DOMAIN s : i \in DOMAIN Aligned(s)
<1>1. Pad(Len(s)) \in Nat /\ (Len(s) + Pad(Len(s))) % 8 = 0
  BY DEF Pad, ByteBits
<1>2. Times(Pad(Len(s)), 0) \in Seq(Bit) /\ Len(Times(Pad(Len(s)), 0)) = Pad(Len(s))
  BY <1>1, TimesType DEF Bit
<1> QED BY <1>1, <1>2 DEF Aligned

-----------------------------------------------------------------------------
(* The encoder.                                                             *)

LEMMA ZeroOne == 0 \in Bit /\ 1 \in Bit /\ \A b \in Bit : b # 1 => b = 0
BY DEF Bit

LEMMA Initially == Init => IInv
<1> SUFFICES ASSUME Init PROVE IInv
  OBVIOUS
<1>1. PICK qp \in SliceQp : ectx = [c \in Ctx |-> InitCtx(c, qp)]
  BY DEF Init
<1>2. ectx \in [Ctx -> Context] /\ dctx \in [Ctx -> Context]
  BY <1>1, InitCtxType DEF Init
<1>3. EncOK
  <2>1. EncType
    <3>1. bins \in Seq([kind : Kind, bin : Bit]) /\ out \in Seq(Bit)
      BY DEF Init
    <3>2. range \in Nat /\ low \in Nat /\ first \in Bit /\ outstanding \in Nat
      BY DEF Init, Bit
    <3> QED BY <1>2, <3>1, <3>2 DEF Init, EncType
  <2>2. AtByte
    BY DEF Init, AtByte
  <2> QED BY <2>1, <2>2 DEF Init, EncOK, EncoderNeverFails, Interval
<1>4. DecOK
  BY <1>2 DEF Init, DecOK, DecType, Below
<1>5. ReadWritten
  BY DEF Init, ReadWritten
<1> QED BY <1>3, <1>4, <1>5 DEF IInv

(* A step of the encoder that writes no less than was written keeps what is *)
(* true of the decoder.                                                     *)
LEMMA DecoderIdle ==
  ASSUME DecOK, ReadWritten, UNCHANGED decoder, out \in Seq(Bit), out' \in Seq(Bit),
         Len(out') >= Len(out)
  PROVE  DecOK' /\ ReadWritten'
<1>1. DecOK'
  BY DEF DecOK, DecType, Below, decoder
<1>2. ReadWritten'
  BY DEF ReadWritten, DecOK, DecType, decoder
<1> QED BY <1>1, <1>2

LEMMA InitArithKeeps == ASSUME IInv, InitArith PROVE IInv'
<1> USE DEF IInv, EncOK
<1>1. pc = "init" /\ Len(out) % ByteBits = 0
  BY DEF InitArith, AtByte, ByteBits
<1>2. range' = 510 /\ low' = 0 /\ first' = 1 /\ outstanding' = 0 /\ pc' = "bin"
  BY <1>1 DEF InitArith
<1>3. EncType'
  BY <1>2, ZeroOne DEF InitArith, EncType
<1>4. EncoderNeverFails' /\ Interval' /\ AtByte'
  BY <1>2 DEF EncoderNeverFails, Interval, AtByte
<1>5. DecOK' /\ ReadWritten'
  BY <1>3, DecoderIdle DEF InitArith, EncType
<1> QED BY <1>3, <1>4, <1>5

LEMMA Longer ==
  ASSUME NEW s \in Seq(Bit), NEW t \in Seq(Bit), NEW u \in Seq(Bit)
  PROVE  s \o t \o u \in Seq(Bit) /\ Len(s \o t \o u) >= Len(s)
OBVIOUS

LEMMA PutBitType ==
  ASSUME EncType, NEW b \in Bit, PutBit(b), first = 1 => b = 0
  PROVE  /\ first' = 0 /\ outstanding' \in Nat
         /\ out' \in Seq(Bit) /\ Len(out') >= Len(out)
<1>1. /\ out' = out \o (IF first = 1 THEN << >> ELSE << b >>) \o Times(outstanding, 1 - b)
      /\ first' = 0 /\ outstanding' = 0
  BY DEF PutBit
<1>2. Times(outstanding, 1 - b) \in Seq(Bit)
  BY TimesType DEF EncType, Bit
<1>3. (IF first = 1 THEN << >> ELSE << b >>) \in Seq(Bit)
  OBVIOUS
<1>4. out \in Seq(Bit)
  BY DEF EncType
<1> QED BY <1>1, <1>2, <1>3, <1>4, Longer

(* Where the code goes on after the range was changed. *)
LEMMA AfterPlace ==
  ASSUME NEW r \in 1 .. 510, NEW s
  PROVE  /\ After(r, s) \in {"bin", "renorm", "flush"}
         /\ After(r, s) = "renorm" => r \in 1 .. 255
         /\ After(r, s) \in {"bin", "flush"} => r \in 256 .. 510
BY DEF After

LEMMA RenormKeeps == ASSUME IInv, Renorm PROVE IInv'
<1> USE DEF IInv, EncOK
<1>1. range \in 1 .. 255 /\ low + range <= 1024 /\ (first = 1 => low + range <= 512) /\ low \in Nat
  BY DEF Renorm, Interval, EncType
<1>2. range' = 2 * range /\ 2 * range \in 1 .. 510
  BY <1>1 DEF Renorm
<1> DEFINE next == After(2 * range, bins)
<1>3. /\ next \in {"bin", "renorm", "flush"}
      /\ next = "renorm" => 2 * range \in 1 .. 255
      /\ next \in {"bin", "flush"} => 2 * range \in 256 .. 510
  BY <1>2, AfterPlace
<1>4. Shift(2 * low, next)
  BY DEF Renorm
<1> HIDE DEF next
<1> DEFINE l == 2 * low
           r == 2 * range
<1>5. l \in Nat /\ r \in 1 .. 511 /\ l + r <= 2048 /\ (first = 1 => l + r <= 1024)
  BY <1>1
<1>6. Shift(l, next)
  BY <1>4
<1> HIDE DEF l, r
<1>7. /\ pc' = next /\ first' \in Bit /\ outstanding' \in Nat
      /\ out' \in Seq(Bit) /\ Len(out') >= Len(out)
      /\ \E m \in Nat : low' = m /\ m + r <= 1024 /\ (first' = 1 => m + r <= 512)
  <2>1. /\ l < 512 => l + r <= 1024
        /\ l >= 1024 => first = 0 /\ l - 1024 \in Nat /\ (l - 1024) + r <= 1024
        /\ l >= 512 /\ l < 1024 =>
             /\ l - 512 \in Nat /\ (l - 512) + r <= 1024
             /\ first = 1 => (l - 512) + r <= 512
    <3>1. first \in Bit
      BY DEF EncType
    <3> HIDE DEF IInv, EncOK
    <3> QED BY <1>5, <3>1 DEF Bit
  <2>2. CASE l < 512 /\ low' = l /\ pc' = next /\ PutBit(0)
    <3>1. /\ first' = 0 /\ outstanding' \in Nat
          /\ out' \in Seq(Bit) /\ Len(out') >= Len(out)
      BY <2>2, PutBitType, ZeroOne
    <3> QED BY <1>5, <2>1, <2>2, <3>1, ZeroOne
  <2>3. CASE /\ l >= 1024 /\ low' = l - 1024
             /\ (first = 0 => pc' = next) /\ PutBit(1)
    <3>1. first = 0 /\ pc' = next
      BY <2>1, <2>3
    <3>2. /\ first' = 0 /\ outstanding' \in Nat
          /\ out' \in Seq(Bit) /\ Len(out') >= Len(out)
      BY <2>3, <3>1, PutBitType, ZeroOne
    <3> QED BY <1>5, <2>1, <2>3, <3>1, <3>2, ZeroOne
  <2>4. CASE /\ 512 <= l /\ l < 1024 /\ low' = l - 512 /\ pc' = next
             /\ outstanding' = outstanding + 1 /\ UNCHANGED << first, out >>
    <3>1. first' = first /\ outstanding' \in Nat /\ out' \in Seq(Bit) /\ Len(out') >= Len(out)
      BY <2>4 DEF EncType
    <3> QED BY <1>5, <2>1, <2>4, <3>1 DEF EncType
  <2> QED BY <1>6, <2>2, <2>3, <2>4 DEF Shift
<1>8. EncType'
  BY <1>2, <1>3, <1>7 DEF Renorm, EncType
<1>9. EncoderNeverFails' /\ Interval' /\ AtByte'
  <2>1. PICK m \in Nat :
          low' = m /\ m + r <= 1024 /\ (first' = 1 => m + r <= 512)
    BY <1>7
  <2>2. /\ r \in 1 .. 510 /\ range' = r
        /\ pc' \in {"bin", "renorm", "flush"}
        /\ pc' = "renorm" => r \in 1 .. 255
        /\ pc' \in {"bin", "flush"} => r \in 256 .. 510
        /\ low' = m /\ m + r <= 1024 /\ (first' = 1 => m + r <= 512)
    BY <1>2, <1>3, <1>7, <2>1 DEF r
  <2> HIDE DEF IInv, EncOK
  <2>3. EncoderNeverFails' /\ AtByte'
    BY <2>2 DEF EncoderNeverFails, AtByte
  <2>4. Interval'
    BY <2>2 DEF Interval
  <2> QED BY <2>3, <2>4
<1>10. DecOK' /\ ReadWritten'
  BY <1>7, DecoderIdle DEF Renorm, EncType
<1> QED BY <1>8, <1>9, <1>10

LEMMA EncodeType ==
  ASSUME EncType, NEW k \in Kind, NEW b \in Bit, Encode(k, b)
  PROVE  pc = "bin" /\ bins' \in Seq([kind : Kind, bin : Bit])
BY DEF Encode, EncType

LEMMA DecisionKeeps == ASSUME IInv, NEW c \in Ctx, NEW b \in Bit, Decision(c, b) PROVE IInv'
<1> USE DEF IInv, EncOK
<1> DEFINE lps == LPS(ectx[c], range)
<1>1. pc = "bin" /\ bins' \in Seq([kind : Kind, bin : Bit])
  BY EncodeType DEF Decision, Kind
<1>2. range \in 256 .. 510 /\ low + range <= 1024 /\ (first = 1 => low + range <= 512) /\ low \in Nat
  BY <1>1 DEF Interval, EncType
<1>3. lps \in 1 .. range - 1
  <2>1. ectx[c] \in Context
    BY DEF EncType
  <2> QED BY <1>2, <2>1, LpsInside
<1>4. IF b = ectx[c].mps
      THEN range' = range - lps /\ low' = low
      ELSE range' = lps /\ low' = low + (range - lps)
  BY DEF Decision
<1> HIDE DEF lps
<1>5. PICK m \in Nat, r \in 1 .. 510 : low' = m /\ range' = r /\ m + r <= low + range
  <2>1. CASE b = ectx[c].mps
    <3>1. range - lps \in 1 .. 510 /\ low + (range - lps) <= low + range
      BY <1>2, <1>3
    <3> QED BY <1>2, <1>4, <2>1, <3>1
  <2>2. CASE b # ectx[c].mps
    <3>1. /\ lps \in 1 .. 510 /\ low + (range - lps) \in Nat
          /\ (low + (range - lps)) + lps <= low + range
      BY <1>2, <1>3
    <3> QED BY <1>4, <2>2, <3>1
  <2> QED BY <2>1, <2>2
<1>6. /\ pc' \in {"bin", "renorm", "flush"}
      /\ pc' = "renorm" => r \in 1 .. 255
      /\ pc' \in {"bin", "flush"} => r \in 256 .. 510
  <2>1. pc' = After(r, bins')
    BY <1>5 DEF Decision
  <2> QED BY <2>1, AfterPlace
<1>7. ectx' \in [Ctx -> Context]
  BY LearnedType DEF Decision, EncType
<1>8. UNCHANGED << first, outstanding, out, damaged, decoder >>
  BY DEF Decision
<1>9. EncType'
  BY <1>1, <1>5, <1>6, <1>7, <1>8 DEF EncType
<1>10. EncoderNeverFails' /\ Interval' /\ AtByte'
  <2>1. m + r <= 1024 /\ (first = 1 => m + r <= 512)
    BY <1>2, <1>5
  <2> HIDE DEF IInv, EncOK
  <2>2. EncoderNeverFails' /\ AtByte'
    BY <1>5, <1>6, <1>8, <2>1 DEF EncoderNeverFails, AtByte
  <2>3. Interval'
    BY <1>5, <1>6, <1>8, <2>1 DEF Interval
  <2> QED BY <2>2, <2>3
<1>11. DecOK' /\ ReadWritten'
  BY <1>8, DecoderIdle DEF EncType
<1> QED BY <1>9, <1>10, <1>11

LEMMA BypassKeeps == ASSUME IInv, NEW b \in Bit, Bypass(b) PROVE IInv'
<1> USE DEF IInv, EncOK
<1>1. pc = "bin" /\ bins' \in Seq([kind : Kind, bin : Bit])
  BY EncodeType DEF Bypass, Kind
<1>2. range \in 256 .. 510 /\ low + range <= 1024 /\ (first = 1 => low + range <= 512) /\ low \in Nat
  BY <1>1 DEF Interval, EncType
<1>3. b * range \in {0, range}
  BY <1>2 DEF Bit
<1> DEFINE l == 2 * low + b * range
<1>4. l \in Nat /\ l + range <= 2048 /\ (first = 1 => l + range <= 1024)
  BY <1>2, <1>3
<1>5. Shift(l, "bin")
  BY DEF Bypass
<1> HIDE DEF l
<1>6. /\ pc' = "bin" /\ first' \in Bit /\ outstanding' \in Nat
      /\ out' \in Seq(Bit) /\ Len(out') >= Len(out)
      /\ \E m \in Nat : low' = m /\ m + range <= 1024 /\ (first' = 1 => m + range <= 512)
  <2>1. /\ l < 512 => l + range <= 1024
        /\ l >= 1024 => first = 0 /\ l - 1024 \in Nat /\ (l - 1024) + range <= 1024
        /\ l >= 512 /\ l < 1024 =>
             /\ l - 512 \in Nat /\ (l - 512) + range <= 1024
             /\ first = 1 => (l - 512) + range <= 512
    <3>1. first \in Bit /\ range \in 1 .. 511
      BY <1>2 DEF EncType
    <3> HIDE DEF IInv, EncOK
    <3> QED BY <1>4, <3>1 DEF Bit
  <2>2. CASE l < 512 /\ low' = l /\ pc' = "bin" /\ PutBit(0)
    <3>1. /\ first' = 0 /\ outstanding' \in Nat
          /\ out' \in Seq(Bit) /\ Len(out') >= Len(out)
      BY <2>2, PutBitType, ZeroOne
    <3> QED BY <1>2, <1>4, <2>1, <2>2, <3>1, ZeroOne
  <2>3. CASE /\ l >= 1024 /\ low' = l - 1024
             /\ (first = 0 => pc' = "bin") /\ PutBit(1)
    <3>1. first = 0 /\ pc' = "bin"
      BY <2>1, <2>3
    <3>2. /\ first' = 0 /\ outstanding' \in Nat
          /\ out' \in Seq(Bit) /\ Len(out') >= Len(out)
      BY <2>3, <3>1, PutBitType, ZeroOne
    <3> QED BY <1>2, <1>4, <2>1, <2>3, <3>1, <3>2, ZeroOne
  <2>4. CASE /\ 512 <= l /\ l < 1024 /\ low' = l - 512 /\ pc' = "bin"
             /\ outstanding' = outstanding + 1 /\ UNCHANGED << first, out >>
    <3>1. first' = first /\ outstanding' \in Nat /\ out' \in Seq(Bit) /\ Len(out') >= Len(out)
      BY <2>4 DEF EncType
    <3> QED BY <1>2, <1>4, <2>1, <2>4, <3>1 DEF EncType
  <2> QED BY <1>5, <2>2, <2>3, <2>4 DEF Shift
<1>7. UNCHANGED << range, ectx, damaged, decoder >>
  BY DEF Bypass
<1>8. EncType'
  BY <1>1, <1>6, <1>7 DEF EncType
<1>9. EncoderNeverFails' /\ Interval' /\ AtByte'
  <2>1. PICK m \in Nat :
          low' = m /\ m + range <= 1024 /\ (first' = 1 => m + range <= 512)
    BY <1>6
  <2> HIDE DEF IInv, EncOK
  <2>2. EncoderNeverFails' /\ AtByte'
    BY <1>2, <1>6, <1>7, <2>1 DEF EncoderNeverFails, AtByte
  <2>3. Interval'
    BY <1>2, <1>6, <1>7, <2>1 DEF Interval
  <2> QED BY <2>2, <2>3
<1>10. DecOK' /\ ReadWritten'
  BY <1>6, <1>7, DecoderIdle DEF EncType
<1> QED BY <1>8, <1>9, <1>10

LEMMA TerminateKeeps == ASSUME IInv, NEW b \in Bit, Terminate(b) PROVE IInv'
<1> USE DEF IInv, EncOK
<1>1. pc = "bin" /\ bins' \in Seq([kind : Kind, bin : Bit])
  BY EncodeType DEF Terminate, Kind
<1>2. range \in 256 .. 510 /\ low + range <= 1024 /\ (first = 1 => low + range <= 512) /\ low \in Nat
  BY <1>1 DEF Interval, EncType
<1>3. PICK m \in Nat, r \in 1 .. 510 : low' = m /\ range' = r /\ m + r <= low + range
  <2>1. /\ low + (range - 2) \in Nat /\ (low + (range - 2)) + 2 <= low + range
        /\ range - 2 \in 1 .. 510 /\ low + (range - 2) <= low + range
    BY <1>2
  <2>2. CASE b = 1
    <3>1. low' = low + (range - 2) /\ range' = 2
      BY <2>2 DEF Terminate
    <3> QED BY <2>1, <3>1
  <2>3. CASE b # 1
    <3>1. low' = low /\ range' = range - 2
      BY <2>3 DEF Terminate
    <3> QED BY <1>2, <2>1, <3>1
  <2> QED BY <2>2, <2>3
<1>4. /\ pc' \in {"bin", "renorm", "flush"}
      /\ pc' = "renorm" => r \in 1 .. 255
      /\ pc' \in {"bin", "flush"} => r \in 256 .. 510
  <2>1. pc' = After(r, bins')
    BY <1>3 DEF Terminate
  <2> QED BY <2>1, AfterPlace
<1>5. UNCHANGED << first, outstanding, ectx, out, damaged, decoder >>
  BY DEF Terminate
<1>6. EncType'
  BY <1>1, <1>3, <1>4, <1>5 DEF EncType
<1>7. EncoderNeverFails' /\ Interval' /\ AtByte'
  <2>1. m + r <= 1024 /\ (first = 1 => m + r <= 512)
    BY <1>2, <1>3
  <2> HIDE DEF IInv, EncOK
  <2>2. EncoderNeverFails' /\ AtByte'
    BY <1>3, <1>4, <1>5, <2>1 DEF EncoderNeverFails, AtByte
  <2>3. Interval'
    BY <1>3, <1>4, <1>5, <2>1 DEF Interval
  <2> QED BY <2>2, <2>3
<1>8. DecOK' /\ ReadWritten'
  BY <1>5, DecoderIdle DEF EncType
<1> QED BY <1>6, <1>7, <1>8

LEMMA FlushKeeps == ASSUME IInv, Flush PROVE IInv'
<1> USE DEF IInv, EncOK
<1> DEFINE high == (low \div 512) % 2
           next == (low \div 256) % 2
<1>1. range \in 256 .. 510 /\ low \in Nat /\ (first = 1 => low + range <= 512)
  BY DEF Flush, Interval, EncType
<1>2. high \in Bit /\ next \in Bit /\ (first = 1 => high = 0)
  BY <1>1 DEF Bit
<1>3. /\ out' = out \o (IF first = 1 THEN << >> ELSE << high >>)
                    \o Times(outstanding, 1 - high) \o << next, 1 >>
      /\ pc' = "ended" /\ first' = 0 /\ outstanding' = 0
  BY <1>2 DEF Flush
<1> HIDE DEF high, next
<1>4. out' \in Seq(Bit) /\ Len(out') >= Len(out)
  <2>1. Times(outstanding, 1 - high) \in Seq(Bit)
    BY <1>2, TimesType DEF EncType, Bit
  <2>2. (IF first = 1 THEN << >> ELSE << high >>) \in Seq(Bit)
    BY <1>2
  <2>3. << next, 1 >> \in Seq(Bit)
    BY <1>2, ZeroOne
  <2>4. (IF first = 1 THEN << >> ELSE << high >>) \in Seq(Bit) /\ << next, 1 >> \in Seq(Bit)
    BY <2>2, <2>3
  <2> DEFINE s == out \o (IF first = 1 THEN << >> ELSE << high >>) \o Times(outstanding, 1 - high)
  <2>5. s \in Seq(Bit) /\ Len(s) >= Len(out) /\ out' = s \o << next, 1 >>
    BY <1>3, <2>1, <2>4, Longer DEF EncType
  <2> HIDE DEF s
  <2>6. out' \in Seq(Bit) /\ Len(out') = Len(s) + 2
    BY <1>2, <2>4, <2>5
  <2> QED BY <2>5, <2>6 DEF EncType
<1>5. UNCHANGED << range, low, ectx, bins, damaged, decoder >>
  BY DEF Flush
<1>6. EncType'
  BY <1>3, <1>4, <1>5, ZeroOne DEF EncType
<1>7. EncoderNeverFails' /\ Interval' /\ AtByte'
  BY <1>3 DEF EncoderNeverFails, Interval, AtByte
<1>8. DecOK' /\ ReadWritten'
  BY <1>4, <1>5, DecoderIdle DEF EncType
<1> QED BY <1>6, <1>7, <1>8

LEMMA PcmKeeps == ASSUME IInv, NEW b \in Bit, Pcm(b) PROVE IInv'
<1> USE DEF IInv, EncOK
<1> DEFINE a == Aligned(out)
           t == Times(8, b)
<1>1. a \in Seq(Bit) /\ Len(a) >= Len(out) /\ Len(a) % 8 = 0
  BY AlignedType DEF EncType
<1>2. t \in Seq(Bit) /\ Len(t) = 8
  BY TimesType
<1>3. out' = a \o t /\ pc' = "init"
  BY DEF Pcm, ByteBits
<1>4. UNCHANGED << range, low, first, outstanding, ectx, damaged, decoder >>
  BY DEF Pcm
<1> HIDE DEF a, t
<1>5. out' \in Seq(Bit) /\ Len(out') >= Len(out) /\ Len(out') % 8 = 0
  <2>1. Len(a \o t) >= Len(out) /\ Len(a \o t) % 8 = 0 /\ a \o t \in Seq(Bit)
    <3>1. a \in Seq(Bit) /\ t \in Seq(Bit)
      BY <1>1, <1>2
    <3> HIDE DEF IInv, EncOK
    <3>2. a \o t \in Seq(Bit) /\ Len(a \o t) = Len(a) + Len(t)
      BY <3>1
    <3>3. a \o t \in Seq(Bit) /\ Len(a \o t) = Len(a) + 8
      BY <1>2, <3>2
    <3>4. Len(out) \in Nat /\ Len(a) \in Nat
      BY <1>1 DEF EncType
    <3>5. Len(a) + 8 >= Len(out) /\ (Len(a) + 8) % 8 = 0
      BY <1>1, <3>4
    <3> QED BY <3>3, <3>5
  <2> QED BY <1>3, <2>1
<1>6. bins' \in Seq([kind : Kind, bin : Bit])
  BY DEF Pcm, Kind, EncType
<1>7. EncType'
  BY <1>3, <1>4, <1>5, <1>6 DEF EncType
<1>8. EncoderNeverFails' /\ Interval' /\ AtByte'
  BY <1>3, <1>5 DEF EncoderNeverFails, Interval, AtByte
<1>9. DecOK' /\ ReadWritten'
  BY <1>4, <1>5, DecoderIdle DEF EncType
<1> QED BY <1>7, <1>8, <1>9

LEMMA SendKeeps == ASSUME IInv, Send PROVE IInv'
<1> USE DEF IInv, EncOK
<1> DEFINE a == Aligned(out)
<1>1. a \in Seq(Bit) /\ Len(a) >= Len(out) /\ \A i \in DOMAIN out : i \in DOMAIN a
  BY AlignedType DEF EncType
<1>2. out' = a \/ \E i \in DOMAIN out : out' = [a EXCEPT ![i] = 1 - @]
  BY DEF Send
<1>3. pc' = "sent" /\ dpc' = "init" /\ damaged' \in BOOLEAN
  BY DEF Send, EncType
<1>4. UNCHANGED << range, low, first, outstanding, ectx, bins, drange, offset, dctx, pos, got >>
  BY DEF Send
<1> HIDE DEF a
<1>5. out' \in Seq(Bit) /\ Len(out') >= Len(out)
  <2>1. ASSUME NEW i \in DOMAIN out
        PROVE  [a EXCEPT ![i] = 1 - @] \in Seq(Bit) /\ Len([a EXCEPT ![i] = 1 - @]) = Len(a)
    <3>1. i \in DOMAIN a /\ a[i] \in Bit
      BY <1>1
    <3>2. 1 - a[i] \in Bit
      BY <3>1 DEF Bit
    <3> QED BY <1>1, <3>1, <3>2
  <2> QED BY <1>1, <1>2, <2>1
<1>6. EncType'
  BY <1>3, <1>4, <1>5 DEF EncType
<1>7. EncoderNeverFails' /\ Interval' /\ AtByte'
  BY <1>3 DEF EncoderNeverFails, Interval, AtByte
<1>8. DecOK'
  BY <1>3, <1>4 DEF DecOK, DecType, Below
<1>9. ReadWritten'
  BY <1>4, <1>5 DEF ReadWritten, DecOK, DecType, EncType
<1> QED BY <1>6, <1>7, <1>8, <1>9

-----------------------------------------------------------------------------
(* The decoder.                                                             *)

LEMMA EncoderIdle ==
  ASSUME EncOK, UNCHANGED encoder
  PROVE  EncOK' /\ out' = out
<1>1. EncType' /\ EncoderNeverFails'
  BY DEF EncOK, EncType, EncoderNeverFails, encoder
<1>2. Interval' /\ AtByte'
  BY DEF EncOK, Interval, AtByte, encoder
<1> QED BY <1>1, <1>2 DEF EncOK, encoder

LEMMA DFailKeeps == ASSUME IInv, DFail PROVE IInv'
<1> USE DEF IInv
<1>1. EncOK' /\ out' = out
  BY EncoderIdle DEF DFail
<1>2. dpc' = "failed" /\ UNCHANGED << drange, offset, dctx, pos, got >>
  BY DEF DFail
<1>3. DecOK'
  BY <1>2 DEF DecOK, DecType, Below
<1>4. ReadWritten'
  BY <1>1, <1>2 DEF ReadWritten
<1> QED BY <1>1, <1>3, <1>4

LEMMA DInitArithKeeps == ASSUME IInv, DInitArith PROVE IInv'
<1> USE DEF IInv
<1> DEFINE v == Nine(out, pos)
<1>1. CASE DFail
  BY <1>1, DFailKeeps
<1>2. CASE /\ ~(pos % ByteBits # 0 \/ pos + 9 > Len(out) \/ v \notin 0 .. 509)
           /\ drange' = 510 /\ offset' = v /\ pos' = pos + 9 /\ dpc' = "bin"
           /\ UNCHANGED << dctx, got, encoder >>
  <2>1. EncOK' /\ out' = out
    BY <1>2, EncoderIdle
  <2>2. v \in 0 .. 509 /\ pos + 9 <= Len(out) /\ pos \in Nat
    <3>1. v \in 0 .. 509 /\ ~(pos + 9 > Len(out))
      BY <1>2
    <3> HIDE DEF v
    <3>2. pos \in Nat /\ Len(out) \in Nat
      BY DEF DecOK, DecType, EncOK, EncType
    <3> QED BY <3>1, <3>2
  <2> HIDE DEF v
  <2>3. DecType'
    BY <1>2, <2>2 DEF DecOK, DecType
  <2>4. Below'
    BY <1>2, <2>2 DEF Below
  <2>5. ReadWritten'
    BY <1>2, <2>1, <2>2 DEF ReadWritten
  <2> QED BY <2>1, <2>3, <2>4, <2>5 DEF DecOK
<1> HIDE DEF v
<1> QED BY <1>1, <1>2, ZenonT(60) DEF DInitArith, v

(* Where the decoder goes on, from values. *)
LEMMA BelowNow ==
  ASSUME NEW r \in 1 .. 510, NEW o \in Nat, drange' = r, offset' = o, o < r, dpc' = DAfter(r)
  PROVE  Below' /\ dpc' \in {"bin", "renorm"} /\ drange' \in Nat /\ offset' \in Nat
BY DEF Below, DAfter

(* There is a bit to read. *)
LEMMA NextBit ==
  ASSUME IInv, pos # Len(out)
  PROVE  out[pos + 1] \in Bit /\ pos + 1 \in Nat /\ pos + 1 <= Len(out)
<1>1. pos \in Nat /\ pos <= Len(out) /\ out \in Seq(Bit)
  BY DEF IInv, DecOK, DecType, ReadWritten, EncOK, EncType
<1>2. pos + 1 \in 1 .. Len(out)
  BY <1>1
<1> QED BY <1>1, <1>2

LEMMA DRenormKeeps == ASSUME IInv, DRenorm PROVE IInv'
<1> USE DEF IInv
<1>1. CASE DFail
  BY <1>1, DFailKeeps
<1>2. CASE /\ pos # Len(out)
           /\ drange' = 2 * drange /\ offset' = 2 * offset + out[pos + 1] /\ pos' = pos + 1
           /\ dpc' = DAfter(2 * drange) /\ UNCHANGED << dctx, got, encoder >>
  <2> DEFINE r == 2 * drange
             o == 2 * offset + out[pos + 1]
  <2>1. EncOK' /\ out' = out
    BY <1>2, EncoderIdle
  <2>2. out[pos + 1] \in {0, 1} /\ pos + 1 \in Nat /\ pos + 1 <= Len(out)
    BY <1>2, NextBit DEF Bit
  <2>3. drange \in 1 .. 255 /\ offset \in Nat /\ offset < drange
    BY DEF DRenorm, Below, DecOK, DecType
  <2>4. r \in 1 .. 510 /\ o \in Nat /\ o < r
    BY <2>2, <2>3
  <2>5. drange' = r /\ offset' = o /\ dpc' = DAfter(r)
    BY <1>2
  <2> HIDE DEF r, o
  <2>6. Below' /\ dpc' \in {"bin", "renorm"} /\ drange' \in Nat /\ offset' \in Nat
    BY <2>4, <2>5, BelowNow
  <2>7. DecType'
    BY <1>2, <2>2, <2>6 DEF DecOK, DecType
  <2>8. ReadWritten'
    BY <1>2, <2>1, <2>2 DEF ReadWritten
  <2> QED BY <2>1, <2>6, <2>7, <2>8 DEF DecOK
<1> QED BY <1>1, <1>2 DEF DRenorm

LEMMA DecodeType ==
  ASSUME DecType, NEW k \in Kind, NEW b \in Bit, Decode(k, b)
  PROVE  got' \in Seq([kind : Kind, bin : Bit])
BY DEF Decode, DecType

LEMMA DDecisionKeeps == ASSUME IInv, NEW c \in Ctx, DDecision(c) PROVE IInv'
<1> USE DEF IInv
<1> DEFINE s == dctx[c]
           lps == LPS(s, drange)
           b == IF offset >= drange - lps THEN 1 - s.mps ELSE s.mps
<1>1. drange \in 256 .. 510 /\ offset \in Nat /\ offset < drange
  BY DEF DDecision, Below, DecOK, DecType
<1>2. s \in Context
  BY DEF DecOK, DecType
<1>3. lps \in 1 .. drange - 1
  BY <1>1, <1>2, LpsInside
<1>4. b \in Bit
  BY <1>2 DEF Context, Bit
<1>5. /\ IF offset >= drange - lps
         THEN drange' = lps /\ offset' = offset - (drange - lps)
         ELSE drange' = drange - lps /\ offset' = offset
      /\ Decode(c, b) /\ dctx' = [dctx EXCEPT ![c] = Learn(@, b)]
      /\ dpc' = DAfter(drange') /\ UNCHANGED << pos, encoder >>
  BY DEF DDecision
<1>6. EncOK' /\ out' = out
  BY <1>5, EncoderIdle
<1> HIDE DEF s, lps, b
<1>7. PICK r \in 1 .. 510, o \in Nat : drange' = r /\ offset' = o /\ o < r
  <2>1. CASE offset >= drange - lps
    <3>1. lps \in 1 .. 510 /\ offset - (drange - lps) \in Nat /\ offset - (drange - lps) < lps
      BY <1>1, <1>3, <2>1
    <3> QED BY <1>5, <2>1, <3>1
  <2>2. CASE ~(offset >= drange - lps)
    <3>1. drange - lps \in 1 .. 510 /\ offset < drange - lps
      BY <1>1, <1>3, <2>2
    <3> QED BY <1>1, <1>5, <2>2, <3>1
  <2> QED BY <2>1, <2>2
<1>8. Below' /\ dpc' \in {"bin", "renorm"} /\ drange' \in Nat /\ offset' \in Nat
  <2>1. dpc' = DAfter(r)
    BY <1>5, <1>7
  <2> QED BY <1>7, <2>1, BelowNow
<1>9. dctx' \in [Ctx -> Context]
  BY <1>4, <1>5, LearnedType DEF DecOK, DecType
<1>10. got' \in Seq([kind : Kind, bin : Bit])
  BY <1>4, <1>5, DecodeType DEF DecOK, Kind
<1>11. DecType' /\ ReadWritten'
  BY <1>5, <1>6, <1>8, <1>9, <1>10 DEF DecOK, DecType, ReadWritten
<1> QED BY <1>6, <1>8, <1>11 DEF DecOK

LEMMA DBypassKeeps == ASSUME IInv, DBypass PROVE IInv'
<1> USE DEF IInv
<1>1. CASE DFail
  BY <1>1, DFailKeeps
<1>2. CASE pos # Len(out) /\ ~DFail
  <2> DEFINE o == 2 * offset + out[pos + 1]
  <2>1. /\ IF o >= drange THEN Decode("bypass", 1) /\ offset' = o - drange
                          ELSE Decode("bypass", 0) /\ offset' = o
        /\ pos' = pos + 1 /\ UNCHANGED << drange, dctx, dpc, encoder >>
    BY <1>2 DEF DBypass
  <2>2. EncOK' /\ out' = out
    BY <2>1, EncoderIdle
  <2>3. out[pos + 1] \in {0, 1} /\ pos + 1 \in Nat /\ pos + 1 <= Len(out)
    BY <1>2, NextBit DEF Bit
  <2>4. dpc = "bin" /\ drange \in 256 .. 510 /\ offset \in Nat /\ offset < drange
    BY DEF DBypass, Below, DecOK, DecType
  <2>5. o \in Nat /\ o < 2 * drange /\ (o >= drange => o - drange \in Nat /\ o - drange < drange)
    BY <2>3, <2>4
  <2> HIDE DEF o
  <2>6. offset' \in Nat /\ offset' < drange
    BY <2>1, <2>4, <2>5
  <2>7. got' \in Seq([kind : Kind, bin : Bit])
    BY <2>1, DecodeType, ZeroOne DEF DecOK, Kind
  <2>8. DecType'
    BY <2>1, <2>3, <2>6, <2>7 DEF DecOK, DecType
  <2>9. Below'
    BY <2>1, <2>4, <2>6 DEF Below
  <2>10. ReadWritten'
    BY <2>1, <2>2, <2>3 DEF ReadWritten
  <2> QED BY <2>2, <2>8, <2>9, <2>10 DEF DecOK
<1> QED BY <1>1, <1>2 DEF DBypass

LEMMA DTerminateKeeps == ASSUME IInv, DTerminate PROVE IInv'
<1> USE DEF IInv
<1> DEFINE r == drange - 2
<1>1. /\ drange' = r /\ UNCHANGED << offset, dctx, pos, encoder >>
      /\ IF offset >= r THEN Decode("terminate", 1) /\ dpc' = "ended"
                        ELSE Decode("terminate", 0) /\ dpc' = DAfter(drange')
  BY DEF DTerminate
<1>2. EncOK' /\ out' = out
  BY <1>1, EncoderIdle
<1>3. drange \in 256 .. 510 /\ offset \in Nat /\ r \in 1 .. 510
  BY DEF DTerminate, Below, DecOK, DecType
<1> HIDE DEF r
<1>4. got' \in Seq([kind : Kind, bin : Bit])
  BY <1>1, DecodeType, ZeroOne DEF DecOK, Kind
<1>5. /\ Below' /\ dpc' \in {"bin", "renorm", "ended"}
      /\ drange' \in Nat /\ offset' \in Nat
  <2>1. CASE offset >= r
    BY <1>1, <1>3, <2>1 DEF Below
  <2>2. CASE ~(offset >= r)
    <3>1. offset < r /\ dpc' = DAfter(r) /\ offset' = offset
      BY <1>1, <1>3, <2>2
    <3> QED BY <1>1, <1>3, <3>1, BelowNow
  <2> QED BY <2>1, <2>2
<1>6. DecType' /\ ReadWritten'
  BY <1>1, <1>2, <1>4, <1>5 DEF DecOK, DecType, ReadWritten
<1> QED BY <1>2, <1>5, <1>6 DEF DecOK

LEMMA DPcmKeeps == ASSUME IInv, DPcm PROVE IInv'
<1> USE DEF IInv
<1> DEFINE start == pos + Pad(pos)
<1>1. CASE DFail
  BY <1>1, DFailKeeps
<1>2. CASE ~DFail
  <2>1. /\ start + 8 <= Len(out) /\ start \in Nat
        /\ Decode("pcm", out[start + 1]) /\ pos' = start + 8 /\ dpc' = "init"
        /\ UNCHANGED << drange, offset, dctx, encoder >>
    <3>1. pos \in Nat /\ Pad(pos) \in Nat /\ Len(out) \in Nat
      BY DEF DecOK, DecType, EncOK, EncType, Pad, ByteBits
    <3> QED BY <1>2, <3>1 DEF DPcm, ByteBits
  <2>2. EncOK' /\ out' = out
    BY <2>1, EncoderIdle
  <2>3. out[start + 1] \in Bit /\ start + 8 \in Nat
    <3>1. start + 1 \in 1 .. Len(out) /\ start + 8 \in Nat
      BY <2>1
    <3> QED BY <3>1 DEF EncOK, EncType
  <2> HIDE DEF start
  <2>4. got' \in Seq([kind : Kind, bin : Bit])
    BY <2>1, <2>3, DecodeType DEF DecOK, Kind
  <2>5. DecType' /\ Below'
    BY <2>1, <2>3, <2>4 DEF DecOK, DecType, Below
  <2>6. ReadWritten'
    BY <2>1, <2>2 DEF ReadWritten
  <2> QED BY <2>2, <2>5, <2>6 DEF DecOK
<1> QED BY <1>1, <1>2

LEMMA DEndKeeps == ASSUME IInv, DEnd PROVE IInv'
<1> USE DEF IInv
<1> DEFINE last == pos + Pad(pos)
<1>1. CASE DFail
  BY <1>1, DFailKeeps
<1>2. CASE ~DFail
  <2>1. /\ PadRead /\ dpc' = "done" /\ pos' = last
        /\ UNCHANGED << drange, offset, dctx, got, encoder >>
    BY <1>2 DEF DEnd
  <2>2. EncOK' /\ out' = out
    BY <2>1, EncoderIdle
  <2>3. last \in Nat /\ last <= Len(out)
    <3>1. /\ pos \in Nat /\ Pad(pos) \in Nat /\ Len(out) \in Nat /\ pos <= Len(out)
          /\ DOMAIN out = 1 .. Len(out)
      BY DEF DecOK, DecType, EncOK, EncType, Pad, ByteBits, ReadWritten
    <3>2. CASE Pad(pos) = 0
      BY <3>1, <3>2
    <3>3. CASE Pad(pos) # 0
      <4>1. last \in pos + 1 .. pos + Pad(pos)
        BY <3>1, <3>3
      <4>2. last \in DOMAIN out
        BY <2>1, <4>1 DEF PadRead
      <4> QED BY <3>1, <4>2
    <3> QED BY <3>2, <3>3
  <2> HIDE DEF last
  <2>4. DecType' /\ Below'
    BY <2>1, <2>3 DEF DecOK, DecType, Below
  <2>5. ReadWritten'
    BY <2>1, <2>2, <2>3 DEF ReadWritten
  <2> QED BY <2>2, <2>4, <2>5 DEF DecOK
<1> QED BY <1>1, <1>2

-----------------------------------------------------------------------------
LEMMA Keeps == IInv /\ [Next]_cvars => IInv'
<1> SUFFICES ASSUME IInv, [Next]_cvars PROVE IInv'
  OBVIOUS
<1>1. CASE InitArith
  BY <1>1, InitArithKeeps
<1>2. CASE Renorm
  BY <1>2, RenormKeeps
<1>3. CASE Flush
  BY <1>3, FlushKeeps
<1>4. CASE Send
  BY <1>4, SendKeeps
<1>5. ASSUME NEW b \in Bit, NEW c \in Ctx, Decision(c, b) PROVE IInv'
  BY <1>5, DecisionKeeps
<1>6. ASSUME NEW b \in Bit, Bypass(b) PROVE IInv'
  BY <1>6, BypassKeeps
<1>7. ASSUME NEW b \in Bit, Terminate(b) PROVE IInv'
  BY <1>7, TerminateKeeps
<1>8. ASSUME NEW b \in Bit, Pcm(b) PROVE IInv'
  BY <1>8, PcmKeeps
<1>9. CASE DInitArith
  BY <1>9, DInitArithKeeps
<1>10. CASE DRenorm
  BY <1>10, DRenormKeeps
<1>11. ASSUME NEW c \in Ctx, DDecision(c) PROVE IInv'
  BY <1>11, DDecisionKeeps
<1>12. CASE DBypass
  BY <1>12, DBypassKeeps
<1>13. CASE DTerminate
  BY <1>13, DTerminateKeeps
<1>14. CASE DPcm
  BY <1>14, DPcmKeeps
<1>15. CASE DEnd
  BY <1>15, DEndKeeps
<1>16. CASE UNCHANGED cvars
  <2>1. UNCHANGED encoder /\ UNCHANGED decoder
    BY <1>16 DEF cvars
  <2>2. EncOK' /\ out' = out
    BY <2>1, EncoderIdle DEF IInv
  <2>3. DecOK' /\ ReadWritten'
    <3>1. out \in Seq(Bit) /\ out' \in Seq(Bit) /\ Len(out') >= Len(out)
      BY <2>2 DEF IInv, EncOK, EncType
    <3> QED BY <2>1, <3>1, DecoderIdle DEF IInv
  <2> QED BY <2>2, <2>3 DEF IInv
<1> QED
  BY <1>1, <1>2, <1>3, <1>4, <1>5, <1>6, <1>7, <1>8, <1>9, <1>10, <1>11, <1>12, <1>13,
     <1>14, <1>15, <1>16 DEF Next

(* The inductive invariant of coder and decoder. *)
THEOREM CoderInvariant == Spec => []IInv
BY Initially, Keeps, PTL DEF Spec

(* Both keep their types; in particular pStateIdx stays below 63, for which *)
(* there is no context, whatever is coded.                                  *)
THEOREM CoderTypes == Spec => []TypeOK
<1>1. IInv => TypeOK
  BY DEF IInv, EncOK, EncType, DecOK, DecType, TypeOK
<1> QED BY <1>1, CoderInvariant, PTL

(* h264_cabac_renorm, bypass and terminate never return "CABAC initial      *)
(* skipped bit not 0", for any tables and bins: the encoder always gets to  *)
(* the end of the slice.                                                    *)
THEOREM EncoderSucceeds == Spec => []EncoderNeverFails
<1>1. IInv => EncoderNeverFails
  BY DEF IInv, EncOK
<1> QED BY <1>1, CoderInvariant, PTL

(* Whatever bits a decoder is given, codIOffset stays below codIRange and   *)
(* codIRange between 256 and 510 from bin to bin.                           *)
THEOREM DecoderInside == Spec => []OffsetInRange
<1>1. IInv => OffsetInRange
  BY DEF IInv, DecOK, Below, OffsetInRange
<1> QED BY <1>1, CoderInvariant, PTL

-----------------------------------------------------------------------------
(* The round trip.  The bits an encoder will still write are not known; so  *)
(* the invariant speaks of all streams it could be in the middle of, and    *)
(* says of each what a decoder would do with it.                            *)

Stream == [Nat -> Bit]
Extends(f, s) == \A i \in DOMAIN s : f[i] = s[i]

(* How many bits were shifted out of low, but for the first.                *)
Shifted == Len(out) + outstanding + (1 - first)

(* The next bit that is written, and its complements that wait for it.      *)
Lead(f) == IF first = 1 THEN 0 ELSE f[Len(out) + 1]
Waiting(f) == \A i \in Len(out) + 2 - first .. Shifted : f[i] = 1 - Lead(f)

(* The ten bits that are compared with low. *)
Register(f) == 512 * Lead(f) + Nine(f, Shifted)
Distance(f) == Register(f) - low
Possible(f) == Extends(f, out) /\ Waiting(f) /\ Distance(f) \in 0 .. range - 1

LEMMA NineShift ==
  ASSUME NEW f \in Stream, NEW k \in Nat
  PROVE  /\ Nine(f, k) \in 0 .. 511
         /\ Nine(f, k + 1) = 2 * Nine(f, k) - 512 * f[k + 1] + f[k + 10]
<1>1. \A i \in Nat : f[i] \in {0, 1}
  BY DEF Stream, Bit
<1>2. /\ f[k + 1] \in {0, 1} /\ f[k + 2] \in {0, 1} /\ f[k + 3] \in {0, 1} /\ f[k + 4] \in {0, 1}
      /\ f[k + 5] \in {0, 1} /\ f[k + 6] \in {0, 1} /\ f[k + 7] \in {0, 1} /\ f[k + 8] \in {0, 1}
      /\ f[k + 9] \in {0, 1} /\ f[k + 10] \in {0, 1}
  BY <1>1
<1>3. PICK a, b, c, d, e, m, n, o, p, q :
        /\ a = f[k + 1] /\ b = f[k + 2] /\ c = f[k + 3] /\ d = f[k + 4] /\ e = f[k + 5]
        /\ m = f[k + 6] /\ n = f[k + 7] /\ o = f[k + 8] /\ p = f[k + 9] /\ q = f[k + 10]
  OBVIOUS
<1>4. /\ a \in {0, 1} /\ b \in {0, 1} /\ c \in {0, 1} /\ d \in {0, 1} /\ e \in {0, 1}
      /\ m \in {0, 1} /\ n \in {0, 1} /\ o \in {0, 1} /\ p \in {0, 1} /\ q \in {0, 1}
  BY <1>2, <1>3
<1>5. Nine(f, k) = 256 * a + 128 * b + 64 * c + 32 * d + 16 * e + 8 * m + 4 * n + 2 * o + p
  BY <1>3 DEF Nine
<1>6. Nine(f, k + 1) = 256 * b + 128 * c + 64 * d + 32 * e + 16 * m + 8 * n + 4 * o + 2 * p + q
  <2>1. /\ k + 1 + 1 = k + 2 /\ k + 1 + 2 = k + 3 /\ k + 1 + 3 = k + 4 /\ k + 1 + 4 = k + 5
        /\ k + 1 + 5 = k + 6 /\ k + 1 + 6 = k + 7 /\ k + 1 + 7 = k + 8 /\ k + 1 + 8 = k + 9
        /\ k + 1 + 9 = k + 10
    OBVIOUS
  <2> QED BY <1>3, <2>1 DEF Nine
<1>7. PICK u, v : /\ u = 256 * a + 128 * b + 64 * c + 32 * d + 16 * e + 8 * m + 4 * n + 2 * o + p
                  /\ v = 256 * b + 128 * c + 64 * d + 32 * e + 16 * m + 8 * n + 4 * o + 2 * p + q
  OBVIOUS
<1>8. u \in 0 .. 511 /\ v = 2 * u - 512 * a + q
  BY <1>7, <1>4
<1>9. Nine(f, k) = u /\ Nine(f, k + 1) = v
  BY <1>5, <1>6, <1>7
<1> QED BY <1>3, <1>8, <1>9

LEMMA NineType ==
  ASSUME NEW f \in Stream, NEW k \in Nat
  PROVE  \E n \in 0 .. 511 : n = Nine(f, k)
BY NineShift

LEMMA Joined ==
  ASSUME NEW s \in Seq(Bit), NEW t \in Seq(Bit)
  PROVE  /\ s \o t \in Seq(Bit) /\ Len(s \o t) = Len(s) + Len(t)
         /\ \A i \in DOMAIN s : i \in DOMAIN (s \o t) /\ (s \o t)[i] = s[i]
         /\ \A i \in Len(s) + 1 .. Len(s) + Len(t) : (s \o t)[i] = t[i - Len(s)]
OBVIOUS

(* What was written when a bit is put: it, and the ones that waited.        *)
Put(b) == out \o (IF first = 1 THEN << >> ELSE << b >>) \o Times(outstanding, 1 - b)

LEMMA PutBits ==
  ASSUME EncType, NEW b \in Bit, NEW s, s = Put(b)
  PROVE  /\ s \in Seq(Bit) /\ Len(s) = Shifted
         /\ \A i \in DOMAIN out : i \in DOMAIN s /\ s[i] = out[i]
         /\ first = 0 => s[Len(out) + 1] = b /\ Len(out) + 1 \in DOMAIN s
         /\ \A i \in Len(out) + 2 - first .. Shifted : s[i] = 1 - b
<1> DEFINE t == Times(outstanding, 1 - b)
           u == out \o (IF first = 1 THEN << >> ELSE << b >>)
<1>1. t \in Seq(Bit) /\ Len(t) = outstanding
  BY TimesType DEF EncType, Bit
<1>2. \A i \in 1 .. outstanding : t[i] = 1 - b
  BY DEF Times
<1>3. out \in Seq(Bit) /\ outstanding \in Nat /\ first \in {0, 1} /\ Len(out) \in Nat
  BY DEF EncType, Bit
<1>4. s = u \o t
  BY DEF Put
<1>5. /\ u \in Seq(Bit) /\ Len(u) = Len(out) + (1 - first)
      /\ \A i \in DOMAIN out : i \in DOMAIN u /\ u[i] = out[i]
      /\ first = 0 => u[Len(out) + 1] = b
  <2>1. CASE first = 1
    BY <1>3, <2>1
  <2>2. CASE first = 0
    <3>1. u = out \o << b >> /\ << b >> \in Seq(Bit) /\ Len(<< b >>) = 1 /\ << b >>[1] = b
      BY <2>2
    <3> HIDE DEF u
    <3> QED BY <1>3, <2>2, <3>1, Joined
  <2> QED BY <1>3, <2>1, <2>2
<1> HIDE DEF t, u
<1>6. Len(u) + Len(t) = Shifted /\ Len(u) + 1 = Len(out) + 2 - first
  BY <1>1, <1>3, <1>5 DEF Shifted
<1>7. /\ s \in Seq(Bit) /\ Len(s) = Len(u) + Len(t)
      /\ \A i \in DOMAIN u : i \in DOMAIN s /\ s[i] = u[i]
      /\ \A i \in Len(u) + 1 .. Len(u) + Len(t) : s[i] = t[i - Len(u)]
  <2>1. /\ u \o t \in Seq(Bit) /\ Len(u \o t) = Len(u) + Len(t)
        /\ \A i \in DOMAIN u : i \in DOMAIN (u \o t) /\ (u \o t)[i] = u[i]
        /\ \A i \in Len(u) + 1 .. Len(u) + Len(t) : (u \o t)[i] = t[i - Len(u)]
    BY <1>1, <1>5, Joined
  <2> QED BY <1>4, <2>1
<1>8. ASSUME NEW i \in Len(out) + 2 - first .. Shifted PROVE s[i] = 1 - b
  <2>1. i \in Len(u) + 1 .. Len(u) + Len(t) /\ i - Len(u) \in 1 .. outstanding
    BY <1>1, <1>3, <1>5, <1>6
  <2> QED BY <1>2, <1>7, <2>1
<1>9. first = 0 => Len(out) + 1 \in DOMAIN u
  BY <1>3, <1>5
<1> QED BY <1>5, <1>6, <1>7, <1>8, <1>9

(* One round of renorm, or a bypass bin: a stream that is possible behind   *)
(* it was possible before, and the ten bits move on by one.                 *)
LEMMA ShiftFlows ==
  ASSUME EncType, NEW l \in Nat, NEW next, Shift(l, next), first = 1 => l < 1024,
         NEW f \in Stream, Extends(f, out'), Waiting(f)'
  PROVE  /\ Extends(f, out) /\ Waiting(f) /\ Shifted \in Nat /\ Shifted' = Shifted + 1
         /\ Register(f) \in Nat
         /\ Distance(f)' = 2 * Register(f) + f[Shifted + 10] - l
<1>1. out \in Seq(Bit) /\ outstanding \in Nat /\ first \in {0, 1} /\ Len(out) \in Nat
  BY DEF EncType, Bit
<1>2. Shifted \in Nat /\ Shifted >= Len(out)
  BY <1>1 DEF Shifted
<1>3. \A i \in Nat : f[i] \in {0, 1}
  BY DEF Stream, Bit
<1>4. /\ Nine(f, Shifted) \in 0 .. 511
      /\ Nine(f, Shifted + 1) = 2 * Nine(f, Shifted) - 512 * f[Shifted + 1] + f[Shifted + 10]
  BY <1>2, NineShift
<1>5. Lead(f) \in {0, 1}
  BY <1>1, <1>3 DEF Lead
<1>6. Register(f) \in Nat
  BY <1>4, <1>5 DEF Register
<1>7. f[Shifted + 1] \in {0, 1} /\ f[Shifted + 10] \in {0, 1}
  BY <1>2, <1>3
<1>8. ASSUME NEW b \in Bit, PutBit(b), first = 1 => b = 0, low' = l - 1024 * b
      PROVE  /\ Extends(f, out) /\ Waiting(f) /\ Shifted' = Shifted + 1
             /\ Distance(f)' = 2 * Register(f) + f[Shifted + 10] - l
  <2>1. out' = Put(b) /\ first' = 0 /\ outstanding' = 0
    BY <1>8 DEF PutBit, Put
  <2>2. /\ out' \in Seq(Bit) /\ Len(out') = Shifted
        /\ \A i \in DOMAIN out : i \in DOMAIN out' /\ out'[i] = out[i]
        /\ first = 0 => out'[Len(out) + 1] = b /\ Len(out) + 1 \in DOMAIN out'
        /\ \A i \in Len(out) + 2 - first .. Shifted : out'[i] = 1 - b
    BY <2>1, PutBits
  <2>3. Extends(f, out)
    BY <2>2 DEF Extends
  <2>4. Lead(f) = b
    BY <1>1, <1>8, <2>2 DEF Lead, Extends
  <2>5. Waiting(f)
    <3>1. ASSUME NEW i \in Len(out) + 2 - first .. Shifted PROVE f[i] = 1 - Lead(f)
      <4>1. i \in DOMAIN out'
        BY <1>1, <1>2, <2>2
      <4> QED BY <2>2, <2>4, <4>1 DEF Extends
    <3> QED BY <3>1 DEF Waiting
  <2>6. Shifted' = Shifted + 1
    <3>1. Shifted' = Len(out') + outstanding' + (1 - first')
      BY DEF Shifted
    <3> QED BY <1>2, <2>1, <2>2, <3>1
  <2>7. Lead(f)' = f[Shifted + 1]
    <3>1. first' # 1 /\ Len(out') = Shifted
      BY <2>1, <2>2
    <3> QED BY <3>1 DEF Lead
  <2>8. Register(f)' = 512 * f[Shifted + 1] + Nine(f, Shifted + 1)
    BY <2>6, <2>7 DEF Register
  <2>9. Register(f) = 512 * b + Nine(f, Shifted)
    BY <2>4 DEF Register
  <2>10. Distance(f)' = Register(f)' - low'
    BY DEF Distance
  <2>11. b \in {0, 1} /\ low' = l - 1024 * b
    BY <1>8 DEF Bit
  <2>12. Distance(f)' = 2 * Register(f) + f[Shifted + 10] - l
    <3>1. PICK n, n1, u, v : /\ n = Nine(f, Shifted) /\ n1 = Nine(f, Shifted + 1)
                             /\ u = f[Shifted + 1] /\ v = f[Shifted + 10]
      OBVIOUS
    <3>2. n \in 0 .. 511 /\ n1 = 2 * n - 512 * u + v /\ u \in {0, 1} /\ v \in {0, 1}
      BY <1>4, <1>7, <3>1
    <3>3. Register(f)' = 512 * u + n1 /\ Register(f) = 512 * b + n
      BY <2>8, <2>9, <3>1
    <3>4. Register(f)' - low' = 2 * Register(f) + v - l
      <4>1. PICK x, y, z : x = Register(f)' /\ y = Register(f) /\ z = low'
        OBVIOUS
      <4>2. x = 512 * u + n1 /\ y = 512 * b + n /\ z = l - 1024 * b
        BY <2>11, <3>3, <4>1
      <4>3. x - z = 2 * y + v - l
        BY <2>11, <3>2, <4>2
      <4> QED BY <4>1, <4>3
    <3> QED BY <2>10, <3>1, <3>4
  <2> QED BY <2>3, <2>5, <2>6, <2>12
<1>9. CASE l < 512 /\ low' = l /\ PutBit(0)
  BY <1>2, <1>6, <1>8, <1>9, ZeroOne
<1>10. CASE l >= 1024 /\ low' = l - 1024 /\ PutBit(1)
  <2>1. first # 1
    BY <1>10
  <2> QED BY <1>2, <1>6, <1>8, <1>10, <2>1, ZeroOne
<1>11. CASE /\ 512 <= l /\ l < 1024 /\ low' = l - 512
            /\ outstanding' = outstanding + 1 /\ UNCHANGED << first, out >>
  <2>1. Shifted' = Shifted + 1
    BY <1>1, <1>11 DEF Shifted
  <2>2. Lead(f)' = Lead(f)
    BY <1>11 DEF Lead
  <2>3. \A i \in Len(out) + 2 - first .. Shifted + 1 : f[i] = 1 - Lead(f)
    BY <1>11, <2>1, <2>2 DEF Waiting
  <2>4. Waiting(f) /\ f[Shifted + 1] = 1 - Lead(f)
    <3>1. Shifted + 1 \in Len(out) + 2 - first .. Shifted + 1
      BY <1>1, <1>2 DEF Shifted
    <3> QED BY <1>1, <1>2, <2>3, <3>1 DEF Waiting
  <2>5. Register(f)' = 512 * Lead(f) + Nine(f, Shifted + 1)
    BY <2>1, <2>2 DEF Register
  <2>6. Distance(f)' = Register(f)' - (l - 512)
    BY <1>11 DEF Distance
  <2>7. Distance(f)' = 2 * Register(f) + f[Shifted + 10] - l
    BY <1>4, <1>5, <1>7, <2>4, <2>5, <2>6 DEF Register
  <2> QED BY <1>2, <1>6, <1>11, <2>1, <2>4, <2>7
<1> QED BY <1>9, <1>10, <1>11 DEF Shift

(* What a decoder does with a stream, as states that follow each other.     *)
Dec(p, r, o, c, n, g) ==
  [pc |-> p, range |-> r, offset |-> o, ctx |-> c, pos |-> n, got |-> g]
DState ==
  [pc : {"init", "bin", "renorm", "ended"}, range : Nat, offset : Nat,
   ctx : [Ctx -> Context], pos : Nat, got : Nat]
BinType == [kind : Kind, bin : Bit]

StartMove(f, x, y) ==
  /\ x.pc = "init" /\ x.pos % ByteBits = 0 /\ Nine(f, x.pos) \in 0 .. 509
  /\ y = Dec("bin", 510, Nine(f, x.pos), x.ctx, x.pos + 9, x.got)

RenormMove(f, x, y) ==
  /\ x.pc = "renorm"
  /\ y = Dec(DAfter(2 * x.range), 2 * x.range, 2 * x.offset + f[x.pos + 1], x.ctx, x.pos + 1, x.got)

DecisionMove(c, b, x, y) ==
  LET lps == LPS(x.ctx[c], x.range)
      most == x.range - lps
      ctx == [x.ctx EXCEPT ![c] = Learn(@, b)]
  IN /\ x.pc = "bin"
     /\ \/ /\ b = x.ctx[c].mps /\ x.offset < most
           /\ y = Dec(DAfter(most), most, x.offset, ctx, x.pos, x.got + 1)
        \/ /\ b # x.ctx[c].mps /\ x.offset >= most
           /\ y = Dec(DAfter(lps), lps, x.offset - most, ctx, x.pos, x.got + 1)

BypassMove(f, b, x, y) ==
  LET o == 2 * x.offset + f[x.pos + 1]
  IN /\ x.pc = "bin" /\ (o >= x.range <=> b = 1)
     /\ y = Dec("bin", x.range, IF b = 1 THEN o - x.range ELSE o, x.ctx, x.pos + 1, x.got + 1)

TerminateMove(b, x, y) ==
  /\ x.pc = "bin" /\ (x.offset >= x.range - 2 <=> b = 1)
  /\ y = Dec(IF b = 1 THEN "ended" ELSE DAfter(x.range - 2), x.range - 2, x.offset, x.ctx,
             x.pos, x.got + 1)

PcmMove(f, b, x, y) ==
  LET start == x.pos + Pad(x.pos)
  IN /\ x.pc = "ended" /\ (\A i \in x.pos + 1 .. start : f[i] = 0) /\ f[start + 1] = b
     /\ y = Dec("init", x.range, x.offset, x.ctx, start + ByteBits, x.got + 1)

BinMove(f, e, x, y) ==
  \/ e.kind \in Ctx /\ DecisionMove(e.kind, e.bin, x, y)
  \/ e.kind = "bypass" /\ BypassMove(f, e.bin, x, y)
  \/ e.kind = "terminate" /\ TerminateMove(e.bin, x, y)
  \/ e.kind = "pcm" /\ PcmMove(f, e.bin, x, y)

Move(f, s, x, y) ==
  /\ x.pos <= y.pos
  /\ \/ StartMove(f, x, y) \/ RenormMove(f, x, y)
     \/ x.got < Len(s) /\ BinMove(f, s[x.got + 1], x, y)

Script(f, s, g) ==
  /\ g \in Seq(DState) /\ g # << >>
  /\ \A i \in 1 .. Len(g) - 1 : Move(f, s, g[i], g[i + 1])
  /\ \A i \in DOMAIN g : g[i].pos <= g[Len(g)].pos

Fresh == Dec("init", 0, 0, dctx, 0, 0)
Reaches(f, x) == \E g \in Seq(DState) : Script(f, bins, g) /\ g[1] = Fresh /\ g[Len(g)] = x

(* Bins that are added make no difference to what was decoded before.       *)
Adds(s, t) == Len(s) <= Len(t) /\ \A i \in 1 .. Len(s) : t[i] = s[i]

LEMMA MoveStays ==
  ASSUME NEW s \in Seq(BinType), NEW t \in Seq(BinType), Adds(s, t), NEW f,
         NEW x \in DState, NEW y, Move(f, s, x, y)
  PROVE  Move(f, t, x, y)
<1>1. CASE x.got < Len(s) /\ BinMove(f, s[x.got + 1], x, y)
  <2>1. x.got \in Nat /\ x.got + 1 \in 1 .. Len(s)
    BY <1>1 DEF DState
  <2>2. x.got < Len(t) /\ t[x.got + 1] = s[x.got + 1]
    BY <1>1, <2>1 DEF Adds
  <2> QED BY <1>1, <2>2 DEF Move
<1> QED BY <1>1 DEF Move

LEMMA ScriptStays ==
  ASSUME NEW s \in Seq(BinType), NEW t \in Seq(BinType), Adds(s, t), NEW f,
         NEW g, Script(f, s, g)
  PROVE  Script(f, t, g)
<1>1. ASSUME NEW i \in 1 .. Len(g) - 1 PROVE Move(f, t, g[i], g[i + 1])
  <2>1. g[i] \in DState /\ Move(f, s, g[i], g[i + 1])
    BY DEF Script
  <2> QED BY <2>1, MoveStays
<1> QED BY <1>1 DEF Script

LEMMA ScriptGrows ==
  ASSUME NEW s, NEW f, NEW g, Script(f, s, g), NEW y \in DState, Move(f, s, g[Len(g)], y)
  PROVE  LET h == Append(g, y)
         IN h \in Seq(DState) /\ Script(f, s, h) /\ h[1] = g[1] /\ h[Len(h)] = y
<1> DEFINE h == Append(g, y)
<1>1. g \in Seq(DState) /\ Len(g) \in Nat /\ Len(g) >= 1
  BY DEF Script
<1>2. /\ h \in Seq(DState) /\ Len(h) = Len(g) + 1 /\ h[Len(g) + 1] = y
      /\ \A i \in 1 .. Len(g) : h[i] = g[i]
  BY <1>1
<1> HIDE DEF h
<1>3. ASSUME NEW i \in 1 .. Len(h) - 1 PROVE Move(f, s, h[i], h[i + 1])
  <2>1. CASE i = Len(g)
    <3>1. h[i] = g[Len(g)] /\ h[i + 1] = y
      BY <1>1, <1>2, <2>1
    <3> QED BY <3>1
  <2>2. CASE i # Len(g)
    <3>1. i \in 1 .. Len(g) - 1 /\ h[i] = g[i] /\ h[i + 1] = g[i + 1]
      BY <1>1, <1>2, <2>2
    <3> QED BY <3>1 DEF Script
  <2> QED BY <2>1, <2>2
<1>4. ASSUME NEW i \in DOMAIN h PROVE h[i].pos <= h[Len(h)].pos
  <2>1. \A z \in DState : z.pos \in Nat
    BY DEF DState
  <2>2. y.pos \in Nat /\ g[Len(g)].pos \in Nat /\ g[Len(g)].pos <= y.pos
    <3>1. g[Len(g)] \in DState
      BY <1>1
    <3>2. g[Len(g)].pos <= y.pos
      BY Zenon DEF Move
    <3> QED BY <2>1, <3>1, <3>2
  <2>3. CASE i = Len(h)
    BY <1>2, <2>2, <2>3
  <2>4. CASE i # Len(h)
    <3>1. i \in 1 .. Len(g) /\ h[i] = g[i]
      BY <1>1, <1>2, <2>4
    <3>2. i \in 1 .. Len(g) /\ h[i] = g[i] /\ g[i].pos \in Nat
      BY <1>1, <2>1, <3>1
    <3>3. g[i].pos <= g[Len(g)].pos
      BY <1>1, <3>2 DEF Script
    <3> QED BY <1>2, <2>2, <3>2, <3>3
  <2> QED BY <2>3, <2>4
<1>5. h # << >>
  BY <1>1, <1>2
<1> QED BY <1>1, <1>2, <1>3, <1>4, <1>5 DEF Script, h

LEMMA ReachStays ==
  ASSUME NEW f, NEW x, Reaches(f, x), bins \in Seq(BinType), bins' \in Seq(BinType),
         Adds(bins, bins'), dctx' = dctx
  PROVE  Reaches(f, x)'
<1>1. PICK g \in Seq(DState) : Script(f, bins, g) /\ g[1] = Fresh /\ g[Len(g)] = x
  BY DEF Reaches
<1>2. Script(f, bins', g) /\ Fresh' = Fresh
  BY <1>1, ScriptStays DEF Fresh
<1> QED BY <1>1, <1>2 DEF Reaches

LEMMA ReachNext ==
  ASSUME NEW f, NEW x, Reaches(f, x), bins \in Seq(BinType), bins' \in Seq(BinType),
         Adds(bins, bins'), dctx' = dctx, NEW y \in DState, Move(f, bins', x, y)
  PROVE  Reaches(f, y)'
<1>1. PICK g \in Seq(DState) : Script(f, bins, g) /\ g[1] = Fresh /\ g[Len(g)] = x
  BY DEF Reaches
<1>2. Script(f, bins', g) /\ Fresh' = Fresh
  BY <1>1, ScriptStays DEF Fresh
<1>3. PICK h : h = Append(g, y)
  OBVIOUS
<1>4. h \in Seq(DState) /\ Script(f, bins', h) /\ h[1] = g[1] /\ h[Len(h)] = y
  BY <1>1, <1>2, <1>3, ScriptGrows
<1> QED BY <1>1, <1>2, <1>4 DEF Reaches

LEMMA ReachType ==
  ASSUME NEW f, NEW x, Reaches(f, x)
  PROVE  x \in DState
BY DEF Reaches, Script

-----------------------------------------------------------------------------
(* What is true while the encoder is at work: a decoder of any stream that  *)
(* is possible gets to where the encoder is.                                *)

Now(f) == Dec(pc, range, Distance(f), ectx, Shifted + 9, Len(bins))
Stopped(f, p, n) ==
  \E x \in DState : Reaches(f, x) /\ x.pc = p /\ x.pos = n /\ x.ctx = ectx /\ x.got = Len(bins)
Closing == bins # << >> /\ bins[Len(bins)] = End

(* After the last bin the encoder doubles range from 2 to 256, which a      *)
(* decoder leaves out: this is the j-th of these rounds.                    *)
Doubled(j) ==
  \/ j = 0 /\ range = 2
  \/ j = 1 /\ range = 4 /\ low % 2 = 0
  \/ j = 2 /\ range = 8 /\ low % 4 = 0
  \/ j = 3 /\ range = 16 /\ low % 8 = 0
  \/ j = 4 /\ range = 32 /\ low % 16 = 0
  \/ j = 5 /\ range = 64 /\ low % 32 = 0
  \/ j = 6 /\ range = 128 /\ low % 64 = 0
  \/ j = 7 /\ range = 256 /\ low % 128 = 0

Unread == dpc = "off" /\ pos = 0 /\ got = << >> /\ drange = 0 /\ offset = 0 /\ ~damaged
AtRest == pc \in {"init", "ended"} => \A f \in Stream : Extends(f, out) => Stopped(f, pc, Len(out))
Coding ==
  pc = "bin" \/ (pc = "renorm" /\ ~Closing) => \A f \in Stream : Possible(f) => Reaches(f, Now(f))
Flushing ==
  pc = "flush" \/ (pc = "renorm" /\ Closing) =>
    \E j \in 0 .. 7 : Doubled(j) /\ \A f \in Stream : Possible(f) => Stopped(f, "ended", Shifted + 9 - j)

Encoding == pc # "sent" => Unread /\ AtRest /\ Coding /\ Flushing

LEMMA DecIsState ==
  ASSUME NEW p \in {"init", "bin", "renorm", "ended"}, NEW r \in Nat, NEW o \in Nat,
         NEW c \in [Ctx -> Context], NEW n \in Nat, NEW g \in Nat
  PROVE  Dec(p, r, o, c, n, g) \in DState
BY DEF Dec, DState

LEMMA AddsNone == ASSUME NEW s \in Seq(BinType) PROVE Adds(s, s)
BY DEF Adds

LEMMA AddsOne ==
  ASSUME NEW s \in Seq(BinType), NEW e \in BinType
  PROVE  Append(s, e) \in Seq(BinType) /\ Adds(s, Append(s, e))
         /\ Len(Append(s, e)) = Len(s) + 1 /\ Append(s, e)[Len(s) + 1] = e
BY DEF Adds

LEMMA EncodingInit == Init => Encoding
<1> SUFFICES ASSUME Init PROVE Encoding
  OBVIOUS
<1>1. pc = "init" /\ Len(out) = 0 /\ bins = << >> /\ ectx = dctx /\ ectx \in [Ctx -> Context]
  <2>1. PICK qp \in SliceQp : ectx = [c \in Ctx |-> InitCtx(c, qp)]
    BY DEF Init
  <2> QED BY <2>1, InitCtxType DEF Init
<1>2. Fresh \in DState /\ Fresh.pc = "init" /\ Fresh.pos = 0 /\ Fresh.ctx = ectx /\ Fresh.got = 0
  BY <1>1 DEF Fresh, Dec, DState
<1>3. ASSUME NEW f PROVE Reaches(f, Fresh)
  <2>1. PICK g : g = << Fresh >>
    OBVIOUS
  <2>2. /\ g \in Seq(DState) /\ g # << >> /\ Len(g) = 1 /\ g[1] = Fresh /\ DOMAIN g = {1}
        /\ Fresh.pos \in Nat
    BY <1>2, <2>1
  <2>3. Script(f, bins, g)
    BY <2>2 DEF Script
  <2> QED BY <2>2, <2>3 DEF Reaches
<1>4. AtRest
  BY <1>1, <1>2, <1>3 DEF AtRest, Stopped
<1> QED BY <1>1, <1>4 DEF Init, Encoding, Unread, Coding, Flushing

LEMMA InitArithEncodes == ASSUME IInv, Encoding, InitArith PROVE Encoding'
<1>1. /\ pc = "init" /\ range' = 510 /\ low' = 0 /\ first' = 1 /\ outstanding' = 0 /\ pc' = "bin"
      /\ UNCHANGED << ectx, bins, out, damaged, decoder >> /\ Len(out) % 8 = 0
  BY DEF InitArith, IInv, EncOK, AtByte, ByteBits
<1>2. /\ out \in Seq(Bit) /\ Len(out) \in Nat /\ bins \in Seq(BinType) /\ Len(bins) \in Nat
      /\ ectx \in [Ctx -> Context]
  BY DEF IInv, EncOK, EncType, BinType
<1>3. Shifted' = Len(out)
  BY <1>1, <1>2 DEF Shifted
<1>4. ASSUME NEW f \in Stream, Possible(f)' PROVE Reaches(f, Now(f))'
  <2>1. PICK n \in 0 .. 511 : n = Nine(f, Len(out))
    BY <1>2, NineType
  <2>2. Distance(f)' = n /\ n \in 0 .. 509 /\ Extends(f, out)
    <3>1. Lead(f)' = 0
      BY <1>1 DEF Lead
    <3>2. Register(f)' = 512 * 0 + n
      BY <1>3, <2>1, <3>1 DEF Register
    <3>3. Distance(f)' = n
      BY <1>1, <3>2 DEF Distance
    <3> QED BY <1>1, <1>4, <3>3 DEF Possible
  <2>3. PICK x \in DState : /\ Reaches(f, x) /\ x.pc = "init" /\ x.pos = Len(out)
                            /\ x.ctx = ectx /\ x.got = Len(bins)
    BY <1>1, <2>2 DEF Encoding, AtRest, Stopped
  <2>4. PICK y : y = Dec("bin", 510, n, ectx, Len(out) + 9, Len(bins))
    OBVIOUS
  <2>5. y \in DState
    BY <1>2, <2>4 DEF Dec, DState
  <2>6. y = Now(f)'
    BY <1>1, <1>3, <2>2, <2>4 DEF Now
  <2>7. StartMove(f, x, y)
    BY <1>1, <2>2, <2>3, <2>4, <2>1 DEF StartMove, ByteBits
  <2>8. x.pos <= y.pos
    BY <1>2, <2>3, <2>4 DEF Dec
  <2>9. Move(f, bins', x, y)
    BY <2>7, <2>8 DEF Move
  <2>10. bins' = bins /\ dctx' = dctx
    BY <1>1 DEF decoder
  <2> QED BY <1>2, <2>3, <2>5, <2>6, <2>9, <2>10, AddsNone, ReachNext
<1>5. Unread'
  BY <1>1 DEF Encoding, Unread, decoder
<1> QED BY <1>1, <1>4, <1>5 DEF Encoding, AtRest, Coding, Flushing

(* The same round, seen from behind. *)
LEMMA ShiftBack ==
  ASSUME EncType, NEW a \in Nat, NEW next, Shift(2 * low + a, next), first = 1 => 2 * low + a < 1024,
         NEW f \in Stream, Extends(f, out)', Waiting(f)'
  PROVE  /\ Extends(f, out) /\ Waiting(f) /\ Shifted \in Nat /\ Shifted' = Shifted + 1
         /\ Distance(f) \in Int /\ f[Shifted + 10] \in {0, 1}
         /\ Distance(f)' = 2 * Distance(f) + f[Shifted + 10] - a
         /\ pc' = next
<1>1. low \in Nat
  BY DEF EncType
<1>2. PICK l \in Nat : l = 2 * low + a
  BY <1>1
<1>3. Shift(l, next) /\ (first = 1 => l < 1024) /\ Extends(f, out')
  BY <1>2 DEF Extends
<1>4. /\ Extends(f, out) /\ Waiting(f) /\ Shifted \in Nat /\ Shifted' = Shifted + 1
      /\ Register(f) \in Nat
      /\ Distance(f)' = 2 * Register(f) + f[Shifted + 10] - l
  BY <1>3, ShiftFlows
<1>5. f[Shifted + 10] \in {0, 1}
  BY <1>4 DEF Stream, Bit
<1>6. /\ Distance(f) \in Int
      /\ 2 * Register(f) + f[Shifted + 10] - l = 2 * Distance(f) + f[Shifted + 10] - a
  BY <1>1, <1>2, <1>4, <1>5 DEF Distance
<1>7. pc' = next
  BY <1>3 DEF Shift, EncType, Bit
<1> QED BY <1>4, <1>5, <1>6, <1>7

LEMMA UnreadStays ==
  ASSUME Unread, UNCHANGED << damaged, decoder >>
  PROVE  Unread' /\ dctx' = dctx
BY DEF Unread, decoder

(* What the encoder's fields are. *)
LEMMA EncFacts ==
  ASSUME IInv
  PROVE  /\ EncType /\ out \in Seq(Bit) /\ Len(out) \in Nat /\ bins \in Seq(BinType) /\ Len(bins) \in Nat
         /\ ectx \in [Ctx -> Context] /\ first \in {0, 1} /\ outstanding \in Nat
         /\ low \in Nat /\ range \in Nat /\ Shifted \in Nat
BY DEF IInv, EncOK, EncType, BinType, Bit, Shifted

LEMMA RegisterType ==
  ASSUME IInv, NEW f \in Stream
  PROVE  \E g \in Nat : g = Register(f)
<1>1. Shifted \in Nat /\ Lead(f) \in {0, 1}
  BY EncFacts DEF Lead, Stream, Bit
<1>2. PICK n \in 0 .. 511 : n = Nine(f, Shifted)
  BY <1>1, NineType
<1>3. PICK h \in {0, 1} : h = Lead(f)
  BY <1>1
<1>4. 512 * h + n \in Nat
  BY <1>2, <1>3
<1> QED BY <1>2, <1>3, <1>4 DEF Register

LEMMA RenormEncodes == ASSUME IInv, Encoding, Renorm PROVE Encoding'
<1>1. /\ EncType /\ bins \in Seq(BinType) /\ Len(bins) \in Nat /\ ectx \in [Ctx -> Context]
      /\ low \in Nat /\ Shifted \in Nat
  BY EncFacts
<1>2. range \in 1 .. 255 /\ (first = 1 => low + range <= 512)
  BY DEF Renorm, IInv, EncOK, Interval
<1>3. /\ pc = "renorm" /\ range' = 2 * range /\ UNCHANGED << ectx, bins, damaged, decoder >>
      /\ Shift(2 * low, After(2 * range, bins))
  BY DEF Renorm
<1>4. PICK next : next = After(2 * range, bins)
  OBVIOUS
<1>5. /\ 2 * range < 256 => next = "renorm"
      /\ 2 * range >= 256 /\ Closing => next = "flush"
      /\ 2 * range >= 256 /\ ~Closing => next = "bin"
  BY <1>2, <1>4 DEF After, Closing, Last
<1>6. Unread /\ Unread' /\ bins' = bins /\ dctx' = dctx /\ Adds(bins, bins') /\ (Closing' <=> Closing)
  BY <1>1, <1>3, UnreadStays, AddsNone DEF Encoding, Closing
<1>7. Shift(2 * low + 0, next) /\ (first = 1 => 2 * low + 0 < 1024)
  BY <1>1, <1>2, <1>3, <1>4
<1>8. pc' = next
  BY <1>1, <1>7 DEF Shift, EncType, Bit
<1>9. ASSUME NEW f \in Stream, Possible(f)'
      PROVE  \E d \in 0 .. range - 1, v \in {0, 1} :
                /\ Distance(f) = d /\ f[Shifted + 10] = v /\ Distance(f)' = 2 * d + v
                /\ Shifted' = Shifted + 1 /\ Possible(f)
  <2>1. /\ Extends(f, out) /\ Waiting(f) /\ Shifted' = Shifted + 1
        /\ Distance(f) \in Int /\ f[Shifted + 10] \in {0, 1}
        /\ Distance(f)' = 2 * Distance(f) + f[Shifted + 10] - 0
    BY <1>1, <1>7, <1>9, ShiftBack DEF Possible
  <2>2. PICK d \in Int, v \in {0, 1} : d = Distance(f) /\ v = f[Shifted + 10]
    BY <2>1
  <2>3. Distance(f)' = 2 * d + v
    BY <2>1, <2>2
  <2>4. 2 * d + v \in 0 .. 2 * range - 1
    BY <1>3, <1>9, <2>3 DEF Possible
  <2>5. d \in 0 .. range - 1
    BY <1>2, <2>4
  <2> QED BY <2>1, <2>2, <2>3, <2>5 DEF Possible
<1>10. CASE ~Closing
  <2>1. ASSUME NEW f \in Stream, Possible(f)' PROVE Reaches(f, Now(f))'
    <3>1. PICK d \in 0 .. range - 1, v \in {0, 1} :
                /\ Distance(f) = d /\ f[Shifted + 10] = v /\ Distance(f)' = 2 * d + v
                /\ Shifted' = Shifted + 1 /\ Possible(f)
      BY <1>9, <2>1
    <3>2. PICK n \in Nat : n = Shifted
      BY <1>1
    <3>3. PICK x : x = Dec("renorm", range, d, ectx, n + 9, Len(bins))
      OBVIOUS
    <3>4. Reaches(f, x)
      BY <1>3, <1>10, <3>1, <3>2, <3>3 DEF Encoding, Coding, Now
    <3>5. PICK y : y = Dec(next, 2 * range, 2 * d + v, ectx, n + 10, Len(bins))
      OBVIOUS
    <3>6. next \in {"bin", "renorm"} /\ next = DAfter(2 * range)
      BY <1>2, <1>5, <1>10 DEF DAfter
    <3>7. y \in DState
      BY <1>1, <1>2, <3>1, <3>2, <3>5, <3>6 DEF Dec, DState
    <3>8. /\ x.pc = "renorm" /\ x.range = range /\ x.offset = d /\ x.ctx = ectx
          /\ x.pos = n + 9 /\ x.got = Len(bins)
      BY <3>3 DEF Dec
    <3>9. x.pos + 1 = n + 10 /\ x.pos <= n + 10 /\ y.pos = n + 10
      BY <3>2, <3>5, <3>8 DEF Dec
    <3>10. RenormMove(f, x, y)
      BY <3>1, <3>2, <3>5, <3>6, <3>8, <3>9 DEF RenormMove
    <3>11. Move(f, bins', x, y)
      BY <3>9, <3>10 DEF Move
    <3>12. y = Now(f)'
      <4>1. Shifted' + 9 = n + 10
        BY <3>1, <3>2
      <4> QED BY <1>3, <1>6, <1>8, <3>1, <3>5, <4>1 DEF Now
    <3> QED BY <1>1, <1>6, <3>4, <3>7, <3>11, <3>12, ReachNext
  <2> QED BY <1>2, <1>5, <1>6, <1>8, <1>10, <2>1 DEF Encoding, AtRest, Coding, Flushing
<1>11. CASE Closing
  <2>1. PICK j \in 0 .. 7 : Doubled(j) /\ \A f \in Stream : Possible(f) => Stopped(f, "ended", Shifted + 9 - j)
    BY <1>3, <1>11 DEF Encoding, Flushing
  <2>2. j + 1 \in 0 .. 7 /\ Doubled(j + 1)'
    <3>1. low' \in {2 * low, 2 * low - 512, 2 * low - 1024}
      BY <1>3 DEF Shift
    <3>2. PICK r, m, i : r = range' /\ m = low' /\ i = j + 1
      OBVIOUS
    <3>3. r = 2 * range /\ m \in {2 * low, 2 * low - 512, 2 * low - 1024} /\ i = j + 1
      BY <1>3, <3>1, <3>2
    <3>4. \/ i = 1 /\ r = 4 /\ m % 2 = 0
          \/ i = 2 /\ r = 8 /\ m % 4 = 0
          \/ i = 3 /\ r = 16 /\ m % 8 = 0
          \/ i = 4 /\ r = 32 /\ m % 16 = 0
          \/ i = 5 /\ r = 64 /\ m % 32 = 0
          \/ i = 6 /\ r = 128 /\ m % 64 = 0
          \/ i = 7 /\ r = 256 /\ m % 128 = 0
      BY <1>1, <1>2, <2>1, <3>3 DEF Doubled
    <3>5. i \in 0 .. 7
      BY <3>4
    <3> QED BY <3>2, <3>4, <3>5 DEF Doubled
  <2>3. ASSUME NEW f \in Stream, Possible(f)' PROVE Stopped(f, "ended", Shifted + 9 - (j + 1))'
    <3>1. Possible(f) /\ Shifted' = Shifted + 1
      BY <1>9, <2>3
    <3>2. Stopped(f, "ended", Shifted + 9 - j)
      BY <2>1, <3>1
    <3>3. Shifted' + 9 - (j + 1) = Shifted + 9 - j
      BY <1>1, <3>1
    <3>4. PICK x \in DState : /\ Reaches(f, x) /\ x.pc = "ended" /\ x.pos = Shifted + 9 - j
                              /\ x.ctx = ectx /\ x.got = Len(bins)
      BY <3>2 DEF Stopped
    <3>5. Reaches(f, x)'
      BY <1>1, <1>6, <3>4, ReachStays
    <3> QED BY <1>3, <3>3, <3>4, <3>5 DEF Stopped
  <2>4. Flushing'
    BY <2>2, <2>3 DEF Flushing
  <2> QED BY <1>2, <1>5, <1>6, <1>8, <1>11, <2>4 DEF Encoding, AtRest, Coding
<1> QED BY <1>10, <1>11

(* A bin that was added is the one a decoder is about to decode.            *)
LEMMA NewBin ==
  ASSUME IInv, NEW k \in Kind, NEW b \in Bit, Encode(k, b)
  PROVE  /\ pc = "bin" /\ bins' \in Seq(BinType) /\ Adds(bins, bins') /\ Len(bins') = Len(bins) + 1
         /\ bins'[Len(bins) + 1] = [kind |-> k, bin |-> b]
         /\ Closing' <=> [kind |-> k, bin |-> b] = End
<1>1. bins \in Seq(BinType) /\ Len(bins) \in Nat
  BY EncFacts
<1>2. /\ pc = "bin" /\ bins' = Append(bins, [kind |-> k, bin |-> b])
      /\ [kind |-> k, bin |-> b] \in BinType
  BY DEF Encode, BinType
<1>3. /\ bins' \in Seq(BinType) /\ Adds(bins, bins') /\ Len(bins') = Len(bins) + 1
      /\ bins'[Len(bins) + 1] = [kind |-> k, bin |-> b]
  BY <1>1, <1>2, AddsOne
<1>4. bins' # << >> /\ bins'[Len(bins')] = [kind |-> k, bin |-> b]
  BY <1>1, <1>3
<1> QED BY <1>2, <1>3, <1>4 DEF Closing

LEMMA KindsDiffer ==
  \A c \in Ctx : c # "bypass" /\ c # "terminate" /\ c # "pcm" /\ c \in Kind
BY CtxAssumption DEF Kind

LEMMA DecisionEncodes ==
  ASSUME IInv, Encoding, NEW c \in Ctx, NEW b \in Bit, Decision(c, b) PROVE Encoding'
<1>1. /\ EncType /\ bins \in Seq(BinType) /\ Len(bins) \in Nat /\ ectx \in [Ctx -> Context]
      /\ low \in Nat /\ Shifted \in Nat
  BY EncFacts
<1>2. /\ pc = "bin" /\ bins' \in Seq(BinType) /\ Adds(bins, bins') /\ Len(bins') = Len(bins) + 1
      /\ bins'[Len(bins) + 1] = [kind |-> c, bin |-> b]
      /\ Closing' <=> [kind |-> c, bin |-> b] = End
  BY KindsDiffer, NewBin DEF Decision
<1>3. ~Closing'
  BY <1>2, KindsDiffer DEF End
<1>4. range \in 256 .. 510
  BY <1>2 DEF IInv, EncOK, Interval
<1>5. PICK lps : lps = LPS(ectx[c], range)
  OBVIOUS
<1>6. lps \in 1 .. range - 1
  <2>1. ectx[c] \in Context
    BY <1>1
  <2> QED BY <1>4, <1>5, <2>1, LpsInside
<1>7. PICK most, ctx : most = range - lps /\ ctx = [ectx EXCEPT ![c] = Learn(@, b)]
  OBVIOUS
<1>8. ctx \in [Ctx -> Context]
  BY <1>1, <1>7, LearnedType
<1>9. PICK r, k : r = range' /\ k = low' - low
  OBVIOUS
<1>10. /\ \/ b = ectx[c].mps /\ r = most /\ low' = low
          \/ b # ectx[c].mps /\ r = lps /\ low' = low + most
       /\ ectx' = ctx /\ pc' = After(r, bins')
       /\ UNCHANGED << first, outstanding, out, damaged, decoder >>
  BY <1>5, <1>7, <1>9 DEF Decision
<1>11. most \in 1 .. 509 /\ r \in 1 .. 509
  BY <1>4, <1>6, <1>7, <1>10
<1>12. pc' = DAfter(r) /\ pc' \in {"bin", "renorm"}
  BY <1>2, <1>3, <1>10 DEF After, DAfter, Closing, Last
<1>13. Unread' /\ dctx' = dctx /\ Shifted' = Shifted
  BY <1>2, <1>10, UnreadStays DEF Encoding, Shifted
<1>14. ASSUME NEW f \in Stream, Possible(f)' PROVE Reaches(f, Now(f))'
  <2>1. Register(f)' = Register(f) /\ (Waiting(f)' => Waiting(f)) /\ (Extends(f, out)' => Extends(f, out))
    BY <1>10 DEF Register, Waiting, Extends, Lead, Shifted
  <2>2. PICK g \in Nat : g = Register(f)
    BY RegisterType
  <2>3. Distance(f) = g - low /\ Distance(f)' = g - low'
    BY <2>1, <2>2 DEF Distance
  <2>4. g - low' \in 0 .. r - 1
    BY <1>9, <1>14, <2>3 DEF Possible
  <2>5. PICK d, n : d = g - low /\ n = Shifted
    OBVIOUS
  <2>6. /\ \/ b = ectx[c].mps /\ r = most /\ d < most /\ g - low' = d
           \/ b # ectx[c].mps /\ r = lps /\ d >= most /\ g - low' = d - most
        /\ d \in 0 .. range - 1 /\ n \in Nat
    BY <1>1, <1>4, <1>6, <1>7, <1>10, <2>4, <2>5
  <2>7. Possible(f)
    BY <1>14, <2>1, <2>3, <2>5, <2>6 DEF Possible
  <2>8. PICK x : x = Dec("bin", range, d, ectx, n + 9, Len(bins))
    OBVIOUS
  <2>9. Reaches(f, x)
    BY <1>2, <2>3, <2>5, <2>7, <2>8 DEF Encoding, Coding, Now
  <2>10. PICK y : y = Dec(DAfter(r), r, g - low', ctx, n + 9, Len(bins) + 1)
    OBVIOUS
  <2>11. y \in DState
    BY <1>1, <1>8, <1>11, <1>12, <2>4, <2>6, <2>10 DEF Dec, DState
  <2>12. /\ x.pc = "bin" /\ x.range = range /\ x.offset = d /\ x.ctx = ectx /\ x.pos = n + 9
         /\ x.got = Len(bins)
    BY <2>8 DEF Dec
  <2>13. DecisionMove(c, b, x, y)
    <3>1. /\ LPS(x.ctx[c], x.range) = lps /\ x.range - lps = most
          /\ [x.ctx EXCEPT ![c] = Learn(@, b)] = ctx
      BY <1>5, <1>7, <2>12
    <3>2. /\ x.pc = "bin"
          /\ \/ /\ b = x.ctx[c].mps /\ x.offset < most
                /\ y = Dec(DAfter(most), most, x.offset, ctx, x.pos, x.got + 1)
             \/ /\ b # x.ctx[c].mps /\ x.offset >= most
                /\ y = Dec(DAfter(lps), lps, x.offset - most, ctx, x.pos, x.got + 1)
      BY <2>6, <2>10, <2>12
    <3> QED BY <3>1, <3>2, Zenon DEF DecisionMove
  <2>14. BinMove(f, bins'[x.got + 1], x, y)
    BY <1>2, <2>12, <2>13 DEF BinMove
  <2>15. x.pos <= y.pos /\ x.got < Len(bins')
    BY <1>1, <1>2, <2>6, <2>10, <2>12 DEF Dec
  <2>16. Move(f, bins', x, y)
    BY <2>14, <2>15 DEF Move
  <2>17. y = Now(f)'
    BY <1>2, <1>9, <1>10, <1>12, <1>13, <2>3, <2>5, <2>10 DEF Now
  <2> QED BY <1>1, <1>2, <1>13, <2>9, <2>11, <2>16, <2>17, ReachNext
<1> QED BY <1>3, <1>12, <1>13, <1>14 DEF Encoding, AtRest, Coding, Flushing

LEMMA BypassEncodes == ASSUME IInv, Encoding, NEW b \in Bit, Bypass(b) PROVE Encoding'
<1>1. /\ EncType /\ bins \in Seq(BinType) /\ Len(bins) \in Nat /\ ectx \in [Ctx -> Context]
      /\ low \in Nat /\ Shifted \in Nat
  BY EncFacts
<1>2. /\ pc = "bin" /\ bins' \in Seq(BinType) /\ Adds(bins, bins') /\ Len(bins') = Len(bins) + 1
      /\ bins'[Len(bins) + 1] = [kind |-> "bypass", bin |-> b]
      /\ Closing' <=> [kind |-> "bypass", bin |-> b] = End
  BY NewBin DEF Bypass, Kind
<1>3. range \in 256 .. 510 /\ (first = 1 => low + range <= 512)
  BY <1>2 DEF IInv, EncOK, Interval
<1>4. Shift(2 * low + b * range, "bin") /\ UNCHANGED << range, ectx, damaged, decoder >>
  BY DEF Bypass
<1>5. PICK a \in Nat : a = b * range /\ (b = 0 => a = 0) /\ (b = 1 => a = range)
  BY <1>3 DEF Bit
<1>6. b \in {0, 1} /\ a <= range
  BY <1>3, <1>5 DEF Bit
<1>7. Shift(2 * low + a, "bin") /\ (first = 1 => 2 * low + a < 1024)
  BY <1>1, <1>3, <1>4, <1>5, <1>6
<1>8. pc' = "bin"
  BY <1>1, <1>7 DEF Shift, EncType, Bit
<1>9. Unread' /\ dctx' = dctx
  BY <1>2, <1>4, UnreadStays DEF Encoding
<1>10. ASSUME NEW f \in Stream, Possible(f)' PROVE Reaches(f, Now(f))'
  <2>1. /\ Extends(f, out) /\ Waiting(f) /\ Shifted' = Shifted + 1
        /\ Distance(f) \in Int /\ f[Shifted + 10] \in {0, 1}
        /\ Distance(f)' = 2 * Distance(f) + f[Shifted + 10] - a
    BY <1>1, <1>7, <1>10, ShiftBack DEF Possible
  <2>2. PICK d \in Int, v \in {0, 1} : d = Distance(f) /\ v = f[Shifted + 10]
    BY <2>1
  <2>3. PICK o : o = 2 * d + v
    OBVIOUS
  <2>4. o \in Int /\ Distance(f)' = o - a
    BY <2>1, <2>2, <2>3
  <2>5. o - a \in 0 .. range - 1
    BY <1>4, <1>10, <2>4 DEF Possible
  <2>6. d \in 0 .. range - 1 /\ (o >= range <=> b = 1) /\ o - a = IF b = 1 THEN o - range ELSE o
    BY <1>3, <1>5, <1>6, <2>3, <2>5
  <2>7. Possible(f)
    BY <2>1, <2>2, <2>6 DEF Possible
  <2>8. PICK n \in Nat : n = Shifted
    BY <1>1
  <2>9. PICK x : x = Dec("bin", range, d, ectx, n + 9, Len(bins))
    OBVIOUS
  <2>10. Reaches(f, x)
    BY <1>2, <2>2, <2>7, <2>8, <2>9 DEF Encoding, Coding, Now
  <2>11. PICK y : y = Dec("bin", range, o - a, ectx, n + 10, Len(bins) + 1)
    OBVIOUS
  <2>12. y \in DState
    BY <1>1, <1>3, <2>5, <2>8, <2>11 DEF Dec, DState
  <2>13. /\ x.pc = "bin" /\ x.range = range /\ x.offset = d /\ x.ctx = ectx /\ x.pos = n + 9
         /\ x.got = Len(bins)
    BY <2>9 DEF Dec
  <2>14. x.pos + 1 = n + 10 /\ x.pos <= n + 10 /\ y.pos = n + 10 /\ x.got < Len(bins')
    BY <1>1, <1>2, <2>8, <2>11, <2>13 DEF Dec
  <2>15. BypassMove(f, b, x, y)
    <3>1. 2 * x.offset + f[x.pos + 1] = o
      BY <2>2, <2>3, <2>8, <2>13, <2>14
    <3>2. /\ x.pc = "bin" /\ (o >= x.range <=> b = 1)
          /\ y = Dec("bin", x.range, IF b = 1 THEN o - x.range ELSE o, x.ctx, x.pos + 1, x.got + 1)
      BY <2>6, <2>11, <2>13, <2>14
    <3> QED BY <3>1, <3>2, Zenon DEF BypassMove
  <2>16. BinMove(f, bins'[x.got + 1], x, y)
    BY <1>2, <2>13, <2>15 DEF BinMove
  <2>17. Move(f, bins', x, y)
    BY <2>14, <2>16 DEF Move
  <2>18. y = Now(f)'
    <3>1. Shifted' + 9 = n + 10
      BY <2>1, <2>8
    <3> QED BY <1>2, <1>4, <1>8, <2>4, <2>11, <3>1 DEF Now
  <2> QED BY <1>1, <1>2, <1>9, <2>10, <2>12, <2>17, <2>18, ReachNext
<1> QED BY <1>8, <1>9, <1>10 DEF Encoding, AtRest, Coding, Flushing

LEMMA TerminateEncodes == ASSUME IInv, Encoding, NEW b \in Bit, Terminate(b) PROVE Encoding'
<1>1. /\ EncType /\ bins \in Seq(BinType) /\ Len(bins) \in Nat /\ ectx \in [Ctx -> Context]
      /\ low \in Nat /\ Shifted \in Nat
  BY EncFacts
<1>2. /\ pc = "bin" /\ bins' \in Seq(BinType) /\ Adds(bins, bins') /\ Len(bins') = Len(bins) + 1
      /\ bins'[Len(bins) + 1] = [kind |-> "terminate", bin |-> b]
      /\ Closing' <=> [kind |-> "terminate", bin |-> b] = End
  BY NewBin DEF Terminate, Kind
<1>3. range \in 256 .. 510
  BY <1>2 DEF IInv, EncOK, Interval
<1>4. PICK r : r = range'
  OBVIOUS
<1>5. /\ \/ b = 1 /\ r = 2 /\ low' = low + (range - 2)
         \/ b # 1 /\ r = range - 2 /\ low' = low
      /\ pc' = After(r, bins')
      /\ UNCHANGED << first, outstanding, ectx, out, damaged, decoder >>
  BY <1>4 DEF Terminate
<1>6. Closing' <=> b = 1
  BY <1>2 DEF End
<1>7. Unread' /\ dctx' = dctx /\ Shifted' = Shifted
  BY <1>2, <1>5, UnreadStays DEF Encoding, Shifted
<1>8. ASSUME NEW f \in Stream, Possible(f)'
      PROVE  \E x, y \in DState, d \in Nat :
               /\ Reaches(f, y)' /\ Distance(f)' = d - (low' - low)
               /\ y = Dec(IF b = 1 THEN "ended" ELSE DAfter(range - 2), range - 2, d, ectx,
                          Shifted + 9, Len(bins) + 1)
  <2>1. Register(f)' = Register(f) /\ (Waiting(f)' => Waiting(f)) /\ (Extends(f, out)' => Extends(f, out))
    BY <1>5 DEF Register, Waiting, Extends, Lead, Shifted
  <2>2. PICK g \in Nat : g = Register(f)
    BY RegisterType
  <2>3. Distance(f) = g - low /\ Distance(f)' = g - low'
    BY <2>1, <2>2 DEF Distance
  <2>4. g - low' \in 0 .. r - 1
    BY <1>4, <1>8, <2>3 DEF Possible
  <2>5. PICK d, n : d = g - low /\ n = Shifted
    OBVIOUS
  <2>6. d \in 0 .. range - 1 /\ (d >= range - 2 <=> b = 1) /\ n \in Nat /\ g - low' = d - (low' - low)
    <3>1. PICK k, m : k = low' /\ m = low
      OBVIOUS
    <3>2. /\ m \in Nat
          /\ \/ b = 1 /\ r = 2 /\ k = m + (range - 2)
             \/ b # 1 /\ r = range - 2 /\ k = m
      BY <1>1, <1>5, <3>1
    <3>3. g - k \in 0 .. r - 1 /\ d = g - m
      BY <2>4, <2>5, <3>1
    <3>4. d \in 0 .. range - 1 /\ (d >= range - 2 <=> b = 1) /\ g - k = d - (k - m)
      BY <1>3, <3>2, <3>3
    <3> QED BY <1>1, <2>5, <3>1, <3>4
  <2>7. Possible(f)
    BY <1>8, <2>1, <2>3, <2>5, <2>6 DEF Possible
  <2>8. PICK x : x = Dec("bin", range, d, ectx, n + 9, Len(bins))
    OBVIOUS
  <2>9. Reaches(f, x)
    BY <1>2, <2>3, <2>5, <2>7, <2>8 DEF Encoding, Coding, Now
  <2>10. PICK p, y : /\ p = (IF b = 1 THEN "ended" ELSE DAfter(range - 2))
                     /\ y = Dec(p, range - 2, d, ectx, n + 9, Len(bins) + 1)
    OBVIOUS
  <2>11. p \in {"ended", "bin", "renorm"}
    BY <2>10 DEF DAfter
  <2>12. y \in DState
    BY <1>1, <1>3, <2>6, <2>10, <2>11 DEF Dec, DState
  <2>13. /\ x.pc = "bin" /\ x.range = range /\ x.offset = d /\ x.ctx = ectx /\ x.pos = n + 9
         /\ x.got = Len(bins)
    BY <2>8 DEF Dec
  <2>14. x.pos <= y.pos /\ x.got < Len(bins')
    BY <1>1, <1>2, <2>6, <2>10, <2>13 DEF Dec
  <2>15. TerminateMove(b, x, y)
    BY <2>6, <2>10, <2>13 DEF TerminateMove
  <2>16. BinMove(f, bins'[x.got + 1], x, y)
    BY <1>2, <2>13, <2>15 DEF BinMove
  <2>17. Move(f, bins', x, y)
    BY <2>14, <2>16 DEF Move
  <2>18. Reaches(f, y)'
    BY <1>1, <1>2, <1>7, <2>9, <2>12, <2>17, ReachNext
  <2>19. x \in DState /\ d \in Nat /\ Distance(f)' = d - (low' - low)
    BY <2>3, <2>6, <2>9, ReachType
  <2> QED BY <2>5, <2>10, <2>12, <2>18, <2>19
<1>9. CASE b = 1
  <2>1. r = 2 /\ pc' = "renorm" /\ Closing'
    BY <1>5, <1>6, <1>9 DEF After
  <2>2. Doubled(0)'
    BY <1>4, <2>1 DEF Doubled
  <2>3. ASSUME NEW f \in Stream, Possible(f)' PROVE Stopped(f, "ended", Shifted + 9 - 0)'
    <3>1. PICK y \in DState, d \in Nat :
             Reaches(f, y)' /\ y = Dec("ended", range - 2, d, ectx, Shifted + 9, Len(bins) + 1)
      BY <1>8, <1>9, <2>3
    <3>2. y.pc = "ended" /\ y.pos = Shifted + 9 /\ y.ctx = ectx /\ y.got = Len(bins) + 1
      BY <3>1 DEF Dec
    <3>3. Shifted + 9 - 0 = Shifted + 9
      BY <1>1
    <3> QED BY <1>2, <1>5, <1>7, <3>1, <3>2, <3>3 DEF Stopped
  <2>4. Flushing'
    <3>1. 0 \in 0 .. 7
      OBVIOUS
    <3> QED BY <2>2, <2>3, <3>1 DEF Flushing
  <2> QED BY <1>7, <2>1, <2>4 DEF Encoding, AtRest, Coding
<1>10. CASE b # 1
  <2>1. r = range - 2 /\ low' = low /\ ~Closing'
    BY <1>5, <1>6, <1>10
  <2>2. pc' = DAfter(r) /\ pc' \in {"bin", "renorm"}
    BY <1>5, <2>1 DEF After, DAfter, Closing, Last
  <2>3. ASSUME NEW f \in Stream, Possible(f)' PROVE Reaches(f, Now(f))'
    <3>1. PICK y \in DState, d \in Nat :
             /\ Reaches(f, y)' /\ Distance(f)' = d - (low' - low)
             /\ y = Dec(DAfter(range - 2), range - 2, d, ectx, Shifted + 9, Len(bins) + 1)
      BY <1>8, <1>10, <2>3
    <3>2. Distance(f)' = d
      BY <1>1, <2>1, <3>1
    <3>3. y = Now(f)'
      BY <1>2, <1>4, <1>5, <1>7, <2>1, <2>2, <3>1, <3>2 DEF Now
    <3> QED BY <3>1, <3>3
  <2> QED BY <1>7, <2>1, <2>2, <2>3 DEF Encoding, AtRest, Coding, Flushing
<1> QED BY <1>9, <1>10

LEMMA NineSplit ==
  ASSUME NEW f \in Stream, NEW k \in Nat
  PROVE  \E r \in 0 .. 127 : Nine(f, k) = 256 * f[k + 1] + 128 * f[k + 2] + r
<1>1. \A i \in Nat : f[i] \in {0, 1}
  BY DEF Stream, Bit
<1>2. /\ f[k + 1] \in {0, 1} /\ f[k + 2] \in {0, 1} /\ f[k + 3] \in {0, 1} /\ f[k + 4] \in {0, 1}
      /\ f[k + 5] \in {0, 1} /\ f[k + 6] \in {0, 1} /\ f[k + 7] \in {0, 1} /\ f[k + 8] \in {0, 1}
      /\ f[k + 9] \in {0, 1}
  BY <1>1
<1>3. PICK r : r = 64 * f[k + 3] + 32 * f[k + 4] + 16 * f[k + 5] + 8 * f[k + 6] + 4 * f[k + 7]
                     + 2 * f[k + 8] + f[k + 9]
  OBVIOUS
<1>4. r \in 0 .. 127
  BY <1>2, <1>3
<1>5. Nine(f, k) = 256 * f[k + 1] + 128 * f[k + 2] + r
  BY <1>2, <1>3 DEF Nine
<1> QED BY <1>4, <1>5

(* The last two bits name a point of the interval. *)
LEMMA FlushEncodes == ASSUME IInv, Encoding, Flush PROVE Encoding'
<1>1. /\ EncType /\ out \in Seq(Bit) /\ Len(out) \in Nat /\ bins \in Seq(BinType)
      /\ low \in Nat /\ Shifted \in Nat /\ first \in {0, 1} /\ outstanding \in Nat
  BY EncFacts
<1>2. /\ pc = "flush" /\ range \in 256 .. 510 /\ low + range <= 1024
      /\ (first = 1 => low + range <= 512)
  BY DEF Flush, IInv, EncOK, Interval
<1>3. /\ range = 256 /\ low % 128 = 0
      /\ \A f \in Stream : Possible(f) => Stopped(f, "ended", Shifted + 9 - 7)
  <2>1. PICK j \in 0 .. 7 : Doubled(j) /\ \A f \in Stream : Possible(f) => Stopped(f, "ended", Shifted + 9 - j)
    BY <1>2 DEF Encoding, Flushing
  <2>2. j = 7 /\ range = 256 /\ low % 128 = 0
    BY <1>2, <2>1 DEF Doubled
  <2> QED BY <2>1, <2>2
<1>4. PICK high, next : high = (low \div 512) % 2 /\ next = (low \div 256) % 2
  OBVIOUS
<1>5. /\ high \in {0, 1} /\ next \in {0, 1} /\ (first = 1 => high = 0)
      /\ low - 512 * high - 256 * next \in {0, 128}
  <2>1. low \in {0, 128, 256, 384, 512, 640, 768} /\ (first = 1 => low \in {0, 128, 256})
    <3>1. PICK l \in 0 .. 768 : l = low
      BY <1>1, <1>2, <1>3
    <3>2. l % 128 = 0
      BY <1>3, <3>1
    <3>3. l \in {0, 128, 256, 384, 512, 640, 768}
      BY <3>2
    <3> QED BY <1>2, <1>3, <3>1, <3>3
  <2> QED BY <1>4, <2>1
<1>6. PICK s : s = Put(high)
  OBVIOUS
<1>7. /\ out' = s \o << next, 1 >> /\ pc' = "ended"
      /\ UNCHANGED << range, low, ectx, bins, damaged, decoder >>
  <2>1. ~(first = 1 /\ high # 0)
    BY <1>5
  <2>2. /\ out' = out \o (IF first = 1 THEN << >> ELSE << high >>)
                     \o Times(outstanding, 1 - high) \o << next, 1 >>
        /\ pc' = "ended" /\ UNCHANGED << range, low, ectx, bins, damaged, decoder >>
    BY <1>4, <2>1, ZenonT(60) DEF Flush
  <2> QED BY <1>6, <2>2, Zenon DEF Put
<1>8. /\ s \in Seq(Bit) /\ Len(s) = Shifted
      /\ \A i \in DOMAIN out : i \in DOMAIN s /\ s[i] = out[i]
      /\ first = 0 => s[Len(out) + 1] = high /\ Len(out) + 1 \in DOMAIN s
      /\ \A i \in Len(out) + 2 - first .. Shifted : s[i] = 1 - high
  <2>1. high \in Bit
    BY <1>5 DEF Bit
  <2> QED BY <1>1, <1>6, <2>1, PutBits
<1>9. PICK t : t = << next, 1 >>
  OBVIOUS
<1>10. t \in Seq(Bit) /\ Len(t) = 2 /\ t[1] = next /\ t[2] = 1
  BY <1>5, <1>9 DEF Bit
<1>11. /\ Len(out') = Shifted + 2
       /\ \A i \in DOMAIN s : i \in DOMAIN out' /\ out'[i] = s[i]
       /\ {Shifted + 1, Shifted + 2} \subseteq DOMAIN out'
       /\ out'[Shifted + 1] = next /\ out'[Shifted + 2] = 1
  <2>1. /\ out' \in Seq(Bit) /\ Len(out') = Len(s) + Len(t)
        /\ \A i \in DOMAIN s : i \in DOMAIN out' /\ out'[i] = s[i]
        /\ \A i \in Len(s) + 1 .. Len(s) + Len(t) : out'[i] = t[i - Len(s)]
    BY <1>7, <1>8, <1>9, <1>10, Joined
  <2>2. PICK n \in Nat : n = Shifted
    BY <1>1
  <2>3. n + 1 \in n + 1 .. n + 2 /\ n + 2 \in n + 1 .. n + 2 /\ n + 1 - n = 1 /\ n + 2 - n = 2
    OBVIOUS
  <2>4. Len(s) = n /\ Len(out') = n + 2 /\ Len(s) + Len(t) = n + 2
    BY <1>8, <1>10, <2>1, <2>2
  <2>5. out'[n + 1] = next /\ out'[n + 2] = 1
    BY <1>10, <2>1, <2>3, <2>4
  <2>6. n + 1 \in DOMAIN out' /\ n + 2 \in DOMAIN out'
    BY <2>1, <2>4
  <2> QED BY <2>1, <2>2, <2>4, <2>5, <2>6
<1>12. ASSUME NEW f \in Stream, Extends(f, out)' PROVE Possible(f)
  <2>1. \A i \in DOMAIN s : f[i] = s[i]
    BY <1>11, <1>12 DEF Extends
  <2>2. Extends(f, out)
    BY <1>8, <2>1 DEF Extends
  <2>3. Lead(f) = high
    BY <1>1, <1>5, <1>8, <2>1 DEF Lead
  <2>4. Waiting(f)
    <3>1. ASSUME NEW i \in Len(out) + 2 - first .. Shifted PROVE f[i] = 1 - Lead(f)
      <4>1. i \in DOMAIN s
        BY <1>1, <1>8
      <4> QED BY <1>8, <2>1, <2>3, <4>1
    <3> QED BY <3>1 DEF Waiting
  <2>5. f[Shifted + 1] = next /\ f[Shifted + 2] = 1
    BY <1>11, <1>12 DEF Extends
  <2>6. PICK k \in Nat, m \in 0 .. 127 : /\ k = Shifted
                                         /\ Nine(f, k) = 256 * f[k + 1] + 128 * f[k + 2] + m
    <3>1. PICK k \in Nat : k = Shifted
      BY <1>1
    <3>2. \E r \in 0 .. 127 : Nine(f, k) = 256 * f[k + 1] + 128 * f[k + 2] + r
      BY NineSplit
    <3> QED BY <3>1, <3>2
  <2>7. PICK r : r = 256 * next + 128 * 1 + m
    OBVIOUS
  <2>8. Distance(f) = (512 * high + r) - low
    <3>1. f[k + 1] = next /\ f[k + 2] = 1
      BY <2>5, <2>6
    <3>2. Nine(f, k) = r
      BY <2>6, <2>7, <3>1
    <3>3. Nine(f, Shifted) = r
      BY <2>6, <3>2
    <3>4. Register(f) = 512 * high + r
      BY <2>3, <3>3 DEF Register
    <3> QED BY <3>4 DEF Distance
  <2>9. (512 * high + r) - low \in 0 .. 255
    BY <1>1, <1>5, <2>7
  <2> QED BY <1>3, <2>2, <2>4, <2>8, <2>9 DEF Possible
<1>13. Unread' /\ dctx' = dctx /\ bins' = bins /\ Adds(bins, bins')
  BY <1>1, <1>2, <1>7, UnreadStays, AddsNone DEF Encoding
<1>14. ASSUME NEW f \in Stream, Extends(f, out)' PROVE Stopped(f, "ended", Len(out))'
  <2>1. Stopped(f, "ended", Shifted + 9 - 7) /\ Shifted + 9 - 7 = Len(out')
    BY <1>1, <1>3, <1>11, <1>12, <1>14
  <2>2. PICK x \in DState : /\ Reaches(f, x) /\ x.pc = "ended" /\ x.pos = Len(out')
                            /\ x.ctx = ectx /\ x.got = Len(bins)
    BY <2>1 DEF Stopped
  <2>3. Reaches(f, x)'
    BY <1>1, <1>13, <2>2, ReachStays
  <2> QED BY <1>7, <2>2, <2>3 DEF Stopped
<1> QED BY <1>7, <1>13, <1>14 DEF Encoding, AtRest, Coding, Flushing

(* What padding writes. *)
LEMMA AlignedBits ==
  ASSUME NEW s \in Seq(Bit)
  PROVE  /\ Pad(Len(s)) \in Nat /\ Aligned(s) \in Seq(Bit)
         /\ Len(Aligned(s)) = Len(s) + Pad(Len(s)) /\ Len(Aligned(s)) % ByteBits = 0
         /\ \A i \in DOMAIN s : i \in DOMAIN Aligned(s) /\ Aligned(s)[i] = s[i]
         /\ \A i \in Len(s) + 1 .. Len(s) + Pad(Len(s)) : i \in DOMAIN Aligned(s) /\ Aligned(s)[i] = 0
<1>1. PICK n : n = Pad(Len(s))
  OBVIOUS
<1>2. n \in Nat /\ (Len(s) + n) % 8 = 0
  BY <1>1 DEF Pad, ByteBits
<1>3. PICK t : t = Times(n, 0)
  OBVIOUS
<1>4. t \in Seq(Bit) /\ Len(t) = n /\ \A i \in 1 .. n : t[i] = 0
  BY <1>2, <1>3, TimesType, ZeroOne DEF Times
<1>5. Aligned(s) = s \o t
  BY <1>1, <1>3 DEF Aligned
<1>6. /\ s \o t \in Seq(Bit) /\ Len(s \o t) = Len(s) + n
      /\ \A i \in DOMAIN s : i \in DOMAIN (s \o t) /\ (s \o t)[i] = s[i]
      /\ \A i \in Len(s) + 1 .. Len(s) + n : (s \o t)[i] = t[i - Len(s)]
  BY <1>4, Joined
<1>7. \A i \in Len(s) + 1 .. Len(s) + n : i \in DOMAIN (s \o t) /\ (s \o t)[i] = 0
  BY <1>2, <1>4, <1>6
<1> QED BY <1>1, <1>2, <1>5, <1>6, <1>7 DEF ByteBits

LEMMA PcmEncodes == ASSUME IInv, Encoding, NEW b \in Bit, Pcm(b) PROVE Encoding'
<1>1. /\ out \in Seq(Bit) /\ Len(out) \in Nat /\ bins \in Seq(BinType) /\ Len(bins) \in Nat
  BY EncFacts
<1>2. /\ pc = "ended" /\ pc' = "init" /\ out' = Aligned(out) \o Times(ByteBits, b)
      /\ bins' = Append(bins, [kind |-> "pcm", bin |-> b])
      /\ UNCHANGED << range, low, first, outstanding, ectx, damaged, decoder >>
  BY DEF Pcm
<1>3. /\ bins' \in Seq(BinType) /\ Adds(bins, bins') /\ Len(bins') = Len(bins) + 1
      /\ bins'[Len(bins) + 1] = [kind |-> "pcm", bin |-> b]
  <2>1. [kind |-> "pcm", bin |-> b] \in BinType
    BY DEF BinType, Kind
  <2> QED BY <1>1, <1>2, <2>1, AddsOne
<1>4. PICK a, t, n : a = Aligned(out) /\ t = Times(ByteBits, b) /\ n = Pad(Len(out))
  OBVIOUS
<1>5. /\ n \in Nat /\ a \in Seq(Bit) /\ Len(a) = Len(out) + n
      /\ \A i \in DOMAIN out : i \in DOMAIN a /\ a[i] = out[i]
      /\ \A i \in Len(out) + 1 .. Len(out) + n : i \in DOMAIN a /\ a[i] = 0
  BY <1>1, <1>4, AlignedBits
<1>6. t \in Seq(Bit) /\ Len(t) = 8 /\ t[1] = b
  BY <1>4, TimesType DEF Times, ByteBits
<1>7. /\ out' \in Seq(Bit) /\ Len(out') = Len(out) + n + 8
      /\ \A i \in DOMAIN a : i \in DOMAIN out' /\ out'[i] = a[i]
      /\ Len(out) + n + 1 \in DOMAIN out' /\ out'[Len(out) + n + 1] = b
  <2>1. /\ out' \in Seq(Bit) /\ Len(out') = Len(a) + Len(t)
        /\ \A i \in DOMAIN a : i \in DOMAIN out' /\ out'[i] = a[i]
        /\ \A i \in Len(a) + 1 .. Len(a) + Len(t) : out'[i] = t[i - Len(a)]
    <3>1. out' = a \o t
      BY <1>2, <1>4
    <3> QED BY <1>5, <1>6, <3>1, Joined
  <2>2. PICK m \in Nat : m = Len(out) + n
    BY <1>1, <1>5
  <2>3. m + 1 \in m + 1 .. m + 8 /\ m + 1 - m = 1 /\ m + 1 \in 1 .. m + 8
    OBVIOUS
  <2>4. Len(a) = m /\ Len(out') = m + 8 /\ out'[m + 1] = b
    BY <1>5, <1>6, <2>1, <2>2, <2>3
  <2>5. m + 1 \in DOMAIN out'
    BY <2>1, <2>3, <2>4
  <2> QED BY <2>1, <2>2, <2>4, <2>5
<1>8. Unread' /\ dctx' = dctx
  BY <1>2, UnreadStays DEF Encoding
<1>9. ASSUME NEW f \in Stream, Extends(f, out)' PROVE Stopped(f, "init", Len(out))'
  <2>1. /\ Extends(f, out) /\ f[Len(out) + n + 1] = b
        /\ \A i \in Len(out) + 1 .. Len(out) + n : f[i] = 0
    BY <1>5, <1>7, <1>9 DEF Extends
  <2>2. PICK x \in DState : /\ Reaches(f, x) /\ x.pc = "ended" /\ x.pos = Len(out)
                            /\ x.ctx = ectx /\ x.got = Len(bins)
    BY <1>2, <2>1 DEF Encoding, AtRest, Stopped
  <2>3. PICK y : y = Dec("init", x.range, x.offset, x.ctx, Len(out) + n + 8, x.got + 1)
    OBVIOUS
  <2>4. y \in DState
    BY <1>1, <1>5, <2>2, <2>3 DEF Dec, DState
  <2>5. y.pc = "init" /\ y.pos = Len(out) + n + 8 /\ y.ctx = ectx /\ y.got = Len(bins) + 1
    BY <2>2, <2>3 DEF Dec
  <2>6. PcmMove(f, b, x, y)
    BY <1>4, <2>1, <2>2, <2>3 DEF PcmMove, ByteBits
  <2>7. BinMove(f, bins'[x.got + 1], x, y)
    BY <1>3, <2>2, <2>6 DEF BinMove
  <2>8. x.pos <= y.pos /\ x.got < Len(bins')
    BY <1>1, <1>3, <1>5, <2>2, <2>5
  <2>9. Move(f, bins', x, y)
    BY <2>7, <2>8 DEF Move
  <2>10. Reaches(f, y)'
    BY <1>1, <1>3, <1>8, <2>2, <2>4, <2>9, ReachNext
  <2>11. y.pos = Len(out') /\ y.ctx = ectx' /\ y.got = Len(bins')
    BY <1>2, <1>3, <1>7, <2>5
  <2> QED BY <2>4, <2>5, <2>10, <2>11 DEF Stopped
<1> QED BY <1>2, <1>8, <1>9 DEF Encoding, AtRest, Coding, Flushing

-----------------------------------------------------------------------------
(* Once the slice is sent as it was written, the decoder follows the script *)
(* for these bits, to the end.                                              *)

At(x) ==
  /\ dpc = x.pc /\ drange = x.range /\ offset = x.offset /\ dctx = x.ctx
  /\ pos = x.pos /\ Len(got) = x.got
Ends(f, z) ==
  /\ z.pc = "ended" /\ z.got = Len(bins) /\ z.ctx = ectx
  /\ z.pos + Pad(z.pos) = Len(out) /\ \A i \in z.pos + 1 .. Len(out) : f[i] = 0
Followed(f, g) == Extends(f, out) /\ Script(f, bins, g) /\ Ends(f, g[Len(g)])
Done == dpc = "done" /\ got = bins /\ dctx = ectx /\ pos = Len(out)
Decoded ==
  pc = "sent" /\ ~damaged =>
    /\ Adds(got, bins)
    /\ \E f \in Stream, g \in Seq(DState) :
         Followed(f, g) /\ (Done \/ \E i \in DOMAIN g : At(g[i]))

LEMMA SendDecodes == ASSUME IInv, Encoding, Send PROVE Decoded'
<1>1. /\ pc = "ended" /\ pc' = "sent" /\ dpc' = "init"
      /\ UNCHANGED << ectx, bins, drange, offset, dctx, pos, got >>
      /\ ~damaged' => out' = Aligned(out)
  BY DEF Send
<1>2. AtRest /\ Unread
  BY <1>1 DEF Encoding
<1>3. out \in Seq(Bit) /\ Len(out) \in Nat /\ bins \in Seq(BinType) /\ Len(bins) \in Nat
  BY EncFacts
<1> SUFFICES ASSUME ~damaged' PROVE Decoded'
  BY DEF Decoded
<1>4. PICK n : n = Pad(Len(out))
  OBVIOUS
<1>5. /\ out' \in Seq(Bit) /\ n \in Nat /\ Len(out') = Len(out) + n
      /\ \A i \in DOMAIN out : i \in DOMAIN out' /\ out'[i] = out[i]
      /\ \A i \in Len(out) + 1 .. Len(out) + n : i \in DOMAIN out' /\ out'[i] = 0
  BY <1>1, <1>3, <1>4, AlignedBits
<1>6. PICK f : f = [i \in Nat |-> IF i \in DOMAIN out' THEN out'[i] ELSE 0]
  OBVIOUS
<1>7. f \in Stream /\ Extends(f, out')
  BY <1>5, <1>6 DEF Stream, Extends, Bit
<1>8. Extends(f, out) /\ \A i \in Len(out) + 1 .. Len(out) + n : f[i] = 0
  BY <1>5, <1>7 DEF Extends
<1>9. PICK x \in DState : /\ Reaches(f, x) /\ x.pc = "ended" /\ x.pos = Len(out)
                          /\ x.ctx = ectx /\ x.got = Len(bins)
  BY <1>1, <1>2, <1>7, <1>8 DEF AtRest, Stopped
<1>10. PICK g \in Seq(DState) : Script(f, bins, g) /\ g[1] = Fresh /\ g[Len(g)] = x
  BY <1>9 DEF Reaches
<1>11. Ends(f, x)'
  BY <1>1, <1>4, <1>5, <1>8, <1>9 DEF Ends
<1>12. Followed(f, g)'
  BY <1>1, <1>7, <1>10, <1>11 DEF Followed, Extends
<1>13. At(g[1])' /\ 1 \in DOMAIN g
  <2>1. /\ Fresh.pc = "init" /\ Fresh.range = 0 /\ Fresh.offset = 0 /\ Fresh.ctx = dctx
        /\ Fresh.pos = 0 /\ Fresh.got = 0
    BY DEF Fresh, Dec
  <2>2. At(g[1])'
    BY <1>1, <1>2, <1>10, <2>1 DEF At, Unread
  <2>3. 1 \in DOMAIN g
    BY <1>10 DEF Script
  <2> QED BY <2>2, <2>3
<1>14. Adds(got, bins)'
  BY <1>1, <1>2, <1>3 DEF Adds, Unread
<1> QED BY <1>7, <1>12, <1>13, <1>14 DEF Decoded

(* A state of the script that is not the last: what comes next, and where   *)
(* the bits for it are.                                                     *)
Following(f, x, y) ==
  /\ IInv /\ ~damaged /\ Adds(got, bins) /\ Extends(f, out)
  /\ x \in DState /\ y \in DState /\ At(x) /\ Move(f, bins, x, y) /\ y.pos <= Len(out)
StepsTo(y) == At(y)' /\ Adds(got, bins)' /\ UNCHANGED encoder

LEMMA FollowFacts ==
  ASSUME NEW f \in Stream, NEW x, NEW y, Following(f, x, y)
  PROVE  /\ dpc = x.pc /\ drange = x.range /\ offset = x.offset /\ dctx = x.ctx
         /\ pos = x.pos /\ Len(got) = x.got /\ x.got \in Nat
         /\ x.range \in Nat /\ x.offset \in Nat
         /\ pos \in Nat /\ out \in Seq(Bit) /\ Len(out) \in Nat /\ bins \in Seq(BinType)
         /\ \A i \in 1 .. Len(out) : f[i] = out[i]
BY DEF Following, At, DState, IInv, EncOK, EncType, DecOK, DecType, BinType, Extends

(* The bin that is expected is the one that is decoded. *)
LEMMA DecodeAdds ==
  ASSUME IInv, ~damaged, Adds(got, bins), NEW k, NEW b, Decode(k, b), UNCHANGED encoder,
         b = bins[Len(got) + 1].bin
  PROVE  Adds(got, bins)' /\ Len(got') = Len(got) + 1
<1>1. got \in Seq(BinType) /\ bins \in Seq(BinType)
  BY DEF IInv, EncOK, EncType, DecOK, DecType, BinType
<1>2. /\ Len(got) < Len(bins) /\ bins[Len(got) + 1].kind = k
      /\ got' = Append(got, [kind |-> k, bin |-> b])
  BY DEF Decode, Expected
<1>3. Len(got) \in Nat /\ Len(bins) \in Nat /\ Len(got) + 1 \in 1 .. Len(bins)
  BY <1>1, <1>2
<1>4. bins[Len(got) + 1] = [kind |-> k, bin |-> b]
  <2>1. bins[Len(got) + 1] \in BinType
    BY <1>1, <1>3
  <2> QED BY <1>2, <2>1 DEF BinType
<1>5. bins' = bins
  BY DEF encoder
<1>6. PICK e : e = [kind |-> k, bin |-> b]
  OBVIOUS
<1>7. e \in BinType
  <2>1. bins[Len(got) + 1] \in BinType
    BY <1>1, <1>3
  <2> QED BY <1>4, <1>6, <2>1
<1>8. Len(got') = Len(got) + 1 /\ got'[Len(got) + 1] = e /\ \A i \in 1 .. Len(got) : got'[i] = got[i]
  BY <1>1, <1>2, <1>6, <1>7
<1>9. ASSUME NEW i \in 1 .. Len(got) + 1 PROVE bins[i] = got'[i]
  <2>1. CASE i = Len(got) + 1
    BY <1>4, <1>6, <1>8, <2>1
  <2>2. CASE i # Len(got) + 1
    <3>1. i \in 1 .. Len(got)
      BY <1>3, <2>2
    <3> QED BY <1>8, <3>1 DEF Adds
  <2> QED BY <2>1, <2>2
<1> QED BY <1>3, <1>5, <1>8, <1>9 DEF Adds

(* Only one kind of move can leave a state. *)
LEMMA MoveFrom ==
  ASSUME NEW f \in Stream, NEW x, NEW y, Following(f, x, y)
  PROVE  /\ x.pc = "init" => StartMove(f, x, y)
         /\ x.pc = "renorm" => RenormMove(f, x, y)
         /\ x.pc \in {"bin", "ended"} =>
              /\ Len(got) < Len(bins) /\ BinMove(f, bins[Len(got) + 1], x, y)
              /\ bins[Len(got) + 1] \in BinType
<1>1. Len(got) = x.got /\ x.got \in Nat /\ bins \in Seq(BinType)
  BY FollowFacts
<1>2. \/ StartMove(f, x, y) \/ RenormMove(f, x, y)
      \/ x.got < Len(bins) /\ BinMove(f, bins[x.got + 1], x, y)
  BY DEF Following, Move
<1>3. /\ StartMove(f, x, y) => x.pc = "init"
      /\ RenormMove(f, x, y) => x.pc = "renorm"
      /\ BinMove(f, bins[x.got + 1], x, y) => x.pc \in {"bin", "ended"}
  BY DEF StartMove, RenormMove, BinMove, DecisionMove, BypassMove, TerminateMove, PcmMove
<1>4. x.got < Len(bins) => bins[x.got + 1] \in BinType
  BY <1>1
<1> QED BY <1>1, <1>2, <1>3, <1>4

LEMMA FollowInitArith ==
  ASSUME NEW f \in Stream, NEW x, NEW y, Following(f, x, y), DInitArith
  PROVE  StepsTo(y)
<1>1. /\ dpc = x.pc /\ dctx = x.ctx /\ pos = x.pos /\ Len(got) = x.got
      /\ pos \in Nat /\ Len(out) \in Nat /\ \A i \in 1 .. Len(out) : f[i] = out[i]
  BY FollowFacts
<1>2. StartMove(f, x, y) /\ y.pos <= Len(out) /\ Adds(got, bins)
  <2>1. x.pc = "init"
    BY <1>1, Zenon DEF DInitArith
  <2> QED BY <2>1, MoveFrom DEF Following
<1>3. PICK n : n = Nine(f, pos)
  OBVIOUS
<1>4. pos % ByteBits = 0 /\ n \in 0 .. 509 /\ y = Dec("bin", 510, n, x.ctx, pos + 9, x.got)
  BY <1>1, <1>2, <1>3 DEF StartMove
<1>5. /\ y.pc = "bin" /\ y.range = 510 /\ y.offset = n /\ y.ctx = x.ctx /\ y.pos = pos + 9
      /\ y.got = x.got
  BY <1>4 DEF Dec
<1>6. pos + 9 <= Len(out)
  BY <1>2, <1>5
<1>7. Nine(out, pos) = n
  <2>1. /\ f[pos + 1] = out[pos + 1] /\ f[pos + 2] = out[pos + 2] /\ f[pos + 3] = out[pos + 3]
        /\ f[pos + 4] = out[pos + 4] /\ f[pos + 5] = out[pos + 5] /\ f[pos + 6] = out[pos + 6]
        /\ f[pos + 7] = out[pos + 7] /\ f[pos + 8] = out[pos + 8] /\ f[pos + 9] = out[pos + 9]
    <3>1. PICK p \in Nat, l \in Nat : p = pos /\ l = Len(out)
      BY <1>1
    <3>2. /\ p + 1 \in 1 .. l /\ p + 2 \in 1 .. l /\ p + 3 \in 1 .. l /\ p + 4 \in 1 .. l
          /\ p + 5 \in 1 .. l /\ p + 6 \in 1 .. l /\ p + 7 \in 1 .. l /\ p + 8 \in 1 .. l
          /\ p + 9 \in 1 .. l
      BY <1>6, <3>1
    <3>3. \A i \in 1 .. l : f[i] = out[i]
      BY <1>1, <3>1
    <3> QED BY <3>1, <3>2, <3>3
  <2> QED BY <1>3, <2>1 DEF Nine
<1>8. ~(pos % ByteBits # 0 \/ pos + 9 > Len(out) \/ Nine(out, pos) \notin 0 .. 509)
  BY <1>1, <1>4, <1>6, <1>7
<1>9. /\ drange' = 510 /\ offset' = n /\ pos' = pos + 9 /\ dpc' = "bin"
      /\ UNCHANGED << dctx, got, encoder >>
  BY <1>7, <1>8, Zenon DEF DInitArith
<1> QED BY <1>1, <1>2, <1>5, <1>9 DEF StepsTo, At, Adds, encoder

LEMMA FollowRenorm ==
  ASSUME NEW f \in Stream, NEW x, NEW y, Following(f, x, y), DRenorm
  PROVE  StepsTo(y)
<1>1. /\ dpc = x.pc /\ drange = x.range /\ offset = x.offset /\ dctx = x.ctx /\ pos = x.pos
      /\ Len(got) = x.got
      /\ pos \in Nat /\ Len(out) \in Nat /\ \A i \in 1 .. Len(out) : f[i] = out[i]
  BY FollowFacts
<1>2. RenormMove(f, x, y) /\ y.pos <= Len(out) /\ Adds(got, bins)
  BY <1>1, MoveFrom DEF DRenorm, Following
<1>3. y = Dec(DAfter(2 * drange), 2 * drange, 2 * offset + f[pos + 1], dctx, pos + 1, Len(got))
  BY <1>1, <1>2 DEF RenormMove
<1>4. /\ y.pc = DAfter(2 * drange) /\ y.range = 2 * drange /\ y.offset = 2 * offset + f[pos + 1]
      /\ y.ctx = dctx /\ y.pos = pos + 1 /\ y.got = Len(got)
  BY <1>3 DEF Dec
<1>5. pos # Len(out) /\ f[pos + 1] = out[pos + 1]
  BY <1>1, <1>2, <1>4
<1>6. /\ drange' = 2 * drange /\ offset' = 2 * offset + out[pos + 1] /\ pos' = pos + 1
      /\ dpc' = DAfter(2 * drange) /\ UNCHANGED << dctx, got, encoder >>
  BY <1>5 DEF DRenorm
<1> QED BY <1>2, <1>4, <1>5, <1>6 DEF StepsTo, At, Adds, encoder

(* In a bin of an expected kind, the bin is the encoder's. *)
LEMMA BinFrom ==
  ASSUME NEW f \in Stream, NEW x, NEW y, Following(f, x, y), NEW k \in Kind, Expected(k),
         dpc \in {"bin", "ended"}
  PROVE  \E b \in Bit :
           /\ b = bins[Len(got) + 1].bin
           /\ k \in Ctx => DecisionMove(k, b, x, y)
           /\ k = "bypass" => BypassMove(f, b, x, y)
           /\ k = "terminate" => TerminateMove(b, x, y)
           /\ k = "pcm" => PcmMove(f, b, x, y)
<1>1. dpc = x.pc /\ ~damaged
  BY FollowFacts DEF Following
<1>2. PICK e : e = bins[Len(got) + 1]
  OBVIOUS
<1>3. e \in BinType /\ BinMove(f, e, x, y)
  BY <1>1, <1>2, MoveFrom
<1>4. e.kind = k
  BY <1>1, <1>2 DEF Expected
<1>5. e.bin \in Bit
  BY <1>3 DEF BinType
<1>6. /\ k \in Ctx => DecisionMove(k, e.bin, x, y)
      /\ k = "bypass" => BypassMove(f, e.bin, x, y)
      /\ k = "terminate" => TerminateMove(e.bin, x, y)
      /\ k = "pcm" => PcmMove(f, e.bin, x, y)
  BY <1>3, <1>4, KindsDiffer DEF BinMove
<1> QED BY <1>2, <1>5, <1>6

LEMMA FollowDecision ==
  ASSUME NEW f \in Stream, NEW x, NEW y, Following(f, x, y), NEW c \in Ctx, DDecision(c)
  PROVE  StepsTo(y)
<1>1. /\ dpc = x.pc /\ drange = x.range /\ offset = x.offset /\ dctx = x.ctx /\ pos = x.pos
      /\ Len(got) = x.got
      /\ offset \in Nat /\ drange \in Nat
  BY FollowFacts
<1>2. IInv /\ ~damaged /\ Adds(got, bins) /\ dpc = "bin" /\ dctx[c] \in Context
  BY DEF Following, DDecision, IInv, DecOK, DecType
<1>3. PICK s, lps, v : /\ s = dctx[c] /\ lps = LPS(s, drange)
                       /\ v = (IF offset >= drange - lps THEN 1 - s.mps ELSE s.mps)
  OBVIOUS
<1>4. /\ Decode(c, v)
      /\ IF offset >= drange - lps
         THEN drange' = lps /\ offset' = offset - (drange - lps)
         ELSE drange' = drange - lps /\ UNCHANGED offset
      /\ dctx' = [dctx EXCEPT ![c] = Learn(@, v)]
      /\ dpc' = DAfter(drange') /\ UNCHANGED << pos, encoder >>
  BY <1>3, Zenon DEF DDecision
<1>5. PICK b \in Bit : b = bins[Len(got) + 1].bin /\ DecisionMove(c, b, x, y)
  <2>1. Expected(c) /\ c \in Kind
    BY <1>4, KindsDiffer DEF Decode
  <2> QED BY <1>2, <2>1, BinFrom
<1>6. PICK most, ctx : most = drange - lps /\ ctx = [dctx EXCEPT ![c] = Learn(@, b)]
  OBVIOUS
<1>7. \/ /\ b = s.mps /\ offset < most
         /\ y = Dec(DAfter(most), most, offset, ctx, pos, Len(got) + 1)
      \/ /\ b # s.mps /\ offset >= most
         /\ y = Dec(DAfter(lps), lps, offset - most, ctx, pos, Len(got) + 1)
  <2>1. /\ LPS(x.ctx[c], x.range) = lps /\ x.range - lps = most /\ x.ctx[c] = s
        /\ [x.ctx EXCEPT ![c] = Learn(@, b)] = ctx
    BY <1>1, <1>3, <1>6
  <2>2. \/ /\ b = x.ctx[c].mps /\ x.offset < most
           /\ y = Dec(DAfter(most), most, x.offset, ctx, x.pos, x.got + 1)
        \/ /\ b # x.ctx[c].mps /\ x.offset >= most
           /\ y = Dec(DAfter(lps), lps, x.offset - most, ctx, x.pos, x.got + 1)
    BY <1>5, <2>1, Zenon DEF DecisionMove
  <2> QED BY <1>1, <2>1, <2>2
<1>8. s.mps \in {0, 1} /\ b \in {0, 1}
  BY <1>2, <1>3 DEF Context, Bit
<1>9. drange \in 256 .. 510 /\ lps \in 1 .. drange - 1
  <2>1. drange \in 256 .. 510
    BY <1>2 DEF IInv, DecOK, Below
  <2> QED BY <1>2, <1>3, <2>1, LpsInside
<1>10. v = b
  BY <1>1, <1>3, <1>6, <1>7, <1>8, <1>9
<1>11. Adds(got, bins)' /\ Len(got') = Len(got) + 1
  BY <1>2, <1>4, <1>5, <1>10, DecodeAdds
<1>12. At(y)'
  <2>1. CASE b = s.mps
    <3>1. y = Dec(DAfter(most), most, offset, ctx, pos, Len(got) + 1) /\ ~(offset >= drange - lps)
      BY <1>1, <1>6, <1>7, <1>9, <2>1
    <3>2. drange' = most /\ offset' = offset /\ dpc' = DAfter(most) /\ dctx' = ctx /\ pos' = pos
      BY <1>4, <1>6, <1>10, <3>1
    <3> QED BY <1>11, <3>1, <3>2 DEF At, Dec
  <2>2. CASE b # s.mps
    <3>1. y = Dec(DAfter(lps), lps, offset - most, ctx, pos, Len(got) + 1) /\ offset >= drange - lps
      BY <1>6, <1>7, <2>2
    <3>2. /\ drange' = lps /\ offset' = offset - most /\ dpc' = DAfter(lps) /\ dctx' = ctx
          /\ pos' = pos
      BY <1>4, <1>6, <1>10, <3>1
    <3> QED BY <1>11, <3>1, <3>2 DEF At, Dec
  <2> QED BY <2>1, <2>2
<1> QED BY <1>4, <1>11, <1>12 DEF StepsTo

LEMMA FollowBypass ==
  ASSUME NEW f \in Stream, NEW x, NEW y, Following(f, x, y), DBypass
  PROVE  StepsTo(y)
<1>1. /\ dpc = x.pc /\ drange = x.range /\ offset = x.offset /\ dctx = x.ctx /\ pos = x.pos
      /\ Len(got) = x.got
      /\ offset \in Nat /\ drange \in Nat
      /\ pos \in Nat /\ Len(out) \in Nat /\ \A i \in 1 .. Len(out) : f[i] = out[i]
  BY FollowFacts
<1>2. /\ IInv /\ ~damaged /\ Adds(got, bins) /\ y.pos <= Len(out)
      /\ dpc = "bin" /\ Expected("bypass")
  BY Zenon DEF Following, DBypass
<1>3. PICK b \in Bit : b = bins[Len(got) + 1].bin /\ BypassMove(f, b, x, y)
  <2>1. "bypass" \in Kind
    BY DEF Kind
  <2> QED BY <1>2, <2>1, BinFrom
<1>4. PICK o : o = 2 * offset + f[pos + 1]
  OBVIOUS
<1>5. /\ o >= drange <=> b = 1
      /\ y = Dec("bin", drange, IF b = 1 THEN o - drange ELSE o, dctx, pos + 1, Len(got) + 1)
  BY <1>1, <1>3, <1>4 DEF BypassMove
<1>6. PICK v : v = (IF b = 1 THEN o - drange ELSE o)
  OBVIOUS
<1>7. /\ y.pc = "bin" /\ y.range = drange /\ y.offset = v
      /\ y.ctx = dctx /\ y.pos = pos + 1 /\ y.got = Len(got) + 1
  BY <1>5, <1>6 DEF Dec
<1>8. pos # Len(out) /\ f[pos + 1] = out[pos + 1]
  BY <1>1, <1>2, <1>7
<1>9. /\ IF o >= drange THEN Decode("bypass", 1) /\ offset' = o - drange
                        ELSE Decode("bypass", 0) /\ offset' = o
      /\ pos' = pos + 1 /\ UNCHANGED << drange, dctx, dpc, encoder >>
  BY <1>4, <1>8 DEF DBypass
<1>10. Decode("bypass", b) /\ offset' = v
  BY <1>5, <1>6, <1>9, ZeroOne
<1>11. Adds(got, bins)' /\ Len(got') = Len(got) + 1
  BY <1>2, <1>3, <1>9, <1>10, DecodeAdds
<1> QED BY <1>2, <1>7, <1>9, <1>10, <1>11 DEF StepsTo, At

LEMMA FollowTerminate ==
  ASSUME NEW f \in Stream, NEW x, NEW y, Following(f, x, y), DTerminate
  PROVE  StepsTo(y)
<1>1. /\ dpc = x.pc /\ drange = x.range /\ offset = x.offset /\ dctx = x.ctx /\ pos = x.pos
      /\ Len(got) = x.got
  BY FollowFacts
<1>2. /\ IInv /\ ~damaged /\ Adds(got, bins) /\ dpc = "bin" /\ Expected("terminate")
  BY Zenon DEF Following, DTerminate, Decode
<1>3. PICK b \in Bit : b = bins[Len(got) + 1].bin /\ TerminateMove(b, x, y)
  <2>1. "terminate" \in Kind
    BY DEF Kind
  <2> QED BY <1>2, <2>1, BinFrom
<1>4. PICK r : r = drange - 2
  OBVIOUS
<1>5. /\ offset >= r <=> b = 1
      /\ y = Dec(IF b = 1 THEN "ended" ELSE DAfter(r), r, offset, dctx, pos, Len(got) + 1)
  BY <1>1, <1>3, <1>4 DEF TerminateMove
<1>6. /\ drange' = r
      /\ IF offset >= r
         THEN Decode("terminate", 1) /\ dpc' = "ended"
         ELSE Decode("terminate", 0) /\ dpc' = DAfter(r)
      /\ UNCHANGED << offset, dctx, pos, encoder >>
  BY <1>4 DEF DTerminate
<1>7. Decode("terminate", b) /\ dpc' = IF b = 1 THEN "ended" ELSE DAfter(r)
  BY <1>5, <1>6, ZeroOne
<1>8. Adds(got, bins)' /\ Len(got') = Len(got) + 1
  BY <1>2, <1>3, <1>6, <1>7, DecodeAdds
<1> QED BY <1>5, <1>6, <1>7, <1>8 DEF StepsTo, At, Dec

LEMMA FollowPcm ==
  ASSUME NEW f \in Stream, NEW x, NEW y, Following(f, x, y), DPcm
  PROVE  StepsTo(y)
<1>1. /\ dpc = x.pc /\ drange = x.range /\ offset = x.offset /\ dctx = x.ctx /\ pos = x.pos
      /\ Len(got) = x.got
      /\ pos \in Nat /\ Len(out) \in Nat /\ DOMAIN out = 1 .. Len(out) /\ \A i \in 1 .. Len(out) : f[i] = out[i]
  BY FollowFacts
<1>2. /\ IInv /\ ~damaged /\ Adds(got, bins) /\ y.pos <= Len(out)
      /\ dpc = "ended" /\ Expected("pcm")
  BY Zenon DEF Following, DPcm
<1>3. PICK b \in Bit : b = bins[Len(got) + 1].bin /\ PcmMove(f, b, x, y)
  <2>1. "pcm" \in Kind
    BY DEF Kind
  <2> QED BY <1>2, <2>1, BinFrom
<1>4. PICK n \in Nat : n = Pad(pos)
  BY <1>1 DEF Pad, ByteBits
<1>5. PICK start \in Nat : start = pos + Pad(pos)
  BY <1>1, <1>4
<1>6. /\ \A i \in pos + 1 .. start : f[i] = 0
      /\ f[start + 1] = b
      /\ y = Dec("init", drange, offset, dctx, start + 8, Len(got) + 1)
  BY <1>1, <1>3, <1>5 DEF PcmMove, ByteBits
<1>7. /\ y.pc = "init" /\ y.range = drange /\ y.offset = offset
      /\ y.ctx = dctx /\ y.pos = start + 8 /\ y.got = Len(got) + 1
  BY <1>6 DEF Dec
<1>8. start + 8 <= Len(out)
  BY <1>2, <1>7
<1>9. PadRead
  <2>1. ASSUME NEW i \in pos + 1 .. start PROVE i \in DOMAIN out /\ out[i] = 0
    <3>1. i \in 1 .. Len(out)
      BY <1>1, <1>8
    <3> QED BY <1>1, <1>6, <3>1
  <2> QED BY <1>5, <2>1 DEF PadRead
<1>10. out[start + 1] = b
  <2>1. start + 1 \in 1 .. Len(out)
    BY <1>1, <1>8
  <2> QED BY <1>1, <1>6, <2>1
<1>11. /\ Decode("pcm", b) /\ pos' = start + 8 /\ dpc' = "init"
       /\ UNCHANGED << drange, offset, dctx, encoder >>
  <2>1. ~(~PadRead \/ start + 8 > Len(out))
    BY <1>1, <1>8, <1>9
  <2> QED BY <1>5, <1>10, <2>1 DEF DPcm, ByteBits
<1>12. Adds(got, bins)' /\ Len(got') = Len(got) + 1
  BY <1>2, <1>3, <1>11, DecodeAdds
<1> QED BY <1>7, <1>11, <1>12 DEF StepsTo, At

(* In the middle of the script the slice is not over. *)
LEMMA FollowEnd ==
  ASSUME NEW f \in Stream, NEW x, NEW y, Following(f, x, y), DEnd
  PROVE  FALSE
<1>1. dpc = x.pc /\ ~damaged /\ dpc = "ended" /\ Len(got) = Len(bins)
  BY FollowFacts DEF Following, DEnd
<1>2. Len(got) < Len(bins) /\ Len(got) \in Nat
  BY <1>1, MoveFrom, FollowFacts
<1> QED BY <1>1, <1>2

(* At its end nothing is left but the padding. *)
LEMMA EndDecodes ==
  ASSUME IInv, ~damaged, Adds(got, bins), NEW f \in Stream, Extends(f, out),
         NEW z \in DState, At(z), Ends(f, z), DEnd
  PROVE  Done' /\ UNCHANGED encoder /\ Adds(got, bins)'
<1>1. /\ dpc = "ended" /\ pos = z.pos /\ pos \in Nat /\ dctx = ectx /\ Len(got) = Len(bins)
      /\ out \in Seq(Bit) /\ Len(out) \in Nat /\ got \in Seq(BinType) /\ bins \in Seq(BinType)
  BY DEF At, Ends, DState, IInv, EncOK, EncType, DecOK, DecType, BinType
<1>2. got = bins
  BY <1>1 DEF Adds
<1>3. PadRead
  <2>1. ASSUME NEW i \in pos + 1 .. pos + Pad(pos) PROVE i \in DOMAIN out /\ out[i] = 0
    <3>1. i \in pos + 1 .. Len(out) /\ i \in 1 .. Len(out)
      BY <1>1 DEF Ends
    <3> QED BY <1>1, <3>1 DEF Ends, Extends
  <2> QED BY <2>1 DEF PadRead
<1>4. /\ dpc' = "done" /\ pos' = pos + Pad(pos)
      /\ UNCHANGED << drange, offset, dctx, got, encoder >>
  BY <1>3 DEF DEnd
<1>5. pos' = Len(out) /\ out' = out /\ bins' = bins /\ ectx' = ectx
  BY <1>1, <1>4 DEF Ends, encoder
<1> QED BY <1>1, <1>2, <1>4, <1>5 DEF Done, Adds

DecoderStep ==
  \/ DInitArith \/ DRenorm \/ (\E c \in Ctx : DDecision(c)) \/ DBypass \/ DTerminate
  \/ DPcm \/ DEnd

LEMMA PadType == ASSUME NEW n \in Nat PROVE Pad(n) \in Nat
BY DEF Pad, ByteBits

LEMMA DecoderDecodes ==
  ASSUME IInv, Decoded, pc = "sent", DecoderStep
  PROVE  Decoded'
<1> SUFFICES ASSUME ~damaged' PROVE Decoded'
  BY DEF Decoded
<1>1. damaged' = damaged /\ dpc \notin {"off", "done", "failed"}
  BY DEF DecoderStep, DInitArith, DRenorm, DDecision, DBypass, DTerminate, DPcm, DEnd, DFail, encoder
<1>2. Adds(got, bins) /\ ~damaged
  BY <1>1 DEF Decoded
<1>3. PICK f \in Stream, g \in Seq(DState) : Followed(f, g) /\ (Done \/ \E i \in DOMAIN g : At(g[i]))
  BY <1>2 DEF Decoded
<1>4. PICK i \in DOMAIN g : At(g[i])
  BY <1>1, <1>3 DEF Done
<1>5. Extends(f, out) /\ Script(f, bins, g) /\ Ends(f, g[Len(g)])
  BY <1>3 DEF Followed
<1>6. Len(g) \in Nat /\ i \in 1 .. Len(g) /\ Len(g) \in DOMAIN g
  BY <1>4
<1>7. PICK x, z \in DState : x = g[i] /\ z = g[Len(g)]
  BY <1>6
<1>8. UNCHANGED encoder => Followed(f, g)'
  BY <1>3 DEF Followed, Ends, Extends, encoder
<1>9. CASE i = Len(g)
  <2>1. dpc = "ended" /\ Len(got) = Len(bins) /\ x = z
    BY <1>4, <1>5, <1>7, <1>9 DEF At, Ends
  <2>2. Len(bins) \in Nat
    BY EncFacts
  <2>3. ~DPcm
    BY <1>2, <2>1, <2>2 DEF DPcm, Expected
  <2>4. DEnd
    BY <2>1, <2>3 DEF DecoderStep, DInitArith, DRenorm, DDecision, DBypass, DTerminate
  <2>5. Done' /\ UNCHANGED encoder /\ Adds(got, bins)'
    BY <1>2, <1>4, <1>5, <1>7, <1>9, <2>4, EndDecodes
  <2> QED BY <1>8, <2>5 DEF Decoded
<1>10. CASE i # Len(g)
  <2>1. i \in 1 .. Len(g) - 1 /\ i + 1 \in DOMAIN g
    BY <1>6, <1>10
  <2>2. PICK y \in DState : y = g[i + 1]
    BY <2>1
  <2>3. Move(f, bins, x, y) /\ y.pos <= z.pos
    BY <1>5, <1>7, <2>1, <2>2 DEF Script
  <2>4. y.pos <= Len(out)
    <3>1. z.pos \in Nat /\ y.pos \in Nat /\ z.pos + Pad(z.pos) = Len(out)
      BY <1>5, <1>7 DEF DState, Ends
    <3>2. Pad(z.pos) \in Nat
      BY <3>1, PadType
    <3> QED BY <2>3, <3>1, <3>2
  <2>5. Following(f, x, y)
    BY <1>2, <1>4, <1>5, <1>7, <2>2, <2>3, <2>4 DEF Following
  <2>6. StepsTo(y)
    BY <2>5, FollowInitArith, FollowRenorm, FollowDecision, FollowBypass, FollowTerminate,
       FollowPcm, FollowEnd DEF DecoderStep
  <2>7. At(g[i + 1])' /\ Adds(got, bins)' /\ UNCHANGED encoder
    BY <2>2, <2>6 DEF StepsTo
  <2> QED BY <1>8, <2>1, <2>7 DEF Decoded
<1> QED BY <1>9, <1>10

(* Only Send sends. *)
LEMMA PutBitStays ==
  ASSUME EncType, NEW l, NEW next, next # "sent", Shift(l, next)
  PROVE  pc' # "sent"
BY DEF Shift, PutBit, EncType, Bit

LEMMA EncoderStays ==
  ASSUME IInv,
         \/ InitArith \/ Renorm \/ Flush
         \/ \E b \in Bit : (\E c \in Ctx : Decision(c, b)) \/ Bypass(b) \/ Terminate(b) \/ Pcm(b)
  PROVE  pc # "sent" /\ pc' # "sent"
<1>1. EncType
  BY EncFacts
<1>2. ASSUME NEW r, NEW s PROVE After(r, s) # "sent"
  BY DEF After
<1>3. CASE InitArith
  BY <1>3 DEF InitArith
<1>4. CASE Renorm
  BY <1>1, <1>2, <1>4, PutBitStays DEF Renorm
<1>5. CASE Flush
  BY <1>5 DEF Flush
<1>6. ASSUME NEW b \in Bit, NEW c \in Ctx, Decision(c, b) PROVE pc # "sent" /\ pc' # "sent"
  BY <1>2, <1>6 DEF Decision, Encode
<1>7. ASSUME NEW b \in Bit, Bypass(b) PROVE pc # "sent" /\ pc' # "sent"
  BY <1>1, <1>7, PutBitStays DEF Bypass, Encode
<1>8. ASSUME NEW b \in Bit, Terminate(b) PROVE pc # "sent" /\ pc' # "sent"
  BY <1>2, <1>8 DEF Terminate, Encode
<1>9. ASSUME NEW b \in Bit, Pcm(b) PROVE pc # "sent" /\ pc' # "sent"
  BY <1>9 DEF Pcm
<1> QED BY <1>3, <1>4, <1>5, <1>6, <1>7, <1>8, <1>9

LEMMA TripKeeps == IInv /\ Encoding /\ Decoded /\ [Next]_cvars => (Encoding /\ Decoded)'
<1> SUFFICES ASSUME IInv, Encoding, Decoded, [Next]_cvars PROVE Encoding' /\ Decoded'
  OBVIOUS
<1>1. CASE \/ InitArith \/ Renorm \/ Flush
           \/ \E b \in Bit : (\E c \in Ctx : Decision(c, b)) \/ Bypass(b) \/ Terminate(b) \/ Pcm(b)
  <2>1. Decoded'
    BY <1>1, EncoderStays DEF Decoded
  <2>2. Encoding'
    BY <1>1, InitArithEncodes, RenormEncodes, FlushEncodes, DecisionEncodes, BypassEncodes,
       TerminateEncodes, PcmEncodes
  <2> QED BY <2>1, <2>2
<1>2. CASE Send
  BY <1>2, SendDecodes DEF Encoding, Send
<1>3. CASE DecoderStep
  <2>1. pc = "sent"
    BY <1>3 DEF Encoding, Unread, DecoderStep, DInitArith, DRenorm, DDecision, DBypass, DTerminate, DPcm, DEnd
  <2>2. pc' = pc
    BY <1>3 DEF DecoderStep, DInitArith, DRenorm, DDecision, DBypass, DTerminate, DPcm, DEnd, DFail, encoder
  <2> QED BY <1>3, <2>1, <2>2, DecoderDecodes DEF Encoding
<1>4. CASE UNCHANGED cvars
  <2>1. /\ UNCHANGED << range, low, first, outstanding, ectx, pc, bins, out, damaged >>
        /\ UNCHANGED << drange, offset, dctx, dpc, pos, got >>
    BY <1>4 DEF cvars, encoder, decoder
  <2>2. Decoded'
    BY <2>1 DEF Decoded, Followed, Ends, Extends, Done, At
  <2>3. ASSUME NEW f PROVE /\ Possible(f)' <=> Possible(f)
                           /\ Extends(f, out)' <=> Extends(f, out)
                           /\ \A x : Reaches(f, x) => Reaches(f, x)'
                           /\ Now(f)' = Now(f) /\ Shifted' = Shifted
    BY <2>1 DEF Possible, Extends, Waiting, Distance, Register, Lead, Shifted, Reaches, Fresh, Now
  <2>4. \A f, p, n : Stopped(f, p, n) => Stopped(f, p, n)'
    BY <2>1, <2>3 DEF Stopped
  <2>5. AtRest => AtRest'
    BY <2>1, <2>3, <2>4 DEF AtRest
  <2>6. Coding => Coding'
    BY <2>1, <2>3 DEF Coding, Closing
  <2>7. Flushing => Flushing'
    BY <2>1, <2>3, <2>4 DEF Flushing, Closing, Doubled
  <2>8. Unread => Unread'
    BY <2>1 DEF Unread
  <2>9. Encoding'
    BY <2>1, <2>5, <2>6, <2>7, <2>8 DEF Encoding
  <2> QED BY <2>2, <2>9
<1> QED BY <1>1, <1>2, <1>3, <1>4 DEF Next, DecoderStep

LEMMA TripHolds == IInv /\ Encoding /\ Decoded => RoundTrip
<1> SUFFICES ASSUME IInv, Encoding, Decoded, ~damaged
             PROVE  /\ dpc # "failed" /\ IsPrefix(got, bins)
                    /\ dpc = "done" => got = bins /\ dctx = ectx /\ pos = Len(out)
  BY DEF RoundTrip
<1>1. got \in Seq(BinType) /\ bins \in Seq(BinType)
  BY DEF IInv, EncOK, EncType, DecOK, DecType, BinType
<1>2. Adds(got, bins) /\ (dpc = "done" => Done) /\ dpc # "failed"
  <2>1. CASE pc # "sent"
    BY <1>1, <2>1 DEF Encoding, Unread, Adds
  <2>2. CASE pc = "sent"
    <3>1. Adds(got, bins)
      BY <2>2 DEF Decoded
    <3>2. PICK f \in Stream, g \in Seq(DState) : Done \/ \E i \in DOMAIN g : At(g[i])
      BY <2>2 DEF Decoded
    <3>3. ASSUME NEW i \in DOMAIN g, At(g[i]) PROVE dpc # "done" /\ dpc # "failed"
      <4>1. g[i] \in DState
        OBVIOUS
      <4> QED BY <3>3, <4>1 DEF DState, At
    <3> QED BY <3>1, <3>2, <3>3 DEF Done
  <2> QED BY <2>1, <2>2
<1>3. IsPrefix(got, bins)
  BY <1>1, <1>2 DEF Adds, IsPrefix
<1> QED BY <1>2, <1>3 DEF Done

(* Whatever bins and samples were encoded with whatever tables, the decoder *)
(* of what h264_cabac_* wrote reads them back: no "failed" path is taken,   *)
(* every bin is the one that was encoded, and at the end of the slice the   *)
(* contexts are the same and no bit is left.                                *)
THEOREM RoundTripCorrect == Spec => []RoundTrip
<1>1. Init => Encoding /\ Decoded
  BY EncodingInit DEF Init, Decoded
<1>2. IInv /\ IInv' /\ Encoding /\ Decoded /\ [Next]_cvars => (Encoding /\ Decoded)'
  BY TripKeeps
<1>3. Spec => [](Encoding /\ Decoded)
  BY <1>1, <1>2, CoderInvariant, PTL DEF Spec
<1>4. IInv /\ Encoding /\ Decoded => RoundTrip
  BY TripHolds
<1> QED BY <1>3, <1>4, CoderInvariant, PTL
=============================================================================
