------------------------------- MODULE Cabac -------------------------------
(***************************************************************************)
(* src/vstream/h264_cabac.c: the arithmetic coder of H.264 slices.  The    *)
(* same functions encode and decode.  The encoder keeps an interval, of    *)
(* size range from low on, which every bin makes smaller; it writes a bit  *)
(* when it knows it, which may be many bins later (bitsOutstanding), and   *)
(* leaves out the first, which should always be 0.  The decoder keeps the  *)
(* distance of the bits it has read from low.                              *)
(*                                                                         *)
(* A slice is encoded, with I_PCM macroblocks between bins (h264_slice.c), *)
(* and what was written is decoded, with or without one wrong bit.  The    *)
(* bins and their kinds are any: which syntax element needs which is not   *)
(* modelled, nor is the writing of bits into bytes (module Bitstream).     *)
(***************************************************************************)
EXTENDS Integers, Sequences, SequencesExt

CONSTANTS
  Ctx,          \* the contexts (ctxIdx)
  CtxInit,      \* ctx_init_tab: [m, n] of each
  SliceQp,      \* values of sliceqpy
  rangeTabLPS, transIdxLPS, transIdxMPS,
  MaxBins,      \* bound on the bins of a slice
  MaxDamaged    \* bound on the bins of a slice that is damaged

State == 0 .. 62   \* pStateIdx; 63 is never reached
ByteBits == 8

ASSUME CtxAssumption ==
  /\ Ctx \cap {"bypass", "terminate", "pcm"} = {}
  /\ CtxInit \in [Ctx -> [m : Int, n : Int]] /\ SliceQp \subseteq Int
ASSUME TableAssumption ==
  /\ \A p \in State, q \in 0..3 : rangeTabLPS[p][q] \in 1 .. 255 + 64 * q
  /\ transIdxLPS \in [State -> State] /\ transIdxMPS \in [State -> State]
ASSUME BoundAssumption == MaxBins \in Nat /\ MaxDamaged \in Nat

VARIABLES
  range, low, first, outstanding, \* codIRange, codIOffset, firstBitFlag, bitsOutstanding
  ectx,      \* [p, mps] of each context: pStateIdx, valMPS
  pc,        \* where the encoder is
  bins,      \* history: what was encoded, [kind, bin]
  out,       \* the bits that were written
  damaged,   \* history: one of them was changed
  drange, offset, dctx, dpc,      \* the decoder
  pos,       \* how many bits it has read
  got        \* what it decoded

encoder == << range, low, first, outstanding, ectx, pc, bins, out, damaged >>
decoder == << drange, offset, dctx, dpc, pos, got >>
cvars == << encoder, decoder >>

Bit == {0, 1}
Kind == Ctx \cup {"bypass", "terminate", "pcm"}
Context == [p : State, mps : Bit]

TypeOK ==
  /\ range \in Nat /\ low \in Nat /\ first \in Bit /\ outstanding \in Nat
  /\ ectx \in [Ctx -> Context]
  /\ pc \in {"init", "bin", "renorm", "flush", "ended", "sent", "failed"}
  /\ bins \in Seq([kind : Kind, bin : Bit]) /\ out \in Seq(Bit) /\ damaged \in BOOLEAN
  /\ drange \in Nat /\ offset \in Nat
  /\ dctx \in [Ctx -> Context]
  /\ dpc \in {"off", "init", "bin", "renorm", "ended", "done", "failed"}
  /\ pos \in Nat /\ got \in Seq([kind : Kind, bin : Bit])

-----------------------------------------------------------------------------
(* Contexts.                                                                *)

Clip3(a, b, c) == IF c < a THEN a ELSE IF c > b THEN b ELSE c

(* init_ctx *)
InitCtx(c, qp) ==
  LET pre == Clip3(1, 126, (CtxInit[c].m * Clip3(0, 51, qp)) \div 16 + CtxInit[c].n)
  IN IF pre <= 63 THEN [p |-> 63 - pre, mps |-> 0] ELSE [p |-> pre - 64, mps |-> 1]

(* Wrong on purpose: the toggle of valMPS is a decrement. *)
LearnMutant(s, b) ==
  IF b = s.mps
  THEN [p |-> transIdxMPS[s.p], mps |-> s.mps]
  ELSE [p |-> transIdxLPS[s.p], mps |-> IF s.p = 0 THEN s.mps - 1 ELSE s.mps]

(* How a context learns from a bin. *)
Learn(s, b) ==
  IF b = s.mps
  THEN [p |-> transIdxMPS[s.p], mps |-> s.mps]
  ELSE [p |-> transIdxLPS[s.p], mps |-> IF s.p = 0 THEN 1 - s.mps ELSE s.mps]

LPS(s, r) == rangeTabLPS[s.p][(r \div 64) % 4]

Init ==
  /\ \E qp \in SliceQp : ectx = [c \in Ctx |-> InitCtx(c, qp)] /\ dctx = ectx
  /\ range = 0 /\ low = 0 /\ first = 0 /\ outstanding = 0
  /\ pc = "init" /\ bins = << >> /\ out = << >> /\ damaged = FALSE
  /\ drange = 0 /\ offset = 0 /\ dpc = "off" /\ pos = 0 /\ got = << >>

-----------------------------------------------------------------------------
(* The encoder.                                                             *)

(* h264_cabac_init_arith, at a byte boundary. *)
InitArith ==
  /\ pc = "init"
  /\ IF Len(out) % ByteBits # 0
     THEN pc' = "failed" /\ UNCHANGED << range, low, first, outstanding >>
     ELSE /\ range' = 510 /\ low' = 0 /\ first' = 1 /\ outstanding' = 0
          /\ pc' = "bin"
  /\ UNCHANGED << ectx, bins, out, damaged, decoder >>

Times(n, b) == [i \in 1 .. n |-> b]

(* Wrong on purpose: the bits that waited are repeated. *)
PutBitMutant(b) ==
  IF first = 1 /\ b # 0
  THEN pc' = "failed" /\ first' = 0 /\ UNCHANGED << outstanding, out >>
  ELSE /\ out' = out \o (IF first = 1 THEN << >> ELSE << b >>) \o Times(outstanding, b)
       /\ first' = 0 /\ outstanding' = 0

(* put_bit: the bits that waited for this one are its complement.           *)
PutBit(b) ==
  IF first = 1 /\ b # 0
  THEN pc' = "failed" /\ first' = 0 /\ UNCHANGED << outstanding, out >>
  ELSE /\ out' = out \o (IF first = 1 THEN << >> ELSE << b >>) \o Times(outstanding, 1 - b)
       /\ first' = 0 /\ outstanding' = 0

(* One round of h264_cabac_renorm, and h264_cabac_bypass: a bit of the      *)
(* doubled low l is written or, in the middle, waits; then to next.         *)
Shift(l, next) ==
  \/ l < 512 /\ low' = l /\ pc' = next /\ PutBit(0)
  \/ /\ l >= 1024 /\ low' = l - 1024
     /\ (first = 0 => pc' = next) /\ PutBit(1)
  \/ /\ 512 <= l /\ l < 1024 /\ low' = l - 512 /\ pc' = next
     /\ outstanding' = outstanding + 1 /\ UNCHANGED << first, out >>

End == [kind |-> "terminate", bin |-> 1]
After(r, s) == IF r < 256 THEN "renorm" ELSE IF s # << >> /\ Last(s) = End THEN "flush" ELSE "bin"
Encode(k, b) == pc = "bin" /\ Len(bins) < MaxBins /\ bins' = Append(bins, [kind |-> k, bin |-> b])

Renorm ==
  /\ pc = "renorm" /\ range' = 2 * range
  /\ Shift(2 * low, After(2 * range, bins))
  /\ UNCHANGED << ectx, bins, damaged, decoder >>

(* Wrong on purpose: the less probable symbol is above the interval. *)
DecisionMutant(c, b) ==
  LET lps == LPS(ectx[c], range)
  IN /\ Encode(c, b)
     /\ IF b = ectx[c].mps
        THEN range' = range - lps /\ UNCHANGED low
        ELSE range' = lps /\ low' = low + range
     /\ ectx' = [ectx EXCEPT ![c] = Learn(@, b)]
     /\ pc' = After(range', bins')
     /\ UNCHANGED << first, outstanding, out, damaged, decoder >>

(* h264_cabac_decision *)
Decision(c, b) ==
  LET lps == LPS(ectx[c], range)
  IN /\ Encode(c, b)
     /\ IF b = ectx[c].mps
        THEN range' = range - lps /\ UNCHANGED low
        ELSE range' = lps /\ low' = low + (range - lps)
     /\ ectx' = [ectx EXCEPT ![c] = Learn(@, b)]
     /\ pc' = After(range', bins')
     /\ UNCHANGED << first, outstanding, out, damaged, decoder >>

(* h264_cabac_bypass *)
Bypass(b) ==
  /\ Encode("bypass", b) /\ Shift(2 * low + b * range, "bin")
  /\ UNCHANGED << range, ectx, damaged, decoder >>

(* h264_cabac_terminate *)
Terminate(b) ==
  /\ Encode("terminate", b)
  /\ IF b = 1 THEN range' = 2 /\ low' = low + (range - 2)
              ELSE range' = range - 2 /\ UNCHANGED low
  /\ pc' = After(range', bins')
  /\ UNCHANGED << first, outstanding, ectx, out, damaged, decoder >>

(* Its last bits; the first of them still takes those that wait.            *)
Flush ==
  LET high == (low \div 512) % 2
      next == (low \div 256) % 2
  IN /\ pc = "flush"
     /\ IF first = 1 /\ high # 0
        THEN pc' = "failed" /\ UNCHANGED out
        ELSE /\ out' = out \o (IF first = 1 THEN << >> ELSE << high >>)
                           \o Times(outstanding, 1 - high) \o << next, 1 >>
             /\ pc' = "ended"
     /\ first' = 0 /\ outstanding' = 0
     /\ UNCHANGED << range, low, ectx, bins, damaged, decoder >>

(* vs_align_byte(VS_ALIGN_0) *)
Pad(n) == (ByteBits - (n % ByteBits)) % ByteBits
Aligned(s) == s \o Times(Pad(Len(s)), 0)

(* An I_PCM macroblock: aligned samples, here a byte of equal bits. *)
Pcm(b) ==
  /\ pc = "ended" /\ Len(bins) < MaxBins
  /\ bins' = Append(bins, [kind |-> "pcm", bin |-> b])
  /\ out' = Aligned(out) \o Times(ByteBits, b)
  /\ pc' = "init"
  /\ UNCHANGED << range, low, first, outstanding, ectx, damaged, decoder >>

(* The end of the slice; what is decoded may differ in a bit.               *)
Send ==
  /\ pc = "ended" /\ pc' = "sent" /\ dpc' = "init"
  /\ \/ out' = Aligned(out) /\ UNCHANGED damaged
     \/ /\ Len(bins) <= MaxDamaged
        /\ \E i \in DOMAIN out : out' = [Aligned(out) EXCEPT ![i] = 1 - @]
        /\ damaged' = TRUE
  /\ UNCHANGED << range, low, first, outstanding, ectx, bins, drange, offset, dctx, pos, got >>

-----------------------------------------------------------------------------
(* The decoder.                                                             *)

(* Which kind is next is known from what was decoded before.                *)
Expected(k) ==
  IF damaged THEN Len(got) < MaxDamaged
             ELSE Len(got) < Len(bins) /\ bins[Len(got) + 1].kind = k

Decode(k, b) == Expected(k) /\ got' = Append(got, [kind |-> k, bin |-> b])

DFail == dpc' = "failed" /\ UNCHANGED << drange, offset, dctx, pos, got, encoder >>

(* The number that the nine bits behind position k stand for. *)
Nine(s, k) ==
  256 * s[k + 1] + 128 * s[k + 2] + 64 * s[k + 3] + 32 * s[k + 4] + 16 * s[k + 5]
    + 8 * s[k + 6] + 4 * s[k + 7] + 2 * s[k + 8] + s[k + 9]

DInitArith ==
  /\ dpc = "init"
  /\ IF pos % ByteBits # 0 \/ pos + 9 > Len(out) \/ Nine(out, pos) \notin 0 .. 509
     THEN DFail
     ELSE /\ drange' = 510 /\ offset' = Nine(out, pos) /\ pos' = pos + 9 /\ dpc' = "bin"
          /\ UNCHANGED << dctx, got, encoder >>

DAfter(r) == IF r < 256 THEN "renorm" ELSE "bin"

DRenorm ==
  /\ dpc = "renorm"
  /\ IF pos = Len(out) THEN DFail
     ELSE /\ drange' = 2 * drange /\ offset' = 2 * offset + out[pos + 1] /\ pos' = pos + 1
          /\ dpc' = DAfter(2 * drange)
          /\ UNCHANGED << dctx, got, encoder >>

(* Wrong on purpose: an offset equal to the range counts as below it. *)
DDecisionMutant(c) ==
  LET s == dctx[c]
      lps == LPS(s, drange)
      b == IF offset > drange - lps THEN 1 - s.mps ELSE s.mps
  IN /\ dpc = "bin" /\ Decode(c, b)
     /\ IF offset > drange - lps
        THEN drange' = lps /\ offset' = offset - (drange - lps)
        ELSE drange' = drange - lps /\ UNCHANGED offset
     /\ dctx' = [dctx EXCEPT ![c] = Learn(@, b)]
     /\ dpc' = DAfter(drange')
     /\ UNCHANGED << pos, encoder >>

DDecision(c) ==
  LET s == dctx[c]
      lps == LPS(s, drange)
      b == IF offset >= drange - lps THEN 1 - s.mps ELSE s.mps
  IN /\ dpc = "bin" /\ Decode(c, b)
     /\ IF offset >= drange - lps
        THEN drange' = lps /\ offset' = offset - (drange - lps)
        ELSE drange' = drange - lps /\ UNCHANGED offset
     /\ dctx' = [dctx EXCEPT ![c] = Learn(@, b)]
     /\ dpc' = DAfter(drange')
     /\ UNCHANGED << pos, encoder >>

DBypass ==
  /\ dpc = "bin" /\ Expected("bypass")
  /\ IF pos = Len(out) THEN DFail
     ELSE LET o == 2 * offset + out[pos + 1]
          IN /\ IF o >= drange THEN Decode("bypass", 1) /\ offset' = o - drange
                               ELSE Decode("bypass", 0) /\ offset' = o
             /\ pos' = pos + 1
             /\ UNCHANGED << drange, dctx, dpc, encoder >>

DTerminate ==
  /\ dpc = "bin" /\ drange' = drange - 2
  /\ IF offset >= drange - 2
     THEN Decode("terminate", 1) /\ dpc' = "ended"
     ELSE Decode("terminate", 0) /\ dpc' = DAfter(drange')
  /\ UNCHANGED << offset, dctx, pos, encoder >>

(* The rest of the byte is 0. *)
PadRead == \A i \in pos + 1 .. pos + Pad(pos) : i \in DOMAIN out /\ out[i] = 0

DPcm ==
  LET start == pos + Pad(pos)
  IN /\ dpc = "ended" /\ Expected("pcm")
     /\ IF ~PadRead \/ start + ByteBits > Len(out) THEN DFail
        ELSE /\ Decode("pcm", out[start + 1])
             /\ pos' = start + ByteBits /\ dpc' = "init"
             /\ UNCHANGED << drange, offset, dctx, encoder >>

DEnd ==
  /\ dpc = "ended" /\ (~damaged => Len(got) = Len(bins))
  /\ IF ~PadRead THEN DFail
     ELSE /\ dpc' = "done" /\ pos' = pos + Pad(pos)
          /\ UNCHANGED << drange, offset, dctx, got, encoder >>

-----------------------------------------------------------------------------
Next ==
  \/ InitArith \/ Renorm \/ Flush \/ Send
  \/ \E b \in Bit : (\E c \in Ctx : Decision(c, b)) \/ Bypass(b) \/ Terminate(b) \/ Pcm(b)
  \/ DInitArith \/ DRenorm \/ (\E c \in Ctx : DDecision(c)) \/ DBypass \/ DTerminate
  \/ DPcm \/ DEnd

Spec == Init /\ [][Next]_cvars

-----------------------------------------------------------------------------
(* The encoder never fails: "CABAC initial skipped bit not 0" is not seen,  *)
(* because a first bit of 1 would need low + range above 512 before any     *)
(* bit is known, and PCM samples leave it at a byte boundary.               *)
EncoderNeverFails == pc # "failed"

(* Whatever the bits are, the offset stays below the range, so that every   *)
(* bin is one the encoder could have meant and no later offset overflows.   *)
OffsetInRange ==
  /\ dpc = "bin" => drange \in 256 .. 510
  /\ dpc \in {"bin", "renorm"} => offset < drange

(* What was encoded is decoded, the contexts learn the same, and after the  *)
(* last bin of a slice and before the samples of a PCM macroblock the       *)
(* decoder has read what the encoder has written and no bit more.           *)
RoundTrip ==
  ~damaged =>
    /\ dpc # "failed" /\ IsPrefix(got, bins)
    /\ dpc = "done" => got = bins /\ dctx = ectx /\ pos = Len(out)
=============================================================================
