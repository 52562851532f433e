---------------------------- MODULE CommandWords ----------------------------
(***************************************************************************)
(* The 32-bit words of a pushbuffer, cut at the bit positions where the    *)
(* command formats of src/demmt/pushbuf.c cut them:                        *)
(*                                                                         *)
(*    31..29  28....18  17..16  15..13  12....2  1..0                      *)
(*     top     count     type    subc    mthd    low                       *)
(*                                                                         *)
(* Every word is both a possible command and possible data, and which one  *)
(* it is depends on the state of the decoder alone.                        *)
(***************************************************************************)
EXTENDS Integers

Bits2 == 0..3
Bits3 == 0..7
Bits11 == 0..2047
Word == [top : Bits3, count : Bits11, type : Bits2,
         subc : Bits3, mthd : Bits11, low : Bits2]

Zero == [top |-> 0, count |-> 0, type |-> 0, subc |-> 0, mthd |-> 0, low |-> 0]

(* Words as numbers.  Method offsets are counted in words, not in bytes.    *)
WordOf(n) ==
  [top |-> 0, count |-> 0, type |-> 0, subc |-> n \div 8192, mthd |-> (n \div 4) % 2048, low |-> n % 4]

(* data & 0xffffff: the count of a long command *)
LongCountOf(w) ==
  262144 * (w.count % 64) + 65536 * w.type + 8192 * w.subc + 4 * w.mthd + w.low

(* data & 0xfffffffc, in words: the target of a jump *)
TargetOf(w) ==
  134217728 * w.top + 65536 * w.count + 16384 * w.type + 2048 * w.subc + w.mthd

(* The newer command formats of GF100 take 13 bits of count (28..16) and    *)
(* the word offset of the method from bits 12..0.                           *)
WideCount(w) == 4 * w.count + w.type
WideMethod(w) == 4 * w.mthd + w.low

GF100 == 192  \* 0xc0, the first chipset with the newer formats
GK104 == 224  \* 0xe0, the first chipset with objects bound by default
=============================================================================
