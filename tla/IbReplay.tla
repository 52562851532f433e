------------------------------ MODULE IbReplay ------------------------------
(***************************************************************************)
(* IbPusher driven by a driver that submits commands as                    *)
(* src/docs/hw/fifo/dma-pusher.rst ("IB mode") says: it writes commands    *)
(* into a pushbuffer, then an entry for a piece of it into the next slot   *)
(* of the ring, first the low word, then the high one, and goes on at the  *)
(* first slot after the last.  A piece may end anywhere: a command may be  *)
(* split between entries.  Once the ring was recognised one write may hold *)
(* a whole entry, or several.                                              *)
(*                                                                         *)
(* The driver is no part of demmt.  Its actions stand for what a trace of  *)
(* such a driver holds.                                                    *)
(***************************************************************************)
EXTENDS IbPusher

CONSTANTS
  Buffer,    \* the mapping of the pushbuffer
  Commands   \* the commands the driver may write: a command word, parameters

ASSUME DriverAssumption ==
  /\ Buffer \in Mappings /\ Buffer.address % LowWords # 0
  /\ Commands \subseteq Seq(Words)
  /\ \A c \in Commands :
       /\ c # << >> /\ Queue!Announces(c[1]) /\ Documented(c[1])
       /\ Len(Queue!Methods(c[1])) = Len(c) - 1

VARIABLES
  start,  \* where the words begin that no entry holds yet
  ready,  \* what these words submit: NoMethod for a command word
  slot,   \* where the next entry goes
  piece,  \* the size of the entry of which the low word is written, or 0
  due     \* the same for the words of complete entries that were not decoded

driver == << start, ready, slot, piece, due >>
rvars == << ivars, driver >>

writing == start + Len(ready)  \* where the next command goes

RInit ==
  /\ IInit
  /\ start = Buffer.address /\ ready = << >> /\ slot = RingStart /\ piece = 0 /\ due = << >>

Submission(c) ==
  [k \in 1 .. Len(c) |-> IF k = 1 THEN NoMethod ELSE Queue!With(Queue!Methods(c[1])[k - 1], c[k])]

WriteCommand(c) ==
  /\ pc = "idle" /\ writing + Len(c) <= Buffer.address + Buffer.length
  /\ memory' = [a \in Addresses |-> IF a \in writing .. writing + Len(c) - 1
                                    THEN c[a - writing + 1] ELSE memory[a]]
  /\ ready' = ready \o Submission(c)
  /\ UNCHANGED << stream, ring, known, recognition, address, call, start, slot, piece, due >>

(* All that was written is in entries: the pushbuffer is used again. *)
Rewind ==
  /\ pc = "idle" /\ ready = << >> /\ start # Buffer.address
  /\ start' = Buffer.address
  /\ UNCHANGED << ivars, ready, slot, piece, due >>

NextSlot(s) == IF s + 1 \in Ring THEN s + 1 ELSE RingStart
LowOf(a) == a % LowWords
HighOf(a, n) == [high |-> a \div LowWords, size |-> n]

(* An entry for the first n of the ready words is complete. *)
Submit(n) ==
  /\ due' = SubSeq(ready, 1, n)
  /\ ready' = SubSeq(ready, n + 1, Len(ready))
  /\ start' = start + n

WriteLow(n) ==
  /\ piece = 0 /\ piece' = n
  /\ RegisterWrite(2 * slot, 2 * slot, [low EXCEPT ![slot] = LowOf(start)], high)
  /\ UNCHANGED << start, ready, slot, due >>

WriteHigh ==
  /\ piece # 0 /\ piece' = 0
  /\ RegisterWrite(2 * slot + 1, 2 * slot + 1, low, [high EXCEPT ![slot] = HighOf(start, piece)])
  /\ Submit(piece) /\ slot' = NextSlot(slot)

(* Entries of n and of m words in one write; m = 0 for a single entry. *)
WriteEntries(n, m) ==
  LET last == IF m = 0 THEN slot ELSE slot + 1
  IN /\ is /\ piece = 0 /\ last \in Ring
     /\ RegisterWrite(2 * slot, 2 * last + 1,
                      [low EXCEPT ![slot] = LowOf(start), ![last] = LowOf(start + IF m = 0 THEN 0 ELSE n)],
                      [s \in Slot |-> IF s = slot THEN HighOf(start, n)
                                      ELSE IF s = last THEN HighOf(start + n, m) ELSE high[s]])
     /\ Submit(n + m) /\ slot' = NextSlot(last)
     /\ UNCHANGED piece

(* A word is decoded, and no longer due. *)
Decodes == pc = "print" /\ cur < end

Decode ==
  /\ Decoding
  /\ due' = IF Decodes /\ due # << >> THEN Tail(due) ELSE due
  /\ UNCHANGED << start, ready, slot, piece >>

RNext ==
  \/ \E c \in Commands : WriteCommand(c)
  \/ Rewind
  \/ \E n \in 1 .. Len(ready) : WriteLow(n)
  \/ WriteHigh
  \/ \E n \in 1 .. Len(ready), m \in 0 .. Len(ready) - 1 : n + m <= Len(ready) /\ WriteEntries(n, m)
  \/ Decode

(* One thread runs a call to its end. *)
RSpec == RInit /\ [][RNext]_rvars /\ WF_rvars(Decode)

-----------------------------------------------------------------------------
(* Every word that is decoded is the next one the driver submitted, and     *)
(* sends the method the driver meant, or none: an entry                     *)
(* is decoded once, when it is complete, and not while a slot holds         *)
(* one word of this round and one of the round before; a command that is    *)
(* split between entries goes on where it stopped (ib_decode, ib_flush,     *)
(* buffer_decode_register_write).                                           *)
DecodedAsSubmitted == [][Decodes => due # << >> /\ Head(due) = submitted']_rvars

(* When the call returns every entry that is complete has been decoded,     *)
(* round after round, the first one, by which the ring is recognised,       *)
(* included.                                                                *)
AllDecoded == pc = "idle" => due = << >>

(* Every call returns, whatever the entries point to.                       *)
CallReturns == pc # "idle" ~> pc = "idle" \/ stopped
=============================================================================
