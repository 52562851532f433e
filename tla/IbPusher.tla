------------------------------ MODULE IbPusher ------------------------------
(***************************************************************************)
(* src/demmt/pushbuf.c (ib_decode, ib_flush, ib_decode_end) and            *)
(* src/demmt/buffer_decode.c: the IB-style pushbuffer.  The program that   *)
(* is traced writes entries, each the address and the size of a piece of   *)
(* pushbuffer, into a ring of slots.  The decoder sees writes of one or    *)
(* more words to a mapping; it must recognise that the mapping holds a     *)
(* ring, and where, and decode the words an entry points to when the entry *)
(* is complete.                                                            *)
(*                                                                         *)
(* GPU addresses are counted in 32-bit words.  One mapping is written to   *)
(* that may hold a ring; low and high are its words, two to a slot.  The   *)
(* words of a slot differ in use only, so each is cut as it is read: bits  *)
(* 2-31 of the address, and bits 32-39 with the size.  The bits 0-1 of the *)
(* first word, which must be 0, and the flags of the second one, which are *)
(* printed, are left out.                                                  *)
(***************************************************************************)
EXTENDS MethodStream

CONSTANTS
  LowWords,   \* how many addresses the first word of an entry tells apart
  Slots,      \* the mapping has slots 0 .. Slots - 1
  RingStart,  \* the first slot of the ring (ib.addr)
  RingSlots,  \* how many there are (ib.entries)
  Mappings    \* GPU mappings: [address, length]

ASSUME RingAssumption ==
  /\ LowWords \in Nat \ {0} /\ RingStart \in Nat /\ RingSlots \in Nat \ {0}
  /\ Slots \in Nat /\ RingStart + RingSlots <= Slots
ASSUME MappingAssumption ==
  /\ Zero \in Words  \* what a mapping holds before it is written to
  /\ Mappings \subseteq [address : Nat \ {0}, length : Nat]
  /\ \A m, n \in Mappings :
       \/ m = n
       \/ m.address + m.length <= n.address \/ n.address + n.length <= m.address

VARIABLES
  memory,   \* what the GPU mappings hold
  low,      \* the first word of each slot
  high,     \* and the second one
  known,    \* the arguments of the ioctl that created the channel were traced
  is,       \* pb_pointer_found, ib.is
  offset,   \* ib.offset, as the number of a word
  entries,  \* ib.entries, 0 when unknown
  address,  \* address of the entry decoded last
  pc,       \* where the call of buffer_decode_register_write is; its locals
            \* are 0 between calls
  at,       \* addr: the next word of the write
  stop,     \* and the end of the write
  cur,      \* __pushbuf_print: the next word
  end       \* and the end of the words to print

stream == << decoder, subchans, objects, stopped, told >>
ring == << low, high >>
recognition == << is, offset, entries >>
call == << pc, at, stop, cur, end >>
ivars == << stream, memory, ring, known, recognition, address, call >>

Slot == 0 .. Slots - 1
Ring == RingStart .. RingStart + RingSlots - 1
Empty == [high |-> 0, size |-> 0]

Inside(a, m) == m.address <= a /\ a < m.address + m.length
Addresses == UNION { m.address .. m.address + m.length - 1 : m \in Mappings }
Found(a) == { m \in Mappings : Inside(a, m) }

IInit ==
  /\ Init
  /\ memory = [a \in Addresses |-> Zero]
  /\ low = [s \in Slot |-> 0] /\ high = [s \in Slot |-> Empty]
  /\ known \in BOOLEAN /\ is = FALSE /\ offset = 0 /\ entries = 0 /\ address = 0
  /\ pc = "idle" /\ at = 0 /\ stop = 0 /\ cur = 0 /\ end = 0

-----------------------------------------------------------------------------
AddressOf(l, h) == l + LowWords * h.high

(* buffer_decode_register_write, after a write that starts at word i: it    *)
(* completes something that looks like an entry, and either it is in the    *)
(* ring the channel was created with, or it points to a GPU mapping.        *)
LooksLikeEntry(i) == i % 2 = 1 /\ low'[i \div 2] # 0 /\ high'[i \div 2] # Empty

PointsToMapping(i) ==
  LET l == low'[i \div 2]
      h == high'[i \div 2]
  IN \E m \in Mappings : m.address = AddressOf(l, h) /\ h.size <= m.length

Recognise(i) ==
  LET inRing == known /\ i \div 2 \in Ring
  IN IF ~is /\ LooksLikeEntry(i) /\ (inRing \/ PointsToMapping(i))
     THEN is' = TRUE /\ offset' = i - 1 /\ entries' = IF inRing THEN RingSlots ELSE 0
     ELSE UNCHANGED recognition

(* The words from first to last are written: the new contents of the slots  *)
(* are l and h.                                                             *)
RegisterWrite(first, last, l, h) ==
  /\ pc = "idle" /\ ~stopped
  /\ low'  = [s \in Slot |-> IF 2 * s \in first .. last THEN l[s] ELSE low[s]]
  /\ high' = [s \in Slot |-> IF 2 * s + 1 \in first .. last THEN h[s] ELSE high[s]]
  /\ Recognise(first)
  /\ pc' = "loop" /\ at' = first /\ stop' = last + 1
  /\ UNCHANGED << stream, memory, known, address, cur, end >>

(* Wrong on purpose: an entry is taken for 4 bytes. *)
InWindowMutant(i) ==
  is /\ offset <= i /\ (entries = 0 \/ i < offset + entries)

(* The words that are taken for entries. *)
InWindow(i) ==
  is /\ offset <= i /\ (entries = 0 \/ i < offset + 2 * entries)

(* Wrong on purpose: the loop does not go on to the next word. *)
SkipWordMutant ==
  /\ pc = "loop" /\ at < stop /\ ~(at % 2 = 1 /\ InWindow(at))
  /\ UNCHANGED ivars

SkipWord ==
  /\ pc = "loop" /\ at < stop /\ ~(at % 2 = 1 /\ InWindow(at))
  /\ at' = at + 1
  /\ UNCHANGED << stream, memory, ring, known, recognition, address, pc, stop, cur, end >>

(* Wrong on purpose: the entry is decoded at its first word. *)
IbEntryMutant ==
  LET s == at \div 2
  IN /\ pc = "loop" /\ at < stop /\ InWindow(at)
     /\ address' = AddressOf(low[s], high[s])
     /\ IF Found(address') = {}
        THEN at' = at + 1 /\ UNCHANGED << pc, cur, end >>
        ELSE pc' = "print" /\ cur' = address' /\ end' = address' + high[s].size /\ UNCHANGED at
     /\ UNCHANGED << stream, memory, ring, known, recognition, stop >>

(* ib_decode, called for both words of the entry when the second one comes. *)
IbEntry ==
  LET s == at \div 2
  IN /\ pc = "loop" /\ at < stop /\ at % 2 = 1 /\ InWindow(at)
     /\ address' = AddressOf(low[s], high[s])
     /\ IF Found(address') = {}
        THEN at' = at + 1 /\ UNCHANGED << pc, cur, end >>
        ELSE pc' = "print" /\ cur' = address' /\ end' = address' + high[s].size /\ UNCHANGED at
     /\ UNCHANGED << stream, memory, ring, known, recognition, stop >>

(* What ib_flush reads at a: the size of the entry is not compared with the *)
(* mapping, and what lies behind the mapping may be anything.               *)
Reads(a) == IF \E m \in Found(address) : Inside(a, m) THEN {memory[a]} ELSE Words

PrintWord ==
  /\ pc = "print" /\ cur < end
  /\ \E w \in Reads(cur) : PushbufDecode(w)
  /\ IF nextaddr' = 0
     THEN cur' = cur + 1 /\ UNCHANGED end
     ELSE end' = cur /\ UNCHANGED cur
  /\ UNCHANGED << memory, ring, known, recognition, address, pc, at, stop >>

EntryDone ==
  /\ pc = "print" /\ cur >= end /\ ~stopped
  /\ pc' = "loop" /\ at' = at + 1 /\ cur' = 0 /\ end' = 0
  /\ UNCHANGED << stream, memory, ring, known, recognition, address, stop >>

Return ==
  /\ pc = "loop" /\ at = stop
  /\ pc' = "idle" /\ at' = 0 /\ stop' = 0
  /\ UNCHANGED << stream, memory, ring, known, recognition, address, cur, end >>

Decoding == SkipWord \/ IbEntry \/ PrintWord \/ EntryDone \/ Return
=============================================================================
