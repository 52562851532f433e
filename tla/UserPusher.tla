----------------------------- MODULE UserPusher -----------------------------
(***************************************************************************)
(* src/demmt/pushbuf.c, the NV4-style pushbuffer: user_decode and          *)
(* user_decode_end, called for each word written to the USER area of a     *)
(* channel, with the loop of __pushbuf_print.  A write to DMA_PUT decodes  *)
(* the words between the previous and the new value; when the new value is *)
(* lower, the channel is taken to have wrapped around through a jump.      *)
(*                                                                         *)
(* GPU addresses are counted in 32-bit words.  pc follows one call of      *)
(* user_decode plus user_decode_end; no other operation of this single-    *)
(* threaded program starts before it returns.  The model starts where the  *)
(* USER area has been recognised (buffer_decode_register_write), and keeps *)
(* no obj->data, the copy of the parameters that only the decoders of      *)
(* object classes read.                                                    *)
(***************************************************************************)
EXTENDS MethodStream

CONSTANTS
  Values,    \* what is written to DMA_PUT
  Mappings,  \* GPU mappings: [address, length, known]; known: has a CPU mapping
  NULL

ASSUME MappingAssumption ==
  /\ Mappings \subseteq [address : Nat \ {0}, length : Nat, known : BOOLEAN]
  /\ Values \subseteq Nat /\ NULL \notin Mappings \cup Nat
  /\ Zero \in Words
  /\ \A m, n \in Mappings :
       \/ m = n
       \/ m.address + m.length <= n.address \/ n.address + n.length <= m.address

VARIABLES
  memory,  \* the objects that have a CPU mapping, by GPU address
  last,    \* last_gpu_mapping
  prev,    \* prev_dma_put
  put,     \* dma_put
  pc,      \* where the call in progress is
  written, \* the value the call writes to DMA_PUT, or NULL for another register
  cur,     \* __pushbuf_print: the next word
  end      \* and the end of the words to print

stream == << decoder, subchans, objects, stopped, told >>
call == << pc, written, cur, end >>
user == << last, prev, put >>
uvars == << stream, memory, user, call >>

Limit(m) == m.address + m.length
Inside(a, m) == m.address <= a /\ a < Limit(m)
Addresses == UNION { m.address .. Limit(m) - 1 : m \in { n \in Mappings : n.known } }

UInit ==
  /\ Init
  /\ memory = [a \in Addresses |-> Zero]
  /\ last = NULL /\ prev = 0 /\ put = 0
  /\ pc = "idle" /\ written = NULL /\ cur = 0 /\ end = 0

-----------------------------------------------------------------------------
(* A word of the mapped memory is written. *)
WriteMemory(a, w) ==
  /\ pc = "idle" /\ ~stopped
  /\ memory' = [memory EXCEPT ![a] = w]
  /\ UNCHANGED << stream, user, call >>

(* A register of the USER area is written: DMA_PUT with value v, or another *)
(* one (v = NULL).                                                          *)
WriteUser(v) ==
  /\ pc = "idle" /\ ~stopped
  /\ pc' = "decode" /\ written' = v
  /\ UNCHANGED << stream, memory, user, cur, end >>

(* The mapping a value of DMA_PUT is in, if any. *)
Found(v) == { m \in Mappings : Inside(v, m) }

(* Wrong on purpose: prev_dma_put is kept when the mapping changes. *)
UserDecodeStaleMutant ==
  /\ pc = "decode"
  /\ pc' = "end" /\ written' = NULL
  /\ IF written = NULL
     THEN UNCHANGED user
     ELSE IF last # NULL /\ Inside(written, last)
     THEN put' = written /\ UNCHANGED << last, prev >>
     ELSE IF Found(written) = {}
     THEN last' = NULL /\ UNCHANGED << prev, put >>
     ELSE \E m \in Found(written) :
            /\ last' = IF m.known THEN m ELSE NULL
            /\ put' = written /\ UNCHANGED prev
  /\ UNCHANGED << stream, memory, cur, end >>

(* Wrong on purpose: the mapping of the previous call is not kept. *)
UserDecodeSearchMutant ==
  /\ pc = "decode"
  /\ pc' = "end" /\ written' = NULL
  /\ IF written = NULL
     THEN UNCHANGED user
     ELSE IF Found(written) = {}
     THEN last' = NULL /\ UNCHANGED << prev, put >>
     ELSE \E m \in Found(written) :
            /\ last' = IF m.known THEN m ELSE NULL
            /\ prev' = m.address /\ put' = written
  /\ UNCHANGED << stream, memory, cur, end >>

(* user_decode.  The mapping of the previous call is kept if the value is   *)
(* in it; otherwise all mappings are searched, and decoding starts at the   *)
(* first word of the one found.  A mapping without a CPU mapping is         *)
(* forgotten at once.  The code first prints what the previous call left    *)
(* over: nothing, by NothingPending.                                        *)
UserDecode ==
  /\ pc = "decode"
  /\ pc' = "end" /\ written' = NULL
  /\ IF written = NULL
     THEN UNCHANGED user
     ELSE IF last # NULL /\ Inside(written, last)
     THEN put' = written /\ UNCHANGED << last, prev >>
     ELSE IF Found(written) = {}
     THEN last' = NULL /\ UNCHANGED << prev, put >>
     ELSE \E m \in Found(written) :
            /\ last' = IF m.known THEN m ELSE NULL
            /\ prev' = m.address /\ put' = written
  /\ UNCHANGED << stream, memory, cur, end >>

(* user_decode_end, up to the first call of pushbuf_print: to the end of    *)
(* the mapping when dma_put went back, to dma_put otherwise.                *)
UserDecodeEnd ==
  /\ pc = "end"
  /\ IF last = NULL \/ prev = put
     THEN pc' = "idle" /\ UNCHANGED << cur, end >>
     ELSE /\ cur' = prev
          /\ IF put < prev THEN pc' = "wrap" /\ end' = Limit(last)
                           ELSE pc' = "print" /\ end' = put
  /\ UNCHANGED << stream, memory, user, written >>

(* Wrong on purpose: a jump inside the mapping is followed. *)
PrintWordMutant ==
  /\ pc \in {"wrap", "print"} /\ cur < end
  /\ PushbufDecode(memory[cur])
  /\ IF nextaddr' = 0
     THEN cur' = cur + 1 /\ UNCHANGED end
     ELSE IF Inside(nextaddr' \div 4, last)
     THEN cur' = nextaddr' \div 4 /\ UNCHANGED end
     ELSE end' = cur /\ UNCHANGED cur
  /\ UNCHANGED << memory, user, pc, written >>

(* One round of the loop of __pushbuf_print; a jump leaves the loop.        *)
PrintWord ==
  /\ pc \in {"wrap", "print"} /\ cur < end
  /\ PushbufDecode(memory[cur])
  /\ IF nextaddr' = 0
     THEN cur' = cur + 1 /\ UNCHANGED end
     ELSE end' = cur /\ UNCHANGED cur
  /\ UNCHANGED << memory, user, pc, written >>

Printed(where) == pc = where /\ cur >= end /\ ~stopped

(* The wraparound is believed if the words ended in a jump to a place in    *)
(* the mapping at or before dma_put (addresses of words: nextaddr / 4).     *)
JumpTarget == nextaddr \div 4
JumpedBack ==
  /\ nextaddr # 0 /\ nextaddr % 4 = 0
  /\ Inside(JumpTarget, last) /\ JumpTarget <= put

(* Wrong on purpose: decoding goes on at the old prev_dma_put. *)
WrapAroundMutant ==
  /\ Printed("wrap") /\ JumpedBack
  /\ prev' = JumpTarget /\ UNCHANGED << last, put >>
  /\ pc' = "print" /\ cur' = prev /\ end' = put
  /\ UNCHANGED << stream, memory, written >>

WrapAround ==
  /\ Printed("wrap") /\ JumpedBack
  /\ prev' = JumpTarget /\ UNCHANGED << last, put >>
  /\ pc' = "print" /\ cur' = JumpTarget /\ end' = put
  /\ UNCHANGED << stream, memory, written >>

(* "confused, ... resetting state"; the state of the method decoder stays.  *)
Confused ==
  /\ Printed("wrap") /\ ~JumpedBack
  /\ last' = NULL /\ prev' = put /\ UNCHANGED put
  /\ pc' = "idle"
  /\ UNCHANGED << stream, memory, written, cur, end >>

(* Wrong on purpose: prev_dma_put is not moved. *)
PrintDoneMutant ==
  /\ Printed("print")
  /\ UNCHANGED user
  /\ pc' = "idle"
  /\ UNCHANGED << stream, memory, written, cur, end >>

PrintDone ==
  /\ Printed("print")
  /\ prev' = put /\ UNCHANGED << last, put >>
  /\ pc' = "idle"
  /\ UNCHANGED << stream, memory, written, cur, end >>

(* The handlers of object ioctls run between the calls. *)
Ioctl ==
  /\ pc = "idle"
  /\ \E h \in Created : AddObject(h) \/ NameObject(h)
  /\ UNCHANGED << memory, user, call >>

Decoding == UserDecode \/ UserDecodeEnd \/ PrintWord \/ WrapAround \/ Confused \/ PrintDone

UNext ==
  \/ \E a \in Addresses, w \in Words : WriteMemory(a, w)
  \/ \E v \in Values \cup {NULL} : WriteUser(v)
  \/ Decoding
  \/ Ioctl

(* One thread runs a call to its end. *)
USpec == UInit /\ [][UNext]_uvars /\ WF_uvars(Decoding)

-----------------------------------------------------------------------------
(* The words a call prints lie in the mapping it found: user_print computes *)
(* them from prev_dma_put and dma_put, which are left from earlier calls    *)
(* and other mappings (user_decode, user_print).                            *)
PrintsInside ==
  pc \in {"wrap", "print"} =>
    /\ last # NULL
    /\ last.address <= cur /\ cur <= end /\ end <= Limit(last)

(* user_decode_end leaves nothing to print, so the user_print at the start  *)
(* of the next user_decode has no work: it would use the mapping of an      *)
(* earlier call (user_decode, user_decode_end).                             *)
NothingPending == pc \in {"idle", "decode"} => last = NULL \/ prev = put

(* Every call returns, or the program has stopped.                          *)
CallReturns == pc # "idle" ~> pc = "idle" \/ stopped
=============================================================================
