---------------------------- MODULE DriverReplay ----------------------------
(***************************************************************************)
(* UserPusher driven by a driver that uses its pushbuffer as               *)
(* src/docs/hw/fifo/dma-pusher.rst (Step 4 of "The usual way to use        *)
(* NV4-style mode") says: it writes commands into a circular buffer, jumps *)
(* to the beginning when room runs out, never overwrites words that were   *)
(* not fetched yet, and sets DMA_PUT behind the last word written.  It may *)
(* write several commands, and wrap around, before it sets DMA_PUT.        *)
(*                                                                         *)
(* The driver is no part of demmt.  Its actions stand for what a trace of  *)
(* such a driver holds.                                                    *)
(***************************************************************************)
EXTENDS UserPusher

CONSTANTS
  Buffer,    \* the mapping of the pushbuffer
  Commands,  \* the commands the driver may write: a command word, parameters
  JumpBack   \* the word of a jump to the beginning of the buffer

ASSUME DriverAssumption ==
  /\ Chipset < GF100
  /\ Buffer \in Mappings /\ Buffer.known /\ Buffer.length # 0
  /\ Commands \subseteq Seq(Words)
  /\ \A c \in Commands :
       /\ c # << >> /\ Queue!Announces(c[1]) /\ Documented(c[1])
       /\ Len(Queue!Methods(c[1])) = Len(c) - 1
  /\ JumpBack \in Words /\ JumpBack.low = 1 /\ TargetOf(JumpBack) = Buffer.address

VARIABLES
  writing,  \* where the driver writes next
  fence,    \* the value of DMA_PUT it set last: words from there on are not
            \* fetched when it has wrapped around since
  wrapped,  \* it has wrapped around since it set DMA_PUT
  ready,    \* what each word it wrote since then submits: a method, or
            \* NoMethod for a command word or a jump
  due       \* the same for the words before, in order, that were not decoded

driver == << writing, fence, wrapped, ready, due >>
dvars == << uvars, driver >>

DInit ==
  /\ UInit
  /\ writing = Buffer.address /\ fence = Buffer.address /\ wrapped = FALSE
  /\ ready = << >> /\ due = << >>

Submission(c) ==
  [k \in 1 .. Len(c) |-> IF k = 1 THEN NoMethod ELSE Queue!With(Queue!Methods(c[1])[k - 1], c[k])]

(* There is room for the command, and for a jump after it. *)
Fits(c) ==
  IF wrapped THEN writing + Len(c) < fence ELSE writing + Len(c) < Limit(Buffer)

WriteCommand(c) ==
  /\ pc = "idle" /\ Fits(c)
  /\ memory' = [a \in Addresses |-> IF a \in writing .. writing + Len(c) - 1
                                    THEN c[a - writing + 1] ELSE memory[a]]
  /\ writing' = writing + Len(c)
  /\ ready' = ready \o Submission(c)
  /\ UNCHANGED << stream, user, call, fence, wrapped, due >>

WriteJump ==
  /\ pc = "idle" /\ ~wrapped /\ fence # Buffer.address
  /\ memory' = [memory EXCEPT ![writing] = JumpBack]
  /\ writing' = Buffer.address /\ wrapped' = TRUE
  /\ ready' = Append(ready, NoMethod)
  /\ UNCHANGED << stream, user, call, fence, due >>

SetDmaPut ==
  /\ writing # fence
  /\ WriteUser(writing)
  /\ fence' = writing /\ wrapped' = FALSE
  /\ due' = ready /\ ready' = << >>
  /\ UNCHANGED writing

(* A word is decoded, and no longer due. *)
Decodes == pc \in {"wrap", "print"} /\ cur < end

Decode ==
  /\ Decoding
  /\ due' = IF Decodes /\ due # << >> THEN Tail(due) ELSE due
  /\ UNCHANGED << writing, fence, wrapped, ready >>

DNext ==
  \/ \E c \in Commands : WriteCommand(c)
  \/ WriteJump
  \/ SetDmaPut
  \/ WriteUser(NULL) /\ UNCHANGED driver
  \/ Decode

DSpec == DInit /\ [][DNext]_dvars

-----------------------------------------------------------------------------
(* Every word that is decoded is the next one the driver submitted, and     *)
(* sends the method the driver meant, with its subchannel and parameter, or *)
(* none: wherever DMA_PUT was set and wherever the buffer wrapped around,   *)
(* no word is decoded twice, skipped, or before it was submitted            *)
(* (user_decode, user_print, pushbuf_decode).                               *)
DecodedAsSubmitted == [][Decodes => due # << >> /\ Head(due) = submitted']_dvars

(* When the call returns, all the words submitted with DMA_PUT have been    *)
(* decoded, and the decoder waits for a command.                            *)
AllDecoded == pc = "idle" => due = << >> /\ size = 0
=============================================================================
