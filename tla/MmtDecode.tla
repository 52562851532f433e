------------------------------ MODULE MmtDecode ------------------------------
(***************************************************************************)
(* src/demmt/mmt_bin_decode.c and mmt_bin_decode_nvidia.c: cutting the     *)
(* byte stream of a trace into messages, through one buffer that is        *)
(* refilled, and whose contents are moved to its start, while the messages *)
(* are being measured.                                                     *)
(*                                                                         *)
(* The formats are scaled down.  A message is its type (one byte, or 'n'   *)
(* and a subtype), one field or the length of the data that follow, the    *)
(* data, and EOR.  There is one message of each shape: text, of fixed      *)
(* size, with counted data, an ioctl that takes the memory dumps behind it *)
(* as arguments.  Structures and lengths take one byte instead of four or  *)
(* eight; the buffer is smaller to match.                                  *)
(*                                                                         *)
(* Between two steps the decoder has called mmt_load_data_with_prefix for  *)
(* want; a step is the code from the return of that call to the next one.  *)
(***************************************************************************)
EXTENDS Integers, Sequences, SequencesExt

CONSTANTS
  BufSize,  \* MMT_BUF_SIZE
  MaxArgs,  \* MAX_ARGS
  Traces,   \* the traces considered, with what the tracer meant by them (below)
  Noise     \* what may lie behind the buffer

(* The types of messages, one of each shape, and the last byte of each.     *)
EOR     == 10
MsgText == 61    \* '='
Unmap   == 117   \* 'u'
Write   == 119   \* 'w'
Ioctl   == 105   \* 'i', with and without 'n' in front
Dump    == 121   \* 'y'
NV      == 110   \* 'n'
NvDump    == << NV, 111 >>   \* 'o'
NvDestroy == << NV, 100 >>   \* 'd'
NvMmap    == << NV, 109 >>   \* 'm'
NvMark    == << NV, 107 >>   \* 'k'

Fixed   == { << Unmap >>, NvDestroy, NvMmap }
Ioctls  == { << Ioctl >>, << NV, Ioctl >> }
Counted == Ioctls \cup { << Write >>, NvMark }
Dumps   == { << Dump >>, NvDump }

(* funcs: no handler for these, and what load_memory_dump passes over.      *)
NoHandler == { NvDestroy }
Omitted == NoHandler \cup { NvMmap }

StructSize(t) == Len(t) + 1

ASSUME SizesAssumption == BufSize \in Nat \ {0} /\ MaxArgs \in Nat \ {0} /\ Noise # {}

-----------------------------------------------------------------------------
(* The traces.  The tracer writes records, one behind the other, and a      *)
(* handler is to get messages.  Positions count from 0, as in C.            *)
(*   bytes     what the tracer wrote                                        *)
(*   length    how much of it is in the file                                *)
(*   ends      the end of the record that begins at each of these places    *)
(*   messages  at: where it begins; dumps: where the memory dumps begin     *)
(*             that belong to it; stop: how far one has to look to know     *)
(*             that there are no more; after: how many messages handlers    *)
(*             have got when it was handled                                 *)
(*   sent      what the handlers are to get                                 *)
Byte == 0 .. 255

(* What a handler gets: a message, and the two parts of each of its dumps. *)
Handed == Seq(Byte) \X Seq(Seq(Byte) \X Seq(Byte))

TypeIn(t, p) == IF t.bytes[p + 1] = NV THEN << NV, t.bytes[p + 2] >> ELSE << t.bytes[p + 1] >>
Piece(t, p, n) == [i \in 1 .. n |-> t.bytes[p + i]]

(* A dump begins with an address, and in the newer kind a text.             *)
PrefixSize(t, p) == IF t.bytes[p + 1] = Dump THEN 2 ELSE 4 + t.bytes[p + 4]

(* Where a record says how long its parts are.                              *)
LengthsIn(t, p) ==
  LET y == TypeIn(t, p)
  IN IF y \in Counted THEN {p + StructSize(y)}
     ELSE IF y \in Dumps
     THEN {p + PrefixSize(t, p) + 1} \cup IF y = NvDump THEN {p + 4} ELSE {}
     ELSE {}

(* The record at p has the shape of its type, and EOR at its end.           *)
Shaped(t, p) ==
  LET y == TypeIn(t, p)
      q == t.ends[p]
  IN /\ q \in p + 1 .. Len(t.bytes) /\ t.bytes[q] = EOR
     /\ LengthsIn(t, p) \subseteq p + 1 .. q - 1
     /\ \/ y = << MsgText >> /\ \A i \in p + 1 .. q - 1 : t.bytes[i] # EOR
        \/ y \in Fixed /\ q = p + StructSize(y) + 1
        \/ y \in Counted /\ q = p + StructSize(y) + 1 + t.bytes[p + StructSize(y)]
        \/ y \in Dumps /\ q = p + PrefixSize(t, p) + t.bytes[p + PrefixSize(t, p) + 1] + 2

Records(t) ==
  /\ DOMAIN t.ends \subseteq 0 .. t.length - 1
  /\ \A p \in DOMAIN t.ends : Shaped(t, p) /\ (t.ends[p] < t.length => t.ends[p] \in DOMAIN t.ends)

Truncated(t) == \E p \in DOMAIN t.ends : t.ends[p] > t.length
Complete(t, p) == p \in DOMAIN t.ends /\ t.ends[p] <= t.length
NothingAt(t, p) == p = t.length \/ (p \in DOMAIN t.ends /\ t.ends[p] > t.length)

(* What an ioctl takes for a dump of its own, and what lies between.        *)
IsOld(t, m) == TypeIn(t, m.at) = << Ioctl >>
DumpOf(t, m) == IF IsOld(t, m) THEN << Dump >> ELSE NvDump
PassedOver(t, m) == IF IsOld(t, m) THEN {} ELSE Omitted
Between(t, m, p, q) ==
  /\ p <= q
  /\ \A r \in DOMAIN t.ends : p <= r /\ r < q => TypeIn(t, r) \in PassedOver(t, m) /\ t.ends[r] <= q

(* The end of a message with its first n dumps.                             *)
EndOf(t, m, n) == IF n = 0 THEN t.ends[m.at] ELSE t.ends[m.dumps[n]]

WithDumps(t, m) ==
  /\ Len(m.dumps) <= MaxArgs
  /\ \A i \in DOMAIN m.dumps :
       /\ Complete(t, m.dumps[i]) /\ TypeIn(t, m.dumps[i]) = DumpOf(t, m)
       /\ Between(t, m, EndOf(t, m, i - 1), m.dumps[i])
  /\ Len(m.dumps) < MaxArgs =>
       /\ Between(t, m, EndOf(t, m, Len(m.dumps)), m.stop) /\ m.stop + 1 - m.at <= BufSize
       /\ \/ NothingAt(t, m.stop)
          \/ /\ m.stop \in DOMAIN t.ends
             /\ TypeIn(t, m.stop) \notin {DumpOf(t, m)} \cup PassedOver(t, m)
             /\ m.stop + Len(TypeIn(t, m.stop)) - m.at <= BufSize

DumpParts(t, p) ==
  LET n == PrefixSize(t, p) IN << Piece(t, p, n), Piece(t, p + n, t.ends[p] - 1 - (p + n)) >>

Meaning(t, m) ==
  LET y == TypeIn(t, m.at)
      n == t.ends[m.at] - m.at
  IN << CASE y = << MsgText >> -> Piece(t, m.at, n - 1)
          [] y = NvDump -> << >>
          [] OTHER -> Piece(t, m.at, n),
        [i \in DOMAIN m.dumps |-> DumpParts(t, m.dumps[i])] >>

(* The k-th message begins where the one before ended. *)
Place(t, k) == IF k = 1 THEN 0 ELSE EndOf(t, t.messages[k - 1], Len(t.messages[k - 1].dumps))
Count(t, k) == IF k = 1 THEN 0 ELSE t.messages[k - 1].after

IsMessage(t, k) ==
  LET m == t.messages[k]
      y == TypeIn(t, m.at)
  IN /\ Complete(t, m.at) /\ m.at = Place(t, k)
     /\ \A n \in 0 .. Len(m.dumps) : EndOf(t, m, n) - m.at <= BufSize
     /\ y # << Dump >>
     /\ IF y \in Ioctls THEN WithDumps(t, m)
        ELSE m.dumps = IF y = NvDump THEN << m.at >> ELSE << >>
     /\ m.after = Count(t, k) + IF y \in NoHandler THEN 0 ELSE 1
     /\ y \notin NoHandler => m.after \in DOMAIN t.sent /\ t.sent[m.after] = Meaning(t, m)

ASSUME TraceAssumption ==
  \A t \in Traces :
    /\ t.bytes \in Seq(Byte) /\ t.length \in 0 .. Len(t.bytes)
    /\ Records(t)
    /\ t.messages \in Seq([at : Nat, dumps : Seq(Nat), stop : Nat, after : Nat])
    /\ \A k \in DOMAIN t.messages : IsMessage(t, k)
    /\ NothingAt(t, Place(t, Len(t.messages) + 1))
    /\ t.sent \in Seq(Handed) /\ Len(t.sent) = Count(t, Len(t.messages) + 1)

-----------------------------------------------------------------------------

VARIABLES
  trace,  \* one of Traces, and how much of it was read
  pos,
  buf,    \* mmt_buf
  idx,    \* mmt_idx
  len,    \* len, the static variable
  pc,
  want,   \* the load that is under way: its size and its prefix
  size,   \* locals of mmt_decode and mmt_decode_nvidia
  ctl,
  pfx,
  args,
  omit,   \* locals of load_memory_dump: omitted
  nv,     \* where the message was that is being passed over
  size1,
  d,
  out,    \* what the handlers got
  astray, \* history: in this pass load_memory_dump took what follows for a
          \* dump, by a byte that was no longer the message's
  torn    \* history: a byte was tested that had not been read, or the dump
          \* of no ioctl was handed over after the bytes had moved

mtrace == << trace, pos >>
buffer == << buf, idx, len >>
locals == << size, ctl, pfx, args >>
dump   == << omit, nv, size1, d >>
ghosts == << astray, torn >>
mvars  == << mtrace, buffer, pc, want, locals, dump, out, ghosts >>

Index == 0 .. BufSize - 1
Ended == {"done", "exit", "crash"}

TypeOK ==
  /\ trace \in Traces /\ pos \in 0 .. trace.length
  /\ buf \in [Index -> Byte] /\ len \in 0 .. BufSize
  /\ idx \in 0 .. BufSize + 1 /\ (idx > len => torn)
  /\ pc \in {"start", "text", "nv", "counted", "whole", "dump", "sub", "omit", "head",
             "str", "len", "data", "again"} \cup Ended
  /\ want \in [size : Nat, prefix : Nat]
  /\ size \in Nat /\ pfx \in Nat /\ omit \in Nat /\ size1 \in Nat
  /\ ctl \in Index /\ d \in Index /\ nv \in Index
  /\ args \in Seq([d : Index, size1 : Nat, b : Index]) /\ Len(args) <= MaxArgs
  /\ out \in Seq(Handed) /\ astray \in BOOLEAN /\ torn \in BOOLEAN

Init ==
  /\ trace \in Traces /\ pos = 0
  /\ buf = [k \in Index |-> 0] /\ idx = 0 /\ len = 0
  /\ pc = "start" /\ want = [size |-> 1, prefix |-> 0]
  /\ size = 0 /\ ctl = 0 /\ pfx = 0 /\ args = << >>
  /\ omit = 0 /\ nv = 0 /\ size1 = 0 /\ d = 0
  /\ out = << >> /\ astray = FALSE /\ torn = FALSE

-----------------------------------------------------------------------------
(* mmt_load_data_with_prefix                                                *)

Loaded == want.prefix + idx + want.size <= len
Fits == want.prefix + want.size <= BufSize
Rest == trace.length - pos
Kept == len - idx
Enough(n) == Kept + n >= want.prefix + want.size

(* Wrong on purpose: the index is not moved with the bytes. *)
FillMutant(n) ==
  /\ len' = Kept + n /\ idx' = idx /\ pos' = pos + n
  /\ buf' = [k \in Index |->
       IF k < Kept THEN buf[k + idx]
       ELSE IF k < Kept + n THEN trace.bytes[pos + 1 + k - Kept] ELSE buf[k]]

(* What is left is moved to the start of the buffer, and n bytes are read.  *)
Fill(n) ==
  /\ len' = Kept + n /\ idx' = 0 /\ pos' = pos + n
  /\ buf' = [k \in Index |->
       IF k < Kept THEN buf[k + idx]
       ELSE IF k < Kept + n THEN trace.bytes[pos + 1 + k - Kept] ELSE buf[k]]

Ask(p, n, prefix) == pc' = p /\ want' = [size |-> n, prefix |-> prefix]
End(p) == pc' = p /\ UNCHANGED << buffer, want, locals, dump, out, ghosts >>
NoDump == omit' = 0 /\ nv' = 0 /\ size1' = 0 /\ d' = 0
NoMoreDumps == Ask("again", size, 0) /\ NoDump

(* As many reads as it takes: the last one may bring any number of bytes. *)
Refill ==
  /\ pc \notin Ended /\ ~Loaded /\ Fits /\ idx <= len
  /\ \E n \in 1 .. Rest : Enough(n) /\ Kept + n <= BufSize /\ Fill(n)
  /\ UNCHANGED << trace, pc, want, locals, dump, out, ghosts >>

NotEnoughSpace ==
  /\ pc \notin Ended /\ ~Loaded /\ ~Fits
  /\ End("exit") /\ UNCHANGED mtrace

(* len -= mmt_idx goes below 0. *)
Underflow ==
  /\ pc \notin Ended /\ Fits /\ idx > len
  /\ End("crash") /\ UNCHANGED mtrace

AtEof == ~Loaded /\ Fits /\ idx <= len /\ ~Enough(Rest)

EndOfTrace ==
  /\ pc = "start" /\ AtEof
  /\ End("done") /\ UNCHANGED mtrace

UnexpectedEof ==
  /\ pc \notin Ended \cup {"start", "dump"} /\ AtEof
  /\ End("exit") /\ UNCHANGED mtrace

DumpsAtEof ==
  /\ pc = "dump" /\ AtEof
  /\ Fill(Rest) /\ NoMoreDumps
  /\ UNCHANGED << trace, locals, out, ghosts >>

-----------------------------------------------------------------------------
(* What is common to the messages.                                          *)

At(p) == pc = p /\ Loaded

TypeAt(k) == IF buf[k] = NV THEN << NV, buf[k + 1] >> ELSE << buf[k] >>

Chunk(k, n) == [i \in 1 .. n |-> IF k + i - 1 \in Index THEN buf[k + i - 1] ELSE 0]

Argument(a) == << Chunk(a.d, a.size1), Chunk(a.b, 1 + buf[a.b]) >>

(* The message is dealt with: on to the next one. *)
Finish(n) ==
  /\ idx' = idx + n /\ UNCHANGED << mtrace, buf, len >>
  /\ Ask("start", 1, 0)
  /\ size' = 0 /\ ctl' = 0 /\ pfx' = 0 /\ args' = << >> /\ NoDump
  /\ UNCHANGED astray

Deliver(message, arguments) == out' = Append(out, << message, arguments >>)

(* mmt_check_eor and mmt_buf_check_sanity. *)
EorAt(k) == buf[k] = EOR
Sane(n) == n < BufSize
Fail == End("exit") /\ UNCHANGED mtrace

Dispatch(t) ==
  IF t \in Fixed \cup Counted
  THEN /\ Ask(IF t \in Fixed THEN "whole" ELSE "counted", StructSize(t) + 1, 0)
       /\ size' = StructSize(t) + 1
       /\ UNCHANGED << mtrace, buffer, ctl, pfx, args, dump, out, ghosts >>
  ELSE IF t = NvDump
  THEN Ask("dump", 1, 0) /\ UNCHANGED << mtrace, buffer, locals, dump, out, ghosts >>
  ELSE Fail

Start ==
  /\ At("start")
  /\ IF buf[idx] = MsgText
     THEN Ask("text", 1, 0) /\ UNCHANGED << mtrace, buffer, locals, dump, out, ghosts >>
     ELSE IF buf[idx] = NV
     THEN Ask("nv", 2, 0) /\ UNCHANGED << mtrace, buffer, locals, dump, out, ghosts >>
     ELSE Dispatch(<< buf[idx] >>)

NvStart == At("nv") /\ Dispatch(<< NV, buf[idx + 1] >>)

-----------------------------------------------------------------------------
(* Text: size is the local len; the byte behind the ones that are loaded is *)
(* tested before it is asked for.                                           *)
Tested(k) == IF k \in Index THEN {buf[k]} ELSE Noise

TextByte ==
  /\ At("text")
  /\ \E b \in Tested(idx + size) :
       IF b = EOR
       THEN Deliver(Chunk(idx, size), << >>) /\ Finish(size + 1)
       ELSE /\ Ask("text", size + 1, 0) /\ size' = size + 1
            /\ UNCHANGED << mtrace, buffer, ctl, pfx, args, dump, out, astray >>
  /\ torn' = (torn \/ idx + size >= len)

(* A structure that ends in a length: at offset size - 2, before the EOR of *)
(* empty data.                                                              *)
CountedMessage ==
  /\ At("counted")
  /\ LET n == buf[idx + size - 2]
     IN IF Sane(n)
        THEN /\ Ask("whole", size + n, 0) /\ size' = size + n
             /\ UNCHANGED << mtrace, buffer, ctl, pfx, args, dump, out, ghosts >>
        ELSE Fail

(* Wrong on purpose: ctl keeps what the first pass of the loop put there. *)
WholeMessageMutant ==
  /\ At("whole")
  /\ LET t == TypeAt(idx)
     IN IF ~EorAt(idx + size - 1) THEN Fail
        ELSE IF t \in Ioctls
        THEN /\ ctl' = (IF ctl = 0 THEN idx ELSE ctl) /\ pfx' = size /\ args' = << >>
             /\ Ask("dump", 1, size)
             /\ UNCHANGED << mtrace, buffer, size, dump, out, ghosts >>
        ELSE /\ IF t \in NoHandler THEN UNCHANGED out ELSE Deliver(Chunk(idx, size), << >>)
             /\ Finish(size) /\ UNCHANGED torn

WholeMessage ==
  /\ At("whole")
  /\ LET t == TypeAt(idx)
     IN IF ~EorAt(idx + size - 1) THEN Fail
        ELSE IF t \in Ioctls
        THEN /\ ctl' = idx /\ pfx' = size /\ args' = << >> /\ Ask("dump", 1, size)
             /\ UNCHANGED << mtrace, buffer, size, dump, out, ghosts >>
        ELSE /\ IF t \in NoHandler THEN UNCHANGED out ELSE Deliver(Chunk(idx, size), << >>)
             /\ Finish(size) /\ UNCHANGED torn

-----------------------------------------------------------------------------
(* load_memory_dump_v2 and load_memory_dump                                 *)

At0 == idx + pfx + omit      \* where the dump begins
Before == pfx + omit
StillReading == UNCHANGED << mtrace, buffer, locals, out, torn >>
ReadOn == StillReading /\ UNCHANGED << nv, astray >>

(* Is there a dump? An ioctl of the old kind has dumps of the old kind.     *)
DumpType ==
  /\ At("dump") /\ StillReading /\ UNCHANGED astray
  /\ IF buf[idx] = Ioctl /\ buf[At0] = Dump
     THEN Ask("str", 2, pfx) /\ size1' = 2 /\ UNCHANGED << omit, nv, d >>
     ELSE IF buf[idx] = NV /\ buf[At0] = NV
     THEN Ask("sub", 2, Before) /\ UNCHANGED dump
     ELSE NoMoreDumps

DumpSubtype ==
  /\ At("sub") /\ StillReading /\ UNCHANGED astray
  /\ LET t == TypeAt(At0)
     IN IF t = NvDump
        THEN Ask("head", 4, Before) /\ UNCHANGED dump
        ELSE IF t \in Omitted
        THEN Ask("omit", StructSize(t) + 1, Before) /\ nv' = At0 /\ UNCHANGED << omit, size1, d >>
        ELSE NoMoreDumps

(* A message nobody wants lies between an ioctl and its dumps.  The loop    *)
(* then tests the subtype again, where the message was before it was        *)
(* loaded.  If the bytes have moved since, that is another byte, and if it  *)
(* reads as a dump's the next message is taken for one without a look.      *)
OmitMessage ==
  /\ At("omit")
  /\ IF EorAt(At0 + want.size - 1)
     THEN /\ omit' = omit + want.size /\ nv' = 0
          /\ IF buf[nv + 1] = NvDump[2]
             THEN Ask("head", 4, Before + want.size) /\ astray' = (astray \/ nv # At0)
             ELSE Ask("dump", 1, Before + want.size) /\ UNCHANGED astray
          /\ StillReading /\ UNCHANGED << size1, d >>
     ELSE Fail

DumpHead ==
  /\ At("head")
  /\ LET n == buf[At0 + 3]
     IN IF Sane(n)
        THEN size1' = 4 + n /\ Ask("str", 4 + n, Before) /\ ReadOn /\ UNCHANGED << omit, d >>
        ELSE Fail

DumpStr ==
  /\ At("str")
  /\ d' = At0 /\ Ask("len", 1, Before + size1)
  /\ ReadOn /\ UNCHANGED << omit, size1 >>

DumpLength ==
  /\ At("len")
  /\ LET n == buf[At0 + size1]
     IN IF Sane(n)
        THEN Ask("data", n + 2, Before + size1) /\ ReadOn /\ UNCHANGED dump
        ELSE Fail

(* Wrong on purpose: what was passed over is not counted. *)
DumpDataMutant ==
  /\ At("data")
  /\ LET total == Before + size1 + want.size
         arg == [d |-> d, size1 |-> size1, b |-> At0 + size1]
     IN IF ~EorAt(idx + total - 1) THEN Fail
        ELSE IF size = 0
        THEN /\ Deliver(<< >>, << Argument(arg) >>) /\ Finish(total)
             /\ torn' = (torn \/ d # idx)
        ELSE /\ args' = Append(args, arg) /\ pfx' = total - omit
             /\ IF Len(args') = MaxArgs THEN Ask("again", size, 0) ELSE Ask("dump", 1, pfx')
             /\ NoDump
             /\ UNCHANGED << mtrace, buffer, size, ctl, out, ghosts >>

(* The dump is complete: an argument of the ioctl, or, when there is none   *)
(* (size is 0), a message.                                                  *)
DumpData ==
  /\ At("data")
  /\ LET total == Before + size1 + want.size
         arg == [d |-> d, size1 |-> size1, b |-> At0 + size1]
     IN IF ~EorAt(idx + total - 1) THEN Fail
        ELSE IF size = 0
        THEN /\ Deliver(<< >>, << Argument(arg) >>) /\ Finish(total)
             /\ torn' = (torn \/ d # idx)
        ELSE /\ args' = Append(args, arg) /\ pfx' = total
             /\ IF Len(args') = MaxArgs THEN Ask("again", size, 0) ELSE Ask("dump", 1, total)
             /\ NoDump
             /\ UNCHANGED << mtrace, buffer, size, ctl, out, ghosts >>

(* Wrong on purpose: one pass, whatever has moved. *)
AgainMutant ==
  /\ At("again")
  /\ Deliver(Chunk(ctl, size), [i \in DOMAIN args |-> Argument(args[i])])
  /\ Finish(pfx) /\ UNCHANGED torn

(* while (ctl != mmt_load_data(size)): if the bytes have moved, the         *)
(* arguments are collected once more.                                       *)
Again ==
  /\ At("again")
  /\ IF ctl = idx
     THEN /\ Deliver(Chunk(ctl, size), [i \in DOMAIN args |-> Argument(args[i])])
          /\ Finish(pfx) /\ UNCHANGED torn
     ELSE LET n == StructSize(TypeAt(idx)) + 1
          IN /\ Ask("counted", n, 0) /\ size' = n /\ astray' = FALSE
             /\ UNCHANGED << mtrace, buffer, ctl, pfx, args, dump, out, torn >>

LoadData == Refill \/ NotEnoughSpace \/ Underflow \/ EndOfTrace \/ UnexpectedEof \/ DumpsAtEof
LoadDump == DumpType \/ DumpSubtype \/ OmitMessage \/ DumpHead \/ DumpStr \/ DumpLength \/ DumpData
Decode == Start \/ NvStart \/ TextByte \/ CountedMessage \/ WholeMessage \/ LoadDump \/ Again
Next == LoadData \/ Decode
Spec == Init /\ [][Next]_mvars /\ WF_mvars(Next)

-----------------------------------------------------------------------------
(* Unless a byte was torn, what the handlers got is what was recorded, but  *)
(* for what an ioctl passes over on the way to its dumps: in order, nothing *)
(* else left out and nothing twice, and the pointers they got               *)
(* point to the bytes that were recorded, wherever the buffer was refilled  *)
(* (mmt_load_data_with_prefix, mmt_decode, load_memory_dump).  This holds   *)
(* of a pass that went astray too: the ioctl is then collected once more.   *)
DeliveredAsRecorded == torn \/ IsPrefix(out, trace.sent)

(* Unless a byte was torn, the decoder gives up only when the trace ends in *)
(* the middle of a record or load_memory_dump went astray in this very      *)
(* pass, and returns only when all messages were handled.                   *)
EndsWithTheTrace ==
  /\ pc = "exit" => torn \/ astray \/ Truncated(trace)
  /\ pc = "crash" => torn
  /\ pc = "done" => torn \/ out = trace.sent

(* Every trace comes to an end: neither the loop over the messages nor the  *)
(* repetition of an ioctl goes on for ever.                                 *)
Ends == <>(pc \in Ended)

(* A text is delivered up to its EOR: mmt_check_eor says of a message that  *)
(* it ends with one, and no text has one inside.                            *)
TextEndsAtEor ==
  \A i \in DOMAIN out :
    out[i][1] # << >> /\ out[i][1][1] = MsgText =>
      /\ EOR \notin ToSet(out[i][1])
      /\ \E j \in DOMAIN trace.sent : trace.sent[j][1] = out[i][1]
=============================================================================
