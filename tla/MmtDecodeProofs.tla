--------------------------- MODULE MmtDecodeProofs ---------------------------
(***************************************************************************)
(* Theorems about MmtDecode: for buffers of any size, any number of        *)
(* arguments and any traces that are what the tracer writes, and for reads *)
(* that bring any number of bytes, what the handlers got is what was       *)
(* recorded, and the decoder stops only where the trace does, or where     *)
(* load_memory_dump went astray.                                           *)
(*                                                                         *)
(* What holds the proof together is Here, the place in the trace of the    *)
(* message that is being measured: a refill moves the bytes and the index, *)
(* and leaves it where it was.                                             *)
(***************************************************************************)
EXTENDS MmtDecode, SequenceTheorems, TLAPS

Looks == {"dump", "sub", "omit", "head", "str", "len", "data"}

-----------------------------------------------------------------------------
(* What holds whatever the trace looks like: the buffer is a window on it,  *)
(* and each place in the code asks for what its locals say.                 *)

Window ==
  /\ len <= pos
  /\ \A k \in 0 .. len - 1 : buf[k] = trace.bytes[pos - len + k + 1]

Asked ==
  /\ pc \notin {"start"} \cup Ended => idx < len
  /\ pc = "start" => want = [size |-> 1, prefix |-> 0]
  /\ pc = "text" => want = [size |-> IF size = 0 THEN 1 ELSE size, prefix |-> 0]
  /\ pc = "nv" => want = [size |-> 2, prefix |-> 0]
  /\ pc \in {"counted", "whole", "again"} => want = [size |-> size, prefix |-> 0] /\ omit = 0
  /\ pc \in {"counted", "whole"} => size >= 2
  /\ pc = "again" => pfx <= Kept
  /\ pc \in {"start", "nv"} => size = 0 /\ pfx = 0 /\ omit = 0 /\ args = << >>
  /\ pc \in Looks => Before <= Kept /\ Len(args) < MaxArgs

AskedOfDump ==
  /\ pc = "dump" => want = [size |-> 1, prefix |-> Before]
  /\ pc = "sub" => want = [size |-> 2, prefix |-> Before]
  /\ pc = "omit" => want.prefix = Before
  /\ pc = "head" => want = [size |-> 4, prefix |-> Before]
  /\ pc = "str" => want = [size |-> size1, prefix |-> Before] /\ size1 >= 2
  /\ pc = "len" => want = [size |-> 1, prefix |-> Before + size1]
  /\ pc = "data" => want.prefix = Before + size1 /\ want.size >= 2
  /\ pc \in {"sub", "omit"} \/ (pc \in Looks /\ omit # 0) => buf[idx] = NV

WInv == TypeOK /\ Window /\ Asked /\ AskedOfDump

-----------------------------------------------------------------------------
(* Where the decoder is in the trace.                                       *)

Here == pos - len + idx
Candidate == Here + pfx + omit

(* It is at the k-th message, and the ones before it were handled. *)
Handled(k) ==
  /\ k \in 1 .. Len(trace.messages) + 1
  /\ Here = Place(trace, k) /\ Len(out) = Count(trace, k)

(* What is known of the record at Here. *)
Measured ==
  /\ Here \in DOMAIN trace.ends
  /\ pc = "text" =>
       /\ TypeIn(trace, Here) = << MsgText >>
       /\ \A i \in Here + 1 .. Here + size : trace.bytes[i] # EOR
  /\ pc = "nv" => trace.bytes[Here + 1] = NV
  /\ pc = "counted" =>
       TypeIn(trace, Here) \in Counted /\ size = StructSize(TypeIn(trace, Here)) + 1
  /\ pc = "whole" =>
       TypeIn(trace, Here) \in Fixed \cup Counted /\ Here + size = trace.ends[Here]

(* What is known of the record that may be a dump of it.                    *)
Kind == IF TypeIn(trace, Here) = << Ioctl >> THEN << Dump >> ELSE NvDump

Found ==
  /\ pc # "dump" => Candidate \in DOMAIN trace.ends
  /\ pc = "sub" => trace.bytes[Candidate + 1] = NV
  /\ pc \in {"sub", "omit", "head"} => Kind = NvDump
  /\ pc = "omit" =>
       /\ TypeIn(trace, Candidate) \in Omitted
       /\ want.size = StructSize(TypeIn(trace, Candidate)) + 1
  /\ pc \in {"head", "str", "len", "data"} => TypeIn(trace, Candidate) = Kind
  /\ pc \in {"str", "len", "data"} => size1 = PrefixSize(trace, Candidate)
  /\ pc = "data" => want.size = trace.bytes[Candidate + size1 + 1] + 2

(* A dump that belongs to no ioctl. *)
Alone ==
  /\ pc \in Looks /\ size = 0 /\ pfx = 0 /\ omit = 0 /\ args = << >>
  /\ 2 <= Kept /\ TypeIn(trace, Here) = NvDump

(* The dumps that were collected for an ioctl, and where the next one can be. *)
Collected(m) ==
  \A i \in DOMAIN args :
    /\ Here <= m.dumps[i] /\ trace.ends[m.dumps[i]] <= Here + pfx
    /\ ctl = idx =>
         LET at == idx + (m.dumps[i] - Here)
             n == PrefixSize(trace, m.dumps[i])
         IN args[i] = [d |-> at, size1 |-> n, b |-> at + n]

Limit(m) == IF Len(args) < Len(m.dumps) THEN m.dumps[Len(args) + 1] ELSE m.stop

Gathering(k) ==
  /\ k \in DOMAIN trace.messages
  /\ TypeIn(trace, Here) \in Ioctls /\ Here + size = trace.ends[Here] /\ size <= Kept
  /\ Len(args) <= Len(trace.messages[k].dumps)
  /\ Here + pfx = EndOf(trace, trace.messages[k], Len(args))
  /\ Collected(trace.messages[k])
  /\ ctl # idx => idx = 0
  /\ pc = "omit" /\ ctl = idx => nv = At0
  /\ pc \in {"len", "data"} /\ ctl = idx => d = idx + Before
  /\ pc \in Looks =>
       /\ Candidate \in DOMAIN trace.ends \cup {trace.length}
       /\ Candidate <= Limit(trace.messages[k])
  /\ pc = "again" => Len(args) = Len(trace.messages[k].dumps)

Decoding(k) ==
  /\ Handled(k)
  /\ pc # "start" => Measured
  /\ pc \in Looks \cup {"again"} => Alone \/ Gathering(k)
  /\ pc \in Looks => Found

Stopped ==
  /\ pc = "exit" => Truncated(trace)
  /\ pc # "crash"
  /\ pc = "done" => out = trace.sent

SInv ==
  /\ IsPrefix(out, trace.sent)
  /\ Stopped
  /\ pc \notin Ended => \E k \in 1 .. Len(trace.messages) + 1 : Decoding(k)

(* Once load_memory_dump has gone astray, nothing is known of what it reads *)
(* but that it is a pass that will be made again: the bytes have moved.     *)
Strays(k) ==
  /\ Handled(k)
  /\ pc \in Looks \cup {"again"} /\ idx = 0 /\ ctl # 0
  /\ Here \in DOMAIN trace.ends /\ TypeIn(trace, Here) \in Ioctls /\ Here + size = trace.ends[Here]

AstrayInv ==
  /\ IsPrefix(out, trace.sent)
  /\ pc \notin {"crash", "done"}
  /\ pc \notin Ended => \E k \in 1 .. Len(trace.messages) + 1 : Strays(k)

IInv == WInv /\ (torn \/ IF astray THEN AstrayInv ELSE SInv)

-----------------------------------------------------------------------------
(* What holds whatever the trace looks like.                                *)

LEMMA TraceTypes ==
  ASSUME NEW t \in Traces
  PROVE  /\ t.bytes \in Seq(Byte) /\ t.length \in 0 .. Len(t.bytes) /\ t.length \in Nat
         /\ \A i \in 1 .. t.length : t.bytes[i] \in Byte
<1>1. t.bytes \in Seq(Byte) /\ t.length \in 0 .. Len(t.bytes)
  BY TraceAssumption
<1> QED BY <1>1

(* The bytes that a handler gets. *)
LEMMA ChunkType ==
  ASSUME buf \in [Index -> Byte], NEW k \in Nat, NEW n \in Nat
  PROVE  Chunk(k, n) \in Seq(Byte) /\ Len(Chunk(k, n)) = n
<1>1. \A i \in 1 .. n : (IF k + i - 1 \in Index THEN buf[k + i - 1] ELSE 0) \in Byte
  BY DEF Byte
<1> QED BY <1>1 DEF Chunk

LEMMA ArgumentType ==
  ASSUME buf \in [Index -> Byte], NEW a \in [d : Index, size1 : Nat, b : Index]
  PROVE  Argument(a) \in Seq(Byte) \X Seq(Byte)
<1>1. a.d \in Nat /\ a.size1 \in Nat /\ a.b \in Nat /\ a.b \in Index
  BY SizesAssumption DEF Index
<1>2. 1 + buf[a.b] \in Nat
  BY <1>1 DEF Byte
<1>3. Chunk(a.d, a.size1) \in Seq(Byte) /\ Chunk(a.b, 1 + buf[a.b]) \in Seq(Byte)
  BY <1>1, <1>2, ChunkType
<1> QED BY <1>3 DEF Argument

LEMMA DeliverType ==
  ASSUME out \in Seq(Handed), NEW m \in Seq(Byte), NEW as \in Seq(Seq(Byte) \X Seq(Byte)),
         Deliver(m, as)
  PROVE  out' \in Seq(Handed)
<1>1. << m, as >> \in Handed
  BY DEF Handed
<1> QED BY <1>1 DEF Deliver

LEMMA DeliverPlainType ==
  ASSUME out \in Seq(Handed), NEW m \in Seq(Byte), Deliver(m, << >>)
  PROVE  out' \in Seq(Handed)
<1>1. << >> \in Seq(Seq(Byte) \X Seq(Byte))
  OBVIOUS
<1> QED BY <1>1, DeliverType

(* A refill moves what is left, and the buffer shows what comes next.       *)
LEMMA Filled ==
  ASSUME TypeOK, Window, NEW n \in Nat, n <= Rest, Kept + n <= BufSize, idx <= len, Fill(n),
         trace' = trace
  PROVE  /\ pos' \in 0 .. trace'.length /\ len' \in 0 .. BufSize /\ idx' = 0
         /\ buf' \in [Index -> Byte] /\ Window' /\ Kept' = Kept + n /\ Here' = Here
<1>1. /\ trace.bytes \in Seq(Byte) /\ trace.length \in Nat
      /\ \A i \in 1 .. trace.length : trace.bytes[i] \in Byte
  BY TraceTypes DEF TypeOK
<1>2. /\ pos \in Nat /\ pos + n <= trace.length /\ len \in Nat /\ len <= BufSize /\ idx \in Nat
      /\ BufSize \in Nat /\ len <= pos /\ buf \in [Index -> Byte]
  BY <1>1, SizesAssumption DEF TypeOK, Rest, Window
<1>3. pos' = pos + n /\ len' = len - idx + n /\ idx' = 0 /\ len - idx + n <= BufSize
  BY DEF Fill, Kept
<1>4. buf' = [k \in Index |->
                IF k < len - idx THEN buf[k + idx]
                ELSE IF k < len - idx + n THEN trace.bytes[pos + 1 + k - (len - idx)] ELSE buf[k]]
  BY DEF Fill, Kept
<1>5. ASSUME NEW k \in Index PROVE buf'[k] \in Byte
  <2>1. CASE k < len - idx
    BY <1>2, <1>4, <2>1 DEF Index
  <2>2. CASE ~(k < len - idx) /\ k < len - idx + n
    <3>1. pos + 1 + k - (len - idx) \in 1 .. trace.length
      BY <1>1, <1>2, <2>2 DEF Index
    <3>2. buf'[k] = trace.bytes[pos + 1 + k - (len - idx)]
      BY <1>4, <2>2
    <3> QED BY <1>1, <3>1, <3>2
  <2>3. CASE ~(k < len - idx + n) /\ ~(k < len - idx)
    BY <1>2, <1>4, <2>3
  <2> QED BY <2>1, <2>2, <2>3
<1>6. ASSUME NEW k \in 0 .. len' - 1
      PROVE  buf'[k] = trace.bytes[pos' - len' + k + 1]
  <2>1. k \in Index /\ k < len - idx + n
    BY <1>2, <1>3 DEF Index
  <2>2. CASE k < len - idx
    <3>1. buf'[k] = buf[k + idx]
      BY <1>4, <2>1, <2>2
    <3>2. k + idx \in 0 .. len - 1
      BY <1>2, <2>1, <2>2 DEF Index
    <3>3. buf[k + idx] = trace.bytes[pos - len + (k + idx) + 1]
      BY <3>2 DEF Window
    <3>4. pos - len + (k + idx) + 1 = pos' - len' + k + 1
      BY <1>2, <1>3, <2>1 DEF Index
    <3> QED BY <3>1, <3>3, <3>4
  <2>3. CASE ~(k < len - idx)
    <3>1. buf'[k] = trace.bytes[pos + 1 + k - (len - idx)]
      BY <1>4, <2>1, <2>3
    <3>2. pos + 1 + k - (len - idx) = pos' - len' + k + 1
      BY <1>2, <1>3, <2>1 DEF Index
    <3> QED BY <3>1, <3>2
  <2> QED BY <2>2, <2>3
<1>7. buf' \in [Index -> Byte]
  BY <1>4, <1>5
<1>8. Window'
  <2>1. len' <= pos'
    BY <1>2, <1>3
  <2> QED BY <1>6, <2>1 DEF Window
<1> QED BY <1>1, <1>2, <1>3, <1>7, <1>8 DEF Kept, Here

(* The decoder stops. *)
LEMMA EndKeeps ==
  ASSUME WInv, NEW p \in Ended, End(p), UNCHANGED mtrace
  PROVE  WInv'
<1>1. /\ pc' = p /\ UNCHANGED << trace, pos, buf, idx, len, want, size, ctl, pfx, args, omit, nv >>
      /\ UNCHANGED << size1, d, out, astray, torn >>
  BY DEF End, mtrace, buffer, locals, dump, ghosts
<1>2. TypeOK'
  BY <1>1 DEF WInv, TypeOK
<1>3. Window'
  BY <1>1 DEF WInv, Window
<1>4. Asked'
  BY <1>1 DEF WInv, Asked, Ended, Looks
<1>5. AskedOfDump'
  BY <1>1 DEF AskedOfDump, Ended, Looks
<1> QED BY <1>2, <1>3, <1>4, <1>5 DEF WInv

(* The next message begins behind the one that was handled. *)
LEMMA FinishKeeps ==
  ASSUME WInv, NEW n \in Nat, Finish(n), out' \in Seq(Handed), torn' \in BOOLEAN,
         idx + n <= BufSize + 1, idx + n > len => torn'
  PROVE  WInv'
<1>1. /\ pc' = "start" /\ want' = [size |-> 1, prefix |-> 0] /\ idx' = idx + n
      /\ size' = 0 /\ ctl' = 0 /\ pfx' = 0 /\ args' = << >> /\ omit' = 0 /\ nv' = 0 /\ size1' = 0 /\ d' = 0
      /\ UNCHANGED << trace, pos, buf, len, astray >>
  BY DEF Finish, Ask, NoDump, mtrace
<1>2. TypeOK'
  <2>1. 0 \in Index /\ BufSize \in Nat /\ MaxArgs \in Nat
    BY SizesAssumption DEF Index
  <2>2. args' \in Seq([d : Index, size1 : Nat, b : Index]) /\ Len(args') <= MaxArgs
    BY <1>1, <2>1
  <2>3. want' \in [size : Nat, prefix : Nat]
    BY <1>1
  <2>4. idx' \in 0 .. BufSize + 1 /\ (idx' > len' => torn')
    BY <1>1, <2>1 DEF WInv, TypeOK
  <2> QED BY <1>1, <2>1, <2>2, <2>3, <2>4 DEF WInv, TypeOK
<1>3. Window'
  BY <1>1 DEF WInv, Window
<1>4. Asked'
  BY <1>1 DEF Asked, Ended, Looks
<1>5. AskedOfDump'
  BY <1>1 DEF AskedOfDump
<1> QED BY <1>2, <1>3, <1>4, <1>5 DEF WInv

(* The code asks for more, of the same bytes. *)
LEMMA AskKeeps ==
  ASSUME WInv, UNCHANGED << mtrace, buffer >>, idx <= len,
         pc' \in {"text", "nv", "counted", "whole", "again"} \cup Looks,
         want' \in [size : Nat, prefix : Nat],
         size' \in Nat, pfx' \in Nat, omit' \in Nat, size1' \in Nat, ctl' \in Index, d' \in Index,
         nv' \in Index, astray' \in BOOLEAN,
         args' \in Seq([d : Index, size1 : Nat, b : Index]), Len(args') <= MaxArgs,
         out' = out, torn' \in BOOLEAN, Asked', AskedOfDump'
  PROVE  WInv'
<1>1. UNCHANGED << trace, pos, buf, idx, len >>
  BY DEF mtrace, buffer
<1>2. TypeOK'
  BY <1>1 DEF WInv, TypeOK, Looks
<1>3. Window'
  BY <1>1 DEF WInv, Window
<1> QED BY <1>2, <1>3 DEF WInv

(* What is known of the numbers when a load has returned.                   *)
LEMMA AtFacts ==
  ASSUME WInv, Loaded
  PROVE  /\ want.size \in Nat /\ want.prefix \in Nat
         /\ idx \in Nat /\ len \in Nat /\ BufSize \in Nat /\ MaxArgs \in Nat
         /\ idx + want.prefix + want.size <= len /\ len <= BufSize
         /\ \A k \in Nat : idx + k < len => idx + k \in Index /\ buf[idx + k] \in Byte
         /\ 0 \in Index
BY SizesAssumption DEF WInv, TypeOK, Loaded, Index

LEMMA DispatchKeeps ==
  ASSUME WInv, Loaded, pc \in {"start", "nv"}, idx < len, NEW t \in Seq(Byte), Dispatch(t)
  PROVE  WInv'
<1>1. CASE t \in Fixed \cup Counted
  <2>1. /\ pc' \in {"whole", "counted"} /\ want' = [size |-> StructSize(t) + 1, prefix |-> 0]
        /\ size' = StructSize(t) + 1
        /\ UNCHANGED << mtrace, buffer, ctl, pfx, args, dump, out, ghosts >>
    BY <1>1 DEF Dispatch, Ask
  <2>2. StructSize(t) + 1 \in Nat /\ StructSize(t) + 1 >= 2
    BY DEF StructSize
  <2>3. UNCHANGED << idx, len, ctl, pfx, args, omit, nv, size1, d, out, astray, torn >>
    BY <2>1 DEF buffer, dump, ghosts
  <2>4. Asked' /\ AskedOfDump'
    BY <2>1, <2>2, <2>3 DEF Asked, AskedOfDump, WInv, Ended, Looks
  <2>5. want' \in [size : Nat, prefix : Nat] /\ size' \in Nat
    BY <2>1, <2>2
  <2> QED BY <2>1, <2>3, <2>4, <2>5, AskKeeps, AtFacts DEF WInv, TypeOK
<1>2. CASE t \notin Fixed \cup Counted /\ t = NvDump
  <2>1. /\ pc' = "dump" /\ want' = [size |-> 1, prefix |-> 0]
        /\ UNCHANGED << mtrace, buffer, locals, dump, out, ghosts >>
    BY <1>2 DEF Dispatch, Ask
  <2>2. UNCHANGED << idx, len, size, ctl, pfx, args, omit, nv, size1, d, out, astray, torn >>
    BY <2>1 DEF buffer, dump, locals, ghosts
  <2>3. Asked' /\ AskedOfDump'
    <3>1. pfx' = 0 /\ omit' = 0 /\ args' = << >> /\ idx' < len'
      BY <2>2 DEF WInv, Asked
    <3>2. Before' = 0 /\ Before' <= Kept' /\ Len(args') < MaxArgs
      BY <2>2, <3>1, AtFacts, SizesAssumption DEF Before, Kept
    <3> QED BY <2>1, <2>2, <3>1, <3>2 DEF Asked, AskedOfDump, Ended, Looks
  <2>4. want' \in [size : Nat, prefix : Nat]
    BY <2>1
  <2> QED BY <2>1, <2>2, <2>3, <2>4, AskKeeps, AtFacts DEF WInv, TypeOK, Looks
<1>3. CASE t \notin Fixed \cup Counted /\ t # NvDump
  BY <1>3, EndKeeps DEF Dispatch, Fail, Ended
<1> QED BY <1>1, <1>2, <1>3

LEMMA StartKeeps == WInv /\ (Start \/ NvStart) => WInv'
<1> SUFFICES ASSUME WInv, Start \/ NvStart PROVE WInv'
  OBVIOUS
<1>1. Loaded /\ pc \in {"start", "nv"}
  BY DEF Start, NvStart, At
<1>2. idx < len /\ buf[idx] \in Byte /\ (pc = "nv" => buf[idx + 1] \in Byte)
  <2>1. (pc = "start" => want.size = 1 /\ want.prefix = 0) /\ (pc = "nv" => want.size = 2 /\ want.prefix = 0)
    BY DEF WInv, Asked
  <2>2. idx < len /\ idx + 0 = idx /\ (pc = "nv" => idx + 1 < len)
    BY <1>1, <2>1, AtFacts
  <2> QED BY <1>1, <2>2, AtFacts
<1>3. CASE Start /\ buf[idx] # MsgText /\ buf[idx] # NV
  <2>1. Dispatch(<< buf[idx] >>)
    BY <1>3 DEF Start
  <2>2. << buf[idx] >> \in Seq(Byte)
    BY <1>2
  <2> QED BY <1>1, <1>2, <2>1, <2>2, DispatchKeeps
<1>4. CASE NvStart
  <2>1. << NV, buf[idx + 1] >> \in Seq(Byte)
    BY <1>2, <1>4 DEF NvStart, At, NV, Byte
  <2> QED BY <1>1, <1>2, <1>4, <2>1, DispatchKeeps DEF NvStart
<1>5. CASE Start /\ (buf[idx] = MsgText \/ buf[idx] = NV)
  <2>1. PICK p \in {"text", "nv"}, n \in {1, 2} :
          /\ pc' = p /\ want' = [size |-> n, prefix |-> 0] /\ (p = "text" <=> n = 1)
          /\ UNCHANGED << mtrace, buffer, locals, dump, out, ghosts >>
    BY <1>5 DEF Start, Ask
  <2>2. UNCHANGED << idx, len, size, ctl, pfx, args, omit, nv, size1, d, out, astray, torn >>
    BY <2>1 DEF buffer, dump, locals, ghosts
  <2>3. Asked' /\ AskedOfDump'
    <3>1. size' = 0 /\ pfx' = 0 /\ omit' = 0 /\ args' = << >> /\ idx' < len'
      BY <1>2, <1>5, <2>2 DEF WInv, Asked, Start, At
    <3> QED BY <2>1, <2>2, <3>1 DEF Asked, AskedOfDump, Ended, Looks
  <2>4. want' \in [size : Nat, prefix : Nat]
    BY <2>1
  <2> QED BY <1>1, <2>1, <2>2, <2>3, <2>4, AskKeeps, AtFacts DEF WInv, TypeOK, Looks
<1> QED BY <1>3, <1>4, <1>5

LEMMA TextKeeps == WInv /\ TextByte => WInv'
<1> SUFFICES ASSUME WInv, TextByte PROVE WInv'
  OBVIOUS
<1>1. Loaded /\ pc = "text" /\ want = [size |-> IF size = 0 THEN 1 ELSE size, prefix |-> 0]
  BY DEF TextByte, At, WInv, Asked
<1>2. size \in Nat /\ idx + size <= len /\ idx < len /\ (size = 0 => idx + size < len)
  BY <1>1, AtFacts DEF WInv, TypeOK
<1>3. torn' = (torn \/ idx + size >= len)
  BY DEF TextByte
<1>4. torn' \in BOOLEAN
  BY <1>3
<1>5. CASE Deliver(Chunk(idx, size), << >>) /\ Finish(size + 1)
  <2>1. out' \in Seq(Handed)
    <3>1. Chunk(idx, size) \in Seq(Byte)
      BY <1>1, <1>2, AtFacts, ChunkType DEF WInv, TypeOK
    <3> QED BY <1>5, <3>1, DeliverPlainType DEF WInv, TypeOK
  <2>2. size + 1 \in Nat /\ idx + (size + 1) <= BufSize + 1 /\ (idx + (size + 1) > len => idx + size >= len)
    BY <1>1, <1>2, AtFacts
  <2> QED BY <1>3, <1>4, <1>5, <2>1, <2>2, FinishKeeps
<1>6. CASE /\ Ask("text", size + 1, 0) /\ size' = size + 1
           /\ UNCHANGED << mtrace, buffer, ctl, pfx, args, dump, out, astray >>
  <2>1. /\ pc' = "text" /\ want' = [size |-> size + 1, prefix |-> 0] /\ size + 1 \in Nat /\ size + 1 # 0
        /\ UNCHANGED << idx, len, ctl, pfx, args, omit, nv, size1, d, out, astray >>
    BY <1>2, <1>6 DEF Ask, buffer, dump
  <2>2. Asked' /\ AskedOfDump'
    <3>1. size' # 0 /\ want' = [size |-> IF size' = 0 THEN 1 ELSE size', prefix |-> 0] /\ idx' < len'
      BY <1>2, <1>6, <2>1
    <3> QED BY <2>1, <3>1 DEF Asked, AskedOfDump, Ended, Looks
  <2>3. want' \in [size : Nat, prefix : Nat]
    BY <2>1
  <2> QED BY <1>1, <1>2, <1>4, <1>6, <2>1, <2>2, <2>3, AskKeeps, AtFacts DEF WInv, TypeOK
<1> QED BY <1>5, <1>6 DEF TextByte

LEMMA CountedKeeps == WInv /\ CountedMessage => WInv'
<1> SUFFICES ASSUME WInv, CountedMessage PROVE WInv'
  OBVIOUS
<1>1. Loaded /\ pc = "counted" /\ want = [size |-> size, prefix |-> 0] /\ size >= 2 /\ omit = 0 /\ idx < len
  BY DEF CountedMessage, At, WInv, Asked, Ended
<1>2. PICK n : n = buf[idx + size - 2]
  OBVIOUS
<1>3. n \in Nat /\ size \in Nat
  <2>1. size \in Nat /\ idx \in Nat
    BY AtFacts, <1>1 DEF WInv, TypeOK
  <2>2. PICK k \in Nat : k = size - 2
    BY <1>1, <2>1
  <2>3. idx + k = idx + size - 2 /\ idx + k < len
    BY <1>1, <2>1, <2>2, AtFacts
  <2>4. buf[idx + k] \in Byte
    BY <1>1, <2>2, <2>3, AtFacts
  <2> QED BY <1>2, <2>1, <2>3, <2>4 DEF Byte
<1>4. CASE /\ Ask("whole", size + n, 0) /\ size' = size + n
           /\ UNCHANGED << mtrace, buffer, ctl, pfx, args, dump, out, ghosts >>
  <2>1. /\ pc' = "whole" /\ want' = [size |-> size + n, prefix |-> 0] /\ size + n \in Nat /\ size + n >= 2
        /\ UNCHANGED << idx, len, ctl, pfx, args, omit, nv, size1, d, out, astray, torn >>
    BY <1>1, <1>3, <1>4 DEF Ask, buffer, dump, ghosts
  <2>2. Asked' /\ AskedOfDump'
    BY <1>1, <1>4, <2>1 DEF Asked, AskedOfDump, Ended, Looks
  <2>3. want' \in [size : Nat, prefix : Nat]
    BY <2>1
  <2> QED BY <1>1, <1>4, <2>1, <2>2, <2>3, AskKeeps, AtFacts DEF WInv, TypeOK
<1>5. CASE Fail
  BY <1>5, EndKeeps DEF Fail, Ended
<1> QED BY <1>2, <1>4, <1>5 DEF CountedMessage

LEMMA WholeKeeps == WInv /\ WholeMessage => WInv'
<1> SUFFICES ASSUME WInv, WholeMessage PROVE WInv'
  OBVIOUS
<1>1. Loaded /\ pc = "whole" /\ want = [size |-> size, prefix |-> 0] /\ size >= 2 /\ omit = 0 /\ idx < len
  BY DEF WholeMessage, At, WInv, Asked, Ended
<1>2. size \in Nat /\ idx + size <= len
  BY <1>1, AtFacts DEF WInv, TypeOK
<1>3. CASE Fail
  BY <1>3, EndKeeps DEF Fail, Ended
<1>4. CASE /\ ctl' = idx /\ pfx' = size /\ args' = << >> /\ Ask("dump", 1, size)
           /\ UNCHANGED << mtrace, buffer, size, dump, out, ghosts >>
  <2>1. /\ pc' = "dump" /\ want' = [size |-> 1, prefix |-> size]
        /\ UNCHANGED << idx, len, size, omit, nv, size1, d, out, astray, torn >>
    BY <1>4 DEF Ask, buffer, dump, ghosts
  <2>2. Before' = size /\ Before' <= Kept' /\ Len(args') < MaxArgs
    BY <1>1, <1>2, <1>4, <2>1, AtFacts, SizesAssumption DEF Before, Kept
  <2>3. Asked' /\ AskedOfDump'
    BY <1>1, <1>4, <2>1, <2>2 DEF Asked, AskedOfDump, Ended, Looks
  <2>4. /\ want' \in [size : Nat, prefix : Nat] /\ ctl' \in Index
        /\ args' \in Seq([d : Index, size1 : Nat, b : Index]) /\ Len(args') <= MaxArgs
    <3>1. idx + 0 = idx /\ idx \in Index
      BY <1>1, AtFacts
    <3>2. args' \in Seq([d : Index, size1 : Nat, b : Index]) /\ Len(args') = 0
      BY <1>4
    <3>3. want' \in [size : Nat, prefix : Nat]
      BY <1>2, <2>1
    <3> QED BY <1>4, <3>1, <3>2, <3>3, SizesAssumption
  <2> QED BY <1>1, <1>2, <1>4, <2>1, <2>3, <2>4, AskKeeps, AtFacts DEF WInv, TypeOK, Looks
<1>5. CASE /\ out' = out \/ Deliver(Chunk(idx, size), << >>)
           /\ Finish(size) /\ UNCHANGED torn
  <2>1. out' \in Seq(Handed)
    <3>1. Chunk(idx, size) \in Seq(Byte)
      BY <1>1, <1>2, AtFacts, ChunkType DEF WInv, TypeOK
    <3> QED BY <1>5, <3>1, DeliverPlainType DEF WInv, TypeOK
  <2>2. idx + size <= BufSize + 1 /\ ~(idx + size > len)
    BY <1>1, <1>2, AtFacts
  <2>3. torn' \in BOOLEAN
    BY <1>5 DEF WInv, TypeOK
  <2> QED BY <1>2, <1>5, <2>1, <2>2, <2>3, FinishKeeps
<1> QED BY <1>3, <1>4, <1>5 DEF WholeMessage

(* The steps that look for a dump leave the bytes and the message alone.    *)
LEMMA LookKeeps ==
  ASSUME WInv, Loaded, pc \in Looks, StillReading,
         pc' \in Looks, want' \in [size : Nat, prefix : Nat],
         omit' \in Nat, size1' \in Nat, d' \in Index, nv' \in Index, astray' \in BOOLEAN,
         Before' <= Kept, AskedOfDump'
  PROVE  WInv'
<1>1. UNCHANGED << mtrace, buffer, idx, len, size, ctl, pfx, args, out, torn >>
  BY DEF StillReading, locals, buffer
<1>2. idx < len /\ Len(args) < MaxArgs
  BY DEF WInv, Asked, Looks, Ended
<1>3. Asked'
  <2>1. Kept' = Kept
    BY <1>1 DEF Kept
  <2> QED BY <1>1, <1>2, <2>1 DEF Asked, Looks, Ended
<1> QED BY <1>1, <1>2, <1>3, AskKeeps, AtFacts DEF WInv, TypeOK

(* The arguments are complete, or there are no more. *)
LEMMA NoMoreKeeps ==
  ASSUME WInv, NoMoreDumps, idx' \in 0 .. BufSize, idx' < len', len' \in 0 .. BufSize, pfx \in Nat,
         pfx <= Kept', UNCHANGED << trace, locals, out, ghosts >>, Window',
         pos' \in 0 .. trace'.length, buf' \in [Index -> Byte]
  PROVE  WInv'
<1>1. /\ pc' = "again" /\ want' = [size |-> size, prefix |-> 0]
      /\ omit' = 0 /\ nv' = 0 /\ size1' = 0 /\ d' = 0
      /\ UNCHANGED << trace, size, ctl, pfx, args, out, astray, torn >>
  BY DEF NoMoreDumps, NoDump, Ask, locals, ghosts
<1>2. size \in Nat /\ BufSize \in Nat \ {0}
  BY SizesAssumption DEF WInv, TypeOK
<1>3. TypeOK'
  <2>1. want' \in [size : Nat, prefix : Nat] /\ 0 \in Index /\ idx' \in 0 .. BufSize + 1 /\ ~(idx' > len')
    BY <1>1, <1>2 DEF Index
  <2> QED BY <1>1, <2>1 DEF WInv, TypeOK
<1>4. Asked' /\ AskedOfDump'
  BY <1>1 DEF Asked, AskedOfDump, Looks, Ended
<1> QED BY <1>3, <1>4 DEF WInv

LEMMA NoMoreLoadedKeeps ==
  ASSUME WInv, Loaded, pc \in Looks, StillReading, UNCHANGED astray, NoMoreDumps
  PROVE  WInv'
<1>1. UNCHANGED << trace, pos, buf, idx, len, locals, out, ghosts >>
  BY DEF StillReading, mtrace, buffer, ghosts
<1>2. idx < len /\ Before <= Kept /\ omit \in Nat /\ pfx \in Nat
  BY DEF WInv, TypeOK, Asked, Looks, Ended
<1>3. pfx <= Kept'
  BY <1>1, <1>2, AtFacts DEF Before, Kept
<1>4. Window'
  BY <1>1 DEF WInv, Window
<1>5. idx' \in 0 .. BufSize /\ idx' < len' /\ len' \in 0 .. BufSize
  BY <1>1, <1>2, AtFacts
<1> QED BY <1>1, <1>2, <1>3, <1>4, <1>5, NoMoreKeeps DEF WInv, TypeOK

LEMMA DumpTypeKeeps == WInv /\ DumpType => WInv'
<1> SUFFICES ASSUME WInv, DumpType PROVE WInv'
  OBVIOUS
<1>1. Loaded /\ pc = "dump" /\ pc \in Looks /\ StillReading /\ UNCHANGED astray
  BY DEF DumpType, At, Looks
<1>2. Before <= Kept /\ omit \in Nat /\ pfx \in Nat /\ size1 \in Nat /\ d \in Index
      /\ nv \in Index /\ astray \in BOOLEAN /\ UNCHANGED << pfx, size >>
  BY <1>1 DEF WInv, TypeOK, Asked, StillReading, locals
<1>3. CASE buf[idx] = Ioctl /\ buf[At0] = Dump
  <2>1. pc' = "str" /\ want' = [size |-> 2, prefix |-> pfx] /\ size1' = 2 /\ UNCHANGED << omit, nv, d >>
    BY <1>3 DEF DumpType, Ask
  <2>2. omit = 0
    BY <1>1, <1>3 DEF WInv, AskedOfDump, NV, Ioctl
  <2>3. Before' = pfx /\ Before = pfx
    BY <1>2, <2>1, <2>2 DEF Before
  <2>4. AskedOfDump'
    BY <2>1, <2>2, <2>3 DEF AskedOfDump
  <2>5. want' \in [size : Nat, prefix : Nat] /\ pc' \in Looks
    BY <1>2, <2>1 DEF Looks
  <2> QED BY <1>1, <1>2, <2>1, <2>3, <2>4, <2>5, LookKeeps
<1>4. CASE ~(buf[idx] = Ioctl /\ buf[At0] = Dump) /\ buf[idx] = NV /\ buf[At0] = NV
  <2>1. pc' = "sub" /\ want' = [size |-> 2, prefix |-> Before] /\ UNCHANGED << omit, nv, size1, d >>
    BY <1>4 DEF DumpType, Ask, dump
  <2>2. Before' = Before /\ Before \in Nat
    BY <1>2, <2>1 DEF Before
  <2>3. AskedOfDump'
    <3>1. buf'[idx'] = NV
      BY <1>1, <1>4 DEF StillReading, buffer
    <3> QED BY <2>1, <2>2, <3>1 DEF AskedOfDump
  <2>4. want' \in [size : Nat, prefix : Nat] /\ pc' \in Looks
    BY <2>1, <2>2 DEF Looks
  <2> QED BY <1>1, <1>2, <2>1, <2>2, <2>3, <2>4, LookKeeps
<1>5. CASE NoMoreDumps
  BY <1>1, <1>5, NoMoreLoadedKeeps
<1> QED BY <1>3, <1>4, <1>5 DEF DumpType

LEMMA SubtypeKeeps == WInv /\ DumpSubtype => WInv'
<1> SUFFICES ASSUME WInv, DumpSubtype PROVE WInv'
  OBVIOUS
<1>1. Loaded /\ pc = "sub" /\ pc \in Looks /\ StillReading /\ UNCHANGED astray
  BY DEF DumpSubtype, At, Looks
<1>2. /\ Before <= Kept /\ omit \in Nat /\ pfx \in Nat /\ size1 \in Nat /\ d \in Index /\ Before \in Nat
      /\ nv \in Index /\ astray \in BOOLEAN /\ UNCHANGED << pfx, size >> /\ buf'[idx'] = NV
  BY <1>1 DEF WInv, TypeOK, Asked, AskedOfDump, StillReading, locals, Before, buffer
<1>3. CASE NoMoreDumps
  BY <1>1, <1>3, NoMoreLoadedKeeps
<1>4. At0 \in Index
  BY <1>1, <1>2, AtFacts DEF At0, Before, Index, WInv, AskedOfDump
<1>5. ASSUME NEW n \in Nat,
             \/ Ask("head", 4, Before) /\ UNCHANGED dump
             \/ Ask("omit", n, Before) /\ nv' = At0 /\ UNCHANGED << omit, size1, d >>
      PROVE  WInv'
  <2>1. /\ \/ pc' = "head" /\ want' = [size |-> 4, prefix |-> Before]
           \/ pc' = "omit" /\ want' = [size |-> n, prefix |-> Before]
        /\ nv' \in Index /\ UNCHANGED << omit, size1, d >>
    BY <1>2, <1>5, <1>4 DEF Ask, dump
  <2>2. Before' = Before
    BY <1>2, <2>1 DEF Before
  <2>3. AskedOfDump'
    BY <1>2, <2>1, <2>2 DEF AskedOfDump
  <2>4. want' \in [size : Nat, prefix : Nat] /\ pc' \in Looks
    BY <1>2, <2>1 DEF Looks
  <2> QED BY <1>1, <1>2, <2>1, <2>2, <2>3, <2>4, LookKeeps
<1>6. PICK t : t = TypeAt(At0)
  OBVIOUS
<1>7. StructSize(t) + 1 \in Nat
  BY <1>6 DEF StructSize, TypeAt
<1>8. \/ NoMoreDumps
      \/ Ask("head", 4, Before) /\ UNCHANGED dump
      \/ Ask("omit", StructSize(t) + 1, Before) /\ nv' = At0 /\ UNCHANGED << omit, size1, d >>
  BY <1>6 DEF DumpSubtype
<1> QED BY <1>3, <1>5, <1>7, <1>8

LEMMA OmitKeeps == WInv /\ OmitMessage => WInv'
<1> SUFFICES ASSUME WInv, OmitMessage PROVE WInv'
  OBVIOUS
<1>1. Loaded /\ pc = "omit" /\ pc \in Looks
  BY DEF OmitMessage, At, Looks
<1>2. /\ Before <= Kept /\ omit \in Nat /\ pfx \in Nat /\ size1 \in Nat /\ d \in Index /\ Before \in Nat
      /\ buf[idx] = NV /\ want.prefix = Before /\ want.size \in Nat /\ astray \in BOOLEAN
  BY <1>1, AtFacts DEF WInv, TypeOK, Asked, AskedOfDump, Before
<1>3. CASE Fail
  BY <1>3, EndKeeps DEF Fail, Ended
<1>4. CASE /\ omit' = omit + want.size /\ nv' = 0
           /\ \/ Ask("head", 4, Before + want.size) /\ astray' = (astray \/ nv # At0)
              \/ Ask("dump", 1, Before + want.size) /\ UNCHANGED astray
           /\ StillReading /\ UNCHANGED << size1, d >>
  <2>1. /\ \/ pc' = "head" /\ want' = [size |-> 4, prefix |-> Before + want.size]
           \/ pc' = "dump" /\ want' = [size |-> 1, prefix |-> Before + want.size]
        /\ UNCHANGED << pfx, size, buf, idx >> /\ StillReading
    BY <1>4 DEF Ask, StillReading, locals, buffer
  <2>2. nv' \in Index /\ astray' \in BOOLEAN
    BY <1>1, <1>2, <1>4, AtFacts
  <2>3. Before' = Before + want.size /\ Before' <= Kept
    BY <1>1, <1>2, <1>4, <2>1, AtFacts DEF Before, Kept
  <2>4. AskedOfDump'
    BY <1>2, <2>1, <2>3 DEF AskedOfDump
  <2>5. want' \in [size : Nat, prefix : Nat] /\ pc' \in Looks /\ omit' \in Nat
    BY <1>2, <1>4, <2>1 DEF Looks
  <2> QED BY <1>1, <1>2, <1>4, <2>1, <2>3, <2>4, <2>5, <2>2, LookKeeps
<1> QED BY <1>3, <1>4 DEF OmitMessage

LEMMA HeadKeeps == WInv /\ DumpHead => WInv'
<1> SUFFICES ASSUME WInv, DumpHead PROVE WInv'
  OBVIOUS
<1>1. Loaded /\ pc = "head" /\ pc \in Looks
  BY DEF DumpHead, At, Looks
<1>2. /\ Before <= Kept /\ omit \in Nat /\ pfx \in Nat /\ d \in Index /\ Before \in Nat
      /\ nv \in Index /\ astray \in BOOLEAN
      /\ want.prefix = Before /\ want.size = 4 /\ (omit # 0 => buf[idx] = NV)
  BY <1>1, AtFacts DEF WInv, TypeOK, Asked, AskedOfDump, Before
<1>3. CASE Fail
  BY <1>3, EndKeeps DEF Fail, Ended
<1>4. PICK n : n = buf[At0 + 3]
  OBVIOUS
<1>5. n \in Nat
  <2>1. PICK k \in Nat : k = pfx + omit + 3
    BY <1>2
  <2>2. idx + k = At0 + 3 /\ idx + k < len
    BY <1>1, <1>2, <2>1, AtFacts DEF At0, Before
  <2>3. buf[idx + k] \in Byte
    BY <1>1, <2>1, <2>2, AtFacts
  <2> QED BY <1>4, <2>2, <2>3 DEF Byte
<1>6. CASE size1' = 4 + n /\ Ask("str", 4 + n, Before) /\ ReadOn /\ UNCHANGED << omit, d >>
  <2>1. /\ pc' = "str" /\ want' = [size |-> 4 + n, prefix |-> Before]
        /\ UNCHANGED << pfx, size, buf, idx, nv, astray >> /\ StillReading
    BY <1>6 DEF Ask, ReadOn, StillReading, locals, buffer
  <2>2. Before' = Before
    BY <1>6, <2>1 DEF Before
  <2>3. AskedOfDump'
    BY <1>2, <1>5, <1>6, <2>1, <2>2 DEF AskedOfDump
  <2>4. want' \in [size : Nat, prefix : Nat] /\ pc' \in Looks /\ size1' \in Nat
    BY <1>2, <1>5, <1>6, <2>1 DEF Looks
  <2> QED BY <1>1, <1>2, <1>6, <2>1, <2>2, <2>3, <2>4, LookKeeps
<1> QED BY <1>3, <1>4, <1>6 DEF DumpHead

LEMMA StrKeeps == WInv /\ DumpStr => WInv'
<1> SUFFICES ASSUME WInv, DumpStr PROVE WInv'
  OBVIOUS
<1>1. Loaded /\ pc = "str" /\ pc \in Looks /\ StillReading
  BY DEF DumpStr, At, Looks, ReadOn
<1>2. /\ Before <= Kept /\ omit \in Nat /\ pfx \in Nat /\ size1 \in Nat /\ Before \in Nat
      /\ nv \in Index /\ astray \in BOOLEAN
      /\ want.prefix = Before /\ want.size = size1 /\ size1 >= 2 /\ (omit # 0 => buf[idx] = NV)
  BY <1>1, AtFacts DEF WInv, TypeOK, Asked, AskedOfDump, Before
<1>3. /\ pc' = "len" /\ want' = [size |-> 1, prefix |-> Before + size1] /\ d' = At0
      /\ UNCHANGED << pfx, size, buf, idx, omit, nv, astray, size1 >>
  BY DEF DumpStr, Ask, ReadOn, StillReading, locals, buffer
<1>4. At0 \in Index
  BY <1>1, <1>2, AtFacts DEF At0, Before, Index
<1>5. Before' = Before
  BY <1>3 DEF Before
<1>6. AskedOfDump'
  BY <1>2, <1>3, <1>5 DEF AskedOfDump
<1>7. want' \in [size : Nat, prefix : Nat] /\ pc' \in Looks
  BY <1>2, <1>3 DEF Looks
<1> QED BY <1>1, <1>2, <1>3, <1>4, <1>5, <1>6, <1>7, LookKeeps

LEMMA LengthKeeps == WInv /\ DumpLength => WInv'
<1> SUFFICES ASSUME WInv, DumpLength PROVE WInv'
  OBVIOUS
<1>1. Loaded /\ pc = "len" /\ pc \in Looks
  BY DEF DumpLength, At, Looks
<1>2. /\ Before <= Kept /\ omit \in Nat /\ pfx \in Nat /\ size1 \in Nat /\ d \in Index /\ Before \in Nat
      /\ want.prefix = Before + size1 /\ want.size = 1 /\ (omit # 0 => buf[idx] = NV)
      /\ nv \in Index /\ astray \in BOOLEAN
  BY <1>1, AtFacts DEF WInv, TypeOK, Asked, AskedOfDump, Before
<1>3. CASE Fail
  BY <1>3, EndKeeps DEF Fail, Ended
<1>4. PICK n : n = buf[At0 + size1]
  OBVIOUS
<1>5. n \in Nat
  <2>1. PICK k \in Nat : k = pfx + omit + size1
    BY <1>2
  <2>2. idx + k = At0 + size1 /\ idx + k < len
    BY <1>1, <1>2, <2>1, AtFacts DEF At0, Before
  <2>3. buf[idx + k] \in Byte
    BY <1>1, <2>1, <2>2, AtFacts
  <2> QED BY <1>4, <2>2, <2>3 DEF Byte
<1>6. CASE Ask("data", n + 2, Before + size1) /\ ReadOn /\ UNCHANGED dump
  <2>1. /\ pc' = "data" /\ want' = [size |-> n + 2, prefix |-> Before + size1]
        /\ UNCHANGED << pfx, size, buf, idx, omit, nv, astray, size1, d >> /\ StillReading
    BY <1>6 DEF Ask, ReadOn, StillReading, locals, buffer, dump
  <2>2. Before' = Before
    BY <2>1 DEF Before
  <2>3. AskedOfDump'
    BY <1>2, <1>5, <2>1, <2>2 DEF AskedOfDump
  <2>4. want' \in [size : Nat, prefix : Nat] /\ pc' \in Looks
    BY <1>2, <1>5, <2>1 DEF Looks
  <2> QED BY <1>1, <1>2, <2>1, <2>2, <2>3, <2>4, LookKeeps
<1> QED BY <1>3, <1>4, <1>6 DEF DumpLength

LEMMA DataKeeps == WInv /\ DumpData => WInv'
<1> SUFFICES ASSUME WInv, DumpData PROVE WInv'
  OBVIOUS
<1> DEFINE total == Before + size1 + want.size
           arg == [d |-> d, size1 |-> size1, b |-> At0 + size1]
<1>1. Loaded /\ pc = "data" /\ pc \in Looks
  BY DEF DumpData, At, Looks
<1>2. /\ omit \in Nat /\ pfx \in Nat /\ size1 \in Nat /\ d \in Index /\ Before = pfx + omit
      /\ want.prefix = Before + size1 /\ want.size >= 2 /\ want.size \in Nat
      /\ Len(args) < MaxArgs /\ args \in Seq([d : Index, size1 : Nat, b : Index]) /\ idx < len
  BY <1>1, AtFacts DEF WInv, TypeOK, Asked, AskedOfDump, Before, Ended
<1>3. total \in Nat /\ idx + total <= len /\ At0 + size1 \in Index
  <2>1. idx + want.prefix + want.size <= len /\ idx \in Nat /\ len <= BufSize /\ BufSize \in Nat /\ len \in Nat
    BY <1>1, AtFacts
  <2>2. PICK w, b, a : w = want.size /\ b = Before /\ a = At0
    OBVIOUS
  <2>3. w \in Nat /\ w >= 2 /\ b \in Nat /\ a = idx + b /\ idx + b + size1 + w <= len
    BY <1>2, <2>1, <2>2 DEF At0
  <2>4. total = b + size1 + w
    BY <2>2
  <2>5. total \in Nat /\ idx + total <= len
    BY <1>2, <2>1, <2>3, <2>4
  <2>6. a + size1 \in Nat /\ a + size1 < BufSize
    BY <1>2, <2>1, <2>3
  <2> QED BY <2>1, <2>2, <2>5, <2>6 DEF Index
<1>4. arg \in [d : Index, size1 : Nat, b : Index]
  BY <1>2, <1>3
<1> HIDE DEF total, arg
<1>5. CASE Fail
  BY <1>5, EndKeeps DEF Fail, Ended
<1>6. CASE /\ Deliver(<< >>, << Argument(arg) >>) /\ Finish(total)
           /\ torn' = (torn \/ d # idx)
  <2>1. << Argument(arg) >> \in Seq(Seq(Byte) \X Seq(Byte))
    <3>1. Argument(arg) \in Seq(Byte) \X Seq(Byte)
      BY <1>4, ArgumentType DEF WInv, TypeOK
    <3> QED BY <3>1
  <2>2. << >> \in Seq(Byte)
    OBVIOUS
  <2>3. out' \in Seq(Handed)
    BY <1>6, <2>1, <2>2, DeliverType DEF WInv, TypeOK
  <2>4. idx + total <= BufSize + 1 /\ ~(idx + total > len)
    BY <1>1, <1>3, AtFacts
  <2>5. torn' \in BOOLEAN
    BY <1>6
  <2> QED BY <1>3, <1>6, <2>3, <2>4, <2>5, FinishKeeps
<1>7. CASE /\ args' = Append(args, arg) /\ pfx' = total
           /\ IF Len(args') = MaxArgs THEN Ask("again", size, 0) ELSE Ask("dump", 1, total)
           /\ NoDump /\ UNCHANGED << mtrace, buffer, size, ctl, out, ghosts >>
  <2>1. args' \in Seq([d : Index, size1 : Nat, b : Index]) /\ Len(args') = Len(args) + 1
    BY <1>2, <1>4, <1>7
  <2>2. Len(args') <= MaxArgs /\ (Len(args') # MaxArgs => Len(args') < MaxArgs)
    BY <1>1, <1>2, <2>1, AtFacts
  <2>3. /\ \/ pc' = "again" /\ want' = [size |-> size, prefix |-> 0]
           \/ pc' = "dump" /\ want' = [size |-> 1, prefix |-> total] /\ Len(args') < MaxArgs
        /\ UNCHANGED << idx, len, size, ctl, out, astray, torn, buf >>
    BY <1>7, <2>2 DEF Ask, buffer, ghosts
  <2>4. /\ Before' = total /\ total <= Kept /\ Kept' = Kept
        /\ omit' = 0 /\ nv' = 0 /\ size1' = 0 /\ d' = 0
    BY <1>1, <1>3, <1>7, <2>3, AtFacts DEF Before, Kept, NoDump
  <2>5. Asked' /\ AskedOfDump'
    BY <1>2, <1>7, <2>1, <2>3, <2>4 DEF Asked, AskedOfDump, Looks, Ended
  <2>6. want' \in [size : Nat, prefix : Nat]
    BY <1>3, <2>3 DEF WInv, TypeOK
  <2>7. pc' \in {"text", "nv", "counted", "whole", "again"} \cup Looks /\ UNCHANGED << mtrace, buffer >>
    BY <1>7, <2>3 DEF Looks
  <2>8. size' \in Nat /\ ctl' \in Index /\ torn' \in BOOLEAN /\ astray' \in BOOLEAN /\ idx <= len /\ out' = out
    BY <1>1, <1>2, <2>3, AtFacts DEF WInv, TypeOK
  <2>9. pfx' \in Nat /\ omit' \in Nat /\ size1' \in Nat /\ d' \in Index /\ nv' \in Index
    BY <1>1, <1>3, <1>7, <2>4, AtFacts
  <2> QED BY <2>1, <2>2, <2>5, <2>6, <2>7, <2>8, <2>9, AskKeeps
<1> QED BY <1>5, <1>6, <1>7 DEF DumpData, total, arg

LEMMA AgainKeeps == WInv /\ Again => WInv'
<1> SUFFICES ASSUME WInv, Again PROVE WInv'
  OBVIOUS
<1>1. Loaded /\ pc = "again" /\ pfx <= Kept /\ pfx \in Nat /\ idx < len /\ size \in Nat /\ omit = 0
  BY DEF Again, At, WInv, Asked, Ended, TypeOK
<1>2. CASE /\ Deliver(Chunk(ctl, size), [i \in DOMAIN args |-> Argument(args[i])])
           /\ Finish(pfx) /\ UNCHANGED torn
  <2>1. [i \in DOMAIN args |-> Argument(args[i])] \in Seq(Seq(Byte) \X Seq(Byte))
    <3>1. PICK n \in Nat : n = Len(args) /\ DOMAIN args = 1 .. n
      BY DEF WInv, TypeOK
    <3>2. \A i \in 1 .. n : Argument(args[i]) \in Seq(Byte) \X Seq(Byte)
      <4>1. args \in Seq([d : Index, size1 : Nat, b : Index])
        BY DEF WInv, TypeOK
      <4>2. \A i \in 1 .. n : args[i] \in [d : Index, size1 : Nat, b : Index]
        BY <3>1, <4>1, ElementOfSeq
      <4> QED BY <4>2, ArgumentType DEF WInv, TypeOK
    <3> QED BY <3>1, <3>2
  <2>2. Chunk(ctl, size) \in Seq(Byte)
    <3>1. ctl \in Nat
      BY <1>1, AtFacts DEF WInv, TypeOK, Index
    <3> QED BY <1>1, <3>1, ChunkType DEF WInv, TypeOK
  <2>3. out' \in Seq(Handed)
    BY <1>2, <2>1, <2>2, DeliverType DEF WInv, TypeOK
  <2>4. idx + pfx <= BufSize + 1 /\ ~(idx + pfx > len)
    BY <1>1, AtFacts DEF Kept
  <2>5. torn' \in BOOLEAN
    BY <1>2 DEF WInv, TypeOK
  <2> QED BY <1>1, <1>2, <2>3, <2>4, <2>5, FinishKeeps
<1>3. CASE \E n \in Nat : /\ n >= 2 /\ Ask("counted", n, 0) /\ size' = n
                          /\ astray' = FALSE
                          /\ UNCHANGED << mtrace, buffer, ctl, pfx, args, dump, out, torn >>
  <2>1. PICK n \in Nat : /\ n >= 2 /\ pc' = "counted" /\ want' = [size |-> n, prefix |-> 0] /\ size' = n
                         /\ astray' = FALSE
                         /\ UNCHANGED << mtrace, buffer, ctl, pfx, args, dump, out, torn >>
    BY <1>3 DEF Ask
  <2>2. UNCHANGED << idx, len, ctl, pfx, args, omit, nv, size1, d, out, torn >> /\ astray' \in BOOLEAN
    BY <2>1 DEF buffer, dump
  <2>3. Asked' /\ AskedOfDump'
    BY <1>1, <2>1, <2>2 DEF Asked, AskedOfDump, Ended, Looks
  <2>4. want' \in [size : Nat, prefix : Nat]
    BY <2>1
  <2> QED BY <1>1, <2>1, <2>2, <2>3, <2>4, AskKeeps, AtFacts DEF WInv, TypeOK
<1>4. StructSize(TypeAt(idx)) + 1 \in Nat /\ StructSize(TypeAt(idx)) + 1 >= 2
  BY DEF StructSize, TypeAt
<1> QED BY <1>2, <1>3, <1>4 DEF Again

LEMMA LoadKeeps == WInv /\ LoadData => WInv'
<1> SUFFICES ASSUME WInv, LoadData PROVE WInv'
  OBVIOUS
<1>1. /\ BufSize \in Nat /\ len \in Nat /\ idx \in Nat /\ len <= BufSize /\ pos \in Nat
      /\ trace.length \in Nat /\ pos <= trace.length /\ want.size \in Nat /\ want.prefix \in Nat
  BY TraceTypes, SizesAssumption DEF WInv, TypeOK
<1>2. CASE Refill
  <2>1. PICK n \in 1 .. Rest : Enough(n) /\ Kept + n <= BufSize /\ Fill(n)
    BY <1>2 DEF Refill
  <2>2. idx <= len /\ pc \notin Ended /\ ~Loaded /\ UNCHANGED << trace, pc, want, locals, dump, out, ghosts >>
    BY <1>2 DEF Refill
  <2>3. UNCHANGED << size, ctl, pfx, args, omit, nv, size1, d, trace, pc, want, out, astray, torn >>
    BY <2>2 DEF locals, dump, ghosts
  <2>4. /\ pos' \in 0 .. trace'.length /\ len' \in 0 .. BufSize /\ idx' = 0
        /\ buf' \in [Index -> Byte] /\ Window' /\ Kept' = Kept + n /\ n \in Nat /\ n >= 1
    <3>1. n \in Nat /\ n <= Rest /\ n >= 1
      BY <1>1, <2>1 DEF Rest
    <3> QED BY <2>1, <2>2, <3>1, Filled DEF WInv
  <2>5. TypeOK'
    BY <1>1, <2>3, <2>4 DEF WInv, TypeOK
  <2>6. Kept' = Kept + n
    BY <2>4, Zenon
  <2>7. Kept \in Int
    BY <1>1 DEF Kept
  <2>8. idx' = 0 /\ len' \in 0 .. BufSize /\ n \in Nat /\ n >= 1
    BY <2>4
  <2>9. idx' < len' /\ Before' = Before /\ (idx < len => buf'[0] = buf[idx])
    <3>1. idx' < len' /\ Before' = Before
      <4>1. len' = len - idx + n
        BY <2>1 DEF Fill, Kept
      <4>2. idx' < len'
        BY <1>1, <2>2, <2>8, <4>1
      <4>3. Before' = Before
        BY <2>3 DEF Before
      <4> QED BY <4>2, <4>3
    <3>2. ASSUME idx < len PROVE buf'[0] = buf[idx]
      <4>1. 0 \in Index /\ 0 < len - idx /\ 0 + idx = idx
        BY <1>1, <3>2 DEF Index
      <4> QED BY <2>1, <4>1 DEF Fill, Kept
    <3> QED BY <3>1, <3>2
  <2>10. Asked'
    <3>1. pfx \in Nat /\ Before \in Nat
      BY DEF WInv, TypeOK, Before
    <3>2. Kept \in Int /\ Kept' = Kept + n
      BY <2>6, <2>7
    <3>3. Before <= Kept => Before <= Kept'
      BY <2>4, <3>1, <3>2
    <3>4. pfx <= Kept => pfx <= Kept'
      BY <2>4, <3>1, <3>2
    <3> QED BY <2>3, <2>9, <3>3, <3>4, <3>1 DEF WInv, Asked
  <2>11. AskedOfDump'
    <3>1. pc \in Looks => buf'[idx'] = buf[idx]
      BY <2>4, <2>9 DEF WInv, Asked, Looks, Ended
    <3> QED BY <2>3, <2>9, <3>1 DEF WInv, AskedOfDump, Looks
  <2> QED BY <2>4, <2>5, <2>10, <2>11 DEF WInv
<1>3. CASE NotEnoughSpace \/ Underflow \/ EndOfTrace \/ UnexpectedEof
  BY <1>3, EndKeeps DEF NotEnoughSpace, Underflow, EndOfTrace, UnexpectedEof, Ended
<1>4. CASE DumpsAtEof
  <2>1. /\ pc = "dump" /\ ~Loaded /\ Fits /\ idx <= len /\ ~Enough(Rest) /\ Fill(Rest) /\ NoMoreDumps
        /\ UNCHANGED << trace, locals, out, ghosts >>
    BY <1>4 DEF DumpsAtEof, AtEof
  <2>2. Rest \in Nat /\ Rest <= Rest /\ Kept + Rest <= BufSize
    BY <1>1, <2>1 DEF Rest, Kept, Enough, Fits
  <2>3. /\ pos' \in 0 .. trace'.length /\ len' \in 0 .. BufSize /\ idx' = 0
        /\ buf' \in [Index -> Byte] /\ Window' /\ Kept' = Kept + Rest
    BY <2>1, <2>2, Filled DEF WInv
  <2>4. idx < len /\ pfx \in Nat /\ omit \in Nat /\ pfx + omit <= len - idx
    BY <2>1 DEF WInv, TypeOK, Asked, Looks, Ended, Before, Kept
  <2>5. idx' < len' /\ pfx <= Kept' /\ idx' \in 0 .. BufSize
    <3>1. PICK r \in Nat : r = Rest
      BY <2>2
    <3>2. len' = len - idx + r /\ idx' = 0
      BY <2>1, <3>1 DEF Fill, Kept
    <3> QED BY <1>1, <2>3, <2>4, <3>1, <3>2 DEF Kept
  <2> QED BY <2>1, <2>3, <2>4, <2>5, NoMoreKeeps
<1> QED BY <1>2, <1>3, <1>4 DEF LoadData

LEMMA WInvInit == Init => WInv
<1> SUFFICES ASSUME Init PROVE WInv
  OBVIOUS
<1>1. BufSize \in Nat \ {0} /\ MaxArgs \in Nat \ {0}
  BY SizesAssumption
<1>2. trace.length \in Nat
  BY TraceTypes DEF Init
<1>3. TypeOK
  <2>1. buf \in [Index -> Byte]
    BY DEF Init, Byte
  <2>2. args \in Seq([d : Index, size1 : Nat, b : Index]) /\ Len(args) <= MaxArgs /\ out \in Seq(Handed)
    BY <1>1 DEF Init
  <2>3. want \in [size : Nat, prefix : Nat] /\ 0 \in Index
    BY <1>1 DEF Init, Index
  <2> QED BY <1>1, <1>2, <2>1, <2>2, <2>3 DEF Init, TypeOK
<1>4. Window
  BY DEF Init, Window
<1>5. Asked /\ AskedOfDump
  BY DEF Init, Asked, AskedOfDump, Looks, Ended
<1> QED BY <1>3, <1>4, <1>5 DEF WInv

LEMMA WInvNext == WInv /\ [Next]_mvars => WInv'
<1> SUFFICES ASSUME WInv, [Next]_mvars PROVE WInv'
  OBVIOUS
<1>1. CASE UNCHANGED mvars
  <2>1. /\ UNCHANGED << trace, pos, buf, idx, len, pc, want, size, ctl, pfx, args, omit, nv >>
        /\ UNCHANGED << size1, d, out, astray, torn >>
    BY <1>1 DEF mvars, mtrace, buffer, locals, dump, ghosts
  <2>2. TypeOK' /\ Window'
    BY <2>1 DEF WInv, TypeOK, Window
  <2>3. Asked' /\ AskedOfDump'
    BY <2>1 DEF WInv, Asked, AskedOfDump, Kept, Before
  <2> QED BY <2>2, <2>3 DEF WInv
<1>2. CASE LoadData
  BY <1>2, LoadKeeps
<1>3. CASE Start \/ NvStart \/ TextByte \/ CountedMessage \/ WholeMessage
  BY <1>3, StartKeeps, TextKeeps, CountedKeeps, WholeKeeps
<1>4. CASE LoadDump
  BY <1>4, DumpTypeKeeps, SubtypeKeeps, OmitKeeps, HeadKeeps, StrKeeps, LengthKeeps, DataKeeps DEF LoadDump
<1>5. CASE Again
  BY <1>5, AgainKeeps
<1> QED BY <1>1, <1>2, <1>3, <1>4, <1>5 DEF Next, Decode

(* The numbers and pointers of the decoder stay in their ranges: nothing is *)
(* kept beyond the buffer, no pointer leaves it, there are no more          *)
(* arguments than places for them, and the index is beyond what was read    *)
(* only after a byte was torn, for every trace and every way it is read.    *)
THEOREM TypeCorrect == Spec => []TypeOK
<1>1. WInv => TypeOK
  BY DEF WInv
<1> QED BY WInvInit, WInvNext, <1>1, PTL DEF Spec

-----------------------------------------------------------------------------
(* What the tracer writes.                                                  *)

LEMMA Types ==
  /\ \A y \in Fixed \cup Counted : y # << MsgText >> /\ y # << Dump >> /\ y # NvDump
  /\ \A y \in Dumps : y # << MsgText >>
  /\ Fixed \cap Counted = {} /\ Ioctls \subseteq Counted /\ Omitted \subseteq Fixed
  /\ NoHandler \subseteq Omitted /\ NvDump # << Dump >>
  /\ \A y \in Ioctls : y \notin NoHandler /\ y # NvDump
  /\ NvDump \notin Omitted /\ << Dump >> \notin Omitted
BY DEF Fixed, Counted, Ioctls, Dumps, Omitted, NoHandler, NvDump, NvDestroy, NvMmap, NvMark,
       MsgText, Dump, NV, Unmap, Write, Ioctl

(* The first byte of a type, and its size. *)
LEMMA FirstByte ==
  ASSUME NEW t, NEW p
  PROVE  /\ t.bytes[p + 1] = NV => TypeIn(t, p) = << NV, t.bytes[p + 2] >> /\ StructSize(TypeIn(t, p)) = 3
         /\ t.bytes[p + 1] # NV => TypeIn(t, p) = << t.bytes[p + 1] >> /\ StructSize(TypeIn(t, p)) = 2
         /\ TypeIn(t, p) = NvDump => t.bytes[p + 1] = NV
         /\ TypeIn(t, p) \in Omitted => t.bytes[p + 1] = NV
         /\ TypeIn(t, p) = << MsgText >> <=> t.bytes[p + 1] = MsgText
         /\ TypeIn(t, p) = << Dump >> <=> t.bytes[p + 1] = Dump
         /\ TypeIn(t, p) = << Ioctl >> <=> t.bytes[p + 1] = Ioctl
         /\ TypeIn(t, p) \in Ioctls /\ TypeIn(t, p) # << Ioctl >> => t.bytes[p + 1] = NV
         /\ StructSize(TypeIn(t, p)) = Len(TypeIn(t, p)) + 1
<1> DEFINE y == TypeIn(t, p)
<1>1. NV # MsgText /\ NV # Dump /\ NV # Ioctl
  BY DEF NV, MsgText, Dump, Ioctl
<1>2. CASE t.bytes[p + 1] = NV
  <2>1. PICK c : c = t.bytes[p + 2]
    OBVIOUS
  <2>2. y = << NV, c >>
    BY <1>2, <2>1 DEF TypeIn
  <2>3. Len(<< NV, c >>) = 2
    OBVIOUS
  <2>4. << NV, c >> # << MsgText >> /\ << NV, c >> # << Dump >> /\ << NV, c >> # << Ioctl >>
    OBVIOUS
  <2>5. StructSize(y) = 3 /\ StructSize(y) = Len(y) + 1
    BY <2>2, <2>3 DEF StructSize
  <2> HIDE DEF y
  <2>6. y # << MsgText >> /\ y # << Dump >> /\ y # << Ioctl >>
    BY <2>2, <2>4
  <2> QED BY <1>1, <1>2, <2>1, <2>2, <2>5, <2>6 DEF y
<1>3. CASE t.bytes[p + 1] # NV
  <2>1. PICK b : b = t.bytes[p + 1]
    OBVIOUS
  <2>2. y = << b >> /\ b # NV
    BY <1>3, <2>1 DEF TypeIn
  <2>3. << b >> # NvDump /\ << b >> \notin Omitted /\ << b >> # << NV, Ioctl >> /\ Len(<< b >>) = 1
    BY DEF NvDump, Omitted, NoHandler, NvDestroy, NvMmap
  <2>4. \A c : << b >> = << c >> <=> b = c
    OBVIOUS
  <2>5. StructSize(y) = 2 /\ StructSize(y) = Len(y) + 1
    BY <2>2, <2>3 DEF StructSize
  <2>6. /\ << b >> = << MsgText >> <=> b = MsgText
        /\ << b >> = << Dump >> <=> b = Dump
        /\ << b >> = << Ioctl >> <=> b = Ioctl
    BY <2>4
  <2>7. << b >> \in Ioctls => << b >> = << Ioctl >>
    BY <2>3 DEF Ioctls
  <2> HIDE DEF y
  <2> QED BY <1>3, <2>1, <2>2, <2>3, <2>5, <2>6, <2>7 DEF y
<1> QED BY <1>2, <1>3

LEMMA RecordFacts ==
  ASSUME NEW t \in Traces, NEW p \in DOMAIN t.ends
  PROVE  /\ p \in Nat /\ p < t.length /\ t.ends[p] \in Nat /\ p < t.ends[p] /\ t.ends[p] <= Len(t.bytes)
         /\ t.bytes[t.ends[p]] = EOR
         /\ t.ends[p] <= t.length => t.ends[p] \in DOMAIN t.ends \cup {t.length}
         /\ TypeIn(t, p) \in { << MsgText >> } \cup Fixed \cup Counted \cup Dumps
         /\ TypeIn(t, p) = << MsgText >> => \A i \in p + 1 .. t.ends[p] - 1 : t.bytes[i] # EOR
         /\ TypeIn(t, p) \in Fixed => t.ends[p] = p + StructSize(TypeIn(t, p)) + 1
         /\ TypeIn(t, p) \in Counted =>
              t.ends[p] = p + StructSize(TypeIn(t, p)) + 1 + t.bytes[p + StructSize(TypeIn(t, p))]
         /\ TypeIn(t, p) \in Dumps =>
              t.ends[p] = p + PrefixSize(t, p) + t.bytes[p + PrefixSize(t, p) + 1] + 2
<1> DEFINE y == TypeIn(t, p)
           q == t.ends[p]
<1>1. DOMAIN t.ends \subseteq 0 .. t.length - 1 /\ Shaped(t, p) /\ (q < t.length => q \in DOMAIN t.ends)
  BY TraceAssumption DEF Records
<1>2. t.length \in Nat /\ Len(t.bytes) \in Nat
  BY TraceTypes
<1>3. /\ q \in p + 1 .. Len(t.bytes) /\ t.bytes[q] = EOR
      /\ \/ y = << MsgText >> /\ \A i \in p + 1 .. q - 1 : t.bytes[i] # EOR
         \/ y \in Fixed /\ q = p + StructSize(y) + 1
         \/ y \in Counted /\ q = p + StructSize(y) + 1 + t.bytes[p + StructSize(y)]
         \/ y \in Dumps /\ q = p + PrefixSize(t, p) + t.bytes[p + PrefixSize(t, p) + 1] + 2
  BY <1>1 DEF Shaped
<1> HIDE DEF y, q
<1>4. p \in Nat /\ p < t.length
  BY <1>1, <1>2
<1>5. q \in Nat /\ p < q /\ q <= Len(t.bytes) /\ (q <= t.length => q < t.length \/ q = t.length)
  BY <1>2, <1>3, <1>4
<1>6. y \in Dumps => y = << Dump >> \/ y = NvDump
  BY DEF Dumps
<1>7. /\ y \in { << MsgText >> } \cup Fixed \cup Counted \cup Dumps
      /\ y = << MsgText >> => \A i \in p + 1 .. q - 1 : t.bytes[i] # EOR
      /\ y \in Fixed => q = p + StructSize(y) + 1
      /\ y \in Counted => q = p + StructSize(y) + 1 + t.bytes[p + StructSize(y)]
      /\ y \in Dumps => q = p + PrefixSize(t, p) + t.bytes[p + PrefixSize(t, p) + 1] + 2
  BY <1>3, <1>6, Types, Zenon
<1> QED BY <1>1, <1>3, <1>4, <1>5, <1>7 DEF y, q

(* What a record says of the lengths of its parts. *)
LEMMA LengthFacts ==
  ASSUME NEW t \in Traces, NEW p \in DOMAIN t.ends
  PROVE  /\ TypeIn(t, p) \in Counted =>
              t.bytes[p + StructSize(TypeIn(t, p))] \in Nat /\ p + StructSize(TypeIn(t, p)) < t.ends[p]
         /\ TypeIn(t, p) \in Dumps =>
              /\ PrefixSize(t, p) \in Nat /\ PrefixSize(t, p) >= 2
              /\ t.bytes[p + PrefixSize(t, p) + 1] \in Nat
         /\ TypeIn(t, p) = NvDump => PrefixSize(t, p) >= 4
<1>1. LengthsIn(t, p) \subseteq p + 1 .. t.ends[p] - 1
  BY TraceAssumption DEF Records, Shaped
<1>2. p \in Nat /\ t.ends[p] \in Nat /\ t.ends[p] <= Len(t.bytes)
  BY RecordFacts
<1>3. t.bytes \in Seq(Byte)
  BY TraceAssumption
<1>4. \A i \in LengthsIn(t, p) : i \in Nat /\ i > p /\ i < t.ends[p] /\ t.bytes[i] \in Nat
  <2> SUFFICES ASSUME NEW i \in LengthsIn(t, p)
               PROVE  i \in Nat /\ i > p /\ i < t.ends[p] /\ t.bytes[i] \in Nat
    OBVIOUS
  <2>1. i \in 1 .. Len(t.bytes) /\ i \in Nat /\ i > p /\ i < t.ends[p]
    BY <1>1, <1>2
  <2>2. t.bytes[i] \in Byte
    BY <1>3, <2>1
  <2>3. t.bytes[i] \in Nat
    BY <2>2 DEF Byte
  <2> QED BY <2>1, <2>3
<1>5. TypeIn(t, p) \in Counted => p + StructSize(TypeIn(t, p)) \in LengthsIn(t, p)
  BY DEF LengthsIn
<1>6. TypeIn(t, p) \in Dumps => p + PrefixSize(t, p) + 1 \in LengthsIn(t, p)
  <2>1. TypeIn(t, p) \in Dumps => TypeIn(t, p) \notin Counted
    BY Types DEF Dumps
  <2> QED BY <2>1 DEF LengthsIn
<1>7. TypeIn(t, p) = NvDump => p + 4 \in LengthsIn(t, p)
  <2>1. NvDump \notin Counted /\ NvDump \in Dumps
    BY Types DEF Dumps
  <2> QED BY <2>1 DEF LengthsIn
<1>8. TypeIn(t, p) = << Dump >> => PrefixSize(t, p) = 2
  BY FirstByte DEF PrefixSize
<1>9. TypeIn(t, p) = NvDump => PrefixSize(t, p) \in Nat /\ PrefixSize(t, p) >= 4
  <2>1. NvDump # << Dump >>
    BY Types
  <2>2. TypeIn(t, p) = NvDump => PrefixSize(t, p) = 4 + t.bytes[p + 4]
    BY <2>1, FirstByte DEF PrefixSize
  <2>3. TypeIn(t, p) = NvDump => t.bytes[p + 4] \in Nat
    BY <1>4, <1>7
  <2>4. PICK x : x = t.bytes[p + 4]
    OBVIOUS
  <2> QED BY <2>2, <2>3, <2>4
<1>10. TypeIn(t, p) \in Dumps => PrefixSize(t, p) \in Nat /\ PrefixSize(t, p) >= 2
  <2>1. TypeIn(t, p) \in Dumps => TypeIn(t, p) = << Dump >> \/ TypeIn(t, p) = NvDump
    BY DEF Dumps
  <2> QED BY <1>8, <1>9, <2>1
<1> QED BY <1>4, <1>5, <1>6, <1>9, <1>10

(* What a handler is to get, part by part.                                  *)
Dumped(t, m) == [i \in DOMAIN m.dumps |-> DumpParts(t, m.dumps[i])]

LEMMA MeaningParts ==
  ASSUME NEW t, NEW m, NEW p, p = m.at, NEW q, q = t.ends[p]
  PROVE  /\ TypeIn(t, p) = << MsgText >> => Meaning(t, m) = << Piece(t, p, q - p - 1), Dumped(t, m) >>
         /\ TypeIn(t, p) = NvDump => Meaning(t, m) = << << >>, Dumped(t, m) >>
         /\ TypeIn(t, p) \in Fixed \cup Counted => Meaning(t, m) = << Piece(t, p, q - p), Dumped(t, m) >>
<1>1. Meaning(t, m) = << CASE TypeIn(t, p) = << MsgText >> -> Piece(t, p, q - p - 1)
                           [] TypeIn(t, p) = NvDump -> << >>
                           [] OTHER -> Piece(t, p, q - p), Dumped(t, m) >>
  BY DEF Meaning, Dumped
<1>2. NvDump # << MsgText >>
  BY DEF NvDump
<1>3. TypeIn(t, p) = << MsgText >> => Meaning(t, m) = << Piece(t, p, q - p - 1), Dumped(t, m) >>
  BY <1>1, <1>2
<1>4. TypeIn(t, p) = NvDump => Meaning(t, m) = << << >>, Dumped(t, m) >>
  BY <1>1, <1>2
<1>5. TypeIn(t, p) \in Fixed \cup Counted => Meaning(t, m) = << Piece(t, p, q - p), Dumped(t, m) >>
  <2>1. TypeIn(t, p) \in Fixed \cup Counted => TypeIn(t, p) # << MsgText >> /\ TypeIn(t, p) # NvDump
    BY Types
  <2> QED BY <1>1, <2>1
<1> QED BY <1>3, <1>4, <1>5

LEMMA NoneDumped ==
  ASSUME NEW t, NEW m, m.dumps = << >>
  PROVE  Dumped(t, m) = << >>
BY DEF Dumped

(* Where a record lies that is not cut. *)
LEMMA NotCut ==
  ASSUME NEW t \in Traces, NEW p \in DOMAIN t.ends, ~Truncated(t)
  PROVE  t.ends[p] <= t.length
BY RecordFacts, TraceTypes DEF Truncated

MessageOk(t, k, m) ==
         /\ m.at \in DOMAIN t.ends /\ t.ends[m.at] <= t.length /\ m.at = Place(t, k)
         /\ TypeIn(t, m.at) # << Dump >>
         /\ m.dumps \in Seq(Nat) /\ m.stop \in Nat /\ m.after \in Nat /\ Len(m.dumps) \in Nat
         /\ \A n \in 0 .. Len(m.dumps) : EndOf(t, m, n) - m.at <= BufSize
         /\ t.ends[m.at] - m.at <= BufSize
         /\ TypeIn(t, m.at) \in Ioctls => WithDumps(t, m)
         /\ TypeIn(t, m.at) \notin Ioctls => m.dumps = IF TypeIn(t, m.at) = NvDump THEN << m.at >> ELSE << >>
         /\ m.after = Count(t, k) + IF TypeIn(t, m.at) \in NoHandler THEN 0 ELSE 1
         /\ TypeIn(t, m.at) \notin NoHandler => m.after \in DOMAIN t.sent /\ t.sent[m.after] = Meaning(t, m)
         /\ Place(t, k + 1) = EndOf(t, m, Len(m.dumps)) /\ Count(t, k + 1) = m.after
         /\ k \in 1 .. Len(t.messages) /\ k + 1 \in 1 .. Len(t.messages) + 1

LEMMA MessageFacts ==
  ASSUME NEW t \in Traces, NEW k \in DOMAIN t.messages, NEW m, m = t.messages[k]
  PROVE  MessageOk(t, k, m)
<1>1. IsMessage(t, k) /\ t.messages \in Seq([at : Nat, dumps : Seq(Nat), stop : Nat, after : Nat])
  BY TraceAssumption
<1>2. k \in 1 .. Len(t.messages) /\ Len(t.messages) \in Nat
  BY SMTT(30), <1>1
<1>3. m \in [at : Nat, dumps : Seq(Nat), stop : Nat, after : Nat]
  BY <1>1, <1>2, ElementOfSeq, Zenon
<1>4. k + 1 # 1 /\ k + 1 - 1 = k /\ k + 1 \in 1 .. Len(t.messages) + 1
  BY <1>2
<1>5. Place(t, k + 1) = EndOf(t, m, Len(m.dumps)) /\ Count(t, k + 1) = m.after
  <2>1. PICK j, i : j = k + 1 /\ i = j - 1
    OBVIOUS
  <2>2. j # 1 /\ i = k
    BY <1>2, <2>1
  <2>3. Place(t, j) = EndOf(t, t.messages[i], Len(t.messages[i].dumps)) /\ Count(t, j) = t.messages[i].after
    BY <2>1, <2>2 DEF Place, Count
  <2> QED BY <2>1, <2>2, <2>3
<1>6. EndOf(t, m, 0) = t.ends[m.at] /\ Len(m.dumps) \in Nat /\ 0 \in 0 .. Len(m.dumps)
  BY <1>3 DEF EndOf
<1>7. IsMessage(t, k) <=>
        /\ Complete(t, m.at) /\ m.at = Place(t, k)
        /\ \A n \in 0 .. Len(m.dumps) : EndOf(t, m, n) - m.at <= BufSize
        /\ TypeIn(t, m.at) # << Dump >>
        /\ IF TypeIn(t, m.at) \in Ioctls THEN WithDumps(t, m)
           ELSE m.dumps = IF TypeIn(t, m.at) = NvDump THEN << m.at >> ELSE << >>
        /\ m.after = Count(t, k) + IF TypeIn(t, m.at) \in NoHandler THEN 0 ELSE 1
        /\ TypeIn(t, m.at) \notin NoHandler => m.after \in DOMAIN t.sent /\ t.sent[m.after] = Meaning(t, m)
  BY DEF IsMessage
<1>8. Complete(t, m.at) => m.at \in DOMAIN t.ends /\ t.ends[m.at] <= t.length
  BY DEF Complete
<1>9. \A n \in 0 .. Len(m.dumps) : EndOf(t, m, n) - m.at <= BufSize
  BY <1>1, <1>7
<1>10. t.ends[m.at] - m.at <= BufSize
  <2>1. EndOf(t, m, 0) - m.at <= BufSize
    BY <1>6, <1>9, Zenon
  <2> QED BY <1>6, <2>1
<1>11. m.dumps \in Seq(Nat) /\ m.stop \in Nat /\ m.after \in Nat /\ Len(m.dumps) \in Nat
  BY <1>3
<1> QED BY <1>1, <1>2, <1>4, <1>5, <1>7, <1>8, <1>9, <1>10, <1>11, Zenon DEF MessageOk

(* A decoder that is at a record which is all there is at a message. *)
LEMMA AtMessage ==
  ASSUME NEW t \in Traces, NEW k \in 1 .. Len(t.messages) + 1, NEW p, p = Place(t, k),
         p \in DOMAIN t.ends, t.ends[p] <= t.length
  PROVE  /\ k \in DOMAIN t.messages /\ t.messages[k].at = p
<1>1. t.messages \in Seq([at : Nat, dumps : Seq(Nat), stop : Nat, after : Nat])
      /\ NothingAt(t, Place(t, Len(t.messages) + 1))
  BY TraceAssumption
<1>2. p < t.length /\ p \in Nat /\ t.ends[p] \in Nat /\ t.length \in Nat
  BY RecordFacts, TraceTypes
<1>3. ~NothingAt(t, p)
  BY <1>2 DEF NothingAt
<1>4. k # Len(t.messages) + 1
  BY <1>1, <1>3, Zenon
<1>5. k \in DOMAIN t.messages
  BY <1>1, <1>4
<1> QED BY <1>5, MessageFacts, ZenonT(60) DEF MessageOk

(* What can lie at r, where an ioctl that has n dumps looks for the next.   *)
PassedAt(t, m, lim, r) ==
  /\ r < lim /\ r \in DOMAIN t.ends /\ t.ends[r] <= t.length
  /\ TypeIn(t, r) \in PassedOver(t, m) /\ t.ends[r] <= lim /\ t.ends[r] - m.at <= BufSize

DumpIsAt(t, m, n, r) ==
  /\ n < Len(m.dumps) /\ r = m.dumps[n + 1] /\ r \in DOMAIN t.ends /\ t.ends[r] <= t.length
  /\ TypeIn(t, r) = DumpOf(t, m) /\ t.ends[r] - m.at <= BufSize

OtherAt(t, m, n, r) ==
  /\ n = Len(m.dumps) /\ r \in DOMAIN t.ends
  /\ TypeIn(t, r) \notin {DumpOf(t, m)} \cup PassedOver(t, m)
  /\ r + Len(TypeIn(t, r)) - m.at <= BufSize

LimitOf(m, n) == IF n < Len(m.dumps) THEN m.dumps[n + 1] ELSE m.stop

LEMMA NextLimit ==
  ASSUME NEW t, NEW k, NEW m, MessageOk(t, k, m), TypeIn(t, m.at) \in Ioctls,
         NEW n \in Nat, n <= Len(m.dumps), n < MaxArgs
  PROVE  EndOf(t, m, n) <= LimitOf(m, n)
<1>1. WithDumps(t, m) /\ Len(m.dumps) \in Nat /\ m.dumps \in Seq(Nat)
  BY DEF MessageOk
<1>2. CASE n < Len(m.dumps)
  <2>1. n + 1 \in DOMAIN m.dumps
    BY <1>1, <1>2
  <2>2. Between(t, m, EndOf(t, m, n + 1 - 1), m.dumps[n + 1])
    BY <1>1, <2>1 DEF WithDumps
  <2>3. n + 1 - 1 = n
    OBVIOUS
  <2> QED BY <1>2, <2>2, <2>3 DEF Between, LimitOf
<1>3. CASE ~(n < Len(m.dumps))
  <2>1. n = Len(m.dumps)
    BY <1>1, <1>3
  <2>2. Between(t, m, EndOf(t, m, n), m.stop)
    BY <1>1, <2>1 DEF WithDumps
  <2> QED BY <1>3, <2>2 DEF Between, LimitOf
<1> QED BY <1>2, <1>3

LEMMA NextDump ==
  ASSUME NEW t \in Traces, NEW k \in DOMAIN t.messages, NEW m, m = t.messages[k],
         TypeIn(t, m.at) \in Ioctls,
         NEW n \in Nat, n <= Len(m.dumps), n < MaxArgs,
         NEW lim, lim = LimitOf(m, n),
         NEW r \in DOMAIN t.ends \cup {t.length}, EndOf(t, m, n) <= r, r <= lim
  PROVE  /\ r \in Nat /\ r + 1 - m.at <= BufSize
         /\ \/ PassedAt(t, m, lim, r) \/ DumpIsAt(t, m, n, r)
            \/ (n = Len(m.dumps) /\ NothingAt(t, r)) \/ OtherAt(t, m, n, r)
<1>1. /\ m.at \in Nat /\ m.dumps \in Seq(Nat) /\ Len(m.dumps) \in Nat /\ m.stop \in Nat
      /\ WithDumps(t, m) /\ \A i \in 0 .. Len(m.dumps) : EndOf(t, m, i) - m.at <= BufSize
  BY MessageFacts, RecordFacts DEF MessageOk
<1>2. t.length \in Nat /\ BufSize \in Nat /\ MaxArgs \in Nat
  BY TraceTypes, SizesAssumption
<1>3. r \in Nat /\ (r \in DOMAIN t.ends => r < t.length /\ t.ends[r] \in Nat /\ r < t.ends[r])
  BY <1>2, RecordFacts
<1>4. CASE n < Len(m.dumps)
  <2>1. n + 1 \in DOMAIN m.dumps /\ n + 1 - 1 = n /\ n + 1 \in 0 .. Len(m.dumps) /\ n + 1 # 0
    BY <1>1, <1>4
  <2>2. PICK e : e = m.dumps[n + 1]
    OBVIOUS
  <2>3. /\ e \in DOMAIN t.ends /\ t.ends[e] <= t.length /\ TypeIn(t, e) = DumpOf(t, m)
        /\ Between(t, m, EndOf(t, m, n), e) /\ lim = e
    BY <1>1, <1>4, <2>1, <2>2 DEF WithDumps, Complete, LimitOf
  <2>4. e \in Nat /\ e < t.ends[e] /\ t.ends[e] \in Nat /\ t.ends[e] - m.at <= BufSize
    <3>1. EndOf(t, m, n + 1) = t.ends[e]
      BY <2>1, <2>2 DEF EndOf
    <3>2. EndOf(t, m, n + 1) - m.at <= BufSize
      BY <1>1, <2>1, Zenon
    <3> QED BY <2>3, <3>1, <3>2, RecordFacts
  <2>5. r + 1 - m.at <= BufSize
    BY <1>1, <1>2, <1>3, <2>3, <2>4
  <2>6. CASE r = e
    BY <1>4, <2>2, <2>3, <2>4, <2>5, <2>6, <1>3 DEF DumpIsAt
  <2>7. CASE r # e
    <3>1. r < e /\ r < t.length
      BY <1>2, <1>3, <2>3, <2>4, <2>7
    <3>2. r \in DOMAIN t.ends
      BY <1>2, <3>1
    <3>3. TypeIn(t, r) \in PassedOver(t, m) /\ t.ends[r] <= e
      BY <2>3, <3>1, <3>2 DEF Between
    <3>4. t.ends[r] <= t.length /\ t.ends[r] - m.at <= BufSize
      BY <1>1, <1>2, <1>3, <2>3, <2>4, <3>2, <3>3
    <3> QED BY <1>3, <2>3, <2>5, <3>1, <3>2, <3>3, <3>4 DEF PassedAt
  <2> QED BY <2>6, <2>7
<1>5. CASE n = Len(m.dumps)
  <2>1. /\ Between(t, m, EndOf(t, m, n), m.stop) /\ m.stop + 1 - m.at <= BufSize /\ lim = m.stop
        /\ \/ NothingAt(t, m.stop)
           \/ /\ m.stop \in DOMAIN t.ends
              /\ TypeIn(t, m.stop) \notin {DumpOf(t, m)} \cup PassedOver(t, m)
              /\ m.stop + Len(TypeIn(t, m.stop)) - m.at <= BufSize
    BY <1>1, <1>5 DEF WithDumps, LimitOf
  <2>2. m.stop <= t.length
    BY <1>2, <2>1, RecordFacts DEF NothingAt
  <2>3. r + 1 - m.at <= BufSize
    BY <1>1, <1>2, <1>3, <2>1
  <2>4. CASE r = m.stop
    BY <1>3, <1>5, <2>1, <2>3, <2>4 DEF OtherAt
  <2>5. CASE r # m.stop
    <3>1. r < m.stop /\ r < t.length
      BY <1>1, <1>2, <1>3, <2>1, <2>2, <2>5
    <3>2. r \in DOMAIN t.ends
      BY <1>2, <3>1
    <3>3. TypeIn(t, r) \in PassedOver(t, m) /\ t.ends[r] <= m.stop
      BY <2>1, <3>1, <3>2 DEF Between
    <3>4. t.ends[r] <= t.length /\ t.ends[r] - m.at <= BufSize
      BY <1>1, <1>2, <1>3, <2>1, <2>2, <3>2, <3>3
    <3> QED BY <1>3, <2>1, <2>3, <3>1, <3>2, <3>3, <3>4 DEF PassedAt
  <2> QED BY <2>4, <2>5
<1>6. n < Len(m.dumps) \/ n = Len(m.dumps)
  BY <1>1
<1> QED BY <1>4, <1>5, <1>6

-----------------------------------------------------------------------------
(* What the buffer shows.                                                   *)

LEMMA HereFacts ==
  ASSUME WInv, idx <= len
  PROVE  /\ Here \in Nat /\ idx \in Nat /\ len \in Nat /\ pos \in Nat /\ trace.length \in Nat
         /\ BufSize \in Nat /\ MaxArgs \in Nat /\ 1 <= BufSize /\ 1 <= MaxArgs
         /\ Here = pos - len + idx /\ Here + (len - idx) = pos /\ pos <= trace.length /\ len <= BufSize
         /\ size \in Nat /\ pfx \in Nat /\ omit \in Nat /\ size1 \in Nat
         /\ want.size \in Nat /\ want.prefix \in Nat /\ trace \in Traces
         /\ ctl \in Nat /\ d \in Nat /\ Len(args) \in Nat /\ Before = pfx + omit
         /\ Candidate = Here + pfx + omit /\ Candidate \in Nat /\ Kept = len - idx
<1>1. trace \in Traces /\ trace.length \in Nat
  BY TraceTypes DEF WInv, TypeOK
<1>2. len <= pos
  BY DEF WInv, Window
<1>3. BufSize \in Nat \ {0} /\ MaxArgs \in Nat \ {0}
  BY SizesAssumption
<1>4. /\ idx \in Nat /\ len \in Nat /\ pos \in Nat /\ pos <= trace.length /\ len <= BufSize
      /\ size \in Nat /\ pfx \in Nat /\ omit \in Nat /\ size1 \in Nat
      /\ want.size \in Nat /\ want.prefix \in Nat /\ ctl \in Nat /\ d \in Nat
  BY <1>1, <1>3 DEF WInv, TypeOK, Index
<1>5. Len(args) \in Nat
  BY DEF WInv, TypeOK
<1>6. Here \in Nat
  BY <1>2, <1>4 DEF Here
<1>7. Here = pos - len + idx /\ Here + (len - idx) = pos
  BY <1>4 DEF Here
<1>8. Candidate = Here + pfx + omit /\ Candidate \in Nat /\ Before = pfx + omit /\ Kept = len - idx
  BY <1>4, <1>6 DEF Candidate, Before, Kept
<1> QED BY <1>1, <1>3, <1>4, <1>5, <1>6, <1>7, <1>8

LEMMA Seen ==
  ASSUME WInv, NEW j \in Nat, idx + j < len
  PROVE  buf[idx + j] = trace.bytes[Here + j + 1] /\ Here + j + 1 <= trace.length
<1>1. idx \in Nat /\ len \in Nat
  BY SizesAssumption DEF WInv, TypeOK
<1>2. idx <= len
  BY <1>1
<1>3. /\ Here \in Nat /\ pos \in Nat /\ pos <= trace.length /\ trace.length \in Nat
      /\ Here = pos - len + idx
  BY <1>2, HereFacts
<1>4. idx + j \in 0 .. len - 1
  BY <1>1
<1>5. buf[idx + j] = trace.bytes[pos - len + (idx + j) + 1]
  BY <1>4 DEF WInv, Window
<1>6. pos - len + (idx + j) + 1 = Here + j + 1 /\ Here + j + 1 <= trace.length
  BY <1>1, <1>3
<1> QED BY <1>5, <1>6

LEMMA ChunkSeen ==
  ASSUME WInv, NEW k \in Nat, NEW n \in Nat, idx <= k, k + n <= len
  PROVE  Chunk(k, n) = Piece(trace, Here + (k - idx), n)
<1>1. idx \in Nat /\ len \in Nat /\ BufSize \in Nat /\ len <= BufSize
  BY SizesAssumption DEF WInv, TypeOK
<1>2. idx <= len
  BY <1>1
<1>3. Here \in Nat /\ Here = pos - len + idx /\ pos \in Nat
  BY <1>2, HereFacts
<1>4. ASSUME NEW i \in 1 .. n
      PROVE  (IF k + i - 1 \in Index THEN buf[k + i - 1] ELSE 0) = trace.bytes[Here + (k - idx) + i]
  <2>1. k + i - 1 \in 0 .. len - 1 /\ k + i - 1 \in Index
    BY <1>1 DEF Index
  <2>2. buf[k + i - 1] = trace.bytes[pos - len + (k + i - 1) + 1]
    BY <2>1 DEF WInv, Window
  <2>3. pos - len + (k + i - 1) + 1 = Here + (k - idx) + i
    BY <1>1, <1>3
  <2> QED BY <2>1, <2>2, <2>3
<1> QED BY <1>4 DEF Chunk, Piece

(* The type of the record at an offset of which enough is loaded. *)
LEMMA TypeSeen ==
  ASSUME WInv, NEW j \in Nat, idx + j < len, buf[idx + j] = NV => idx + j + 1 < len
  PROVE  TypeAt(idx + j) = TypeIn(trace, Here + j)
<1>1. buf[idx + j] = trace.bytes[Here + j + 1]
  BY Seen
<1>2. idx \in Nat /\ len \in Nat
  BY SizesAssumption DEF WInv, TypeOK
<1>3. idx <= len
  BY <1>2
<1>4. Here \in Nat
  BY <1>3, HereFacts
<1>5. ASSUME buf[idx + j] = NV PROVE buf[idx + j + 1] = trace.bytes[Here + j + 2]
  <2>1. j + 1 \in Nat /\ idx + (j + 1) < len /\ idx + (j + 1) = idx + j + 1
    BY <1>2, <1>5
  <2>2. buf[idx + (j + 1)] = trace.bytes[Here + (j + 1) + 1]
    BY <2>1, Seen
  <2>3. Here + (j + 1) + 1 = Here + j + 2
    BY <1>4
  <2> QED BY <2>1, <2>2, <2>3
<1> QED BY <1>1, <1>5 DEF TypeAt, TypeIn

LEMMA PrefixGrows ==
  ASSUME NEW S, NEW o \in Seq(S), NEW s \in Seq(S), IsPrefix(o, s), NEW x,
         Len(o) + 1 \in DOMAIN s, s[Len(o) + 1] = x
  PROVE  IsPrefix(Append(o, x), s)
<1>1. PICK n \in Nat : n = Len(o)
  OBVIOUS
<1>2. n + 1 <= Len(s) /\ Len(s) \in Nat /\ x \in S
  BY <1>1
<1>3. Append(o, x) \in Seq(S) /\ Len(Append(o, x)) = n + 1
  BY <1>1, <1>2
<1>4. \A i \in 1 .. n : o[i] = s[i]
  <2>1. SubSeq(o, 1, n) = SubSeq(s, 1, n)
    BY <1>1 DEF IsPrefix
  <2>2. \A i \in 1 .. n : SubSeq(o, 1, n)[i] = o[i]
    BY <1>1
  <2>3. \A i \in 1 .. n : SubSeq(s, 1, n)[i] = s[i]
    BY <1>1, <1>2
  <2> QED BY <2>1, <2>2, <2>3
<1>5. \A i \in 1 .. n + 1 : Append(o, x)[i] = s[i]
  BY <1>1, <1>4
<1>6. SubSeq(Append(o, x), 1, n + 1) = SubSeq(s, 1, n + 1)
  BY <1>2, <1>3, <1>5
<1> QED BY <1>2, <1>3, <1>6 DEF IsPrefix

LEMMA PrefixWhole ==
  ASSUME NEW S, NEW o \in Seq(S), NEW s \in Seq(S), IsPrefix(o, s), Len(o) = Len(s)
  PROVE  o = s
<1>1. SubSeq(o, 1, Len(o)) = SubSeq(s, 1, Len(s))
  BY DEF IsPrefix
<1> QED BY <1>1

-----------------------------------------------------------------------------
(* What a step does to the place in the trace.                              *)

(* A decoder that gives up does so in a trace that was cut. *)
LEMMA FailKeeps ==
  ASSUME SInv, pc \notin Ended, NEW p \in Ended, End(p), UNCHANGED mtrace,
         p = "exit" => Truncated(trace), p # "crash", p = "done" => out = trace.sent
  PROVE  SInv'
<1>1. pc' = p /\ UNCHANGED << out, trace >>
  BY DEF End, mtrace
<1> QED BY <1>1 DEF SInv, Stopped, Ended

(* A message was handled, and the next one begins where it ended. *)
LEMMA NextMessage ==
  ASSUME WInv, SInv, idx <= len, NEW k, Handled(k), k \in DOMAIN trace.messages,
         NEW n \in Nat, Finish(n), Here + n = Place(trace, k + 1),
         IF TypeIn(trace, Here) \in NoHandler THEN out' = out
         ELSE out' = Append(out, Meaning(trace, trace.messages[k]))
  PROVE  SInv'
<1>1. PICK m : m = trace.messages[k]
  OBVIOUS
<1>2. /\ trace \in Traces /\ Here \in Nat /\ Here = pos - len + idx
      /\ pos \in Nat /\ len \in Nat /\ idx \in Nat
  BY HereFacts
<1>3. /\ pc' = "start" /\ idx' = idx + n /\ UNCHANGED << trace, pos, len >>
  BY DEF Finish, Ask, mtrace
<1>4. Here' = Here + n
  <2>1. Here' = pos - len + (idx + n)
    BY <1>3 DEF Here
  <2> QED BY <1>2, <2>1
<1>5. /\ m.at = Place(trace, k) /\ m.after \in Nat
      /\ m.after = Count(trace, k) + IF TypeIn(trace, m.at) \in NoHandler THEN 0 ELSE 1
      /\ TypeIn(trace, m.at) \notin NoHandler =>
           m.after \in DOMAIN trace.sent /\ trace.sent[m.after] = Meaning(trace, m)
      /\ Count(trace, k + 1) = m.after /\ k + 1 \in 1 .. Len(trace.messages) + 1
  <2>1. MessageOk(trace, k, m)
    BY <1>1, <1>2, MessageFacts, Zenon
  <2> QED BY <2>1 DEF MessageOk
<1>6. m.at = Here /\ Len(out) = Count(trace, k) /\ out \in Seq(Handed)
  BY <1>5 DEF Handled, WInv, TypeOK
<1>7. trace.sent \in Seq(Handed) /\ IsPrefix(out, trace.sent)
  BY <1>2, TraceAssumption DEF SInv
<1>8. Len(out') = m.after /\ IsPrefix(out', trace.sent)
  <2>1. CASE TypeIn(trace, Here) \in NoHandler
    <3>1. out' = out
      BY <2>1
    <3>2. m.after = Count(trace, k) + 0
      BY <1>5, <1>6, <2>1
    <3>3. Len(out) \in Nat
      BY <1>6
    <3> QED BY <1>6, <1>7, <3>1, <3>2, <3>3
  <2>2. CASE TypeIn(trace, Here) \notin NoHandler
    <3>1. out' = Append(out, Meaning(trace, m))
      BY <1>1, <2>2
    <3>2. m.after = Len(out) + 1 /\ m.after \in DOMAIN trace.sent /\ trace.sent[m.after] = Meaning(trace, m)
      BY <1>5, <1>6, <2>2
    <3>3. Len(out') = Len(out) + 1
      BY <1>6, <3>1
    <3>4. IsPrefix(out', trace.sent)
      BY <1>6, <1>7, <3>1, <3>2, PrefixGrows
    <3> QED BY <3>2, <3>3, <3>4
  <2> QED BY <2>1, <2>2
<1>9. Handled(k + 1)'
  <2>1. (k + 1)' = k + 1
    OBVIOUS
  <2> QED BY <1>3, <1>4, <1>5, <1>8 DEF Handled
<1>10. Decoding(k + 1)'
  BY <1>3, <1>9 DEF Decoding, Looks
<1> QED BY <1>3, <1>5, <1>8, <1>10 DEF SInv, Stopped

(* The code asks for more of the message it is at. *)
LEMMA NowDecoding ==
  ASSUME IsPrefix(out, trace.sent), UNCHANGED << mtrace, buffer, out >>,
         pc' \in {"text", "nv", "counted", "whole", "again"} \cup Looks,
         NEW k, Handled(k), Measured',
         pc' \in Looks \cup {"again"} => Alone' \/ Gathering(k)', pc' \in Looks => Found'
  PROVE  SInv'
<1>1. pc' \notin Ended /\ pc' # "start"
  BY DEF Looks, Ended
<1>2. UNCHANGED << trace, pos, idx, len, out >>
  BY DEF mtrace, buffer
<1>3. Handled(k)'
  BY <1>2 DEF Handled, Here
<1>4. Decoding(k)'
  BY <1>3 DEF Decoding
<1>5. k \in 1 .. Len(trace'.messages) + 1
  BY <1>2 DEF Handled
<1>6. Stopped' /\ IsPrefix(out', trace'.sent)
  BY <1>1, <1>2 DEF Stopped, Ended
<1> QED BY <1>4, <1>5, <1>6 DEF SInv

LEMMA StillDecoding ==
  ASSUME SInv, UNCHANGED << mtrace, buffer, out >>,
         pc' \in {"text", "nv", "counted", "whole", "again"} \cup Looks,
         NEW k, Handled(k), Measured',
         pc' \in Looks \cup {"again"} => Alone' \/ Gathering(k)', pc' \in Looks => Found'
  PROVE  SInv'
BY NowDecoding DEF SInv

(* There is a record where there are bytes. *)
LEMMA AtRecord ==
  ASSUME WInv, idx < len, NEW k, Handled(k)
  PROVE  Here \in DOMAIN trace.ends
<1>1. idx <= len /\ idx \in Nat /\ len \in Nat
  BY SizesAssumption DEF WInv, TypeOK
<1>2. /\ trace \in Traces /\ Here \in Nat /\ Here + (len - idx) = pos /\ pos <= trace.length
      /\ pos \in Nat /\ trace.length \in Nat
  BY <1>1, HereFacts
<1>3. Here < trace.length
  BY <1>1, <1>2
<1>4. k \in 1 .. Len(trace.messages) + 1 /\ Here = Place(trace, k)
  BY DEF Handled
<1>5. trace.messages \in Seq([at : Nat, dumps : Seq(Nat), stop : Nat, after : Nat])
      /\ NothingAt(trace, Place(trace, Len(trace.messages) + 1))
  BY <1>2, TraceAssumption
<1>6. CASE k = Len(trace.messages) + 1
  BY <1>2, <1>3, <1>4, <1>5, <1>6 DEF NothingAt
<1>7. CASE k # Len(trace.messages) + 1
  <2>1. k \in DOMAIN trace.messages
    BY <1>4, <1>5, <1>7
  <2>2. PICK m : m = trace.messages[k]
    OBVIOUS
  <2>3. MessageOk(trace, k, m)
    BY <1>2, <2>1, <2>2, MessageFacts, Zenon
  <2> QED BY <1>4, <2>3 DEF MessageOk
<1> QED BY <1>6, <1>7

(* A record that is not cut is that of a message. *)
LEMMA WholeRecord ==
  ASSUME NEW k, Handled(k), trace \in Traces, Here \in DOMAIN trace.ends,
         trace.ends[Here] <= trace.length
  PROVE  /\ k \in DOMAIN trace.messages /\ trace.messages[k].at = Here
         /\ MessageOk(trace, k, trace.messages[k])
<1>1. k \in 1 .. Len(trace.messages) + 1 /\ Here = Place(trace, k)
  BY DEF Handled
<1>2. k \in DOMAIN trace.messages /\ trace.messages[k].at = Here
  BY <1>1, AtMessage
<1> QED BY <1>2, MessageFacts

LEMMA DispatchPlace ==
  ASSUME WInv, SInv, pc \in {"start", "nv"}, idx < len, NEW k, Handled(k),
         NEW t, t = TypeIn(trace, Here), t # << MsgText >>, t = NvDump => 2 <= Kept, Dispatch(t)
  PROVE  SInv'
<1>1. idx <= len
  BY SizesAssumption DEF WInv, TypeOK
<1>2. Here \in DOMAIN trace.ends /\ trace \in Traces /\ Here \in Nat
  BY <1>1, AtRecord, HereFacts
<1>3. t \in Fixed => trace.ends[Here] = Here + StructSize(t) + 1
  BY <1>2, RecordFacts
<1>4. CASE t \in Fixed \cup Counted
  <2>1. /\ pc' = (IF t \in Fixed THEN "whole" ELSE "counted") /\ size' = StructSize(t) + 1
        /\ UNCHANGED << mtrace, buffer, out >>
    BY <1>4 DEF Dispatch, Ask
  <2>2. UNCHANGED << trace, pos, idx, len >>
    BY <2>1 DEF mtrace, buffer
  <2>3. Here' = Here
    BY <2>2 DEF Here
  <2>4. StructSize(t) \in Nat
    BY DEF StructSize
  <2>5. pc' = "whole" => Here + size' = trace.ends[Here]
    BY <1>2, <1>3, <2>1, <2>4
  <2>6. Measured'
    BY <1>2, <1>4, <2>1, <2>2, <2>3, <2>5 DEF Measured
  <2> QED BY <2>1, <2>6, StillDecoding DEF Looks
<1>5. CASE t \notin Fixed \cup Counted /\ t = NvDump
  <2>1. pc' = "dump" /\ UNCHANGED << mtrace, buffer, locals, dump, out >>
    BY <1>5 DEF Dispatch, Ask
  <2>2. UNCHANGED << trace, pos, idx, len, size, pfx, args, omit >>
    BY <2>1 DEF mtrace, buffer, locals, dump
  <2>3. Here' = Here /\ Kept' = Kept
    BY <2>2 DEF Here, Kept
  <2>4. Measured'
    BY <1>2, <2>1, <2>2, <2>3 DEF Measured
  <2>5. size = 0 /\ pfx = 0 /\ omit = 0 /\ args = << >>
    BY DEF WInv, Asked
  <2>6. Alone'
    BY <1>5, <2>1, <2>2, <2>3, <2>5 DEF Alone, Looks
  <2>7. Found'
    BY <2>1 DEF Found
  <2> QED BY <2>1, <2>4, <2>6, <2>7, StillDecoding DEF Looks
<1>6. CASE t \notin Fixed \cup Counted /\ t # NvDump
  <2>1. t = << Dump >>
    BY <1>2, <1>6, RecordFacts DEF Dumps
  <2>2. Truncated(trace)
    <3> SUFFICES ASSUME ~Truncated(trace) PROVE FALSE
      OBVIOUS
    <3>1. trace.ends[Here] <= trace.length
      BY <1>2, NotCut
    <3>2. MessageOk(trace, k, trace.messages[k]) /\ trace.messages[k].at = Here
      BY <1>2, <3>1, WholeRecord
    <3> QED BY <2>1, <3>2 DEF MessageOk
  <2>3. End("exit") /\ UNCHANGED mtrace
    BY <1>6 DEF Dispatch, Fail
  <2> QED BY <2>2, <2>3, FailKeeps DEF Ended
<1> QED BY <1>4, <1>5, <1>6

LEMMA StartPlace ==
  ASSUME WInv, SInv, Start \/ NvStart, NEW k, Decoding(k)
  PROVE  SInv'
<1>1. Loaded /\ pc \in {"start", "nv"} /\ Handled(k) /\ (Start => pc = "start") /\ (NvStart => pc = "nv")
  BY DEF Start, NvStart, At, Decoding
<1>2. /\ pc = "start" => want.size = 1 /\ want.prefix = 0
      /\ pc = "nv" => want.size = 2 /\ want.prefix = 0
  BY DEF WInv, Asked
<1>3. /\ idx \in Nat /\ len \in Nat /\ idx < len /\ (pc = "nv" => idx + 1 < len) /\ idx <= len
      /\ idx + 0 = idx
  BY <1>1, <1>2, AtFacts
<1>4. Here \in Nat /\ Kept = len - idx /\ Here \in DOMAIN trace.ends
  BY <1>1, <1>3, HereFacts, AtRecord
<1>5. buf[idx] = trace.bytes[Here + 1]
  <2>1. buf[idx + 0] = trace.bytes[Here + 0 + 1]
    BY <1>3, Seen
  <2>2. Here + 0 + 1 = Here + 1
    BY <1>4
  <2> QED BY <1>3, <2>1, <2>2
<1>6. CASE Start /\ buf[idx] # MsgText /\ buf[idx] # NV
  <2>1. Dispatch(<< buf[idx] >>)
    BY <1>6 DEF Start
  <2>2. TypeIn(trace, Here) = << buf[idx] >> /\ << buf[idx] >> # << MsgText >> /\ << buf[idx] >> # NvDump
    BY <1>5, <1>6, FirstByte
  <2> QED BY <1>1, <1>3, <2>1, <2>2, DispatchPlace
<1>7. CASE NvStart
  <2>1. buf[idx + 1] = trace.bytes[Here + 2]
    <3>1. buf[idx + 1] = trace.bytes[Here + 1 + 1]
      BY <1>1, <1>3, <1>7, Seen
    <3>2. Here + 1 + 1 = Here + 2
      BY <1>4
    <3> QED BY <3>1, <3>2
  <2>2. trace.bytes[Here + 1] = NV
    BY <1>1, <1>7 DEF Decoding, Measured
  <2>3. TypeIn(trace, Here) = << NV, buf[idx + 1] >>
    BY <2>1, <2>2, FirstByte
  <2>4. << NV, buf[idx + 1] >> # << MsgText >>
    OBVIOUS
  <2>5. 2 <= Kept
    BY <1>1, <1>3, <1>4, <1>7
  <2>6. Dispatch(<< NV, buf[idx + 1] >>)
    BY <1>7 DEF NvStart
  <2> QED BY <1>1, <1>3, <2>3, <2>4, <2>5, <2>6, DispatchPlace
<1>8. CASE Start /\ (buf[idx] = MsgText \/ buf[idx] = NV)
  <2>1. /\ \/ buf[idx] = MsgText /\ pc' = "text"
           \/ buf[idx] = NV /\ pc' = "nv"
        /\ UNCHANGED << mtrace, buffer, locals, dump, out >>
    <3>1. CASE buf[idx] = MsgText
      BY <1>8, <3>1 DEF Start, Ask
    <3>2. CASE buf[idx] # MsgText /\ buf[idx] = NV
      BY <1>8, <3>2 DEF Start, Ask
    <3> QED BY <1>8, <3>1, <3>2
  <2>2. UNCHANGED << trace, pos, idx, len, size >>
    BY <2>1 DEF mtrace, buffer, locals
  <2>3. Here' = Here /\ size' = 0
    BY <1>1, <1>8, <2>2 DEF Here, WInv, Asked
  <2>4. buf[idx] = MsgText => TypeIn(trace, Here) = << MsgText >>
    BY <1>5, FirstByte
  <2>5. \A i \in Here + 1 .. Here + 0 : trace.bytes[i] # EOR
    BY <1>4
  <2>6. Measured'
    BY <1>4, <1>5, <1>8, <2>1, <2>2, <2>3, <2>4, <2>5 DEF Measured
  <2> QED BY <1>1, <2>1, <2>6, StillDecoding DEF Looks
<1> QED BY <1>6, <1>7, <1>8

LEMMA TextPlace ==
  ASSUME WInv, SInv, TextByte, ~torn', NEW k, Decoding(k)
  PROVE  SInv'
<1>1. Loaded /\ pc = "text" /\ Handled(k) /\ Measured
  BY DEF TextByte, At, Decoding
<1>2. idx + size < len /\ idx \in Nat /\ len \in Nat /\ size \in Nat /\ len <= BufSize /\ BufSize \in Nat /\ idx <= len
  <2>1. torn' = (torn \/ idx + size >= len)
    BY DEF TextByte
  <2>2. ~(idx + size >= len)
    BY <2>1
  <2> QED BY <1>1, <2>2, AtFacts DEF WInv, TypeOK
<1>3. /\ Here \in Nat /\ trace \in Traces /\ trace.length \in Nat /\ Here \in DOMAIN trace.ends
      /\ TypeIn(trace, Here) = << MsgText >>
      /\ \A i \in Here + 1 .. Here + size : trace.bytes[i] # EOR
  BY <1>1, <1>2, HereFacts DEF Measured
<1>4. buf[idx + size] = trace.bytes[Here + size + 1] /\ Here + size + 1 <= trace.length
  BY <1>2, Seen
<1>5. Tested(idx + size) = {buf[idx + size]}
  BY <1>2 DEF Tested, Index
<1>6. CASE buf[idx + size] = EOR
  <2>1. Deliver(Chunk(idx, size), << >>) /\ Finish(size + 1)
    BY <1>5, <1>6 DEF TextByte
  <2>2. PICK q : q = trace.ends[Here]
    OBVIOUS
  <2>3. /\ q \in Nat /\ Here < q /\ trace.bytes[q] = EOR
        /\ \A i \in Here + 1 .. q - 1 : trace.bytes[i] # EOR
    BY <1>3, <2>2, RecordFacts
  <2>4. q = Here + size + 1
    <3>1. ~(q <= Here + size)
      BY <1>2, <1>3, <2>3
    <3>2. ~(Here + size + 1 <= q - 1)
      <4>1. PICK i : i = Here + size + 1
        OBVIOUS
      <4>2. trace.bytes[i] = EOR
        BY <1>4, <1>6, <4>1, Zenon
      <4>3. trace.bytes[i] = EOR /\ i \in Nat /\ i >= Here + 1
        BY <1>2, <1>3, <4>2, <4>1
      <4>4. ~(i \in Here + 1 .. q - 1)
        BY <2>3, <4>3
      <4> QED BY <1>3, <2>3, <4>1, <4>3, <4>4
    <3> QED BY <1>2, <1>3, <2>3, <3>1, <3>2
  <2>5. k \in DOMAIN trace.messages /\ MessageOk(trace, k, trace.messages[k]) /\ trace.messages[k].at = Here
    BY <1>1, <1>3, <1>4, <2>2, <2>4, WholeRecord
  <2>6. PICK m : m = trace.messages[k]
    OBVIOUS
  <2>7. m.at = Here /\ m.dumps = << >> /\ Place(trace, k + 1) = q
    <3>1. << MsgText >> \notin Ioctls /\ << MsgText >> # NvDump
      BY Types DEF Ioctls, NvDump, MsgText, Ioctl
    <3>2. m.dumps = << >>
      BY <1>3, <2>5, <2>6, <3>1 DEF MessageOk
    <3>3. Len(m.dumps) = 0
      BY <3>2
    <3> QED BY <2>2, <2>5, <2>6, <3>2, <3>3 DEF MessageOk, EndOf
  <2>8. Meaning(trace, m) = << Chunk(idx, size), << >> >>
    <3>1. Chunk(idx, size) = Piece(trace, Here + (idx - idx), size)
      BY <1>2, ChunkSeen
    <3>2. Here + (idx - idx) = Here /\ q - Here - 1 = size
      BY <1>2, <1>3, <2>4
    <3>3. Meaning(trace, m) = << Piece(trace, Here, q - Here - 1), Dumped(trace, m) >>
      BY <1>3, <2>2, <2>7, MeaningParts
    <3>4. Dumped(trace, m) = << >>
      BY <2>7, NoneDumped
    <3> QED BY <3>1, <3>2, <3>3, <3>4
  <2>9. << MsgText >> \notin NoHandler
    BY Types
  <2>10. out' = Append(out, Meaning(trace, m))
    BY <2>1, <2>8 DEF Deliver
  <2>11. Here + (size + 1) = Place(trace, k + 1) /\ size + 1 \in Nat
    BY <1>2, <1>3, <2>4, <2>7
  <2> QED BY <1>1, <1>2, <1>3, <2>1, <2>5, <2>6, <2>9, <2>10, <2>11, NextMessage
<1>7. CASE buf[idx + size] # EOR
  <2>1. pc' = "text" /\ size' = size + 1 /\ UNCHANGED << mtrace, buffer, out >>
    BY <1>5, <1>7 DEF TextByte, Ask
  <2>2. UNCHANGED << trace, pos, idx, len >>
    BY <2>1 DEF mtrace, buffer
  <2>3. Here' = Here
    BY <2>2 DEF Here
  <2>4. \A i \in Here + 1 .. Here + (size + 1) : trace.bytes[i] # EOR
    <3> SUFFICES ASSUME NEW i \in Here + 1 .. Here + (size + 1) PROVE trace.bytes[i] # EOR
      OBVIOUS
    <3>1. i \in Here + 1 .. Here + size \/ i = Here + size + 1
      BY <1>2, <1>3
    <3> QED BY <1>3, <1>4, <1>7, <3>1
  <2>5. Measured'
    BY <1>3, <2>1, <2>2, <2>3, <2>4 DEF Measured
  <2> QED BY <1>1, <2>1, <2>5, StillDecoding DEF Looks
<1> QED BY <1>6, <1>7

(* A record that is not cut fits in the buffer. *)
LEMMA RecordFits ==
  ASSUME NEW k, Handled(k), trace \in Traces, Here \in DOMAIN trace.ends, ~Truncated(trace)
  PROVE  /\ trace.ends[Here] <= trace.length /\ trace.ends[Here] - Here <= BufSize
         /\ k \in DOMAIN trace.messages /\ trace.messages[k].at = Here
         /\ MessageOk(trace, k, trace.messages[k])
<1>1. trace.ends[Here] <= trace.length
  BY NotCut
<1>2. /\ k \in DOMAIN trace.messages /\ trace.messages[k].at = Here
      /\ MessageOk(trace, k, trace.messages[k])
  BY <1>1, WholeRecord
<1> QED BY <1>1, <1>2 DEF MessageOk

LEMMA CountedPlace ==
  ASSUME WInv, SInv, CountedMessage, NEW k, Decoding(k)
  PROVE  SInv'
<1>1. Loaded /\ pc = "counted" /\ Handled(k) /\ Measured
  BY DEF CountedMessage, At, Decoding
<1>2. want.size = size /\ want.prefix = 0 /\ size >= 2
  BY <1>1 DEF WInv, Asked
<1>3. idx \in Nat /\ len \in Nat /\ idx + size <= len /\ idx <= len /\ size \in Nat
  <2>1. idx \in Nat /\ len \in Nat /\ want.size \in Nat /\ want.prefix \in Nat /\ idx + want.prefix + want.size <= len
    BY <1>1, AtFacts
  <2> QED BY <1>2, <2>1
<1>4. /\ Here \in Nat /\ trace \in Traces /\ Here \in DOMAIN trace.ends /\ BufSize \in Nat
      /\ TypeIn(trace, Here) \in Counted /\ size = StructSize(TypeIn(trace, Here)) + 1
  BY <1>1, <1>3, HereFacts DEF Measured
<1>5. PICK j, s : j = size - 2 /\ s = StructSize(TypeIn(trace, Here))
  OBVIOUS
<1>6. s \in {2, 3} /\ s = j + 1 /\ j \in Nat /\ idx + j < len /\ idx + size - 2 = idx + j
  <2>1. s = 2 \/ s = 3
    BY <1>5, FirstByte
  <2> QED BY <1>3, <1>4, <1>5, <2>1
<1>7. PICK n : n = buf[idx + size - 2]
  OBVIOUS
<1>8. n = trace.bytes[Here + s]
  <2>1. buf[idx + j] = trace.bytes[Here + j + 1]
    BY <1>6, Seen
  <2>2. Here + j + 1 = Here + s
    BY <1>4, <1>6
  <2> QED BY <1>6, <1>7, <2>1, <2>2
<1>9. n \in Nat
  <2>1. buf[idx + j] \in Byte
    BY <1>1, <1>6, AtFacts
  <2> QED BY <1>6, <1>7, <2>1 DEF Byte
<1>10. trace.ends[Here] = Here + size + n
  <2>1. trace.ends[Here] = Here + s + 1 + n
    BY <1>4, <1>5, <1>8, RecordFacts
  <2> QED BY <1>4, <1>5, <1>6, <1>9, <2>1
<1>11. CASE Sane(n)
  <2>1. pc' = "whole" /\ size' = size + n /\ UNCHANGED << mtrace, buffer, out >>
    BY <1>7, <1>11 DEF CountedMessage, Ask
  <2>2. UNCHANGED << trace, pos, idx, len >>
    BY <2>1 DEF mtrace, buffer
  <2>3. Here' = Here
    BY <2>2 DEF Here
  <2>4. Here + (size + n) = trace.ends[Here]
    BY <1>3, <1>4, <1>9, <1>10
  <2>5. Measured'
    BY <1>4, <2>1, <2>2, <2>3, <2>4 DEF Measured
  <2> QED BY <1>1, <2>1, <2>5, StillDecoding DEF Looks
<1>12. CASE ~Sane(n)
  <2>1. Fail
    BY <1>7, <1>12 DEF CountedMessage
  <2>2. Truncated(trace)
    <3> SUFFICES ASSUME ~Truncated(trace) PROVE FALSE
      OBVIOUS
    <3>1. trace.ends[Here] - Here <= BufSize
      BY <1>1, <1>4, RecordFits
    <3> QED BY <1>2, <1>3, <1>4, <1>9, <1>10, <1>12, <3>1 DEF Sane
  <2> QED BY <1>1, <2>1, <2>2, FailKeeps DEF Fail, Ended
<1> QED BY <1>11, <1>12

LEMMA WholePlace ==
  ASSUME WInv, SInv, WholeMessage, NEW k, Decoding(k)
  PROVE  SInv'
<1>1. Loaded /\ pc = "whole" /\ Handled(k) /\ Measured
  BY DEF WholeMessage, At, Decoding
<1>2. want.size = size /\ want.prefix = 0 /\ size >= 2 /\ omit = 0
  BY <1>1 DEF WInv, Asked
<1>3. idx \in Nat /\ len \in Nat /\ idx + size <= len /\ idx <= len /\ size \in Nat /\ idx + 0 = idx
  <2>1. idx \in Nat /\ len \in Nat /\ want.size \in Nat /\ want.prefix \in Nat /\ idx + want.prefix + want.size <= len
    BY <1>1, AtFacts
  <2> QED BY <1>2, <2>1
<1>4. /\ Here \in Nat /\ trace \in Traces /\ Here \in DOMAIN trace.ends /\ BufSize \in Nat
      /\ TypeIn(trace, Here) \in Fixed \cup Counted /\ Here + size = trace.ends[Here]
      /\ pos \in Nat /\ Here + (len - idx) = pos /\ pos <= trace.length /\ trace.length \in Nat
      /\ Kept = len - idx
  BY <1>1, <1>3, HereFacts DEF Measured
<1>5. TypeAt(idx) = TypeIn(trace, Here)
  <2>1. idx + 0 < len /\ idx + 0 + 1 < len
    BY <1>2, <1>3
  <2>2. TypeAt(idx + 0) = TypeIn(trace, Here + 0)
    BY <2>1, TypeSeen
  <2>3. Here + 0 = Here
    BY <1>4
  <2> QED BY <1>3, <2>2, <2>3
<1>6. EorAt(idx + size - 1)
  <2>1. PICK j, i : j = size - 1 /\ i = Here + j + 1
    OBVIOUS
  <2>2. j \in Nat /\ idx + j < len /\ idx + size - 1 = idx + j /\ i = trace.ends[Here]
    BY <1>2, <1>3, <1>4, <2>1
  <2>3. buf[idx + j] = trace.bytes[i]
    BY <2>1, <2>2, Seen
  <2>4. trace.bytes[trace.ends[Here]] = EOR
    BY <1>4, RecordFacts
  <2> QED BY <2>2, <2>3, <2>4 DEF EorAt
<1>7. trace.ends[Here] <= trace.length
  BY <1>3, <1>4
<1>8. k \in DOMAIN trace.messages /\ trace.messages[k].at = Here /\ MessageOk(trace, k, trace.messages[k])
  BY <1>1, <1>4, <1>7, WholeRecord
<1>9. PICK m : m = trace.messages[k]
  OBVIOUS
<1>10. CASE TypeIn(trace, Here) \in Ioctls
  <2>1. /\ ctl' = idx /\ pfx' = size /\ args' = << >> /\ pc' = "dump"
        /\ UNCHANGED << mtrace, buffer, size, dump, out >>
    BY <1>5, <1>6, <1>10 DEF WholeMessage, Ask
  <2>2. UNCHANGED << trace, pos, idx, len, omit >>
    BY <2>1 DEF mtrace, buffer, dump
  <2>3. Here' = Here /\ Kept' = Kept
    BY <2>2 DEF Here, Kept
  <2>4. Measured' /\ Found'
    BY <1>4, <2>1, <2>2, <2>3 DEF Measured, Found
  <2>5. Len(args') = 0 /\ size' = size
    BY <2>1
  <2>6. Candidate' = trace.ends[Here]
    <3>1. Candidate' = Here + size + 0
      BY <1>2, <2>1, <2>2, <2>3 DEF Candidate
    <3> QED BY <1>3, <1>4, <3>1
  <2>7. trace.ends[Here] \in DOMAIN trace.ends \cup {trace.length}
    BY <1>4, <1>7, RecordFacts
  <2>8. trace.ends[Here] <= LimitOf(m, 0)
    <3>1. EndOf(trace, m, 0) = trace.ends[Here]
      BY <1>8, <1>9 DEF EndOf
    <3>2. /\ MessageOk(trace, k, m) /\ TypeIn(trace, m.at) \in Ioctls
          /\ 0 \in Nat /\ 0 <= Len(m.dumps) /\ 0 < MaxArgs
      BY <1>8, <1>9, <1>10, SizesAssumption DEF MessageOk
    <3>3. EndOf(trace, m, 0) <= LimitOf(m, 0)
      BY <3>2, NextLimit
    <3> QED BY <3>1, <3>3
  <2>9. Gathering(k)'
    <3>1. /\ trace'.messages[k] = m /\ k \in DOMAIN trace'.messages
          /\ TypeIn(trace', Here') \in Ioctls /\ Here' + size' = trace'.ends[Here'] /\ size' <= Kept'
      BY <1>3, <1>4, <1>8, <1>9, <1>10, <2>1, <2>2, <2>3
    <3>2. Len(args') <= Len(m.dumps) /\ Here' + pfx' = EndOf(trace', m, Len(args'))
      <4>1. Len(m.dumps) \in Nat /\ m.at = Here
        BY <1>8, <1>9 DEF MessageOk
      <4>2. EndOf(trace, m, 0) = trace.ends[Here]
        BY <4>1 DEF EndOf
      <4>3. Here' + pfx' = trace.ends[Here]
        BY <1>4, <2>1, <2>3
      <4> QED BY <2>2, <2>5, <4>1, <4>2, <4>3
    <3>3. Collected(m)'
      BY <2>1 DEF Collected
    <3>4. Candidate' \in DOMAIN trace'.ends \cup {trace'.length} /\ Candidate' <= LimitOf(m, 0)
      BY <2>2, <2>6, <2>7, <2>8
    <3>5. Limit(m)' = LimitOf(m, 0)
      BY <2>5 DEF Limit, LimitOf
    <3>6. ctl' = idx' /\ pc' = "dump" /\ pc' # "omit"
      BY <2>1, <2>2
    <3>7. Collected(trace.messages[k])' /\ Limit(trace.messages[k])' = LimitOf(m, 0)
      BY <1>9, <2>2, <3>3, <3>5
    <3> QED BY <1>9, <3>1, <3>2, <3>4, <3>6, <3>7 DEF Gathering
  <2> QED BY <1>1, <2>1, <2>4, <2>9, StillDecoding DEF Looks
<1>11. CASE TypeIn(trace, Here) \notin Ioctls
  <2>1. Finish(size) /\ IF TypeIn(trace, Here) \in NoHandler THEN UNCHANGED out
                        ELSE Deliver(Chunk(idx, size), << >>)
    BY <1>5, <1>6, <1>11 DEF WholeMessage
  <2>2. m.at = Here /\ m.dumps = << >> /\ Place(trace, k + 1) = trace.ends[Here]
    <3>1. TypeIn(trace, Here) # NvDump
      BY <1>4, Types
    <3>2. m.dumps = << >> /\ m.at = Here
      BY <1>8, <1>9, <1>11, <3>1 DEF MessageOk
    <3>3. Len(m.dumps) = 0
      BY <3>2
    <3> QED BY <1>8, <1>9, <3>2, <3>3 DEF MessageOk, EndOf
  <2>3. Meaning(trace, m) = << Chunk(idx, size), << >> >>
    <3>1. Chunk(idx, size) = Piece(trace, Here + (idx - idx), size)
      BY <1>3, ChunkSeen
    <3>2. Here + (idx - idx) = Here /\ trace.ends[Here] - Here = size
      BY <1>3, <1>4
    <3>3. Meaning(trace, m) = << Piece(trace, Here, trace.ends[Here] - Here), Dumped(trace, m) >>
      BY <1>4, <2>2, MeaningParts
    <3>4. Dumped(trace, m) = << >>
      BY <2>2, NoneDumped
    <3> QED BY <3>1, <3>2, <3>3, <3>4
  <2>4. IF TypeIn(trace, Here) \in NoHandler THEN out' = out ELSE out' = Append(out, Meaning(trace, m))
    BY <2>1, <2>3 DEF Deliver
  <2>5. Here + size = Place(trace, k + 1)
    BY <1>4, <2>2
  <2> QED BY <1>1, <1>3, <1>8, <1>9, <2>1, <2>4, <2>5, NextMessage
<1> QED BY <1>10, <1>11

-----------------------------------------------------------------------------
(* What a step does to the place in the dumps.                              *)

(* A refill moves the message that is measured, and its dumps with it; the  *)
(* arguments that were collected are of use only if it did not move.        *)
LEMMA GatheringStays ==
  ASSUME NEW k, Gathering(k), UNCHANGED << trace, size, pfx, args, ctl >>, Here' = Here,
         size <= Kept => size <= Kept', ctl = idx' => idx' = idx, ctl # idx' => idx' = 0,
         pc' \in Looks =>
           /\ Candidate' \in DOMAIN trace.ends \cup {trace.length}
           /\ Candidate' <= Limit(trace.messages[k]),
         pc' = "omit" /\ ctl = idx' => nv' = At0',
         pc' \in {"len", "data"} /\ ctl = idx' => d' = idx' + Before',
         pc' = "again" => Len(args) = Len(trace.messages[k].dumps)
  PROVE  Gathering(k)'
<1>1. PICK m : m = trace.messages[k]
  OBVIOUS
<1>2. Collected(m)
  BY <1>1 DEF Gathering
<1>3. Collected(m)'
  BY <1>2 DEF Collected
<1>4. Limit(m)' = Limit(m)
  BY DEF Limit
<1>5. Collected(trace.messages[k])' /\ Limit(trace.messages[k])' = Limit(trace.messages[k])
  BY <1>1, <1>3, <1>4
<1>6. size' <= Kept' /\ Here' + size' = trace'.ends[Here'] /\ Here' + pfx' = EndOf(trace', trace'.messages[k], Len(args'))
  BY DEF Gathering
<1> QED BY <1>5, <1>6 DEF Gathering

LEMMA AloneFacts ==
  ASSUME WInv, Alone, idx <= len
  PROVE  /\ Candidate = Here /\ Before = 0 /\ At0 = idx /\ Kind = NvDump
         /\ 2 <= Kept /\ idx < len /\ buf[idx] = NV
<1>1. idx \in Nat /\ len \in Nat /\ Here \in Nat /\ Kept = len - idx
      /\ pfx = 0 /\ omit = 0 /\ 2 <= Kept /\ TypeIn(trace, Here) = NvDump
  BY HereFacts DEF Alone
<1>2. idx < len /\ idx + 0 < len /\ idx + 0 = idx /\ Here + 0 + 1 = Here + 1
  BY <1>1
<1>3. buf[idx + 0] = trace.bytes[Here + 0 + 1]
  BY <1>2, Seen
<1>4. trace.bytes[Here + 1] = NV
  BY <1>1, FirstByte
<1>5. Kind = NvDump
  BY <1>1 DEF Kind, NvDump
<1> QED BY <1>1, <1>2, <1>3, <1>4, <1>5 DEF Candidate, Before, At0

(* What an ioctl that looks for its next dump can have come to. *)
LEMMA GatheringFacts ==
  ASSUME WInv, NEW k, Handled(k), Gathering(k), pc \in Looks, idx <= len,
         NEW m, m = trace.messages[k]
  PROVE  /\ MessageOk(trace, k, m) /\ m.at = Here /\ Kind = DumpOf(trace, m)
         /\ PassedOver(trace, m) = IF Kind = NvDump THEN Omitted ELSE {}
         /\ TypeIn(trace, Here) \in Ioctls
         /\ Candidate \in Nat /\ Candidate + 1 - Here <= BufSize
         /\ \/ PassedAt(trace, m, Limit(m), Candidate) \/ DumpIsAt(trace, m, Len(args), Candidate)
            \/ (Len(args) = Len(m.dumps) /\ NothingAt(trace, Candidate))
            \/ OtherAt(trace, m, Len(args), Candidate)
<1>1. /\ trace \in Traces /\ Here \in Nat /\ pfx \in Nat /\ omit \in Nat
      /\ Candidate = Here + pfx + omit /\ Candidate \in Nat /\ Len(args) \in Nat
  BY HereFacts
<1>2. /\ k \in DOMAIN trace.messages /\ TypeIn(trace, Here) \in Ioctls /\ Len(args) <= Len(m.dumps)
      /\ Here + pfx = EndOf(trace, m, Len(args))
      /\ Candidate \in DOMAIN trace.ends \cup {trace.length} /\ Candidate <= Limit(m)
  BY DEF Gathering
<1>3. MessageOk(trace, k, m)
  BY <1>1, <1>2, MessageFacts
<1>4. m.at = Here
  BY <1>3 DEF MessageOk, Handled
<1>5. Len(args) < MaxArgs
  BY DEF WInv, Asked
<1>6. EndOf(trace, m, Len(args)) <= Candidate /\ Limit(m) = LimitOf(m, Len(args))
  BY <1>1, <1>2 DEF Limit, LimitOf
<1>7. /\ Candidate \in Nat /\ Candidate + 1 - m.at <= BufSize
      /\ \/ PassedAt(trace, m, Limit(m), Candidate) \/ DumpIsAt(trace, m, Len(args), Candidate)
         \/ (Len(args) = Len(m.dumps) /\ NothingAt(trace, Candidate))
         \/ OtherAt(trace, m, Len(args), Candidate)
  BY <1>1, <1>2, <1>4, <1>5, <1>6, NextDump
<1>8. Kind = DumpOf(trace, m) /\ PassedOver(trace, m) = IF Kind = NvDump THEN Omitted ELSE {}
  BY <1>4, Types DEF Kind, DumpOf, PassedOver, IsOld
<1> QED BY <1>2, <1>3, <1>4, <1>7, <1>8

(* One more look at the same place. *)
LEMMA LookPlace ==
  ASSUME WInv, SInv, idx <= len, NEW k, Decoding(k), pc \in Looks, pc' \in Looks, StillReading, omit' = omit,
         Found', pc' = "omit" => nv' = At0,
         pc' \in {"len", "data"} => d' = idx + Before \/ (pc = "len" /\ d' = d)
  PROVE  SInv'
<1>1. /\ UNCHANGED << mtrace, buffer, out >>
      /\ UNCHANGED << trace, pos, idx, len, size, ctl, pfx, args, omit >>
  BY DEF StillReading, locals, mtrace, buffer
<1>2. Here' = Here /\ Kept' = Kept /\ Candidate' = Candidate /\ Before' = Before
  BY <1>1 DEF Here, Kept, Candidate, Before
<1>3. Handled(k) /\ Measured /\ (Alone \/ Gathering(k))
  BY DEF Decoding, Looks
<1>4. Measured'
  BY <1>1, <1>2, <1>3 DEF Measured, Looks
<1>5. Alone => Alone'
  BY <1>1, <1>2 DEF Alone
<1>6. ASSUME Gathering(k) PROVE Gathering(k)'
  <2>1. /\ Candidate' \in DOMAIN trace.ends \cup {trace.length}
        /\ Candidate' <= Limit(trace.messages[k])
    BY <1>2, <1>6 DEF Gathering
  <2>2. pc' \in {"len", "data"} /\ ctl = idx' => d' = idx' + Before'
    BY <1>1, <1>2, <1>6 DEF Gathering
  <2>3. ctl # idx' => idx' = 0
    BY <1>1, <1>6 DEF Gathering
  <2>4. pc' # "again" /\ (pc' = "omit" => nv' = At0')
    BY <1>1 DEF Looks, At0
  <2> QED BY <1>1, <1>2, <1>6, <2>1, <2>2, <2>3, <2>4, GatheringStays
<1> QED BY <1>1, <1>3, <1>4, <1>5, <1>6, StillDecoding

(* There are no more dumps. *)
LEMMA NoMorePlace ==
  ASSUME WInv, SInv, idx <= len, NEW k, Decoding(k), Gathering(k), pc \in Looks,
         NoMoreDumps, UNCHANGED << trace, locals, out >>, Here' = Here,
         size <= Kept => size <= Kept', ctl = idx' => idx' = idx, ctl # idx' => idx' = 0,
         Len(args) = Len(trace.messages[k].dumps)
  PROVE  SInv'
<1>1. pc' = "again" /\ UNCHANGED << trace, size, ctl, pfx, args, out >>
  BY DEF NoMoreDumps, Ask, locals
<1>2. Handled(k)' /\ Here \in DOMAIN trace.ends
  <2>1. Handled(k) /\ Measured
    BY DEF Decoding, Looks
  <2> QED BY <1>1, <2>1 DEF Handled, Measured
<1>3. Measured'
  BY <1>1, <1>2 DEF Measured
<1>4. Gathering(k)'
  BY <1>1, GatheringStays DEF Looks
<1>5. Decoding(k)'
  BY <1>1, <1>2, <1>3, <1>4 DEF Decoding, Looks
<1>6. k \in 1 .. Len(trace'.messages) + 1 /\ pc' \notin Ended /\ Stopped' /\ IsPrefix(out', trace'.sent)
  BY <1>1 DEF Decoding, Handled, Stopped, SInv, Ended
<1> QED BY <1>5, <1>6 DEF SInv

LEMMA NoMoreLoadedPlace ==
  ASSUME WInv, SInv, idx <= len, NEW k, Decoding(k), Gathering(k), pc \in Looks,
         NoMoreDumps, StillReading, Len(args) = Len(trace.messages[k].dumps)
  PROVE  SInv'
<1>1. UNCHANGED << trace, pos, idx, len, locals, out >>
  BY DEF StillReading, mtrace, buffer
<1>2. Here' = Here /\ Kept' = Kept /\ UNCHANGED << trace, locals, out >>
  BY <1>1 DEF Here, Kept
<1>3. ctl # idx' => idx' = 0
  BY <1>1 DEF Gathering
<1> QED BY <1>1, <1>2, <1>3, NoMorePlace

(* What is loaded of the record that may be a dump. *)
LEMMA CandidateSeen ==
  ASSUME WInv, idx <= len, NEW j \in Nat, idx + Before + j < len
  PROVE  /\ At0 \in Nat /\ At0 + j \in Nat /\ At0 + j < len
         /\ buf[At0 + j] = trace.bytes[Candidate + j + 1] /\ Candidate + j + 1 <= trace.length
<1>1. /\ idx \in Nat /\ len \in Nat /\ pfx \in Nat /\ omit \in Nat /\ Before = pfx + omit /\ Here \in Nat
      /\ Candidate = Here + pfx + omit
  BY HereFacts
<1>2. PICK i : i = Before + j
  OBVIOUS
<1>3. i \in Nat /\ idx + i < len /\ At0 + j = idx + i /\ Here + i + 1 = Candidate + j + 1 /\ At0 \in Nat
  BY <1>1, <1>2 DEF At0
<1>4. buf[idx + i] = trace.bytes[Here + i + 1] /\ Here + i + 1 <= trace.length
  BY <1>3, Seen
<1> QED BY <1>1, <1>3, <1>4

LEMMA CandidateType ==
  ASSUME WInv, idx <= len, idx + Before + 1 < len
  PROVE  TypeAt(At0) = TypeIn(trace, Candidate)
<1>1. /\ idx \in Nat /\ len \in Nat /\ pfx \in Nat /\ omit \in Nat /\ Before = pfx + omit /\ Here \in Nat
      /\ Candidate = Here + pfx + omit
  BY HereFacts
<1>2. PICK i : i = Before
  OBVIOUS
<1>3. i \in Nat /\ idx + i < len /\ idx + i + 1 < len /\ At0 = idx + i /\ Here + i = Candidate
  BY <1>1, <1>2 DEF At0
<1>4. TypeAt(idx + i) = TypeIn(trace, Here + i)
  BY <1>3, TypeSeen
<1> QED BY <1>3, <1>4

(* What holds at each look. *)
LEMMA LookFacts ==
  ASSUME WInv, NEW k, Decoding(k), pc \in Looks, Loaded
  PROVE  /\ idx <= len /\ Handled(k) /\ Here \in DOMAIN trace.ends /\ (Alone \/ Gathering(k)) /\ Found
         /\ trace \in Traces /\ Candidate \in Nat /\ trace.length \in Nat /\ BufSize \in Nat
         /\ idx \in Nat /\ len \in Nat /\ Before \in Nat /\ want.size \in Nat /\ want.prefix \in Nat
         /\ size1 \in Nat /\ idx + want.prefix + want.size <= len
         /\ Alone => Candidate \in DOMAIN trace.ends
         /\ Candidate < trace.length => Candidate \in DOMAIN trace.ends
         /\ trace.bytes[Here + 1] = buf[idx]
<1>1. idx \in Nat /\ len \in Nat /\ want.size \in Nat /\ want.prefix \in Nat
      /\ idx + want.prefix + want.size <= len
  BY AtFacts
<1>2. idx <= len
  BY <1>1
<1>3. /\ trace \in Traces /\ Candidate \in Nat /\ trace.length \in Nat /\ BufSize \in Nat
      /\ pfx \in Nat /\ omit \in Nat /\ size1 \in Nat /\ Before = pfx + omit /\ Here \in Nat
  BY <1>2, HereFacts
<1>4. Handled(k) /\ Here \in DOMAIN trace.ends /\ (Alone \/ Gathering(k)) /\ Found
  BY DEF Decoding, Measured, Looks
<1>5. Alone => Candidate \in DOMAIN trace.ends
  BY <1>2, <1>4, AloneFacts
<1>6. Candidate < trace.length => Candidate \in DOMAIN trace.ends
  BY <1>3, <1>4, <1>5 DEF Gathering
<1>7. trace.bytes[Here + 1] = buf[idx]
  <2>1. idx + 0 < len /\ idx + 0 = idx /\ Here + 0 + 1 = Here + 1
    BY <1>1, <1>3 DEF WInv, Asked, Looks, Ended
  <2>2. buf[idx + 0] = trace.bytes[Here + 0 + 1]
    BY <2>1, Seen
  <2> QED BY <2>1, <2>2
<1> QED BY <1>1, <1>2, <1>3, <1>4, <1>5, <1>6, <1>7

(* Whether there is a dump is told by the types of the message and of what  *)
(* is found.                                                                *)
LEMMA NoDumpThere ==
  ASSUME WInv, NEW k, Decoding(k), pc \in Looks, Loaded, Gathering(k),
         Candidate \in DOMAIN trace.ends, TypeIn(trace, Candidate) # Kind,
         ~(Kind = NvDump /\ TypeIn(trace, Candidate) \in Omitted)
  PROVE  Len(args) = Len(trace.messages[k].dumps)
<1>1. idx <= len /\ Handled(k)
  BY LookFacts
<1>2. PICK m : m = trace.messages[k]
  OBVIOUS
<1>3. /\ Kind = DumpOf(trace, m) /\ PassedOver(trace, m) = IF Kind = NvDump THEN Omitted ELSE {}
      /\ \/ PassedAt(trace, m, Limit(m), Candidate) \/ DumpIsAt(trace, m, Len(args), Candidate)
         \/ (Len(args) = Len(m.dumps) /\ NothingAt(trace, Candidate))
         \/ OtherAt(trace, m, Len(args), Candidate)
  BY <1>1, <1>2, GatheringFacts
<1>4. ~PassedAt(trace, m, Limit(m), Candidate)
  BY <1>3 DEF PassedAt
<1>5. ~DumpIsAt(trace, m, Len(args), Candidate)
  BY <1>3 DEF DumpIsAt
<1> QED BY <1>2, <1>3, <1>4, <1>5 DEF OtherAt

LEMMA DumpTypePlace ==
  ASSUME WInv, SInv, DumpType, NEW k, Decoding(k)
  PROVE  SInv'
<1>1. Loaded /\ pc = "dump" /\ pc \in Looks /\ StillReading
  BY DEF DumpType, At, Looks
<1>2. /\ idx <= len /\ Here \in DOMAIN trace.ends /\ (Alone \/ Gathering(k))
      /\ trace \in Traces /\ Candidate \in Nat /\ idx \in Nat /\ len \in Nat /\ trace.length \in Nat
      /\ Before \in Nat /\ idx + want.prefix + want.size <= len /\ trace.bytes[Here + 1] = buf[idx]
      /\ Candidate < trace.length => Candidate \in DOMAIN trace.ends
  BY <1>1, LookFacts
<1>3. want.size = 1 /\ want.prefix = Before
  BY <1>1 DEF WInv, AskedOfDump
<1>4. idx + Before + 0 < len
  BY <1>2, <1>3
<1>5. buf[At0] = trace.bytes[Candidate + 1] /\ Candidate < trace.length /\ Candidate \in DOMAIN trace.ends
  <2>1. /\ buf[At0 + 0] = trace.bytes[Candidate + 0 + 1] /\ Candidate + 0 + 1 <= trace.length
        /\ At0 \in Nat
    BY <1>2, <1>4, CandidateSeen
  <2>2. At0 + 0 = At0 /\ Candidate + 0 + 1 = Candidate + 1
    BY <1>2, <2>1
  <2> QED BY <1>2, <2>1, <2>2
<1>6. UNCHANGED << trace, pos, idx, len, pfx >>
  BY <1>1 DEF StillReading, mtrace, buffer, locals
<1>7. Kind = (IF buf[idx] = Ioctl THEN << Dump >> ELSE NvDump)
  BY <1>2, FirstByte DEF Kind
<1>8. Ioctl # NV /\ Dump # NV
  BY DEF Ioctl, NV, Dump
<1>9. CASE buf[idx] = Ioctl /\ buf[At0] = Dump
  <2>1. pc' = "str" /\ size1' = 2 /\ omit' = omit
    BY <1>9 DEF DumpType, Ask
  <2>2. Candidate' = Candidate /\ Kind' = Kind
    BY <1>6, <2>1 DEF Candidate, Here, Kind
  <2>3. TypeIn(trace, Candidate) = << Dump >> /\ PrefixSize(trace, Candidate) = 2
    BY <1>5, <1>9, FirstByte DEF PrefixSize
  <2>4. Found'
    BY <1>5, <1>6, <1>7, <1>9, <2>1, <2>2, <2>3 DEF Found
  <2> QED BY <1>1, <1>2, <2>1, <2>4, LookPlace DEF Looks
<1>10. CASE buf[idx] = NV /\ buf[At0] = NV
  <2>1. pc' = "sub" /\ omit' = omit
    BY <1>8, <1>10 DEF DumpType, Ask, dump
  <2>2. Candidate' = Candidate /\ Kind' = Kind
    BY <1>6, <2>1 DEF Candidate, Here, Kind
  <2>3. Found'
    BY <1>5, <1>6, <1>7, <1>8, <1>10, <2>1, <2>2 DEF Found
  <2> QED BY <1>1, <1>2, <2>1, <2>3, LookPlace DEF Looks
<1>11. CASE ~(buf[idx] = Ioctl /\ buf[At0] = Dump) /\ ~(buf[idx] = NV /\ buf[At0] = NV)
  <2>1. NoMoreDumps
    BY <1>11 DEF DumpType
  <2>2. ~Alone
    <3> SUFFICES ASSUME Alone PROVE FALSE
      OBVIOUS
    <3>1. buf[idx] = NV /\ At0 = idx
      BY <1>2, AloneFacts
    <3> QED BY <1>11, <3>1
  <2>3. Gathering(k)
    BY <1>2, <2>2
  <2>4. TypeIn(trace, Candidate) # Kind
    <3>1. TypeIn(trace, Candidate) = << Dump >> => buf[At0] = Dump
      BY <1>5, FirstByte
    <3>2. TypeIn(trace, Candidate) = NvDump => buf[At0] = NV
      BY <1>5, FirstByte
    <3>3. TypeIn(trace, Here) \in Ioctls
      BY <2>3 DEF Gathering
    <3>4. buf[idx] # Ioctl => buf[idx] = NV
      BY <1>2, <3>3, FirstByte
    <3> QED BY <1>7, <1>11, <3>1, <3>2, <3>4
  <2>5. ~(Kind = NvDump /\ TypeIn(trace, Candidate) \in Omitted)
    <3>1. TypeIn(trace, Candidate) \in Omitted => buf[At0] = NV
      BY <1>5, FirstByte
    <3>2. TypeIn(trace, Here) \in Ioctls
      BY <2>3 DEF Gathering
    <3>3. buf[idx] # Ioctl => buf[idx] = NV
      BY <1>2, <3>2, FirstByte
    <3>4. NvDump # << Dump >>
      BY Types
    <3> QED BY <1>7, <1>11, <3>1, <3>3, <3>4
  <2>6. Len(args) = Len(trace.messages[k].dumps)
    BY <1>1, <1>5, <2>3, <2>4, <2>5, NoDumpThere
  <2> QED BY <1>1, <1>2, <2>1, <2>3, <2>6, NoMoreLoadedPlace
<1> QED BY <1>9, <1>10, <1>11

LEMMA SubtypePlace ==
  ASSUME WInv, SInv, DumpSubtype, NEW k, Decoding(k)
  PROVE  SInv'
<1>1. Loaded /\ pc = "sub" /\ pc \in Looks /\ StillReading
  BY DEF DumpSubtype, At, Looks
<1>2. /\ idx <= len /\ (Alone \/ Gathering(k)) /\ Found
      /\ trace \in Traces /\ idx \in Nat /\ len \in Nat
      /\ Before \in Nat /\ idx + want.prefix + want.size <= len
  BY <1>1, LookFacts
<1>3. want.size = 2 /\ want.prefix = Before
  BY <1>1 DEF WInv, AskedOfDump
<1>4. TypeAt(At0) = TypeIn(trace, Candidate)
  <2>1. idx + Before + 1 < len
    BY <1>2, <1>3
  <2> QED BY <1>2, <2>1, CandidateType
<1>5. Candidate \in DOMAIN trace.ends /\ Kind = NvDump
  BY <1>1, <1>2 DEF Found
<1>6. UNCHANGED << trace, pos, idx, len, pfx >>
  BY <1>1 DEF StillReading, mtrace, buffer, locals
<1>7. PICK t : t = TypeIn(trace, Candidate)
  OBVIOUS
<1>8. CASE t = NvDump
  <2>1. pc' = "head" /\ omit' = omit
    BY <1>4, <1>7, <1>8 DEF DumpSubtype, Ask, dump
  <2>2. Candidate' = Candidate /\ Kind' = Kind
    BY <1>6, <2>1 DEF Candidate, Here, Kind
  <2>3. Found'
    BY <1>5, <1>6, <1>7, <1>8, <2>1, <2>2 DEF Found
  <2> QED BY <1>1, <1>2, <2>1, <2>3, LookPlace DEF Looks
<1>9. CASE t # NvDump /\ t \in Omitted
  <2>1. pc' = "omit" /\ omit' = omit /\ want'.size = StructSize(t) + 1 /\ nv' = At0
    BY <1>4, <1>7, <1>9 DEF DumpSubtype, Ask, dump
  <2>2. Candidate' = Candidate /\ Kind' = Kind
    BY <1>6, <2>1 DEF Candidate, Here, Kind
  <2>3. Found'
    BY <1>5, <1>6, <1>7, <1>9, <2>1, <2>2 DEF Found
  <2> QED BY <1>1, <1>2, <2>1, <2>3, LookPlace DEF Looks
<1>10. CASE t # NvDump /\ t \notin Omitted
  <2>1. NoMoreDumps
    BY <1>4, <1>7, <1>10 DEF DumpSubtype
  <2>2. ~Alone
    <3> SUFFICES ASSUME Alone PROVE FALSE
      OBVIOUS
    <3>1. TypeIn(trace, Here) = NvDump /\ Candidate = Here
      BY <1>2, AloneFacts DEF Alone
    <3> QED BY <1>7, <1>10, <3>1
  <2>3. Len(args) = Len(trace.messages[k].dumps)
    BY <1>1, <1>2, <1>5, <1>7, <1>10, <2>2, NoDumpThere
  <2> QED BY <1>1, <1>2, <2>1, <2>2, <2>3, NoMoreLoadedPlace
<1> QED BY <1>8, <1>9, <1>10

LEMMA OmitPlace ==
  ASSUME WInv, SInv, ~astray, OmitMessage, NEW k, Decoding(k)
  PROVE  IF astray' THEN AstrayInv' ELSE SInv'
<1>1. Loaded /\ pc = "omit" /\ pc \in Looks
  BY DEF OmitMessage, At, Looks
<1>2. /\ idx <= len /\ (Alone \/ Gathering(k)) /\ Found /\ Handled(k) /\ Here \in DOMAIN trace.ends
      /\ trace \in Traces /\ idx \in Nat /\ len \in Nat /\ Candidate \in Nat /\ trace.length \in Nat
      /\ Before \in Nat /\ want.size \in Nat /\ idx + want.prefix + want.size <= len
  BY <1>1, LookFacts
<1>3. want.prefix = Before
  BY <1>1 DEF WInv, AskedOfDump
<1>4. /\ Candidate \in DOMAIN trace.ends /\ Kind = NvDump /\ TypeIn(trace, Candidate) \in Omitted
      /\ want.size = StructSize(TypeIn(trace, Candidate)) + 1
  BY <1>1, <1>2 DEF Found
<1>5. PICK w, q : w = want.size /\ q = trace.ends[Candidate]
  OBVIOUS
<1>6. q = Candidate + w /\ w >= 3 /\ trace.bytes[q] = EOR
  <2>1. TypeIn(trace, Candidate) \in Fixed
    BY <1>4, Types
  <2>2. q = Candidate + StructSize(TypeIn(trace, Candidate)) + 1 /\ trace.bytes[q] = EOR
    BY <1>2, <1>4, <1>5, <2>1, RecordFacts
  <2>3. StructSize(TypeIn(trace, Candidate)) = 2 \/ StructSize(TypeIn(trace, Candidate)) = 3
    BY FirstByte
  <2>4. PICK s : s = StructSize(TypeIn(trace, Candidate))
    OBVIOUS
  <2> QED BY <1>2, <1>4, <1>5, <2>2, <2>3, <2>4
<1>7. buf[At0 + w - 1] = trace.bytes[q] /\ q <= trace.length /\ At0 \in Nat
  <2>1. PICK j : j = w - 1
    OBVIOUS
  <2>2. j \in Nat /\ idx + Before + j < len
    BY <1>2, <1>3, <1>5, <1>6, <2>1
  <2>3. /\ buf[At0 + j] = trace.bytes[Candidate + j + 1] /\ Candidate + j + 1 <= trace.length
        /\ At0 \in Nat
    BY <1>2, <2>2, CandidateSeen
  <2>4. Candidate + j + 1 = q /\ At0 + w - 1 = At0 + j
    BY <1>2, <1>5, <1>6, <2>1, <2>3
  <2> QED BY <2>3, <2>4
<1>8. /\ omit' = omit + w /\ UNCHANGED << mtrace, buffer, locals, out >>
      /\ IF buf[nv + 1] = NvDump[2]
         THEN pc' = "head" /\ astray' = (astray \/ nv # At0)
         ELSE pc' = "dump" /\ UNCHANGED astray
  BY <1>5, <1>6, <1>7 DEF OmitMessage, EorAt, Ask, StillReading
<1>9. UNCHANGED << trace, pos, idx, len, size, pfx, ctl, args >>
  BY <1>8 DEF mtrace, buffer, locals
<1>10. Here' = Here /\ Kept' = Kept
  BY <1>9 DEF Here, Kept
<1>11. Candidate' = q
  <2>1. Candidate' = Here + pfx + (omit + w)
    BY <1>8, <1>9, <1>10 DEF Candidate
  <2>2. Here \in Nat /\ pfx \in Nat /\ omit \in Nat /\ Candidate = Here + pfx + omit
    BY <1>2, HereFacts
  <2> QED BY <1>2, <1>5, <1>6, <2>1, <2>2
<1>12. ~Alone
  <2> SUFFICES ASSUME Alone PROVE FALSE
    OBVIOUS
  <2>1. TypeIn(trace, Here) = NvDump /\ Candidate = Here
    BY <1>2, AloneFacts DEF Alone
  <2> QED BY <1>4, <2>1, Types
<1>13. nv = At0 => buf[nv + 1] # NvDump[2]
  <2>1. TypeAt(At0) = TypeIn(trace, Candidate)
    <3>1. idx + Before + 1 < len
      BY <1>2, <1>3, <1>5, <1>6
    <3> QED BY <1>2, <3>1, CandidateType
  <2>2. TypeIn(trace, Candidate) \in { NvDestroy, NvMmap }
    BY <1>4 DEF Omitted, NoHandler
  <2>3. TypeAt(At0) # << buf[At0] >> /\ TypeAt(At0) # << buf[At0], NvDump[2] >>
    BY <2>1, <2>2 DEF NvDump, NvDestroy, NvMmap
  <2> QED BY <2>3 DEF TypeAt
<1>14. CASE astray'
  <2>1. pc' = "head" /\ nv # At0
    BY <1>8, <1>14
  <2>2. /\ Gathering(k) /\ ctl # idx /\ idx = 0
        /\ TypeIn(trace, Here) \in Ioctls /\ Here + size = trace.ends[Here]
    BY <1>1, <1>2, <1>12, <2>1 DEF Gathering
  <2>3. Strays(k)'
    BY <1>2, <1>8, <1>9, <1>10, <2>1, <2>2 DEF Strays, Handled, Looks
  <2>4. k \in 1 .. Len(trace'.messages) + 1 /\ IsPrefix(out', trace'.sent)
    BY <1>2, <1>8, <1>9 DEF Handled, SInv
  <2> QED BY <1>14, <2>1, <2>3, <2>4 DEF AstrayInv
<1>15. CASE ~astray'
  <2>1. pc' = "dump"
    BY <1>8, <1>13, <1>15
  <2>2. PICK m : m = trace.messages[k]
    OBVIOUS
  <2>3. q <= Limit(m)
    <3>1. /\ Kind = DumpOf(trace, m) /\ PassedOver(trace, m) = IF Kind = NvDump THEN Omitted ELSE {}
          /\ \/ PassedAt(trace, m, Limit(m), Candidate) \/ DumpIsAt(trace, m, Len(args), Candidate)
             \/ (Len(args) = Len(m.dumps) /\ NothingAt(trace, Candidate))
             \/ OtherAt(trace, m, Len(args), Candidate)
      BY <1>1, <1>2, <1>12, <2>2, GatheringFacts
    <3>2. ~DumpIsAt(trace, m, Len(args), Candidate)
      BY <1>4, <3>1, Types DEF DumpIsAt
    <3>3. ~NothingAt(trace, Candidate)
      BY <1>2, <1>5, <1>6, <1>7 DEF NothingAt
    <3>4. ~OtherAt(trace, m, Len(args), Candidate)
      BY <1>4, <3>1 DEF OtherAt
    <3>5. PassedAt(trace, m, Limit(m), Candidate)
      BY <3>1, <3>2, <3>3, <3>4
    <3> QED BY <1>5, <3>5 DEF PassedAt
  <2>4. q \in DOMAIN trace.ends \cup {trace.length}
    BY <1>2, <1>4, <1>5, <1>7, RecordFacts
  <2>5. Gathering(k)'
    <3>1. ctl # idx' => idx' = 0
      BY <1>2, <1>9, <1>12 DEF Gathering
    <3>2. /\ Candidate' \in DOMAIN trace.ends \cup {trace.length}
          /\ Candidate' <= Limit(trace.messages[k])
      BY <1>11, <2>2, <2>3, <2>4
    <3> QED BY <1>2, <1>8, <1>9, <1>10, <1>12, <2>1, <3>1, <3>2, GatheringStays DEF Looks
  <2>6. Measured' /\ Found'
    BY <1>2, <1>8, <1>9, <1>10, <2>1 DEF Measured, Found
  <2>7. SInv'
    BY <1>2, <1>8, <2>5, <2>6, <2>1, StillDecoding DEF Looks
  <2> QED BY <1>15, <2>7
<1> QED BY <1>14, <1>15

(* A dump that is not cut fits in the buffer, behind its ioctl, and is the  *)
(* next one that belongs to it.                                             *)
LEMMA DumpFits ==
  ASSUME WInv, NEW k, Decoding(k), pc \in {"head", "str", "len", "data"}, idx <= len,
         trace.ends[Candidate] <= trace.length
  PROVE  /\ trace.ends[Candidate] - Here <= BufSize
         /\ Gathering(k) => DumpIsAt(trace, trace.messages[k], Len(args), Candidate)
<1>1. /\ pc \in Looks /\ Handled(k) /\ Measured /\ (Alone \/ Gathering(k)) /\ Found
  BY DEF Decoding, Looks
<1>2. trace \in Traces /\ Candidate \in Nat /\ trace.length \in Nat /\ Here \in Nat
  BY HereFacts
<1>3. Candidate \in DOMAIN trace.ends /\ TypeIn(trace, Candidate) = Kind
  BY <1>1 DEF Found
<1>4. CASE Alone
  <2>1. Candidate = Here
    BY <1>4, AloneFacts
  <2>2. MessageOk(trace, k, trace.messages[k]) /\ trace.messages[k].at = Here
    BY <1>1, <1>2, <1>3, <2>1, WholeRecord
  <2>3. trace.ends[Candidate] - Here <= BufSize
    BY <2>1, <2>2 DEF MessageOk
  <2>4. ~Gathering(k)
    <3>1. NvDump \notin Ioctls
      BY Types
    <3> QED BY <1>4, <3>1 DEF Alone, Gathering
  <2> QED BY <2>3, <2>4
<1>5. CASE Gathering(k)
  <2>1. PICK m : m = trace.messages[k]
    OBVIOUS
  <2>2. /\ m.at = Here /\ Kind = DumpOf(trace, m)
        /\ PassedOver(trace, m) = IF Kind = NvDump THEN Omitted ELSE {}
        /\ \/ PassedAt(trace, m, Limit(m), Candidate) \/ DumpIsAt(trace, m, Len(args), Candidate)
           \/ (Len(args) = Len(m.dumps) /\ NothingAt(trace, Candidate))
           \/ OtherAt(trace, m, Len(args), Candidate)
    BY <1>1, <1>5, <2>1, GatheringFacts
  <2>3. Kind \notin Omitted
    BY Types DEF Kind
  <2>4. ~PassedAt(trace, m, Limit(m), Candidate) /\ ~OtherAt(trace, m, Len(args), Candidate)
    BY <1>3, <2>2, <2>3 DEF PassedAt, OtherAt
  <2>5. ~NothingAt(trace, Candidate)
    <3>1. Candidate < trace.length /\ trace.ends[Candidate] \in Nat
      BY <1>2, <1>3, RecordFacts
    <3> QED BY <1>2, <3>1 DEF NothingAt
  <2>6. DumpIsAt(trace, m, Len(args), Candidate)
    BY <2>2, <2>4, <2>5
  <2> QED BY <2>1, <2>2, <2>6 DEF DumpIsAt
<1> QED BY <1>1, <1>4, <1>5

(* What the code finds out about a dump. *)
LEMMA DumpShape ==
  ASSUME WInv, NEW k, Decoding(k), pc \in {"head", "str", "len", "data"}, idx <= len,
         NEW p, p = PrefixSize(trace, Candidate)
  PROVE  /\ Candidate \in DOMAIN trace.ends /\ TypeIn(trace, Candidate) = Kind /\ Kind \in Dumps
         /\ p \in Nat /\ p >= 2 /\ (Kind = NvDump => p >= 4)
         /\ trace.bytes[Candidate + p + 1] \in Nat
         /\ trace.ends[Candidate] = Candidate + p + trace.bytes[Candidate + p + 1] + 2
         /\ ~Truncated(trace) => trace.ends[Candidate] <= trace.length /\ trace.ends[Candidate] - Here <= BufSize
<1>1. trace \in Traces /\ Found
  BY HereFacts DEF Decoding, Looks
<1>2. Candidate \in DOMAIN trace.ends /\ TypeIn(trace, Candidate) = Kind
  BY <1>1 DEF Found
<1>3. Kind \in Dumps
  BY DEF Kind, Dumps
<1>4. ~Truncated(trace) => trace.ends[Candidate] <= trace.length
  BY <1>1, <1>2, NotCut
<1>5. ~Truncated(trace) => trace.ends[Candidate] - Here <= BufSize
  BY <1>4, DumpFits
<1> QED BY <1>1, <1>2, <1>3, <1>4, <1>5, RecordFacts, LengthFacts

LEMMA HeadPlace ==
  ASSUME WInv, SInv, DumpHead, NEW k, Decoding(k)
  PROVE  SInv'
<1>1. Loaded /\ pc = "head" /\ pc \in Looks
  BY DEF DumpHead, At, Looks
<1>2. /\ idx <= len /\ Found /\ Candidate \in Nat /\ idx \in Nat /\ len \in Nat /\ BufSize \in Nat
      /\ Before \in Nat /\ idx + want.prefix + want.size <= len /\ Here \in Nat
      /\ Candidate = Here + pfx + omit /\ pfx \in Nat /\ omit \in Nat
  BY <1>1, LookFacts, HereFacts
<1>3. want.size = 4 /\ want.prefix = Before
  BY <1>1 DEF WInv, AskedOfDump
<1>4. PICK n : n = buf[At0 + 3]
  OBVIOUS
<1>5. n = trace.bytes[Candidate + 4]
  <2>1. idx + Before + 3 < len
    BY <1>2, <1>3
  <2>2. buf[At0 + 3] = trace.bytes[Candidate + 3 + 1]
    BY <1>2, <2>1, CandidateSeen
  <2>3. Candidate + 3 + 1 = Candidate + 4
    BY <1>2
  <2> QED BY <1>4, <2>2, <2>3
<1>6. Kind = NvDump /\ TypeIn(trace, Candidate) = NvDump /\ Candidate \in DOMAIN trace.ends
  BY <1>1, <1>2 DEF Found
<1>7. PrefixSize(trace, Candidate) = 4 + n
  <2>1. NV # Dump
    BY DEF NV, Dump
  <2> QED BY <1>5, <1>6, <2>1, FirstByte DEF PrefixSize
<1>8. CASE Sane(n)
  <2>1. pc' = "str" /\ size1' = 4 + n /\ omit' = omit /\ StillReading
    BY <1>4, <1>8 DEF DumpHead, Ask, ReadOn
  <2>2. UNCHANGED << trace, pos, idx, len, pfx >>
    BY <2>1 DEF StillReading, mtrace, buffer, locals
  <2>3. Candidate' = Candidate /\ Kind' = Kind
    BY <2>1, <2>2 DEF Candidate, Here, Kind
  <2>4. Found'
    BY <1>6, <1>7, <2>1, <2>2, <2>3 DEF Found
  <2> QED BY <1>1, <1>2, <2>1, <2>4, LookPlace DEF Looks
<1>9. CASE ~Sane(n)
  <2>1. Fail
    BY <1>4, <1>9 DEF DumpHead
  <2>2. Truncated(trace)
    <3> SUFFICES ASSUME ~Truncated(trace) PROVE FALSE
      OBVIOUS
    <3>1. PICK p, x : p = PrefixSize(trace, Candidate) /\ x = trace.bytes[Candidate + p + 1]
      OBVIOUS
    <3>2. /\ p \in Nat /\ x \in Nat /\ p >= 4
          /\ trace.ends[Candidate] = Candidate + p + x + 2 /\ trace.ends[Candidate] - Here <= BufSize
      BY <1>1, <1>2, <1>6, <3>1, DumpShape
    <3>3. n \in Nat
      <4>1. Candidate + 4 \in 1 .. trace.length
        <5>1. idx + Before + 3 < len
          BY <1>2, <1>3
        <5>2. Candidate + 3 + 1 <= trace.length
          BY <1>2, <5>1, CandidateSeen
        <5> QED BY <1>2, <5>2, HereFacts
      <4>2. trace.bytes[Candidate + 4] \in Byte
        BY <1>2, <4>1, HereFacts, TraceTypes
      <4> QED BY <1>5, <4>2 DEF Byte
    <3> QED BY <1>2, <1>7, <1>9, <3>1, <3>2, <3>3 DEF Sane
  <2> QED BY <1>1, <2>1, <2>2, FailKeeps DEF Fail, Ended
<1> QED BY <1>8, <1>9

LEMMA StrPlace ==
  ASSUME WInv, SInv, DumpStr, NEW k, Decoding(k)
  PROVE  SInv'
<1>1. Loaded /\ pc = "str" /\ pc \in Looks /\ pc' = "len" /\ UNCHANGED << omit, size1 >> /\ StillReading /\ d' = At0
  BY DEF DumpStr, At, Looks, Ask, ReadOn
<1>2. /\ idx <= len /\ Found /\ idx \in Nat /\ pfx \in Nat /\ omit \in Nat /\ Before = pfx + omit
  BY <1>1, LookFacts, HereFacts
<1>3. UNCHANGED << trace, pos, idx, len, pfx >>
  BY <1>1 DEF StillReading, mtrace, buffer, locals
<1>4. Candidate' = Candidate /\ Kind' = Kind
  BY <1>1, <1>3 DEF Candidate, Here, Kind
<1>5. Found'
  BY <1>1, <1>2, <1>3, <1>4 DEF Found
<1>6. d' = idx + Before
  BY <1>1, <1>2 DEF At0
<1> QED BY <1>1, <1>2, <1>5, <1>6, LookPlace DEF Looks

LEMMA LengthPlace ==
  ASSUME WInv, SInv, DumpLength, NEW k, Decoding(k)
  PROVE  SInv'
<1>1. Loaded /\ pc = "len" /\ pc \in Looks
  BY DEF DumpLength, At, Looks
<1>2. /\ idx <= len /\ Found /\ Candidate \in Nat /\ idx \in Nat /\ len \in Nat /\ BufSize \in Nat
      /\ Before \in Nat /\ idx + want.prefix + want.size <= len /\ Here \in Nat
      /\ Candidate = Here + pfx + omit /\ pfx \in Nat /\ omit \in Nat
  BY <1>1, LookFacts, HereFacts
<1>3. want.size = 1 /\ want.prefix = Before + size1
  BY <1>1 DEF WInv, AskedOfDump
<1>4. PICK n : n = buf[At0 + size1]
  OBVIOUS
<1>5. /\ Candidate \in DOMAIN trace.ends /\ TypeIn(trace, Candidate) = Kind
      /\ size1 = PrefixSize(trace, Candidate) /\ size1 \in Nat
  BY <1>1, <1>2, HereFacts DEF Found
<1>6. n = trace.bytes[Candidate + size1 + 1]
  <2>1. idx + Before + size1 < len
    BY <1>2, <1>3, <1>5
  <2> QED BY <1>2, <1>4, <1>5, <2>1, CandidateSeen
<1>7. /\ n \in Nat /\ size1 >= 2 /\ trace.ends[Candidate] = Candidate + size1 + n + 2
      /\ ~Truncated(trace) => trace.ends[Candidate] - Here <= BufSize
  BY <1>1, <1>2, <1>5, <1>6, DumpShape
<1>8. CASE Sane(n)
  <2>1. pc' = "data" /\ want'.size = n + 2 /\ UNCHANGED << omit, size1, d >> /\ StillReading
    BY <1>4, <1>8 DEF DumpLength, Ask, ReadOn, dump
  <2>2. UNCHANGED << trace, pos, idx, len, pfx >>
    BY <2>1 DEF StillReading, mtrace, buffer, locals
  <2>3. Candidate' = Candidate /\ Kind' = Kind
    BY <2>1, <2>2 DEF Candidate, Here, Kind
  <2>4. Found'
    BY <1>5, <1>6, <2>1, <2>2, <2>3 DEF Found
  <2> QED BY <1>1, <1>2, <2>1, <2>4, LookPlace DEF Looks
<1>9. CASE ~Sane(n)
  <2>1. Fail
    BY <1>4, <1>9 DEF DumpLength
  <2>2. Truncated(trace)
    <3> SUFFICES ASSUME ~Truncated(trace) PROVE FALSE
      OBVIOUS
    <3> QED BY <1>2, <1>5, <1>7, <1>9 DEF Sane
  <2> QED BY <1>1, <2>1, <2>2, FailKeeps DEF Fail, Ended
<1> QED BY <1>8, <1>9

(* The two parts of a dump, as the pointers show them. *)
LEMMA ArgumentSeen ==
  ASSUME WInv, idx <= len, NEW j \in Nat, NEW r, r = Here + j, r \in DOMAIN trace.ends,
         TypeIn(trace, r) \in Dumps, idx + (trace.ends[r] - Here) <= len,
         NEW n, n = PrefixSize(trace, r)
  PROVE  Argument([d |-> idx + j, size1 |-> n, b |-> idx + j + n]) = DumpParts(trace, r)
<1>1. /\ idx \in Nat /\ len \in Nat /\ Here \in Nat /\ trace \in Traces
  BY HereFacts
<1>2. PICK x, e : x = trace.bytes[r + n + 1] /\ e = trace.ends[r]
  OBVIOUS
<1>3. n \in Nat /\ x \in Nat /\ e = r + n + x + 2 /\ r \in Nat /\ e \in Nat
  BY <1>1, <1>2, RecordFacts, LengthFacts
<1>4. /\ idx + j \in Nat /\ idx <= idx + j /\ idx + j + n \in Nat /\ idx <= idx + j + n
      /\ idx + j + n + (1 + x) <= len /\ 1 + x \in Nat /\ idx + j + n <= len
      /\ Here + (idx + j - idx) = r /\ Here + (idx + j + n - idx) = r + n
      /\ e - 1 - (r + n) = 1 + x
  BY <1>1, <1>2, <1>3
<1>5. Chunk(idx + j, n) = Piece(trace, r, n)
  <2>1. PICK a : a = idx + j
    OBVIOUS
  <2>2. a \in Nat /\ idx <= a /\ a + n <= len /\ Here + (a - idx) = r
    BY <1>1, <1>3, <1>4, <2>1
  <2>3. Chunk(a, n) = Piece(trace, Here + (a - idx), n)
    BY <1>3, <2>2, ChunkSeen
  <2> QED BY <2>1, <2>2, <2>3
<1>6. buf[idx + j + n] = x
  <2>1. PICK i : i = j + n
    OBVIOUS
  <2>2. i \in Nat /\ idx + i < len /\ idx + i = idx + j + n /\ Here + i + 1 = r + n + 1
    BY <1>1, <1>3, <1>4, <2>1
  <2>3. buf[idx + i] = trace.bytes[Here + i + 1]
    BY <2>2, Seen
  <2> QED BY <1>2, <2>2, <2>3
<1>7. Chunk(idx + j + n, 1 + x) = Piece(trace, r + n, 1 + x)
  <2>1. PICK a, y : a = idx + j + n /\ y = 1 + x
    OBVIOUS
  <2>2. a \in Nat /\ idx <= a /\ y \in Nat /\ a + y <= len /\ Here + (a - idx) = r + n
    BY <1>1, <1>3, <1>4, <2>1
  <2>3. Chunk(a, y) = Piece(trace, Here + (a - idx), y)
    BY <2>2, ChunkSeen
  <2> QED BY <2>1, <2>2, <2>3
<1>8. DumpParts(trace, r) = << Piece(trace, r, n), Piece(trace, r + n, 1 + x) >>
  BY <1>2, <1>4 DEF DumpParts
<1>9. Argument([d |-> idx + j, size1 |-> n, b |-> idx + j + n])
        = << Chunk(idx + j, n), Chunk(idx + j + n, 1 + buf[idx + j + n]) >>
  BY DEF Argument
<1> QED BY <1>5, <1>6, <1>7, <1>8, <1>9

(* The dump that was loaded. *)
LEMMA DataFacts ==
  ASSUME WInv, pc = "data", Loaded, NEW k, Decoding(k), NEW total, total = Before + size1 + want.size
  PROVE  /\ idx <= len /\ total \in Nat /\ idx + total <= len /\ Here \in Nat /\ trace \in Traces
         /\ Candidate \in DOMAIN trace.ends /\ TypeIn(trace, Candidate) = Kind /\ Kind \in Dumps
         /\ trace.ends[Candidate] = Here + total /\ Here + total <= trace.length
         /\ EorAt(idx + total - 1) /\ Before \in Nat /\ Candidate = Here + Before /\ At0 = idx + Before
         /\ size1 = PrefixSize(trace, Candidate) /\ size1 \in Nat /\ total >= 2 /\ Before <= total
<1>1. pc \in Looks
  BY DEF Looks
<1>2. /\ idx <= len /\ Found /\ Candidate \in Nat /\ idx \in Nat /\ len \in Nat
      /\ Before \in Nat /\ idx + want.prefix + want.size <= len /\ Here \in Nat
      /\ Candidate = Here + pfx + omit /\ pfx \in Nat /\ omit \in Nat /\ Before = pfx + omit
      /\ size1 \in Nat /\ pos \in Nat /\ Here + (len - idx) = pos /\ pos <= trace.length
      /\ trace.length \in Nat /\ trace \in Traces
  BY <1>1, LookFacts, HereFacts
<1>3. want.prefix = Before + size1
  BY DEF WInv, AskedOfDump
<1>4. size1 = PrefixSize(trace, Candidate) /\ want.size = trace.bytes[Candidate + size1 + 1] + 2
  BY <1>2 DEF Found
<1>5. PICK x : x = trace.bytes[Candidate + size1 + 1]
  OBVIOUS
<1>6. /\ x \in Nat /\ trace.ends[Candidate] = Candidate + size1 + x + 2 /\ Candidate \in DOMAIN trace.ends
      /\ TypeIn(trace, Candidate) = Kind /\ Kind \in Dumps
  BY <1>2, <1>4, <1>5, DumpShape
<1>7. PICK w, b : w = want.size /\ b = Before
  OBVIOUS
<1>8. w = x + 2 /\ b = pfx + omit /\ idx + (b + size1) + w <= len /\ total = b + size1 + w /\ b \in Nat
  BY <1>2, <1>3, <1>4, <1>5, <1>7
<1>9. /\ total \in Nat /\ total >= 2 /\ idx + total <= len /\ trace.ends[Candidate] = Here + total
      /\ Here + total <= trace.length /\ Candidate = Here + b /\ b <= total
  BY <1>2, <1>6, <1>8
<1>10. EorAt(idx + total - 1)
  <2>1. PICK j, i : j = total - 1 /\ i = Here + j + 1
    OBVIOUS
  <2>2. j \in Nat /\ idx + j < len /\ idx + total - 1 = idx + j /\ i = trace.ends[Candidate]
    BY <1>2, <1>9, <2>1
  <2>3. buf[idx + j] = trace.bytes[i]
    BY <2>1, <2>2, Seen
  <2>4. trace.bytes[trace.ends[Candidate]] = EOR
    BY <1>2, <1>6, RecordFacts
  <2> QED BY <2>2, <2>3, <2>4 DEF EorAt
<1>11. At0 = idx + Before
  BY <1>2 DEF At0
<1> QED BY <1>2, <1>4, <1>6, <1>7, <1>9, <1>10, <1>11

(* A dump of its own is a message. *)
LEMMA AloneData ==
  ASSUME WInv, SInv, pc = "data", Loaded, NEW k, Decoding(k), Alone,
         NEW total, total = Before + size1 + want.size, d = idx, Finish(total),
         Deliver(<< >>, << Argument([d |-> d, size1 |-> size1, b |-> At0 + size1]) >>)
  PROVE  SInv'
<1>1. /\ idx <= len /\ total \in Nat /\ idx + total <= len /\ Here \in Nat /\ trace \in Traces
      /\ Candidate \in DOMAIN trace.ends /\ trace.ends[Candidate] = Here + total
      /\ Here + total <= trace.length /\ At0 = idx + Before
      /\ size1 = PrefixSize(trace, Candidate)
  BY DataFacts
<1>2. Candidate = Here /\ Before = 0 /\ At0 = idx
  BY <1>1, AloneFacts
<1>3. TypeIn(trace, Here) = NvDump /\ Handled(k) /\ idx \in Nat
  BY <1>1, HereFacts DEF Alone, Decoding
<1>4. PICK m : m = trace.messages[k]
  OBVIOUS
<1>5. k \in DOMAIN trace.messages /\ m.at = Here /\ MessageOk(trace, k, m)
  BY <1>1, <1>2, <1>3, <1>4, WholeRecord
<1>6. m.dumps = << Here >>
  BY <1>3, <1>5, Types DEF MessageOk
<1>7. Place(trace, k + 1) = Here + total
  <2>1. Len(m.dumps) = 1 /\ m.dumps[1] = Here
    BY <1>6
  <2>2. Place(trace, k + 1) = EndOf(trace, m, Len(m.dumps))
    BY <1>5 DEF MessageOk
  <2> QED BY <1>1, <1>2, <2>1, <2>2 DEF EndOf
<1>8. Argument([d |-> d, size1 |-> size1, b |-> At0 + size1]) = DumpParts(trace, Here)
  <2>1. 0 \in Nat /\ Here = Here + 0 /\ idx + 0 = idx
    BY <1>1, <1>3
  <2>2. NvDump \in Dumps
    BY DEF Dumps
  <2>3. idx + (trace.ends[Here] - Here) <= len
    <3>1. PICK e : e = trace.ends[Here]
      OBVIOUS
    <3>2. e = Here + total /\ total \in Nat /\ Here \in Nat /\ idx \in Nat /\ idx + total <= len
      BY <1>1, <1>2, <1>3, <3>1
    <3>3. idx + (e - Here) <= len
      BY <3>2
    <3> QED BY <3>1, <3>3
  <2>4. Argument([d |-> idx + 0, size1 |-> size1, b |-> idx + 0 + size1]) = DumpParts(trace, Here)
    BY <1>1, <1>2, <1>3, <2>1, <2>3, <2>2, ArgumentSeen
  <2> QED BY <1>2, <2>1, <2>4
<1>9. Meaning(trace, m) = << << >>, << DumpParts(trace, Here) >> >>
  <2>1. Meaning(trace, m) = << << >>, Dumped(trace, m) >>
    BY <1>3, <1>5, MeaningParts
  <2>2. Dumped(trace, m) = << DumpParts(trace, Here) >>
    BY <1>6 DEF Dumped
  <2> QED BY <2>1, <2>2
<1>10. out' = Append(out, Meaning(trace, m))
  BY <1>8, <1>9 DEF Deliver
<1>11. NvDump \notin NoHandler
  BY Types
<1> QED BY <1>1, <1>3, <1>4, <1>5, <1>7, <1>10, <1>11, NextMessage

(* A dump of an ioctl is one more of its arguments. *)
LEMMA GatheringData ==
  ASSUME WInv, SInv, pc = "data", Loaded, NEW k, Decoding(k), Gathering(k),
         NEW total, total = Before + size1 + want.size,
         args' = Append(args, [d |-> d, size1 |-> size1, b |-> At0 + size1]), pfx' = total,
         IF Len(args') = MaxArgs THEN pc' = "again" ELSE pc' = "dump",
         omit' = 0, UNCHANGED << mtrace, buffer, size, ctl, out >>
  PROVE  SInv'
<1>1. /\ idx <= len /\ total \in Nat /\ idx + total <= len /\ Here \in Nat /\ trace \in Traces
      /\ Candidate \in DOMAIN trace.ends /\ trace.ends[Candidate] = Here + total
      /\ Here + total <= trace.length /\ At0 = idx + Before /\ Candidate = Here + Before
      /\ size1 = PrefixSize(trace, Candidate) /\ Before \in Nat /\ Before <= total
  BY DataFacts
<1>2. pc \in Looks /\ Handled(k) /\ Here \in DOMAIN trace.ends /\ idx \in Nat
      /\ Len(args) < MaxArgs /\ args \in Seq([d : Index, size1 : Nat, b : Index])
      /\ pfx \in Nat /\ omit \in Nat /\ Before = pfx + omit
  BY <1>1, HereFacts DEF Decoding, Measured, Looks, WInv, TypeOK, Asked
<1>3. PICK n, m, r : n = Len(args) /\ m = trace.messages[k] /\ r = Candidate
  OBVIOUS
<1>4. DumpIsAt(trace, m, n, r)
  BY <1>1, <1>3, DumpFits
<1>5. /\ n < Len(m.dumps) /\ r = m.dumps[n + 1] /\ r \in DOMAIN trace.ends
      /\ TypeIn(trace, r) = DumpOf(trace, m)
  BY <1>4 DEF DumpIsAt
<1>6. MessageOk(trace, k, m) /\ TypeIn(trace, m.at) \in Ioctls /\ Len(m.dumps) \in Nat /\ Len(m.dumps) <= MaxArgs
  <2>1. MessageOk(trace, k, m) /\ m.at = Here /\ TypeIn(trace, Here) \in Ioctls
    BY <1>1, <1>2, <1>3, GatheringFacts
  <2> QED BY <2>1 DEF MessageOk, WithDumps
<1>7. n \in Nat /\ Len(args') = n + 1 /\ MaxArgs \in Nat
  BY <1>2, <1>3, SizesAssumption
<1>8. UNCHANGED << trace, pos, idx, len, size, ctl, out >>
  BY DEF mtrace, buffer
<1>9. Here' = Here /\ Kept' = Kept
  BY <1>8 DEF Here, Kept
<1>10. EndOf(trace, m, n + 1) = Here + total
  BY SMTT(30), <1>1, <1>3, <1>5, <1>7 DEF EndOf
<1>11. Collected(m)'
  <2>1. Collected(m)
    BY <1>3 DEF Gathering
  <2> SUFFICES ASSUME NEW i \in DOMAIN args'
               PROVE  /\ Here <= m.dumps[i] /\ trace.ends[m.dumps[i]] <= Here + total
                      /\ ctl = idx =>
                           LET at == idx + (m.dumps[i] - Here)
                               p == PrefixSize(trace, m.dumps[i])
                           IN args'[i] = [d |-> at, size1 |-> p, b |-> at + p]
    BY <1>8, <1>9, Zenon DEF Collected
  <2>2. CASE i \in DOMAIN args
    <3>1. args'[i] = args[i]
      BY <1>2, <2>2
    <3>2. /\ Here <= m.dumps[i] /\ trace.ends[m.dumps[i]] <= Here + pfx
          /\ ctl = idx =>
               LET at == idx + (m.dumps[i] - Here)
                   p == PrefixSize(trace, m.dumps[i])
               IN args[i] = [d |-> at, size1 |-> p, b |-> at + p]
      BY <2>1, <2>2 DEF Collected
    <3>3. trace.ends[m.dumps[i]] \in Nat
      <4>1. i \in DOMAIN m.dumps
        BY SMTT(30), <1>2, <1>3, <1>5, <1>6, <2>2 DEF MessageOk
      <4>2. m.dumps[i] \in DOMAIN trace.ends
        BY <1>6, <4>1 DEF MessageOk, WithDumps, Complete
      <4> QED BY <1>1, <4>2, RecordFacts
    <3>4. pfx <= total
      <4>1. Before <= total /\ total \in Nat
        BY <1>1
      <4>2. pfx \in Nat /\ omit \in Nat /\ Before = pfx + omit
        BY <1>2
      <4> QED BY <4>1, <4>2
    <3>5. trace.ends[m.dumps[i]] <= Here + total
      <4>1. PICK e : e = trace.ends[m.dumps[i]]
        OBVIOUS
      <4>2. e \in Nat /\ e <= Here + pfx
        BY <3>2, <3>3, <4>1
      <4>3. e <= Here + total
        BY <1>1, <1>2, <3>4, <4>2
      <4> QED BY <4>1, <4>3
    <3> QED BY <3>1, <3>2, <3>5
  <2>3. CASE i \notin DOMAIN args
    <3>1. i = n + 1 /\ args'[i] = [d |-> d, size1 |-> size1, b |-> At0 + size1]
      BY <1>2, <1>3, <1>7, <2>3
    <3>2. m.dumps[i] = Candidate
      BY <1>3, <1>5, <3>1
    <3>3. ctl = idx => d = idx + Before
      BY DEF Gathering
    <3>4. idx + (Candidate - Here) = idx + Before /\ Here <= Candidate /\ Here + total <= Here + total
      BY <1>1, <1>2
    <3> QED BY <1>1, <3>1, <3>2, <3>3, <3>4
  <2> QED BY <2>2, <2>3
<1>12. n + 1 <= Len(m.dumps) /\ (pc' = "again" => n + 1 = Len(m.dumps)) /\ (pc' = "dump" => n + 1 < MaxArgs)
       /\ pc' \in {"again", "dump"}
  BY <1>5, <1>6, <1>7
<1>13. pc' = "dump" => Candidate' \in DOMAIN trace.ends \cup {trace.length} /\ Candidate' <= LimitOf(m, n + 1)
  <2>1. Candidate' = Here + total
    <3>1. Candidate' = Here + total + 0
      BY <1>9 DEF Candidate
    <3> QED BY <1>1, <3>1
  <2>2. Here + total \in DOMAIN trace.ends \cup {trace.length}
    BY <1>1, RecordFacts
  <2>3. n + 1 < MaxArgs => EndOf(trace, m, n + 1) <= LimitOf(m, n + 1)
    BY <1>6, <1>7, <1>12, NextLimit
  <2> QED BY <1>10, <1>12, <2>1, <2>2, <2>3
<1>14. Gathering(k)'
  <2>1. /\ k \in DOMAIN trace.messages /\ TypeIn(trace, Here) \in Ioctls
        /\ Here + size = trace.ends[Here] /\ size <= Kept /\ (ctl # idx => idx = 0)
    BY DEF Gathering
  <2>2. Limit(m)' = LimitOf(m, n + 1)
    BY <1>7 DEF Limit, LimitOf
  <2>3. Collected(trace.messages[k])' /\ Limit(trace.messages[k])' = LimitOf(m, n + 1)
    BY <1>3, <1>8, <1>11, <2>2
  <2>4. pc' \notin {"omit", "len", "data"} /\ (pc' \in Looks => pc' = "dump")
    BY <1>12 DEF Looks
  <2>5. Here' + pfx' = EndOf(trace', trace'.messages[k], Len(args')) /\ Len(args') <= Len(trace'.messages[k].dumps)
    BY <1>3, <1>7, <1>8, <1>9, <1>10, <1>12
  <2>6. pc' = "again" => Len(args') = Len(trace'.messages[k].dumps)
    BY <1>3, <1>7, <1>8, <1>12
  <2>7. /\ k \in DOMAIN trace'.messages /\ TypeIn(trace', Here') \in Ioctls
        /\ Here' + size' = trace'.ends[Here'] /\ size' <= Kept' /\ (ctl' # idx' => idx' = 0)
    BY <1>8, <1>9, <2>1
  <2>8. pc' \in Looks =>
          /\ Candidate' \in DOMAIN trace'.ends \cup {trace'.length}
          /\ Candidate' <= Limit(trace.messages[k])'
    BY <1>8, <1>13, <2>3, <2>4
  <2> QED BY <2>3, <2>4, <2>5, <2>6, <2>7, <2>8 DEF Gathering
<1>15. Measured' /\ (pc' \in Looks => Found')
  BY <1>2, <1>8, <1>9, <1>12 DEF Measured, Found, Looks
<1> QED BY <1>2, <1>12, <1>14, <1>15, StillDecoding DEF Looks

LEMMA DataPlace ==
  ASSUME WInv, SInv, DumpData, ~torn', NEW k, Decoding(k)
  PROVE  SInv'
<1> DEFINE total == Before + size1 + want.size
           arg == [d |-> d, size1 |-> size1, b |-> At0 + size1]
<1>1. Loaded /\ pc = "data" /\ (Alone \/ Gathering(k))
  BY DEF DumpData, At, Decoding, Looks
<1>2. EorAt(idx + total - 1)
  BY <1>1, DataFacts
<1>3. Alone => size = 0
  BY DEF Alone
<1>4. Gathering(k) => size # 0
  <2>1. Gathering(k) => Here + size = trace.ends[Here]
    BY DEF Gathering
  <2>2. idx <= len /\ Here \in Nat /\ trace.ends[Here] > Here
    BY <1>1, DataFacts, RecordFacts DEF Decoding, Measured
  <2> QED BY <2>1, <2>2
<1> HIDE DEF total, arg
<1>5. CASE size = 0
  <2>1. Deliver(<< >>, << Argument(arg) >>) /\ Finish(total) /\ torn' = (torn \/ d # idx)
    BY <1>2, <1>5 DEF DumpData, total, arg
  <2>2. d = idx
    BY <2>1
  <2> QED BY <1>1, <1>4, <1>5, <2>1, <2>2, AloneData DEF total, arg
<1>6. CASE size # 0
  <2>1. /\ args' = Append(args, arg) /\ pfx' = total
        /\ IF Len(args') = MaxArgs THEN pc' = "again" ELSE pc' = "dump"
        /\ omit' = 0 /\ UNCHANGED << mtrace, buffer, size, ctl, out >>
    BY <1>2, <1>6 DEF DumpData, total, arg, Ask, NoDump
  <2> QED BY <1>1, <1>3, <1>6, <2>1, GatheringData DEF total, arg
<1> QED BY <1>5, <1>6

(* The bytes have moved: the ioctl is measured and its dumps are collected  *)
(* once more.                                                               *)
LEMMA RestartPlace ==
  ASSUME WInv, IsPrefix(out, trace.sent), Again, ctl # idx, NEW k, Handled(k),
         Here \in DOMAIN trace.ends, TypeIn(trace, Here) \in Ioctls, Here + size = trace.ends[Here]
  PROVE  SInv'
<1>1. Loaded /\ pc = "again" /\ want.size = size /\ want.prefix = 0
  BY DEF Again, At, WInv, Asked
<1>2. idx \in Nat /\ len \in Nat /\ idx + size <= len /\ idx <= len
  <2>1. idx \in Nat /\ len \in Nat /\ want.size \in Nat /\ want.prefix \in Nat /\ idx + want.prefix + want.size <= len
    BY <1>1, AtFacts
  <2> QED BY <1>1, <2>1
<1>3. Here \in Nat /\ size \in Nat /\ trace \in Traces /\ TypeIn(trace, Here) \in Counted
  BY <1>2, HereFacts, Types
<1>4. PICK s : s = StructSize(TypeIn(trace, Here))
  OBVIOUS
<1>5. s \in {2, 3} /\ s < size
  <2>1. s = 2 \/ s = 3
    BY <1>4, FirstByte
  <2>2. Here + s < trace.ends[Here]
    BY <1>3, <1>4, LengthFacts
  <2>3. PICK e : e = trace.ends[Here]
    OBVIOUS
  <2>4. e = Here + size /\ Here + s < e
    BY <2>2, <2>3
  <2> QED BY <1>3, <2>1, <2>4
<1>6. TypeAt(idx) = TypeIn(trace, Here)
  <2>1. idx + 0 < len /\ idx + 0 + 1 < len /\ idx + 0 = idx /\ Here + 0 = Here
    BY <1>2, <1>3, <1>5
  <2>2. TypeAt(idx + 0) = TypeIn(trace, Here + 0)
    BY <2>1, TypeSeen
  <2> QED BY <2>1, <2>2
<1>7. pc' = "counted" /\ size' = s + 1 /\ UNCHANGED << mtrace, buffer, out >>
  BY <1>4, <1>6 DEF Again, Ask
<1>8. UNCHANGED << trace, pos, idx, len >>
  BY <1>7 DEF mtrace, buffer
<1>9. Here' = Here
  BY <1>8 DEF Here
<1>10. Measured'
  BY <1>3, <1>4, <1>7, <1>8, <1>9 DEF Measured
<1> QED BY <1>7, <1>10, NowDecoding DEF Looks

LEMMA AgainPlace ==
  ASSUME WInv, SInv, Again, NEW k, Decoding(k)
  PROVE  SInv'
<1>1. Loaded /\ pc = "again" /\ Handled(k) /\ Measured /\ Gathering(k)
  BY DEF Again, At, Decoding, Alone, Looks
<1>2. want.size = size /\ want.prefix = 0 /\ omit = 0 /\ pfx <= Kept
  BY <1>1 DEF WInv, Asked
<1>3. /\ idx \in Nat /\ len \in Nat /\ idx + size <= len /\ idx <= len /\ size \in Nat /\ pfx \in Nat
      /\ Here \in Nat /\ trace \in Traces /\ Kept = len - idx /\ Len(args) \in Nat
      /\ args \in Seq([d : Index, size1 : Nat, b : Index])
  <2>1. idx \in Nat /\ len \in Nat /\ want.size \in Nat /\ want.prefix \in Nat /\ idx + want.prefix + want.size <= len
    BY <1>1, AtFacts
  <2>2. idx <= len /\ idx + size <= len
    BY <1>2, <2>1
  <2> QED BY <2>1, <2>2, HereFacts DEF WInv, TypeOK
<1>4. Here \in DOMAIN trace.ends /\ TypeIn(trace, Here) \in Ioctls /\ TypeIn(trace, Here) \in Counted
      /\ Here + size = trace.ends[Here]
  BY <1>1, Types DEF Measured, Gathering
<1>5. PICK m : m = trace.messages[k]
  OBVIOUS
<1>6. MessageOk(trace, k, m) /\ m.at = Here /\ k \in DOMAIN trace.messages
  <2>1. k \in DOMAIN trace.messages
    BY <1>1 DEF Gathering
  <2>2. MessageOk(trace, k, m)
    BY <1>3, <1>5, <2>1, MessageFacts
  <2> QED BY <1>1, <2>1, <2>2 DEF MessageOk, Handled
<1>7. CASE ctl = idx
  <2>1. Deliver(Chunk(idx, size), [i \in DOMAIN args |-> Argument(args[i])]) /\ Finish(pfx)
    BY <1>7 DEF Again
  <2>2. Len(args) = Len(m.dumps) /\ Collected(m) /\ Here + pfx = EndOf(trace, m, Len(args))
    BY <1>1, <1>5 DEF Gathering
  <2>3. DOMAIN args = DOMAIN m.dumps
    BY <1>3, <1>6, <2>2 DEF MessageOk
  <2>4. ASSUME NEW i \in DOMAIN args PROVE Argument(args[i]) = DumpParts(trace, m.dumps[i])
    <3>1. PICK r, j, n, e : r = m.dumps[i] /\ j = r - Here /\ n = PrefixSize(trace, r) /\ e = trace.ends[r]
      OBVIOUS
    <3>2. Here <= r /\ e <= Here + pfx /\ args[i] = [d |-> idx + j, size1 |-> n, b |-> idx + j + n]
      BY <1>7, <2>2, <2>4, <3>1 DEF Collected
    <3>3. r \in DOMAIN trace.ends /\ TypeIn(trace, r) \in Dumps
      <4>1. r \in DOMAIN trace.ends /\ TypeIn(trace, r) = DumpOf(trace, m)
        BY <1>4, <1>6, <2>3, <2>4, <3>1 DEF MessageOk, WithDumps, Complete
      <4>2. DumpOf(trace, m) \in Dumps
        BY DEF DumpOf, Dumps
      <4> QED BY <4>1, <4>2
    <3>4. r \in Nat /\ e \in Nat
      BY <1>3, <3>1, <3>3, RecordFacts
    <3>5. j \in Nat /\ r = Here + j /\ idx + (e - Here) <= len
      <4>1. /\ Here \in Nat /\ pfx \in Nat /\ len \in Nat /\ idx \in Nat /\ idx + pfx <= len
        BY <1>2, <1>3
      <4>2. j = r - Here /\ Here <= r /\ e <= Here + pfx
        BY <3>1, <3>2
      <4> QED BY <3>4, <4>1, <4>2
    <3>6. idx + (trace.ends[r] - Here) <= len
      BY <3>1, <3>5
    <3>7. Argument([d |-> idx + j, size1 |-> n, b |-> idx + j + n]) = DumpParts(trace, r)
      BY <1>3, <3>1, <3>3, <3>5, <3>6, ArgumentSeen
    <3> QED BY <3>1, <3>2, <3>7
  <2>5. [i \in DOMAIN args |-> Argument(args[i])] = Dumped(trace, m)
    BY <2>3, <2>4 DEF Dumped
  <2>6. Chunk(idx, size) = Piece(trace, Here, trace.ends[Here] - Here)
    <3>1. Chunk(idx, size) = Piece(trace, Here + (idx - idx), size)
      BY <1>3, ChunkSeen
    <3>2. Here + (idx - idx) = Here /\ trace.ends[Here] - Here = size
      BY <1>3, <1>4
    <3> QED BY <3>1, <3>2
  <2>7. Meaning(trace, m) = << Piece(trace, Here, trace.ends[Here] - Here), Dumped(trace, m) >>
    BY <1>4, <1>6, MeaningParts
  <2>8. out' = Append(out, Meaning(trace, m))
    BY <2>1, <2>5, <2>6, <2>7 DEF Deliver
  <2>9. Here + pfx = Place(trace, k + 1) /\ TypeIn(trace, Here) \notin NoHandler
    BY <1>4, <1>6, <2>2, Types DEF MessageOk
  <2> QED BY <1>1, <1>3, <1>5, <1>6, <2>1, <2>8, <2>9, NextMessage
<1>8. CASE ctl # idx
  BY <1>1, <1>4, <1>8, RestartPlace DEF SInv
<1> QED BY <1>7, <1>8

-----------------------------------------------------------------------------
(* What a load does to the place in the trace.                              *)

LEMMA RefillPlace ==
  ASSUME WInv, SInv, Refill, NEW k, Decoding(k)
  PROVE  SInv'
<1>1. PICK n \in 1 .. Rest : Kept + n <= BufSize /\ Fill(n)
  BY DEF Refill
<1>2. /\ idx <= len /\ pc \notin Ended
      /\ UNCHANGED << trace, pc, want, size, ctl, pfx, args, omit, nv, size1, d, out >>
  BY DEF Refill, locals, dump
<1>3. n \in Nat /\ n <= Rest /\ Kept \in Nat
  <2>1. idx \in Nat /\ len \in Nat /\ pos \in Nat /\ trace.length \in Nat /\ Kept = len - idx
    BY <1>2, HereFacts
  <2>2. Rest \in Int
    BY <2>1 DEF Rest
  <2>3. Kept \in Nat
    BY <1>2, <2>1
  <2> QED BY <1>1, <2>2, <2>3
<1>4. idx' = 0 /\ Kept' = Kept + n /\ Here' = Here
  BY <1>1, <1>2, <1>3, Filled DEF WInv
<1>5. Candidate' = Candidate /\ Before' = Before /\ Kind' = Kind
  BY <1>2, <1>4 DEF Candidate, Before, Kind
<1>6. Kept <= Kept'
  BY <1>3, <1>4
<1>7. Handled(k)' /\ (pc # "start" => Measured')
  BY <1>2, <1>4 DEF Decoding, Handled, Measured
<1>8. Alone => Alone'
  BY <1>2, <1>3, <1>4, <1>6 DEF Alone
<1>9. ASSUME Gathering(k), pc \in Looks \cup {"again"} PROVE Gathering(k)'
  <2>1. ctl = idx' => idx' = idx
    BY <1>4, <1>9 DEF Gathering
  <2>2. size <= Kept => size <= Kept'
    <3>1. size \in Nat
      BY <1>2, HereFacts
    <3> QED BY <1>3, <1>4, <3>1
  <2>3. pc' \in Looks =>
          /\ Candidate' \in DOMAIN trace.ends \cup {trace.length}
          /\ Candidate' <= Limit(trace.messages[k])
    BY <1>2, <1>5, <1>9 DEF Gathering
  <2>4. pc' \in {"len", "data"} /\ ctl = idx' => d' = idx' + Before'
    BY <1>2, <1>5, <1>9, <2>1 DEF Gathering
  <2>5. pc' = "again" => Len(args) = Len(trace.messages[k].dumps)
    BY <1>2, <1>9 DEF Gathering
  <2>6. pc' = "omit" /\ ctl = idx' => nv' = At0'
    BY <1>2, <1>9, <2>1 DEF Gathering, At0
  <2> QED BY <1>2, <1>4, <1>9, <2>1, <2>2, <2>3, <2>4, <2>5, <2>6, GatheringStays
<1>10. pc \in Looks => Found'
  BY <1>2, <1>5 DEF Decoding, Found
<1>11. Decoding(k)'
  BY <1>2, <1>7, <1>8, <1>9, <1>10 DEF Decoding
<1>12. k \in 1 .. Len(trace'.messages) + 1 /\ pc' \notin Ended /\ Stopped' /\ IsPrefix(out', trace'.sent)
  BY <1>2 DEF Decoding, Handled, Stopped, SInv, Ended
<1> QED BY <1>11, <1>12 DEF SInv

LEMMA DumpsAtEofPlace ==
  ASSUME WInv, SInv, DumpsAtEof, NEW k, Decoding(k)
  PROVE  SInv'
<1>1. /\ pc = "dump" /\ pc \in Looks /\ idx <= len /\ Fits /\ ~Enough(Rest) /\ Fill(Rest) /\ NoMoreDumps
      /\ UNCHANGED << trace, locals, out >>
  BY DEF DumpsAtEof, AtEof, Looks
<1>2. /\ Here \in Nat /\ len \in Nat /\ idx \in Nat /\ pos \in Nat /\ trace.length \in Nat /\ pos <= trace.length
      /\ Kept = len - idx /\ Here + (len - idx) = pos /\ BufSize \in Nat /\ trace \in Traces
      /\ pfx \in Nat /\ omit \in Nat /\ Before = pfx + omit /\ Candidate = Here + pfx + omit /\ size \in Nat
  BY <1>1, HereFacts
<1>3. want.size = 1 /\ want.prefix = Before /\ Before <= Kept
  BY <1>1 DEF WInv, AskedOfDump, Asked
<1>4. PICK r \in Nat : r = Rest /\ pos + r = trace.length
  BY <1>2 DEF Rest
<1>5. Kept + r < Before + 1
  BY <1>1, <1>2, <1>3, <1>4 DEF Enough
<1>6. Kept + r <= BufSize
  BY <1>1, <1>2, <1>3, <1>5 DEF Fits
<1>7. idx' = 0 /\ Kept' = Kept + r /\ Here' = Here
  BY <1>1, <1>4, <1>6, Filled DEF WInv
<1>8. Candidate >= trace.length
  BY <1>2, <1>4, <1>5
<1>9. Handled(k) /\ (Alone \/ Gathering(k))
  BY <1>1 DEF Decoding
<1>10. ~Alone
  <2> SUFFICES ASSUME Alone PROVE FALSE
    OBVIOUS
  <2>1. Before = 0 /\ 2 <= Kept
    BY <1>1, AloneFacts
  <2> QED BY <1>2, <1>4, <1>5, <2>1
<1>11. PICK m : m = trace.messages[k]
  OBVIOUS
<1>12. Len(args) = Len(m.dumps)
  <2>1. Candidate \notin DOMAIN trace.ends
    <3>1. Candidate \in DOMAIN trace.ends => Candidate < trace.length
      BY <1>2, RecordFacts
    <3>2. Candidate \in Nat
      BY <1>2
    <3> QED BY <1>2, <1>8, <3>1, <3>2
  <2>2. \/ PassedAt(trace, m, Limit(m), Candidate) \/ DumpIsAt(trace, m, Len(args), Candidate)
        \/ (Len(args) = Len(m.dumps) /\ NothingAt(trace, Candidate))
        \/ OtherAt(trace, m, Len(args), Candidate)
    BY <1>1, <1>9, <1>10, <1>11, GatheringFacts
  <2> QED BY <2>1, <2>2 DEF PassedAt, DumpIsAt, OtherAt
<1>13. ctl = idx' => idx' = idx
  BY <1>7, <1>9, <1>10 DEF Gathering
<1>14. size <= Kept => size <= Kept'
  BY <1>2, <1>4, <1>7
<1> QED BY <1>1, <1>7, <1>9, <1>10, <1>11, <1>12, <1>13, <1>14, NoMorePlace

(* What is asked for is in the record, and fits in the buffer. *)
WantFits ==
  /\ want.prefix + want.size <= BufSize
  /\ pc \notin {"start", "dump"} => Here + want.prefix + want.size <= trace.length

LEMMA MeasuringFits ==
  ASSUME WInv, NEW k, Decoding(k), ~Truncated(trace), idx <= len,
         pc \in {"start", "text", "nv", "counted", "whole", "again"}
  PROVE  WantFits
<1>1. /\ Here \in Nat /\ len \in Nat /\ idx \in Nat /\ pos \in Nat /\ trace.length \in Nat /\ pos <= trace.length
      /\ Kept = len - idx /\ Here + (len - idx) = pos /\ BufSize \in Nat /\ trace \in Traces
      /\ size \in Nat /\ len <= BufSize /\ 1 <= BufSize
  BY HereFacts
<1>2. CASE pc = "start"
  BY <1>1, <1>2 DEF WInv, Asked, WantFits
<1>3. CASE pc = "again"
  <2>1. Gathering(k) /\ want.size = size /\ want.prefix = 0
    BY <1>3 DEF Decoding, Alone, Looks, WInv, Asked
  <2>2. size <= Kept
    BY <2>1 DEF Gathering
  <2> QED BY <1>1, <2>1, <2>2 DEF WantFits
<1>4. CASE pc \in {"text", "nv", "counted", "whole"}
  <2>1. Handled(k) /\ Measured
    BY <1>4 DEF Decoding
  <2>2. Here \in DOMAIN trace.ends
    BY <2>1 DEF Measured
  <2>3. PICK e : e = trace.ends[Here]
    OBVIOUS
  <2>4. e \in Nat /\ Here < e /\ e <= trace.length /\ e - Here <= BufSize
    BY <1>1, <2>1, <2>2, <2>3, RecordFacts, RecordFits
  <2>5. PICK w : w = want.size
    OBVIOUS
  <2>6. want.prefix = 0 /\ w \in Nat
    BY <1>4, <2>5 DEF WInv, TypeOK, Asked
  <2>7. Here + w <= e
    <3>1. CASE pc = "text"
      <4>1. w = (IF size = 0 THEN 1 ELSE size)
        BY <2>5, <3>1 DEF WInv, Asked
      <4>2. trace.bytes[e] = EOR /\ \A i \in Here + 1 .. Here + size : trace.bytes[i] # EOR
        BY <1>1, <2>1, <2>2, <2>3, <3>1, RecordFacts DEF Measured
      <4>3. ~(e <= Here + size)
        BY <1>1, <2>4, <4>2
      <4> QED BY <1>1, <2>4, <4>1, <4>3
    <3>2. CASE pc = "nv"
      <4>1. w = 2 /\ trace.bytes[Here + 1] = NV
        BY <2>1, <2>5, <3>2 DEF WInv, Asked, Measured
      <4>2. StructSize(TypeIn(trace, Here)) = 3 /\ TypeIn(trace, Here) # << MsgText >>
        <5>1. NV # MsgText
          BY DEF NV, MsgText
        <5> QED BY <4>1, <5>1, FirstByte
      <4>3. TypeIn(trace, Here) \in Fixed => e = Here + 3 + 1
        BY <1>1, <2>2, <2>3, <4>2, RecordFacts
      <4>4. TypeIn(trace, Here) \in Counted => Here + 3 < e
        BY <1>1, <2>2, <2>3, <4>2, LengthFacts
      <4>5. TypeIn(trace, Here) \in Dumps => Here + 2 <= e
        <5>1. PICK p, x : p = PrefixSize(trace, Here) /\ x = trace.bytes[Here + p + 1]
          OBVIOUS
        <5>2. TypeIn(trace, Here) \in Dumps => p \in Nat /\ x \in Nat /\ e = Here + p + x + 2
          BY <1>1, <2>2, <2>3, <5>1, RecordFacts, LengthFacts
        <5> QED BY <1>1, <5>2
      <4> QED BY <1>1, <2>2, <2>4, <4>1, <4>2, <4>3, <4>4, <4>5, RecordFacts
    <3>3. CASE pc = "counted"
      <4>1. PICK s : s = StructSize(TypeIn(trace, Here))
        OBVIOUS
      <4>2. w = s + 1 /\ TypeIn(trace, Here) \in Counted
        BY <2>1, <2>5, <3>3, <4>1 DEF WInv, Asked, Measured
      <4>3. Here + s < e /\ (s = 2 \/ s = 3)
        BY <1>1, <2>2, <2>3, <4>1, <4>2, LengthFacts, FirstByte
      <4> QED BY <1>1, <2>4, <4>2, <4>3
    <3>4. CASE pc = "whole"
      BY <2>1, <2>3, <2>4, <2>5, <3>4 DEF WInv, Asked, Measured
    <3> QED BY <1>4, <3>1, <3>2, <3>3, <3>4
  <2> QED BY <1>1, <2>4, <2>5, <2>6, <2>7 DEF WantFits
<1> QED BY <1>2, <1>3, <1>4

LEMMA LookingFits ==
  ASSUME WInv, NEW k, Decoding(k), ~Truncated(trace), idx <= len, pc \in Looks
  PROVE  WantFits
<1>1. /\ Here \in Nat /\ len \in Nat /\ idx \in Nat /\ pos \in Nat /\ trace.length \in Nat /\ pos <= trace.length
      /\ Kept = len - idx /\ Here + (len - idx) = pos /\ BufSize \in Nat /\ trace \in Traces
      /\ len <= BufSize /\ 1 <= BufSize /\ size1 \in Nat
  BY HereFacts
<1>2. PICK b, r : b = Before /\ r = Candidate
  OBVIOUS
<1>3. b \in Nat /\ r = Here + b /\ r \in Nat
  BY SMTT(30), <1>1, <1>2, HereFacts
<1>4. Handled(k) /\ (Alone \/ Gathering(k)) /\ Found
  BY DEF Decoding
<1>5. CASE pc = "dump"
  <2>1. want.size = 1 /\ want.prefix = b
    BY <1>2, <1>5 DEF WInv, AskedOfDump
  <2>2. Alone => b = 0
    BY <1>2, AloneFacts
  <2>3. Gathering(k) => r + 1 - Here <= BufSize
    BY <1>2, <1>4, GatheringFacts
  <2> QED BY <1>1, <1>3, <1>4, <1>5, <2>1, <2>2, <2>3 DEF WantFits
<1>6. CASE pc = "sub"
  <2>1. want.size = 2 /\ want.prefix = b
    BY <1>2, <1>6 DEF WInv, AskedOfDump
  <2>2. Alone => b = 0 /\ 2 <= Kept
    BY <1>2, AloneFacts
  <2>3. r \in DOMAIN trace.ends /\ trace.bytes[r + 1] = NV
    BY <1>2, <1>4, <1>6 DEF Found
  <2>4. PICK m, e : m = trace.messages[k] /\ e = trace.ends[r]
    OBVIOUS
  <2>5. e \in Nat /\ e <= trace.length /\ r < e
    BY <1>1, <2>3, <2>4, NotCut, RecordFacts
  <2>6. StructSize(TypeIn(trace, r)) = 3 /\ TypeIn(trace, r) # << MsgText >>
        /\ StructSize(TypeIn(trace, r)) = Len(TypeIn(trace, r)) + 1
        /\ TypeIn(trace, r) = << NV, trace.bytes[r + 2] >>
    <3>1. NV # MsgText
      BY DEF NV, MsgText
    <3> QED BY <2>3, <3>1, FirstByte
  <2>7. r + 2 <= e
    <3>1. TypeIn(trace, r) \in Fixed => e = r + 3 + 1
      BY <1>1, <2>3, <2>4, <2>6, RecordFacts
    <3>2. TypeIn(trace, r) \in Counted => r + 3 < e
      BY <1>1, <2>3, <2>4, <2>6, LengthFacts
    <3>3. TypeIn(trace, r) \in Dumps => r + 2 <= e
      <4>1. PICK p, x : p = PrefixSize(trace, r) /\ x = trace.bytes[r + p + 1]
        OBVIOUS
      <4>2. TypeIn(trace, r) \in Dumps => p \in Nat /\ x \in Nat /\ e = r + p + x + 2
        BY <1>1, <2>3, <2>4, <4>1, RecordFacts, LengthFacts
      <4> QED BY <1>3, <4>2
    <3>4. TypeIn(trace, r) \in Fixed \cup Counted \cup Dumps
      BY <1>1, <2>3, <2>6, RecordFacts, Zenon
    <3>5. TypeIn(trace, r) \in Fixed \cup Counted => r + 2 <= e
      BY <1>3, <2>5, <3>1, <3>2
    <3> QED BY <3>3, <3>4, <3>5
  <2>8. Gathering(k) => r + 2 - Here <= BufSize
    <3> SUFFICES ASSUME Gathering(k) PROVE r + 2 - Here <= BufSize
      OBVIOUS
    <3>1. /\ m.at = Here
          /\ \/ PassedAt(trace, m, Limit(m), r) \/ DumpIsAt(trace, m, Len(args), r)
             \/ (Len(args) = Len(m.dumps) /\ NothingAt(trace, r)) \/ OtherAt(trace, m, Len(args), r)
      BY <1>2, <1>4, <2>4, GatheringFacts
    <3>2. ~NothingAt(trace, r)
      BY <1>1, <1>3, <2>4, <2>5 DEF NothingAt
    <3>3. PassedAt(trace, m, Limit(m), r) \/ DumpIsAt(trace, m, Len(args), r) => e - Here <= BufSize
      BY <2>4, <3>1 DEF PassedAt, DumpIsAt
    <3>4. OtherAt(trace, m, Len(args), r) => r + 2 - Here <= BufSize
      <4>1. Len(TypeIn(trace, r)) = 2
        BY <2>6
      <4> QED BY <3>1, <4>1 DEF OtherAt
    <3> QED BY <1>1, <1>3, <2>5, <2>7, <3>1, <3>2, <3>3, <3>4
  <2> QED BY <1>1, <1>3, <1>4, <2>1, <2>2, <2>5, <2>7, <2>8 DEF WantFits
<1>7. CASE pc = "omit"
  <2>1. want.prefix = b
    BY <1>2, <1>7 DEF WInv, AskedOfDump
  <2>2. r \in DOMAIN trace.ends /\ TypeIn(trace, r) \in Omitted /\ want.size = StructSize(TypeIn(trace, r)) + 1
        /\ Kind = NvDump
    BY <1>2, <1>4, <1>7 DEF Found
  <2>3. PICK m, e, s : m = trace.messages[k] /\ e = trace.ends[r] /\ s = StructSize(TypeIn(trace, r))
    OBVIOUS
  <2>4. e \in Nat /\ e <= trace.length /\ r < e /\ e = r + s + 1 /\ (s = 2 \/ s = 3)
    BY <1>1, <2>2, <2>3, NotCut, RecordFacts, Types, FirstByte
  <2>5. ~Alone
    <3> SUFFICES ASSUME Alone PROVE FALSE
      OBVIOUS
    <3>1. TypeIn(trace, Here) = NvDump /\ r = Here
      BY <1>2, AloneFacts DEF Alone
    <3> QED BY <2>2, <3>1, Types
  <2>6. e - Here <= BufSize
    <3>1. /\ m.at = Here /\ Kind = DumpOf(trace, m)
          /\ PassedOver(trace, m) = IF Kind = NvDump THEN Omitted ELSE {}
          /\ \/ PassedAt(trace, m, Limit(m), r) \/ DumpIsAt(trace, m, Len(args), r)
             \/ (Len(args) = Len(m.dumps) /\ NothingAt(trace, r)) \/ OtherAt(trace, m, Len(args), r)
      BY <1>2, <1>4, <2>3, <2>5, GatheringFacts
    <3>2. ~NothingAt(trace, r)
      BY <1>1, <1>3, <2>3, <2>4 DEF NothingAt
    <3>3. ~OtherAt(trace, m, Len(args), r)
      BY <2>2, <3>1 DEF OtherAt
    <3> QED BY <2>3, <3>1, <3>2, <3>3 DEF PassedAt, DumpIsAt
  <2> QED BY <1>1, <1>3, <2>1, <2>2, <2>3, <2>4, <2>6 DEF WantFits
<1>8. CASE pc \in {"head", "str", "len", "data"}
  <2>1. PICK p, x, e : p = PrefixSize(trace, r) /\ x = trace.bytes[r + p + 1] /\ e = trace.ends[r]
    OBVIOUS
  <2>2. /\ TypeIn(trace, r) = Kind /\ p \in Nat /\ p >= 2 /\ (Kind = NvDump => p >= 4) /\ x \in Nat
        /\ e = r + p + x + 2 /\ e <= trace.length /\ e - Here <= BufSize
    BY <1>2, <1>8, <2>1, DumpShape
  <2>3. PICK w, v : w = want.size /\ v = want.prefix
    OBVIOUS
  <2>4. w \in Nat /\ v \in Nat /\ Here + v + w <= e
    <3>1. CASE pc = "head"
      <4>1. w = 4 /\ v = b /\ Kind = NvDump
        BY <1>2, <1>4, <2>3, <3>1 DEF WInv, AskedOfDump, Found
      <4> QED BY <1>1, <1>3, <2>2, <4>1
    <3>2. CASE pc = "str"
      <4>1. w = p /\ v = b
        BY <1>2, <1>4, <2>1, <2>3, <3>2 DEF WInv, AskedOfDump, Found
      <4> QED BY <1>1, <1>3, <2>2, <4>1
    <3>3. CASE pc = "len"
      <4>1. w = 1 /\ v = b + p
        BY <1>2, <1>4, <2>1, <2>3, <3>3 DEF WInv, AskedOfDump, Found
      <4> QED BY <1>1, <1>3, <2>2, <4>1
    <3>4. CASE pc = "data"
      <4>1. w = x + 2 /\ v = b + p
        BY <1>2, <1>4, <2>1, <2>3, <3>4 DEF WInv, AskedOfDump, Found
      <4> QED BY <1>1, <1>3, <2>2, <4>1
    <3> QED BY <1>8, <3>1, <3>2, <3>3, <3>4
  <2> QED BY <1>1, <2>2, <2>3, <2>4 DEF WantFits
<1> QED BY <1>5, <1>6, <1>7, <1>8 DEF Looks

LEMMA StopPlace ==
  ASSUME WInv, SInv, ~torn, NotEnoughSpace \/ UnexpectedEof, NEW k, Decoding(k)
  PROVE  SInv'
<1>1. /\ pc \notin Ended /\ (~Fits \/ (pc \notin {"start", "dump"} /\ ~Enough(Rest)))
      /\ End("exit") /\ UNCHANGED mtrace
  BY DEF NotEnoughSpace, UnexpectedEof, AtEof
<1>2. idx <= len
  BY SizesAssumption DEF WInv, TypeOK
<1>3. Truncated(trace)
  <2> SUFFICES ASSUME ~Truncated(trace) PROVE FALSE
    OBVIOUS
  <2>1. WantFits
    BY <1>1, <1>2, MeasuringFits, LookingFits DEF WInv, TypeOK, Looks
  <2>2. /\ Here \in Nat /\ len \in Nat /\ idx \in Nat /\ pos \in Nat /\ trace.length \in Nat /\ Kept = len - idx
        /\ Here + (len - idx) = pos /\ want.size \in Nat /\ want.prefix \in Nat /\ BufSize \in Nat
    BY <1>2, HereFacts
  <2>3. Fits
    BY <2>1 DEF WantFits, Fits
  <2>4. pc \notin {"start", "dump"} => Enough(Rest)
    BY <2>1, <2>2 DEF WantFits, Enough, Rest
  <2> QED BY <1>1, <2>3, <2>4
<1> QED BY <1>1, <1>3, FailKeeps DEF Ended

LEMMA EndPlace ==
  ASSUME WInv, SInv, EndOfTrace, NEW k, Decoding(k)
  PROVE  SInv'
<1>1. pc = "start" /\ idx <= len /\ ~Enough(Rest) /\ End("done") /\ UNCHANGED mtrace
  BY DEF EndOfTrace, AtEof
<1>2. /\ Here \in Nat /\ len \in Nat /\ idx \in Nat /\ pos \in Nat /\ trace.length \in Nat /\ pos <= trace.length
      /\ Kept = len - idx /\ Here + (len - idx) = pos /\ trace \in Traces
  BY <1>1, HereFacts
<1>3. want.size = 1 /\ want.prefix = 0
  BY <1>1 DEF WInv, Asked
<1>4. Here = trace.length
  BY <1>1, <1>2, <1>3 DEF Enough, Rest
<1>5. k \in 1 .. Len(trace.messages) + 1 /\ Here = Place(trace, k) /\ Len(out) = Count(trace, k)
  BY DEF Decoding, Handled
<1>6. /\ trace.messages \in Seq([at : Nat, dumps : Seq(Nat), stop : Nat, after : Nat])
      /\ trace.sent \in Seq(Handed) /\ Len(trace.sent) = Count(trace, Len(trace.messages) + 1)
  BY <1>2, TraceAssumption
<1>7. k = Len(trace.messages) + 1
  <2> SUFFICES ASSUME k # Len(trace.messages) + 1 PROVE FALSE
    OBVIOUS
  <2>1. k \in DOMAIN trace.messages
    BY <1>5, <1>6
  <2>2. PICK m : m = trace.messages[k]
    OBVIOUS
  <2>3. MessageOk(trace, k, m)
    BY <1>2, <2>1, <2>2, MessageFacts, Zenon
  <2>4. Here \in DOMAIN trace.ends
    BY <1>5, <2>3 DEF MessageOk
  <2>5. Here < trace.length
    BY <1>2, <2>4, RecordFacts
  <2> QED BY <1>2, <1>4, <2>5
<1>8. out \in Seq(Handed) /\ IsPrefix(out, trace.sent)
  BY DEF WInv, TypeOK, SInv
<1>9. out = trace.sent
  <2>1. Len(out) = Len(trace.sent)
    BY <1>5, <1>6, <1>7
  <2> QED BY <1>6, <1>8, <2>1, PrefixWhole
<1> QED BY <1>1, <1>9, FailKeeps DEF Ended

-----------------------------------------------------------------------------
(* What a step does once load_memory_dump has gone astray.                  *)

(* It reads on where it is, *)
LEMMA StraysOn ==
  ASSUME AstrayInv, NEW k, Strays(k), pc' \in Looks \cup {"again"},
         UNCHANGED << trace, size, ctl, out >>, Here' = Here, idx' = 0
  PROVE  AstrayInv'
<1>1. Strays(k)'
  BY DEF Strays, Handled
<1>2. k \in 1 .. Len(trace'.messages) + 1 /\ pc' \notin {"crash", "done"} /\ IsPrefix(out', trace'.sent)
  BY DEF Strays, Handled, AstrayInv, Looks
<1> QED BY <1>1, <1>2 DEF AstrayInv

(* or gives up. *)
LEMMA StrayStops ==
  ASSUME AstrayInv, End("exit"), UNCHANGED mtrace
  PROVE  AstrayInv'
<1>1. pc' = "exit" /\ UNCHANGED << trace, out >>
  BY DEF End, mtrace
<1> QED BY <1>1 DEF AstrayInv, Ended

LEMMA StraysInDump ==
  ASSUME WInv, AstrayInv, idx <= len, NEW k, Strays(k), LoadDump
  PROVE  AstrayInv'
<1>1. size # 0
  <2>1. Here \in Nat /\ trace \in Traces
    BY HereFacts
  <2>2. Here < trace.ends[Here] /\ Here + size = trace.ends[Here]
    BY <2>1, RecordFacts DEF Strays
  <2> QED BY <2>1, <2>2
<1>2. ASSUME UNCHANGED << mtrace, buffer, size, ctl, out >>, pc' \in Looks \cup {"again"}
      PROVE  AstrayInv'
  <2>1. UNCHANGED << trace, pos, len, idx >>
    BY <1>2 DEF mtrace, buffer
  <2>2. Here' = Here /\ idx' = 0
    BY <2>1 DEF Here, Strays
  <2> QED BY <1>2, <2>1, <2>2, StraysOn
<1>3. StillReading => UNCHANGED << mtrace, buffer, size, ctl, out >>
  BY DEF StillReading, locals
<1>4. Fail => AstrayInv'
  BY StrayStops DEF Fail
<1>5. CASE DumpType
  <2>1. StillReading /\ pc' \in Looks \cup {"again"}
    BY <1>5 DEF DumpType, Ask, NoMoreDumps, Looks
  <2> QED BY <1>2, <1>3, <2>1
<1>6. CASE DumpSubtype
  <2>1. StillReading /\ pc' \in Looks \cup {"again"}
    BY <1>6 DEF DumpSubtype, Ask, NoMoreDumps, Looks
  <2> QED BY <1>2, <1>3, <2>1
<1>7. CASE OmitMessage
  <2>1. Fail \/ (StillReading /\ pc' \in Looks \cup {"again"})
    BY <1>7 DEF OmitMessage, Ask, Looks
  <2> QED BY <1>2, <1>3, <1>4, <2>1
<1>8. CASE DumpHead \/ DumpStr \/ DumpLength
  <2>1. Fail \/ (StillReading /\ pc' \in Looks \cup {"again"})
    BY <1>8 DEF DumpHead, DumpStr, DumpLength, ReadOn, Ask, Looks
  <2> QED BY <1>2, <1>3, <1>4, <2>1
<1>9. CASE DumpData
  <2>1. Fail \/ (UNCHANGED << mtrace, buffer, size, ctl, out >> /\ pc' \in Looks \cup {"again"})
    BY <1>1, <1>9 DEF DumpData, Ask, Looks
  <2> QED BY <1>2, <1>4, <2>1
<1> QED BY <1>5, <1>6, <1>7, <1>8, <1>9 DEF LoadDump

LEMMA StraysInLoad ==
  ASSUME WInv, AstrayInv, idx <= len, NEW k, Strays(k), LoadData
  PROVE  AstrayInv'
<1>1. pc \in Looks \cup {"again"}
  BY DEF Strays
<1>2. /\ idx \in Nat /\ len \in Nat /\ pos \in Nat /\ trace.length \in Nat /\ pos <= trace.length
      /\ Kept = len - idx /\ want.size \in Nat /\ want.prefix \in Nat /\ BufSize \in Nat
  BY HereFacts
<1>3. ASSUME NEW n \in Nat, n <= Rest, Kept + n <= BufSize, Fill(n),
             UNCHANGED << trace, size, ctl, out >>, pc' \in Looks \cup {"again"}
      PROVE  AstrayInv'
  <2>1. Here' = Here /\ idx' = 0
    BY <1>3, Filled DEF WInv
  <2> QED BY <1>3, <2>1, StraysOn
<1>4. CASE Refill
  <2>1. PICK n \in 1 .. Rest : Kept + n <= BufSize /\ Fill(n)
    BY <1>4 DEF Refill
  <2>2. n \in Nat /\ n <= Rest
    BY <1>2, <2>1 DEF Rest
  <2>3. UNCHANGED << trace, size, ctl, out >> /\ pc' = pc
    BY <1>4 DEF Refill, locals
  <2> QED BY <1>1, <1>3, <2>1, <2>2, <2>3
<1>5. CASE NotEnoughSpace \/ UnexpectedEof
  BY <1>5, StrayStops DEF NotEnoughSpace, UnexpectedEof
<1>6. CASE Underflow \/ EndOfTrace
  BY <1>1, <1>2, <1>6 DEF Underflow, EndOfTrace, Looks
<1>7. CASE DumpsAtEof
  <2>1. /\ Fits /\ ~Enough(Rest) /\ Fill(Rest) /\ pc' = "again" /\ UNCHANGED << trace, size, ctl, out >>
    BY <1>7 DEF DumpsAtEof, AtEof, NoMoreDumps, Ask, locals
  <2>2. Rest \in Nat /\ Rest <= Rest /\ Kept + Rest <= BufSize
    BY <1>2, <2>1 DEF Rest, Enough, Fits
  <2> QED BY <1>3, <2>1, <2>2
<1> QED BY <1>4, <1>5, <1>6, <1>7 DEF LoadData

LEMMA AstrayNext ==
  ASSUME WInv, AstrayInv, astray, ~torn, Next
  PROVE  IF astray' THEN AstrayInv' ELSE SInv'
<1>1. pc \notin Ended
  BY DEF Next, LoadData, Decode, LoadDump, Refill, NotEnoughSpace, Underflow, EndOfTrace,
         UnexpectedEof, DumpsAtEof, Start, NvStart, TextByte, CountedMessage, WholeMessage, DumpType,
         DumpSubtype, OmitMessage, DumpHead, DumpStr, DumpLength, DumpData, Again, At, Ended
<1>2. PICK k : Strays(k)
  BY <1>1 DEF AstrayInv
<1>3. pc \in Looks \cup {"again"} /\ ctl # idx
  BY <1>2 DEF Strays
<1>4. idx <= len
  BY SizesAssumption DEF WInv, TypeOK
<1>5. CASE LoadData
  <2>1. astray'
    BY <1>5 DEF LoadData, Refill, NotEnoughSpace, Underflow, EndOfTrace, UnexpectedEof, DumpsAtEof, End,
                ghosts
  <2> QED BY <1>2, <1>4, <1>5, <2>1, StraysInLoad
<1>6. CASE LoadDump
  <2>1. astray'
    BY <1>6 DEF LoadDump, DumpType, DumpSubtype, OmitMessage, DumpHead, DumpStr, DumpLength, DumpData, ReadOn,
                Finish, Fail, End, ghosts
  <2> QED BY <1>2, <1>4, <1>6, <2>1, StraysInDump
<1>7. CASE Again
  <2>1. ~astray'
    BY <1>3, <1>7 DEF Again
  <2>2. SInv'
    BY <1>2, <1>3, <1>7, RestartPlace DEF Strays, AstrayInv
  <2> QED BY <2>1, <2>2
<1>8. ~(Start \/ NvStart \/ TextByte \/ CountedMessage \/ WholeMessage)
  BY <1>3 DEF Start, NvStart, TextByte, CountedMessage, WholeMessage, At, Looks
<1> QED BY <1>5, <1>6, <1>7, <1>8 DEF Next, Decode

-----------------------------------------------------------------------------
(* The inductive invariant.                                                 *)

LEMMA TornStays == [Next]_mvars /\ torn => torn'
<1> SUFFICES ASSUME [Next]_mvars, torn PROVE torn'
  OBVIOUS
<1>1. ASSUME LoadData PROVE torn'
  <2>1. CASE Refill
    BY <2>1 DEF Refill, ghosts
  <2>2. CASE NotEnoughSpace \/ Underflow \/ EndOfTrace \/ UnexpectedEof
    BY <2>2 DEF NotEnoughSpace, Underflow, EndOfTrace, UnexpectedEof, End, ghosts
  <2>3. CASE DumpsAtEof
    BY <2>3 DEF DumpsAtEof, ghosts
  <2> QED BY <1>1, <2>1, <2>2, <2>3 DEF LoadData
<1>2. ASSUME LoadDump PROVE torn'
  <2>1. CASE DumpType \/ DumpSubtype
    BY <2>1 DEF DumpType, DumpSubtype, StillReading
  <2>2. CASE OmitMessage \/ DumpHead \/ DumpStr \/ DumpLength
    BY <2>2 DEF OmitMessage, DumpHead, DumpStr, DumpLength, ReadOn, StillReading,
                Fail, End, ghosts
  <2>3. CASE DumpData
    BY <2>3 DEF DumpData, Fail, End, ghosts
  <2> QED BY <1>2, <2>1, <2>2, <2>3 DEF LoadDump
<1>3. CASE Start \/ NvStart
  BY <1>3 DEF Start, NvStart, Dispatch, Fail, End, ghosts
<1>4. CASE TextByte
  BY <1>4 DEF TextByte
<1>5. CASE CountedMessage
  BY <1>5 DEF CountedMessage, Fail, End, ghosts
<1>6. CASE WholeMessage
  BY <1>6 DEF WholeMessage, Fail, End, ghosts
<1>7. CASE Again
  BY <1>7 DEF Again
<1>8. CASE UNCHANGED mvars
  BY <1>8 DEF mvars, ghosts
<1> QED BY <1>1, <1>2, <1>3, <1>4, <1>5, <1>6, <1>7, <1>8 DEF Next, Decode

LEMMA IInvInit == Init => IInv
<1> SUFFICES ASSUME Init PROVE IInv
  OBVIOUS
<1>1. WInv
  BY WInvInit
<1>2. pc = "start" /\ out = << >> /\ pos = 0 /\ len = 0 /\ idx = 0 /\ trace \in Traces
  BY DEF Init
<1>3. trace.messages \in Seq([at : Nat, dumps : Seq(Nat), stop : Nat, after : Nat])
      /\ trace.sent \in Seq(Handed)
  BY <1>2, TraceAssumption
<1>4. 1 \in 1 .. Len(trace.messages) + 1
  BY <1>3
<1>5. Handled(1)
  <2>1. Here = 0 /\ Len(out) = 0
    BY <1>2 DEF Here
  <2> QED BY <1>4, <2>1 DEF Handled, Place, Count
<1>6. ~astray
  BY DEF Init
<1>7. Decoding(1)
  BY <1>2, <1>5 DEF Decoding, Looks
<1>8. IsPrefix(out, trace.sent)
  <2>1. Len(out) = 0 /\ Len(trace.sent) \in Nat
    BY <1>2, <1>3
  <2>2. SubSeq(out, 1, 0) = << >> /\ SubSeq(trace.sent, 1, 0) = << >>
    BY <1>2, <1>3
  <2> QED BY <2>1, <2>2 DEF IsPrefix
<1> QED BY <1>1, <1>2, <1>4, <1>7, <1>8, <1>6 DEF IInv, SInv, Stopped

(* Only load_memory_dump goes astray. *)
LEMMA OnTrack == Next /\ ~OmitMessage /\ ~astray => ~astray'
<1> SUFFICES ASSUME Next, ~OmitMessage, ~astray PROVE ~astray'
  OBVIOUS
<1>1. CASE LoadData
  BY <1>1 DEF LoadData, Refill, NotEnoughSpace, Underflow, EndOfTrace, UnexpectedEof, DumpsAtEof, End, ghosts
<1>2. CASE LoadDump
  BY <1>2 DEF LoadDump, DumpType, DumpSubtype, DumpHead, DumpStr, DumpLength, DumpData, ReadOn,
              Finish, Fail, End, ghosts
<1>3. CASE Start \/ NvStart
  BY <1>3 DEF Start, NvStart, Dispatch, Fail, End, ghosts
<1>4. CASE TextByte \/ CountedMessage \/ WholeMessage \/ Again
  BY <1>4 DEF TextByte, CountedMessage, WholeMessage, Again, Finish, Fail, End, ghosts
<1> QED BY <1>1, <1>2, <1>3, <1>4 DEF Next, Decode

LEMMA SInvNext ==
  ASSUME WInv, SInv, ~astray, ~torn', [Next]_mvars
  PROVE  IF astray' THEN AstrayInv' ELSE SInv'
<1>1. ~torn
  BY TornStays
<1>2. CASE UNCHANGED mvars
  <2>1. UNCHANGED << trace, pos, buf, idx, len, pc, want, size, ctl, pfx, args, omit, nv, size1, d, out, astray >>
    BY <1>2 DEF mvars, mtrace, buffer, locals, dump, ghosts
  <2>2. SInv'
    BY <2>1 DEF SInv, Stopped, Decoding, Handled, Measured, Alone, Gathering, Collected, Limit, Found,
                Kind, Here, Candidate, Before, Kept, At0
  <2> QED BY <2>1, <2>2
<1>3. CASE Next
  <2>1. pc \notin Ended
    BY <1>3 DEF Next, LoadData, Decode, LoadDump, Refill, NotEnoughSpace, Underflow, EndOfTrace,
                UnexpectedEof, DumpsAtEof, Start, NvStart, TextByte, CountedMessage, WholeMessage, DumpType,
                DumpSubtype, OmitMessage, DumpHead, DumpStr, DumpLength, DumpData, Again, At, Ended
  <2>2. PICK k : Decoding(k)
    BY <2>1 DEF SInv
  <2>3. ~Underflow
    BY <1>1 DEF WInv, TypeOK, Underflow
  <2>4. CASE OmitMessage
    BY <2>2, <2>4, OmitPlace
  <2>5. CASE ~OmitMessage
    <3>1. ~astray'
      BY <1>3, <2>5, OnTrack
    <3>2. CASE LoadData
      BY <1>1, <2>2, <2>3, <3>1, <3>2, RefillPlace, StopPlace, EndPlace, DumpsAtEofPlace DEF LoadData
    <3>3. CASE LoadDump
      BY <2>2, <2>5, <3>1, <3>3, DumpTypePlace, SubtypePlace, HeadPlace, StrPlace, LengthPlace, DataPlace
         DEF LoadDump
    <3>4. CASE Start \/ NvStart \/ TextByte \/ CountedMessage \/ WholeMessage \/ Again
      BY <2>2, <3>1, <3>4, StartPlace, TextPlace, CountedPlace, WholePlace, AgainPlace
    <3> QED BY <1>3, <3>2, <3>3, <3>4 DEF Next, Decode
  <2> QED BY <2>4, <2>5
<1> QED BY <1>2, <1>3

LEMMA IInvNext == IInv /\ [Next]_mvars => IInv'
<1> SUFFICES ASSUME IInv, [Next]_mvars PROVE IInv'
  OBVIOUS
<1>1. WInv /\ (torn \/ IF astray THEN AstrayInv ELSE SInv)
  BY DEF IInv
<1>2. WInv'
  BY <1>1, WInvNext
<1>3. ASSUME ~torn' PROVE IF astray' THEN AstrayInv' ELSE SInv'
  <2>1. ~torn
    BY <1>3, TornStays
  <2>2. CASE ~astray
    BY <1>1, <1>3, <2>1, <2>2, SInvNext
  <2>3. CASE astray /\ Next
    BY <1>1, <2>1, <2>3, AstrayNext
  <2>4. CASE astray /\ UNCHANGED mvars
    <3>1. UNCHANGED << trace, pos, idx, len, pc, size, ctl, out, astray >>
      BY <2>4 DEF mvars, mtrace, buffer, locals, ghosts
    <3> QED BY <1>1, <2>1, <2>4, <3>1 DEF AstrayInv, Strays, Handled, Here
  <2> QED BY <2>2, <2>3, <2>4
<1> QED BY <1>2, <1>3 DEF IInv

(* Unless a byte was torn, the handlers get what was recorded, in order,    *)
(* nothing left out and nothing twice, and the pointers to the dumps of an  *)
(* ioctl point to the bytes that were recorded, whatever the trace holds,   *)
(* wherever its reads end, and however often the buffer is moved in the     *)
(* middle of a message (mmt_decode, load_memory_dump).  An ioctl that went  *)
(* astray is collected again before it is handed over, or not handed over.  *)
THEOREM DeliveredCorrect == Spec => []DeliveredAsRecorded
<1>1. IInv => DeliveredAsRecorded
  BY DEF IInv, SInv, AstrayInv, DeliveredAsRecorded
<1> QED BY IInvInit, IInvNext, <1>1, PTL DEF Spec

(* Unless a byte was torn, the decoder gives up only in a trace that ends   *)
(* in the middle of a record, or when load_memory_dump tested a byte that   *)
(* had moved and went astray; it never reads past what it has, and returns  *)
(* only when every message was handled (mmt_load_data_with_prefix,          *)
(* mmt_check_eor, mmt_buf_check_sanity).                                    *)
THEOREM EndsCorrect == Spec => []EndsWithTheTrace
<1>1. IInv => EndsWithTheTrace
  BY DEF IInv, SInv, Stopped, AstrayInv, EndsWithTheTrace
<1> QED BY IInvInit, IInvNext, <1>1, PTL DEF Spec
=============================================================================
