------------------------- MODULE DriverReplayProofs -------------------------
(***************************************************************************)
(* Proofs about UserPusher and DriverReplay, for any mappings and words.   *)
(* First the pusher alone, whatever is written: the words that are printed *)
(* lie in the mapping that was found, and nothing is left to print when a  *)
(* call returns.  Then the pusher and a driver, for any buffer and         *)
(* commands: the words a driver submits are decoded in their order, each   *)
(* once and as the driver meant it, and all of them when the call returns. *)
(***************************************************************************)
EXTENDS DriverReplay, MethodStreamProofs

-----------------------------------------------------------------------------
(* The pusher alone, whatever is written.                                   *)

(* The pointers a call leaves for the next one are in the mapping it leaves, *)
(* and that mapping has memory.                                             *)
Anchored == last # NULL => last.known /\ Inside(prev, last) /\ Inside(put, last)

Memory == memory \in [Addresses -> Words]

Numbers ==
  /\ nextaddr \in Nat /\ prev \in Nat /\ put \in Nat /\ cur \in Nat /\ end \in Nat
  /\ written \in Nat \cup {NULL} /\ last \in Mappings \cup {NULL}
  /\ pc \in {"idle", "decode", "end", "wrap", "print"}

UInv == Numbers /\ Anchored /\ PrintsInside /\ NothingPending

LEMMA MappingTypes ==
  ASSUME NEW m \in Mappings
  PROVE  m.address \in Nat /\ m.length \in Nat /\ m # NULL
BY MappingAssumption

(* What a decoded word returns is an address. *)
LEMMA DecodeReturnsAddress ==
  ASSUME NEW w \in Words, PushbufDecode(w)
  PROVE  nextaddr' \in Nat
<1>1. 4 * TargetOf(w) \in Nat
  BY WordFacts
<1>2. nextaddr' \in {0, 1, 4 * TargetOf(w)}
  BY DEF PushbufDecode, CommandWord, Parameter, Nop, Nv4Increasing, Nv4Constant, Nv4Long,
         Nv4LongCount, Nv4Other, Nv4OldJump, Nv4Jump, WideIncreasing, WideConstant,
         WideIncreaseOnce, WideInline, WideOldIncreasing, WideOldConstant, WideOther,
         MethodCommand, Quiet
<1> QED BY <1>1, <1>2

LEMMA InitUInv == UInit => UInv
BY DEF UInit, UInv, Init, Numbers, Anchored, PrintsInside, NothingPending

(* Steps that leave the pointers and the call alone. *)
LEMMA StepElsewhere ==
  ASSUME UInv, UNCHANGED << user, call >>, nextaddr' = nextaddr
  PROVE  UInv'
BY DEF UInv, user, call, Numbers, Anchored, PrintsInside, NothingPending, Inside, Limit

LEMMA StepWriteUser ==
  ASSUME UInv, NEW v \in Nat \cup {NULL}, WriteUser(v)
  PROVE  UInv'
BY DEF UInv, WriteUser, stream, decoder, user, Numbers, Anchored, PrintsInside, NothingPending,
       Inside, Limit

LEMMA StepUserDecode ==
  ASSUME UInv, UserDecode
  PROVE  UInv'
<1>1. pc' = "end" /\ written' = NULL /\ nextaddr' = nextaddr /\ cur' = cur /\ end' = end
  BY DEF UserDecode, stream, decoder
<1>2. CASE written = NULL
  BY <1>1, <1>2 DEF UInv, UserDecode, user, Numbers, Anchored, PrintsInside, NothingPending,
                    Inside, Limit
<1>3. CASE written # NULL /\ last # NULL /\ Inside(written, last)
  BY <1>1, <1>3 DEF UInv, UserDecode, Numbers, Anchored, PrintsInside, NothingPending,
                    Inside, Limit
<1>4. CASE written # NULL /\ ~(last # NULL /\ Inside(written, last)) /\ Found(written) = {}
  BY <1>1, <1>4 DEF UInv, UserDecode, Numbers, Anchored, PrintsInside, NothingPending
<1>5. CASE written # NULL /\ ~(last # NULL /\ Inside(written, last)) /\ Found(written) # {}
  <2>1. PICK m \in Found(written) :
          last' = (IF m.known THEN m ELSE NULL) /\ prev' = m.address /\ put' = written
    BY <1>5 DEF UserDecode
  <2>2. m \in Mappings /\ Inside(written, m)
    BY DEF Found
  <2>3. m.address \in Nat /\ m.length \in Nat /\ written \in Nat
    BY <1>5, <2>2, MappingTypes DEF UInv, Numbers
  <2>4. Inside(m.address, m)
    BY <2>2, <2>3 DEF Inside, Limit
  <2>5. Numbers' /\ Anchored'
    BY <1>1, <2>1, <2>2, <2>3, <2>4 DEF UInv, Numbers, Anchored, Inside, Limit
  <2> QED BY <1>1, <2>5 DEF UInv, PrintsInside, NothingPending
<1> QED BY <1>2, <1>3, <1>4, <1>5

LEMMA StepUserDecodeEnd ==
  ASSUME UInv, UserDecodeEnd
  PROVE  UInv'
<1>1. UNCHANGED << last, prev, put, nextaddr, written >>
  BY DEF UserDecodeEnd, user, stream, decoder
<1>2. CASE last = NULL \/ prev = put
  BY <1>1, <1>2 DEF UInv, UserDecodeEnd, Numbers, Anchored, PrintsInside, NothingPending,
                    Inside, Limit
<1>3. CASE last # NULL /\ prev # put
  <2>1. last.address \in Nat /\ last.length \in Nat
    BY <1>3, MappingTypes DEF UInv, Numbers
  <2> QED BY <1>1, <1>3, <2>1 DEF UInv, UserDecodeEnd, Numbers, Anchored, PrintsInside,
                                  NothingPending, Inside, Limit
<1> QED BY <1>2, <1>3

LEMMA StepPrintWord ==
  ASSUME UInv, Memory, PrintWord
  PROVE  UInv'
<1>1. UNCHANGED << last, prev, put, pc, written, memory >>
  BY DEF PrintWord, user
<1>2. last \in Mappings /\ last.known /\ last.address \in Nat /\ last.length \in Nat
  BY MappingTypes DEF UInv, PrintWord, Numbers, PrintsInside, Anchored
<1>3. cur \in last.address .. Limit(last) - 1
  BY <1>2 DEF UInv, PrintWord, Numbers, PrintsInside, Limit
<1>4. cur \in Addresses
  BY <1>2, <1>3 DEF Addresses
<1>5. nextaddr' \in Nat
  BY <1>4, DecodeReturnsAddress DEF PrintWord, Memory
<1> QED BY <1>1, <1>2, <1>5 DEF UInv, PrintWord, Numbers, Anchored, PrintsInside,
                                NothingPending, Inside, Limit

LEMMA StepWrapAround ==
  ASSUME UInv, WrapAround
  PROVE  UInv'
<1>1. last \in Mappings /\ last.address \in Nat /\ last.length \in Nat
  BY MappingTypes DEF UInv, WrapAround, Printed, Numbers, PrintsInside
<1>2. JumpTarget \in Nat
  BY DEF UInv, Numbers, JumpTarget
<1>3. nextaddr' = nextaddr /\ written' = written
  BY DEF WrapAround, stream, decoder
<1> QED BY <1>1, <1>2, <1>3 DEF UInv, WrapAround, Printed, JumpedBack, Numbers, Anchored,
                                PrintsInside, NothingPending, Inside, Limit

LEMMA StepReturn ==
  ASSUME UInv, Confused \/ PrintDone
  PROVE  UInv'
<1>1. nextaddr' = nextaddr /\ written' = written
  BY DEF Confused, PrintDone, stream, decoder
<1> QED BY <1>1 DEF UInv, Confused, PrintDone, Printed, Numbers, Anchored, PrintsInside,
                    NothingPending, Inside, Limit

(* The memory holds words. *)
LEMMA StepMemory ==
  ASSUME Memory, [UNext]_uvars
  PROVE  Memory'
<1>1. ASSUME NEW a \in Addresses, NEW w \in Words, WriteMemory(a, w)
      PROVE  Memory'
  BY <1>1 DEF WriteMemory, Memory
<1>2. CASE UNCHANGED memory
  BY <1>2 DEF Memory
<1>3. UNCHANGED memory \/ \E a \in Addresses, w \in Words : WriteMemory(a, w)
  BY DEF UNext, uvars, WriteUser, Ioctl, Decoding, UserDecode, UserDecodeEnd, PrintWord,
         WrapAround, Confused, PrintDone
<1> QED BY <1>1, <1>2, <1>3

LEMMA StepNext ==
  ASSUME UInv, Memory, [UNext]_uvars
  PROVE  UInv'
<1>1. ASSUME NEW a \in Addresses, NEW w \in Words, WriteMemory(a, w)
      PROVE  UInv'
  BY <1>1, StepElsewhere DEF WriteMemory, stream, decoder
<1>2. ASSUME NEW v \in Values \cup {NULL}, WriteUser(v)
      PROVE  UInv'
  BY <1>2, StepWriteUser, MappingAssumption
<1>3. CASE Decoding
  BY <1>3, StepUserDecode, StepUserDecodeEnd, StepPrintWord, StepWrapAround, StepReturn
     DEF Decoding
<1>4. CASE Ioctl
  BY <1>4, StepElsewhere DEF Ioctl, AddObject, NameObject, decoder
<1>5. CASE UNCHANGED uvars
  BY <1>5, StepElsewhere DEF uvars, stream, decoder
<1> QED BY <1>1, <1>2, <1>3, <1>4, <1>5 DEF UNext

THEOREM UInvariance == USpec => [](UInv /\ Memory)
<1>1. UInit => UInv /\ Memory
  BY InitUInv, MappingAssumption DEF UInit, Memory
<1>2. UInv /\ Memory /\ [UNext]_uvars => (UInv /\ Memory)'
  BY StepNext, StepMemory
<1> QED BY <1>1, <1>2, PTL DEF USpec

(* The words a call of user_print prints lie in the mapping it found,       *)
(* whatever the earlier calls left in prev_dma_put, dma_put and             *)
(* last_gpu_mapping, and however the mappings lie to each other.            *)
THEOREM PrintsInsideCorrect == USpec => []PrintsInside
<1>1. UInv /\ Memory => PrintsInside
  BY DEF UInv
<1> QED BY <1>1, UInvariance, PTL

(* A call of user_decode_end leaves nothing to print for the next           *)
(* user_decode, which would look for it in the mapping of an earlier call.  *)
THEOREM NothingPendingCorrect == USpec => []NothingPending
<1>1. UInv /\ Memory => NothingPending
  BY DEF UInv
<1> QED BY <1>1, UInvariance, PTL

-----------------------------------------------------------------------------
(* The pusher and a driver.                                                 *)

(* The words from p to a jump to the beginning of the buffer, and from      *)
(* there to q - 1, submit l.                                                *)
Around(mem, e, p, q, l) ==
  \E j \in p .. Limit(Buffer) - 1, r \in Seq(Sent), t \in Seq(Sent) :
    /\ mem[j] = JumpBack /\ l = Append(r, NoMethod) \o t
    /\ Run(mem, e, p, j, r) /\ Run(mem, << >>, Buffer.address, q, t)

(* The words of the buffer from p on, up to q, submit l. *)
Batch(mem, p, q, l) ==
  IF q < p THEN Around(mem, << >>, p, q, l) ELSE Run(mem, << >>, p, q, l)

(* Where the driver is. *)
Places ==
  /\ last \in {NULL, Buffer}
  /\ writing \in Nat /\ Buffer.address <= writing /\ writing < Limit(Buffer)
  /\ fence \in Nat /\ Buffer.address <= fence /\ fence < Limit(Buffer)
  /\ wrapped \in BOOLEAN /\ (wrapped <=> writing < fence)
  /\ ready \in Seq(Sent) /\ due \in Seq(Sent)

(* What it wrote since it set DMA_PUT is in memory. *)
Written == Batch(memory, fence, writing, ready)

(* Where the next words to decode are. *)
From == IF last = NULL THEN Buffer.address ELSE prev

Waiting == size = 0 /\ ~long

AtIdle == Waiting /\ due = << >> /\ From = fence

AtDecode ==
  /\ Waiting
  /\ written = NULL => due = << >> /\ From = fence
  /\ written # NULL => written = fence /\ Batch(memory, From, fence, due)

AtEnd ==
  /\ Waiting
  /\ last = NULL => due = << >> /\ fence = Buffer.address
  /\ last # NULL => put = fence /\ Batch(memory, prev, fence, due)

(* The jump is to come, or it was the last word. *)
Before == end = Limit(Buffer) /\ Around(memory, Expected, cur, fence, due)
After ==
  /\ end <= cur /\ nextaddr = 4 * Buffer.address /\ Waiting
  /\ Run(memory, << >>, Buffer.address, fence, due)

AtWrap == put = fence /\ ~long /\ (Before \/ After)
AtPrint == put = fence /\ end = fence /\ ~long /\ Run(memory, Expected, cur, fence, due)

Progress ==
  /\ pc = "idle" => AtIdle
  /\ pc = "decode" => AtDecode
  /\ pc = "end" => AtEnd
  /\ pc = "wrap" => AtWrap
  /\ pc = "print" => AtPrint

Shared == IInv /\ UInv /\ Memory
DInv == Shared /\ Places /\ Written /\ Progress

-----------------------------------------------------------------------------
(* The buffer and the commands.                                             *)

LEMMA BufferFacts ==
  /\ Buffer \in Mappings /\ Buffer.known /\ Buffer # NULL
  /\ Buffer.address \in Nat /\ Buffer.address # 0 /\ Buffer.length \in Nat
  /\ Limit(Buffer) \in Nat /\ Buffer.address < Limit(Buffer)
  /\ \A a \in Buffer.address .. Limit(Buffer) - 1 : a \in Addresses
<1>1. Buffer \in Mappings /\ Buffer.known /\ Buffer.length # 0
  BY DriverAssumption
<1>2. Buffer.address \in Nat /\ Buffer.length \in Nat /\ Buffer # NULL /\ Buffer.address # 0
  BY <1>1, MappingAssumption
<1>3. Limit(Buffer) \in Nat /\ Buffer.address < Limit(Buffer)
  BY <1>1, <1>2 DEF Limit
<1>4. \A a \in Buffer.address .. Limit(Buffer) - 1 : a \in Addresses
  BY <1>1 DEF Addresses
<1> QED BY <1>1, <1>2, <1>3, <1>4

LEMMA CommandFacts ==
  ASSUME NEW c \in Commands
  PROVE  /\ c \in Seq(Words) /\ c # << >> /\ Len(c) \in Nat /\ Len(c) # 0 /\ c[1] \in Words
         /\ Queue!Announces(c[1]) /\ Documented(c[1]) /\ Len(Queue!Methods(c[1])) = Len(c) - 1
         /\ Submission(c) = Sends(c) /\ Submission(c) \in Seq(Sent)
<1>1. /\ c \in Seq(Words) /\ c # << >> /\ Queue!Announces(c[1]) /\ Documented(c[1])
      /\ Len(Queue!Methods(c[1])) = Len(c) - 1
  BY DriverAssumption
<1>2. Len(c) \in Nat /\ Len(c) # 0 /\ c[1] \in Words /\ \A k \in 1 .. Len(c) : c[k] \in Words
  BY <1>1
<1>3. Submission(c) = Sends(c)
  BY DEF Submission, Sends
<1>4. Submission(c) \in Seq(Sent)
  BY <1>1, <1>3, SendsTyped
<1> QED BY <1>1, <1>2, <1>3, <1>4

LEMMA JumpFacts ==
  JumpBack \in Words /\ JumpBack.low = 1 /\ TargetOf(JumpBack) = Buffer.address /\ Chipset < GF100
BY DriverAssumption

-----------------------------------------------------------------------------
(* What one word does.                                                      *)

LEMMA ReadJump ==
  ASSUME IInv, PushbufDecode(JumpBack), size = 0, ~long
  PROVE  nextaddr' = 4 * Buffer.address /\ size' = 0 /\ ~long' /\ submitted' = NoMethod
<1>1. Chipset < GF100 /\ Chipset \in Nat /\ ~(Chipset >= GF100)
  BY SMT, JumpFacts, CountAssumption DEF GF100
<1>2. JumpBack.low = 1 /\ JumpBack # Zero
  BY JumpFacts DEF Zero
<1>3. Nv4Jump(JumpBack)
  BY <1>1, <1>2 DEF PushbufDecode, Parameter, AtParameter, CommandWord, Nop, Nv4Increasing, Nv4Constant,
     Nv4Long, Nv4LongCount, Nv4Other, Nv4OldJump, WideIncreasing, WideConstant, WideIncreaseOnce,
     WideInline, WideOldIncreasing, WideOldConstant, WideOther, WideCommand
<1> QED BY <1>3, JumpFacts DEF Nv4Jump, Load

-----------------------------------------------------------------------------
(* What every step keeps.                                                   *)

LEMMA CurrentWord ==
  ASSUME UInv, Memory, PrintWord
  PROVE  cur \in Nat /\ memory[cur] \in Words
<1>1. last \in Mappings /\ last.known /\ last.address \in Nat /\ last.length \in Nat
  BY MappingTypes DEF UInv, PrintWord, Numbers, PrintsInside, Anchored
<1>2. cur \in last.address .. Limit(last) - 1
  BY <1>1 DEF UInv, PrintWord, Numbers, PrintsInside, Limit
<1>3. cur \in Addresses
  BY <1>1, <1>2 DEF Addresses
<1> QED BY <1>2, <1>3 DEF Memory, UInv, Numbers

LEMMA StreamKept ==
  ASSUME IInv, UNCHANGED stream
  PROVE  IInv'
BY NextIInv DEF stream, vars

LEMMA SharedCommand ==
  ASSUME DInv, NEW c \in Commands, WriteCommand(c)
  PROVE  Shared'
<1>1. IInv'
  BY StreamKept DEF DInv, Shared, WriteCommand
<1>2. UInv'
  BY StepElsewhere DEF DInv, Shared, WriteCommand, stream, decoder
<1>3. ASSUME NEW a \in Addresses, a \in writing .. writing + Len(c) - 1 PROVE c[a - writing + 1] \in Words
  <2>1. a - writing + 1 \in 1 .. Len(c)
    BY <1>3, CommandFacts DEF DInv, Places
  <2> QED BY <2>1, CommandFacts
<1>4. Memory'
  BY <1>3 DEF DInv, Shared, WriteCommand, Memory
<1> QED BY <1>1, <1>2, <1>4 DEF Shared

LEMMA SharedElsewhere ==
  ASSUME Shared, WriteJump \/ SetDmaPut \/ WriteUser(NULL) \/ UNCHANGED dvars, writing \in Nat
  PROVE  Shared'
<1>1. UNCHANGED stream
  BY DEF WriteJump, SetDmaPut, WriteUser, dvars, uvars
<1>2. IInv'
  BY <1>1, StreamKept DEF Shared
<1>3. UInv'
  <2>1. CASE SetDmaPut
    BY <2>1, StepWriteUser DEF Shared, SetDmaPut
  <2>2. CASE WriteUser(NULL)
    BY <2>2, StepWriteUser DEF Shared
  <2>3. CASE WriteJump \/ UNCHANGED dvars
    BY <2>3, StepElsewhere DEF Shared, WriteJump, dvars, uvars, stream, decoder
  <2> QED BY <2>1, <2>2, <2>3
<1>4. Memory'
  <2>1. CASE WriteJump
    BY <2>1, JumpFacts DEF Shared, WriteJump, Memory
  <2>2. CASE UNCHANGED memory
    BY <2>2 DEF Shared, Memory
  <2> QED BY <2>1, <2>2 DEF SetDmaPut, WriteUser, dvars, uvars
<1> QED BY <1>2, <1>3, <1>4 DEF Shared

LEMMA SharedDecode ==
  ASSUME Shared, Decode
  PROVE  Shared'
<1>1. Decoding
  BY DEF Decode
<1>2. UInv' /\ UNCHANGED memory
  BY <1>1, StepUserDecode, StepUserDecodeEnd, StepPrintWord, StepWrapAround, StepReturn
     DEF Shared, Decoding, UserDecode, UserDecodeEnd, PrintWord, WrapAround, Confused, PrintDone
<1>3. IInv'
  <2>1. CASE PrintWord
    <3>1. memory[cur] \in Words /\ PushbufDecode(memory[cur])
      BY <2>1, CurrentWord DEF Shared, PrintWord
    <3> QED BY <3>1, NextIInv DEF Shared, Next
  <2>2. CASE ~PrintWord
    BY <1>1, <2>2, StreamKept DEF Shared, Decoding, UserDecode, UserDecodeEnd, WrapAround, Confused, PrintDone
  <2> QED BY <2>1, <2>2
<1> QED BY <1>2, <1>3 DEF Shared, Memory

-----------------------------------------------------------------------------
(* The driver writes.                                                       *)

LEMMA AppendNone ==
  ASSUME NEW r \in Seq(Sent)
  PROVE  /\ Append(r, NoMethod) \in Seq(Sent) /\ Append(r, NoMethod) # << >>
         /\ r = << >> => Head(Append(r, NoMethod)) = NoMethod /\ Tail(Append(r, NoMethod)) = << >>
         /\ r # << >> => /\ Head(Append(r, NoMethod)) = Head(r)
                         /\ Tail(Append(r, NoMethod)) = Append(Tail(r), NoMethod)
<1>1. NoMethod \in Sent
  BY DEF Sent
<1> PICK n : n = NoMethod
  OBVIOUS
<1>2. CASE r = << >>
  BY <1>1, <1>2
<1>3. CASE r # << >>
  BY <1>1, <1>3
<1> QED BY <1>2, <1>3

LEMMA AroundLonger ==
  ASSUME NEW r \in Seq(Sent), NEW t \in Seq(Sent), NEW u \in Seq(Sent)
  PROVE  /\ t \o u \in Seq(Sent)
         /\ (Append(r, NoMethod) \o t) \o u = Append(r, NoMethod) \o (t \o u)
<1>1. PICK s, v : s = Append(r, NoMethod) /\ v = s \o t
  OBVIOUS
<1>2. s \in Seq(Sent)
  BY <1>1, AppendNone
<1>3. v \o u = s \o (t \o u) /\ t \o u \in Seq(Sent)
  BY <1>1, <1>2, ConcatThree
<1> QED BY <1>1, <1>3

(* A batch grows by a command. *)
LEMMA BatchCommand ==
  ASSUME NEW mem, NEW new, NEW p \in Nat, NEW q \in Nat, NEW l \in Seq(Sent), Batch(mem, p, q, l),
         NEW c \in Commands, Buffer.address <= q, q < p => q + Len(c) < p,
         \A a \in Buffer.address .. Limit(Buffer) - 1 :
           a \notin q .. q + Len(c) - 1 => new[a] = mem[a],
         \A k \in 1 .. Len(c) : new[q + k - 1] = c[k],
         Buffer.address <= p, q + Len(c) < Limit(Buffer)
  PROVE  Batch(new, p, q + Len(c), l \o Submission(c))
<1> PICK n, B, L : n = Len(c) /\ B = Buffer.address /\ L = Limit(Buffer)
  OBVIOUS
<1>1. /\ c \in Seq(Words) /\ c # << >> /\ n \in Nat /\ n # 0
      /\ Queue!Announces(c[1]) /\ Documented(c[1]) /\ Len(Queue!Methods(c[1])) = Len(c) - 1
      /\ Submission(c) = Sends(c) /\ Submission(c) \in Seq(Sent)
  BY CommandFacts
<1>2. B \in Nat /\ L \in Nat
  BY BufferFacts
<1>3. ASSUME NEW a \in B .. L - 1, a < q \/ q + n <= a PROVE new[a] = mem[a]
  <2>1. ~(a \in q .. q + n - 1)
    BY <1>1, <1>2, <1>3
  <2> QED BY <2>1
<1>4. ASSUME NEW b \in Nat, B <= b, b <= q, NEW r \in Seq(Sent), Run(mem, << >>, b, q, r)
      PROVE  Run(new, << >>, b, q + n, r \o Submission(c))
  <2>1. ASSUME NEW a \in b .. q - 1 PROVE new[a] = mem[a]
    <3>1. a \in B .. L - 1 /\ a < q
      <4>1. q \in Nat /\ q < L
        BY <1>1, <1>2
      <4> QED BY <1>2, <1>4, <4>1
    <3> QED BY <1>3, <3>1
  <2> QED BY ZenonT(60), <1>1, <1>4, <2>1, RunCommand
<1>5. CASE ~(q < p)
  <2>1. p <= q /\ ~(q + n < p)
    BY <1>1, <1>5
  <2>2. Run(mem, << >>, p, q, l)
    BY <1>5 DEF Batch
  <2>3. Run(new, << >>, p, q + n, l \o Submission(c))
    BY <1>4, <2>1, <2>2
  <2> QED BY <2>1, <2>3 DEF Batch
<1>6. CASE q < p
  <2>1. PICK j \in p .. L - 1, r \in Seq(Sent), t \in Seq(Sent) :
          /\ mem[j] = JumpBack /\ l = Append(r, NoMethod) \o t
          /\ Run(mem, << >>, p, j, r) /\ Run(mem, << >>, B, q, t)
    BY <1>6 DEF Batch, Around
  <2>2. q + n < p
    BY <1>6
  <2>3. new[j] = JumpBack
    <3>1. j \in B .. L - 1 /\ q + n <= j
      BY <1>1, <1>2, <2>2
    <3> QED BY <1>3, <2>1, <3>1
  <2>4. Run(new, << >>, p, j, r)
    <3>1. ASSUME NEW a \in p .. j - 1 PROVE new[a] = mem[a]
      <4>1. a \in B .. L - 1 /\ q + n <= a
        BY <1>1, <1>2, <2>2
      <4> QED BY <1>3, <4>1
    <3> QED BY <2>1, <3>1, RunSame
  <2>5. Run(new, << >>, B, q + n, t \o Submission(c))
    <3>1. B \in Nat /\ B <= B /\ B <= q
      BY <1>2
    <3> QED BY <1>4, <2>1, <3>1
  <2>6. l \o Submission(c) = Append(r, NoMethod) \o (t \o Submission(c)) /\ t \o Submission(c) \in Seq(Sent)
    <3>1. t \in Seq(Sent) /\ Submission(c) \in Seq(Sent) /\ l = Append(r, NoMethod) \o t
      BY <1>1, <2>1
    <3> QED BY <3>1, AroundLonger, Zenon
  <2>7. Around(new, << >>, p, q + n, l \o Submission(c))
    BY <2>3, <2>4, <2>5, <2>6 DEF Around
  <2> QED BY <2>2, <2>7 DEF Batch
<1> QED BY <1>5, <1>6

LEMMA DriverCommand ==
  ASSUME DInv, NEW c \in Commands, WriteCommand(c)
  PROVE  Places' /\ Written' /\ Progress'
<1> PICK n : n = Len(c)
  OBVIOUS
<1>1. n \in Nat /\ n # 0 /\ Submission(c) \in Seq(Sent)
  BY CommandFacts
<1>2. /\ pc = "idle" /\ Fits(c) /\ writing' = writing + n /\ ready' = ready \o Submission(c)
      /\ UNCHANGED << stream, user, call, fence, wrapped, due >>
      /\ memory' = [a \in Addresses |-> IF a \in writing .. writing + n - 1
                                        THEN c[a - writing + 1] ELSE memory[a]]
  BY DEF WriteCommand
<1>3. Places /\ Written
  BY DEF DInv
<1>4. /\ Buffer.address \in Nat /\ Limit(Buffer) \in Nat
      /\ writing \in Nat /\ fence \in Nat /\ wrapped \in BOOLEAN /\ (wrapped <=> writing < fence)
      /\ Buffer.address <= writing /\ Buffer.address <= fence /\ fence < Limit(Buffer)
  BY <1>3, BufferFacts DEF Places
<1>5. writing + n < Limit(Buffer) /\ (writing < fence => writing + n < fence)
  BY <1>1, <1>2, <1>4 DEF Fits
<1>6. Places'
  <2>1. ready' \in Seq(Sent)
    BY <1>1, <1>2, <1>3, ConcatProperties, Zenon DEF Places
  <2>2. wrapped' \in BOOLEAN /\ (wrapped' <=> writing' < fence')
    BY <1>1, <1>2, <1>4, <1>5
  <2>3. writing' \in Nat /\ Buffer.address <= writing' /\ writing' < Limit(Buffer)
    BY <1>1, <1>2, <1>4, <1>5
  <2>4. last' = last /\ fence' = fence /\ due' = due
    BY <1>2 DEF user
  <2> QED BY <1>3, <2>1, <2>2, <2>3, <2>4 DEF Places
<1>7. ASSUME NEW k \in 1 .. n PROVE memory'[writing + k - 1] = c[k]
  <2> PICK a : a = writing + k - 1
    OBVIOUS
  <2>1. a \in Buffer.address .. Limit(Buffer) - 1 /\ a \in writing .. writing + n - 1 /\ a - writing + 1 = k
    BY <1>1, <1>4, <1>5
  <2>2. a \in Addresses
    BY <2>1, BufferFacts
  <2>3. memory'[a] = c[a - writing + 1]
    BY <1>2, <2>1, <2>2
  <2> QED BY <2>1, <2>3
<1>8. ASSUME NEW a \in Buffer.address .. Limit(Buffer) - 1, a \notin writing .. writing + n - 1
      PROVE  memory'[a] = memory[a]
  BY <1>2, <1>8, BufferFacts
<1>9. Written'
  <2>1. Batch(memory, fence, writing, ready) /\ ready \in Seq(Sent)
    BY <1>3 DEF Written, Places
  <2>2. Batch(memory', fence, writing + n, ready \o Submission(c))
    BY <1>4, <1>5, <1>7, <1>8, <2>1, BatchCommand
  <2> QED BY <1>2, <2>2 DEF Written
<1>10. Progress'
  BY <1>2 DEF DInv, Progress, AtIdle, Waiting, From, call, user, stream, decoder
<1> QED BY <1>6, <1>9, <1>10

LEMMA DriverJump ==
  ASSUME DInv, WriteJump
  PROVE  Places' /\ Written' /\ Progress'
<1>1. /\ pc = "idle" /\ ~wrapped /\ fence # Buffer.address
      /\ memory' = [memory EXCEPT ![writing] = JumpBack] /\ writing' = Buffer.address /\ wrapped' = TRUE
      /\ ready' = Append(ready, NoMethod) /\ UNCHANGED << stream, user, call, fence, due >>
  BY DEF WriteJump
<1>2. Places /\ Written /\ Memory
  BY DEF DInv, Shared
<1>3. /\ Buffer.address \in Nat /\ Limit(Buffer) \in Nat /\ Buffer.address < Limit(Buffer)
      /\ writing \in Nat /\ fence \in Nat /\ fence <= writing
      /\ Buffer.address < fence /\ Buffer.address <= writing /\ writing < Limit(Buffer)
      /\ ready \in Seq(Sent)
  BY <1>1, <1>2, BufferFacts DEF Places
<1>4. Places'
  BY <1>1, <1>2, <1>3, AppendNone DEF Places, user
<1>5. memory'[writing] = JumpBack /\ \A a \in fence .. writing - 1 : memory'[a] = memory[a]
  <2>1. writing \in Addresses
    BY <1>3, BufferFacts
  <2> QED BY <1>1, <1>2, <1>3, <2>1 DEF Memory
<1>6. Run(memory', << >>, fence, writing, ready)
  <2>1. Run(memory, << >>, fence, writing, ready)
    BY <1>2, <1>3 DEF Written, Batch
  <2> QED BY <1>3, <1>5, <2>1, RunSame
<1>7. Run(memory', << >>, Buffer.address, Buffer.address, << >>)
  BY <1>3, RunNone
<1>8. ready' = Append(ready, NoMethod) \o << >> /\ << >> \in Seq(Sent)
  <2>1. << >> \in Seq(Sent) /\ Append(ready, NoMethod) \in Seq(Sent)
    BY <1>3, AppendNone
  <2>2. Append(ready, NoMethod) \o << >> = Append(ready, NoMethod)
    BY <2>1, ConcatEmptySeq, Zenon
  <2> QED BY <1>1, <2>1, <2>2
<1>9. Around(memory', << >>, fence, Buffer.address, ready')
  <2>1. writing \in fence .. Limit(Buffer) - 1
    BY <1>3
  <2> QED BY <1>3, <1>5, <1>6, <1>7, <1>8, <2>1, Zenon DEF Around
<1>10. Written'
  BY <1>1, <1>3, <1>9 DEF Written, Batch
<1>11. Progress'
  BY <1>1 DEF DInv, Progress, AtIdle, Waiting, From, call, user, stream, decoder
<1> QED BY <1>4, <1>10, <1>11

(* A batch of nothing. *)
LEMMA BatchNone ==
  ASSUME NEW mem, NEW p \in Nat
  PROVE  Batch(mem, p, p, << >>)
BY RunNone DEF Batch

LEMMA DriverDmaPut ==
  ASSUME DInv, SetDmaPut
  PROVE  Places' /\ Written' /\ Progress'
<1>1. /\ pc = "idle" /\ pc' = "decode" /\ written' = writing /\ fence' = writing /\ wrapped' = FALSE
      /\ due' = ready /\ ready' = << >> /\ UNCHANGED << writing, stream, memory, user, cur, end >>
  BY DEF SetDmaPut, WriteUser
<1>2. Places /\ Written /\ AtIdle
  BY <1>1 DEF DInv, Progress
<1>3. Places'
  <2>1. << >> \in Seq(Sent)
    OBVIOUS
  <2>2. ~(writing < writing)
    BY <1>2 DEF Places
  <2> QED BY <1>1, <1>2, <2>1, <2>2 DEF Places, user
<1>4. Written'
  BY <1>1, <1>2, BatchNone DEF Written, Places
<1>5. writing # NULL
  BY <1>2, MappingAssumption DEF Places
<1>6. AtDecode'
  BY <1>1, <1>2, <1>5 DEF AtIdle, AtDecode, Waiting, From, Written, user, stream, decoder
<1> QED BY <1>1, <1>3, <1>4, <1>6 DEF Progress

LEMMA DriverOther ==
  ASSUME DInv, WriteUser(NULL), UNCHANGED driver
  PROVE  Places' /\ Written' /\ Progress'
<1>1. /\ pc = "idle" /\ pc' = "decode" /\ written' = NULL
      /\ UNCHANGED << stream, memory, user, cur, end, writing, fence, wrapped, ready, due >>
  BY DEF WriteUser, driver
<1>2. Places /\ Written /\ AtIdle
  BY <1>1 DEF DInv, Progress
<1>3. Places' /\ Written'
  BY <1>1, <1>2 DEF Places, Written, user
<1>4. AtDecode'
  BY <1>1, <1>2 DEF AtIdle, AtDecode, Waiting, From, user, stream, decoder
<1> QED BY <1>1, <1>3, <1>4 DEF Progress

-----------------------------------------------------------------------------
(* The words are decoded.                                                   *)

(* What a call does to the driver's side. *)
LEMMA DecodeKeeps ==
  ASSUME DInv, Decode, last' \in {NULL, Buffer}, due' \in Seq(Sent)
  PROVE  Places' /\ Written'
<1>1. UNCHANGED << writing, fence, wrapped, ready >>
  BY DEF Decode
<1>2. UNCHANGED memory
  BY DEF Decode, Decoding, UserDecode, UserDecodeEnd, PrintWord, WrapAround, Confused, PrintDone
<1> QED BY <1>1, <1>2 DEF DInv, Places, Written

(* A value of DMA_PUT in the buffer is in no other mapping. *)
LEMMA OnlyBuffer ==
  ASSUME NEW v \in Nat, Buffer.address <= v, v < Limit(Buffer)
  PROVE  Found(v) = {Buffer}
<1>1. Buffer \in Found(v)
  BY BufferFacts DEF Found, Inside
<1>2. ASSUME NEW m \in Found(v) PROVE m = Buffer
  <2>1. m \in Mappings /\ m.address <= v /\ v < m.address + m.length
    BY DEF Found, Inside, Limit
  <2>2. \/ m = Buffer
        \/ m.address + m.length <= Buffer.address \/ Buffer.address + Buffer.length <= m.address
    BY <2>1, BufferFacts, MappingAssumption
  <2>3. PICK a, n, b, k : a = m.address /\ n = m.length /\ b = Buffer.address /\ k = Buffer.length
    OBVIOUS
  <2>4. a \in Nat /\ n \in Nat /\ b \in Nat /\ k \in Nat
    BY <2>1, <2>3, MappingTypes, BufferFacts
  <2>5. a <= v /\ v < a + n /\ b <= v /\ v < b + k
    BY <2>1, <2>3 DEF Limit
  <2>6. ~(a + n <= b) /\ ~(b + k <= a)
    BY <2>4, <2>5
  <2> QED BY <2>2, <2>3, <2>6
<1> QED BY <1>1, <1>2

LEMMA DecodeUser ==
  ASSUME DInv, Decode, UserDecode
  PROVE  Places' /\ Written' /\ Progress'
<1>1. /\ pc = "decode" /\ pc' = "end" /\ due' = due
      /\ UNCHANGED << stream, memory, cur, end, writing, fence, wrapped, ready >>
  BY DEF UserDecode, Decode, Decodes
<1>2. Places /\ Written /\ AtDecode /\ UInv
  BY <1>1 DEF DInv, Progress, Shared
<1>3. Waiting'
  BY <1>1, <1>2 DEF AtDecode, Waiting, stream, decoder
<1>4. /\ fence \in Nat /\ Buffer.address <= fence /\ fence < Limit(Buffer) /\ due \in Seq(Sent)
      /\ last \in {NULL, Buffer}
  BY <1>2 DEF Places
<1>5. CASE written = NULL
  <2>1. UNCHANGED << last, prev, put >> /\ due = << >> /\ From = fence
    BY <1>2, <1>5 DEF UserDecode, AtDecode, user
  <2>2. last = NULL => fence = Buffer.address
    BY <2>1 DEF From
  <2>3. last # NULL => put = fence /\ prev = fence
    BY <1>1, <1>2, <2>1 DEF From, UInv, NothingPending
  <2>4. last # NULL => Batch(memory, prev, fence, due)
    BY <1>4, <2>1, <2>3, BatchNone
  <2>5. AtEnd'
    BY <1>1, <1>3, <2>1, <2>2, <2>3, <2>4 DEF AtEnd
  <2>6. last' \in {NULL, Buffer} /\ due' \in Seq(Sent)
    BY <1>1, <1>4, <2>1
  <2> QED BY <1>1, <2>5, <2>6, DecodeKeeps DEF Progress
<1>6. CASE written # NULL
  <2>1. written = fence /\ Batch(memory, From, fence, due)
    BY <1>2, <1>6 DEF AtDecode
  <2>2. last' = Buffer /\ put' = fence /\ prev' = From
    <3>1. CASE last # NULL
      <4>1. last = Buffer /\ Inside(written, last)
        BY <1>4, <2>1, <3>1 DEF Inside
      <4> QED BY <1>6, <2>1, <3>1, <4>1 DEF UserDecode, From
    <3>2. CASE last = NULL
      <4>1. Found(written) = {Buffer}
        BY <1>4, <2>1, OnlyBuffer
      <4>2. \E m \in Found(written) :
              last' = (IF m.known THEN m ELSE NULL) /\ prev' = m.address /\ put' = written
        BY <1>6, <3>2, <4>1 DEF UserDecode
      <4> QED BY <2>1, <3>2, <4>1, <4>2, BufferFacts DEF From
    <3> QED BY <3>1, <3>2
  <2>3. AtEnd'
    BY <1>1, <1>3, <2>1, <2>2, BufferFacts DEF AtEnd
  <2>4. last' \in {NULL, Buffer} /\ due' \in Seq(Sent)
    BY <1>1, <1>4, <2>2
  <2> QED BY <1>1, <2>3, <2>4, DecodeKeeps DEF Progress
<1> QED BY <1>5, <1>6

LEMMA DecodeEnd ==
  ASSUME DInv, Decode, UserDecodeEnd
  PROVE  Places' /\ Written' /\ Progress'
<1>1. /\ pc = "end" /\ due' = due
      /\ UNCHANGED << stream, memory, user, writing, fence, wrapped, ready >>
  BY DEF UserDecodeEnd, Decode, Decodes
<1>2. Places /\ Written /\ AtEnd /\ UInv /\ IInv
  BY <1>1 DEF DInv, Progress, Shared
<1>3. /\ fence \in Nat /\ due \in Seq(Sent) /\ last \in {NULL, Buffer} /\ prev \in Nat /\ put \in Nat
  BY <1>2 DEF Places, UInv, Numbers
<1>4. Places' /\ Written'
  BY <1>1, <1>3, DecodeKeeps DEF user
<1>5. Waiting /\ Waiting' /\ Expected = << >> /\ Expected' = Expected
  BY <1>1, <1>2, NothingOwed DEF AtEnd, Waiting, stream, decoder, Expected
<1>6. UNCHANGED << last, prev, put, fence, memory, due >>
  BY <1>1 DEF user
<1>7. CASE last = NULL
  <2>1. pc' = "idle" /\ due = << >> /\ fence = Buffer.address
    BY <1>2, <1>7 DEF UserDecodeEnd, AtEnd
  <2> QED BY <1>4, <1>5, <1>6, <1>7, <2>1 DEF Progress, AtIdle, From
<1>8. CASE last # NULL /\ prev = put
  <2>1. pc' = "idle" /\ put = fence /\ Batch(memory, prev, fence, due)
    BY <1>2, <1>8 DEF UserDecodeEnd, AtEnd
  <2>2. Run(memory, << >>, fence, fence, due)
    BY <1>3, <1>8, <2>1 DEF Batch
  <2>3. due = << >>
    BY <1>3, <2>2, RunOver
  <2> QED BY <1>4, <1>5, <1>6, <1>8, <2>1, <2>3 DEF Progress, AtIdle, From
<1>9. CASE last # NULL /\ prev # put /\ put < prev
  <2>1. pc' = "wrap" /\ cur' = prev /\ end' = Limit(Buffer) /\ put = fence
    BY <1>2, <1>3, <1>9 DEF UserDecodeEnd, AtEnd
  <2>2. Around(memory, << >>, prev, fence, due)
    BY <1>2, <1>9, <2>1 DEF AtEnd, Batch
  <2>3. Before'
    BY <1>5, <1>6, <2>1, <2>2 DEF Before
  <2> QED BY <1>4, <1>5, <1>6, <2>1, <2>3 DEF Progress, AtWrap, Waiting
<1>10. CASE last # NULL /\ prev # put /\ ~(put < prev)
  <2>1. pc' = "print" /\ cur' = prev /\ end' = put /\ put = fence
    BY <1>2, <1>3, <1>10 DEF UserDecodeEnd, AtEnd
  <2>2. Run(memory, << >>, prev, fence, due)
    BY <1>2, <1>10, <2>1 DEF AtEnd, Batch
  <2>3. AtPrint'
    BY <1>5, <1>6, <2>1, <2>2 DEF AtPrint, Waiting
  <2> QED BY <1>4, <2>1, <2>3 DEF Progress
<1> QED BY <1>7, <1>8, <1>9, <1>10

(* What is due after a word. *)
LEMMA DueStep ==
  ASSUME DInv, Decode, PrintWord
  PROVE  /\ due \in Seq(Sent) /\ cur \in Nat /\ fence \in Nat /\ memory[cur] \in Words
         /\ PushbufDecode(memory[cur]) /\ IInv
         /\ due # << >> => due' = Tail(due) /\ due' \in Seq(Sent)
         /\ UNCHANGED << memory, last, prev, put, pc, fence >> /\ last \in {NULL, Buffer}
<1>1. due \in Seq(Sent) /\ fence \in Nat /\ last \in {NULL, Buffer} /\ IInv
  BY DEF DInv, Places, Shared
<1>2. cur \in Nat /\ memory[cur] \in Words
  BY CurrentWord DEF DInv, Shared
<1>3. /\ PushbufDecode(memory[cur]) /\ UNCHANGED << memory, last, prev, put, pc, fence >>
      /\ pc \in {"wrap", "print"} /\ cur < end /\ due' = IF Decodes /\ due # << >> THEN Tail(due) ELSE due
  BY DEF PrintWord, Decode, user
<1>4. Decodes
  BY <1>3 DEF Decodes
<1>5. due # << >> => Tail(due) \in Seq(Sent)
  BY <1>1
<1> QED BY <1>1, <1>2, <1>3, <1>4, <1>5

(* The word submits what was due. *)
NextDue == due # << >> /\ Head(due) = submitted'

LEMMA DecodePrint ==
  ASSUME DInv, Decode, PrintWord, pc = "print"
  PROVE  Places' /\ Written' /\ Progress' /\ NextDue
<1>1. /\ due \in Seq(Sent) /\ cur \in Nat /\ fence \in Nat /\ memory[cur] \in Words
      /\ PushbufDecode(memory[cur]) /\ IInv
      /\ due # << >> => due' = Tail(due) /\ due' \in Seq(Sent)
      /\ UNCHANGED << memory, last, prev, put, pc, fence >> /\ last \in {NULL, Buffer}
  BY DueStep
<1>2. put = fence /\ end = fence /\ ~long /\ Run(memory, Expected, cur, fence, due) /\ cur < fence
  BY DEF DInv, Progress, AtPrint, PrintWord
<1>3. /\ due # << >> /\ Head(due) = submitted' /\ Tail(due) \in Seq(Sent)
      /\ nextaddr' = 0 /\ ~long' /\ Run(memory, Expected', cur + 1, fence, Tail(due))
  BY <1>1, <1>2, ReadRun
<1>4. cur' = cur + 1 /\ end' = end
  BY <1>3 DEF PrintWord
<1>5. AtPrint'
  BY <1>1, <1>2, <1>3, <1>4 DEF AtPrint
<1>6. Places' /\ Written'
  BY <1>1, <1>3, DecodeKeeps
<1> QED BY <1>1, <1>3, <1>5, <1>6 DEF Progress, NextDue

LEMMA DecodeWrap ==
  ASSUME DInv, Decode, PrintWord, pc = "wrap"
  PROVE  Places' /\ Written' /\ Progress' /\ NextDue
<1>1. /\ due \in Seq(Sent) /\ cur \in Nat /\ fence \in Nat /\ memory[cur] \in Words
      /\ PushbufDecode(memory[cur]) /\ IInv
      /\ due # << >> => due' = Tail(due) /\ due' \in Seq(Sent)
      /\ UNCHANGED << memory, last, prev, put, pc, fence >> /\ last \in {NULL, Buffer}
  BY DueStep
<1>2. put = fence /\ ~long /\ end = Limit(Buffer) /\ Around(memory, Expected, cur, fence, due)
  <2>1. AtWrap /\ cur < end /\ end \in Nat
    BY DEF DInv, Progress, PrintWord, Shared, UInv, Numbers
  <2>2. ~After
    BY <1>1, <2>1 DEF After
  <2> QED BY <2>1, <2>2 DEF AtWrap, Before
<1>3. PICK j \in cur .. Limit(Buffer) - 1, r \in Seq(Sent), t \in Seq(Sent) :
        /\ memory[j] = JumpBack /\ due = Append(r, NoMethod) \o t
        /\ Run(memory, Expected, cur, j, r)
        /\ Run(memory, << >>, Buffer.address, fence, t)
  BY <1>2 DEF Around
<1>4. j \in Nat /\ cur <= j /\ Limit(Buffer) \in Nat
  BY <1>1, <1>3, BufferFacts
<1> PICK s : s = Append(r, NoMethod)
  OBVIOUS
<1>5. due # << >> /\ Head(due) = Head(s) /\ Tail(due) = Tail(s) \o t
  <2>1. s \in Seq(Sent) /\ s # << >> /\ due = s \o t
    BY <1>3, AppendNone
  <2> QED BY <1>3, <2>1, ConcatFirst
<1>6. CASE cur < j
  <2>1. /\ r # << >> /\ Head(r) = submitted' /\ Tail(r) \in Seq(Sent)
        /\ nextaddr' = 0 /\ ~long' /\ Run(memory, Expected', cur + 1, j, Tail(r))
    BY <1>1, <1>2, <1>3, <1>4, <1>6, ReadRun
  <2>2. Head(due) = submitted' /\ due' = Append(Tail(r), NoMethod) \o t
    BY <1>1, <1>3, <1>5, <2>1, AppendNone
  <2>3. j \in cur + 1 .. Limit(Buffer) - 1
    BY <1>1, <1>4, <1>6
  <2>4. Around(memory, Expected', cur + 1, fence, due')
    BY <1>3, <2>1, <2>2, <2>3 DEF Around
  <2>5. cur' = cur + 1 /\ end' = end
    BY <2>1 DEF PrintWord
  <2>6. AtWrap'
    BY <1>1, <1>2, <2>1, <2>4, <2>5 DEF AtWrap, Before
  <2>7. Places' /\ Written'
    BY <1>1, <1>5, DecodeKeeps
  <2> QED BY <1>1, <1>5, <2>2, <2>6, <2>7 DEF Progress, NextDue
<1>7. CASE j = cur
  <2>1. Expected = << >> /\ r = << >>
    BY <1>1, <1>3, <1>7, RunOver
  <2>2. size = 0 /\ PushbufDecode(JumpBack)
    BY <1>1, <1>3, <1>7, <2>1, NothingOwed
  <2>3. nextaddr' = 4 * Buffer.address /\ size' = 0 /\ ~long' /\ submitted' = NoMethod
    BY <1>1, <1>2, <2>2, ReadJump
  <2>4. nextaddr' # 0
    BY <2>3, BufferFacts
  <2>5. cur' = cur /\ end' = cur
    BY <2>4 DEF PrintWord
  <2>6. due' = t /\ Head(due) = NoMethod
    <3>1. << >> \o t = t
      BY <1>3, ConcatEmptySeq, Zenon
    <3>2. Head(s) = NoMethod /\ Tail(s) = << >>
      BY <1>3, <2>1, AppendNone
    <3> QED BY <1>1, <1>5, <3>1, <3>2
  <2>7. After'
    BY <1>1, <1>3, <2>3, <2>5, <2>6 DEF After, Waiting
  <2>8. AtWrap'
    BY <1>1, <1>2, <2>3, <2>7 DEF AtWrap
  <2>9. Places' /\ Written'
    BY <1>1, <1>3, <2>6, DecodeKeeps
  <2>10. NextDue
    BY <1>5, <2>3, <2>6 DEF NextDue
  <2> QED BY <1>1, <2>8, <2>9, <2>10 DEF Progress
<1>8. cur < j \/ j = cur
  BY <1>1, <1>4
<1> QED BY <1>6, <1>7, <1>8

LEMMA DecodeAround ==
  ASSUME DInv, Decode, WrapAround \/ Confused
  PROVE  Places' /\ Written' /\ Progress'
<1> cur \in Nat /\ end \in Nat
  BY DEF DInv, Shared, UInv, Numbers
<1>1. pc = "wrap" /\ cur >= end /\ due' = due /\ UNCHANGED << stream, memory, fence >>
  BY DEF WrapAround, Confused, Printed, Decode, Decodes
<1>2. IInv /\ UInv /\ Places /\ AtWrap
  BY <1>1 DEF DInv, Shared, Progress
<1>3. /\ cur \in Nat /\ end \in Nat /\ last # NULL /\ last \in {NULL, Buffer} /\ due \in Seq(Sent)
      /\ fence \in Nat /\ Buffer.address <= fence /\ cur <= end
  BY <1>1, <1>2 DEF UInv, Numbers, PrintsInside, Places
<1>4. last = Buffer
  BY <1>3
<1>5. After /\ put = fence /\ ~long
  <2>1. ~Before
    <3>1. ASSUME Before PROVE FALSE
      <4>1. \E j \in cur .. Limit(Buffer) - 1 : TRUE
        BY <3>1 DEF Before, Around
      <4>2. cur < Limit(Buffer) /\ end = Limit(Buffer)
        BY <1>3, <3>1, <4>1, BufferFacts DEF Before
      <4> QED BY <1>1, <1>3, <4>2
    <3> QED BY <3>1
  <2> QED BY <1>2, <2>1 DEF AtWrap
<1>6. JumpTarget = Buffer.address /\ JumpedBack
  <2>1. PICK b : b = Buffer.address
    OBVIOUS
  <2>2. b \in Nat /\ b # 0 /\ nextaddr = 4 * b /\ b <= fence /\ b < Limit(Buffer)
    BY <1>3, <1>5, <2>1, BufferFacts DEF After
  <2>3. nextaddr # 0 /\ nextaddr % 4 = 0 /\ nextaddr \div 4 = b
    BY <2>2
  <2>4. Inside(b, last)
    BY <1>4, <2>1, <2>2 DEF Inside
  <2> QED BY <1>5, <2>1, <2>2, <2>3, <2>4 DEF JumpedBack, JumpTarget
<1>7. WrapAround
  BY <1>6 DEF Confused
<1>8. /\ pc' = "print" /\ cur' = Buffer.address /\ end' = put /\ put' = put /\ last' = last
  BY <1>6, <1>7 DEF WrapAround
<1>9. Expected' = << >> /\ ~long'
  <2>1. Expected' = Expected /\ long' = long
    BY <1>1 DEF stream, decoder, Expected
  <2> QED BY <1>2, <1>5, <2>1, NothingOwed DEF After, Waiting
<1>10. AtPrint'
  BY <1>1, <1>5, <1>8, <1>9 DEF After, AtPrint
<1>11. Places' /\ Written'
  BY <1>1, <1>3, <1>8, DecodeKeeps
<1> QED BY <1>8, <1>10, <1>11 DEF Progress

LEMMA DecodeDone ==
  ASSUME DInv, Decode, PrintDone
  PROVE  Places' /\ Written' /\ Progress'
<1> cur \in Nat /\ end \in Nat
  BY DEF DInv, Shared, UInv, Numbers
<1>1. /\ pc = "print" /\ cur >= end /\ due' = due /\ pc' = "idle" /\ prev' = put
      /\ UNCHANGED << stream, memory, fence, last >>
  BY DEF PrintDone, Printed, Decode, Decodes
<1>2. IInv /\ UInv /\ Places /\ AtPrint
  BY <1>1 DEF DInv, Shared, Progress
<1>3. /\ cur \in Nat /\ end \in Nat /\ last # NULL /\ last \in {NULL, Buffer} /\ due \in Seq(Sent)
      /\ fence \in Nat /\ cur <= end
  BY <1>1, <1>2 DEF UInv, Numbers, PrintsInside, Places
<1>4. cur = fence /\ put = fence /\ ~long /\ Run(memory, Expected, fence, fence, due)
  <2>1. cur = end
    BY <1>1, <1>3
  <2> QED BY <1>2, <2>1 DEF AtPrint
<1>5. Expected = << >> /\ due = << >>
  BY <1>3, <1>4, RunOver
<1>6. size = 0
  BY <1>2, <1>5, NothingOwed
<1>7. AtIdle'
  BY <1>1, <1>3, <1>4, <1>5, <1>6 DEF AtIdle, Waiting, From, stream, decoder
<1>8. Places' /\ Written'
  BY <1>1, <1>3, DecodeKeeps
<1> QED BY <1>1, <1>7, <1>8 DEF Progress

-----------------------------------------------------------------------------
(* The theorems.                                                            *)

LEMMA InitDInv == DInit => DInv
<1> SUFFICES ASSUME DInit PROVE DInv
  OBVIOUS
<1>1. UInit /\ writing = Buffer.address /\ fence = Buffer.address /\ wrapped = FALSE
      /\ ready = << >> /\ due = << >>
  BY DEF DInit
<1>2. IInv /\ UInv /\ Memory
  BY <1>1, InitIInv, InitUInv, MappingAssumption DEF UInit, Memory
<1>3. << >> \in Seq(Sent)
  OBVIOUS
<1>4. Places
  <2>1. last = NULL /\ ~(Buffer.address < Buffer.address) /\ Buffer.address <= Buffer.address
    BY <1>1, BufferFacts DEF UInit
  <2> QED BY <1>1, <1>3, <2>1, BufferFacts DEF Places
<1>5. Written
  <2>1. Batch(memory, Buffer.address, Buffer.address, << >>)
    BY BatchNone, BufferFacts
  <2> QED BY <1>1, <2>1 DEF Written
<1>6. Progress
  BY <1>1 DEF UInit, Init, Progress, AtIdle, Waiting, From
<1> QED BY <1>2, <1>4, <1>5, <1>6 DEF DInv, Shared

LEMMA DecodeStep ==
  ASSUME DInv, Decode
  PROVE  Places' /\ Written' /\ Progress'
<1>1. Decoding
  BY DEF Decode
<1>2. CASE PrintWord
  <2>1. pc = "wrap" \/ pc = "print"
    BY <1>2 DEF PrintWord
  <2> QED BY <1>2, <2>1, DecodePrint, DecodeWrap
<1> QED BY <1>1, <1>2, DecodeUser, DecodeEnd, DecodeAround, DecodeDone DEF Decoding

LEMMA NextDInv ==
  ASSUME DInv, [DNext]_dvars
  PROVE  DInv'
<1>1. ASSUME NEW c \in Commands, WriteCommand(c) PROVE DInv'
  BY <1>1, SharedCommand, DriverCommand DEF DInv
<1>2. CASE Decode
  BY <1>2, SharedDecode, DecodeStep DEF DInv
<1>3. Shared /\ writing \in Nat
  BY DEF DInv, Places
<1>4. CASE WriteJump
  BY <1>3, <1>4, SharedElsewhere, DriverJump DEF DInv
<1>5. CASE SetDmaPut
  BY <1>3, <1>5, SharedElsewhere, DriverDmaPut DEF DInv
<1>6. CASE WriteUser(NULL) /\ UNCHANGED driver
  BY <1>3, <1>6, SharedElsewhere, DriverOther DEF DInv
<1>7. CASE UNCHANGED dvars
  <2>1. Shared'
    BY <1>3, <1>7, SharedElsewhere
  <2>2. Places' /\ Written'
    BY <1>7 DEF DInv, Places, Written, dvars, uvars, user, driver
  <2>3. AtIdle' = AtIdle /\ AtDecode' = AtDecode /\ AtEnd' = AtEnd /\ AtWrap' = AtWrap /\ AtPrint' = AtPrint
    BY <1>7 DEF AtIdle, AtDecode, AtEnd, AtWrap, AtPrint, Before, After, Waiting, From, Expected,
                dvars, uvars, stream, decoder, call, user, driver
  <2>4. Progress'
    BY <1>7, <2>3 DEF DInv, Progress, dvars, uvars, call
  <2> QED BY <2>1, <2>2, <2>4 DEF DInv
<1> QED BY <1>1, <1>2, <1>4, <1>5, <1>6, <1>7 DEF DNext

(* Whatever the driver writes, the invariant holds: the words between where *)
(* the decoder stands and DMA_PUT submit what is due.                       *)
THEOREM DInvariance == DSpec => []DInv
BY InitDInv, NextDInv, PTL DEF DSpec

(* When a call of user_decode_end returns, all the words the driver         *)
(* submitted with DMA_PUT have been decoded, however the buffer wrapped     *)
(* around, and a command is expected next (user_decode, user_print).        *)
THEOREM AllDecodedCorrect == DSpec => []AllDecoded
<1>1. DInv => AllDecoded
  BY DEF DInv, Progress, AtIdle, Waiting, AllDecoded
<1> QED BY <1>1, DInvariance, PTL

(* A word that is decoded is the next one the driver submitted, and sends   *)
(* the method it meant, or none: no word is decoded twice, skipped, or      *)
(* before it was submitted (user_decode, user_print, pushbuf_decode).       *)
THEOREM DecodedAsSubmittedCorrect == DSpec => DecodedAsSubmitted
<1>1. DInv /\ [DNext]_dvars => [Decodes => due # << >> /\ Head(due) = submitted']_dvars
  <2> SUFFICES ASSUME DInv, DNext, Decodes PROVE due # << >> /\ Head(due) = submitted'
    OBVIOUS
  <2>1. pc \in {"wrap", "print"} /\ cur < end /\ cur \in Nat /\ end \in Nat
    BY DEF Decodes, DInv, Shared, UInv, Numbers
  <2>2. Decode
    BY <2>1 DEF DNext, WriteCommand, WriteJump, SetDmaPut, WriteUser
  <2>3. PrintWord
    BY <2>1, <2>2 DEF Decode, Decoding, UserDecode, UserDecodeEnd, WrapAround, Confused, PrintDone, Printed
  <2>4. NextDue
    BY <2>1, <2>2, <2>3, DecodePrint, DecodeWrap
  <2> QED BY <2>1, <2>4 DEF NextDue
<1> QED BY <1>1, DInvariance, PTL DEF DSpec, DecodedAsSubmitted
=============================================================================
