------------------------------ MODULE Bitstream ------------------------------
(***************************************************************************)
(* src/vstream/bitstream.c: reading and writing the bits of a video        *)
(* stream.  One function does both, after the direction of its stream.     *)
(* In H.262 and H.264 a unit begins at a byte boundary with a start code,  *)
(* 00 00 01 and a byte, which must not appear inside a unit: the writer of *)
(* H.262 refuses to, the one of H.264 puts a 03 in between.  In H.261 and  *)
(* H.263 a start code is a run of zero bits that the others never reach,   *)
(* a 1 and a few bits.                                                     *)
(*                                                                         *)
(* A stream is written, call by call, and then read with the same calls.   *)
(* The reader may also lose its way, read what it likes and search for the *)
(* next start code, as deh261.c, deh262.c and deh264.c do after an error.  *)
(* Bytes and words have fewer bits here (ByteBits, WordBits).              *)
(***************************************************************************)
EXTENDS Integers, Sequences, SequencesExt, FiniteSetsExt

CONSTANTS
  Type,      \* the types considered
  ByteBits,  \* 8
  WordBits,  \* 32
  ZeroRun,   \* the zero bits of a start code: 15 in H.261, 16 in H.263
  StartBits, \* 4 and 5
  Codes,     \* a table of vs_vlc: [val, bits], in order
  StartCode, \* the values of start codes
  Calls,     \* the other calls of each type: [op, size, v]
  MaxCalls,  \* bound on these in a stream of each type
  MaxUnits   \* bound on its start codes

BitTypes == {"H261", "H263"}
Top == ByteBits - 1

ASSUME SizesAssumption ==
  /\ Type \subseteq BitTypes \cup {"H262", "H264"}
  /\ ByteBits \in Nat /\ ByteBits > 3 /\ WordBits \in Nat \ {0}
  /\ {ZeroRun, StartBits} \subseteq [BitTypes -> Nat]
  /\ DOMAIN Calls = Type /\ MaxCalls \in [Type -> Nat] /\ MaxUnits \in Nat

VARIABLES
  type,
  out,     \* struct bitstream of the writer; status is "ok", "failed" when a
           \* call returned 1, "undefined" after a shift by a word's size
  plan,    \* history: the calls that were made
  starts,  \* history: [at, k] of each start code: the bits up to its end
           \* and the number of its call
  in,      \* struct bitstream of the reader, and how much of it was read
  pc,
  k,       \* how many calls the reader has made, as the writer did
  from     \* history: how many bits were read when the search began

bvars == << type, out, plan, starts, in, pc, k, from >>

Init ==
  /\ type \in Type /\ plan = << >> /\ starts = << >>
  /\ out = [bytes |-> << >>, cur |-> 0, bitpos |-> Top, zeroBytes |-> 0, zeroBits |-> 0,
            status |-> "ok"]
  /\ in = [pos |-> 0, cur |-> 0, has |-> FALSE, bitpos |-> Top, zeroBytes |-> 0,
           zeroBits |-> 0, status |-> "ok", v |-> 0, tripped |-> FALSE]
  /\ pc = "write" /\ k = 0 /\ from = 0

Fail(s) == [s EXCEPT !.status = "failed"]
Zeros(z, x) == IF x = 0 THEN z + 1 ELSE 0
BitsOf(v, n) == [i \in 1 .. n |-> (v \div 2^(n - i)) % 2]

(* The check of vs_u. *)
RunChecked(s) ==
  IF s.status = "ok" /\ type \in BitTypes /\ s.zeroBits >= ZeroRun[type] THEN Fail(s) ELSE s

-----------------------------------------------------------------------------
(* Writing.                                                                 *)

(* Wrong on purpose: the escape does not start a new run of zeros. *)
PutByteMutant(s) ==
  LET escaped == type = "H264" /\ s.cur < 4 /\ s.zeroBytes = 2
  IN IF type = "H262" /\ s.cur < 2 /\ s.zeroBytes >= 2 THEN Fail(s)
     ELSE [s EXCEPT !.bytes = @ \o (IF escaped THEN << 3 >> ELSE << >>) \o << s.cur >>,
                    !.zeroBytes = Zeros(@, s.cur),
                    !.cur = 0, !.bitpos = Top]

(* vs_byte *)
PutByte(s) ==
  LET escaped == type = "H264" /\ s.cur < 4 /\ s.zeroBytes = 2
  IN IF type = "H262" /\ s.cur < 2 /\ s.zeroBytes >= 2 THEN Fail(s)
     ELSE [s EXCEPT !.bytes = @ \o (IF escaped THEN << 3 >> ELSE << >>) \o << s.cur >>,
                    !.zeroBytes = Zeros(IF escaped THEN 0 ELSE @, s.cur),
                    !.cur = 0, !.bitpos = Top]

PutBit(s, b) ==
  LET t == [s EXCEPT !.cur = @ + b * 2^s.bitpos]
      u == IF s.bitpos = 0 THEN PutByte(t) ELSE [t EXCEPT !.bitpos = @ - 1]
  IN IF u.status = "ok" THEN [u EXCEPT !.zeroBits = Zeros(@, b)] ELSE u

(* vs_u of these bits. *)
PutBits(s, bits) ==
  FoldLeft(LAMBDA t, b : IF t.status = "ok" THEN RunChecked(PutBit(t, b)) ELSE t, s, bits)

(* vs_ue: a value of 2^31 - 1 or more shifts by the size of a word. *)
PutUe(s, v) ==
  IF v = 2^WordBits - 1 THEN Fail(s)
  ELSE IF v >= 2^(WordBits - 1) - 1 THEN [s EXCEPT !.status = "undefined"]
  ELSE LET lzb == Min({ n \in 0 .. WordBits : v < 2^(n + 1) - 1 })
       IN PutBits(s, BitsOf(0, lzb) \o << 1 >> \o BitsOf(v - (2^lzb - 1), lzb))

(* vs_se: the least number of a word has no code. *)
Unsigned(v) == IF v > 0 THEN 2 * v - 1 ELSE -2 * v
Signed(u) == IF u % 2 = 1 THEN (u + 1) \div 2 ELSE -(u \div 2)
PutSe(s, v) == IF v = -2^(WordBits - 1) THEN Fail(s) ELSE PutUe(s, Unsigned(v))

(* vs_vlc *)
PutVlc(s, v) ==
  LET i == SelectInSeq(Codes, LAMBDA c : c.val = v)
  IN IF i = 0 THEN Fail(s) ELSE PutBits(s, Codes[i].bits)

(* vs_start; in H.262 and H.264 the count of zero bytes goes on. *)
PutStart(s, v) ==
  IF type \in BitTypes
  THEN LET marker == BitsOf(1, IF s.zeroBits < ZeroRun[type] THEN ZeroRun[type] - s.zeroBits + 1 ELSE 1)
       IN PutBits(FoldLeft(PutBit, s, marker), BitsOf(v, StartBits[type]))
  ELSE IF s.bitpos # Top THEN Fail(s)
  ELSE [s EXCEPT !.bytes = @ \o << 0, 0, 1, v >>]

(* vs_align_byte; the mode is the first of the bits, and the others. *)
Padding(first, others, bitpos) == first * 2^bitpos + others * (2^bitpos - 1)

PutAlign(s, first, others) ==
  IF s.bitpos = Top THEN s ELSE PutByte([s EXCEPT !.cur = @ + Padding(first, others, s.bitpos)])

(* vs_end *)
PutEnd(s) ==
  LET t == IF type = "H264" THEN PutBits(s, << 1 >>) ELSE s
  IN IF t.status = "ok" THEN PutAlign(t, 0, 0) ELSE t

Put(s, c) ==
  CASE c.op = "u"     -> PutBits(s, BitsOf(c.v, c.size))
    [] c.op = "ue"    -> PutUe(s, c.v)
    [] c.op = "se"    -> PutSe(s, c.v)
    [] c.op = "vlc"   -> PutVlc(s, c.v)
    [] c.op = "start" -> PutStart(s, c.v)
    [] c.op = "align" -> PutAlign(s, c.v, c.v)
    [] c.op = "end"   -> PutEnd(s)

-----------------------------------------------------------------------------
(* Reading.  v is what the call returns.                                    *)

Size == Len(out.bytes)
Taken(s, n, b) ==
  [s EXCEPT !.pos = @ + n, !.cur = b, !.has = TRUE, !.bitpos = Top, !.zeroBytes = Zeros(@, b)]

(* vs_byte *)
GetByte(s) ==
  LET b == out.bytes[s.pos + 1]
      escaped == out.bytes[s.pos + 2]
  IN IF s.pos = Size THEN Fail(s)
     ELSE IF s.zeroBytes >= 2 /\ b < (CASE type = "H262" -> 2 [] type = "H264" -> 3 [] OTHER -> 0)
     THEN Fail([s EXCEPT !.pos = @ + 1, !.cur = b, !.tripped = (b = 1)])
     ELSE IF type = "H264" /\ s.zeroBytes = 2 /\ b = 3
     THEN IF s.pos + 1 = Size THEN Fail([s EXCEPT !.pos = @ + 1, !.cur = b])
          ELSE IF escaped > 3
          THEN Fail([s EXCEPT !.pos = @ + 2, !.cur = escaped, !.zeroBytes = 0])
          ELSE Taken([s EXCEPT !.zeroBytes = 0], 2, escaped)
     ELSE Taken(s, 1, b)

GetBit(s) ==
  LET t == IF s.has THEN s ELSE GetByte(s)
      b == (t.cur \div 2^t.bitpos) % 2
  IN IF t.status # "ok" THEN t
     ELSE [t EXCEPT !.has = (t.bitpos # 0), !.bitpos = IF @ = 0 THEN Top ELSE @ - 1,
                    !.zeroBits = Zeros(@, b), !.v = 2 * @ + b]

UpTo(n) == [i \in 1 .. n |-> i]
BitsLeft(s) == (Size - s.pos + 1) * ByteBits

GetBits(s, n) ==
  FoldLeft(LAMBDA t, i : IF t.status = "ok" THEN RunChecked(GetBit(t)) ELSE t,
           [s EXCEPT !.v = 0], UpTo(n))

GetUe(s) ==
  LET Next1(t, i) ==
        IF t.s.status = "ok" /\ t.s.v = 0 THEN [s |-> GetBits(t.s, 1), read |-> t.read + 1] ELSE t
      prefix == FoldLeft(Next1, [s |-> [s EXCEPT !.v = 0], read |-> 0], UpTo(BitsLeft(s) + 1))
      lzb == prefix.read - 1
      rest == GetBits(prefix.s, lzb)
  IN IF prefix.s.status # "ok" THEN prefix.s
     ELSE IF lzb > WordBits - 1 THEN Fail(prefix.s)
     ELSE [rest EXCEPT !.v = @ + 2^lzb - 1]

(* vs_vlc: the codes are tried in order, and bits are read as needed. *)
GetVlc(s) ==
  LET Compare(t, b) ==
        LET u == IF t.j < Len(t.read) THEN t
                 ELSE [t EXCEPT !.s = GetBits(@, 1), !.read = Append(@, GetBits(t.s, 1).v)]
        IN IF ~t.same THEN t
           ELSE [u EXCEPT !.j = @ + 1, !.same = (u.read[u.j + 1] = b /\ u.s.status = "ok")]
      Try(t, c) ==
        LET u == FoldLeft(Compare, [t EXCEPT !.j = 0, !.same = TRUE], c.bits)
        IN IF t.same \/ t.s.status # "ok" THEN t
           ELSE IF u.same THEN [u EXCEPT !.s.v = c.val] ELSE u
      end == FoldLeft(Try, [s |-> s, read |-> << >>, j |-> 0, same |-> FALSE], Codes)
  IN IF end.same THEN end.s ELSE Fail(end.s)

(* vs_start *)
GetStart(s) ==
  LET ReadZero(t, i) ==
        IF t.status # "ok" \/ t.zeroBits >= ZeroRun[type] THEN t
        ELSE LET u == GetBit([t EXCEPT !.v = 0]) IN IF u.v = 1 THEN Fail(u) ELSE u
      run == FoldLeft(ReadZero, [s EXCEPT !.v = 0], UpTo(BitsLeft(s)))
      ReadOne(t, i) == IF t.status # "ok" \/ t.v = 1 THEN t ELSE GetBit([t EXCEPT !.v = 0])
      one == FoldLeft(ReadOne, run, UpTo(BitsLeft(run)))
      zeros == SelectInSeq(SubSeq(out.bytes, s.pos + 1, Size), LAMBDA b : b # 0) - 1
      marker == s.pos + zeros + 1
      t == [s EXCEPT !.pos = marker, !.cur = out.bytes[marker], !.zeroBytes = @ + zeros]
  IN IF type \in BitTypes
     THEN IF one.status = "ok" THEN GetBits(one, StartBits[type]) ELSE one
     ELSE IF s.bitpos # Top THEN Fail(s)
     ELSE IF zeros < 0 THEN Fail([s EXCEPT !.zeroBytes = @ + Size - s.pos, !.pos = Size])
     ELSE IF t.cur # 1 \/ t.zeroBytes < 2 \/ marker = Size THEN Fail(t)
     ELSE [t EXCEPT !.pos = marker + 1, !.cur = out.bytes[marker + 1], !.v = out.bytes[marker + 1],
                    !.zeroBytes = 0]

GetAlign(s, first, others) ==
  LET t == IF s.has THEN GetBits(s, s.bitpos + 1) ELSE s
  IN IF t.status # "ok" THEN t
     ELSE IF s.has /\ t.v # Padding(first, others, s.bitpos) THEN Fail(t)
     ELSE [t EXCEPT !.has = FALSE, !.bitpos = Top]

GetEnd(s) ==
  LET t == IF type = "H264" THEN GetBits(s, 1) ELSE s
  IN IF t.status # "ok" THEN t
     ELSE IF type = "H264" /\ t.v # 1 THEN Fail(t) ELSE GetAlign(t, 0, 0)

Get(s, c) ==
  CASE c.op = "u"     -> GetBits(s, c.size)
    [] c.op = "ue"    -> GetUe(s)
    [] c.op = "se"    -> LET t == GetUe(s) IN [t EXCEPT !.v = Signed(@)]
    [] c.op = "vlc"   -> GetVlc(s)
    [] c.op = "start" -> GetStart(s)
    [] c.op = "align" -> GetAlign(s, c.v, c.v)
    [] c.op = "end"   -> GetEnd(s)

(* Wrong on purpose: an escape counts as the end of the unit. *)
MoreDataMutant(s) ==
  LET next == IF s.pos < Size THEN out.bytes[s.pos + 1] ELSE 0
      here == (IF s.has THEN s.cur ELSE next) % 2^(s.bitpos + 1)
      offs == s.pos + (IF type = "H264" /\ ~s.has THEN 1 ELSE 0)
      Above(i, least) == offs + i <= Size /\ out.bytes[offs + i] > least
  IN \/ type = "H264" /\ here # 2^s.bitpos
     \/ type = "H262" /\ s.has /\ here # 0
     \/ Above(1, 0) \/ Above(2, 0) \/ Above(3, 3)

(* vs_has_more_data *)
MoreData(s) ==
  LET next == IF s.pos < Size THEN out.bytes[s.pos + 1] ELSE 0
      here == (IF s.has THEN s.cur ELSE next) % 2^(s.bitpos + 1)
      offs == s.pos + (IF type = "H264" /\ ~s.has THEN 1 ELSE 0)
      Above(i, least) == offs + i <= Size /\ out.bytes[offs + i] > least
  IN \/ type = "H264" /\ here # 2^s.bitpos
     \/ type = "H262" /\ s.has /\ here # 0
     \/ Above(1, 0) \/ Above(2, 0) \/ Above(3, 2)

(* Wrong on purpose: a third zero byte is counted. *)
SearchedMutant(s) ==
  LET BitStep(t, i) == IF t.status # "ok" \/ t.zeroBits >= ZeroRun[type] THEN t ELSE GetBit(t)
      ByteStep(t, b) ==
        IF t.found \/ (t.s.zeroBytes = 2 /\ b = 1) THEN [t EXCEPT !.found = TRUE]
        ELSE [t EXCEPT !.s.pos = @ + 1, !.s.zeroBytes = Zeros(@, b)]
      bits == FoldLeft(BitStep, [s EXCEPT !.status = "ok"], UpTo(BitsLeft(s)))
      bytes == FoldLeft(ByteStep,
                        [s |-> [s EXCEPT !.status = "ok", !.has = FALSE, !.bitpos = Top], found |-> FALSE],
                        SubSeq(out.bytes, s.pos + 1, Size))
  IN IF type \in BitTypes
     THEN [s |-> bits, found |-> (bits.has \/ bits.pos < Size) /\ bits.zeroBits >= ZeroRun[type]]
     ELSE bytes

(* vs_search_start *)
Searched(s) ==
  LET BitStep(t, i) == IF t.status # "ok" \/ t.zeroBits >= ZeroRun[type] THEN t ELSE GetBit(t)
      ByteStep(t, b) ==
        IF t.found \/ (t.s.zeroBytes = 2 /\ b = 1) THEN [t EXCEPT !.found = TRUE]
        ELSE [t EXCEPT !.s.pos = @ + 1,
                       !.s.zeroBytes = IF b = 0 /\ @ = 2 THEN 2 ELSE Zeros(@, b)]
      bits == FoldLeft(BitStep, [s EXCEPT !.status = "ok"], UpTo(BitsLeft(s)))
      bytes == FoldLeft(ByteStep,
                        [s |-> [s EXCEPT !.status = "ok", !.has = FALSE, !.bitpos = Top], found |-> FALSE],
                        SubSeq(out.bytes, s.pos + 1, Size))
  IN IF type \in BitTypes
     THEN [s |-> bits, found |-> (bits.has \/ bits.pos < Size) /\ bits.zeroBits >= ZeroRun[type]]
     ELSE bytes

-----------------------------------------------------------------------------
(* The calls that are made.                                                 *)

Start(v) == [op |-> "start", size |-> 0, v |-> v]
End == [op |-> "end", size |-> 0, v |-> 0]
InUnit == plan # << >> /\ Last(plan).op # "end"
Written(s) == Len(s.bytes) * ByteBits + Top - s.bitpos
Consumed(s) == s.pos * ByteBits - (IF s.has THEN s.bitpos + 1 ELSE 0)

Write(c) ==
  /\ pc = "write" /\ out.status = "ok"
  /\ out' = Put(out, c) /\ plan' = Append(plan, c)
  /\ UNCHANGED << type, in, pc, k, from >>

WriteStart(v) ==
  /\ Len(starts) < MaxUnits /\ (InUnit => type \in BitTypes \/ Last(plan).op = "start")
  /\ Write(Start(v))
  /\ starts' = Append(starts, [at |-> Written(out'), k |-> Len(plan')])

WriteCall(c) ==
  /\ InUnit /\ Len(SelectSeq(plan, LAMBDA p : p.op \notin {"start", "end"})) < MaxCalls[type]
  /\ Write(c) /\ UNCHANGED starts

WriteEnd == InUnit /\ type \notin BitTypes /\ Write(End) /\ UNCHANGED starts

(* The stream is complete; the last byte of bits is filled with ones.       *)
Close ==
  /\ pc = "write" /\ out.status = "ok" /\ plan # << >> /\ (type \in BitTypes \/ ~InUnit)
  /\ out' = IF type \in BitTypes THEN PutAlign(out, 1, 1) ELSE out
  /\ pc' = "read"
  /\ UNCHANGED << type, plan, starts, in, k, from >>

Read ==
  /\ pc = "read" /\ k < Len(plan)
  /\ in' = Get(in, plan[k + 1]) /\ k' = k + 1
  /\ UNCHANGED << type, out, plan, starts, pc, from >>

(* The reader takes the stream for something else. *)
Astray ==
  /\ pc \in {"read", "astray"} /\ in.status = "ok"
  /\ in' = GetBits(in, 1) /\ pc' = "astray"
  /\ UNCHANGED << type, out, plan, starts, k, from >>

Search ==
  LET found == Searched(in)
  IN /\ pc \in {"read", "astray"}
     /\ in' = found.s /\ pc' = IF found.found THEN "found" ELSE "lost"
     /\ from' = Consumed(in)
     /\ UNCHANGED << type, out, plan, starts, k >>

(* The start code that was found is read, and the calls after it. *)
Restart ==
  /\ pc = "found" /\ ~in.tripped /\ in' = GetStart(in) /\ pc' = "read"
  /\ \E s \in ToSet(starts) : s.at = Consumed(in') /\ k' = s.k
  /\ UNCHANGED << type, out, plan, starts, from >>

Next ==
  \/ \E v \in StartCode : WriteStart(v)
  \/ \E c \in Calls[type] : WriteCall(c)
  \/ WriteEnd \/ Close \/ Read \/ Astray \/ Search \/ Restart

Spec == Init /\ [][Next]_bvars

-----------------------------------------------------------------------------
(* What was written, if the writer did not refuse, is read back, escapes    *)
(* and start codes taken out, and at the end nothing is left over; also     *)
(* after the reader had lost its way and has found the next start code.     *)
RoundTrip ==
  pc = "read" =>
    /\ in.status = "ok"
    /\ k > 0 /\ plan[k].op \notin {"align", "end"} => in.v = plan[k].v
    /\ k = Len(plan) => in.pos = Size /\ (type \notin BitTypes => ~in.has)

(* vs_has_more_data tells the stop bit of a unit from data that look like   *)
(* it, across bytes, zero bytes and escapes; the loop over macroblocks has  *)
(* no other end.                                                            *)
HasMore ==
  pc = "read" /\ k < Len(plan) =>
    /\ plan[k + 1] = End => ~MoreData(in)
    /\ type = "H264" /\ plan[k + 1].op \notin {"start", "align", "end"} => MoreData(in)

(* Wherever the reader lost its way, vs_search_start leads it to the next   *)
(* start code, and to nothing that only looks like one: unless it has taken *)
(* the 01 of a start code for data, which vs_byte refuses too late.         *)
Marker(s) == s.at - (IF type \in BitTypes THEN StartBits[type] + 1 ELSE 2 * ByteBits)

Resync ==
  LET ahead == SelectSeq(starts, LAMBDA s : Marker(s) >= from)
      code == GetStart(in)
  IN ~in.tripped =>
       /\ pc = "found" => /\ ahead # << >> /\ code.status = "ok"
                          /\ Consumed(code) = ahead[1].at /\ code.v = plan[ahead[1].k].v
       /\ pc = "lost" => ahead = << >>
=============================================================================
