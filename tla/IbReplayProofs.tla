---------------------------- MODULE IbReplayProofs ----------------------------
(***************************************************************************)
(* Proofs about IbPusher and a driver that uses it, for any ring, buffer,  *)
(* commands and pieces: the words of the entries are decoded in their      *)
(* order, each once and as the driver meant it, and all of them when the   *)
(* call returns.                                                           *)
(***************************************************************************)
EXTENDS IbReplay, MethodStreamProofs

(* A slot holds an entry for the n words from a on. *)
Entry(s, a, n) == low[s] = LowOf(a) /\ high[s] = HighOf(a, n)

(* The next word to decode. *)
From == start - Len(due)

Stored ==
  /\ memory \in [Addresses -> Words]
  /\ low \in [Slot -> Nat] /\ high \in [Slot -> [high : Nat, size : Nat]]

(* Where the driver is. *)
Places ==
  /\ start \in Nat /\ ready \in Seq(Sent) /\ due \in Seq(Sent) /\ slot \in Ring
  /\ Buffer.address + Len(due) <= start /\ start + Len(ready) <= Buffer.address + Buffer.length
  /\ piece \in 0 .. Len(ready) /\ (piece # 0 => low[slot] = LowOf(start))

(* The ring is recognised by its first entry, and from its first slot on. *)
Recognised ==
  /\ is \in BOOLEAN
  /\ ~is => start = Buffer.address /\ slot = RingStart
  /\ is => offset = 2 * RingStart /\ entries \in {0, RingSlots}

(* The words from the next one on to where the driver writes submit what is *)
(* due and then what is ready.                                              *)
Meant == ~long /\ Run(memory, Expected, From, writing, due \o ready)

(* The entries in what is left of a write: none, one, or two of them.       *)
None == due = << >> /\ at <= stop /\ \A i \in at .. stop - 1 : i % 2 = 0

One ==
  \E s \in Ring :
    /\ at \in {2 * s, 2 * s + 1} /\ stop = 2 * s + 2
    /\ Len(due) # 0 /\ Entry(s, From, Len(due))

Two ==
  \E s \in Ring, n \in Nat, m \in Nat :
    /\ at \in {2 * s, 2 * s + 1} /\ stop = 2 * s + 4 /\ s + 1 \in Ring
    /\ n # 0 /\ m # 0 /\ Len(due) = n + m
    /\ Entry(s, From, n) /\ Entry(s + 1, From + n, m)

Looping == at \in Nat /\ stop \in Nat /\ (None \/ (is /\ (One \/ Two)))

Printing ==
  /\ is /\ cur \in Nat /\ end \in Nat /\ cur = From /\ cur <= end
  /\ address \in Nat /\ Inside(address, Buffer)
  /\ \E s \in Ring :
       /\ at = 2 * s + 1
       /\ \/ stop = 2 * s + 2 /\ end = start
          \/ /\ stop = 2 * s + 4 /\ s + 1 \in Ring
             /\ \E m \in Nat : m # 0 /\ end + m = start /\ Entry(s + 1, end, m)

Progress ==
  /\ pc \in {"idle", "loop", "print"}
  /\ pc = "idle" => due = << >>
  /\ pc = "loop" => Looping
  /\ pc = "print" => Printing

RInv == IInv /\ Stored /\ Places /\ Recognised /\ Meant /\ Progress

-----------------------------------------------------------------------------
(* The ring, the buffer and the commands.                                   *)

LEMMA RingFacts ==
  /\ RingStart \in Nat /\ RingSlots \in Nat /\ RingStart \in Ring
  /\ \A s \in Ring : s \in Nat /\ s \in Slot /\ RingStart <= s /\ s < RingStart + RingSlots
BY RingAssumption DEF Ring, Slot

LEMMA BufferFacts ==
  /\ Buffer \in Mappings /\ Buffer.address \in Nat /\ Buffer.length \in Nat
  /\ Buffer.address % LowWords # 0
  /\ \A a \in Buffer.address .. Buffer.address + Buffer.length - 1 : a \in Addresses
<1>1. Buffer \in Mappings /\ Buffer.address % LowWords # 0
  BY DriverAssumption
<1>2. Buffer.address \in Nat /\ Buffer.length \in Nat
  BY <1>1, MappingAssumption
<1>3. \A a \in Buffer.address .. Buffer.address + Buffer.length - 1 : a \in Addresses
  BY <1>1 DEF Addresses
<1> QED BY <1>1, <1>2, <1>3

LEMMA CommandFacts ==
  ASSUME NEW c \in Commands
  PROVE  /\ c \in Seq(Words) /\ c # << >> /\ Len(c) \in Nat /\ Len(c) # 0
         /\ \A k \in 1 .. Len(c) : c[k] \in Words
         /\ Queue!Announces(c[1]) /\ Documented(c[1]) /\ Len(Queue!Methods(c[1])) = Len(c) - 1
         /\ Submission(c) = Sends(c) /\ Submission(c) \in Seq(Sent) /\ Len(Submission(c)) = Len(c)
<1>1. /\ c \in Seq(Words) /\ c # << >> /\ Queue!Announces(c[1]) /\ Documented(c[1])
      /\ Len(Queue!Methods(c[1])) = Len(c) - 1
  BY DriverAssumption
<1>2. Len(c) \in Nat /\ Len(c) # 0 /\ \A k \in 1 .. Len(c) : c[k] \in Words
  BY <1>1
<1>3. Submission(c) = Sends(c)
  BY DEF Submission, Sends
<1> QED BY <1>1, <1>2, <1>3, SendsTyped

(* An entry gives the address and the size back. *)
LEMMA EntryFacts ==
  ASSUME NEW a \in Nat, NEW n \in Nat
  PROVE  /\ LowOf(a) \in Nat /\ HighOf(a, n) \in [high : Nat, size : Nat]
         /\ AddressOf(LowOf(a), HighOf(a, n)) = a /\ HighOf(a, n).size = n
         /\ n # 0 => HighOf(a, n) # Empty
<1> PICK w : w = LowWords
  OBVIOUS
<1>1. w \in Nat /\ w # 0
  BY RingAssumption
<1>2. a % w \in Nat /\ a \div w \in Nat
  BY <1>1
<1>3. (a % w) + w * (a \div w) = a
  BY <1>1
<1>4. HighOf(a, n) = [high |-> a \div w, size |-> n] /\ LowOf(a) = a % w
  BY DEF HighOf, LowOf
<1>5. AddressOf(LowOf(a), HighOf(a, n)) = a
  BY <1>3, <1>4 DEF AddressOf
<1>6. n # 0 => HighOf(a, n) # Empty
  BY <1>4 DEF Empty
<1> QED BY <1>2, <1>4, <1>5, <1>6

(* A word of the ring that completes an entry is in the window. *)
LEMMA WindowHolds ==
  ASSUME Recognised, is, NEW s \in Ring
  PROVE  InWindow(2 * s + 1)
<1>1. s \in Nat /\ RingStart \in Nat /\ RingSlots \in Nat /\ RingStart <= s /\ s < RingStart + RingSlots
  BY RingFacts
<1>2. offset = 2 * RingStart /\ (entries = 0 \/ entries = RingSlots)
  BY DEF Recognised
<1> QED BY <1>1, <1>2 DEF InWindow

-----------------------------------------------------------------------------
(* What the steps of the driver keep.                                       *)

LEMMA StreamKept ==
  ASSUME IInv, UNCHANGED stream
  PROVE  IInv' /\ Expected' = Expected /\ long' = long
<1>1. IInv'
  BY NextIInv DEF stream, vars
<1> QED BY <1>1 DEF stream, decoder, Expected

(* The same words are due or ready. *)
LEMMA MeantKept ==
  ASSUME RInv, UNCHANGED << stream, memory >>, From' = From, writing' = writing,
         due' \o ready' = due \o ready
  PROVE  Meant'
BY StreamKept DEF RInv, Meant

LEMMA NothingDue ==
  ASSUME RInv, due = << >>
  PROVE  /\ From = start /\ due \o ready = ready /\ start \in Nat /\ ready \in Seq(Sent)
         /\ Run(memory, Expected, start, writing, ready)
<1>1. ready \in Seq(Sent) /\ start \in Nat
  BY DEF RInv, Places
<1>2. due \o ready = ready
  BY <1>1, ConcatEmptySeq, Zenon
<1>3. From = start
  BY <1>1 DEF From
<1> QED BY <1>1, <1>2, <1>3 DEF RInv, Meant

LEMMA DriverCommand ==
  ASSUME RInv, NEW c \in Commands, WriteCommand(c)
  PROVE  RInv'
<1> PICK n, q : n = Len(c) /\ q = writing
  OBVIOUS
<1>1. /\ n \in Nat /\ n # 0 /\ Submission(c) \in Seq(Sent) /\ Len(Submission(c)) = n
      /\ Submission(c) = Sends(c) /\ \A k \in 1 .. n : c[k] \in Words
  BY CommandFacts
<1>2. /\ pc = "idle" /\ q + n <= Buffer.address + Buffer.length /\ ready' = ready \o Submission(c)
      /\ memory' = [a \in Addresses |-> IF a \in q .. q + n - 1 THEN c[a - q + 1] ELSE memory[a]]
      /\ UNCHANGED << stream, ring, known, recognition, address, call, start, slot, piece, due >>
  BY DEF WriteCommand
<1>3. /\ IInv /\ Stored /\ Places /\ Recognised /\ Meant /\ Progress /\ due = << >>
  BY <1>2 DEF RInv, Progress
<1>4. /\ start \in Nat /\ ready \in Seq(Sent) /\ q = start + Len(ready) /\ Len(ready) \in Nat
      /\ Run(memory, Expected, start, q, ready)
      /\ Buffer.address <= start /\ Buffer.address \in Nat /\ Buffer.length \in Nat
  BY <1>3, NothingDue, BufferFacts DEF writing, Places
<1>5. ready' \in Seq(Sent) /\ Len(ready') = Len(ready) + n
  <2>1. PICK u, v : u = ready /\ v = Submission(c)
    OBVIOUS
  <2>2. u \in Seq(Sent) /\ v \in Seq(Sent) /\ Len(v) = n /\ ready' = u \o v
    BY <1>1, <1>2, <1>4, <2>1
  <2>3. u \o v \in Seq(Sent) /\ Len(u \o v) = Len(u) + Len(v)
    BY <2>2, ConcatProperties, Zenon
  <2> QED BY <2>1, <2>2, <2>3
<1> PICK A, E : A = Buffer.address /\ E = Buffer.address + Buffer.length
  OBVIOUS
<1>6. /\ A \in Nat /\ E \in Nat /\ q \in Nat /\ q + n <= E /\ A <= start /\ start <= q
       /\ \A a \in A .. E - 1 : a \in Addresses
  <2>1. PICK i : i = Len(ready)
    OBVIOUS
  <2>2. i \in Nat /\ q = start + i /\ start \in Nat /\ Buffer.address \in Nat /\ Buffer.length \in Nat
    BY <1>4, <2>1
  <2>3. A \in Nat /\ E \in Nat /\ A <= start /\ q + n <= E
    BY <1>2, <1>4, <2>2
  <2> QED BY <2>2, <2>3, BufferFacts
<1>7. Places'
  <2>1. start' = start /\ due' = due /\ slot' = slot /\ piece' = piece /\ low' = low
    BY <1>2 DEF ring
  <2>2. start + Len(ready') <= Buffer.address + Buffer.length
    <3>1. PICK i, j : i = Len(ready) /\ j = Len(ready')
      OBVIOUS
    <3>2. i \in Nat /\ j = i + n /\ q = start + i
      BY <1>4, <1>5, <3>1
    <3> QED BY <1>1, <1>2, <1>4, <3>1, <3>2
  <2>3. piece \in 0 .. Len(ready')
    BY <1>1, <1>3, <1>4, <1>5 DEF Places
  <2> QED BY <1>3, <1>5, <2>1, <2>2, <2>3 DEF Places
<1>8. ASSUME NEW k \in 1 .. n PROVE memory'[q + k - 1] = c[k]
  <2> PICK a : a = q + k - 1
    OBVIOUS
  <2>1. a \in A .. E - 1 /\ a \in q .. q + n - 1 /\ a - q + 1 = k
    BY <1>1, <1>4, <1>6
  <2>2. a \in Addresses
    BY <1>6, <2>1
  <2>3. memory'[a] = c[a - q + 1]
    BY <1>2, <2>1, <2>2
  <2> QED BY <2>1, <2>3
<1>9. ASSUME NEW a \in start .. q - 1 PROVE memory'[a] = memory[a]
  <2>1. a \in A .. E - 1 /\ a \notin q .. q + n - 1
    BY <1>1, <1>4, <1>6
  <2>2. a \in Addresses
    BY <1>6, <2>1
  <2> QED BY <1>2, <2>1, <2>2
<1>10. Run(memory', Expected, start, q + n, ready')
  <2>1. PICK mem, new, e, u : mem = memory /\ new = memory' /\ e = Expected /\ u = ready
    OBVIOUS
  <2>2. /\ start \in Nat /\ q \in Nat /\ start <= q /\ u \in Seq(Sent) /\ Run(mem, e, start, q, u)
        /\ \A a \in start .. q - 1 : new[a] = mem[a]
    BY <1>4, <1>6, <1>9, <2>1
  <2>3. \A k \in 1 .. Len(c) : new[q + k - 1] = c[k]
    BY <1>8, <2>1
  <2>4. /\ c \in Seq(Words) /\ c # << >> /\ Queue!Announces(c[1]) /\ Documented(c[1])
        /\ Len(Queue!Methods(c[1])) = Len(c) - 1
    BY CommandFacts
  <2>5. Run(new, e, start, q + Len(c), u \o Sends(c))
    BY <2>2, <2>3, <2>4, RunCommand
  <2> QED BY <1>1, <1>2, <2>1, <2>5
<1>11. Meant'
  <2>1. due' = << >> /\ start' = start
    BY <1>2, <1>3
  <2>2. From' = start
    BY <1>4, <2>1 DEF From
  <2>3. writing' = q + n
    <3>1. PICK i, j : i = Len(ready) /\ j = Len(ready')
      OBVIOUS
    <3>2. i \in Nat /\ j = i + n /\ q = start + i
      BY <1>4, <1>5, <3>1
    <3> QED BY <1>1, <1>4, <2>1, <3>1, <3>2 DEF writing
  <2>4. due' \o ready' = ready'
    BY <1>5, <2>1, ConcatEmptySeq, Zenon
  <2> QED BY <1>2, <1>3, <1>10, <2>2, <2>3, <2>4, StreamKept DEF Meant
<1>12. Stored'
  <2>1. ASSUME NEW a \in Addresses PROVE (IF a \in q .. q + n - 1 THEN c[a - q + 1] ELSE memory[a]) \in Words
    <3>1. CASE a \in q .. q + n - 1
      <4>1. a - q + 1 \in 1 .. n
        BY <1>1, <1>4, <3>1
      <4> QED BY <1>1, <3>1, <4>1
    <3>2. CASE a \notin q .. q + n - 1
      BY <1>3, <3>2 DEF Stored
    <3> QED BY <3>1, <3>2
  <2> QED BY <1>2, <1>3, <2>1 DEF Stored, ring
<1>13. IInv'
  BY <1>2, <1>3, StreamKept
<1>14. Recognised' /\ Progress'
  BY <1>2, <1>3 DEF Recognised, Progress, recognition, call
<1> QED BY <1>7, <1>11, <1>12, <1>13, <1>14 DEF RInv

LEMMA DriverRewind ==
  ASSUME RInv, Rewind
  PROVE  RInv'
<1>1. /\ pc = "idle" /\ ready = << >> /\ start # Buffer.address /\ start' = Buffer.address
      /\ UNCHANGED << ivars, ready, slot, piece, due >>
  BY DEF Rewind
<1>2. IInv /\ Stored /\ Places /\ Recognised /\ Meant /\ Progress /\ due = << >>
  BY <1>1 DEF RInv, Progress
<1>3. /\ UNCHANGED << stream, memory, low, high, is, offset, entries, pc, at, stop, cur, end, address >>
  BY <1>1 DEF ivars, ring, recognition, call
<1>4. Expected = << >>
  <2>1. Run(memory, Expected, start, start, ready) /\ start \in Nat
    <3>1. writing = start
      BY <1>1, <1>2 DEF writing, Places
    <3> QED BY <1>2, <3>1, NothingDue
  <2>2. << >> \in Seq(Sent)
    OBVIOUS
  <2>3. PICK mem, e, u : mem = memory /\ e = Expected /\ u = ready
    OBVIOUS
  <2>4. u \in Seq(Sent) /\ Run(mem, e, start, start, u)
    BY <1>1, <2>1, <2>2, <2>3
  <2> QED BY <2>1, <2>3, <2>4, RunOver
<1>5. Meant'
  <2>1. Run(memory, << >>, Buffer.address, Buffer.address, << >>)
    BY BufferFacts, RunNone
  <2>2. From' = Buffer.address /\ writing' = Buffer.address
    BY <1>1, <1>2, BufferFacts DEF From, writing
  <2>3. due' \o ready' = << >>
    BY <1>1, <1>2
  <2>4. Expected' = << >> /\ ~long' /\ memory' = memory
    BY <1>2, <1>3, <1>4, StreamKept DEF Meant
  <2> QED BY <2>1, <2>2, <2>3, <2>4 DEF Meant
<1>6. Places'
  BY <1>1, <1>2, <1>3, BufferFacts DEF Places
<1>7. IInv' /\ Stored' /\ Recognised' /\ Progress'
  <2>1. is
    BY <1>1, <1>2 DEF Recognised
  <2>2. Recognised' /\ Stored'
    BY <1>1, <1>2, <1>3, <2>1 DEF Recognised, Stored
  <2>3. Progress'
    BY <1>1, <1>2, <1>3 DEF Progress
  <2> QED BY <1>2, <1>3, <2>2, <2>3, StreamKept
<1> QED BY <1>5, <1>6, <1>7 DEF RInv

(* An entry for the first n words that are ready. *)
LEMMA SubmitKeeps ==
  ASSUME RInv, due = << >>, NEW n \in 1 .. Len(ready), Submit(n), UNCHANGED << stream, memory >>
  PROVE  /\ Meant' /\ n \in Nat /\ n # 0 /\ start' = start + n /\ Len(due') = n /\ From' = start
         /\ start' \in Nat /\ ready' \in Seq(Sent) /\ due' \in Seq(Sent)
         /\ Buffer.address + n <= start' /\ start' + Len(ready') <= Buffer.address + Buffer.length
<1> PICK r, l, u, v : r = ready /\ l = Len(ready) /\ u = due' /\ v = ready'
  OBVIOUS
<1>1. /\ start' = start + n /\ u = SubSeq(r, 1, n) /\ v = SubSeq(r, n + 1, Len(r))
  BY DEF Submit
<1>2. /\ r \in Seq(Sent) /\ start \in Nat /\ n \in 0 .. Len(r) /\ n \in Nat /\ n # 0
      /\ l \in Nat /\ l = Len(r) /\ n <= l
  BY DEF RInv, Places
<1>3. u \in Seq(Sent) /\ Len(u) = n /\ v \in Seq(Sent) /\ Len(v) = l - n /\ u \o v = r
  BY <1>1, <1>2, CutInTwo
<1>4. From' = start
  BY <1>1, <1>2, <1>3 DEF From
<1>5. writing = start + l /\ writing' = writing
  <2>1. writing = start + l /\ writing' = (start + n) + (l - n)
    BY <1>1, <1>3 DEF writing
  <2> QED BY <1>2, <2>1
<1>6. due' \o ready' = due \o ready /\ From = start
  BY <1>3, NothingDue
<1>7. Meant'
  BY <1>4, <1>5, <1>6, MeantKept
<1>8. Buffer.address + n <= start' /\ start' + Len(ready') <= Buffer.address + Buffer.length
  <2>1. PICK a, b : a = Buffer.address /\ b = Buffer.length
    OBVIOUS
  <2>2. a \in Nat /\ b \in Nat /\ a <= start /\ start + l <= a + b
    <3>1. a \in Nat /\ b \in Nat
      BY <2>1, BufferFacts
    <3>2. PICK d : d = Len(due)
      OBVIOUS
    <3>3. a + d <= start /\ start + l <= a + b /\ d = 0
      BY <2>1, <3>2 DEF RInv, Places
    <3> QED BY <1>2, <3>1, <3>3
  <2>3. PICK x, y : x = start' /\ y = Len(ready')
    OBVIOUS
  <2>4. x = start + n /\ y = l - n
    BY <1>1, <1>3, <2>3
  <2>5. a + n <= x /\ x + y <= a + b
    BY <1>2, <2>2, <2>4
  <2> QED BY <2>1, <2>3, <2>5
<1>9. Len(due') = n /\ start' \in Nat /\ ready' \in Seq(Sent) /\ due' \in Seq(Sent)
  BY <1>1, <1>2, <1>3
<1> QED BY <1>1, <1>2, <1>4, <1>7, <1>8, <1>9

(* What every write to the ring does. *)
LEMMA WriteKeeps ==
  ASSUME RInv, NEW i, NEW j, NEW l \in [Slot -> Nat], NEW h \in [Slot -> [high : Nat, size : Nat]],
         RegisterWrite(i, j, l, h)
  PROVE  /\ due = << >> /\ pc' = "loop" /\ at' = i /\ stop' = j + 1
         /\ UNCHANGED << stream, memory >> /\ IInv' /\ Stored' /\ Recognise(i)
         /\ \A s \in Slot : low'[s] = IF 2 * s \in i .. j THEN l[s] ELSE low[s]
         /\ \A s \in Slot : high'[s] = IF 2 * s + 1 \in i .. j THEN h[s] ELSE high[s]
<1>1. /\ due = << >> /\ pc' = "loop" /\ at' = i /\ stop' = j + 1
      /\ UNCHANGED << stream, memory >> /\ IInv' /\ Recognise(i)
  BY StreamKept DEF RegisterWrite, RInv, Progress
<1>2. /\ low'  = [s \in Slot |-> IF 2 * s \in i .. j THEN l[s] ELSE low[s]]
      /\ high' = [s \in Slot |-> IF 2 * s + 1 \in i .. j THEN h[s] ELSE high[s]]
  BY DEF RegisterWrite
<1>3. Stored'
  BY <1>1, <1>2 DEF RInv, Stored
<1> QED BY <1>1, <1>2, <1>3

LEMMA DriverLow ==
  ASSUME RInv, NEW n \in 1 .. Len(ready), WriteLow(n)
  PROVE  RInv'
<1> PICK s, l, h : s = slot /\ l = [low EXCEPT ![s] = LowOf(start)] /\ h = high
  OBVIOUS
<1>1. /\ piece' = n /\ UNCHANGED << start, ready, slot, due >>
      /\ RegisterWrite(2 * s, 2 * s, l, h)
  BY DEF WriteLow
<1>2. Stored /\ Places /\ Recognised /\ s \in Nat /\ s \in Slot /\ start \in Nat
  BY RingFacts DEF RInv, Places
<1>3. l \in [Slot -> Nat] /\ h \in [Slot -> [high : Nat, size : Nat]] /\ l[s] = LowOf(start)
  BY <1>2, EntryFacts DEF Stored
<1>4. /\ due = << >> /\ pc' = "loop" /\ at' = 2 * s /\ stop' = 2 * s + 1
      /\ UNCHANGED << stream, memory >> /\ IInv' /\ Stored' /\ Recognise(2 * s)
      /\ low'[s] = LowOf(start)
  <2>1. 2 * s \in 2 * s .. 2 * s
    BY <1>2
  <2> QED BY <1>1, <1>2, <1>3, <2>1, WriteKeeps
<1>5. Recognised'
  <2>1. ~LooksLikeEntry(2 * s)
    BY <1>2 DEF LooksLikeEntry
  <2>2. UNCHANGED << is, offset, entries >>
    BY <1>4, <2>1 DEF Recognise, recognition
  <2> QED BY <1>1, <1>2, <2>2 DEF Recognised
<1>6. Places'
  <2>1. n \in 0 .. Len(ready)
    OBVIOUS
  <2> QED BY <1>1, <1>2, <1>4, <2>1 DEF Places
<1>7. Meant'
  <2>1. From' = From /\ writing' = writing /\ due' \o ready' = due \o ready
    BY <1>1 DEF From, writing
  <2> QED BY <1>4, <2>1, MeantKept
<1>8. Progress'
  <2>1. due' = << >>
    BY <1>1, <1>4
  <2>2. None'
    <3>1. PICK i, j : i = at' /\ j = stop'
      OBVIOUS
    <3>2. i = 2 * s /\ j = 2 * s + 1
      BY <1>4, <3>1
    <3>3. i <= j /\ \A k \in i .. j - 1 : k % 2 = 0
      BY <1>2, <3>2
    <3> QED BY <2>1, <3>1, <3>3 DEF None
  <2>3. at' \in Nat /\ stop' \in Nat
    BY <1>2, <1>4
  <2>4. Looping'
    BY <2>2, <2>3 DEF Looping
  <2> QED BY <1>4, <2>4 DEF Progress
<1> QED BY <1>4, <1>5, <1>6, <1>7, <1>8 DEF RInv

LEMMA NextSlotFacts ==
  ASSUME NEW s \in Ring
  PROVE  NextSlot(s) \in Ring
BY RingFacts DEF NextSlot

LEMMA DriverHigh ==
  ASSUME RInv, WriteHigh
  PROVE  RInv'
<1> PICK s, n, l, h : s = slot /\ n = piece /\ l = low /\ h = [high EXCEPT ![s] = HighOf(start, n)]
  OBVIOUS
<1>1. /\ n # 0 /\ piece' = 0 /\ Submit(n) /\ slot' = NextSlot(s)
      /\ RegisterWrite(2 * s + 1, 2 * s + 1, l, h)
  BY DEF WriteHigh
<1>2. /\ Stored /\ Places /\ Recognised /\ s \in Nat /\ s \in Slot /\ s \in Ring /\ start \in Nat
      /\ n \in 1 .. Len(ready) /\ n \in Nat /\ low[s] = LowOf(start)
  BY <1>1, RingFacts DEF RInv, Places
<1>3. l \in [Slot -> Nat] /\ h \in [Slot -> [high : Nat, size : Nat]] /\ h[s] = HighOf(start, n)
  BY <1>2, EntryFacts DEF Stored
<1>4. /\ due = << >> /\ pc' = "loop" /\ at' = 2 * s + 1 /\ stop' = 2 * s + 2
      /\ UNCHANGED << stream, memory >> /\ IInv' /\ Stored' /\ Recognise(2 * s + 1)
      /\ low'[s] = LowOf(start) /\ high'[s] = HighOf(start, n)
  <2> PICK i : i = 2 * s + 1
    OBVIOUS
  <2>1. i \in i .. i /\ ~(2 * s \in i .. i) /\ i + 1 = 2 * s + 2
    BY <1>2
  <2>2. RegisterWrite(i, i, l, h)
    BY <1>1
  <2>3. /\ due = << >> /\ pc' = "loop" /\ at' = i /\ stop' = i + 1
        /\ UNCHANGED << stream, memory >> /\ IInv' /\ Stored' /\ Recognise(i)
        /\ low'[s] = low[s] /\ high'[s] = h[s]
    BY ZenonT(60), <1>2, <1>3, <2>1, <2>2, WriteKeeps
  <2> QED BY <1>2, <1>3, <2>1, <2>3
<1>5. /\ Meant' /\ start' = start + n /\ Len(due') = n /\ From' = start
      /\ start' \in Nat /\ ready' \in Seq(Sent) /\ due' \in Seq(Sent)
      /\ Buffer.address + n <= start' /\ start' + Len(ready') <= Buffer.address + Buffer.length
  BY <1>1, <1>2, <1>4, SubmitKeeps
<1>6. Places'
  <2>1. slot' \in Ring
    BY <1>1, <1>2, NextSlotFacts
  <2>2. 0 \in 0 .. Len(ready')
    BY <1>5
  <2> QED BY <1>1, <1>5, <2>1, <2>2 DEF Places
<1>7. is' /\ Recognised'
  <2>1. CASE is
    BY <1>2, <1>4, <2>1 DEF Recognise, recognition, Recognised
  <2>2. CASE ~is
    <3>1. start = Buffer.address /\ s = RingStart
      BY <1>2, <2>2 DEF Recognised
    <3> PICK i : i = 2 * s + 1
      OBVIOUS
    <3>2. i % 2 = 1 /\ i \div 2 = s /\ i - 1 = 2 * s
      BY <1>2
    <3>3. LooksLikeEntry(i)
      <4>1. LowOf(start) # 0
        BY <3>1, BufferFacts DEF LowOf
      <4>2. HighOf(start, n) # Empty
        BY <1>1, <1>2, EntryFacts
      <4> QED BY <1>4, <3>2, <4>1, <4>2 DEF LooksLikeEntry
    <3>4. PointsToMapping(i)
      <4>1. AddressOf(LowOf(start), HighOf(start, n)) = Buffer.address /\ HighOf(start, n).size = n
        BY <1>2, <3>1, EntryFacts
      <4>2. n <= Buffer.length
        <5>1. PICK a, b, q : a = Buffer.address /\ b = Buffer.length /\ q = Len(ready)
          OBVIOUS
        <5>2. a \in Nat /\ b \in Nat /\ q \in Nat /\ a + q <= a + b /\ n <= q
          BY <1>2, <3>1, <5>1, BufferFacts DEF Places
        <5> QED BY <1>2, <5>1, <5>2
      <4>3. Buffer \in Mappings
        BY BufferFacts
      <4> QED BY <1>4, <3>2, <4>1, <4>2, <4>3 DEF PointsToMapping
    <3>5. is' = TRUE /\ offset' = i - 1 /\ entries' \in {0, RingSlots}
      BY <1>4, <2>2, <3>2, <3>3, <3>4 DEF Recognise
    <3> QED BY <3>1, <3>2, <3>5 DEF Recognised
  <2> QED BY <2>1, <2>2
<1>8. Progress'
  <2>1. at' \in Nat /\ stop' \in Nat
    BY <1>2, <1>4
  <2>2. Entry(s, From, Len(due))'
    BY <1>4, <1>5 DEF Entry
  <2>3. One'
    BY <1>1, <1>2, <1>4, <1>5, <2>2 DEF One
  <2>4. Looping'
    BY <1>7, <2>1, <2>3 DEF Looping
  <2> QED BY <1>4, <2>4 DEF Progress
<1> QED BY <1>4, <1>5, <1>6, <1>7, <1>8 DEF RInv

(* One entry or two in a write. *)
LEMMA DriverEntries ==
  ASSUME RInv, NEW n \in 1 .. Len(ready), NEW m \in 0 .. Len(ready) - 1, n + m <= Len(ready),
         WriteEntries(n, m)
  PROVE  RInv'
<1>0. PICK s, x, y, l, h :
      /\ s = slot /\ x = (IF m = 0 THEN s ELSE s + 1) /\ y = start + (IF m = 0 THEN 0 ELSE n)
      /\ l = [low EXCEPT ![s] = LowOf(start), ![x] = LowOf(y)]
      /\ h = [z \in Slot |-> IF z = s THEN HighOf(start, n) ELSE IF z = x THEN HighOf(start + n, m) ELSE high[z]]
  OBVIOUS
<1>1. /\ is /\ piece = 0 /\ x \in Ring /\ RegisterWrite(2 * s, 2 * x + 1, l, h)
      /\ Submit(n + m) /\ slot' = NextSlot(x) /\ piece' = 0
  BY <1>0 DEF WriteEntries
<1>2. /\ Stored /\ Places /\ Recognised /\ s \in Nat /\ s \in Slot /\ s \in Ring /\ start \in Nat
      /\ n \in Nat /\ m \in Nat /\ n # 0 /\ n + m \in 1 .. Len(ready) /\ x \in Nat /\ x \in Slot
  BY <1>0, <1>1, RingFacts DEF RInv, Places
<1>3. start + n \in Nat /\ y \in Nat /\ (m = 0 => x = s /\ y = start) /\ (m # 0 => x = s + 1 /\ y = start + n)
  BY <1>0, <1>2
<1>4. /\ l \in [Slot -> Nat] /\ h \in [Slot -> [high : Nat, size : Nat]]
      /\ l[s] = LowOf(start) /\ h[s] = HighOf(start, n)
      /\ m # 0 => l[x] = LowOf(start + n) /\ h[x] = HighOf(start + n, m)
  <2>1. LowOf(start) \in Nat /\ LowOf(y) \in Nat
    BY <1>2, <1>3, EntryFacts
  <2>2. HighOf(start, n) \in [high : Nat, size : Nat] /\ HighOf(start + n, m) \in [high : Nat, size : Nat]
    BY <1>2, <1>3, EntryFacts
  <2>3. l \in [Slot -> Nat] /\ l[x] = LowOf(y) /\ (s # x => l[s] = LowOf(start))
    BY <1>0, <1>2, <2>1 DEF Stored
  <2>4. /\ h \in [Slot -> [high : Nat, size : Nat]] /\ h[s] = HighOf(start, n)
        /\ x # s => h[x] = HighOf(start + n, m)
    BY <1>0, <1>2, <2>2 DEF Stored
  <2>5. m # 0 => x # s
    BY <1>2, <1>3
  <2> QED BY <1>3, <2>3, <2>4, <2>5
<1>5. /\ due = << >> /\ pc' = "loop" /\ at' = 2 * s /\ stop' = 2 * x + 2
      /\ UNCHANGED << stream, memory >> /\ IInv' /\ Stored' /\ Recognise(2 * s)
      /\ low'[s] = LowOf(start) /\ high'[s] = HighOf(start, n)
      /\ m # 0 => low'[x] = LowOf(start + n) /\ high'[x] = HighOf(start + n, m)
  <2> PICK i, j : i = 2 * s /\ j = 2 * x + 1
    OBVIOUS
  <2>1. /\ 2 * s \in i .. j /\ 2 * s + 1 \in i .. j /\ 2 * x \in i .. j /\ 2 * x + 1 \in i .. j
        /\ j + 1 = 2 * x + 2
    <3>1. x = s \/ x = s + 1
      BY <1>3
    <3> QED BY <1>2, <3>1
  <2>2. RegisterWrite(i, j, l, h)
    BY <1>1
  <2>3. /\ due = << >> /\ pc' = "loop" /\ at' = i /\ stop' = j + 1
        /\ UNCHANGED << stream, memory >> /\ IInv' /\ Stored' /\ Recognise(i)
        /\ low'[s] = l[s] /\ high'[s] = h[s] /\ low'[x] = l[x] /\ high'[x] = h[x]
    <3>1. /\ due = << >> /\ pc' = "loop" /\ at' = i /\ stop' = j + 1
          /\ UNCHANGED << stream, memory >> /\ IInv' /\ Stored' /\ Recognise(i)
          /\ \A z \in Slot : low'[z] = IF 2 * z \in i .. j THEN l[z] ELSE low[z]
          /\ \A z \in Slot : high'[z] = IF 2 * z + 1 \in i .. j THEN h[z] ELSE high[z]
      BY ZenonT(60), <1>4, <2>2, WriteKeeps
    <3> QED BY <1>2, <2>1, <3>1
  <2> QED BY <1>4, <2>1, <2>3
<1>6. /\ Meant' /\ start' = start + (n + m) /\ Len(due') = n + m /\ From' = start
      /\ start' \in Nat /\ ready' \in Seq(Sent) /\ due' \in Seq(Sent)
      /\ Buffer.address + (n + m) <= start' /\ start' + Len(ready') <= Buffer.address + Buffer.length
  <2> PICK k : k = n + m
    OBVIOUS
  <2>1. k \in 1 .. Len(ready) /\ Submit(k)
    BY <1>1, <1>2
  <2>2. /\ Meant' /\ start' = start + k /\ Len(due') = k /\ From' = start
        /\ start' \in Nat /\ ready' \in Seq(Sent) /\ due' \in Seq(Sent)
        /\ Buffer.address + k <= start' /\ start' + Len(ready') <= Buffer.address + Buffer.length
    BY <1>5, <2>1, SubmitKeeps
  <2> QED BY <2>2
<1>7. Places'
  <2>1. slot' \in Ring
    BY <1>1, NextSlotFacts
  <2>2. 0 \in 0 .. Len(ready')
    BY <1>6
  <2> QED BY <1>1, <1>6, <2>1, <2>2 DEF Places
<1>8. is' /\ Recognised'
  <2>1. UNCHANGED << is, offset, entries >>
    BY <1>1, <1>5 DEF Recognise, recognition
  <2> QED BY <1>1, <1>2, <2>1 DEF Recognised
<1>9. Progress'
  <2>1. at' \in Nat /\ stop' \in Nat
    BY <1>2, <1>5
  <2>2. CASE m = 0
    <3>1. n + m = n /\ stop' = 2 * s + 2
      BY <1>2, <1>3, <1>5, <2>2
    <3>2. Entry(s, From, Len(due))'
      BY <1>5, <1>6, <3>1 DEF Entry
    <3>3. One'
      BY <1>2, <1>5, <1>6, <3>1, <3>2 DEF One
    <3>4. Looping'
      BY <1>8, <2>1, <3>3 DEF Looping
    <3> QED BY <1>5, <3>4 DEF Progress
  <2>3. CASE m # 0
    <3>1. x = s + 1 /\ stop' = 2 * s + 4
      BY <1>2, <1>3, <1>5, <2>3
    <3>2. Entry(s, From, n)' /\ Entry(s + 1, From + n, m)'
      BY <1>5, <1>6, <2>3, <3>1 DEF Entry
    <3>3. Two'
      <4>1. /\ at' \in {2 * s, 2 * s + 1} /\ stop' = 2 * s + 4 /\ s + 1 \in Ring
            /\ n # 0 /\ m # 0 /\ Len(due)' = n + m
        BY <1>1, <1>2, <1>5, <1>6, <2>3, <3>1
      <4> QED BY <1>2, <3>2, <4>1 DEF Two
    <3>4. Looping'
      BY <1>8, <2>1, <3>3 DEF Looping
    <3> QED BY <1>5, <3>4 DEF Progress
  <2> QED BY <2>2, <2>3
<1> QED BY <1>5, <1>6, <1>7, <1>8, <1>9 DEF RInv

-----------------------------------------------------------------------------
(* What the steps of the decoder keep.                                      *)

(* Steps that decode no word. *)
LEMMA QuietKeeps ==
  ASSUME RInv, Decode, ~Decodes, UNCHANGED << stream, memory, ring, recognition >>
  PROVE  /\ IInv' /\ Stored' /\ Places' /\ Recognised' /\ Meant' /\ due' = due /\ start' = start
         /\ low' = low /\ high' = high /\ is' = is
<1>1. /\ due' = due /\ UNCHANGED << start, ready, slot, piece, low, high, is, offset, entries, memory >>
  BY DEF Decode, ring, recognition
<1>2. Stored' /\ Places' /\ Recognised'
  BY <1>1 DEF RInv, Stored, Places, Recognised
<1>3. Meant'
  BY <1>1, MeantKept DEF From, writing
<1> QED BY <1>1, <1>2, <1>3, StreamKept DEF RInv

LEMMA DecodeSkip ==
  ASSUME RInv, Decode, SkipWord
  PROVE  RInv'
<1>1. /\ pc = "loop" /\ pc' = "loop" /\ at < stop /\ ~(at % 2 = 1 /\ InWindow(at))
      /\ at' = at + 1 /\ stop' = stop /\ UNCHANGED << stream, memory, ring, recognition >>
  BY DEF SkipWord
<1>2. Looping /\ Recognised /\ due \in Seq(Sent)
  BY <1>1 DEF RInv, Progress, Places
<1>3. /\ IInv' /\ Stored' /\ Places' /\ Recognised' /\ Meant' /\ due' = due /\ start' = start
      /\ low' = low /\ high' = high /\ is' = is
  BY <1>1, QuietKeeps DEF Decodes
<1>4. at \in Nat /\ stop \in Nat /\ at' \in Nat /\ stop' \in Nat
  BY <1>1, <1>2 DEF Looping
<1>5. \A z, a, n : Entry(z, a, n)' <=> Entry(z, a, n)
  BY <1>3 DEF Entry
<1>6. From' = From
  BY <1>3 DEF From
<1>7. ASSUME is, NEW s \in Ring, at \in {2 * s, 2 * s + 1} PROVE at' = 2 * s + 1
  <2>1. s \in Nat
    BY RingFacts
  <2>2. at # 2 * s + 1
    <3>1. (2 * s + 1) % 2 = 1
      BY <2>1
    <3>2. InWindow(2 * s + 1)
      BY <1>2, <1>7, WindowHolds
    <3> QED BY <1>1, <3>1, <3>2
  <2> QED BY <1>1, <1>7, <2>2
<1>8. ASSUME None PROVE None'
  <2>1. at' <= stop'
    BY <1>1, <1>4
  <2>2. \A i \in at + 1 .. stop - 1 : i \in at .. stop - 1
    BY <1>4
  <2> QED BY <1>1, <1>3, <1>8, <2>1, <2>2 DEF None
<1>9. ASSUME is, One PROVE One'
  <2>1. PICK s \in Ring : at \in {2 * s, 2 * s + 1} /\ stop = 2 * s + 2
                         /\ Len(due) # 0 /\ Entry(s, From, Len(due))
    BY <1>9 DEF One
  <2>2. at' = 2 * s + 1
    BY <1>7, <1>9, <2>1
  <2>3. Entry(s, From, Len(due))'
    BY <1>3, <1>6, <2>1 DEF Entry
  <2> QED BY <1>1, <1>3, <2>1, <2>2, <2>3 DEF One
<1>10. ASSUME is, Two PROVE Two'
  <2>1. PICK s \in Ring, n \in Nat, m \in Nat :
          /\ at \in {2 * s, 2 * s + 1} /\ stop = 2 * s + 4 /\ s + 1 \in Ring
          /\ n # 0 /\ m # 0 /\ Len(due) = n + m
          /\ Entry(s, From, n) /\ Entry(s + 1, From + n, m)
    BY <1>10 DEF Two
  <2>2. at' = 2 * s + 1
    BY <1>7, <1>10, <2>1
  <2>3. Entry(s, From, n)' /\ Entry(s + 1, From + n, m)'
    BY <1>3, <1>6, <2>1 DEF Entry
  <2>4. Len(due)' = n + m /\ stop' = 2 * s + 4
    BY <1>1, <1>3, <2>1
  <2> QED BY <2>1, <2>2, <2>3, <2>4 DEF Two
<1>11. None' \/ (is' /\ (One' \/ Two'))
  BY <1>2, <1>3, <1>8, <1>9, <1>10 DEF Looping
<1>12. Progress'
  BY <1>1, <1>4, <1>11 DEF Progress, Looping
<1> QED BY <1>3, <1>12 DEF RInv

(* An entry is complete: its words lie in the buffer. *)
LEMMA DecodeEntry ==
  ASSUME RInv, Decode, IbEntry
  PROVE  RInv'
<1>1. /\ pc = "loop" /\ at < stop /\ at % 2 = 1 /\ InWindow(at) /\ stop' = stop
      /\ address' = AddressOf(low[at \div 2], high[at \div 2])
      /\ IF Found(address') = {}
         THEN at' = at + 1 /\ UNCHANGED << pc, cur, end >>
         ELSE pc' = "print" /\ cur' = address' /\ end' = address' + high[at \div 2].size /\ UNCHANGED at
      /\ UNCHANGED << stream, memory, ring, recognition >>
  BY DEF IbEntry
<1>2. Looping /\ Recognised /\ due \in Seq(Sent) /\ start \in Nat /\ ready \in Seq(Sent)
  BY <1>1 DEF RInv, Progress, Places
<1>3. /\ IInv' /\ Stored' /\ Places' /\ Recognised' /\ Meant' /\ due' = due /\ start' = start
      /\ low' = low /\ high' = high /\ is' = is
  BY <1>1, QuietKeeps DEF Decodes
<1>4. at \in Nat /\ stop \in Nat
  BY <1>2 DEF Looping
<1> PICK p, d : p = From /\ d = Len(due)
  OBVIOUS
<1>5. p \in Nat /\ d \in Nat /\ p + d = start /\ (d # 0 => Inside(p, Buffer))
  <2>1. PICK a, b, r : a = Buffer.address /\ b = Buffer.length /\ r = Len(ready)
    OBVIOUS
  <2>2. a \in Nat /\ b \in Nat /\ r \in Nat /\ d \in Nat /\ p = start - d
    BY <1>2, <2>1, BufferFacts DEF From
  <2>3. a + d <= start /\ start + r <= a + b
    BY <2>1 DEF RInv, Places
  <2>4. p \in Nat /\ p + d = start /\ a <= p /\ (d # 0 => p < a + b)
    BY <1>2, <2>2, <2>3
  <2> QED BY <2>1, <2>2, <2>4 DEF Inside
<1>6. ASSUME NEW s \in Ring, at \in {2 * s, 2 * s + 1}, NEW n \in Nat, Entry(s, p, n), d # 0
      PROVE  /\ at = 2 * s + 1 /\ pc' = "print" /\ address' = p /\ cur' = p /\ end' = p + n /\ at' = at
             /\ Inside(address', Buffer)
  <2>1. s \in Nat
    BY RingFacts
  <2>2. at = 2 * s + 1 /\ at \div 2 = s
    <3>1. (2 * s) % 2 = 0 /\ (2 * s + 1) \div 2 = s
      BY <2>1
    <3> QED BY <1>1, <1>6, <3>1
  <2>3. AddressOf(low[s], high[s]) = p /\ high[s].size = n
    BY <1>5, <1>6, EntryFacts DEF Entry
  <2>4. address' = p
    BY <1>1, <2>2, <2>3
  <2>5. Found(address') # {} /\ Inside(address', Buffer)
    BY <1>5, <1>6, <2>4, BufferFacts DEF Found
  <2>6. pc' = "print" /\ cur' = address' /\ end' = address' + high[at \div 2].size /\ at' = at
    BY <1>1, <2>5
  <2> QED BY <2>2, <2>3, <2>4, <2>5, <2>6
<1>7. ~None
  <2>1. at \in at .. stop - 1
    BY <1>1, <1>4
  <2> QED BY <1>1, <2>1 DEF None
<1>8. is /\ (One \/ Two)
  BY <1>2, <1>7 DEF Looping
<1>9. CASE One
  <2>1. PICK s \in Ring : at \in {2 * s, 2 * s + 1} /\ stop = 2 * s + 2 /\ d # 0 /\ Entry(s, p, d)
    BY <1>9 DEF One
  <2>2. /\ at = 2 * s + 1 /\ pc' = "print" /\ address' = p /\ cur' = p /\ end' = p + d /\ at' = at
        /\ Inside(address', Buffer)
    BY <1>5, <1>6, <2>1
  <2>3. cur' <= end' /\ end' = start'
    BY <1>3, <1>5, <2>2
  <2>4. at' = 2 * s + 1 /\ stop' = 2 * s + 2
    BY <1>1, <2>1, <2>2
  <2>5. From' = p
    BY <1>3 DEF From
  <2>6. Printing'
    BY <1>3, <1>5, <1>8, <2>1, <2>2, <2>3, <2>4, <2>5 DEF Printing
  <2> QED BY <1>3, <2>2, <2>6 DEF RInv, Progress
<1>10. CASE Two
  <2>1. PICK s \in Ring, n \in Nat, m \in Nat :
          /\ at \in {2 * s, 2 * s + 1} /\ stop = 2 * s + 4 /\ s + 1 \in Ring
          /\ n # 0 /\ m # 0 /\ d = n + m
          /\ Entry(s, p, n) /\ Entry(s + 1, p + n, m)
    BY <1>10 DEF Two
  <2>2. /\ at = 2 * s + 1 /\ pc' = "print" /\ address' = p /\ cur' = p /\ end' = p + n /\ at' = at
        /\ Inside(address', Buffer)
    <3>1. d # 0
      BY <2>1
    <3> QED BY <1>6, <2>1, <3>1
  <2>3. cur' <= end' /\ end' + m = start' /\ end' \in Nat
    BY <1>3, <1>5, <2>1, <2>2
  <2>4. at' = 2 * s + 1 /\ stop' = 2 * s + 4
    BY <1>1, <2>1, <2>2
  <2>5. From' = p
    BY <1>3 DEF From
  <2>6. Entry(s + 1, end, m)'
    BY <1>3, <2>1, <2>2 DEF Entry
  <2>7. Printing'
    BY <1>3, <1>5, <1>8, <2>1, <2>2, <2>3, <2>4, <2>5, <2>6 DEF Printing
  <2> QED BY <1>3, <2>2, <2>7 DEF RInv, Progress
<1> QED BY <1>8, <1>9, <1>10

(* The next word of an entry is the next one that is due. *)
LEMMA DecodeWord ==
  ASSUME RInv, Decode, PrintWord
  PROVE  /\ RInv' /\ due # << >> /\ Head(due) = submitted'
<1> PICK c, q, d, r : c = cur /\ q = writing /\ d = Len(due) /\ r = Len(ready)
  OBVIOUS
<1>1. /\ pc = "print" /\ c < end /\ (\E w \in Reads(c) : PushbufDecode(w))
      /\ IF nextaddr' = 0 THEN cur' = c + 1 /\ UNCHANGED end ELSE end' = c /\ UNCHANGED cur
      /\ UNCHANGED << memory, ring, recognition, address, pc, at, stop >>
  BY DEF PrintWord
<1>2. Printing /\ Stored /\ Places /\ Recognised /\ Meant /\ IInv
  BY <1>1 DEF RInv, Progress
<1>3. /\ is /\ c \in Nat /\ end \in Nat /\ c = start - d /\ start \in Nat /\ d \in Nat /\ r \in Nat
      /\ q = start + r /\ due \in Seq(Sent) /\ ready \in Seq(Sent)
      /\ address \in Nat /\ Inside(address, Buffer)
  BY <1>2 DEF Printing, Places, From, writing
<1>4. PICK s \in Ring :
        /\ at = 2 * s + 1
        /\ \/ stop = 2 * s + 2 /\ end = start
           \/ /\ stop = 2 * s + 4 /\ s + 1 \in Ring
              /\ \E m \in Nat : m # 0 /\ end + m = start /\ Entry(s + 1, end, m)
  BY <1>2 DEF Printing
<1>5. end <= start
  BY <1>3, <1>4
<1>6. c < q /\ q \in Nat /\ d # 0 /\ c + 1 = start - (d - 1)
  BY <1>1, <1>3, <1>5
<1>7. Inside(c, Buffer) /\ c \in Addresses
  <2>1. PICK a, b : a = Buffer.address /\ b = Buffer.length
    OBVIOUS
  <2>2. a \in Nat /\ b \in Nat /\ a + d <= start /\ start + r <= a + b
    BY <1>2, <2>1, BufferFacts DEF Places
  <2>3. a <= c /\ c < a + b /\ c \in a .. a + b - 1
    BY <1>1, <1>3, <1>5, <2>2
  <2> QED BY <2>1, <2>3, BufferFacts DEF Inside
<1>8. Reads(c) = {memory[c]} /\ memory[c] \in Words
  <2>1. Buffer \in Found(address)
    BY <1>3, BufferFacts DEF Found
  <2> QED BY <1>2, <1>7, <2>1 DEF Reads, Stored
<1>9. PushbufDecode(memory[c])
  BY <1>1, <1>8
<1>10. /\ due # << >> /\ Tail(due) \in Seq(Sent) /\ Len(Tail(due)) = d - 1
  BY <1>3, <1>6
<1>11. due \o ready \in Seq(Sent) /\ Head(due \o ready) = Head(due) /\ Tail(due \o ready) = Tail(due) \o ready
  <2>1. due \in Seq(Sent) /\ ready \in Seq(Sent)
    BY <1>3
  <2>2. due \o ready \in Seq(Sent)
    BY <2>1, ConcatProperties, Zenon
  <2> QED BY <1>10, <2>1, <2>2, ConcatFirst
<1>12. /\ Head(due) = submitted' /\ nextaddr' = 0 /\ ~long'
       /\ Run(memory, Expected', c + 1, q, Tail(due) \o ready)
  <2>1. PICK mem, u, e : mem = memory /\ u = due \o ready /\ e = Expected
    OBVIOUS
  <2>2. /\ IInv /\ ~long /\ c \in Nat /\ q \in Nat /\ c < q /\ mem[c] \in Words
        /\ u \in Seq(Sent) /\ Run(mem, Expected, c, q, u) /\ PushbufDecode(mem[c])
    BY <1>1, <1>2, <1>3, <1>6, <1>8, <1>9, <1>11, <2>1 DEF Meant, Printing
  <2>3. Head(u) = submitted' /\ nextaddr' = 0 /\ ~long' /\ Run(mem, Expected', c + 1, q, Tail(u))
    BY <2>2, ReadRun
  <2> QED BY <1>11, <2>1, <2>3
<1>13. cur' = c + 1 /\ end' = end /\ due' = Tail(due) /\ UNCHANGED << start, ready, slot, piece >>
  BY <1>1, <1>10, <1>12 DEF Decode, Decodes
<1>14. From' = c + 1 /\ writing' = q
  <2>1. From' = start - (d - 1)
    BY <1>10, <1>13 DEF From
  <2> QED BY <1>3, <1>6, <1>13, <2>1 DEF writing
<1>15. IInv'
  <2>1. Next
    BY <1>8, <1>9 DEF Next
  <2> QED BY <1>2, <2>1, NextIInv
<1>16. Meant'
  BY <1>1, <1>12, <1>13, <1>14 DEF Meant
<1>17. Stored' /\ Recognised' /\ UNCHANGED << low, high, is >>
  BY <1>1, <1>2, <1>13 DEF Stored, Recognised, ring, recognition
<1>18. Places'
  <2>1. Buffer.address + Len(due') <= start
    <3>1. PICK a : a = Buffer.address
      OBVIOUS
    <3>2. a \in Nat /\ a + d <= start
      BY <1>2, <3>1, BufferFacts DEF Places
    <3>3. a + (d - 1) <= start
      BY <1>3, <3>2
    <3> QED BY <1>10, <1>13, <3>1, <3>3
  <2> QED BY <1>2, <1>10, <1>13, <1>17, <2>1 DEF Places
<1>19. Printing'
  <2>1. \A m : Entry(s + 1, end, m)' <=> Entry(s + 1, end, m)
    BY <1>13, <1>17 DEF Entry
  <2>2. cur' \in Nat /\ end' \in Nat /\ cur' = From' /\ cur' <= end'
    BY <1>1, <1>3, <1>13, <1>14
  <2>3. /\ at' = 2 * s + 1
        /\ \/ stop' = 2 * s + 2 /\ end' = start'
           \/ /\ stop' = 2 * s + 4 /\ s + 1 \in Ring
              /\ \E m \in Nat : m # 0 /\ end' + m = start' /\ Entry(s + 1, end, m)'
    BY <1>1, <1>4, <1>13, <2>1
  <2> QED BY <1>1, <1>3, <1>17, <2>2, <2>3 DEF Printing
<1>20. Progress'
  BY <1>1, <1>19 DEF Progress
<1> QED BY <1>10, <1>12, <1>15, <1>16, <1>17, <1>18, <1>20 DEF RInv

(* The words of an entry are decoded: another entry is left, or none. *)
LEMMA DecodeEntryDone ==
  ASSUME RInv, Decode, EntryDone
  PROVE  RInv'
<1>1. /\ pc = "print" /\ cur >= end /\ pc' = "loop" /\ at' = at + 1 /\ stop' = stop
      /\ UNCHANGED << stream, memory, ring, recognition >>
  BY DEF EntryDone
<1>2. Printing /\ Recognised /\ due \in Seq(Sent) /\ start \in Nat
  BY <1>1 DEF RInv, Progress, Places
<1>3. cur \in Nat /\ end \in Nat /\ cur = From /\ cur <= end /\ is
  BY <1>2 DEF Printing
<1>4. end = From /\ ~(cur < end)
  BY <1>1, <1>3
<1>5. /\ IInv' /\ Stored' /\ Places' /\ Recognised' /\ Meant' /\ due' = due /\ start' = start
      /\ low' = low /\ high' = high /\ is' = is
  BY <1>1, <1>4, QuietKeeps DEF Decodes
<1> PICK d : d = Len(due)
  OBVIOUS
<1>6. d \in Nat /\ end = start - d /\ From' = end
  BY <1>2, <1>4, <1>5 DEF From
<1>7. PICK s \in Ring :
        /\ at = 2 * s + 1
        /\ \/ stop = 2 * s + 2 /\ end = start
           \/ /\ stop = 2 * s + 4 /\ s + 1 \in Ring
              /\ \E m \in Nat : m # 0 /\ end + m = start /\ Entry(s + 1, end, m)
  BY <1>2 DEF Printing
<1>8. s \in Nat
  BY RingFacts
<1>9. at' \in Nat /\ stop' \in Nat
  BY <1>1, <1>7, <1>8
<1>10. CASE stop = 2 * s + 2 /\ end = start
  <2>1. due' = << >>
    <3>1. d = 0
      BY <1>2, <1>6, <1>10
    <3>2. due = << >>
      BY <1>2, <3>1, EmptySeq, Zenon
    <3> QED BY <1>5, <3>2
  <2>2. None'
    <3>1. PICK i, j : i = at' /\ j = stop'
      OBVIOUS
    <3>2. i = 2 * s + 2 /\ j = 2 * s + 2
      BY <1>1, <1>7, <1>8, <1>10, <3>1
    <3>3. i <= j /\ \A k \in i .. j - 1 : k % 2 = 0
      BY <1>8, <3>2
    <3> QED BY <2>1, <3>1, <3>3 DEF None
  <2>3. Looping'
    BY <1>9, <2>2 DEF Looping
  <2> QED BY <1>1, <1>5, <2>3 DEF RInv, Progress
<1>11. CASE stop = 2 * s + 4 /\ s + 1 \in Ring /\ \E m \in Nat : m # 0 /\ end + m = start /\ Entry(s + 1, end, m)
  <2>1. PICK m \in Nat : m # 0 /\ end + m = start /\ Entry(s + 1, end, m)
    BY <1>11
  <2>2. m = d
    BY <1>2, <1>6, <2>1
  <2> PICK t : t = s + 1
    OBVIOUS
  <2>3. t \in Ring /\ at' = 2 * t /\ stop' = 2 * t + 2
    BY <1>1, <1>7, <1>8, <1>11
  <2>4. Entry(t, From, Len(due))'
    BY <1>5, <1>6, <2>1, <2>2 DEF Entry
  <2>5. One'
    BY <1>5, <2>1, <2>2, <2>3, <2>4 DEF One
  <2>6. Looping'
    BY <1>3, <1>5, <1>9, <2>5 DEF Looping
  <2> QED BY <1>1, <1>5, <2>6 DEF RInv, Progress
<1> QED BY <1>7, <1>10, <1>11

(* No entry is left at the end of a write. *)
LEMMA DecodeReturn ==
  ASSUME RInv, Decode, Return
  PROVE  RInv'
<1>1. /\ pc = "loop" /\ at = stop /\ pc' = "idle"
      /\ UNCHANGED << stream, memory, ring, recognition >>
  BY DEF Return
<1>2. Looping
  BY <1>1 DEF RInv, Progress
<1>3. /\ IInv' /\ Stored' /\ Places' /\ Recognised' /\ Meant' /\ due' = due
  BY <1>1, QuietKeeps DEF Decodes
<1>4. ASSUME NEW s \in Ring, at \in {2 * s, 2 * s + 1}
      PROVE  stop # 2 * s + 2 /\ stop # 2 * s + 4
  <2>1. s \in Nat
    BY RingFacts
  <2> QED BY <1>1, <1>4, <2>1
<1>5. ~One /\ ~Two
  BY <1>4 DEF One, Two
<1>6. due = << >>
  BY <1>2, <1>5 DEF Looping, None
<1> QED BY <1>1, <1>3, <1>6 DEF RInv, Progress

-----------------------------------------------------------------------------
LEMMA InitRInv ==
  ASSUME RInit
  PROVE  RInv
<1>1. /\ IInit /\ start = Buffer.address /\ ready = << >> /\ slot = RingStart /\ piece = 0 /\ due = << >>
  BY DEF RInit
<1>2. Init
  BY <1>1 DEF IInit
<1>3. IInv
  BY <1>2, InitIInv
<1>4. Stored
  <2>1. Zero \in Words
    BY MappingAssumption
  <2>2. memory = [a \in Addresses |-> Zero] /\ low = [s \in Slot |-> 0] /\ high = [s \in Slot |-> Empty]
    BY <1>1 DEF IInit
  <2>3. Empty \in [high : Nat, size : Nat]
    BY DEF Empty
  <2> QED BY <2>1, <2>2, <2>3 DEF Stored
<1>5. Places
  <2>1. << >> \in Seq(Sent) /\ Len(<< >>) = 0
    OBVIOUS
  <2> QED BY <1>1, <2>1, BufferFacts, RingFacts DEF Places
<1>6. Recognised
  BY <1>1 DEF Recognised, IInit
<1>7. Meant
  <2>1. Run(memory, << >>, Buffer.address, Buffer.address, << >>)
    BY BufferFacts, RunNone
  <2>2. From = Buffer.address /\ writing = Buffer.address
    BY <1>1, BufferFacts DEF From, writing
  <2>3. due \o ready = << >>
    BY <1>1
  <2>4. Expected = << >> /\ ~long
    BY <1>2 DEF Init, Expected
  <2> QED BY <2>1, <2>2, <2>3, <2>4 DEF Meant
<1>8. Progress
  BY <1>1 DEF Progress, IInit
<1> QED BY <1>3, <1>4, <1>5, <1>6, <1>7, <1>8 DEF RInv

LEMMA NextRInv ==
  ASSUME RInv, [RNext]_rvars
  PROVE  RInv'
<1>1. CASE \E c \in Commands : WriteCommand(c)
  BY <1>1, DriverCommand
<1>2. CASE Rewind
  BY <1>2, DriverRewind
<1>3. CASE \E n \in 1 .. Len(ready) : WriteLow(n)
  BY <1>3, DriverLow
<1>4. CASE WriteHigh
  BY <1>4, DriverHigh
<1>5. CASE \E n \in 1 .. Len(ready), m \in 0 .. Len(ready) - 1 : n + m <= Len(ready) /\ WriteEntries(n, m)
  BY <1>5, DriverEntries
<1>6. CASE Decode
  <2>1. Decoding
    BY <1>6 DEF Decode
  <2> QED BY <1>6, <2>1, DecodeSkip, DecodeEntry, DecodeWord, DecodeEntryDone, DecodeReturn DEF Decoding
<1>7. CASE UNCHANGED rvars
  <2>1. UNCHANGED << stream, memory, low, high, is, offset, entries, pc, at, stop, cur, end, address,
                     start, ready, slot, piece, due >>
    BY <1>7 DEF rvars, driver, ivars, ring, recognition, call
  <2>2. IInv' /\ Meant'
    BY <2>1, StreamKept, MeantKept DEF RInv, From, writing
  <2>3. Stored' /\ Places' /\ Recognised'
    BY <2>1 DEF RInv, Stored, Places, Recognised
  <2>4. None' = None /\ One' = One /\ Two' = Two /\ Printing' = Printing
    BY <2>1 DEF None, One, Two, Printing, Entry, From
  <2>5. Progress'
    BY <2>1, <2>4 DEF RInv, Progress, Looping
  <2> QED BY <2>2, <2>3, <2>5 DEF RInv
<1> QED BY <1>1, <1>2, <1>3, <1>4, <1>5, <1>6, <1>7 DEF RNext

(* The inductive invariant: the words that no entry holds yet, and those of *)
(* complete entries, submit what the driver meant, and what is left of a    *)
(* write holds the entries for exactly the words that are due.              *)
THEOREM RInvariance == RSpec => []RInv
BY InitRInv, NextRInv, PTL DEF RSpec

(* When the call of buffer_decode_register_write returns every complete     *)
(* entry has been decoded, the one by which the ring is recognised          *)
(* included (ib_decode, buffer_decode_register_write).                      *)
THEOREM AllDecodedCorrect == RSpec => []AllDecoded
<1>1. RInv => AllDecoded
  BY DEF RInv, Progress, AllDecoded
<1> QED BY <1>1, RInvariance, PTL

LEMMA NextDue ==
  ASSUME RInv, [RNext]_rvars
  PROVE  [Decodes => due # << >> /\ Head(due) = submitted']_rvars
<1>1. SUFFICES ASSUME ~UNCHANGED rvars, Decodes
               PROVE  due # << >> /\ Head(due) = submitted'
  OBVIOUS
<1>2. pc = "print" /\ cur < end /\ cur \in Nat /\ end \in Nat
  BY <1>1 DEF Decodes, RInv, Progress, Printing
<1>3. Decode
  BY <1>1, <1>2 DEF RNext, WriteCommand, Rewind, WriteLow, WriteHigh, WriteEntries, RegisterWrite
<1>4. PrintWord
  BY <1>2, <1>3 DEF Decode, Decoding, SkipWord, IbEntry, EntryDone, Return
<1> QED BY <1>3, <1>4, DecodeWord

(* Every word that is decoded is the next one the driver submitted, and     *)
(* sends the method the driver meant, whatever commands it writes and       *)
(* however it cuts them into entries, round after round (ib_decode,         *)
(* ib_flush, pushbuf_decode).                                               *)
THEOREM DecodedAsSubmittedCorrect == RSpec => DecodedAsSubmitted
BY NextDue, RInvariance, PTL DEF RSpec, DecodedAsSubmitted
=============================================================================
