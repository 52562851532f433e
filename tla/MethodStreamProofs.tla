------------------------- MODULE MethodStreamProofs -------------------------
(***************************************************************************)
(* Proofs about MethodStream, for any words, objects and names: the        *)
(* counters stand for a queue of methods, and subchannels stay bound to    *)
(* what the driver asked for.                                              *)
(***************************************************************************)
EXTENDS MethodStream, SequencesExt, SequenceTheorems, WellFoundedInduction, TLAPS

-----------------------------------------------------------------------------
(* Numbers and lists.  That every set of numbers has a least one stands    *)
(* for induction in these proofs.                                           *)

(* Every set of natural numbers that is not empty has a least element. *)
LEMMA LeastNumber ==
  ASSUME NEW S \in SUBSET Nat, S # {}
  PROVE  \E m \in S : \A k \in S : m <= k
<1>1. \A x, y \in Nat : << x, y >> \in OpToRel(<, Nat) <=> x < y
  BY DEF OpToRel
<1>2. PICK m \in S : \A k \in S : << k, m >> \notin OpToRel(<, Nat)
  BY NatLessThanWellFounded, WFMin, Zenon
<1>3. \A k \in S : ~(k < m)
  BY <1>1, <1>2, Zenon
<1> QED BY <1>3

(* Min finds it. *)
LEMMA MinLeast ==
  ASSUME NEW S \in SUBSET Nat, S # {}
  PROVE  Min(S) \in S /\ \A k \in S : Min(S) <= k
BY LeastNumber DEF Min

(* The first element of a concatenation. *)
LEMMA ConcatFirst ==
  ASSUME NEW S, NEW s \in Seq(S), NEW t \in Seq(S), s # << >>
  PROVE  s \o t # << >> /\ Head(s \o t) = Head(s) /\ Tail(s \o t) = Tail(s) \o t
<1>1. PICK u : u = s \o t
  OBVIOUS
<1>2. /\ u \in Seq(S) /\ Len(u) = Len(s) + Len(t)
      /\ \A i \in 1 .. Len(s) + Len(t) : u[i] = IF i <= Len(s) THEN s[i] ELSE t[i - Len(s)]
  BY <1>1, ConcatProperties, Zenon
<1>3. Len(s) \in Nat /\ Len(t) \in Nat /\ Len(s) # 0
  OBVIOUS
<1>4. u # << >> /\ Head(u) = Head(s)
  BY <1>2, <1>3
<1>5. PICK v : v = Tail(s)
  OBVIOUS
<1>6. v \in Seq(S) /\ Len(v) = Len(s) - 1 /\ \A i \in 1 .. Len(s) - 1 : v[i] = s[i + 1]
  BY <1>3, <1>5
<1>7. PICK w : w = v \o t
  OBVIOUS
<1>8. /\ w \in Seq(S) /\ Len(w) = Len(v) + Len(t)
      /\ \A i \in 1 .. Len(v) + Len(t) : w[i] = IF i <= Len(v) THEN v[i] ELSE t[i - Len(v)]
  BY <1>6, <1>7, ConcatProperties, Zenon
<1>9. Tail(u) \in Seq(S) /\ Len(Tail(u)) = Len(u) - 1 /\ \A i \in 1 .. Len(u) - 1 : Tail(u)[i] = u[i + 1]
  BY <1>2, <1>4
<1>10. ASSUME NEW i \in 1 .. Len(u) - 1 PROVE Tail(u)[i] = w[i]
  <2>1. Tail(u)[i] = u[i + 1] /\ i + 1 \in 1 .. Len(s) + Len(t) /\ i \in 1 .. Len(v) + Len(t)
    <3>1. PICK m, n, k : m = Len(s) /\ n = Len(t) /\ k = Len(v)
      OBVIOUS
    <3>2. m \in Nat /\ n \in Nat /\ m # 0 /\ k = m - 1 /\ Len(u) = m + n
      BY <1>2, <1>3, <1>6, <3>1
    <3>3. i + 1 \in 1 .. m + n /\ i \in 1 .. k + n
      BY <3>2
    <3> QED BY <1>9, <3>1, <3>3
  <2>2. CASE i <= Len(v)
    BY <1>2, <1>3, <1>6, <1>8, <2>1, <2>2
  <2>3. CASE ~(i <= Len(v))
    <3>1. ~(i + 1 <= Len(s)) /\ i + 1 - Len(s) = i - Len(v)
      BY <1>3, <1>6, <2>3
    <3>2. u[i + 1] = t[i + 1 - Len(s)] /\ w[i] = t[i - Len(v)]
      BY <1>2, <1>8, <2>1, <2>3, <3>1
    <3> QED BY <2>1, <3>1, <3>2
  <2> QED BY <2>2, <2>3
<1>11. Tail(u) = w
  BY <1>2, <1>3, <1>6, <1>8, <1>9, <1>10
<1> QED BY <1>1, <1>4, <1>5, <1>7, <1>11

(* The order in which three lists are joined. *)
LEMMA ConcatThree ==
  ASSUME NEW T, NEW s \in Seq(T), NEW t \in Seq(T), NEW u \in Seq(T), NEW v, v = s \o t
  PROVE  v \o u = s \o (t \o u) /\ t \o u \in Seq(T)
<1>1. (s \o t) \o u = s \o (t \o u)
  BY ConcatAssociative
<1>2. t \o u \in Seq(T)
  BY ConcatProperties, Zenon
<1> QED BY <1>1, <1>2

(* A list is cut in two. *)
LEMMA CutInTwo ==
  ASSUME NEW T, NEW s \in Seq(T), NEW n \in 0 .. Len(s)
  PROVE  /\ SubSeq(s, 1, n) \in Seq(T) /\ Len(SubSeq(s, 1, n)) = n
         /\ SubSeq(s, n + 1, Len(s)) \in Seq(T) /\ Len(SubSeq(s, n + 1, Len(s))) = Len(s) - n
         /\ SubSeq(s, 1, n) \o SubSeq(s, n + 1, Len(s)) = s
<1>1. PICK u, v, w, l : u = SubSeq(s, 1, n) /\ v = SubSeq(s, n + 1, Len(s)) /\ w = u \o v /\ l = Len(s)
  OBVIOUS
<1>2. u \in Seq(T) /\ Len(u) = n /\ \A k \in 1 .. n : u[k] = s[k]
  BY <1>1
<1>3. l \in Nat /\ n \in Nat /\ n <= l
  BY <1>1
<1>4. v \in Seq(T) /\ Len(v) = l - n /\ \A k \in 1 .. l - n : v[k] = s[n + k]
  <2>1. v = SubSeq(s, n + 1, l) /\ s \in Seq(T) /\ Len(s) = l
    BY <1>1
  <2>2. Len(v) = l - n /\ v \in Seq(T)
    BY <1>3, <2>1
  <2>3. \A k \in 1 .. l - n : v[k] = s[n + 1 + k - 1]
    BY <1>3, <2>1
  <2>4. \A k \in 1 .. l - n : n + 1 + k - 1 = n + k
    BY <1>3
  <2> QED BY <2>2, <2>3, <2>4
<1>5. /\ w \in Seq(T) /\ Len(w) = Len(u) + Len(v)
      /\ \A k \in 1 .. Len(u) + Len(v) : w[k] = IF k <= Len(u) THEN u[k] ELSE v[k - Len(u)]
  <2>1. u \in Seq(T) /\ v \in Seq(T) /\ w = u \o v
    BY <1>1, <1>2, <1>4
  <2> QED BY <2>1, ConcatProperties, Zenon
<1>6. Len(u) + Len(v) = l
  BY <1>2, <1>3, <1>4
<1>7. ASSUME NEW k \in 1 .. l PROVE w[k] = s[k]
  <2>1. CASE k <= n
    BY <1>2, <1>3, <1>5, <1>6, <2>1
  <2>2. CASE ~(k <= n)
    <3>1. k - n \in 1 .. l - n /\ n + (k - n) = k
      BY <1>3, <2>2
    <3> QED BY <1>2, <1>4, <1>5, <1>6, <2>2, <3>1
  <2> QED BY <2>1, <2>2
<1>8. w = s
  <2>1. w \in Seq(T) /\ Len(w) = l /\ s \in Seq(T) /\ Len(s) = l
    BY <1>1, <1>5, <1>6
  <2> QED BY <1>3, <1>7, <2>1
<1> QED BY <1>1, <1>2, <1>4, <1>8

-----------------------------------------------------------------------------
(* The inductive invariants.                                                *)

ObjectType == [handle : Word, name : Word]

(* A count is awaited when nothing else is, for a command that does not    *)
(* increase.                                                                *)
CountAlone == long => size = 0 /\ incr = 0

(* An object has a handle, and only the name that belongs to it. *)
Named ==
  \A i \in DOMAIN objects :
    /\ objects[i].handle # Zero
    /\ objects[i].name # Zero =>
         objects[i].handle \in Created /\ objects[i].name = NameOf[objects[i].handle]

DecoderTyped ==
  /\ incr \in Nat /\ addr \in Nat /\ size \in Nat
  /\ subchan \in 0 .. 7 /\ long \in BOOLEAN
  /\ submitted \in [subc : 0 .. 7, mthd : Nat, data : Word] \cup {NoMethod}
  /\ nextaddr \in Nat

BindingsTyped ==
  /\ subchans \in [0 .. 7 -> 0 .. Len(objects)]
  /\ objects \in Seq(ObjectType) /\ Len(objects) <= MaxObjects
  /\ stopped \in BOOLEAN /\ told \in [0 .. 7 -> Word]

Counters == DecoderTyped /\ CountAlone
Bindings == BindingsTyped /\ Named /\ BoundAsTold
IInv == Counters /\ Bindings

-----------------------------------------------------------------------------
(* Words.                                                                   *)

LEMMA ZeroWord == Zero \in Word
BY DEF Zero, Word, Bits2, Bits3, Bits11

LEMMA WideNumber ==
  ASSUME NEW c \in Bits11, NEW p \in Bits2
  PROVE  4 * c + p \in Nat
BY SMT DEF Bits2, Bits11

LEMMA LongNumber ==
  ASSUME NEW y \in Bits3, NEW c \in Bits11, NEW m \in Bits11, NEW p \in Bits2, NEW l \in Bits2
  PROVE  262144 * (c % 64) + 65536 * p + 8192 * y + 4 * m + l \in Nat
<1>1. c % 64 \in Nat
  BY SMT DEF Bits11
<1> QED BY SMT, <1>1 DEF Bits2, Bits3, Bits11

LEMMA TargetNumber ==
  ASSUME NEW t \in Bits3, NEW y \in Bits3, NEW c \in Bits11, NEW m \in Bits11, NEW p \in Bits2
  PROVE  134217728 * t + 65536 * c + 16384 * p + 2048 * y + m \in Nat
BY SMT DEF Bits2, Bits3, Bits11

(* A count of 13 bits reads as a word. *)
LEMMA WideData ==
  ASSUME NEW c \in Bits11, NEW p \in Bits2
  PROVE  WordOf(4 * c + p) \in Word
<1>1. PICK n : n = 4 * c + p
  OBVIOUS
<1>2. n \in 0 .. 8191
  BY SMT, <1>1 DEF Bits2, Bits11
<1>3. PICK y, m, l : y = n \div 8192 /\ m = (n \div 4) % 2048 /\ l = n % 4
  OBVIOUS
<1>4. y \in Bits3 /\ m \in Bits11 /\ l \in Bits2
  <2>1. y \in 0 .. 7
    BY SMT, <1>2, <1>3
  <2>2. l \in 0 .. 3
    BY SMT, <1>2, <1>3
  <2>3. n \div 4 \in Int
    BY SMT, <1>2
  <2>4. m \in 0 .. 2047
    BY SMT, <1>3, <2>3
  <2> QED BY SMT, <2>1, <2>2, <2>4 DEF Bits2, Bits3, Bits11
<1>5. 0 \in Bits2 /\ 0 \in Bits3 /\ 0 \in Bits11
  BY SMT DEF Bits2, Bits3, Bits11
<1>6. [top |-> 0, count |-> 0, type |-> 0, subc |-> y, mthd |-> m, low |-> l] \in Word
  BY <1>4, <1>5 DEF Word
<1> QED BY <1>1, <1>3, <1>6 DEF WordOf

LEMMA WordFacts ==
  ASSUME NEW w \in Words
  PROVE  /\ w \in Word /\ w.subc \in 0 .. 7 /\ w.mthd \in Nat /\ w.count \in Nat
         /\ w.top \in 0 .. 7 /\ w.type \in 0 .. 3 /\ w.low \in 0 .. 3
         /\ WideMethod(w) \in Nat /\ WideCount(w) \in Nat /\ WordOf(WideCount(w)) \in Word
         /\ LongCountOf(w) \in Nat /\ 4 * TargetOf(w) \in Nat
<1>1. w \in Word
  BY WordsAssumption
<1>2. /\ w.subc \in Bits3 /\ w.mthd \in Bits11 /\ w.count \in Bits11
      /\ w.top \in Bits3 /\ w.type \in Bits2 /\ w.low \in Bits2
  BY <1>1 DEF Word
<1>3. WideMethod(w) \in Nat /\ WideCount(w) \in Nat /\ WordOf(WideCount(w)) \in Word
  <2>1. WideMethod(w) \in Nat
    BY SMT, <1>2, WideNumber DEF WideMethod
  <2>2. WideCount(w) \in Nat
    BY SMT, <1>2, WideNumber DEF WideCount
  <2>3. WordOf(WideCount(w)) \in Word
    BY <1>2, WideData DEF WideCount
  <2> QED BY SMT, <2>1, <2>2, <2>3
<1>4. LongCountOf(w) \in Nat
  BY SMT, <1>2, LongNumber DEF LongCountOf
<1>5. TargetOf(w) \in Nat
  BY SMT, <1>2, TargetNumber DEF TargetOf
<1>6. w.mthd \in Nat /\ w.count \in Nat
  <2>1. \A m \in Bits11 : m \in Nat
    BY SMT DEF Bits11
  <2> QED BY <1>2, <2>1
<1>7. w.subc \in 0 .. 7 /\ w.top \in 0 .. 7 /\ w.type \in 0 .. 3 /\ w.low \in 0 .. 3
  BY <1>2 DEF Bits2, Bits3
<1>8. 4 * TargetOf(w) \in Nat
  BY <1>5
<1> QED BY SMT, <1>1, <1>3, <1>4, <1>6, <1>7, <1>8

-----------------------------------------------------------------------------
(* Objects.                                                                 *)

LEMMA FirstFacts ==
  ASSUME NEW n \in Nat, NEW I \in SUBSET (1 .. n)
  PROVE  /\ I = {} => First(I) = 0
         /\ I # {} => First(I) \in I /\ First(I) \in 1 .. n
<1>1. I \in SUBSET Nat
  OBVIOUS
<1> QED BY <1>1, MinLeast DEF First

Answers(i, h) == h # Zero /\ h \in {objects[i].handle, objects[i].name}

(* get_object finds an object that has the handle for handle or name. *)
LEMMA LookupFacts ==
  ASSUME objects \in Seq(ObjectType), NEW h
  PROVE  /\ Lookup(h) \in 0 .. Len(objects)
         /\ Lookup(h) # 0 => Answers(Lookup(h), h)
<1> DEFINE byHandle == { i \in DOMAIN objects : objects[i].handle = h }
           byName   == { i \in DOMAIN objects : objects[i].name = h }
           I == IF byHandle # {} THEN byHandle ELSE byName
<1>1. Len(objects) \in Nat /\ I \in SUBSET (1 .. Len(objects))
  OBVIOUS
<1>2. Lookup(h) = IF h = Zero THEN 0 ELSE First(I)
  BY DEF Lookup
<1>3. \A i \in I : h \in {objects[i].handle, objects[i].name}
  OBVIOUS
<1> HIDE DEF I
<1>4. First(I) = 0 \/ (First(I) \in I /\ First(I) \in 1 .. Len(objects))
  BY <1>1, FirstFacts
<1> QED BY <1>1, <1>2, <1>3, <1>4 DEF Answers

(* The list of objects grows at its end, within its bound. *)
LEMMA Appended ==
  ASSUME objects \in Seq(ObjectType), Named, NEW h \in Word \ {Zero},
         objects' = Append(objects, Object(h))
  PROVE  /\ objects' \in Seq(ObjectType) /\ Len(objects') = Len(objects) + 1 /\ Named'
         /\ \A i \in 1 .. Len(objects) : objects'[i] = objects[i]
         /\ objects'[Len(objects')].handle = h
<1>1. Object(h) \in ObjectType /\ Object(h).handle = h /\ Object(h).name = Zero
  BY ZeroWord DEF Object, ObjectType
<1>2. /\ objects' \in Seq(ObjectType) /\ Len(objects') = Len(objects) + 1
      /\ \A i \in 1 .. Len(objects) : objects'[i] = objects[i]
      /\ objects'[Len(objects) + 1] = Object(h)
  BY <1>1
<1>3. Named'
  <2> SUFFICES ASSUME NEW i \in 1 .. Len(objects) + 1
               PROVE  /\ objects'[i].handle # Zero
                      /\ objects'[i].name # Zero =>
                           objects'[i].handle \in Created /\ objects'[i].name = NameOf[objects'[i].handle]
    BY <1>2 DEF Named
  <2>1. CASE i \in 1 .. Len(objects)
    BY <1>2, <2>1 DEF Named
  <2>2. CASE i = Len(objects) + 1
    BY <1>1, <1>2, <2>2
  <2> QED BY <2>1, <2>2
<1> QED BY <1>1, <1>2, <1>3

(* subchans[s] = get_object(h). *)
LEMMA BindFacts ==
  ASSUME BindingsTyped, Named, ~stopped, NEW s \in 0 .. 7, NEW h \in Word, Bind(s, h)
  PROVE  /\ objects' \in Seq(ObjectType) /\ Len(objects) <= Len(objects') /\ Len(objects') <= MaxObjects
         /\ Named' /\ \A i \in 1 .. Len(objects) : objects'[i] = objects[i]
         /\ subchans' \in [0 .. 7 -> 0 .. Len(objects')] /\ stopped' \in BOOLEAN
         /\ stopped' \/ /\ \A r \in 0 .. 7 : r # s => subchans'[r] = subchans[r]
                        /\ subchans'[s] = 0 => h = Zero \/ Chipset < GF100
                        /\ subchans'[s] # 0 =>
                             h # Zero /\ h \in {objects'[subchans'[s]].handle, objects'[subchans'[s]].name}
<1>1. /\ objects \in Seq(ObjectType) /\ Len(objects) <= MaxObjects /\ Len(objects) \in Nat
      /\ subchans \in [0 .. 7 -> 0 .. Len(objects)] /\ MaxObjects \in Nat /\ Chipset \in Nat
  BY CountAssumption DEF BindingsTyped
<1> DEFINE found == Lookup(h)
           guess == found = 0 /\ h # Zero /\ Chipset >= GF100
<1>2.   /\ stopped' = (guess /\ (DeviceClass(h) \/ Len(objects) = MaxObjects))
        /\ objects' = IF guess /\ ~stopped' THEN Append(objects, Object(h)) ELSE objects
        /\ subchans' = IF stopped' THEN subchans
                       ELSE [subchans EXCEPT ![s] = IF guess THEN Len(objects') ELSE found]
  BY DEF Bind
<1>3. found \in 0 .. Len(objects) /\ (found # 0 => h # Zero /\ h \in {objects[found].handle, objects[found].name})
  BY <1>1, LookupFacts DEF Answers
<1>4. stopped' \in BOOLEAN
  BY <1>2
<1>5. CASE stopped'
  <2>1. objects' = objects /\ subchans' = subchans
    BY <1>2, <1>5
  <2>2. Named'
    BY <2>1 DEF Named
  <2> QED BY <1>1, <1>4, <1>5, <2>1, <2>2
<1>6. CASE ~stopped' /\ guess
  <2>1. objects' = Append(objects, Object(h)) /\ subchans' = [subchans EXCEPT ![s] = Len(objects')]
    BY <1>2, <1>6
  <2>2. h # Zero /\ Len(objects) # MaxObjects
    BY <1>2, <1>6
  <2> HIDE DEF guess
  <2>3. /\ objects' \in Seq(ObjectType) /\ Len(objects') = Len(objects) + 1 /\ Named'
        /\ \A i \in 1 .. Len(objects) : objects'[i] = objects[i]
        /\ objects'[Len(objects')].handle = h
    BY <1>1, <2>1, <2>2, Appended
  <2>4. subchans' \in [0 .. 7 -> 0 .. Len(objects')]
    BY SMTT(30), <1>1, <2>1, <2>3
  <2>5. subchans'[s] = Len(objects') /\ \A r \in 0 .. 7 : r # s => subchans'[r] = subchans[r]
    BY SMTT(30), <1>1, <2>1
  <2>6. Len(objects) <= Len(objects') /\ Len(objects') <= MaxObjects
    BY SMTT(30), <1>1, <2>2, <2>3
  <2>7. h \in {objects'[subchans'[s]].handle, objects'[subchans'[s]].name} /\ subchans'[s] # 0
    BY SMTT(30), <1>1, <2>3, <2>5
  <2> QED BY <1>4, <2>2, <2>3, <2>4, <2>5, <2>6, <2>7
<1>7. CASE ~stopped' /\ ~guess
  <2>1. objects' = objects /\ subchans' = [subchans EXCEPT ![s] = found]
    BY <1>2, <1>7
  <2>2. Named'
    BY <2>1 DEF Named
  <2>3. subchans' \in [0 .. 7 -> 0 .. Len(objects')]
    BY <1>1, <1>3, <2>1
  <2>4. subchans'[s] = found /\ \A r \in 0 .. 7 : r # s => subchans'[r] = subchans[r]
    BY <1>1, <2>1
  <2>5. found = 0 => h = Zero \/ Chipset < GF100
    BY <1>1, <1>2, <1>7 DEF GF100
  <2> QED BY SMTT(30), <1>1, <1>3, <1>4, <2>1, <2>2, <2>3, <2>4, <2>5
<1> QED BY <1>4, <1>5, <1>6, <1>7

(* What every subchannel has to say for itself. *)
Told(s) ==
  \/ stopped
  \/ subchans[s] = 0 /\ (told[s] = Zero \/ Chipset < GF100)
  \/ subchans[s] # 0 /\ told[s] # Zero /\ Answers(subchans[s], told[s])
  \/ subchans[s] # 0 /\ told[s] = Zero /\ Chipset >= GK104 /\ Answers(subchans[s], DefaultHandle[s])

LEMMA ToldAll == BoundAsTold <=> \A s \in 0 .. 7 : Told(s)
BY DEF BoundAsTold, Told, Answers

LEMMA ToldAllNext == BoundAsTold' <=> \A s \in 0 .. 7 : Told(s)'
BY DEF BoundAsTold, Told, Answers

(* An object was bound because the driver said so, or by default. *)
LEMMA Rebound ==
  ASSUME Bindings, ~stopped, NEW s \in 0 .. 7, NEW h \in Word, Bind(s, h),
         \/ told' = [told EXCEPT ![s] = h]
         \/ told' = told /\ subchans[s] = 0 /\ h = DefaultHandle[s] /\ h # Zero /\ Chipset >= GK104
  PROVE  Bindings'
<1>1. /\ BindingsTyped /\ Named /\ \A r \in 0 .. 7 : Told(r)
      /\ subchans \in [0 .. 7 -> 0 .. Len(objects)] /\ Len(objects) \in Nat
      /\ told \in [0 .. 7 -> Word] /\ Chipset \in Nat
  BY ToldAll, CountAssumption DEF Bindings, BindingsTyped
<1>2. /\ objects' \in Seq(ObjectType) /\ Len(objects) <= Len(objects') /\ Len(objects') <= MaxObjects
      /\ Named' /\ \A i \in 1 .. Len(objects) : objects'[i] = objects[i]
      /\ subchans' \in [0 .. 7 -> 0 .. Len(objects')] /\ stopped' \in BOOLEAN
      /\ stopped' \/ /\ \A r \in 0 .. 7 : r # s => subchans'[r] = subchans[r]
                     /\ subchans'[s] = 0 => h = Zero \/ Chipset < GF100
                     /\ subchans'[s] # 0 =>
                          h # Zero /\ h \in {objects'[subchans'[s]].handle, objects'[subchans'[s]].name}
  BY <1>1, BindFacts
<1>3. told' \in [0 .. 7 -> Word] /\ \A r \in 0 .. 7 : r # s => told'[r] = told[r]
  BY <1>1
<1>4. BindingsTyped'
  BY <1>2, <1>3 DEF BindingsTyped
<1>5. ASSUME NEW r \in 0 .. 7, r # s, ~stopped' PROVE Told(r)'
  <2>1. subchans'[r] = subchans[r] /\ told'[r] = told[r] /\ Told(r)
    BY <1>1, <1>2, <1>3, <1>5
  <2>2. subchans[r] # 0 => objects'[subchans[r]] = objects[subchans[r]]
    <3>1. subchans[r] # 0 => subchans[r] \in 1 .. Len(objects)
      BY SMTT(30), <1>1
    <3> QED BY <1>2, <3>1
  <2> QED BY <2>1, <2>2 DEF Told, Answers
<1>6. ASSUME ~stopped', told' = [told EXCEPT ![s] = h] PROVE Told(s)'
  <2>1. told'[s] = h
    BY <1>1, <1>6
  <2> QED BY <1>2, <1>6, <2>1 DEF Told, Answers
<1>7. ASSUME ~stopped', told' = told, subchans[s] = 0, h = DefaultHandle[s], h # Zero, Chipset >= GK104
      PROVE  Told(s)'
  <2>1. ~(Chipset < GF100)
    BY <1>1, <1>7 DEF GF100, GK104
  <2>2. told[s] = Zero
    BY <1>1, <1>7, <2>1 DEF Told
  <2> QED BY <1>2, <1>7, <2>1, <2>2 DEF Told, Answers
<1>8. ASSUME NEW r \in 0 .. 7 PROVE Told(r)'
  <2>1. CASE stopped'
    BY <2>1 DEF Told
  <2>2. CASE ~stopped'
    BY <1>5, <1>6, <1>7, <2>2
  <2> QED BY <2>1, <2>2
<1> QED BY <1>2, <1>4, <1>8, ToldAllNext DEF Bindings

LEMMA Kept ==
  ASSUME Bindings, UNCHANGED << subchans, objects, stopped, told >>
  PROVE  Bindings'
<1>1. BindingsTyped' /\ Named'
  BY DEF Bindings, BindingsTyped, Named
<1>2. BoundAsTold'
  BY DEF Bindings, BoundAsTold
<1> QED BY <1>1, <1>2 DEF Bindings

(* A method command binds the default to what is not bound. *)
LEMMA MethodCommandKeeps ==
  ASSUME Bindings, ~stopped, NEW s \in 0 .. 7, MethodCommand(s), told' = told
  PROVE  Bindings' /\ submitted' = NoMethod /\ nextaddr' = 0
<1>1. submitted' = NoMethod /\ nextaddr' = 0
  BY DEF MethodCommand, Quiet
<1>2. CASE Chipset >= GK104 /\ subchans[s] = 0 /\ DefaultHandle[s] # Zero
  <2>1. Bind(s, DefaultHandle[s]) /\ DefaultHandle[s] \in Word
    BY <1>2, HandleAssumption DEF MethodCommand
  <2> QED BY <1>1, <1>2, <2>1, Rebound
<1>3. CASE ~(Chipset >= GK104 /\ subchans[s] = 0 /\ DefaultHandle[s] # Zero)
  <2>1. UNCHANGED << subchans, objects, stopped, told >>
    BY <1>3 DEF MethodCommand, KeepBindings
  <2> QED BY <1>1, <2>1, Kept
<1> QED BY <1>2, <1>3

LEMMA AddObjectKeeps ==
  ASSUME Bindings, NEW h \in Created, AddObject(h)
  PROVE  Bindings'
<1>1. /\ BindingsTyped /\ Named /\ \A r \in 0 .. 7 : Told(r)
      /\ subchans \in [0 .. 7 -> 0 .. Len(objects)] /\ Len(objects) \in Nat
      /\ objects \in Seq(ObjectType) /\ Len(objects) <= MaxObjects /\ MaxObjects \in Nat
  BY ToldAll, CountAssumption DEF Bindings, BindingsTyped
<1>2. /\ ~stopped /\ stopped' = (Len(objects) = MaxObjects)
      /\ objects' = IF stopped' THEN objects ELSE Append(objects, Object(h))
      /\ subchans' = subchans /\ told' = told
  BY DEF AddObject
<1>3. CASE stopped'
  <2>1. objects' = objects /\ BindingsTyped' /\ Named'
    BY <1>1, <1>2, <1>3 DEF BindingsTyped, Named
  <2>2. BoundAsTold'
    BY <1>3, ToldAllNext DEF Told
  <2> QED BY <2>1, <2>2 DEF Bindings
<1>4. CASE ~stopped'
  <2>1. objects' = Append(objects, Object(h)) /\ Len(objects) # MaxObjects /\ h \in Word \ {Zero}
    BY <1>2, <1>4, HandleAssumption
  <2>2. /\ objects' \in Seq(ObjectType) /\ Len(objects') = Len(objects) + 1 /\ Named'
        /\ \A i \in 1 .. Len(objects) : objects'[i] = objects[i]
    BY <1>1, <2>1, Appended
  <2>3. BindingsTyped'
    <3>1. subchans' \in [0 .. 7 -> 0 .. Len(objects')]
      BY SMTT(30), <1>1, <1>2, <2>2
    <3>2. Len(objects') <= MaxObjects
      BY <1>1, <2>1, <2>2
    <3> QED BY <1>1, <1>2, <2>2, <3>1, <3>2 DEF BindingsTyped
  <2>4. ASSUME NEW r \in 0 .. 7 PROVE Told(r)'
    <3>1. subchans[r] # 0 => objects'[subchans[r]] = objects[subchans[r]]
      <4>1. subchans[r] # 0 => subchans[r] \in 1 .. Len(objects)
        BY <1>1, SMTT(30)
      <4> QED BY <2>2, <4>1
    <3> QED BY <1>1, <1>2, <3>1 DEF Told, Answers
  <2> QED BY <2>2, <2>3, <2>4, ToldAllNext DEF Bindings
<1> QED BY <1>3, <1>4

(* An object keeps the handle it has, and a name it had. *)
LEMMA NameObjectKeeps ==
  ASSUME Bindings, NEW h \in Created, NameObject(h)
  PROVE  Bindings'
<1>1. /\ BindingsTyped /\ Named /\ \A r \in 0 .. 7 : Told(r)
      /\ subchans \in [0 .. 7 -> 0 .. Len(objects)] /\ Len(objects) \in Nat
      /\ objects \in Seq(ObjectType) /\ DOMAIN objects = 1 .. Len(objects)
  BY ToldAll, CountAssumption DEF Bindings, BindingsTyped
<1> DEFINE I == { i \in DOMAIN objects : objects[i].handle = h }
<1>2. PICK n : n = First(I)
  OBVIOUS
<1>3. /\ n # 0 /\ objects' = [objects EXCEPT ![n].name = NameOf[h]]
      /\ subchans' = subchans /\ stopped' = stopped /\ told' = told
  BY <1>2 DEF NameObject
<1>4. n \in 1 .. Len(objects) /\ objects[n].handle = h
  <2>1. I \in SUBSET (1 .. Len(objects)) /\ \A i \in I : objects[i].handle = h
    BY <1>1
  <2> HIDE DEF I
  <2> QED BY <1>1, <1>2, <1>3, <2>1, FirstFacts
<1>5. NameOf[h] \in Word
  BY HandleAssumption
<1>6. objects[n] \in ObjectType
  BY <1>1, <1>4
<1>7. /\ objects' \in Seq(ObjectType) /\ Len(objects') = Len(objects)
      /\ \A i \in 1 .. Len(objects) : i # n => objects'[i] = objects[i]
      /\ objects'[n] = [objects[n] EXCEPT !.name = NameOf[h]]
  <2>1. [objects[n] EXCEPT !.name = NameOf[h]] \in ObjectType
    BY <1>5, <1>6 DEF ObjectType
  <2> QED BY <1>1, <1>3, <1>4, <2>1
<1>8. objects'[n].handle = h /\ objects'[n].name = NameOf[h]
  BY <1>4, <1>6, <1>7 DEF ObjectType
<1>9. BindingsTyped'
  BY <1>1, <1>3, <1>7 DEF BindingsTyped
<1>10. Named'
  <2> SUFFICES ASSUME NEW i \in 1 .. Len(objects)
               PROVE  /\ objects'[i].handle # Zero
                      /\ objects'[i].name # Zero =>
                           objects'[i].handle \in Created /\ objects'[i].name = NameOf[objects'[i].handle]
    BY <1>7 DEF Named
  <2>1. CASE i = n
    BY <1>1, <1>4, <1>8, <2>1 DEF Named
  <2>2. CASE i # n
    BY <1>1, <1>7, <2>2 DEF Named
  <2> QED BY <2>1, <2>2
<1>11. ASSUME NEW i \in 1 .. Len(objects), NEW x, Answers(i, x) PROVE Answers(i, x)'
  <2>1. CASE i = n
    <3>1. objects[n].name # Zero => objects[n].name = NameOf[h]
      BY <1>1, <1>4 DEF Named
    <3> QED BY <1>4, <1>8, <1>11, <2>1, <3>1 DEF Answers
  <2>2. CASE i # n
    BY <1>7, <1>11, <2>2 DEF Answers
  <2> QED BY <2>1, <2>2
<1>12. ASSUME NEW r \in 0 .. 7 PROVE Told(r)'
  <2>1. Told(r) /\ subchans[r] \in 0 .. Len(objects)
    BY <1>1
  <2>2. subchans[r] # 0 => subchans[r] \in 1 .. Len(objects)
    BY <1>1, <2>1
  <2>3. ASSUME NEW x, subchans[r] # 0, Answers(subchans[r], x) PROVE Answers(subchans[r], x)'
    BY <1>3, <1>11, <2>2, <2>3 DEF Answers
  <2> QED BY <1>3, <2>1, <2>3 DEF Told
<1> QED BY <1>9, <1>10, <1>12, ToldAllNext DEF Bindings

-----------------------------------------------------------------------------
(* The counters.                                                            *)

(* What a command loads has its type. *)
LEMMA LoadTyped ==
  ASSUME Counters, NEW w \in Words, NEW m \in Nat, NEW n \in Nat, Load(w.subc, m, n),
         incr' \in Nat, long' \in BOOLEAN, long' => n = 0 /\ incr' = 0, nextaddr' \in Nat,
         submitted' \in [subc : 0 .. 7, mthd : Nat, data : Word] \cup {NoMethod}
  PROVE  Counters'
<1>1. w.subc \in 0 .. 7
  BY WordFacts
<1> QED BY <1>1 DEF Counters, DecoderTyped, CountAlone, Load

(* Of a command that binds: its three numbers and the flags are all there   *)
(* is to say.                                                               *)
LEMMA MethodCommandStep ==
  ASSUME IInv, NEW w \in Words, AtCommand, MethodCommand(w.subc), told' = told,
         NEW m \in Nat, NEW n \in Nat, Load(w.subc, m, n),
         incr' \in Nat, long' \in BOOLEAN, long' => n = 0 /\ incr' = 0
  PROVE  IInv'
<1>1. Bindings' /\ submitted' = NoMethod /\ nextaddr' = 0
  BY WordFacts, MethodCommandKeeps DEF IInv, AtCommand
<1>2. Counters'
  BY <1>1, LoadTyped DEF IInv
<1> QED BY <1>1, <1>2 DEF IInv

(* Of one that does not. *)
LEMMA OtherCommandStep ==
  ASSUME IInv, NEW w \in Words, KeepBindings, told' = told,
         NEW m \in Nat, NEW n \in Nat, Load(w.subc, m, n),
         incr' \in Nat, long' \in BOOLEAN, long' => n = 0 /\ incr' = 0, nextaddr' \in Nat,
         submitted' \in [subc : 0 .. 7, mthd : Nat, data : Word] \cup {NoMethod}
  PROVE  IInv'
<1>1. Bindings'
  BY Kept DEF IInv, KeepBindings
<1>2. Counters'
  BY LoadTyped DEF IInv
<1> QED BY <1>1, <1>2 DEF IInv

LEMMA Nv4Step ==
  ASSUME IInv, NEW w \in Words, told' = told,
         \/ Nop(w) \/ Nv4Increasing(w) \/ Nv4Constant(w) \/ Nv4Long(w) \/ Nv4LongCount(w)
         \/ Nv4Other(w) \/ Nv4OldJump(w) \/ Nv4Jump(w)
  PROVE  IInv'
<1>1. /\ w.mthd \in Nat /\ w.count \in Nat /\ 0 \in Nat /\ LongCountOf(w) \in Nat /\ 4 * TargetOf(w) \in Nat
      /\ incr \in Nat /\ long \in BOOLEAN
  BY WordFacts DEF IInv, Counters, DecoderTyped
<1>2. CASE Nop(w)
  <2>1. UNCHANGED << incr, subchan, addr, size, long >> /\ Quiet /\ KeepBindings
    BY <1>2 DEF Nop
  <2>2. Bindings'
    BY <2>1, Kept DEF IInv, KeepBindings
  <2>3. Counters'
    BY <2>1 DEF IInv, Counters, DecoderTyped, CountAlone, Quiet
  <2> QED BY <2>2, <2>3 DEF IInv
<1>3. CASE Nv4Increasing(w)
  BY <1>1, <1>3, MethodCommandStep DEF Nv4Increasing, Nv4Command
<1>4. CASE Nv4Constant(w)
  BY <1>1, <1>4, MethodCommandStep DEF Nv4Constant, Nv4Command
<1>5. CASE Nv4Long(w)
  BY <1>1, <1>5, MethodCommandStep DEF Nv4Long, Nv4Command
<1>6. CASE Nv4LongCount(w)
  <2>1. /\ size' = LongCountOf(w) /\ long' = FALSE /\ UNCHANGED << incr, subchan, addr >>
        /\ submitted' = NoMethod /\ nextaddr' = 0 /\ KeepBindings
    BY <1>6 DEF Nv4LongCount, Quiet
  <2>2. Bindings'
    BY <2>1, Kept DEF IInv, KeepBindings
  <2>3. Counters'
    BY <1>1, <2>1 DEF IInv, Counters, DecoderTyped, CountAlone
  <2> QED BY <2>2, <2>3 DEF IInv
<1>7. CASE Nv4Other(w)
  <2>1. /\ Load(w.subc, w.mthd, 0) /\ incr' = incr /\ long' = long /\ ~long /\ KeepBindings
        /\ submitted' = NoMethod /\ nextaddr' = 0
    BY <1>7 DEF Nv4Other, Nv4Command, Quiet
  <2> QED BY <1>1, <2>1, OtherCommandStep
<1>8. CASE Nv4OldJump(w)
  <2>1. /\ Load(w.subc, w.mthd, w.count) /\ incr' = incr /\ long' = long /\ ~long /\ KeepBindings
        /\ submitted' = NoMethod /\ nextaddr' = 1
    BY <1>8 DEF Nv4OldJump, Nv4Command
  <2> QED BY <1>1, <2>1, OtherCommandStep
<1>9. CASE Nv4Jump(w)
  <2>1. /\ Load(w.subc, w.mthd, 0) /\ incr' = incr /\ long' = long /\ ~long /\ KeepBindings
        /\ submitted' = NoMethod /\ nextaddr' = 4 * TargetOf(w)
    BY <1>9 DEF Nv4Jump, Nv4Command
  <2> QED BY <1>1, <2>1, OtherCommandStep
<1> QED BY <1>2, <1>3, <1>4, <1>5, <1>6, <1>7, <1>8, <1>9

LEMMA WideStep ==
  ASSUME IInv, NEW w \in Words, told' = told,
         \/ WideIncreasing(w) \/ WideConstant(w) \/ WideIncreaseOnce(w) \/ WideInline(w)
         \/ WideOldIncreasing(w) \/ WideOldConstant(w) \/ WideOther(w)
  PROVE  IInv'
<1> PICK m, n, d : m = WideMethod(w) /\ n = WideCount(w) /\ d = WordOf(n)
  OBVIOUS
<1>1. /\ m \in Nat /\ w.count \in Nat /\ 0 \in Nat /\ 1 \in Nat
      /\ incr \in Nat /\ long \in BOOLEAN /\ w.subc \in 0 .. 7
  BY WordFacts DEF IInv, Counters, DecoderTyped
<1>2. n \in Nat /\ d \in Word
  BY WordFacts
<1>3. CASE WideIncreasing(w)
  BY <1>1, <1>2, <1>3, MethodCommandStep DEF WideIncreasing, WideCommand
<1>4. CASE WideConstant(w)
  BY <1>1, <1>2, <1>4, MethodCommandStep DEF WideConstant, WideCommand
<1>5. CASE WideIncreaseOnce(w)
  BY <1>1, <1>2, <1>5, MethodCommandStep DEF WideIncreaseOnce, WideCommand
<1>6. CASE WideInline(w)
  <2>1. /\ Load(w.subc, m, 0) /\ incr' = incr /\ long' = long /\ ~long /\ KeepBindings /\ nextaddr' = 0
        /\ submitted' = [subc |-> w.subc, mthd |-> m, data |-> d]
    BY <1>6 DEF WideInline, WideCommand
  <2>2. submitted' \in [subc : 0 .. 7, mthd : Nat, data : Word]
    BY <1>1, <1>2, <2>1
  <2> QED BY <1>1, <2>1, <2>2, OtherCommandStep
<1>7. CASE WideOldIncreasing(w)
  BY <1>1, <1>7, MethodCommandStep DEF WideOldIncreasing, WideCommand
<1>8. CASE WideOldConstant(w)
  BY <1>1, <1>8, MethodCommandStep DEF WideOldConstant, WideCommand
<1>9. CASE WideOther(w)
  <2>1. /\ Load(w.subc, m, 0) /\ incr' \in {0, 1, incr} /\ long' = long /\ ~long /\ KeepBindings
        /\ submitted' = NoMethod /\ nextaddr' = 0
    BY <1>9 DEF WideOther, WideCommand, Quiet
  <2> QED BY <1>1, <2>1, OtherCommandStep
<1> QED BY <1>3, <1>4, <1>5, <1>6, <1>7, <1>8, <1>9

LEMMA ParameterStep ==
  ASSUME IInv, NEW w \in Words, Parameter(w)
  PROVE  IInv'
<1>1. /\ size # 0 /\ ~stopped /\ size' = size - 1 /\ UNCHANGED << subchan, long >>
      /\ submitted' = [subc |-> subchan, mthd |-> addr, data |-> w] /\ nextaddr' = 0
      /\ addr' = IF incr # 0 THEN addr + 1 ELSE addr
      /\ incr' = IF incr # 0 THEN incr - 1 ELSE incr
      /\ IF addr = 0
         THEN BindParameter(w) /\ told' = [told EXCEPT ![subchan] = w]
         ELSE KeepBindings /\ UNCHANGED told
  BY DEF Parameter, AtParameter
<1>2. incr \in Nat /\ addr \in Nat /\ size \in Nat /\ subchan \in 0 .. 7 /\ (long => size = 0 /\ incr = 0) /\ w \in Word
  BY WordFacts DEF IInv, Counters, DecoderTyped, CountAlone
<1>3. Counters'
  <2>1. incr' \in Nat /\ addr' \in Nat /\ size' \in Nat /\ nextaddr' \in Nat
    BY <1>1, <1>2
  <2>2. submitted' \in [subc : 0 .. 7, mthd : Nat, data : Word]
    BY <1>1, <1>2
  <2> QED BY <1>1, <1>2, <2>1, <2>2 DEF IInv, Counters, DecoderTyped, CountAlone
<1>4. Bindings'
  <2>1. CASE addr # 0
    BY <1>1, <2>1, Kept DEF IInv, KeepBindings
  <2>2. CASE addr = 0 /\ (subchans[subchan] # 0 => objects[subchans[subchan]].handle # w)
    <3>1. Bind(subchan, w) /\ told' = [told EXCEPT ![subchan] = w]
      BY <1>1, <2>2 DEF BindParameter
    <3> QED BY <1>1, <1>2, <3>1, Rebound DEF IInv
  <2>3. CASE addr = 0 /\ subchans[subchan] # 0 /\ objects[subchans[subchan]].handle = w
    <3>1. told' = [told EXCEPT ![subchan] = w] /\ UNCHANGED << subchans, objects, stopped >>
      BY <1>1, <2>3 DEF BindParameter, KeepBindings
    <3>2. /\ BindingsTyped /\ Named /\ \A r \in 0 .. 7 : Told(r)
          /\ subchans \in [0 .. 7 -> 0 .. Len(objects)] /\ told \in [0 .. 7 -> Word] /\ Len(objects) \in Nat
      BY ToldAll DEF IInv, Bindings, BindingsTyped
    <3>3. told' \in [0 .. 7 -> Word] /\ told'[subchan] = w /\ \A r \in 0 .. 7 : r # subchan => told'[r] = told[r]
      BY <1>2, <3>1, <3>2
    <3>4. BindingsTyped' /\ Named'
      BY <3>1, <3>2, <3>3 DEF BindingsTyped, Named
    <3>5. w # Zero
      <4>1. subchans[subchan] \in 1 .. Len(objects) /\ DOMAIN objects = 1 .. Len(objects)
        BY SMTT(30), <1>2, <2>3, <3>2 DEF BindingsTyped
      <4> QED BY <2>3, <3>2, <4>1 DEF Named
    <3>6. ASSUME NEW r \in 0 .. 7 PROVE Told(r)'
      <4>1. CASE r = subchan
        BY <2>3, <3>1, <3>3, <3>5, <4>1 DEF Told, Answers
      <4>2. CASE r # subchan
        BY <3>1, <3>2, <3>3, <4>2 DEF Told, Answers
      <4> QED BY <4>1, <4>2
    <3> QED BY <3>4, <3>6, ToldAllNext DEF Bindings
  <2> QED BY <2>1, <2>2, <2>3
<1> QED BY <1>3, <1>4 DEF IInv

LEMMA InitIInv ==
  ASSUME Init
  PROVE  IInv
<1>1. Counters
  <2>1. /\ incr = 0 /\ subchan = 0 /\ addr = 0 /\ size = 0 /\ long = FALSE
        /\ submitted = NoMethod /\ nextaddr = 0
    BY DEF Init
  <2>2. DecoderTyped
    <3>1. submitted \in [subc : 0 .. 7, mthd : Nat, data : Word] \cup {NoMethod}
      BY <2>1, Zenon
    <3>2. incr \in Nat /\ subchan \in 0 .. 7 /\ addr \in Nat /\ size \in Nat /\ nextaddr \in Nat
      BY <2>1
    <3>3. long \in BOOLEAN
      BY <2>1
    <3> QED BY <3>1, <3>2, <3>3, Zenon DEF DecoderTyped
  <2> QED BY <2>1, <2>2 DEF Counters, CountAlone
<1>2. Bindings
  <2>1. /\ subchans = [s \in 0 .. 7 |-> 0] /\ objects = << >> /\ stopped = FALSE
        /\ told = [s \in 0 .. 7 |-> Zero]
    BY DEF Init
  <2>2. BindingsTyped
    <3>1. objects \in Seq(ObjectType) /\ Len(objects) = 0 /\ Len(objects) <= MaxObjects
      BY <2>1, CountAssumption
    <3>2. 0 \in 0 .. Len(objects)
      BY <3>1
    <3>3. subchans \in [0 .. 7 -> 0 .. Len(objects)] /\ told \in [0 .. 7 -> Word]
      BY <2>1, <3>2, ZeroWord
    <3> QED BY <2>1, <3>1, <3>3 DEF BindingsTyped
  <2>3. Named
    BY <2>1 DEF Named
  <2>4. \A s \in 0 .. 7 : Told(s)
    BY <2>1 DEF Told
  <2> QED BY <2>2, <2>3, <2>4, ToldAll DEF Bindings
<1> QED BY <1>1, <1>2 DEF IInv

LEMMA NextIInv ==
  ASSUME IInv, [Next]_vars
  PROVE  IInv'
<1>1. ASSUME NEW w \in Words, PushbufDecode(w) PROVE IInv'
  <2>1. CASE Parameter(w)
    BY <2>1, ParameterStep
  <2>2. CASE CommandWord(w) /\ told' = told
    BY <2>2, Nv4Step, WideStep DEF CommandWord
  <2> QED BY <1>1, <2>1, <2>2 DEF PushbufDecode
<1>2. ASSUME NEW h \in Created, AddObject(h) \/ NameObject(h) PROVE IInv'
  <2>1. UNCHANGED decoder
    BY <1>2 DEF AddObject, NameObject
  <2>2. Counters'
    BY <2>1 DEF decoder, IInv, Counters, DecoderTyped, CountAlone
  <2>3. Bindings'
    BY <1>2, AddObjectKeeps, NameObjectKeeps DEF IInv
  <2> QED BY <2>2, <2>3 DEF IInv
<1>3. CASE UNCHANGED vars
  <2>1. Counters'
    BY <1>3 DEF vars, decoder, IInv, Counters, DecoderTyped, CountAlone
  <2>2. Bindings'
    BY <1>3, Kept DEF vars, IInv
  <2> QED BY <2>1, <2>2 DEF IInv
<1> QED BY <1>1, <1>2, <1>3 DEF Next

(* The counters, the bindings and their history keep to the invariant.      *)
THEOREM Invariance == Spec => []IInv
BY InitIInv, NextIInv, PTL DEF Spec

(* The state has its types: a subchannel is bound to an object that is      *)
(* there, the table of objects never runs over (pushbuf_add_object), and    *)
(* the counters never go below 0 (pushbuf_decode).                          *)
THEOREM TypeCorrect == Spec => []TypeOK
<1>1. IInv => TypeOK
  BY DEF IInv, Counters, DecoderTyped, Bindings, BindingsTyped, ObjectType, TypeOK
<1> QED BY <1>1, Invariance, PTL

(* A subchannel stays bound to the object the driver last asked for,        *)
(* whatever is created, named, guessed or bound by default since            *)
(* (pushbuf_decode, get_object).                                            *)
THEOREM BoundCorrect == Spec => []BoundAsTold
<1>1. IInv => BoundAsTold
  BY DEF IInv, Bindings
<1> QED BY <1>1, Invariance, PTL

-----------------------------------------------------------------------------
(* The counters stand for a queue of methods.                               *)

(* The methods of n parameters, of which the first i increase the method.   *)
Owed(s, m, n, i) ==
  [k \in 1 .. n |-> [subc |-> s, mthd |-> m + (IF k - 1 < i THEN k - 1 ELSE i)]]

LEMMA ExpectedOwed == Expected = Owed(subchan, addr, size, incr)
BY DEF Expected, Owed

LEMMA OwedNone ==
  ASSUME NEW s, NEW m, NEW i
  PROVE  Owed(s, m, 0, i) = << >>
<1>1. 1 .. 0 = {}
  OBVIOUS
<1> QED BY <1>1 DEF Owed

LEMMA OwedStep ==
  ASSUME NEW s, NEW m \in Nat, NEW n \in Nat, NEW i \in Nat, n # 0
  PROVE  /\ Owed(s, m, n, i) # << >>
         /\ Head(Owed(s, m, n, i)) = [subc |-> s, mthd |-> m]
         /\ Tail(Owed(s, m, n, i))
              = Owed(s, IF i # 0 THEN m + 1 ELSE m, n - 1, IF i # 0 THEN i - 1 ELSE i)
<1> DEFINE f(k) == [subc |-> s, mthd |-> m + (IF k - 1 < i THEN k - 1 ELSE i)]
           g(k) == [subc |-> s, mthd |-> (IF i # 0 THEN m + 1 ELSE m)
                      + (IF k - 1 < (IF i # 0 THEN i - 1 ELSE i) THEN k - 1 ELSE (IF i # 0 THEN i - 1 ELSE i))]
<1>1. Owed(s, m, n, i) = [k \in 1 .. n |-> f(k)]
  BY DEF Owed
<1>2. Owed(s, IF i # 0 THEN m + 1 ELSE m, n - 1, IF i # 0 THEN i - 1 ELSE i) = [k \in 1 .. n - 1 |-> g(k)]
  BY DEF Owed
<1>3. f(1) = [subc |-> s, mthd |-> m]
  OBVIOUS
<1>4. ASSUME NEW k \in 1 .. n - 1 PROVE f(k + 1) = g(k)
  OBVIOUS
<1> HIDE DEF f, g
<1>5. [k \in 1 .. n |-> f(k)] # << >> /\ Head([k \in 1 .. n |-> f(k)]) = f(1)
  OBVIOUS
<1>6. Tail([k \in 1 .. n |-> f(k)]) = [k \in 1 .. n - 1 |-> f(k + 1)]
  OBVIOUS
<1> QED BY <1>1, <1>2, <1>3, <1>4, <1>5, <1>6

(* The command formats, in the terms of the documentation. *)
LEMMA OwedIncreasing ==
  ASSUME NEW s, NEW m \in Nat, NEW n \in Nat, NEW i \in Nat, n <= i + 1
  PROVE  Owed(s, m, n, i) = Queue!Increasing(s, m, n)
<1>1. ASSUME NEW k \in 1 .. n PROVE m + (IF k - 1 < i THEN k - 1 ELSE i) = m + k - 1
  OBVIOUS
<1> QED BY <1>1 DEF Owed, Queue!Increasing, Queue!Method

LEMMA OwedConstant ==
  ASSUME NEW s, NEW m \in Nat, NEW n \in Nat
  PROVE  Owed(s, m, n, 0) = Queue!Constant(s, m, n)
<1>1. ASSUME NEW k \in 1 .. n PROVE m + (IF k - 1 < 0 THEN k - 1 ELSE 0) = m
  OBVIOUS
<1> QED BY <1>1 DEF Owed, Queue!Constant, Queue!Method

LEMMA OwedOnce ==
  ASSUME NEW s, NEW m \in Nat, NEW n \in Nat
  PROVE  Owed(s, m, n, 1) = Queue!IncreaseOnce(s, m, n)
<1>1. ASSUME NEW k \in 1 .. n
      PROVE  m + (IF k - 1 < 1 THEN k - 1 ELSE 1) = IF k = 1 THEN m ELSE m + 1
  OBVIOUS
<1> QED BY <1>1 DEF Owed, Queue!IncreaseOnce, Queue!Method

(* Both modules cut words in the same way. *)
LEMMA QueueWords ==
  /\ Queue!GF100 = GF100 /\ Queue!Zero = Zero
  /\ \A w : Queue!WideMethod(w) = WideMethod(w) /\ Queue!WideCount(w) = WideCount(w)
  /\ \A w : Queue!LongCountOf(w) = LongCountOf(w)
  /\ \A n : Queue!WordOf(n) = WordOf(n)
<1>1. Queue!GF100 = GF100 /\ Queue!Zero = Zero
  BY DEF Queue!GF100, GF100, Queue!Zero, Zero
<1>2. \A w : Queue!WideMethod(w) = WideMethod(w) /\ Queue!WideCount(w) = WideCount(w)
  BY DEF Queue!WideMethod, WideMethod, Queue!WideCount, WideCount
<1>3. \A w : Queue!LongCountOf(w) = LongCountOf(w)
  BY DEF Queue!LongCountOf, LongCountOf
<1>4. \A n : Queue!WordOf(n) = WordOf(n)
  BY DEF Queue!WordOf, WordOf
<1> QED BY <1>1, <1>2, <1>3, <1>4

(* What the new forms give for a method: all of it but one bit.             *)
LEMMA NewMethodFacts ==
  ASSUME NEW w \in Words
  PROVE  /\ Queue!NewMethod(w) \in Nat
         /\ w.mthd < 1024 => Queue!NewMethod(w) = WideMethod(w)
<1>1. w.mthd \in Nat /\ w.low \in 0 .. 3
  BY WordFacts
<1>2. PICK n : n = 4 * w.mthd + w.low
  OBVIOUS
<1>3. n \in Nat /\ (w.mthd < 1024 => n < 4096)
  BY SMT, <1>1, <1>2
<1>4. n % 4096 \in Nat /\ (n < 4096 => n % 4096 = n)
  BY SMT, <1>3
<1>5. Queue!NewMethod(w) = n % 4096 /\ WideMethod(w) = n
  BY <1>2 DEF Queue!NewMethod, Queue!WideMethod, WideMethod
<1> QED BY <1>3, <1>4, <1>5

(* A command of the decoder is a command of the queue when its numbers      *)
(* stand for the methods the documentation gives it.                        *)
LEMMA CommandMaps ==
  ASSUME IInv, NEW w \in Words, AtCommand, ~long, NEW m, NEW n, Load(w.subc, m, n),
         Owed(w.subc, m, n, incr') = Queue!Methods(w),
         long' \in BOOLEAN, long' <=> Queue!IsLong(w), Queue!IsLong(w) => m = w.mthd,
         submitted' = IF Queue!IsInline(w)
                      THEN [subc |-> w.subc, mthd |-> Queue!NewMethod(w), data |-> WordOf(WideCount(w))]
                      ELSE NoMethod
  PROVE  Queue!Command(w)
<1>1. Expected = << >>
  BY ExpectedOwed, OwedNone DEF AtCommand
<1>2. Expected' = Queue!Methods(w)
  BY DEF Load, Expected, Owed
<1>3. (IF long THEN [subc |-> subchan, mthd |-> addr] ELSE NoMethod) = NoMethod
  OBVIOUS
<1>4. (IF long THEN [subc |-> subchan, mthd |-> addr] ELSE NoMethod)'
        = IF Queue!IsLong(w) THEN Queue!Method(w.subc, w.mthd) ELSE NoMethod
  BY DEF Load, Queue!Method
<1>5. submitted' = IF Queue!IsInline(w)
                   THEN Queue!With(Queue!Method(w.subc, Queue!NewMethod(w)),
                                   Queue!WordOf(Queue!WideCount(w)))
                   ELSE NoMethod
  BY QueueWords DEF Queue!With, Queue!Method
<1> QED BY <1>1, <1>2, <1>3, <1>4, <1>5 DEF Queue!Command

(* Before GF100. *)
LEMMA Nv4Maps ==
  ASSUME IInv, NEW w \in Words, Documented(w),
         \/ Nv4Increasing(w) \/ Nv4Constant(w) \/ Nv4Long(w)
         \/ Nv4Other(w) \/ Nv4OldJump(w) \/ Nv4Jump(w)
  PROVE  Queue!Command(w)
<1>1. /\ w.mthd \in Nat /\ w.count \in Nat /\ w.subc \in 0 .. 7
      /\ w.top \in 0 .. 7 /\ w.type \in 0 .. 3 /\ w.low \in 0 .. 3
      /\ Chipset \in Nat /\ incr \in Nat /\ long \in BOOLEAN
  BY WordFacts, CountAssumption DEF IInv, Counters, DecoderTyped
<1>2. AtCommand /\ ~long /\ Chipset < GF100
  BY DEF Nv4Increasing, Nv4Constant, Nv4Long, Nv4Other, Nv4OldJump, Nv4Jump, Nv4Command
<1>3. /\ ~Queue!IsInline(w) /\ Queue!Methods(w) = Queue!Nv4Methods(w)
      /\ Queue!IsLong(w) <=> w.low = 0 /\ w.top = 0 /\ w.type = 3 /\ w.count = 0
  <2>1. Queue!GF100 = GF100 /\ ~(Chipset >= GF100)
    BY SMT, <1>1, <1>2, QueueWords DEF GF100
  <2> QED BY <1>2, <2>1 DEF Queue!IsInline, Queue!Methods, Queue!IsLong
<1>4. CASE Nv4Increasing(w)
  <2>1. Queue!Nv4Methods(w) = Queue!Increasing(w.subc, w.mthd, w.count) /\ ~Queue!IsLong(w)
    BY <1>3, <1>4 DEF Queue!Nv4Methods, Nv4Increasing
  <2>2. Load(w.subc, w.mthd, w.count) /\ incr' = w.count /\ long' = FALSE /\ submitted' = NoMethod
    BY <1>4 DEF Nv4Increasing, MethodCommand, Quiet
  <2>3. Owed(w.subc, w.mthd, w.count, incr') = Queue!Methods(w)
    BY <1>1, <1>3, <2>1, <2>2, OwedIncreasing
  <2> QED BY <1>2, <1>3, <2>1, <2>2, <2>3, CommandMaps
<1>5. CASE Nv4Constant(w)
  <2>1. w.type = 0
    BY <1>2, <1>5 DEF Nv4Constant, Documented
  <2>2. Queue!Nv4Methods(w) = Queue!Constant(w.subc, w.mthd, w.count) /\ ~Queue!IsLong(w)
    BY <1>3, <1>5, <2>1 DEF Queue!Nv4Methods, Nv4Constant
  <2>3. Load(w.subc, w.mthd, w.count) /\ incr' = 0 /\ long' = FALSE /\ submitted' = NoMethod
    BY <1>5 DEF Nv4Constant, MethodCommand, Quiet
  <2>4. Owed(w.subc, w.mthd, w.count, incr') = Queue!Methods(w)
    BY <1>1, <1>3, <2>2, <2>3, OwedConstant
  <2> QED BY <1>2, <1>3, <2>2, <2>3, <2>4, CommandMaps
<1>6. CASE Nv4Long(w)
  <2>1. Queue!Nv4Methods(w) = << >> /\ Queue!IsLong(w)
    BY <1>2, <1>3, <1>6 DEF Queue!Nv4Methods, Nv4Long, Documented
  <2>2. Load(w.subc, w.mthd, 0) /\ long' = TRUE /\ submitted' = NoMethod
    BY <1>6 DEF Nv4Long, MethodCommand, Quiet
  <2>3. Owed(w.subc, w.mthd, 0, incr') = Queue!Methods(w)
    BY <1>3, <2>1, OwedNone
  <2> QED BY <1>2, <1>3, <2>1, <2>2, <2>3, CommandMaps
<1>7. CASE Nv4Other(w) \/ Nv4Jump(w)
  <2>1. Queue!Nv4Methods(w) = << >> /\ ~Queue!IsLong(w)
    BY <1>1, <1>3, <1>7 DEF Queue!Nv4Methods, Nv4Other, Nv4Jump
  <2>2. Load(w.subc, w.mthd, 0) /\ long' = long /\ submitted' = NoMethod
    BY <1>7 DEF Nv4Other, Nv4Jump, Quiet
  <2>3. Owed(w.subc, w.mthd, 0, incr') = Queue!Methods(w)
    BY <1>3, <2>1, OwedNone
  <2> QED BY <1>1, <1>2, <1>3, <2>1, <2>2, <2>3, CommandMaps
<1>8. CASE Nv4OldJump(w)
  <2>1. Queue!Nv4Methods(w) = << >> /\ ~Queue!IsLong(w)
    BY <1>1, <1>3, <1>8 DEF Queue!Nv4Methods, Nv4OldJump
  <2>2. w.count = 0
    BY <1>2, <1>8 DEF Nv4OldJump, Documented
  <2>3. Load(w.subc, w.mthd, 0) /\ long' = long /\ submitted' = NoMethod
    BY <1>8, <2>2 DEF Nv4OldJump
  <2>4. Owed(w.subc, w.mthd, 0, incr') = Queue!Methods(w)
    BY <1>3, <2>1, OwedNone
  <2> QED BY <1>1, <1>2, <1>3, <2>1, <2>3, <2>4, CommandMaps
<1> QED BY <1>4, <1>5, <1>6, <1>7, <1>8

LEMMA NopMaps ==
  ASSUME IInv, NEW w \in Words, Nop(w)
  PROVE  Queue!Command(w)
<1>1. AtCommand /\ ~long /\ w = Zero /\ submitted' = NoMethod
      /\ UNCHANGED << incr, subchan, addr, size, long >>
  BY DEF Nop, Quiet
<1>2. w.subc = 0 /\ w.mthd = 0 /\ w.count = 0 /\ w.top = 0 /\ w.type = 0 /\ w.low = 0
  BY <1>1 DEF Zero
<1>3. Expected = << >> /\ Expected' = << >>
  <2>1. Expected = << >>
    BY <1>1, ExpectedOwed, OwedNone DEF AtCommand
  <2> QED BY <1>1, <2>1 DEF Expected
<1>4. Queue!Methods(w) = << >>
  <2>1. \A a, b : Queue!Increasing(a, b, 0) = << >>
    BY DEF Queue!Increasing
  <2> QED BY <1>2, <2>1 DEF Queue!Methods, Queue!Nv4Methods, Queue!Gf100Methods
<1>5. ~Queue!IsLong(w) /\ ~Queue!IsInline(w)
  BY <1>2 DEF Queue!IsLong, Queue!IsInline
<1>6. (IF long THEN [subc |-> subchan, mthd |-> addr] ELSE NoMethod)' = NoMethod
  BY <1>1
<1> QED BY <1>1, <1>3, <1>4, <1>5, <1>6 DEF Queue!Command

(* From GF100 on. *)
LEMMA WideMaps ==
  ASSUME IInv, NEW w \in Words, Documented(w),
         \/ WideIncreasing(w) \/ WideConstant(w) \/ WideIncreaseOnce(w) \/ WideInline(w)
         \/ WideOldIncreasing(w) \/ WideOldConstant(w) \/ WideOther(w)
  PROVE  Queue!Command(w)
<1> PICK m, n : m = WideMethod(w) /\ n = WideCount(w)
  OBVIOUS
<1>1. /\ m \in Nat /\ n \in Nat /\ w.count \in Nat /\ w.subc \in 0 .. 7
      /\ w.top \in 0 .. 7 /\ w.type \in 0 .. 3
      /\ Chipset \in Nat /\ incr \in Nat /\ long \in BOOLEAN
      /\ Queue!WideMethod(w) = m /\ Queue!WideCount(w) = n
  BY WordFacts, CountAssumption, QueueWords DEF IInv, Counters, DecoderTyped
<1>2. AtCommand /\ ~long /\ Chipset >= GF100 /\ long' = long
  BY DEF WideIncreasing, WideConstant, WideIncreaseOnce, WideInline, WideOldIncreasing,
         WideOldConstant, WideOther, WideCommand
<1>3. ~Queue!IsLong(w) /\ Queue!Methods(w) = Queue!Gf100Methods(w) /\ (Queue!IsInline(w) <=> w.top = 4)
  <2>1. Queue!GF100 = GF100 /\ ~(Chipset < GF100)
    BY SMT, <1>1, <1>2, QueueWords DEF GF100
  <2> QED BY <1>2, <2>1 DEF Queue!IsInline, Queue!Methods, Queue!IsLong
<1>4. w.top \in {1, 3, 4, 5} => Queue!NewMethod(w) = m
  BY <1>2, NewMethodFacts DEF Documented
<1>5. w.top \in {0, 2} /\ w.type = 0 /\ w.count # 0 => m = w.mthd
  <2>1. 4 * 0 + 0 = 0
    OBVIOUS
  <2> QED BY <1>2, <2>1 DEF Documented, WideMethod
<1>6. CASE WideIncreasing(w)
  <2>1. Queue!Gf100Methods(w) = Queue!Increasing(w.subc, m, n) /\ ~Queue!IsInline(w)
    BY <1>1, <1>3, <1>6, <1>4 DEF Queue!Gf100Methods, WideIncreasing
  <2>2. Load(w.subc, m, n) /\ incr' = n /\ submitted' = NoMethod
    BY <1>6 DEF WideIncreasing, MethodCommand, Quiet
  <2>3. Owed(w.subc, m, n, incr') = Queue!Methods(w)
    BY <1>1, <1>3, <2>1, <2>2, OwedIncreasing
  <2> QED BY <1>1, <1>2, <1>3, <2>1, <2>2, <2>3, CommandMaps
<1>7. CASE WideConstant(w)
  <2>1. Queue!Gf100Methods(w) = Queue!Constant(w.subc, m, n) /\ ~Queue!IsInline(w)
    BY <1>1, <1>3, <1>7, <1>4 DEF Queue!Gf100Methods, WideConstant
  <2>2. Load(w.subc, m, n) /\ incr' = 0 /\ submitted' = NoMethod
    BY <1>7 DEF WideConstant, MethodCommand, Quiet
  <2>3. Owed(w.subc, m, n, incr') = Queue!Methods(w)
    BY <1>1, <1>3, <2>1, <2>2, OwedConstant
  <2> QED BY <1>1, <1>2, <1>3, <2>1, <2>2, <2>3, CommandMaps
<1>8. CASE WideIncreaseOnce(w)
  <2>1. Queue!Gf100Methods(w) = Queue!IncreaseOnce(w.subc, m, n) /\ ~Queue!IsInline(w)
    BY <1>1, <1>3, <1>8, <1>4 DEF Queue!Gf100Methods, WideIncreaseOnce
  <2>2. Load(w.subc, m, n) /\ incr' = 1 /\ submitted' = NoMethod
    BY <1>8 DEF WideIncreaseOnce, MethodCommand, Quiet
  <2>3. Owed(w.subc, m, n, incr') = Queue!Methods(w)
    BY <1>1, <1>3, <2>1, <2>2, OwedOnce
  <2> QED BY <1>1, <1>2, <1>3, <2>1, <2>2, <2>3, CommandMaps
<1>9. CASE WideInline(w)
  <2>1. Queue!Gf100Methods(w) = << >> /\ Queue!IsInline(w)
    BY <1>1, <1>3, <1>9 DEF Queue!Gf100Methods, WideInline
  <2>2. /\ Load(w.subc, m, 0)
        /\ submitted' = [subc |-> w.subc, mthd |-> Queue!NewMethod(w), data |-> WordOf(WideCount(w))]
    BY <1>9, <1>4 DEF WideInline
  <2>3. Owed(w.subc, m, 0, incr') = Queue!Methods(w)
    BY <1>3, <2>1, OwedNone
  <2> QED BY <1>1, <1>2, <1>3, <2>1, <2>2, <2>3, CommandMaps
<1>10. CASE WideOldIncreasing(w)
  <2>1. Queue!Gf100Methods(w) = Queue!Increasing(w.subc, w.mthd, w.count) /\ ~Queue!IsInline(w)
    BY <1>1, <1>3, <1>10 DEF Queue!Gf100Methods, WideOldIncreasing
  <2>2. Load(w.subc, m, w.count) /\ incr' = 1 /\ submitted' = NoMethod
    BY <1>10 DEF WideOldIncreasing, MethodCommand, Quiet
  <2>3. w.count <= 2
    BY <1>2, <1>10 DEF WideOldIncreasing, Documented
  <2>4. Owed(w.subc, m, w.count, incr') = Queue!Methods(w)
    <3>1. CASE w.count = 0
      <4>1. Queue!Increasing(w.subc, w.mthd, 0) = << >>
        BY DEF Queue!Increasing
      <4> QED BY <1>3, <2>1, <3>1, <4>1, OwedNone
    <3>2. CASE w.count # 0
      <4>1. m = w.mthd
        BY <1>10, <1>5, <3>2 DEF WideOldIncreasing
      <4> QED BY <1>1, <1>3, <2>1, <2>2, <2>3, <4>1, OwedIncreasing
    <3> QED BY <3>1, <3>2
  <2> QED BY <1>1, <1>2, <1>3, <2>1, <2>2, <2>4, CommandMaps
<1>11. CASE WideOldConstant(w)
  <2>1. Queue!Gf100Methods(w) = Queue!Constant(w.subc, w.mthd, w.count) /\ ~Queue!IsInline(w)
    BY <1>1, <1>3, <1>11 DEF Queue!Gf100Methods, WideOldConstant
  <2>2. Load(w.subc, m, w.count) /\ incr' = 0 /\ submitted' = NoMethod
    BY <1>11 DEF WideOldConstant, MethodCommand, Quiet
  <2>3. Owed(w.subc, m, w.count, incr') = Queue!Methods(w)
    <3>1. CASE w.count = 0
      <4>1. Queue!Constant(w.subc, w.mthd, 0) = << >>
        BY DEF Queue!Constant
      <4> QED BY <1>3, <2>1, <3>1, <4>1, OwedNone
    <3>2. CASE w.count # 0
      <4>1. m = w.mthd
        BY <1>11, <1>5, <3>2 DEF WideOldConstant
      <4> QED BY <1>1, <1>3, <2>1, <2>2, <4>1, OwedConstant
    <3> QED BY <3>1, <3>2
  <2> QED BY <1>1, <1>2, <1>3, <2>1, <2>2, <2>3, CommandMaps
<1>12. CASE WideOther(w)
  <2>1. Queue!Gf100Methods(w) = << >> /\ ~Queue!IsInline(w)
    BY <1>1, <1>3, <1>12 DEF Queue!Gf100Methods, WideOther
  <2>2. Load(w.subc, m, 0) /\ submitted' = NoMethod
    BY <1>12 DEF WideOther, Quiet
  <2>3. Owed(w.subc, m, 0, incr') = Queue!Methods(w)
    BY <1>3, <2>1, OwedNone
  <2> QED BY <1>1, <1>2, <1>3, <2>1, <2>2, <2>3, CommandMaps
<1> QED BY <1>6, <1>7, <1>8, <1>9, <1>10, <1>11, <1>12

(* The count of a long command. *)
LEMMA LongCountMaps ==
  ASSUME IInv, NEW w \in Words, Nv4LongCount(w)
  PROVE  Queue!Count(w)
<1>1. /\ long /\ size' = LongCountOf(w) /\ long' = FALSE /\ submitted' = NoMethod
      /\ incr' = incr /\ subchan' = subchan /\ addr' = addr
  BY DEF Nv4LongCount, Quiet
<1>2. incr = 0 /\ subchan \in 0 .. 7 /\ addr \in Nat /\ LongCountOf(w) \in Nat
  BY <1>1, WordFacts DEF IInv, Counters, DecoderTyped, CountAlone
<1> DEFINE counting == IF long THEN [subc |-> subchan, mthd |-> addr] ELSE NoMethod
<1>3. counting = [subc |-> subchan, mthd |-> addr] /\ counting' = NoMethod
  BY <1>1
<1>4. counting # NoMethod /\ counting.subc = subchan /\ counting.mthd = addr
  <2>1. [subc |-> subchan, mthd |-> addr] \in [subc : Nat, mthd : Nat]
    BY <1>2
  <2> QED BY <1>3, <2>1, NoMethodAssumption
<1>5. Expected' = Owed(subchan, addr, LongCountOf(w), 0)
  BY <1>1, <1>2 DEF Expected, Owed
<1>6. Expected' = Queue!Constant(counting.subc, counting.mthd, Queue!LongCountOf(w))
  BY <1>2, <1>4, <1>5, OwedConstant, QueueWords
<1>7. Len(Expected') = Queue!LongCountOf(w)
  <2>1. Queue!LongCountOf(w) = LongCountOf(w)
    BY QueueWords
  <2>2. Len(Owed(subchan, addr, LongCountOf(w), 0)) = LongCountOf(w)
    BY <1>2 DEF Owed
  <2> QED BY <1>5, <2>1, <2>2
<1> QED BY <1>1, <1>3, <1>4, <1>6, <1>7 DEF Queue!Count

LEMMA ParameterMaps ==
  ASSUME IInv, NEW w \in Words, Parameter(w)
  PROVE  Queue!Parameter(w)
<1>1. /\ size # 0 /\ submitted' = [subc |-> subchan, mthd |-> addr, data |-> w]
      /\ addr' = IF incr # 0 THEN addr + 1 ELSE addr
      /\ incr' = IF incr # 0 THEN incr - 1 ELSE incr
      /\ size' = size - 1 /\ subchan' = subchan /\ long' = long
  BY DEF Parameter, AtParameter
<1>2. incr \in Nat /\ addr \in Nat /\ size \in Nat /\ ~long
  BY <1>1 DEF IInv, Counters, DecoderTyped, CountAlone
<1>3. /\ Owed(subchan, addr, size, incr) # << >>
      /\ Head(Owed(subchan, addr, size, incr)) = [subc |-> subchan, mthd |-> addr]
      /\ Tail(Owed(subchan, addr, size, incr))
           = Owed(subchan, IF incr # 0 THEN addr + 1 ELSE addr, size - 1, IF incr # 0 THEN incr - 1 ELSE incr)
  BY <1>1, <1>2, OwedStep, ZenonT(30)
<1>4. Expected' = Owed(subchan, IF incr # 0 THEN addr + 1 ELSE addr, size - 1,
                       IF incr # 0 THEN incr - 1 ELSE incr)
  BY <1>1 DEF Expected, Owed
<1>5. Expected # << >> /\ Expected' = Tail(Expected)
  BY <1>3, <1>4, ExpectedOwed
<1>6. submitted' = Queue!With(Head(Expected), w)
  BY <1>1, <1>3, ExpectedOwed DEF Queue!With
<1>7. (IF long THEN [subc |-> subchan, mthd |-> addr] ELSE NoMethod)'
        = IF long THEN [subc |-> subchan, mthd |-> addr] ELSE NoMethod
  BY <1>1, <1>2
<1> QED BY <1>5, <1>6, <1>7 DEF Queue!Parameter

LEMMA InitMaps ==
  ASSUME Init
  PROVE  Queue!Init
<1>1. size = 0 /\ long = FALSE /\ submitted = NoMethod
  BY DEF Init
<1>2. Expected = << >>
  BY <1>1, ExpectedOwed, OwedNone
<1> QED BY <1>1, <1>2 DEF Queue!Init

(* A step of the decoder is one of the queue, and an ioctl none. *)
LEMMA NextMaps ==
  ASSUME IInv, \A w \in Words : Documented(w), [Next]_vars
  PROVE  [Queue!Next]_Queue!vars
<1>1. ASSUME NEW w \in Words, PushbufDecode(w) PROVE Queue!Next
  <2>1. CASE Parameter(w)
    BY <2>1, ParameterMaps DEF Queue!Next
  <2>2. CASE CommandWord(w)
    <3>1. Queue!Command(w) \/ Queue!Count(w)
      BY <2>2, NopMaps, Nv4Maps, WideMaps, LongCountMaps DEF CommandWord
    <3> QED BY <3>1 DEF Queue!Next
  <2> QED BY <1>1, <2>1, <2>2 DEF PushbufDecode
<1>2. CASE UNCHANGED decoder
  BY <1>2 DEF decoder, Queue!vars, Expected
<1>3. ASSUME NEW h \in Created, AddObject(h) \/ NameObject(h) PROVE UNCHANGED decoder
  BY <1>3 DEF AddObject, NameObject
<1> QED BY <1>1, <1>2, <1>3 DEF Next, vars

(* The decoder implements the queue of methods of the documentation: the    *)
(* counters lead every parameter to the method it belongs to, and no        *)
(* parameter is taken for a command (pushbuf_decode), as long as the two    *)
(* words do not come of which the code and the documentation disagree.      *)
THEOREM Refinement ==
  ASSUME \A w \in Words : Documented(w)
  PROVE  Spec => ImplementsMethodQueue
<1>1. Init => Queue!Init
  BY InitMaps
<1>2. IInv /\ [Next]_vars => [Queue!Next]_Queue!vars
  BY NextMaps
<1> QED BY <1>1, <1>2, Invariance, PTL DEF Spec, ImplementsMethodQueue, Queue!Spec

-----------------------------------------------------------------------------
(* Words in memory.  What a driver wrote, command by command, is read back  *)
(* word by word.                                                            *)

MethodType == [subc : Nat, mthd : Nat]

(* What a word may submit. *)
Sent == [subc : Nat, mthd : Nat, data : Words] \cup {NoMethod}

(* A word is read while e is expected: it submits s, then f is expected. *)
Means(w, e, f, s) ==
  \/ e = << >> /\ Queue!Announces(w) /\ Documented(w) /\ f = Queue!Methods(w) /\ s = NoMethod
  \/ e # << >> /\ f = Tail(e) /\ s = Queue!With(Head(e), w)

(* The words from p to q - 1, read while e is expected, submit u, and then  *)
(* nothing is expected.                                                     *)
Run(mem, e, p, q, u) ==
  /\ Len(u) = q - p
  /\ \E x \in [p .. q -> Seq(MethodType)] :
       /\ x[p] = e /\ x[q] = << >>
       /\ \A a \in p .. q - 1 : Means(mem[a], x[a], x[a + 1], u[a - p + 1])

(* What the words of a command submit. *)
Sends(c) ==
  [k \in 1 .. Len(c) |-> IF k = 1 THEN NoMethod ELSE Queue!With(Queue!Methods(c[1])[k - 1], c[k])]

LEMMA RunNone ==
  ASSUME NEW mem, NEW p \in Nat
  PROVE  Run(mem, << >>, p, p, << >>)
<1> DEFINE x == [a \in p .. p |-> << >>]
<1>1. << >> \in Seq(MethodType) /\ p .. p - 1 = {} /\ Len(<< >>) = p - p
  OBVIOUS
<1>2. x \in [p .. p -> Seq(MethodType)] /\ x[p] = << >>
  BY <1>1
<1> HIDE DEF x
<1> QED BY <1>1, <1>2 DEF Run

LEMMA RunOver ==
  ASSUME NEW mem, NEW e, NEW p \in Nat, NEW T, NEW u \in Seq(T), Run(mem, e, p, p, u)
  PROVE  e = << >> /\ u = << >>
<1>1. Len(u) = p - p /\ \E x \in [p .. p -> Seq(MethodType)] : x[p] = e /\ x[p] = << >>
  BY DEF Run
<1> QED BY <1>1

(* The first word of a run. *)
LEMMA RunFirst ==
  ASSUME NEW mem, NEW e, NEW p \in Nat, NEW q \in Nat, p < q, NEW T, NEW u \in Seq(T),
         Run(mem, e, p, q, u)
  PROVE  /\ u # << >> /\ Tail(u) \in Seq(T)
         /\ e = << >> => /\ Queue!Announces(mem[p]) /\ Documented(mem[p]) /\ Head(u) = NoMethod
                         /\ Run(mem, Queue!Methods(mem[p]), p + 1, q, Tail(u))
         /\ e # << >> => /\ Head(u) = Queue!With(Head(e), mem[p])
                         /\ Run(mem, Tail(e), p + 1, q, Tail(u))
<1>1. PICK x \in [p .. q -> Seq(MethodType)] :
        /\ x[p] = e /\ x[q] = << >>
        /\ \A a \in p .. q - 1 : Means(mem[a], x[a], x[a + 1], u[a - p + 1])
  BY DEF Run
<1>2. Len(u) = q - p /\ p \in p .. q - 1 /\ p + 1 \in p .. q
  BY DEF Run
<1>3. PICK v : v = Tail(u)
  OBVIOUS
<1>4. /\ u # << >> /\ Head(u) = u[1] /\ v \in Seq(T) /\ Len(v) = q - (p + 1)
      /\ \A k \in 1 .. q - (p + 1) : v[k] = u[k + 1]
  BY <1>2, <1>3
<1>5. Means(mem[p], e, x[p + 1], Head(u))
  <2>1. p - p + 1 = 1
    OBVIOUS
  <2> QED BY <1>1, <1>2, <1>4, <2>1
<1> DEFINE y == [a \in p + 1 .. q |-> x[a]]
<1>6. y \in [p + 1 .. q -> Seq(MethodType)] /\ y[p + 1] = x[p + 1] /\ y[q] = << >>
  BY <1>1
<1>7. ASSUME NEW a \in p + 1 .. q - 1 PROVE Means(mem[a], y[a], y[a + 1], v[a - (p + 1) + 1])
  <2>1. y[a] = x[a] /\ y[a + 1] = x[a + 1] /\ a \in p .. q - 1
    OBVIOUS
  <2>2. PICK k : k = a - (p + 1) + 1
    OBVIOUS
  <2>3. k \in 1 .. q - (p + 1) /\ k + 1 = a - p + 1
    BY <2>2
  <2>4. v[k] = u[k + 1]
    BY <1>4, <2>3
  <2> QED BY <1>1, <2>1, <2>2, <2>3, <2>4
<1> HIDE DEF y
<1>8. Run(mem, x[p + 1], p + 1, q, v)
  BY <1>4, <1>6, <1>7 DEF Run
<1> QED BY <1>3, <1>4, <1>5, <1>8 DEF Means

(* Only these words matter. *)
LEMMA RunSame ==
  ASSUME NEW mem, NEW new, NEW e, NEW p, NEW q, NEW u, Run(mem, e, p, q, u),
         \A a \in p .. q - 1 : new[a] = mem[a]
  PROVE  Run(new, e, p, q, u)
BY DEF Run

LEMMA MethodsTyped ==
  ASSUME NEW w \in Words
  PROVE  Queue!Methods(w) \in Seq(MethodType)
<1>1. /\ w.subc \in Nat /\ w.mthd \in Nat /\ w.count \in Nat
      /\ Queue!NewMethod(w) \in Nat /\ Queue!WideCount(w) \in Nat
  BY WordFacts, QueueWords, NewMethodFacts
<1>2. ASSUME NEW y \in Nat, NEW m \in Nat, NEW n \in Nat
      PROVE  /\ Queue!Increasing(y, m, n) \in Seq(MethodType)
             /\ Queue!Constant(y, m, n) \in Seq(MethodType)
             /\ Queue!IncreaseOnce(y, m, n) \in Seq(MethodType)
  <2>1. \A k \in 1 .. n : Queue!Method(y, m + k - 1) \in MethodType
    BY DEF Queue!Method, MethodType
  <2>2. \A k \in 1 .. n : Queue!Method(y, m) \in MethodType
    BY DEF Queue!Method, MethodType
  <2>3. \A k \in 1 .. n : Queue!Method(y, IF k = 1 THEN m ELSE m + 1) \in MethodType
    BY DEF Queue!Method, MethodType
  <2> QED BY <2>1, <2>2, <2>3 DEF Queue!Increasing, Queue!Constant, Queue!IncreaseOnce
<1>3. << >> \in Seq(MethodType)
  OBVIOUS
<1>4. Queue!Nv4Methods(w) \in Seq(MethodType)
  BY <1>1, <1>2, <1>3 DEF Queue!Nv4Methods
<1>5. Queue!Gf100Methods(w) \in Seq(MethodType)
  BY <1>1, <1>2, <1>3 DEF Queue!Gf100Methods
<1> QED BY <1>4, <1>5 DEF Queue!Methods

(* What is left of a list when its first k - 1 elements are gone. *)
LEMMA SuffixStep ==
  ASSUME NEW T, NEW s \in Seq(T), NEW k \in 1 .. Len(s)
  PROVE  /\ SubSeq(s, k, Len(s)) # << >> /\ Head(SubSeq(s, k, Len(s))) = s[k]
         /\ Tail(SubSeq(s, k, Len(s))) = SubSeq(s, k + 1, Len(s))
<1> DEFINE n == Len(s)
           u == SubSeq(s, k, n)
           v == SubSeq(s, k + 1, n)
<1>1. u \in Seq(T) /\ Len(u) = n - k + 1 /\ \A j \in 1 .. n - k + 1 : u[j] = s[k + j - 1]
  OBVIOUS
<1>2. v \in Seq(T) /\ Len(v) = n - k /\ \A j \in 1 .. n - k : v[j] = s[k + 1 + j - 1]
  OBVIOUS
<1>3. n \in Nat /\ k \in 1 .. n
  OBVIOUS
<1> HIDE DEF n, u, v
<1>4. u # << >> /\ Head(u) = s[k]
  BY <1>1, <1>3
<1>5. Tail(u) \in Seq(T) /\ Len(Tail(u)) = n - k /\ \A j \in 1 .. n - k : Tail(u)[j] = u[j + 1]
  BY <1>1, <1>3, <1>4
<1>6. ASSUME NEW j \in 1 .. n - k PROVE Tail(u)[j] = v[j]
  <2>1. j + 1 \in 1 .. n - k + 1 /\ k + (j + 1) - 1 = k + 1 + j - 1
    BY <1>3
  <2> QED BY <1>1, <1>2, <1>5, <2>1
<1>7. Tail(u) = v
  BY <1>2, <1>5, <1>6
<1> QED BY <1>4, <1>7 DEF u, v, n

(* What the words of a command submit are methods with parameters. *)
LEMMA SendsTyped ==
  ASSUME NEW c \in Seq(Words), c # << >>, Len(Queue!Methods(c[1])) = Len(c) - 1
  PROVE  /\ Sends(c) \in Seq(Sent) /\ Len(Sends(c)) = Len(c) /\ Sends(c)[1] = NoMethod
         /\ \A k \in 1 .. Len(c) - 1 : Sends(c)[k + 1] = Queue!With(Queue!Methods(c[1])[k], c[k + 1])
<1>1. PICK M, n, s : M = Queue!Methods(c[1]) /\ n = Len(c) /\ s = Sends(c)
  OBVIOUS
<1>2. n \in Nat /\ n # 0 /\ c[1] \in Words /\ \A k \in 1 .. n : c[k] \in Words
  BY <1>1
<1>3. M \in Seq(MethodType) /\ Len(M) = n - 1
  BY <1>1, <1>2, MethodsTyped
<1>4. s = [k \in 1 .. n |-> IF k = 1 THEN NoMethod ELSE Queue!With(M[k - 1], c[k])]
  BY <1>1 DEF Sends
<1>5. ASSUME NEW k \in 1 .. n, k # 1 PROVE Queue!With(M[k - 1], c[k]) \in Sent
  <2>1. k - 1 \in 1 .. n - 1
    BY <1>2, <1>5
  <2>2. M[k - 1] \in MethodType /\ c[k] \in Words
    BY <1>2, <1>3, <2>1
  <2> QED BY <2>2 DEF Queue!With, MethodType, Sent
<1>6. NoMethod \in Sent
  BY DEF Sent
<1>7. s \in [1 .. n -> Sent]
  BY <1>4, <1>5, <1>6
<1>8. s \in Seq(Sent) /\ Len(s) = n
  BY <1>2, <1>7
<1>9. s[1] = NoMethod
  <2>1. 1 \in 1 .. n
    BY <1>2
  <2> QED BY <1>4, <2>1
<1>10. ASSUME NEW k \in 1 .. n - 1 PROVE s[k + 1] = Queue!With(M[k], c[k + 1])
  <2>1. k + 1 \in 1 .. n /\ k + 1 # 1 /\ k + 1 - 1 = k
    BY <1>2
  <2> QED BY <1>4, <2>1
<1> QED BY <1>1, <1>8, <1>9, <1>10

(* A command is written behind a run. *)
LEMMA RunCommand ==
  ASSUME NEW mem, NEW new, NEW e, NEW p \in Nat, NEW q \in Nat, p <= q, NEW u \in Seq(Sent),
         Run(mem, e, p, q, u), NEW c \in Seq(Words), c # << >>,
         Queue!Announces(c[1]), Documented(c[1]), Len(Queue!Methods(c[1])) = Len(c) - 1,
         \A a \in p .. q - 1 : new[a] = mem[a],
         \A k \in 1 .. Len(c) : new[q + k - 1] = c[k]
  PROVE  Run(new, e, p, q + Len(c), u \o Sends(c))
<1>1. PICK x \in [p .. q -> Seq(MethodType)] :
        /\ x[p] = e /\ x[q] = << >>
        /\ \A a \in p .. q - 1 : Means(mem[a], x[a], x[a + 1], u[a - p + 1])
  BY DEF Run
<1>2. PICK n, M, s, t : n = Len(c) - 1 /\ M = Queue!Methods(c[1]) /\ s = Sends(c) /\ t = u \o s
  OBVIOUS
<1>3. n \in Nat /\ Len(c) = n + 1 /\ c[1] \in Words /\ Len(u) = q - p
  BY <1>2 DEF Run
<1>4. M \in Seq(MethodType) /\ Len(M) = n
  BY <1>2, <1>3, MethodsTyped
<1>5. /\ s \in Seq(Sent) /\ Len(s) = n + 1 /\ s[1] = NoMethod
      /\ \A k \in 1 .. n : s[k + 1] = Queue!With(M[k], c[k + 1])
  BY <1>2, <1>3, SendsTyped
<1>6. /\ Len(t) = Len(u) + Len(s)
      /\ \A k \in 1 .. Len(u) + Len(s) : t[k] = IF k <= Len(u) THEN u[k] ELSE s[k - Len(u)]
  BY <1>2, <1>5, ConcatProperties, Zenon
<1>7. PICK N : N = q + Len(c)
  OBVIOUS
<1>8. N \in Nat /\ N = q + n + 1 /\ Len(t) = N - p
  <2>1. N = q + n + 1
    BY <1>3, <1>7
  <2>2. PICK k : k = Len(t)
    OBVIOUS
  <2>3. k = (q - p) + (n + 1)
    BY <1>3, <1>5, <1>6, <2>2
  <2>4. k = N - p /\ N \in Nat
    BY <1>3, <2>1, <2>3
  <2> QED BY <2>1, <2>2, <2>4
<1>9. ASSUME NEW a \in p .. q - 1 PROVE t[a - p + 1] = u[a - p + 1]
  <2>1. PICK k : k = a - p + 1
    OBVIOUS
  <2>2. k \in 1 .. Len(u) + Len(s) /\ k <= Len(u)
    BY <1>3, <1>5, <2>1
  <2> QED BY <1>6, <2>1, <2>2
<1>10. ASSUME NEW k \in 1 .. n + 1 PROVE t[q + k - 1 - p + 1] = s[k]
  <2>1. PICK m : m = q + k - 1 - p + 1
    OBVIOUS
  <2>2. m \in 1 .. Len(u) + Len(s) /\ ~(m <= Len(u)) /\ m - Len(u) = k
    BY <1>3, <1>5, <2>1
  <2> QED BY <1>6, <2>1, <2>2
<1> DEFINE Y(a) == IF a <= q THEN x[a] ELSE SubSeq(M, a - q, n)
           y == [a \in p .. N |-> Y(a)]
<1>11. ASSUME NEW a \in p .. N PROVE Y(a) \in Seq(MethodType)
  <2>1. CASE a <= q
    BY <2>1
  <2>2. CASE ~(a <= q)
    <3>1. a - q \in Nat /\ a - q \in 1 .. n + 1
      BY <1>3, <1>8, <2>2
    <3>2. SubSeq(M, a - q, n) \in Seq(MethodType)
      BY <1>4, <3>1
    <3> QED BY <2>2, <3>2
  <2> QED BY <2>1, <2>2
<1>12. Y(p) = e /\ Y(N) = << >>
  <2>1. ~(N <= q) /\ N - q = n + 1
    BY <1>3, <1>8
  <2>2. Y(N) = SubSeq(M, n + 1, n)
    BY <2>1
  <2>3. SubSeq(M, n + 1, n) = << >>
    BY <1>3, <1>4
  <2>4. Y(p) = e
    BY <1>1
  <2> QED BY <2>2, <2>3, <2>4
<1>13. ASSUME NEW a \in p .. q - 1 PROVE Means(new[a], Y(a), Y(a + 1), t[a - p + 1])
  <2>1. Y(a) = x[a] /\ Y(a + 1) = x[a + 1] /\ new[a] = mem[a]
    OBVIOUS
  <2> QED BY <1>1, <1>9, <2>1
<1>14. Means(new[q], Y(q), Y(q + 1), t[q - p + 1])
  <2>1. 1 \in 1 .. n + 1 /\ q + 1 - 1 = q /\ q + 1 - 1 - p + 1 = q - p + 1
    BY <1>3
  <2>2. new[q] = c[1] /\ t[q - p + 1] = NoMethod
    BY <1>3, <1>5, <1>10, <2>1
  <2>3. Y(q) = << >>
    BY <1>1
  <2>4. Y(q + 1) = M
    <3>1. PICK r : r = q + 1
      OBVIOUS
    <3>2. ~(r <= q) /\ r - q = 1
      BY <3>1
    <3>3. Y(r) = SubSeq(M, r - q, n)
      BY <3>2, Zenon
    <3>4. Y(q + 1) = SubSeq(M, 1, n)
      BY <3>1, <3>2, <3>3
    <3> QED BY <1>4, <3>4
  <2> QED BY <1>2, <2>2, <2>3, <2>4 DEF Means
<1>15. ASSUME NEW a \in q + 1 .. q + n PROVE Means(new[a], Y(a), Y(a + 1), t[a - p + 1])
  <2>1. PICK k : k = a - q
    OBVIOUS
  <2>2. k \in 1 .. n /\ a = q + k
    BY <1>3, <2>1
  <2>3. Y(a) = SubSeq(M, k, n) /\ Y(a + 1) = SubSeq(M, k + 1, n)
    BY <1>3, <2>2
  <2>4. new[a] = c[k + 1] /\ t[a - p + 1] = s[k + 1]
    <3>1. PICK m : m = k + 1
      OBVIOUS
    <3>2. m \in 1 .. n + 1 /\ q + m - 1 = a /\ q + m - 1 - p + 1 = a - p + 1
      <4>1. n \in Nat /\ q \in Nat /\ p \in Nat /\ k \in Nat
        BY <1>3, <2>2
      <4>2. m \in 1 .. n + 1 /\ m \in Nat
        BY <2>2, <3>1, <4>1
      <4>3. q + m - 1 = a
        BY <2>2, <3>1, <4>1
      <4>4. q + m - 1 - p + 1 = a - p + 1
        BY <2>2, <3>1, <4>1
      <4> QED BY <4>2, <4>3, <4>4
    <3>3. m \in 1 .. Len(c)
      BY <1>3, <3>2
    <3>4. new[q + m - 1] = c[m] /\ t[q + m - 1 - p + 1] = s[m]
      BY <1>10, <3>2, <3>3
    <3> QED BY <3>1, <3>2, <3>4
  <2> HIDE DEF Y
  <2>5. Y(a) # << >> /\ Head(Y(a)) = M[k] /\ Tail(Y(a)) = Y(a + 1)
    <3>1. k \in 1 .. Len(M)
      BY <1>4, <2>2
    <3>2. /\ SubSeq(M, k, Len(M)) # << >> /\ Head(SubSeq(M, k, Len(M))) = M[k]
          /\ Tail(SubSeq(M, k, Len(M))) = SubSeq(M, k + 1, Len(M))
      BY <1>4, <3>1, SuffixStep
    <3> QED BY <1>4, <2>3, <3>2
  <2> QED BY <1>5, <2>2, <2>4, <2>5 DEF Means
<1>16. ASSUME NEW a \in p .. N - 1 PROVE Means(new[a], Y(a), Y(a + 1), t[a - p + 1])
  <2>1. a \in p .. q - 1 \/ a = q \/ a \in q + 1 .. q + n
    BY <1>3, <1>8
  <2> HIDE DEF Y
  <2> QED BY <1>13, <1>14, <1>15, <2>1
<1> HIDE DEF Y
<1>17. y \in [p .. N -> Seq(MethodType)] /\ \A a \in p .. N : y[a] = Y(a)
  BY <1>11
<1> HIDE DEF y
<1>18. y[p] = e /\ y[N] = << >>
  BY <1>3, <1>8, <1>12, <1>17
<1>19. ASSUME NEW a \in p .. N - 1 PROVE Means(new[a], y[a], y[a + 1], t[a - p + 1])
  <2>1. a \in p .. N /\ a + 1 \in p .. N
    BY <1>8
  <2> QED BY <1>16, <1>17, <2>1
<1>20. Run(new, e, p, N, t)
  BY <1>8, <1>17, <1>18, <1>19 DEF Run
<1> QED BY <1>2, <1>7, <1>20

-----------------------------------------------------------------------------
(* What decoding one word does to a run.                                    *)

LEMMA NothingOwed ==
  ASSUME IInv
  PROVE  Expected = << >> <=> size = 0
<1>1. size \in Nat /\ addr \in Nat /\ incr \in Nat
  BY DEF IInv, Counters, DecoderTyped
<1>2. size = 0 => Expected = << >>
  BY ExpectedOwed, OwedNone
<1>3. size # 0 => Expected # << >>
  BY ZenonT(60), <1>1, ExpectedOwed, OwedStep
<1> QED BY <1>2, <1>3

LEMMA ReadCommand ==
  ASSUME IInv, NEW w \in Words, PushbufDecode(w), size = 0, ~long,
         Queue!Announces(w), Documented(w)
  PROVE  Expected' = Queue!Methods(w) /\ ~long' /\ submitted' = NoMethod /\ nextaddr' = 0
<1>1. /\ Chipset \in Nat /\ Queue!GF100 = GF100 /\ (Chipset >= GF100 <=> ~(Chipset < GF100))
      /\ w.top \in 0 .. 7 /\ w.type \in 0 .. 3 /\ w.low \in 0 .. 3
  BY SMT, CountAssumption, QueueWords, WordFacts DEF GF100
<1>2. CASE Chipset < GF100
  <2>1. w.low = 0 /\ w.top \in {0, 2} /\ w.type = 0
    BY <1>1, <1>2 DEF Queue!Announces
  <2>2. Nop(w) \/ Nv4Increasing(w) \/ Nv4Constant(w)
    BY <1>1, <1>2, <2>1 DEF PushbufDecode, Parameter, AtParameter, CommandWord, Nv4Long, Nv4LongCount,
       Nv4Other, Nv4OldJump, Nv4Jump, WideIncreasing, WideConstant, WideIncreaseOnce, WideInline,
       WideOldIncreasing, WideOldConstant, WideOther, WideCommand
  <2>3. Queue!Command(w)
    BY <2>2, NopMaps, Nv4Maps
  <2>4. ~long' /\ submitted' = NoMethod /\ nextaddr' = 0
    BY <2>2 DEF Nop, Nv4Increasing, Nv4Constant, MethodCommand, Quiet
  <2> QED BY <2>3, <2>4 DEF Queue!Command
<1>3. CASE ~(Chipset < GF100)
  <2>1. w.top \in {1, 3, 5} \/ (w.top \in {0, 2} /\ w.type = 0)
    BY <1>1, <1>3 DEF Queue!Announces
  <2>2. \/ Nop(w) \/ WideIncreasing(w) \/ WideConstant(w) \/ WideIncreaseOnce(w)
        \/ WideOldIncreasing(w) \/ WideOldConstant(w)
    BY <1>1, <1>3, <2>1 DEF PushbufDecode, Parameter, AtParameter, CommandWord, Nv4Increasing, Nv4Constant,
       Nv4Long, Nv4LongCount, Nv4Other, Nv4OldJump, Nv4Jump, Nv4Command, WideInline, WideOther
  <2>3. Queue!Command(w)
    BY <2>2, NopMaps, WideMaps
  <2>4. ~long' /\ submitted' = NoMethod /\ nextaddr' = 0
    BY <2>2 DEF Nop, WideIncreasing, WideConstant, WideIncreaseOnce, WideOldIncreasing, WideOldConstant,
       MethodCommand, Quiet
  <2> QED BY <2>3, <2>4 DEF Queue!Command
<1> QED BY <1>2, <1>3

LEMMA ReadParameter ==
  ASSUME IInv, NEW w \in Words, PushbufDecode(w), size # 0
  PROVE  /\ Expected # << >> /\ Expected' = Tail(Expected)
         /\ submitted' = Queue!With(Head(Expected), w) /\ ~long' /\ nextaddr' = 0
<1>1. Parameter(w)
  BY DEF PushbufDecode, CommandWord, Nop, Nv4Increasing, Nv4Constant, Nv4Long, Nv4LongCount, Nv4Other,
     Nv4OldJump, Nv4Jump, WideIncreasing, WideConstant, WideIncreaseOnce, WideInline,
     WideOldIncreasing, WideOldConstant, WideOther, WideCommand, Nv4Command, AtCommand
<1>2. Queue!Parameter(w)
  BY <1>1, ParameterMaps
<1>3. nextaddr' = 0 /\ long' = long
  BY <1>1 DEF Parameter
<1>4. ~long
  BY DEF IInv, Counters, DecoderTyped, CountAlone
<1> QED BY <1>2, <1>3, <1>4 DEF Queue!Parameter

(* The first word of a run is decoded: it submits what the run says, and    *)
(* the rest of the run is left.                                             *)
LEMMA ReadRun ==
  ASSUME IInv, ~long, NEW mem, NEW p \in Nat, NEW q \in Nat, p < q, mem[p] \in Words,
         NEW u \in Seq(Sent), Run(mem, Expected, p, q, u), PushbufDecode(mem[p])
  PROVE  /\ u # << >> /\ Head(u) = submitted' /\ Tail(u) \in Seq(Sent)
         /\ nextaddr' = 0 /\ ~long' /\ Run(mem, Expected', p + 1, q, Tail(u))
<1>1. u # << >> /\ Tail(u) \in Seq(Sent)
  BY RunFirst
<1>2. CASE size = 0
  <2>1. Expected = << >>
    BY <1>2, NothingOwed
  <2>2. /\ Queue!Announces(mem[p]) /\ Documented(mem[p]) /\ Head(u) = NoMethod
        /\ Run(mem, Queue!Methods(mem[p]), p + 1, q, Tail(u))
    BY <2>1, RunFirst
  <2>3. Expected' = Queue!Methods(mem[p]) /\ ~long' /\ submitted' = NoMethod /\ nextaddr' = 0
    BY <1>2, <2>2, ReadCommand
  <2> QED BY <1>1, <2>2, <2>3
<1>3. CASE size # 0
  <2>1. /\ Expected # << >> /\ Expected' = Tail(Expected)
        /\ submitted' = Queue!With(Head(Expected), mem[p]) /\ ~long' /\ nextaddr' = 0
    BY <1>3, ReadParameter
  <2>2. Head(u) = Queue!With(Head(Expected), mem[p]) /\ Run(mem, Tail(Expected), p + 1, q, Tail(u))
    BY <2>1, RunFirst
  <2> QED BY <1>1, <2>1, <2>2
<1> QED BY <1>2, <1>3
=============================================================================
