-------------------------- MODULE ObjectTreeProofs --------------------------
(***************************************************************************)
(* Proofs about ObjectTree, for every set of names and any memory.  The    *)
(* tree alone is inductive: what its links say does not depend on who uses *)
(* it.  What a freed channel leaves needs to know what nouveau's ioctls put *)
(* on the list, which of it belongs to a channel that is in use, and that  *)
(* the loop over the children, which has no empty place between them, ends *)
(* every other one: those it has passed over are left in front of it, and  *)
(* they alternate with the others behind.  The count of the fifos          *)
(* needs what the walks up the tree find, before and after an object was   *)
(* added at the front or taken out in the middle.                          *)
(***************************************************************************)
EXTENDS ObjectTree, SequencesExt, SequenceTheorems, WellFoundedInduction, TLAPS,
        FiniteSetTheorems

-----------------------------------------------------------------------------
(* Numbers and lists.  That every set of numbers has a least one stands for *)
(* induction in these proofs.                                               *)

(* Every set of natural numbers that is not empty has a least element. *)
LEMMA LeastNumber ==
  ASSUME NEW S \in SUBSET Nat, S # {}
  PROVE  \E m \in S : \A k \in S : m <= k
<1>1. \A x, y \in Nat : << x, y >> \in OpToRel(<, Nat) <=> x < y
  BY DEF OpToRel
<1>2. PICK m \in S : \A k \in S : << k, m >> \notin OpToRel(<, Nat)
  BY NatLessThanWellFounded, WFMin, Zenon
<1>3. \A k \in S : ~(k < m)
  BY <1>1, <1>2, Zenon
<1> QED BY <1>3

(* Min finds it. *)
LEMMA MinLeast ==
  ASSUME NEW S \in SUBSET Nat, S # {}
  PROVE  Min(S) \in S /\ \A k \in S : Min(S) <= k
BY LeastNumber DEF Min

Distinct(s) == \A i, j \in DOMAIN s : i # j => s[i] # s[j]

(* s without its i-th element. *)
LEMMA RemoveAtShape ==
  ASSUME NEW T, NEW s \in Seq(T), NEW i \in 1 .. Len(s)
  PROVE  /\ RemoveAt(s, i) \in Seq(T) /\ Len(RemoveAt(s, i)) = Len(s) - 1
         /\ \A j \in 1 .. Len(s) - 1 : RemoveAt(s, i)[j] = IF j < i THEN s[j] ELSE s[j + 1]
<1> DEFINE a == SubSeq(s, 1, i - 1)
           b == SubSeq(s, i + 1, Len(s))
<1>1. RemoveAt(s, i) = a \o b
  BY DEF RemoveAt
<1>2. a \in Seq(T) /\ Len(a) = i - 1 /\ \A j \in 1 .. i - 1 : a[j] = s[j]
  OBVIOUS
<1>3. b \in Seq(T) /\ Len(b) = Len(s) - i /\ \A j \in 1 .. Len(s) - i : b[j] = s[i + 1 + j - 1]
  OBVIOUS
<1> HIDE DEF a, b
<1>4. a \o b \in Seq(T) /\ Len(a \o b) = Len(s) - 1
  <2>1. a \o b \in Seq(T) /\ Len(a \o b) = Len(a) + Len(b)
    BY <1>2, <1>3, ConcatProperties, Zenon
  <2> QED BY <1>2, <1>3, <2>1
<1>5. ASSUME NEW j \in 1 .. Len(s) - 1
      PROVE  (a \o b)[j] = IF j < i THEN s[j] ELSE s[j + 1]
  <2>1. (a \o b)[j] = IF j <= i - 1 THEN a[j] ELSE b[j - (i - 1)]
    BY <1>2, <1>3, ConcatProperties, SMT
  <2>2. CASE j < i
    BY <1>2, <2>1, <2>2
  <2>3. CASE ~(j < i)
    <3>1. j - (i - 1) \in 1 .. Len(s) - i
      BY <2>3
    <3>2. b[j - (i - 1)] = s[i + 1 + (j - (i - 1)) - 1]
      BY <1>3, <3>1
    <3>3. i + 1 + (j - (i - 1)) - 1 = j + 1
      OBVIOUS
    <3> QED BY <2>1, <2>3, <3>2, <3>3
  <2> QED BY <2>2, <2>3
<1> QED BY <1>1, <1>4, <1>5

(* RemoveFirst takes out the first of the elements that are equal to e, and *)
(* the others keep their order.                                             *)
LEMMA RemoveFirstShape ==
  ASSUME NEW T, NEW s \in Seq(T), NEW e, Contains(s, e)
  PROVE  \E i \in 1 .. Len(s) :
           /\ s[i] = e /\ \A j \in 1 .. i - 1 : s[j] # e
           /\ RemoveFirst(s, e) \in Seq(T) /\ Len(RemoveFirst(s, e)) = Len(s) - 1
           /\ \A j \in 1 .. Len(s) - 1 :
                RemoveFirst(s, e)[j] = IF j < i THEN s[j] ELSE s[j + 1]
<1> DEFINE I == { i \in 1 .. Len(s) : s[i] = e }
<1>1. I \in SUBSET Nat /\ I # {}
  BY DEF Contains
<1>2. Min(I) \in I /\ \A k \in I : Min(I) <= k
  BY <1>1, MinLeast
<1>3. RemoveFirst(s, e) = RemoveAt(s, Min(I))
  BY <1>1 DEF RemoveFirst, SelectInSeq, Contains
<1> HIDE DEF I
<1>4. Min(I) \in 1 .. Len(s) /\ s[Min(I)] = e /\ \A j \in 1 .. Min(I) - 1 : s[j] # e
  <2>1. Min(I) \in 1 .. Len(s) /\ s[Min(I)] = e
    BY <1>2 DEF I
  <2>2. ASSUME NEW j \in 1 .. Min(I) - 1 PROVE s[j] # e
    <3>1. j \in 1 .. Len(s) /\ ~(Min(I) <= j)
      BY <2>1
    <3> QED BY <1>2, <3>1 DEF I
  <2> QED BY <2>1, <2>2
<1> QED BY <1>3, <1>4, RemoveAtShape

LEMMA RemoveAbsent ==
  ASSUME NEW s, NEW e, ~Contains(s, e)
  PROVE  RemoveFirst(s, e) = s
BY DEF RemoveFirst, Contains

(* Of a list that has no element twice nothing else is lost, and e is gone. *)
LEMMA RemoveFirstDistinct ==
  ASSUME NEW T, NEW s \in Seq(T), NEW e, Distinct(s)
  PROVE  /\ RemoveFirst(s, e) \in Seq(T) /\ Distinct(RemoveFirst(s, e))
         /\ \A x : Contains(RemoveFirst(s, e), x) <=> Contains(s, x) /\ x # e
<1>1. CASE ~Contains(s, e)
  BY <1>1, RemoveAbsent
<1>2. CASE Contains(s, e)
  <2> DEFINE r == RemoveFirst(s, e)
  <2>1. PICK i \in 1 .. Len(s) :
           /\ s[i] = e /\ r \in Seq(T) /\ Len(r) = Len(s) - 1
           /\ \A j \in 1 .. Len(s) - 1 : r[j] = IF j < i THEN s[j] ELSE s[j + 1]
    BY <1>2, RemoveFirstShape
  <2> HIDE DEF r
  <2>2. ASSUME NEW j \in DOMAIN r, NEW k \in DOMAIN r, j # k PROVE r[j] # r[k]
    <3>1. j \in 1 .. Len(s) - 1 /\ k \in 1 .. Len(s) - 1
      BY <2>1
    <3> DEFINE J == IF j < i THEN j ELSE j + 1
               K == IF k < i THEN k ELSE k + 1
    <3>2. J \in DOMAIN s /\ K \in DOMAIN s /\ J # K
      BY <2>2, <3>1
    <3>3. r[j] = s[J] /\ r[k] = s[K]
      BY <2>1, <3>1
    <3> QED BY <3>2, <3>3 DEF Distinct
  <2>3. ASSUME NEW x, Contains(r, x) PROVE Contains(s, x) /\ x # e
    <3>1. PICK j \in 1 .. Len(r) : r[j] = x
      BY <2>3 DEF Contains
    <3>2. PICK k : k = IF j < i THEN j ELSE j + 1
      OBVIOUS
    <3>3. j \in 1 .. Len(s) - 1 /\ k \in 1 .. Len(s) /\ k # i
      BY <2>1, <3>1, <3>2
    <3>4. s[k] = x
      BY <2>1, <3>1, <3>2, <3>3
    <3>5. s[k] # s[i]
      BY <3>3 DEF Distinct
    <3> QED BY <2>1, <3>3, <3>4, <3>5 DEF Contains
  <2>4. ASSUME NEW x, Contains(s, x), x # e PROVE Contains(r, x)
    <3>1. PICK k \in 1 .. Len(s) : s[k] = x
      BY <2>4 DEF Contains
    <3>2. k < i => r[k] = x /\ k \in 1 .. Len(r)
      BY <2>1, <3>1
    <3>3. k > i => r[k - 1] = x /\ k - 1 \in 1 .. Len(r)
      BY <2>1, <3>1
    <3> QED BY <2>1, <2>4, <3>1, <3>2, <3>3 DEF Contains
  <2> QED BY <2>1, <2>2, <2>3, <2>4 DEF r, Distinct
<1> QED BY <1>1, <1>2

(* An element in front. *)
LEMMA InFront ==
  ASSUME NEW T, NEW s \in Seq(T), NEW e \in T
  PROVE  /\ << e >> \o s \in Seq(T)
         /\ \A x : Contains(<< e >> \o s, x) <=> x = e \/ Contains(s, x)
         /\ Distinct(s) /\ ~Contains(s, e) => Distinct(<< e >> \o s)
<1> DEFINE r == << e >> \o s
<1>1. /\ r \in Seq(T) /\ Len(r) = Len(s) + 1 /\ r[1] = e
      /\ \A i \in 1 .. Len(s) : r[i + 1] = s[i]
      /\ \A i \in 2 .. Len(r) : r[i] = s[i - 1]
  OBVIOUS
<1> HIDE DEF r
<1>2. ASSUME NEW x, Contains(s, x) PROVE Contains(r, x)
  BY <1>1, <1>2 DEF Contains
<1>3. ASSUME NEW x, Contains(r, x), x # e PROVE Contains(s, x)
  <2>1. PICK i \in 1 .. Len(r) : r[i] = x
    BY <1>3 DEF Contains
  <2> QED BY <1>1, <1>3, <2>1 DEF Contains
<1>4. Contains(r, e)
  BY <1>1 DEF Contains
<1>5. Distinct(s) /\ ~Contains(s, e) => Distinct(r)
  <2> SUFFICES ASSUME Distinct(s), ~Contains(s, e),
                      NEW i \in DOMAIN r, NEW j \in DOMAIN r, i # j
               PROVE  r[i] # r[j]
    BY DEF Distinct
  <2>1. i \in 1 .. Len(s) + 1 /\ j \in 1 .. Len(s) + 1
    BY <1>1
  <2>2. ASSUME NEW k \in 2 .. Len(s) + 1 PROVE k - 1 \in DOMAIN s /\ r[k] = s[k - 1] /\ r[k] # r[1]
    BY <1>1 DEF Contains
  <2>3. CASE i = 1 \/ j = 1
    BY <2>1, <2>2, <2>3
  <2>4. CASE i # 1 /\ j # 1
    <3>1. i - 1 \in DOMAIN s /\ j - 1 \in DOMAIN s /\ i - 1 # j - 1
      BY <2>1, <2>4
    <3>2. s[i - 1] # s[j - 1]
      BY <3>1 DEF Distinct
    <3> QED BY <2>1, <2>2, <2>4, <3>2
  <2> QED BY <2>3, <2>4
<1> QED BY <1>1, <1>2, <1>3, <1>4, <1>5 DEF r

-----------------------------------------------------------------------------
(* The inductive invariant: first the tree.                                 *)

TreeTyped ==
  /\ objects \in Seq(Node)
  /\ name \in [Node -> Names \cup {NULL}]
  /\ up \in [Node -> Node \cup {NULL}]
  /\ kids \in [Node -> Seq(Node \cup {NULL})]

(* New objects are put in front of the list. *)
Older == \A i, j \in DOMAIN objects : up[objects[i]] = objects[j] => i < j

(* A child was given the name of its parent. *)
NamedParent ==
  \A o, p \in Node : up[o] = p =>
    name[o].cid = name[p].cid /\ name[o].parent = name[p].handle

(* There is no empty place between the children in an array. *)
FromFront(a) == \A i, j \in DOMAIN a : i < j /\ a[j] # NULL => a[i] # NULL
Packed == \A p \in Node : FromFront(kids[p])

Tree == TreeTyped /\ LinksMutual /\ Older /\ NamedParent /\ Packed

(* What nouveau's ioctls name their objects. *)
Kinds ==
  \A o \in Live :
    /\ name[o].cid \in Channel
    /\ \/ name[o].class = "device" /\ name[o].handle = name[o].cid /\ name[o].parent = name[o].cid
       \/ name[o].class = "fifo" /\ name[o].handle = FifoHandle /\ name[o].parent = name[o].cid
       \/ name[o].class = "engine" /\ name[o].handle \in Grobj /\ name[o].parent = FifoHandle
       \/ name[o].class = "memory" /\ name[o].handle \in Grobj \cup Gem /\ name[o].parent = name[o].cid

Has(c, h) == \E o \in Live : name[o].cid = c /\ name[o].handle = h

(* A channel is being made, or taken apart. *)
Making(c)  == todo.op = "fifo" /\ todo.cid = c
Freeing(c) == todo.op = "children" /\ todo.cid = c
Ending(c)  == todo.op \in {"children", "device"} /\ todo.cid = c

(* Only a channel that is open is made, and only a closed one taken apart. *)
Handler ==
  /\ todo.op # "checked"
  /\ todo.op = "fifo" => todo.cid \in open
  /\ todo.op \in {"children", "device"} => todo.cid \in Channel \ open

(* The loop counts from 1. *)
Position == todo.op = "children" => todo.at >= 1

(* The loop and what follows it find the fifo and the device. *)
FifoThere == \A c \in Channel : (c \in open /\ ~Making(c)) \/ Freeing(c) => Has(c, FifoHandle)
DeviceThere == \A c \in Channel : c \in open \/ Ending(c) => Has(c, c)

FifoInUse ==
  \A o \in Live : name[o].class = "fifo" =>
    (name[o].cid \in open /\ ~Making(name[o].cid)) \/ Freeing(name[o].cid)

OneFifo ==
  \A o, p \in Live : name[o].class = "fifo" /\ name[p].class = "fifo" /\ name[o].cid = name[p].cid => o = p

(* An engine hangs on a fifo, unless a loop passed over it. *)
EngineInUse ==
  \A o \in Live : name[o].class = "engine" /\ o \notin left =>
    up[o] # NULL /\ (name[o].cid \in open \/ Freeing(name[o].cid))

(* What was passed over is there, and hangs on no fifo that is in use. *)
LeftThere ==
  /\ left \subseteq Live
  /\ \A o \in left : \/ name[o].class = "memory"
                     \/ name[o].class = "engine" /\ (up[o] = NULL \/ Freeing(name[o].cid))

(* The loop has left children in front of it; from where it is every second *)
(* one will be left.                                                        *)
Alternate ==
  \A f \in Live : name[f].class = "fifo" /\ Freeing(name[f].cid) =>
    \A i \in DOMAIN kids[f] : kids[f][i] # NULL =>
      (kids[f][i] \in left <=> i < todo.at \/ (i - todo.at) % 2 = 1)

Shadow ==
  \A o \in Live : name[o].class = "memory" /\ name[o].handle = name[o].cid => name[o].cid \in shadowed

DeviceInUse ==
  \A o \in Live : name[o].class = "device" /\ name[o].cid \notin shadowed =>
    name[o].cid \in open \/ Ending(name[o].cid)

OneDevice ==
  \A o, p \in Live :
    name[o].class = "device" /\ name[p].class = "device" /\ name[o].cid = name[p].cid
      /\ name[o].cid \notin shadowed => o = p

Channels ==
  driver = "nouveau" =>
    /\ Kinds /\ Handler /\ Position /\ FifoThere /\ DeviceThere /\ FifoInUse /\ OneFifo
    /\ EngineInUse /\ LeftThere /\ Alternate /\ Shadow /\ DeviceInUse /\ OneDevice

IInv == TypeOK /\ Tree /\ Channels

-----------------------------------------------------------------------------
(* Arrays of children.                                                      *)

Slots == Node \cup {NULL}
OneEach(a) == \A i, j \in DOMAIN a : i # j /\ a[i] # NULL => a[i] # a[j]

LEMMA NullFacts == NULL \notin Node /\ NULL \notin Names /\ Grow \in Nat \ {0}
BY TreeAssumption

(* A child is put in an empty place or at the end, the others stay. *)
LEMMA WithChildFacts ==
  ASSUME NEW a \in Seq(Slots), NEW o \in Node, ~Contains(a, o), OneEach(a)
  PROVE  /\ WithChild(a, o) \in Seq(Slots) /\ OneEach(WithChild(a, o))
         /\ \A x \in Node : Contains(WithChild(a, o), x) <=> x = o \/ Contains(a, x)
<1> DEFINE empty == { i \in DOMAIN a : a[i] = NULL }
           w == WithChild(a, o)
<1>1. o # NULL /\ NULL \in Slots /\ o \in Slots
  BY NullFacts DEF Slots
<1>2. CASE empty # {}
  <2>1. empty \in SUBSET Nat
    OBVIOUS
  <2>2. Min(empty) \in empty
    BY <1>2, <2>1, MinLeast
  <2>3. PICK k \in DOMAIN a : a[k] = NULL /\ w = [a EXCEPT ![k] = o]
    BY <1>2, <2>2 DEF WithChild
  <2> HIDE DEF empty, w
  <2>4. w \in Seq(Slots) /\ DOMAIN w = DOMAIN a /\ w[k] = o /\ \A i \in DOMAIN a : i # k => w[i] = a[i]
    BY <1>1, <2>3
  <2>5. \A i \in DOMAIN a : a[i] # o
    BY DEF Contains
  <2>6. OneEach(w)
    BY <2>4, <2>5 DEF OneEach
  <2>7. ASSUME NEW x \in Node PROVE Contains(w, x) <=> x = o \/ Contains(a, x)
    <3>1. x # NULL
      BY NullFacts
    <3>2. DOMAIN a = 1 .. Len(a) /\ DOMAIN w = 1 .. Len(w)
      BY <2>4
    <3>3. Contains(w, x) <=> \E i \in DOMAIN a : w[i] = x
      BY <2>4, <3>2 DEF Contains
    <3>4. Contains(a, x) <=> \E i \in DOMAIN a : a[i] = x
      BY <3>2 DEF Contains
    <3> QED BY <2>3, <2>4, <3>1, <3>3, <3>4
  <2> QED BY <2>4, <2>6, <2>7 DEF w
<1>3. CASE empty = {}
  <2> DEFINE b == [i \in 1 .. Grow |-> IF i = 1 THEN o ELSE NULL]
  <2>1. w = a \o b
    BY <1>3 DEF WithChild
  <2>2. b \in Seq(Slots) /\ Len(b) = Grow /\ \A i \in 1 .. Grow : b[i] = IF i = 1 THEN o ELSE NULL
    BY <1>1, NullFacts
  <2>3. \A i \in 1 .. Len(a) : a[i] # NULL /\ a[i] # o
    BY <1>3 DEF Contains
  <2> HIDE DEF b, w, empty
  <2>4. w \in Seq(Slots) /\ Len(w) = Len(a) + Len(b)
    BY <2>1, <2>2, ConcatProperties, Zenon
  <2>5. \A i \in 1 .. Len(a) + Len(b) : w[i] = IF i <= Len(a) THEN a[i] ELSE b[i - Len(a)]
    BY <2>1, <2>2, ConcatProperties, Zenon
  <2>6. Len(a) \in Nat /\ Len(b) \in Nat \ {0}
    BY <2>2, NullFacts
  <2>7. \A i \in 1 .. Len(a) : w[i] = a[i]
    BY <2>5, <2>6
  <2>8. ASSUME NEW i \in DOMAIN w, i > Len(a) PROVE w[i] = IF i = Len(a) + 1 THEN o ELSE NULL
    <3>1. i \in 1 .. Len(a) + Len(b) /\ i - Len(a) \in 1 .. Len(b)
      BY <2>4, <2>6, <2>8
    <3>2. w[i] = b[i - Len(a)]
      BY <2>5, <2>8, <3>1
    <3> QED BY <2>2, <2>6, <3>1, <3>2
  <2>9. DOMAIN w = 1 .. Len(a) + Len(b) /\ Len(a) + 1 \in DOMAIN w /\ DOMAIN a = 1 .. Len(a)
    BY <2>4, <2>6
  <2>10. OneEach(w)
    <3> SUFFICES ASSUME NEW i \in DOMAIN w, NEW j \in DOMAIN w, i # j, w[i] # NULL
                 PROVE  w[i] # w[j]
      BY DEF OneEach
    <3>1. i \in 1 .. Len(a) \/ i = Len(a) + 1
      BY <2>8, <2>9, <2>6
    <3>2. j \in 1 .. Len(a) \/ j = Len(a) + 1 \/ w[j] = NULL
      BY <2>8, <2>9, <2>6
    <3>3. CASE i \in 1 .. Len(a)
      BY <1>1, <2>3, <2>7, <2>8, <2>9, <2>6, <3>2, <3>3 DEF OneEach
    <3>4. CASE i = Len(a) + 1
      BY <1>1, <2>3, <2>7, <2>8, <2>9, <2>6, <3>2, <3>4
    <3> QED BY <3>1, <3>3, <3>4
  <2>11. ASSUME NEW x \in Node PROVE Contains(w, x) <=> x = o \/ Contains(a, x)
    <3>1. x # NULL
      BY NullFacts
    <3>2. ASSUME Contains(w, x) PROVE x = o \/ Contains(a, x)
      <4>1. PICK i \in DOMAIN w : w[i] = x
        BY <2>4, <3>2 DEF Contains
      <4> QED BY <2>6, <2>7, <2>8, <2>9, <3>1, <4>1 DEF Contains
    <3>3. Contains(w, o)
      BY <2>4, <2>6, <2>8, <2>9 DEF Contains
    <3>4. ASSUME Contains(a, x) PROVE Contains(w, x)
      <4>1. PICK i \in 1 .. Len(a) : a[i] = x
        BY <3>4 DEF Contains
      <4> QED BY <2>4, <2>6, <2>7, <4>1 DEF Contains
    <3> QED BY <3>2, <3>3, <3>4
  <2> QED BY <2>4, <2>10, <2>11 DEF w
<1> QED BY <1>2, <1>3

(* The children behind one that goes move up by a place. *)
LEMMA WithoutChildFacts ==
  ASSUME NEW a \in Seq(Slots), NEW o \in Node, OneEach(a)
  PROVE  /\ WithoutChild(a, o) \in Seq(Slots) /\ OneEach(WithoutChild(a, o))
         /\ \A x \in Node : Contains(WithoutChild(a, o), x) <=> Contains(a, x) /\ x # o
<1> DEFINE I == { i \in 1 .. Len(a) : a[i] = o }
           w == WithoutChild(a, o)
<1>1. o # NULL /\ NULL \in Slots
  BY NullFacts DEF Slots
<1>2. CASE I = {}
  <2>1. SelectInSeq(a, LAMBDA c : c = o) = 0
    BY <1>2 DEF SelectInSeq
  <2>2. w = a
    BY <2>1 DEF WithoutChild
  <2>3. ~Contains(a, o)
    BY <1>2 DEF Contains
  <2> HIDE DEF w
  <2> QED BY <2>2, <2>3 DEF w
<1>3. CASE I # {}
  <2>1. I \in SUBSET Nat
    OBVIOUS
  <2>2. Min(I) \in I
    BY <1>3, <2>1, MinLeast
  <2>3. SelectInSeq(a, LAMBDA c : c = o) = Min(I)
    BY <1>3 DEF SelectInSeq
  <2>4. PICK k \in 1 .. Len(a) :
          /\ a[k] = o
          /\ w = [j \in DOMAIN a |-> IF j < k THEN a[j] ELSE IF j < Len(a) THEN a[j + 1] ELSE NULL]
    <3>1. Min(I) \in 1 .. Len(a) /\ a[Min(I)] = o
      BY <2>2
    <3>2. Min(I) # 0
      BY <3>1
    <3> HIDE DEF I
    <3> QED BY <2>3, <3>1, <3>2 DEF WithoutChild
  <2> HIDE DEF I, w
  <2>5. DOMAIN a = 1 .. Len(a) /\ DOMAIN w = 1 .. Len(a) /\ Len(a) \in Nat
    BY <2>4
  <2>6. \A j \in 1 .. Len(a) :
          w[j] = IF j < k THEN a[j] ELSE IF j < Len(a) THEN a[j + 1] ELSE NULL
    BY <2>4
  <2>7. w \in Seq(Slots) /\ Len(w) = Len(a)
    <3>1. \A j \in 1 .. Len(a) : w[j] \in Slots
      BY <1>1, <2>5, <2>6
    <3>2. w = [j \in 1 .. Len(a) |-> w[j]]
      BY <2>4, <2>5
    <3> QED BY <2>5, <3>1, <3>2
  <2>8. ASSUME NEW j \in 1 .. Len(a), w[j] # NULL
        PROVE  \E i \in 1 .. Len(a) : w[j] = a[i] /\ i # k /\ (j < k <=> i = j) /\ (~(j < k) <=> i = j + 1)
    BY <2>5, <2>6, <2>8
  <2>9. OneEach(w)
    <3> SUFFICES ASSUME NEW i \in 1 .. Len(a), NEW j \in 1 .. Len(a), i # j, w[i] # NULL, w[i] = w[j]
                 PROVE  FALSE
      BY <2>5 DEF OneEach
    <3>1. PICK m \in 1 .. Len(a) : w[i] = a[m] /\ m # k /\ (i < k <=> m = i) /\ (~(i < k) <=> m = i + 1)
      BY <2>8
    <3>2. PICK n \in 1 .. Len(a) : w[j] = a[n] /\ n # k /\ (j < k <=> n = j) /\ (~(j < k) <=> n = j + 1)
      BY <2>8
    <3>3. m # n
      BY <3>1, <3>2
    <3> QED BY <2>5, <3>1, <3>2, <3>3 DEF OneEach
  <2>10. ASSUME NEW x \in Node PROVE Contains(w, x) <=> Contains(a, x) /\ x # o
    <3>1. x # NULL
      BY NullFacts
    <3>2. ASSUME Contains(w, x) PROVE Contains(a, x) /\ x # o
      <4>1. PICK j \in 1 .. Len(a) : w[j] = x
        BY <2>7, <3>2 DEF Contains
      <4>2. PICK i \in 1 .. Len(a) : x = a[i] /\ i # k
        BY <2>8, <3>1, <4>1
      <4> QED BY <1>1, <2>4, <2>5, <4>2 DEF Contains, OneEach
    <3>3. ASSUME Contains(a, x), x # o PROVE Contains(w, x)
      <4>1. PICK i \in 1 .. Len(a) : a[i] = x
        BY <3>3 DEF Contains
      <4>2. i # k
        BY <2>4, <3>3, <4>1
      <4>3. CASE i < k
        BY <2>6, <2>7, <4>1, <4>3 DEF Contains
      <4>4. CASE i > k
        <5>1. i - 1 \in 1 .. Len(a) /\ ~(i - 1 < k) /\ i - 1 < Len(a) /\ (i - 1) + 1 = i
          BY <2>4, <2>5, <4>4
        <5>2. w[i - 1] = x
          BY <2>6, <4>1, <5>1
        <5> QED BY <2>7, <5>1, <5>2 DEF Contains
      <4> QED BY <2>4, <4>1, <4>2, <4>3, <4>4
    <3> QED BY <3>2, <3>3
  <2> QED BY <2>7, <2>9, <2>10 DEF w
<1> QED BY <1>2, <1>3

(* What is behind a child that goes moves up by a place. *)
LEMMA WithoutChildShape ==
  ASSUME NEW a \in Seq(Slots), NEW o \in Node, NEW k \in 1 .. Len(a), a[k] = o, OneEach(a)
  PROVE  WithoutChild(a, o) =
           [j \in DOMAIN a |-> IF j < k THEN a[j] ELSE IF j < Len(a) THEN a[j + 1] ELSE NULL]
<1> DEFINE I == { i \in 1 .. Len(a) : a[i] = o }
<1>1. I \in SUBSET Nat /\ I # {}
  OBVIOUS
<1>2. Min(I) \in I
  BY <1>1, MinLeast
<1>3. SelectInSeq(a, LAMBDA c : c = o) = Min(I)
  BY <1>1 DEF SelectInSeq
<1>4. Min(I) \in 1 .. Len(a) /\ a[Min(I)] = o
  BY <1>2
<1> HIDE DEF I
<1>5. Min(I) = k
  BY <1>4, NullFacts DEF OneEach
<1>6. k # 0
  OBVIOUS
<1> QED BY <1>3, <1>5, <1>6 DEF WithoutChild

LEMMA WithoutChildAbsent ==
  ASSUME NEW a \in Seq(Slots), NEW o \in Node, ~Contains(a, o)
  PROVE  WithoutChild(a, o) = a
<1>1. { i \in 1 .. Len(a) : a[i] = o } = {}
  BY DEF Contains
<1>2. SelectInSeq(a, LAMBDA c : c = o) = 0
  BY <1>1 DEF SelectInSeq
<1> QED BY <1>2 DEF WithoutChild

(* A new child leaves no empty place in front of it. *)
LEMMA WithChildPacked ==
  ASSUME NEW a \in Seq(Slots), NEW o \in Node, FromFront(a)
  PROVE  FromFront(WithChild(a, o))
<1> DEFINE empty == { i \in DOMAIN a : a[i] = NULL }
           w == WithChild(a, o)
<1>1. o # NULL
  BY NullFacts
<1>2. CASE empty # {}
  <2>1. empty \in SUBSET Nat
    OBVIOUS
  <2>2. Min(empty) \in empty /\ \A m \in empty : Min(empty) <= m
    BY <1>2, <2>1, MinLeast
  <2>3. PICK k \in DOMAIN a : k = Min(empty) /\ w = [a EXCEPT ![k] = o]
    BY <1>2, <2>2 DEF WithChild
  <2>4. ASSUME NEW i \in DOMAIN a, i < k PROVE a[i] # NULL
    <3>1. k \in Nat /\ i \in Nat /\ ~(k <= i)
      BY <2>4
    <3>2. i \notin empty
      BY <2>2, <2>3, <3>1
    <3> QED BY <3>2
  <2> HIDE DEF empty, w
  <2>5. DOMAIN w = DOMAIN a /\ w[k] = o /\ \A i \in DOMAIN a : i # k => w[i] = a[i]
    BY <2>3
  <2>6. FromFront(w)
    BY <1>1, <2>4, <2>5 DEF FromFront
  <2> QED BY <2>6 DEF w
<1>3. CASE empty = {}
  <2> DEFINE b == [i \in 1 .. Grow |-> IF i = 1 THEN o ELSE NULL]
  <2>1. w = a \o b
    BY <1>3 DEF WithChild
  <2>2. b \in Seq(Slots) /\ Len(b) = Grow /\ \A i \in 1 .. Grow : b[i] = IF i = 1 THEN o ELSE NULL
    BY NullFacts DEF Slots
  <2>3. \A i \in 1 .. Len(a) : a[i] # NULL
    BY <1>3
  <2> HIDE DEF b, w, empty
  <2>4. w \in Seq(Slots) /\ Len(w) = Len(a) + Len(b)
    BY <2>1, <2>2, ConcatProperties, Zenon
  <2>5. \A i \in 1 .. Len(a) + Len(b) : w[i] = IF i <= Len(a) THEN a[i] ELSE b[i - Len(a)]
    BY <2>1, <2>2, ConcatProperties, Zenon
  <2>6. Len(a) \in Nat /\ Len(b) \in Nat \ {0} /\ DOMAIN w = 1 .. Len(a) + Len(b)
    BY <2>2, <2>4, NullFacts
  <2>7. \A i \in 1 .. Len(a) + 1 : w[i] # NULL
    <3>1. ASSUME NEW i \in 1 .. Len(a) PROVE w[i] # NULL
      BY <2>3, <2>5, <2>6
    <3>2. w[Len(a) + 1] = b[1]
      BY <2>5, <2>6
    <3> QED BY <1>1, <2>2, <2>6, <3>1, <3>2
  <2>8. ASSUME NEW i \in DOMAIN w, i > Len(a) + 1 PROVE w[i] = NULL
    <3>1. i - Len(a) \in 1 .. Len(b) /\ i - Len(a) # 1 /\ ~(i <= Len(a))
      BY <2>6, <2>8
    <3> QED BY <2>2, <2>5, <2>6, <3>1
  <2>9. FromFront(w)
    BY <2>6, <2>7, <2>8 DEF FromFront
  <2> QED BY <2>9 DEF w
<1> QED BY <1>2, <1>3

(* Nor does one that goes. *)
LEMMA WithoutChildPacked ==
  ASSUME NEW a \in Seq(Slots), NEW o \in Node, OneEach(a), FromFront(a)
  PROVE  FromFront(WithoutChild(a, o))
<1>1. CASE ~Contains(a, o)
  BY <1>1, WithoutChildAbsent
<1>2. CASE Contains(a, o)
  <2>1. PICK k \in 1 .. Len(a) : a[k] = o
    BY <1>2 DEF Contains
  <2> DEFINE w == WithoutChild(a, o)
  <2>2. w = [j \in DOMAIN a |-> IF j < k THEN a[j] ELSE IF j < Len(a) THEN a[j + 1] ELSE NULL]
    BY <2>1, WithoutChildShape
  <2> HIDE DEF w
  <2>3. /\ DOMAIN w = 1 .. Len(a) /\ Len(a) \in Nat
        /\ \A j \in 1 .. Len(a) : w[j] = IF j < k THEN a[j] ELSE IF j < Len(a) THEN a[j + 1] ELSE NULL
    BY <2>2
  <2>4. ASSUME NEW i \in 1 .. Len(a), NEW j \in 1 .. Len(a), i < j, w[j] # NULL
        PROVE  w[i] # NULL
    <3> DEFINE J == IF j < k THEN j ELSE j + 1
               I == IF i < k THEN i ELSE i + 1
    <3>1. J \in 1 .. Len(a) /\ w[j] = a[J]
      BY <2>3, <2>4
    <3>2. I \in 1 .. Len(a) /\ w[i] = a[I] /\ I < J
      BY <2>3, <2>4, <3>1
    <3> QED BY <2>4, <3>1, <3>2 DEF FromFront
  <2>5. FromFront(w)
    BY <2>3, <2>4 DEF FromFront
  <2> QED BY <2>5 DEF w
<1> QED BY <1>1, <1>2

-----------------------------------------------------------------------------
(* The tree.                                                                *)

LEMMA LiveFacts ==
  ASSUME Tree
  PROVE  /\ Live \subseteq Node /\ NULL \notin Live
         /\ \A o \in Live : name[o] \in Names
         /\ \A o \in Node : o \notin Live => name[o] = NULL /\ up[o] = NULL
         /\ \A o \in Node : up[o] # NULL => o \in Live /\ up[o] \in Live
         /\ \A o : Contains(objects, o) <=> o \in Live
         /\ Distinct(objects)
<1>1. ToSet(objects) = Live /\ Distinct(objects)
  BY DEF Tree, LinksMutual, Distinct
<1>2. \A o : Contains(objects, o) <=> o \in ToSet(objects)
  BY DEF Contains, ToSet, Tree, TreeTyped
<1>3. Live \subseteq Node /\ NULL \notin Live /\ \A o \in Live : name[o] \in Names
  BY NullFacts DEF Live, Tree, TreeTyped
<1>4. \A o \in Node : up[o] # NULL => o \in Live /\ up[o] \in Live
  BY DEF Tree, LinksMutual
<1> QED BY <1>1, <1>2, <1>3, <1>4 DEF Live

(* gpu_object_find returns an object with the name it was asked for. *)
LEMMA FindFacts ==
  ASSUME Tree, NEW cid, NEW handle
  PROVE  /\ Find(cid, handle) \in Live \cup {NULL}
         /\ Find(cid, handle) # NULL =>
              name[Find(cid, handle)].cid = cid /\ name[Find(cid, handle)].handle = handle
         /\ Has(cid, handle) => Find(cid, handle) # NULL
<1> DEFINE I == { i \in 1 .. Len(objects) : name[objects[i]].cid = cid /\ name[objects[i]].handle = handle }
<1>1. /\ \A i \in 1 .. Len(objects) : objects[i] \in Live
      /\ \A o \in Live : \E i \in 1 .. Len(objects) : objects[i] = o
  BY LiveFacts DEF Contains
<1>2. CASE I = {}
  <2>1. Find(cid, handle) = NULL
    BY <1>2 DEF Find, SelectInSeq
  <2>2. ~Has(cid, handle)
    BY <1>1, <1>2 DEF Has
  <2> QED BY <2>1, <2>2
<1>3. CASE I # {}
  <2>1. I \in SUBSET Nat
    OBVIOUS
  <2>2. Min(I) \in I
    BY <1>3, <2>1, MinLeast
  <2>3. Min(I) # 0
    BY <2>2
  <2>4. Find(cid, handle) = objects[Min(I)]
    BY <1>3, <2>3 DEF Find, SelectInSeq
  <2>5. Min(I) \in 1 .. Len(objects) /\ name[objects[Min(I)]].cid = cid /\ name[objects[Min(I)]].handle = handle
    BY <2>2
  <2> HIDE DEF I
  <2>6. objects[Min(I)] \in Live /\ objects[Min(I)] # NULL
    BY <1>1, <2>5, LiveFacts
  <2> QED BY <2>4, <2>5, <2>6
<1> QED BY <1>2, <1>3

(* No object is its own parent, and an array has no object twice. *)
LEMMA LinkFacts ==
  ASSUME Tree
  PROVE  /\ \A o \in Node : up[o] # o /\ kids[o] \in Seq(Slots) /\ OneEach(kids[o])
         /\ \A o, p \in Node : Contains(kids[p], o) <=> up[o] = p
         /\ \A o \in Node : \A x : x \in ToSet(kids[o]) <=> Contains(kids[o], x)
<1>1. ASSUME NEW o \in Node, up[o] = o PROVE FALSE
  <2>1. o \in Live
    BY <1>1, LiveFacts, NullFacts
  <2>2. objects \in Seq(Node) /\ Contains(objects, o)
    BY <2>1, LiveFacts DEF Tree, TreeTyped
  <2>3. PICK i \in DOMAIN objects : objects[i] = o
    BY <2>2 DEF Contains
  <2> QED BY <1>1, <2>2, <2>3 DEF Tree, Older
<1>2. \A o \in Node : kids[o] \in Seq(Slots) /\ OneEach(kids[o])
  BY DEF Tree, TreeTyped, LinksMutual, OneEach, Slots
<1>3. \A o, p \in Node : Contains(kids[p], o) <=> up[o] = p
  BY DEF Tree, LinksMutual
<1>4. ASSUME NEW o \in Node, NEW x PROVE x \in ToSet(kids[o]) <=> Contains(kids[o], x)
  BY <1>2 DEF ToSet, Contains
<1> QED BY <1>1, <1>2, <1>3, <1>4

(* gpu_object_add keeps the tree. *)
LEMMA AddKeepsTree ==
  ASSUME Tree, NEW o \in Node, NEW n \in Names, Add(o, n)
  PROVE  /\ Tree' /\ Live' = Live \cup {o} /\ o \notin Live
         /\ name'[o] = n /\ up'[o] = Find(n.cid, n.parent)
         /\ \A q \in Node : q # o => name'[q] = name[q] /\ up'[q] = up[q]
<1> DEFINE p == Find(n.cid, n.parent)
<1>1. p \in Live \cup {NULL} /\ (p # NULL => name[p].cid = n.cid /\ name[p].handle = n.parent)
  BY FindFacts
<1>2. /\ name[o] = NULL
      /\ name' = [name EXCEPT ![o] = n] /\ objects' = << o >> \o objects
      /\ up' = [up EXCEPT ![o] = p]
      /\ kids' = IF p = NULL THEN kids ELSE [kids EXCEPT ![p] = WithChild(@, o)]
  BY DEF Add
<1> HIDE DEF p
<1>3. o \notin Live /\ up[o] = NULL /\ o # NULL /\ n # NULL
  BY <1>2, LiveFacts, NullFacts DEF Live
<1>4. \A q \in Node : up[q] # o
  BY <1>3, LiveFacts
<1>5. p \in Node \cup {NULL} /\ p # o
  BY <1>1, <1>3, LiveFacts
<1>6. Live' = Live \cup {o}
  BY <1>2, <1>3 DEF Live, Tree, TreeTyped
<1>7. /\ name'[o] = n /\ up'[o] = p
      /\ \A q \in Node : q # o => name'[q] = name[q] /\ up'[q] = up[q]
  BY <1>2 DEF Tree, TreeTyped
<1>8. ASSUME NEW q \in Node
      PROVE  /\ kids'[q] \in Seq(Slots) /\ OneEach(kids'[q])
             /\ \A x \in Node : Contains(kids'[q], x) <=> (Contains(kids[q], x) \/ (q = p /\ x = o))
  <2>1. kids[q] \in Seq(Slots) /\ OneEach(kids[q])
    BY LinkFacts
  <2>2. CASE q = p
    <3>1. ~Contains(kids[q], o)
      BY <1>3, LinkFacts, NullFacts
    <3>2. kids'[q] = WithChild(kids[q], o)
      BY <1>2, <2>2, NullFacts DEF Tree, TreeTyped
    <3> QED BY <2>1, <2>2, <3>1, <3>2, WithChildFacts
  <2>3. CASE q # p
    BY <1>2, <2>1, <2>3 DEF Tree, TreeTyped
  <2> QED BY <2>2, <2>3
<1>9. /\ objects' \in Seq(Node) /\ Distinct(objects')
      /\ \A x : Contains(objects', x) <=> x = o \/ Contains(objects, x)
  BY <1>2, <1>3, LiveFacts, InFront DEF Tree, TreeTyped
<1>10. TreeTyped'
  <2>1. name' \in [Node -> Names \cup {NULL}] /\ up' \in [Node -> Node \cup {NULL}]
    BY <1>2, <1>5 DEF Tree, TreeTyped
  <2>2. kids' \in [Node -> Seq(Slots)]
    <3>1. kids' = [q \in Node |-> kids'[q]]
      BY <1>2 DEF Tree, TreeTyped
    <3> QED BY <1>8, <3>1
  <2> QED BY <1>9, <2>1, <2>2 DEF TreeTyped, Slots
<1>11. LinksMutual'
  <2>1. ToSet(objects') = Live'
    <3>1. ASSUME NEW x PROVE x \in ToSet(objects') <=> Contains(objects', x)
      BY <1>9 DEF ToSet, Contains
    <3> QED BY <1>6, <1>9, <3>1, LiveFacts
  <2>2. \A i, j \in DOMAIN objects' : i # j => objects'[i] # objects'[j]
    BY <1>9 DEF Distinct
  <2>3. ASSUME NEW q \in Node, up'[q] # NULL PROVE {q, up'[q]} \subseteq Live'
    BY <1>1, <1>6, <1>7, <2>3, LiveFacts
  <2>4. ASSUME NEW q \in Node, NEW r \in Node PROVE Contains(kids'[r], q) <=> up'[q] = r
    <3>1. Contains(kids[r], q) <=> up[q] = r
      BY LinkFacts
    <3> QED BY <1>3, <1>7, <1>8, <3>1, NullFacts
  <2>5. \A q \in Node : \A i, j \in DOMAIN kids'[q] : i # j /\ kids'[q][i] # NULL => kids'[q][i] # kids'[q][j]
    BY <1>8 DEF OneEach
  <2> QED BY <2>1, <2>2, <2>3, <2>4, <2>5 DEF LinksMutual
<1>12. Older'
  <2> SUFFICES ASSUME NEW i \in DOMAIN objects', NEW j \in DOMAIN objects', up'[objects'[i]] = objects'[j]
               PROVE  i < j
    BY DEF Older
  <2>1. /\ Len(objects) \in Nat /\ Len(objects') = Len(objects) + 1 /\ objects'[1] = o
        /\ \A k \in 2 .. Len(objects') : objects'[k] = objects[k - 1] /\ k - 1 \in DOMAIN objects
        /\ DOMAIN objects' = 1 .. Len(objects')
    BY <1>2 DEF Tree, TreeTyped
  <2>2. objects'[i] \in Node /\ objects'[j] \in Node
    BY <1>9
  <2>3. j # 1
    BY <1>4, <1>5, <1>7, <2>1, <2>2
  <2>4. CASE i = 1
    BY <2>1, <2>3, <2>4
  <2>5. CASE i # 1
    <3>1. i - 1 \in DOMAIN objects /\ j - 1 \in DOMAIN objects
      BY <2>1, <2>3, <2>5
    <3>2. objects'[i] = objects[i - 1] /\ objects'[j] = objects[j - 1]
      BY <2>1, <2>3, <2>5
    <3>3. objects[i - 1] # o
      BY <1>3, <3>1, LiveFacts DEF Contains, Tree, TreeTyped
    <3>4. up[objects[i - 1]] = objects[j - 1]
      BY <1>7, <2>2, <3>2, <3>3
    <3>5. i - 1 < j - 1
      BY <3>1, <3>4 DEF Tree, Older
    <3> QED BY <2>1, <3>5
  <2> QED BY <2>4, <2>5
<1>13. NamedParent'
  <2> SUFFICES ASSUME NEW q \in Node, NEW r \in Node, up'[q] = r
               PROVE  name'[q].cid = name'[r].cid /\ name'[q].parent = name'[r].handle
    BY DEF NamedParent
  <2>1. CASE q = o
    BY <1>1, <1>5, <1>7, <2>1, NullFacts
  <2>2. CASE q # o
    <3>1. r # o /\ up[q] = r
      BY <1>4, <1>7, <2>2
    <3> QED BY <1>7, <2>2, <3>1 DEF Tree, NamedParent
  <2> QED BY <2>1, <2>2
<1>14. Packed'
  <2> SUFFICES ASSUME NEW q \in Node PROVE FromFront(kids'[q])
    BY DEF Packed
  <2>1. kids[q] \in Seq(Slots) /\ FromFront(kids[q])
    BY LinkFacts DEF Tree, Packed
  <2>2. CASE q = p
    BY <1>2, <2>1, <2>2, NullFacts, WithChildPacked DEF Tree, TreeTyped
  <2>3. CASE q # p
    BY <1>2, <2>1, <2>3 DEF Tree, TreeTyped
  <2> QED BY <2>2, <2>3
<1> QED BY <1>3, <1>6, <1>7, <1>10, <1>11, <1>12, <1>13, <1>14 DEF Tree, p

(* gpu_object_destroy keeps the tree: what hung on the object hangs on      *)
(* nothing.                                                                 *)
LEMMA DestroyKeepsTree ==
  ASSUME Tree, NEW o \in Live, Destroy(o)
  PROVE  /\ Tree' /\ Live' = Live \ {o}
         /\ \A q \in Node : q # o => name'[q] = name[q] /\ up'[q] = IF up[q] = o THEN NULL ELSE up[q]
         /\ \A q \in Node : q # o => kids'[q] = IF q = up[o] THEN WithoutChild(kids[q], o) ELSE kids[q]
<1>1. /\ name' = [name EXCEPT ![o] = NULL] /\ objects' = RemoveFirst(objects, o)
      /\ up' = [p \in Node |-> IF p = o \/ p \in ToSet(kids[o]) THEN NULL ELSE up[p]]
      /\ kids' = [p \in Node |-> IF p = o THEN << >>
                                 ELSE IF p = up[o] THEN WithoutChild(kids[p], o) ELSE kids[p]]
  BY DEF Destroy
<1>2. o \in Node /\ o # NULL /\ name[o] # NULL
  BY LiveFacts DEF Live
<1>3. Live' = Live \ {o}
  BY <1>1, <1>2 DEF Live, Tree, TreeTyped
<1>4. name'[o] = NULL /\ up'[o] = NULL /\ kids'[o] = << >>
  BY <1>1, <1>2 DEF Tree, TreeTyped
<1>5. ASSUME NEW q \in Node, q # o
      PROVE  name'[q] = name[q] /\ up'[q] = IF up[q] = o THEN NULL ELSE up[q]
  <2>1. q \in ToSet(kids[o]) <=> up[q] = o
    BY <1>2, LinkFacts
  <2> QED BY <1>1, <1>2, <1>5, <2>1 DEF Tree, TreeTyped
<1>6. \A q \in Node : q # o => kids'[q] = IF q = up[o] THEN WithoutChild(kids[q], o) ELSE kids[q]
  BY <1>1
<1>7. ASSUME NEW q \in Node
      PROVE  /\ kids'[q] \in Seq(Slots) /\ OneEach(kids'[q])
             /\ \A x \in Node : Contains(kids'[q], x) <=> (q # o /\ Contains(kids[q], x) /\ (q = up[o] => x # o))
  <2>1. kids[q] \in Seq(Slots) /\ OneEach(kids[q])
    BY LinkFacts
  <2>2. CASE q = o
    <3>1. << >> \in Seq(Slots) /\ OneEach(<< >>) /\ \A x \in Node : ~Contains(<< >>, x)
      BY DEF OneEach, Contains
    <3> QED BY <1>4, <2>2, <3>1
  <2>3. CASE q # o /\ q = up[o]
    <3>1. kids'[q] = WithoutChild(kids[q], o)
      BY <1>6, <2>3
    <3>2. /\ WithoutChild(kids[q], o) \in Seq(Slots) /\ OneEach(WithoutChild(kids[q], o))
          /\ \A x \in Node : Contains(WithoutChild(kids[q], o), x) <=> Contains(kids[q], x) /\ x # o
      BY <1>2, <2>1, WithoutChildFacts
    <3> QED BY <2>3, <3>1, <3>2
  <2>4. CASE q # o /\ q # up[o]
    BY <1>6, <2>1, <2>4
  <2> QED BY <2>2, <2>3, <2>4
<1>8. /\ objects' \in Seq(Node) /\ Distinct(objects')
      /\ \A x : Contains(objects', x) <=> Contains(objects, x) /\ x # o
  BY <1>1, LiveFacts, RemoveFirstDistinct DEF Tree, TreeTyped
<1>9. TreeTyped'
  <2>1. name' \in [Node -> Names \cup {NULL}] /\ up' \in [Node -> Node \cup {NULL}]
    BY <1>1 DEF Tree, TreeTyped
  <2>2. kids' \in [Node -> Seq(Slots)]
    <3>1. kids' = [q \in Node |-> kids'[q]]
      BY <1>1
    <3> QED BY <1>7, <3>1
  <2> QED BY <1>8, <2>1, <2>2 DEF TreeTyped, Slots
<1>10. LinksMutual'
  <2>1. ToSet(objects') = Live'
    <3>1. ASSUME NEW x PROVE x \in ToSet(objects') <=> Contains(objects', x)
      BY <1>8 DEF ToSet, Contains
    <3> QED BY <1>3, <1>8, <3>1, LiveFacts
  <2>2. \A i, j \in DOMAIN objects' : i # j => objects'[i] # objects'[j]
    BY <1>8 DEF Distinct
  <2>3. ASSUME NEW q \in Node, up'[q] # NULL PROVE {q, up'[q]} \subseteq Live'
    BY <1>3, <1>4, <1>5, <2>3, LiveFacts
  <2>4. ASSUME NEW q \in Node, NEW r \in Node PROVE Contains(kids'[r], q) <=> up'[q] = r
    <3>1. Contains(kids[r], q) <=> up[q] = r
      BY LinkFacts
    <3>2. r # NULL /\ up[o] # o
      BY <1>2, NullFacts, LinkFacts
    <3> QED BY <1>4, <1>5, <1>7, <3>1, <3>2
  <2>5. \A q \in Node : \A i, j \in DOMAIN kids'[q] : i # j /\ kids'[q][i] # NULL => kids'[q][i] # kids'[q][j]
    BY <1>7 DEF OneEach
  <2> QED BY <2>1, <2>2, <2>3, <2>4, <2>5 DEF LinksMutual
<1>11. Older'
  <2> SUFFICES ASSUME NEW i \in DOMAIN objects', NEW j \in DOMAIN objects', up'[objects'[i]] = objects'[j]
               PROVE  i < j
    BY DEF Older
  <2>1. objects \in Seq(Node) /\ Contains(objects, o)
    BY LiveFacts DEF Tree, TreeTyped
  <2>2. PICK k \in 1 .. Len(objects) :
          /\ Len(objects') = Len(objects) - 1
          /\ \A m \in 1 .. Len(objects) - 1 : objects'[m] = IF m < k THEN objects[m] ELSE objects[m + 1]
    <3>1. objects' = RemoveFirst(objects, o)
      BY <1>1
    <3>2. \E k \in 1 .. Len(objects) :
            /\ objects[k] = o /\ \A m \in 1 .. k - 1 : objects[m] # o
            /\ RemoveFirst(objects, o) \in Seq(Node) /\ Len(RemoveFirst(objects, o)) = Len(objects) - 1
            /\ \A m \in 1 .. Len(objects) - 1 :
                 RemoveFirst(objects, o)[m] = IF m < k THEN objects[m] ELSE objects[m + 1]
      <4>1. PICK s : s = objects
        OBVIOUS
      <4>2. s \in Seq(Node) /\ Contains(s, o)
        BY <2>1, <4>1
      <4>3. \E k \in 1 .. Len(s) :
              /\ s[k] = o /\ \A m \in 1 .. k - 1 : s[m] # o
              /\ RemoveFirst(s, o) \in Seq(Node) /\ Len(RemoveFirst(s, o)) = Len(s) - 1
              /\ \A m \in 1 .. Len(s) - 1 : RemoveFirst(s, o)[m] = IF m < k THEN s[m] ELSE s[m + 1]
        BY <4>2, RemoveFirstShape
      <4> QED BY <4>1, <4>3
    <3> QED BY <3>1, <3>2
  <2>3. DOMAIN objects' = 1 .. Len(objects) - 1 /\ Len(objects) \in Nat /\ DOMAIN objects = 1 .. Len(objects)
    BY <1>8, <2>1, <2>2
  <2> DEFINE I == IF i < k THEN i ELSE i + 1
             J == IF j < k THEN j ELSE j + 1
  <2>4. I \in DOMAIN objects /\ J \in DOMAIN objects /\ (I < J => i < j)
    BY <2>3
  <2>5. objects'[i] = objects[I] /\ objects'[j] = objects[J]
    BY <2>2, <2>3
  <2> HIDE DEF I, J
  <2>6. objects[I] \in Node /\ objects[J] \in Node /\ objects[J] # NULL
    BY <2>1, <2>4, NullFacts
  <2>7. objects[I] # o
    BY <1>4, <2>5, <2>6
  <2>8. up[objects[I]] = objects[J]
    BY <1>5, <2>5, <2>6, <2>7
  <2> QED BY <2>4, <2>8 DEF Tree, Older
<1>12. NamedParent'
  <2> SUFFICES ASSUME NEW q \in Node, NEW r \in Node, up'[q] = r
               PROVE  name'[q].cid = name'[r].cid /\ name'[q].parent = name'[r].handle
    BY DEF NamedParent
  <2>1. q # o /\ r # o /\ up[q] = r
    BY <1>4, <1>5, NullFacts
  <2> QED BY <1>5, <2>1 DEF Tree, NamedParent
<1>13. Packed'
  <2> SUFFICES ASSUME NEW q \in Node PROVE FromFront(kids'[q])
    BY DEF Packed
  <2>1. kids[q] \in Seq(Slots) /\ OneEach(kids[q]) /\ FromFront(kids[q])
    BY LinkFacts DEF Tree, Packed
  <2>2. CASE q = o
    BY <1>4, <2>2 DEF FromFront
  <2>3. CASE q # o /\ q = up[o]
    BY <1>2, <1>6, <2>1, <2>3, WithoutChildPacked
  <2>4. CASE q # o /\ q # up[o]
    BY <1>6, <2>1, <2>4
  <2> QED BY <2>2, <2>3, <2>4
<1> QED BY <1>3, <1>5, <1>6, <1>9, <1>10, <1>11, <1>12, <1>13 DEF Tree

(* A handler that leaves the list and the links alone keeps the tree. *)
LEMMA TreeUnchanged ==
  ASSUME Tree, UNCHANGED tree
  PROVE  Tree' /\ Live' = Live
<1>1. objects' = objects /\ name' = name /\ up' = up /\ kids' = kids
  BY DEF tree
<1>2. Live' = Live
  BY <1>1 DEF Live
<1>3. TreeTyped' /\ Older' /\ NamedParent' /\ Packed'
  BY <1>1 DEF Tree, TreeTyped, Older, NamedParent, Packed
<1>4. LinksMutual'
  BY <1>1, <1>2 DEF Tree, LinksMutual
<1> QED BY <1>2, <1>3, <1>4 DEF Tree

-----------------------------------------------------------------------------
(* The walks up the tree.                                                   *)

Top == Cardinality(Node)
Walk(u, x, a) == a[0] = x /\ \A i \in 1 .. Top : a[i] = IF a[i - 1] = NULL THEN NULL ELSE u[a[i - 1]]

LEMMA TopNumber == Top \in Nat /\ IsFiniteSet(Node)
BY TreeAssumption, FS_CardinalityType DEF Top

(* A walk goes from an object to its parent, and stays at the end. *)
LEMMA AboveWalks ==
  ASSUME NEW u \in [Node -> Slots], NEW x \in Node
  PROVE  Above(u, x) \in [0 .. Top -> Slots] /\ Walk(u, x, Above(u, x))
<1> DEFINE next(y) == IF y = NULL THEN NULL ELSE u[y]
           Short(k) == { a \in [0 .. k -> Slots] : a[0] = x /\ \A i \in 1 .. k : a[i] = next(a[i - 1]) }
           Missing  == { k \in Nat : Short(k) = {} }
<1>1. \A y \in Slots : next(y) \in Slots
  BY DEF Slots
<1>2. Missing = {}
  <2> SUFFICES ASSUME Missing # {} PROVE FALSE
    OBVIOUS
  <2>4. Missing \in SUBSET Nat /\ \A k \in Nat : k \notin Missing => Short(k) # {}
    OBVIOUS
  <2>1. PICK m \in Missing : \A k \in Missing : m <= k
    <3> HIDE DEF Missing
    <3> QED BY <2>4, LeastNumber
  <2>2. CASE m = 0
    <3>1. [i \in 0 .. 0 |-> x] \in Short(0)
      BY DEF Slots
    <3> QED BY <2>2, <3>1
  <2>3. CASE m # 0
    <3>1. m \in Nat /\ m - 1 \in Nat /\ m - 1 \notin Missing
      <4> HIDE DEF Missing, Short
      <4> QED BY <2>1, <2>3, <2>4
    <3>5. Short(m - 1) # {}
      <4> HIDE DEF Missing, Short
      <4> QED BY <2>4, <3>1
    <3>2. PICK a \in [0 .. m - 1 -> Slots] : a[0] = x /\ \A i \in 1 .. m - 1 : a[i] = next(a[i - 1])
      BY <3>5
    <3> HIDE DEF next
    <3> DEFINE b == [i \in 0 .. m |-> IF i = m THEN next(a[m - 1]) ELSE a[i]]
    <3>3. b \in [0 .. m -> Slots]
      BY <1>1, <3>1, <3>2
    <3>4. b[0] = x /\ \A i \in 1 .. m : b[i] = next(b[i - 1])
      BY <2>3, <3>1, <3>2
    <3> QED BY <2>1, <3>3, <3>4
  <2> QED BY <2>2, <2>3
<1>3. PICK a \in [0 .. Top -> Slots] : a[0] = x /\ \A i \in 1 .. Top : a[i] = next(a[i - 1])
  BY <1>2, TopNumber
<1> DEFINE Def(c) == c = [i \in 0 .. Top |-> IF i = 0 THEN x ELSE IF c[i - 1] = NULL THEN NULL ELSE u[c[i - 1]]]
<1>4. Def(a)
  <2>1. \A i \in 0 .. Top : a[i] = IF i = 0 THEN x ELSE IF a[i - 1] = NULL THEN NULL ELSE u[a[i - 1]]
    BY <1>3, TopNumber
  <2> QED BY <1>3, <2>1
<1>5. Above(u, x) = CHOOSE c : Def(c)
  BY DEF Above, Top
<1>6. Def(Above(u, x))
  <2> HIDE DEF Def
  <2> QED BY <1>4, <1>5, Zenon
<1>7. PICK c : c = Above(u, x)
  OBVIOUS
<1>8. c = [i \in 0 .. Top |-> IF i = 0 THEN x ELSE IF c[i - 1] = NULL THEN NULL ELSE u[c[i - 1]]]
  BY <1>6, <1>7
<1>9. c = a
  <2>0. DOMAIN c = 0 .. Top
    BY <1>8
  <2>1. c[0] = x /\ \A i \in 1 .. Top : c[i] = IF c[i - 1] = NULL THEN NULL ELSE u[c[i - 1]]
    BY <1>8, TopNumber
  <2> DEFINE Off == { i \in 0 .. Top : c[i] # a[i] }
  <2>2. Off = {}
    <3> SUFFICES ASSUME Off # {} PROVE FALSE
      OBVIOUS
    <3>0. Off \in SUBSET Nat
      BY TopNumber
    <3>1. PICK m \in Off : \A k \in Off : m <= k
      <4> HIDE DEF Off
      <4> QED BY <3>0, LeastNumber
    <3>2. m # 0
      BY <1>3, <2>1, <3>1
    <3>3. m \in 1 .. Top /\ m - 1 \in 0 .. Top /\ m - 1 \notin Off
      BY <3>1, <3>2, TopNumber
    <3>4. c[m] = a[m]
      BY <1>3, <2>1, <3>3
    <3> QED BY <3>1, <3>4
  <2>3. \A i \in 0 .. Top : c[i] = a[i]
    BY <2>2
  <2>4. c = [i \in 0 .. Top |-> c[i]] /\ a = [i \in 0 .. Top |-> a[i]]
    BY <1>3, <1>8
  <2> QED BY <2>3, <2>4
<1> QED BY <1>3, <1>7, <1>9 DEF Walk

(* Once at the end, a walk stays there. *)
LEMMA WalkEnds ==
  ASSUME NEW u, NEW x, NEW a, Walk(u, x, a), NEW k \in 0 .. Top, a[k] = NULL, NEW l \in k .. Top
  PROVE  a[l] = NULL
<1> DEFINE Off == { i \in k .. Top : a[i] # NULL }
<1>1. Off = {}
  <2> SUFFICES ASSUME Off # {} PROVE FALSE
    OBVIOUS
  <2>0. Off \in SUBSET Nat
    BY TopNumber
  <2>1. PICK m \in Off : \A i \in Off : m <= i
    <3> HIDE DEF Off
    <3> QED BY <2>0, LeastNumber
  <2>2. m \in 1 .. Top /\ m - 1 \in k .. Top /\ m - 1 \notin Off
    BY <2>1, TopNumber
  <2> QED BY <2>1, <2>2 DEF Walk
<1> QED BY <1>1

(* What Nearest finds: the first object of the class on the way. *)
Meets(n, a, class, k) == a[k] # NULL /\ n[a[k]].class = class
First(n, a, class, k) ==
  Meets(n, a, class, k) /\ \A i \in 0 .. Top : i < k => ~Meets(n, a, class, i)

Way(u, x, a) == a = Above(u, x)
Found(u, n, x, class, d) == d = Nearest(u, n, x, class)
FirstOrNone(n, a, class, d) ==
  /\ d = NULL \/ \E k \in 0 .. Top : First(n, a, class, k) /\ d = a[k]
  /\ \A k \in 0 .. Top : First(n, a, class, k) => d = a[k]

LEMMA NearestFound ==
  ASSUME NEW u \in [Node -> Slots], NEW n, NEW x \in Node, NEW class,
         NEW a, Way(u, x, a), NEW d, Found(u, n, x, class, d)
  PROVE  FirstOrNone(n, a, class, d)
<1> USE DEF FirstOrNone
<1>1. DOMAIN a = 0 .. Top /\ a = Above(u, x)
  BY AboveWalks DEF Way
<1> DEFINE hits == { i \in DOMAIN a : a[i] # NULL /\ n[a[i]].class = class }
<1>2. d = IF hits = {} THEN NULL ELSE a[Min(hits)]
  BY <1>1 DEF Found, Nearest
<1>3. hits \in SUBSET Nat
  BY <1>1, TopNumber
<1>4. CASE hits = {}
  BY <1>1, <1>2, <1>4 DEF First, Meets
<1>5. CASE hits # {}
  <2>1. PICK m : m = Min(hits)
    OBVIOUS
  <2>2. m \in hits /\ \A k \in hits : m <= k
    BY <1>3, <1>5, <2>1, MinLeast
  <2>5. m \in 0 .. Top /\ d = a[m]
    BY <1>1, <1>2, <1>5, <2>1, <2>2
  <2>6. ASSUME NEW i \in 0 .. Top, i < m PROVE i \notin hits
    <3> HIDE DEF hits
    <3> QED BY <2>2, <2>5, <2>6, TopNumber
  <2>3. m \in 0 .. Top /\ First(n, a, class, m) /\ d = a[m]
    BY <1>1, <2>2, <2>5, <2>6 DEF First, Meets
  <2>4. ASSUME NEW k \in 0 .. Top, First(n, a, class, k) PROVE k = m
    <3>1. ~(k < m) /\ ~(m < k)
      BY <2>3, <2>4 DEF First
    <3> QED BY <2>3, <3>1, TopNumber
  <2> QED BY <2>3, <2>4
<1> QED BY <1>4, <1>5

-----------------------------------------------------------------------------
(* nouveau's handlers, by what they do to the list.                         *)

(* What an ioctl that adds one object sees before and after. *)
LEMMA Added ==
  ASSUME Tree, NEW o \in Node, NEW n \in Names, Add(o, n)
  PROVE  /\ Live' = Live \cup {o} /\ name'[o] = n /\ up'[o] = Find(n.cid, n.parent)
         /\ \A q \in Live : q # o /\ name'[q] = name[q] /\ up'[q] = up[q]
BY AddKeepsTree, LiveFacts

(* A buffer or a notifier belongs to nothing but its channel. *)
LEMMA MemoryAdded ==
  ASSUME Tree, Channels, driver = "nouveau", todo = Nothing,
         NEW o \in Node, NEW n \in Names, Add(o, n),
         n.class = "memory", n.cid \in Channel, n.parent = n.cid, n.handle \in Grobj \cup Gem,
         UNCHANGED << driver, todo, open, left >>,
         shadowed \subseteq shadowed', n.handle = n.cid => n.cid \in shadowed'
  PROVE  Channels'
<1>1. /\ Live' = Live \cup {o} /\ name'[o] = n
      /\ \A q \in Live : q # o /\ name'[q] = name[q] /\ up'[q] = up[q]
  BY Added
<1>2. Kinds'
  BY <1>1 DEF Channels, Kinds
<1>3. Handler'
  BY DEF Channels, Handler, Nothing
<1>4. FifoThere' /\ DeviceThere'
  BY <1>1 DEF Channels, FifoThere, DeviceThere, Has, Making, Freeing, Ending
<1>5. FifoInUse' /\ OneFifo'
  BY <1>1 DEF Channels, FifoInUse, OneFifo, Making, Freeing
<1>6. EngineInUse' /\ LeftThere'
  BY <1>1 DEF Channels, EngineInUse, LeftThere, Freeing
<1>7. Alternate' /\ Position'
  BY DEF Alternate, Position, Freeing, Nothing
<1>8. Shadow'
  BY <1>1 DEF Channels, Shadow
<1>9. DeviceInUse' /\ OneDevice'
  BY <1>1 DEF Channels, DeviceInUse, OneDevice, Ending
<1> QED BY <1>2, <1>3, <1>4, <1>5, <1>6, <1>7, <1>8, <1>9 DEF Channels

(* What is neither a fifo nor has the name of a device can go. *)
LEMMA ObjectDestroyed ==
  ASSUME Tree, Channels, driver = "nouveau",
         NEW o \in Live, name[o].handle # FifoHandle, name[o].handle # name[o].cid, Destroy(o),
         UNCHANGED << driver, open, shadowed >>, left' = left \ {o},
         todo'.op = todo.op, todo'.cid = todo.cid, Position', Alternate'
  PROVE  Channels'
<1>1. /\ Live' = Live \ {o}
      /\ \A q \in Live' : q \in Live /\ name'[q] = name[q] /\ up'[q] = IF up[q] = o THEN NULL ELSE up[q]
  BY DestroyKeepsTree, LiveFacts
<1>2. Kinds'
  BY <1>1 DEF Channels, Kinds
<1>3. Handler'
  BY DEF Channels, Handler
<1>4. FifoThere' /\ DeviceThere'
  <2>1. ASSUME NEW c, NEW h \in {FifoHandle, c}, Has(c, h) PROVE Has(c, h)'
    BY <1>1, <2>1 DEF Has
  <2> QED BY <2>1 DEF Channels, FifoThere, DeviceThere, Making, Freeing, Ending
<1>5. FifoInUse' /\ OneFifo'
  BY <1>1 DEF Channels, FifoInUse, OneFifo, Making, Freeing
<1>6. EngineInUse'
  <2> SUFFICES ASSUME NEW q \in Live', name'[q].class = "engine", q \notin left'
               PROVE  up'[q] # NULL /\ (name'[q].cid \in open' \/ Freeing(name[q].cid)')
    BY DEF EngineInUse
  <2>1. q \in Live /\ name[q].class = "engine" /\ q \notin left
    BY <1>1
  <2>2. up[q] # NULL /\ (name[q].cid \in open \/ Freeing(name[q].cid))
    BY <2>1 DEF Channels, EngineInUse
  <2>3. name[q].parent = FifoHandle
    BY <2>1 DEF Channels, Kinds
  <2>4. up[q] # o
    BY <2>1, <2>3, LiveFacts DEF Tree, NamedParent
  <2> QED BY <1>1, <2>2, <2>4 DEF Freeing
<1>7. Shadow'
  BY <1>1 DEF Channels, Shadow
<1>8. DeviceInUse' /\ OneDevice'
  BY <1>1 DEF Channels, DeviceInUse, OneDevice, Ending
<1>9. LeftThere'
  BY <1>1 DEF Channels, LeftThere, Freeing
<1> QED BY <1>2, <1>3, <1>4, <1>5, <1>6, <1>7, <1>8, <1>9 DEF Channels

(* Handles tell a device, a fifo and the rest apart. *)
LEMMA HandleFacts ==
  /\ \A c \in Channel : c \notin Grobj /\ c # FifoHandle /\ c \in Int
  /\ FifoHandle \notin Grobj \cup Gem /\ FifoHandle \in Int
  /\ \A h \in Grobj \cup Gem : h \in Int
  /\ \A h \in Gem : h # 0
BY HandleAssumption

(* What has the handle of a fifo is one, and an engine hangs on one. *)
LEMMA KindFacts ==
  ASSUME Tree, Channels, driver = "nouveau", NEW o \in Live
  PROVE  /\ name[o].handle = FifoHandle <=> name[o].class = "fifo"
         /\ name[o].handle = name[o].cid => name[o].class = "device" \/ name[o].cid \in shadowed
         /\ name[o].class = "device" => name[o].handle = name[o].cid
         /\ up[o] # NULL /\ name[o].parent = FifoHandle => name[up[o]].class = "fifo"
         /\ name[o].class = "engine" <=> name[o].parent = FifoHandle
<1>1. ASSUME NEW q \in Live
      PROVE  /\ name[q].handle = FifoHandle <=> name[q].class = "fifo"
             /\ name[q].handle = name[q].cid => name[q].class = "device" \/ name[q].cid \in shadowed
             /\ name[q].class = "device" => name[q].handle = name[q].cid
             /\ name[q].class = "engine" <=> name[q].parent = FifoHandle
  BY HandleFacts DEF Channels, Kinds, Shadow
<1>2. ASSUME up[o] # NULL, name[o].parent = FifoHandle PROVE name[up[o]].class = "fifo"
  <2>1. o \in Node /\ up[o] \in Live /\ up[o] \in Node
    BY <1>2, LiveFacts
  <2>2. name[up[o]].handle = FifoHandle
    BY <1>2, <2>1 DEF Tree, NamedParent
  <2> QED BY <1>1, <2>1, <2>2
<1> QED BY <1>1, <1>2

(* The fifo of a channel is found by its name, and there is no other. *)
LEMMA FifoFound ==
  ASSUME Tree, Channels, driver = "nouveau", NEW c \in Channel, Has(c, FifoHandle)
  PROVE  /\ Find(c, FifoHandle) \in Live
         /\ name[Find(c, FifoHandle)].class = "fifo"
         /\ name[Find(c, FifoHandle)].cid = c
         /\ name[Find(c, FifoHandle)].handle = FifoHandle
         /\ \A f \in Live : name[f].class = "fifo" /\ name[f].cid = c => f = Find(c, FifoHandle)
<1> DEFINE f == Find(c, FifoHandle)
<1>1. f \in Live /\ name[f].cid = c /\ name[f].handle = FifoHandle
  BY FindFacts
<1> HIDE DEF f
<1>2. name[f].class = "fifo"
  BY <1>1, KindFacts
<1>3. \A g \in Live : name[g].class = "fifo" /\ name[g].cid = c => g = f
  BY <1>1, <1>2 DEF Channels, OneFifo
<1> QED BY <1>1, <1>2, <1>3 DEF f

LEMMA FifosTyped ==
  ASSUME fifos \in [Node -> Int \cup {NULL}]
  PROVE  /\ \A dev : WithChipset(dev) \in [Node -> Int \cup {NULL}]
         /\ \A class, dev, n : n \in Int => Count(class, dev, n) \in [Node -> Int \cup {NULL}]
         /\ \A f \in [Node -> Int \cup {NULL}] : \A o : [f EXCEPT ![o] = NULL] \in [Node -> Int \cup {NULL}]
<1>1. ASSUME NEW dev PROVE WithChipset(dev) \in [Node -> Int \cup {NULL}]
  <2>1. CASE dev \in Node
    BY <2>1 DEF WithChipset
  <2>2. CASE dev \notin Node
    BY <2>2 DEF WithChipset
  <2> QED BY <2>1, <2>2
<1>2. ASSUME NEW class, NEW dev, NEW n, n \in Int PROVE Count(class, dev, n) \in [Node -> Int \cup {NULL}]
  <2>1. CASE dev \in Node /\ fifos[dev] # NULL
    <3>1. fifos[dev] + n \in Int
      BY <1>2, <2>1
    <3> QED BY <2>1, <3>1 DEF Count
  <2>2. CASE dev \notin Node
    BY <2>2 DEF Count
  <2>3. CASE dev \in Node /\ fifos[dev] = NULL
    BY <2>3 DEF Count
  <2> QED BY <2>1, <2>2, <2>3
<1> QED BY <1>1, <1>2

-----------------------------------------------------------------------------
(* nouveau's ioctls.                                                        *)

LEMMA ChannelAllocStep ==
  ASSUME IInv, NEW c \in Channel, ChannelAlloc(c)
  PROVE  IInv'
<1> USE DEF IInv
<1> DEFINE n == [cid |-> c, parent |-> c, handle |-> c, class |-> "device"]
<1>1. PICK o \in Node : Add(o, n) /\ fifos' = WithChipset(o)
  BY DEF ChannelAlloc
<1>2. /\ driver = "nouveau" /\ status = "running" /\ todo = Nothing /\ c \notin open
      /\ open' = open \cup {c} /\ todo' = [op |-> "fifo", cid |-> c, at |-> 0]
      /\ UNCHANGED << driver, option, notFound, miscount, status, left, shadowed >>
  BY DEF ChannelAlloc, Nouveau, Unchanged
<1>3. n \in Names /\ n.cid = c /\ n.parent = c /\ n.handle = c /\ n.class = "device"
  BY HandleFacts DEF Names, Class
<1> HIDE DEF n
<1>4. Tree'
  BY <1>1, <1>3, AddKeepsTree
<1>5. /\ Live' = Live \cup {o} /\ name'[o] = n
      /\ \A q \in Live : q # o /\ name'[q] = name[q] /\ up'[q] = up[q]
  BY <1>1, <1>3, Added
<1>6. TypeOK'
  <2>1. fifos' \in [Node -> Int \cup {NULL}]
    BY <1>1, FifosTyped DEF TypeOK
  <2>2. todo' \in Todo
    BY <1>2, HandleFacts DEF Todo
  <2> QED BY <1>2, <1>4, <2>1, <2>2 DEF TypeOK, Tree, TreeTyped
<1>7. Channels'
  <2>1. Kinds'
    BY <1>2, <1>3, <1>5 DEF Channels, Kinds
  <2>2. Handler'
    BY <1>2 DEF Handler
  <2>3. FifoThere'
    BY <1>2, <1>5 DEF Channels, FifoThere, Has, Making, Freeing, Nothing
  <2>4. DeviceThere'
    <3>1. Has(c, c)'
      BY <1>3, <1>5 DEF Has
    <3> QED BY <1>2, <1>5, <3>1 DEF Channels, DeviceThere, Has, Ending, Nothing
  <2>5. FifoInUse' /\ OneFifo'
    BY <1>2, <1>3, <1>5 DEF Channels, FifoInUse, OneFifo, Making, Freeing, Nothing
  <2>6. EngineInUse' /\ LeftThere'
    BY <1>2, <1>3, <1>5 DEF Channels, EngineInUse, LeftThere, Freeing, Nothing
  <2>7. Alternate' /\ Position'
    BY <1>2 DEF Alternate, Position, Freeing
  <2>8. Shadow'
    BY <1>2, <1>3, <1>5 DEF Channels, Shadow
  <2>9. DeviceInUse' /\ OneDevice'
    BY <1>2, <1>3, <1>5 DEF Channels, DeviceInUse, OneDevice, Ending, Nothing
  <2> QED BY <2>1, <2>2, <2>3, <2>4, <2>5, <2>6, <2>7, <2>8, <2>9 DEF Channels
<1> QED BY <1>4, <1>6, <1>7

LEMMA ChannelFifoStep ==
  ASSUME IInv, ChannelFifo
  PROVE  IInv'
<1> USE DEF IInv
<1>0. PICK c : c = todo.cid
  OBVIOUS
<1> DEFINE n == [cid |-> c, parent |-> c, handle |-> FifoHandle, class |-> "fifo"]
<1>1. PICK o \in Node : Add(o, n)
  BY <1>0 DEF ChannelFifo
<1>2. /\ driver = "nouveau" /\ status = "running" /\ todo.op = "fifo" /\ todo' = Nothing
      /\ UNCHANGED << driver, option, notFound, miscount, fifos, status, open, left, shadowed >>
  BY DEF ChannelFifo, Nouveau, Unchanged
<1>3. c \in open /\ c \in Channel
  BY <1>0, <1>2 DEF Channels, Handler, TypeOK
<1>4. n \in Names /\ n.cid = c /\ n.parent = c /\ n.handle = FifoHandle /\ n.class = "fifo"
  BY <1>3, HandleFacts DEF Names, Class
<1> HIDE DEF n
<1>5. Tree'
  BY <1>1, <1>4, AddKeepsTree
<1>6. /\ Live' = Live \cup {o} /\ name'[o] = n
      /\ \A q \in Live : q # o /\ name'[q] = name[q] /\ up'[q] = up[q]
  BY <1>1, <1>4, Added
<1>7. TypeOK'
  BY <1>2, <1>5 DEF TypeOK, Tree, TreeTyped, Todo, Nothing
<1>8. Channels'
  <2>1. Kinds'
    BY <1>2, <1>3, <1>4, <1>6 DEF Channels, Kinds
  <2>2. Handler'
    BY <1>2 DEF Handler, Nothing
  <2>3. FifoThere'
    <3>1. Has(c, FifoHandle)'
      BY <1>4, <1>6 DEF Has
    <3> QED BY <1>0, <1>2, <1>6, <3>1 DEF Channels, FifoThere, Has, Making, Freeing, Nothing
  <2>4. DeviceThere'
    BY <1>2, <1>6 DEF Channels, DeviceThere, Has, Ending, Nothing
  <2>5. FifoInUse' /\ OneFifo'
    BY <1>0, <1>2, <1>3, <1>4, <1>6 DEF Channels, FifoInUse, OneFifo, Making, Freeing, Nothing
  <2>6. EngineInUse' /\ LeftThere'
    BY <1>2, <1>4, <1>6 DEF Channels, EngineInUse, LeftThere, Freeing, Nothing
  <2>7. Alternate' /\ Position'
    BY <1>2 DEF Alternate, Position, Freeing, Nothing
  <2>8. Shadow'
    BY <1>2, <1>4, <1>6 DEF Channels, Shadow
  <2>9. DeviceInUse' /\ OneDevice'
    BY <1>2, <1>4, <1>6 DEF Channels, DeviceInUse, OneDevice, Ending, Nothing
  <2> QED BY <2>1, <2>2, <2>3, <2>4, <2>5, <2>6, <2>7, <2>8, <2>9 DEF Channels
<1> QED BY <1>5, <1>7, <1>8

LEMMA GrobjAllocStep ==
  ASSUME IInv, NEW c \in Channel, NEW h \in Grobj, GrobjAlloc(c, h)
  PROVE  IInv'
<1> USE DEF IInv
<1> DEFINE n == [cid |-> c, parent |-> FifoHandle, handle |-> h, class |-> "engine"]
<1>1. PICK o \in Node : Add(o, n)
  BY DEF GrobjAlloc
<1>2. /\ driver = "nouveau" /\ status = "running" /\ todo = Nothing /\ c \in open
      /\ UNCHANGED << driver, option, notFound, miscount, fifos, todo, status, open, left, shadowed >>
  BY DEF GrobjAlloc, Nouveau, Unchanged
<1>3. n \in Names /\ n.cid = c /\ n.parent = FifoHandle /\ n.handle = h /\ n.class = "engine"
  BY HandleFacts DEF Names, Class
<1> HIDE DEF n
<1>4. Tree'
  BY <1>1, <1>3, AddKeepsTree
<1>5. /\ Live' = Live \cup {o} /\ name'[o] = n /\ up'[o] = Find(c, FifoHandle)
      /\ \A q \in Live : q # o /\ name'[q] = name[q] /\ up'[q] = up[q]
  BY <1>1, <1>3, Added
<1>6. TypeOK'
  BY <1>2, <1>4 DEF TypeOK, Tree, TreeTyped
<1>7. Find(c, FifoHandle) # NULL
  <2>1. Has(c, FifoHandle)
    BY <1>2 DEF Channels, FifoThere, Making, Nothing
  <2> QED BY <2>1, FindFacts
<1>8. Channels'
  <2>1. Kinds'
    BY <1>2, <1>3, <1>5 DEF Channels, Kinds
  <2>2. Handler'
    BY <1>2 DEF Handler, Nothing
  <2>3. FifoThere' /\ DeviceThere'
    BY <1>2, <1>5 DEF Channels, FifoThere, DeviceThere, Has, Making, Freeing, Ending
  <2>4. FifoInUse' /\ OneFifo'
    BY <1>2, <1>3, <1>5 DEF Channels, FifoInUse, OneFifo, Making, Freeing
  <2>5. EngineInUse' /\ LeftThere'
    BY <1>2, <1>3, <1>5, <1>7 DEF Channels, EngineInUse, LeftThere, Freeing
  <2>6. Alternate' /\ Position'
    BY <1>2 DEF Alternate, Position, Freeing, Nothing
  <2>7. Shadow'
    BY <1>2, <1>3, <1>5 DEF Channels, Shadow
  <2>8. DeviceInUse' /\ OneDevice'
    BY <1>2, <1>3, <1>5 DEF Channels, DeviceInUse, OneDevice, Ending
  <2> QED BY <2>1, <2>2, <2>3, <2>4, <2>5, <2>6, <2>7, <2>8 DEF Channels
<1> QED BY <1>4, <1>6, <1>8

LEMMA ChannelFreeStep ==
  ASSUME IInv, NEW c \in Channel, ChannelFree(c)
  PROVE  IInv'
<1> USE DEF IInv
<1> DEFINE f == Find(c, FifoHandle)
<1>1. /\ driver = "nouveau" /\ status = "running" /\ todo = Nothing /\ c \in open
      /\ open' = open \ {c} /\ todo' = [op |-> "children", cid |-> c, at |-> 1]
      /\ left' = left \cup EverySecond(f) \cup { o \in Live : name[o].cid = c /\ name[o].class = "memory" }
      /\ UNCHANGED << driver, option, notFound, miscount, tree, fifos, status, shadowed >>
  BY DEF ChannelFree, PassedOver, Nouveau, Unchanged
<1>2. Tree' /\ Live' = Live
  BY <1>1, TreeUnchanged
<1>3. UNCHANGED << objects, name, up, kids >>
  BY <1>1 DEF tree
<1>5. /\ f \in Live /\ name[f].class = "fifo" /\ name[f].cid = c
      /\ \A g \in Live : name[g].class = "fifo" /\ name[g].cid = c => g = f
  <2>1. Has(c, FifoHandle)
    BY <1>1 DEF Channels, FifoThere, Making, Nothing
  <2> QED BY <1>1, <2>1, FifoFound
<1> HIDE DEF f
(* The children are engines of the channel, and none was passed over yet. *)
<1>6. /\ f \in Node /\ kids[f] \in Seq(Slots) /\ OneEach(kids[f])
      /\ \A i \in DOMAIN kids[f] : kids[f][i] # NULL =>
           /\ kids[f][i] \in Live /\ name[kids[f][i]].class = "engine" /\ name[kids[f][i]].cid = c
           /\ kids[f][i] \notin left
  <2>1. f \in Node /\ kids[f] \in Seq(Slots) /\ OneEach(kids[f])
    BY <1>5, LiveFacts, LinkFacts
  <2>2. ASSUME NEW i \in DOMAIN kids[f], kids[f][i] # NULL
        PROVE  /\ kids[f][i] \in Live /\ name[kids[f][i]].class = "engine" /\ name[kids[f][i]].cid = c
               /\ kids[f][i] \notin left
    <3>1. PICK o \in Node : o = kids[f][i]
      BY <2>1, <2>2 DEF Slots
    <3>2. up[o] = f /\ o \in Live
      BY <2>1, <3>1, LinkFacts, LiveFacts, NullFacts DEF Contains
    <3>3. name[o].cid = c /\ name[o].parent = FifoHandle
      BY <1>1, <1>5, <2>1, <3>2, KindFacts DEF Tree, NamedParent
    <3>4. name[o].class = "engine"
      BY <1>1, <3>2, <3>3, KindFacts
    <3>5. o \notin left
      BY <1>1, <2>1, <3>2, <3>4, NullFacts DEF Channels, LeftThere, Freeing, Nothing
    <3> QED BY <3>1, <3>2, <3>3, <3>4, <3>5
  <2> QED BY <2>1, <2>2
<1>7. LeftThere'
  <2> SUFFICES ASSUME NEW o \in left'
               PROVE  /\ o \in Live
                      /\ \/ name[o].class = "memory"
                         \/ name[o].class = "engine" /\ (up[o] = NULL \/ Freeing(name[o].cid)')
    BY <1>2, <1>3 DEF LeftThere
  <2>1. CASE o \in left
    BY <1>1, <2>1 DEF Channels, LeftThere, Freeing, Nothing
  <2>2. CASE o \in EverySecond(f)
    <3>1. PICK i \in DOMAIN kids[f] : kids[f][i] # NULL /\ o = kids[f][i]
      BY <2>2 DEF EverySecond
    <3>2. o \in Live /\ name[o].class = "engine" /\ name'[o].cid = c
      BY <1>3, <1>6, <3>1
    <3> QED BY <1>1, <3>2 DEF Freeing
  <2>3. CASE o \in Live /\ name[o].class = "memory"
    BY <2>3
  <2> QED BY <1>1, <2>1, <2>2, <2>3
<1>8. Alternate'
  <2> SUFFICES ASSUME NEW g \in Live, name[g].class = "fifo", name[g].cid = c,
                      NEW i \in DOMAIN kids[g], kids[g][i] # NULL
               PROVE  kids[g][i] \in left' <=> i < 1 \/ (i - 1) % 2 = 1
    BY <1>1, <1>2, <1>3 DEF Alternate, Freeing
  <2>1. g = f
    BY <1>5
  <2>2. kids[f][i] \notin left /\ name[kids[f][i]].class = "engine"
    BY <1>6, <2>1
  <2>3. kids[f][i] \in EverySecond(f) <=> i % 2 = 0
    BY <1>6, <2>1 DEF EverySecond, OneEach
  <2>4. i \in Nat /\ i >= 1
    BY <1>6, <2>1
  <2>5. i % 2 = 0 <=> (i - 1) % 2 = 1
    BY <2>4
  <2> QED BY <1>1, <2>1, <2>2, <2>3, <2>4, <2>5
<1>9. TypeOK'
  <2>1. todo' \in Todo
    BY <1>1, HandleFacts DEF Todo
  <2>2. left' \subseteq Node
    BY <1>1, <1>7, <1>2, <1>3, LiveFacts DEF LeftThere
  <2> QED BY <1>1, <1>2, <2>1, <2>2 DEF TypeOK, Tree, TreeTyped
<1>10. Channels'
  <2>1. Kinds'
    BY <1>1, <1>2, <1>3 DEF Channels, Kinds
  <2>2. Handler' /\ Position'
    BY <1>1 DEF Handler, Position
  <2>3. FifoThere' /\ DeviceThere'
    BY <1>1, <1>2, <1>3 DEF Channels, FifoThere, DeviceThere, Has, Making, Freeing, Ending, Nothing
  <2>4. FifoInUse' /\ OneFifo'
    BY <1>1, <1>2, <1>3 DEF Channels, FifoInUse, OneFifo, Making, Freeing, Nothing
  <2>5. EngineInUse'
    BY <1>1, <1>2, <1>3 DEF Channels, EngineInUse, Freeing, Nothing
  <2>6. Shadow'
    BY <1>1, <1>2, <1>3 DEF Channels, Shadow
  <2>7. DeviceInUse' /\ OneDevice'
    BY <1>1, <1>2, <1>3 DEF Channels, DeviceInUse, OneDevice, Ending, Nothing
  <2> QED BY <2>1, <2>2, <2>3, <2>4, <2>5, <2>6, <2>7, <1>7, <1>8 DEF Channels
<1> QED BY <1>2, <1>9, <1>10

LEMMA FreeChildStep ==
  ASSUME IInv, FreeChild
  PROVE  IInv'
<1> USE DEF IInv
<1>1. PICK c, f, i : c = todo.cid /\ f = Find(c, FifoHandle) /\ i = todo.at
  OBVIOUS
<1>2. /\ driver = "nouveau" /\ status = "running" /\ todo.op = "children" /\ i <= Len(kids[f])
      /\ IF kids[f][i] # NULL THEN Destroy(kids[f][i]) ELSE UNCHANGED tree
      /\ todo' = [todo EXCEPT !.at = i + 1]
      /\ UNCHANGED << driver, option, notFound, miscount, fifos, status, open, left, shadowed >>
  BY <1>1 DEF FreeChild, Nouveau, Unchanged
<1>3. c \in Channel /\ i \in Nat /\ i >= 1 /\ Freeing(c)
  BY <1>1, <1>2 DEF Channels, Handler, Position, Freeing, TypeOK, Todo
<1>4. /\ f \in Live /\ name[f].class = "fifo" /\ name[f].cid = c /\ name[f].handle = FifoHandle
      /\ \A g \in Live : name[g].class = "fifo" /\ name[g].cid = c => g = f
  <2>1. Has(c, FifoHandle)
    BY <1>2, <1>3 DEF Channels, FifoThere
  <2> QED BY <1>1, <1>2, <1>3, <2>1, FifoFound
<1>5. f \in Node /\ kids[f] \in Seq(Slots) /\ OneEach(kids[f]) /\ i \in DOMAIN kids[f]
  BY <1>2, <1>3, <1>4, LiveFacts, LinkFacts
<1>6. /\ todo'.op = "children" /\ todo'.cid = c /\ todo'.at = i + 1 /\ todo' \in Todo
      /\ todo'.op = todo.op /\ todo'.cid = todo.cid
  <2>1. todo \in Todo
    BY DEF TypeOK
  <2> QED BY <1>1, <1>2, <1>3, <2>1 DEF Todo
<1>7. Position'
  BY <1>3, <1>6 DEF Position
<1>8. \A j \in DOMAIN kids[f] : kids[f][j] # NULL =>
        (kids[f][j] \in left <=> j < i \/ (j - i) % 2 = 1)
  BY <1>1, <1>2, <1>3, <1>4 DEF Channels, Alternate
<1>9. CASE kids[f][i] # NULL
  <2>1. PICK o : o = kids[f][i]
    OBVIOUS
  <2>2. Destroy(o) /\ o \in Node /\ Contains(kids[f], o)
    BY <1>2, <1>5, <1>9, <2>1 DEF Slots, Contains
  <2>3. up[o] = f /\ o \in Live
    BY <1>5, <2>2, LinkFacts, LiveFacts, NullFacts
  <2>4. name[o].parent = FifoHandle /\ o # f
    BY <1>4, <1>5, <2>2, <2>3, LinkFacts DEF Tree, NamedParent
  <2>5. name[o].class = "engine"
    BY <1>2, <2>3, <2>4, KindFacts
  <2>6. name[o].handle # FifoHandle /\ name[o].handle # name[o].cid
    BY <1>2, <2>3, <2>5, HandleFacts DEF Channels, Kinds
  <2>7. /\ Tree' /\ Live' = Live \ {o} /\ kids'[f] = WithoutChild(kids[f], o)
        /\ \A q \in Node : q # o => name'[q] = name[q]
    BY <1>5, <2>2, <2>3, <2>4, DestroyKeepsTree
  <2>8. o \notin left
    <3>1. i - i = 0 /\ 0 % 2 = 0
      BY <1>3
    <3> QED BY <1>3, <1>5, <1>8, <1>9, <2>1, <3>1
  <2>9. Alternate'
    <3> SUFFICES ASSUME NEW g \in Live', name'[g].class = "fifo", name'[g].cid = c,
                        NEW j \in DOMAIN kids'[g], kids'[g][j] # NULL
                 PROVE  kids'[g][j] \in left <=> j < i + 1 \/ (j - (i + 1)) % 2 = 1
      BY <1>2, <1>6 DEF Alternate, Freeing
    <3>1. g = f
      BY <1>4, <2>7, LiveFacts
    <3>2. kids'[f] = [m \in DOMAIN kids[f] |->
                        IF m < i THEN kids[f][m] ELSE IF m < Len(kids[f]) THEN kids[f][m + 1] ELSE NULL]
      <4>1. PICK a \in Seq(Slots) : a = kids[f]
        BY <1>5
      <4>2. i \in 1 .. Len(a) /\ a[i] = o /\ OneEach(a) /\ kids'[f] = WithoutChild(a, o)
        BY <1>5, <2>1, <2>7, <4>1
      <4>3. WithoutChild(a, o) = [m \in DOMAIN a |->
              IF m < i THEN a[m] ELSE IF m < Len(a) THEN a[m + 1] ELSE NULL]
        BY <2>2, <4>2, WithoutChildShape
      <4> QED BY <4>1, <4>2, <4>3
    <3>3. j \in DOMAIN kids[f] /\ j \in Nat /\ j >= 1
      BY <1>5, <3>1, <3>2
    <3>4. CASE j < i
      BY <1>3, <1>8, <3>1, <3>2, <3>3, <3>4
    <3>5. CASE ~(j < i)
      <4>1. j + 1 \in DOMAIN kids[f] /\ kids'[f][j] = kids[f][j + 1]
        BY <1>5, <3>1, <3>2, <3>3, <3>5
      <4>2. kids[f][j + 1] \in left <=> ((j + 1) - i) % 2 = 1
        BY <1>3, <1>8, <3>1, <3>3, <3>5, <4>1
      <4>3. ((j + 1) - i) % 2 = 1 <=> j < i + 1 \/ (j - (i + 1)) % 2 = 1
        BY <1>3, <3>3, <3>5
      <4> QED BY <3>1, <4>1, <4>2, <4>3
    <3> QED BY <3>4, <3>5
  <2>10. Channels'
    BY <1>2, <1>6, <1>7, <2>2, <2>3, <2>6, <2>8, <2>9, ObjectDestroyed
  <2>11. TypeOK'
    BY <1>2, <1>6, <2>7 DEF TypeOK, Tree, TreeTyped
  <2> QED BY <2>7, <2>10, <2>11
<1>10. CASE kids[f][i] = NULL
  <2>1. Tree' /\ Live' = Live /\ UNCHANGED << objects, name, up, kids >>
    BY <1>2, <1>10, TreeUnchanged DEF tree
  <2>2. Alternate'
    <3> SUFFICES ASSUME NEW g \in Live, name[g].class = "fifo", name[g].cid = c,
                        NEW j \in DOMAIN kids[g], kids[g][j] # NULL
                 PROVE  kids[g][j] \in left <=> j < i + 1 \/ (j - (i + 1)) % 2 = 1
      BY <1>2, <1>6, <2>1 DEF Alternate, Freeing
    <3>1. g = f /\ FromFront(kids[f])
      BY <1>4, <1>5 DEF Tree, Packed
    <3>2. j < i
      BY <1>3, <1>5, <1>10, <3>1 DEF FromFront
    <3>3. j \in Nat /\ j < i + 1
      BY <1>3, <1>5, <3>1, <3>2
    <3> QED BY <1>8, <3>1, <3>2, <3>3
  <2>3. Kinds' /\ OneFifo' /\ Shadow' /\ OneDevice'
    BY <1>2, <2>1 DEF Channels, Kinds, OneFifo, Shadow, OneDevice
  <2>4. Handler'
    BY <1>2, <1>6 DEF Channels, Handler
  <2>5. FifoThere' /\ DeviceThere'
    BY <1>2, <1>6, <2>1 DEF Channels, FifoThere, DeviceThere, Has, Making, Freeing, Ending
  <2>6. FifoInUse' /\ EngineInUse' /\ LeftThere' /\ DeviceInUse'
    BY <1>2, <1>6, <2>1
    DEF Channels, FifoInUse, EngineInUse, LeftThere, DeviceInUse, Making, Freeing, Ending
  <2>7. TypeOK'
    BY <1>2, <1>6, <2>1 DEF TypeOK, Tree, TreeTyped
  <2> QED BY <1>7, <2>1, <2>2, <2>3, <2>4, <2>5, <2>6, <2>7 DEF Channels
<1> QED BY <1>9, <1>10

(* The loop is over: an engine that still hangs on the fifo was skipped. *)
LEMMA FreeFifoStep ==
  ASSUME IInv, FreeFifo
  PROVE  IInv'
<1> USE DEF IInv
<1>1. PICK c, f : c = todo.cid /\ f = Find(c, FifoHandle)
  OBVIOUS
<1>2. /\ driver = "nouveau" /\ status = "running" /\ todo.op = "children" /\ todo.at > Len(kids[f])
      /\ Destroy(f) /\ todo' = [todo EXCEPT !.op = "device"]
      /\ UNCHANGED << driver, option, notFound, miscount, fifos, status, open, left, shadowed >>
  BY <1>1 DEF FreeFifo, Nouveau, Unchanged
<1>3. c \in Channel /\ c \notin open /\ Freeing(c)
  BY <1>1, <1>2 DEF Channels, Handler, Freeing
<1>4. /\ f \in Live /\ name[f].class = "fifo" /\ name[f].cid = c /\ name[f].handle = FifoHandle
      /\ \A g \in Live : name[g].class = "fifo" /\ name[g].cid = c => g = f
  <2>1. Has(c, FifoHandle)
    BY <1>2, <1>3 DEF Channels, FifoThere
  <2> QED BY <1>1, <1>2, <1>3, <2>1, FifoFound
<1>5. /\ Tree' /\ Live' = Live \ {f}
      /\ \A q \in Live' : q \in Live /\ name'[q] = name[q] /\ up'[q] = IF up[q] = f THEN NULL ELSE up[q]
  BY <1>2, <1>4, DestroyKeepsTree, LiveFacts
<1>6. todo'.op = "device" /\ todo'.cid = c /\ todo' \in Todo
  <2>1. todo \in Todo
    BY DEF TypeOK
  <2> QED BY <1>1, <1>2, <2>1 DEF Todo
<1>7. TypeOK'
  BY <1>2, <1>5, <1>6 DEF TypeOK, Tree, TreeTyped
<1>8. EngineInUse'
  <2> SUFFICES ASSUME NEW q \in Live', name'[q].class = "engine", q \notin left'
               PROVE  up'[q] # NULL /\ name'[q].cid \in open'
    BY DEF EngineInUse
  <2>1. q \in Live /\ name[q].class = "engine" /\ q \notin left
    BY <1>2, <1>5
  <2>2. up[q] # NULL /\ (name[q].cid \in open \/ Freeing(name[q].cid))
    BY <1>2, <2>1 DEF Channels, EngineInUse
  <2>3. q \in Node /\ up[q] \in Live /\ up[q] \in Node
    BY <2>1, <2>2, LiveFacts
  <2>4. name[up[q]].cid = name[q].cid /\ name[up[q]].class = "fifo"
    BY <1>2, <2>1, <2>2, <2>3, KindFacts DEF Tree, NamedParent
  <2>5. CASE name[q].cid = c
    <3>1. up[q] = f
      BY <1>4, <2>3, <2>4, <2>5
    <3>2. kids[f] \in Seq(Slots) /\ Contains(kids[f], q)
      BY <2>3, <3>1, LinkFacts
    <3>3. PICK i \in DOMAIN kids[f] : kids[f][i] = q
      BY <3>2 DEF Contains
    <3>4. i < todo.at
      BY <1>2, <3>2, <3>3 DEF TypeOK, Todo
    <3> QED BY <1>2, <1>3, <1>4, <2>1, <2>3, <3>3, <3>4, NullFacts DEF Channels, Alternate
  <2>6. CASE name[q].cid # c
    BY <1>1, <1>2, <1>4, <1>5, <2>1, <2>2, <2>4, <2>6 DEF Freeing
  <2> QED BY <2>5, <2>6
<1>9. LeftThere'
  <2> SUFFICES ASSUME NEW q \in left
               PROVE  q \in Live' /\ (name[q].class = "memory" \/ (name[q].class = "engine" /\ up'[q] = NULL))
    BY <1>2, <1>5 DEF LeftThere
  <2>1. q \in Live /\ (name[q].class = "memory" \/ name[q].class = "engine")
    BY <1>2 DEF Channels, LeftThere
  <2>2. q \in Live'
    BY <1>4, <1>5, <2>1
  <2>3. ASSUME name[q].class = "engine", up[q] # NULL PROVE up[q] = f
    <3>1. name[q].cid = c
      BY <1>1, <1>2, <2>3 DEF Channels, LeftThere, Freeing
    <3>2. q \in Node /\ up[q] \in Live /\ up[q] \in Node
      BY <2>1, <2>3, LiveFacts
    <3>3. name[up[q]].cid = c /\ name[up[q]].class = "fifo"
      BY <1>2, <2>1, <2>3, <3>1, <3>2, KindFacts DEF Tree, NamedParent
    <3> QED BY <1>4, <3>2, <3>3
  <2> QED BY <1>5, <2>1, <2>2, <2>3
<1>10. Channels'
  <2>1. Kinds'
    BY <1>2, <1>5 DEF Channels, Kinds
  <2>2. Handler' /\ Position'
    BY <1>2, <1>3, <1>6 DEF Handler, Position
  <2>3. FifoThere'
    <3>1. ASSUME NEW d \in open PROVE Has(d, FifoHandle)'
      <4>1. Has(d, FifoHandle) /\ d # c
        BY <1>2, <1>3, <3>1 DEF Channels, FifoThere, Making, TypeOK
      <4> QED BY <1>4, <1>5, <4>1 DEF Has
    <3> QED BY <1>2, <1>6, <3>1 DEF FifoThere, Freeing
  <2>4. DeviceThere'
    <3>1. ASSUME NEW d \in Channel, Has(d, d) PROVE Has(d, d)'
      BY <1>4, <1>5, <3>1, HandleFacts DEF Has
    <3> QED BY <1>1, <1>2, <1>6, <3>1 DEF Channels, DeviceThere, Ending
  <2>5. FifoInUse'
    BY <1>1, <1>2, <1>4, <1>5, <1>6 DEF Channels, FifoInUse, Making, Freeing
  <2>6. OneFifo' /\ Shadow' /\ OneDevice'
    BY <1>2, <1>5 DEF Channels, OneFifo, Shadow, OneDevice
  <2>7. Alternate'
    BY <1>6 DEF Alternate, Freeing
  <2>8. DeviceInUse'
    BY <1>1, <1>2, <1>5, <1>6 DEF Channels, DeviceInUse, Ending
  <2> QED BY <1>8, <1>9, <2>1, <2>2, <2>3, <2>4, <2>5, <2>6, <2>7, <2>8 DEF Channels
<1> QED BY <1>5, <1>7, <1>10

LEMMA FreeDeviceStep ==
  ASSUME IInv, FreeDevice
  PROVE  IInv'
<1> USE DEF IInv
<1>1. PICK c, d : c = todo.cid /\ d = Find(c, c)
  OBVIOUS
<1>2. /\ driver = "nouveau" /\ status = "running" /\ todo.op = "device"
      /\ Destroy(d) /\ fifos' = [fifos EXCEPT ![d] = NULL] /\ todo' = Nothing
      /\ left' = left \ {d}
      /\ UNCHANGED << driver, option, notFound, miscount, status, open, shadowed >>
  BY <1>1 DEF FreeDevice, Nouveau, Unchanged
<1>3. c \in Channel /\ c \notin open /\ Ending(c)
  BY <1>1, <1>2 DEF Channels, Handler, Ending
<1>4. d \in Live /\ name[d].cid = c /\ name[d].handle = c
  <2>1. Has(c, c)
    BY <1>2, <1>3 DEF Channels, DeviceThere
  <2> QED BY <1>1, <2>1, FindFacts
<1>5. name[d].class = "device" \/ c \in shadowed
  BY <1>2, <1>4, KindFacts
<1>6. /\ Tree' /\ Live' = Live \ {d}
      /\ \A q \in Live' : q \in Live /\ name'[q] = name[q] /\ up'[q] = IF up[q] = d THEN NULL ELSE up[q]
  BY <1>2, <1>4, DestroyKeepsTree, LiveFacts
<1>7. TypeOK'
  <2>1. fifos' \in [Node -> Int \cup {NULL}]
    BY <1>2, FifosTyped DEF TypeOK
  <2>2. todo' \in Todo
    BY <1>2 DEF Todo, Nothing
  <2> QED BY <1>2, <1>6, <2>1, <2>2 DEF TypeOK, Tree, TreeTyped
<1>8. EngineInUse'
  <2> SUFFICES ASSUME NEW q \in Live', name'[q].class = "engine", q \notin left'
               PROVE  up'[q] # NULL /\ name'[q].cid \in open'
    BY DEF EngineInUse
  <2>1. q \in Live /\ name[q].class = "engine" /\ q \notin left
    BY <1>2, <1>6
  <2>2. up[q] # NULL /\ name[q].cid \in open
    BY <1>2, <2>1 DEF Channels, EngineInUse, Freeing
  <2>3. up[q] # d
    <3>1. q \in Node /\ name[q].parent = FifoHandle
      BY <1>2, <2>1, KindFacts, LiveFacts
    <3> QED BY <1>3, <1>4, <3>1, HandleFacts, LiveFacts DEF Tree, NamedParent
  <2> QED BY <1>2, <1>6, <2>2, <2>3
<1>9. LeftThere'
  BY <1>2, <1>6, LiveFacts DEF Channels, LeftThere, Freeing
<1>10. Channels'
  <2>1. Kinds'
    BY <1>2, <1>6 DEF Channels, Kinds
  <2>2. Handler' /\ Position' /\ Alternate'
    BY <1>2 DEF Handler, Position, Alternate, Freeing, Nothing
  <2>3. FifoThere' /\ DeviceThere'
    <3>1. ASSUME NEW b \in open PROVE Has(b, FifoHandle)' /\ Has(b, b)'
      <4>1. b \in Channel /\ b # c /\ Has(b, FifoHandle) /\ Has(b, b)
        BY <1>2, <1>3, <3>1 DEF Channels, FifoThere, DeviceThere, Making, TypeOK
      <4> QED BY <1>4, <1>6, <4>1 DEF Has
    <3> QED BY <1>2, <3>1 DEF FifoThere, DeviceThere, Freeing, Ending, Nothing
  <2>4. FifoInUse'
    BY <1>2, <1>6 DEF Channels, FifoInUse, Making, Freeing, Nothing
  <2>5. OneFifo' /\ Shadow' /\ OneDevice'
    BY <1>2, <1>6 DEF Channels, OneFifo, Shadow, OneDevice
  <2>6. DeviceInUse'
    <3> SUFFICES ASSUME NEW q \in Live', name'[q].class = "device", name'[q].cid \notin shadowed'
                 PROVE  name'[q].cid \in open'
      BY DEF DeviceInUse
    <3>1. /\ q \in Live /\ q # d /\ name[q].class = "device" /\ name[q].cid \notin shadowed
          /\ name'[q] = name[q]
      BY <1>2, <1>6
    <3>2. name[q].cid # c
      BY <1>2, <1>4, <1>5, <3>1 DEF Channels, OneDevice
    <3> QED BY <1>1, <1>2, <3>1, <3>2 DEF Channels, DeviceInUse, Ending
  <2> QED BY <1>8, <1>9, <2>1, <2>2, <2>3, <2>4, <2>5, <2>6 DEF Channels
<1> QED BY <1>6, <1>7, <1>10

(* Buffers and notifiers. *)
LEMMA MemoryAddedStep ==
  ASSUME IInv, driver = "nouveau", todo = Nothing, NEW n \in Names, NEW o \in Node, Add(o, n),
         n.class = "memory", n.cid \in Channel, n.parent = n.cid, n.handle \in Grobj \cup Gem,
         UNCHANGED << driver, option, notFound, miscount, fifos, todo, status, open, left >>,
         shadowed' = IF n.handle = n.cid THEN shadowed \cup {n.cid} ELSE shadowed
  PROVE  IInv'
<1> USE DEF IInv
<1>1. Tree'
  BY AddKeepsTree
<1>2. Channels'
  BY MemoryAdded
<1>3. TypeOK'
  BY <1>1 DEF TypeOK, Tree, TreeTyped
<1> QED BY <1>1, <1>2, <1>3

LEMMA MemoryStep ==
  ASSUME IInv,
         \/ \E c \in Channel, h \in Grobj : NotifierAlloc(c, h)
         \/ \E c \in Channel, h \in Gem : GemNew(c, h)
         \/ \E h \in Gem : GemInfo(h)
  PROVE  IInv'
<1> USE DEF IInv
<1>1. ASSUME NEW c \in Channel, NEW h \in Grobj, NotifierAlloc(c, h) PROVE IInv'
  <2> DEFINE n == [cid |-> c, parent |-> c, handle |-> h, class |-> "memory"]
  <2>1. PICK o \in Node : Add(o, n)
    BY <1>1 DEF NotifierAlloc
  <2>2. /\ driver = "nouveau" /\ todo = Nothing
        /\ UNCHANGED << driver, option, notFound, miscount, fifos, todo, status, open, left, shadowed >>
    BY <1>1 DEF NotifierAlloc, Nouveau, Unchanged
  <2>3. n \in Names /\ n.cid = c /\ n.parent = c /\ n.handle = h /\ n.class = "memory" /\ h # c
    BY HandleFacts DEF Names, Class
  <2> HIDE DEF n
  <2> QED BY <2>1, <2>2, <2>3, MemoryAddedStep
<1>2. ASSUME NEW c \in Channel, NEW h \in Gem, GemNew(c, h) PROVE IInv'
  <2> DEFINE n == [cid |-> c, parent |-> c, handle |-> h, class |-> "memory"]
  <2>1. PICK o \in Node : Add(o, n)
    BY <1>2 DEF GemNew
  <2>2. /\ driver = "nouveau" /\ todo = Nothing
        /\ shadowed' = IF h = c THEN shadowed \cup {c} ELSE shadowed
        /\ UNCHANGED << driver, option, notFound, miscount, fifos, todo, status, open, left >>
    BY <1>2 DEF GemNew, Nouveau, Unchanged
  <2>3. n \in Names /\ n.cid = c /\ n.parent = c /\ n.handle = h /\ n.class = "memory"
    BY HandleFacts DEF Names, Class
  <2> HIDE DEF n
  <2> QED BY <2>1, <2>2, <2>3, MemoryAddedStep
<1>3. ASSUME NEW h \in Gem, GemInfo(h) PROVE IInv'
  <2>1. /\ driver = "nouveau" /\ todo = Nothing
        /\ UNCHANGED << driver, option, notFound, miscount, fifos, todo, status, open, left >>
    BY <1>3 DEF GemInfo, Nouveau, Unchanged
  <2>2. PICK last \in DOMAIN objects :
          /\ name[objects[last]].class = "device"
          /\ \E o \in Node : Add(o, [cid |-> name[objects[last]].cid, parent |-> name[objects[last]].handle,
                                     handle |-> h, class |-> "memory"])
          /\ shadowed' = IF h = name[objects[last]].cid
                         THEN shadowed \cup {name[objects[last]].cid} ELSE shadowed
    BY <1>3 DEF GemInfo
  <2>3. PICK d, c : d = objects[last] /\ c = name[d].cid
    OBVIOUS
  <2>4. objects \in Seq(Node)
    BY DEF Tree, TreeTyped
  <2>5. d \in Live
    BY <2>3, <2>4, LiveFacts DEF Contains
  <2>6. c \in Channel /\ name[d].handle = c
    BY <2>1, <2>2, <2>3, <2>5, KindFacts DEF Channels, Kinds
  <2> DEFINE n == [cid |-> c, parent |-> c, handle |-> h, class |-> "memory"]
  <2>7. PICK o \in Node : Add(o, n)
    BY <2>2, <2>3, <2>6
  <2>8. n \in Names /\ n.cid = c /\ n.parent = c /\ n.handle = h /\ n.class = "memory"
    BY <2>6, HandleFacts DEF Names, Class
  <2>9. shadowed' = IF h = c THEN shadowed \cup {c} ELSE shadowed
    BY <2>2, <2>3
  <2> HIDE DEF n
  <2> QED BY <2>1, <2>6, <2>7, <2>8, <2>9, MemoryAddedStep
<1> QED BY <1>1, <1>2, <1>3

(* A buffer is closed, an object of a channel is freed. *)
LEMMA CloseStep ==
  ASSUME IInv,
         \/ \E h \in Gem : GemClose(h)
         \/ \E c \in Channel, h \in Grobj : GpuobjFree(c, h)
  PROVE  IInv'
<1> USE DEF IInv
<1> DEFINE Closed(o) ==
             /\ driver = "nouveau" /\ todo = Nothing /\ Destroy(o)
             /\ name[o].handle # FifoHandle /\ name[o].handle # name[o].cid
             /\ fifos' = fifos \/ fifos' = [fifos EXCEPT ![o] = NULL]
             /\ left' = left \ {o}
             /\ UNCHANGED << driver, option, notFound, miscount, todo, status, open, shadowed >>
<1>1. \E o \in Live : Closed(o)
  <2>1. ASSUME NEW h \in Gem, GemClose(h) PROVE \E o \in Live : Closed(o)
    <3>1. PICK o : o = Find(0, h)
      OBVIOUS
    <3>2. o \in Live /\ name[o].cid = 0 /\ name[o].handle = h
      BY <2>1, <3>1, FindFacts DEF GemClose
    <3>3. Closed(o)
      BY <2>1, <3>1, <3>2, HandleFacts DEF GemClose, Nouveau, Unchanged
    <3> QED BY <3>2, <3>3
  <2>2. ASSUME NEW c \in Channel, NEW h \in Grobj, GpuobjFree(c, h) PROVE \E o \in Live : Closed(o)
    <3>1. PICK o : o = Find(c, h)
      OBVIOUS
    <3>2. o \in Live /\ name[o].cid = c /\ name[o].handle = h
      BY <2>2, <3>1, FindFacts DEF GpuobjFree
    <3>3. Closed(o)
      BY <2>2, <3>1, <3>2, HandleFacts DEF GpuobjFree, Nouveau, Unchanged
    <3> QED BY <3>2, <3>3
  <2> QED BY <2>1, <2>2
<1>2. PICK o \in Live : Closed(o)
  BY <1>1
<1>3. Tree'
  BY <1>2, DestroyKeepsTree
<1>4. Alternate' /\ Position' /\ todo' = todo
  BY <1>2 DEF Alternate, Position, Freeing, Nothing
<1>5. Channels'
  BY <1>2, <1>4, ObjectDestroyed
<1>6. TypeOK'
  <2>1. fifos' \in [Node -> Int \cup {NULL}]
    BY <1>2, FifosTyped DEF TypeOK
  <2> QED BY <1>2, <1>3, <2>1 DEF TypeOK, Tree, TreeTyped
<1> QED BY <1>3, <1>5, <1>6

-----------------------------------------------------------------------------
(* nvrm's ioctls: whatever they do, it is on the tree.                      *)

LEMMA NvrmTyped ==
  ASSUME NEW n \in Nvrm
  PROVE  n \in Names /\ n.cid \in Int /\ n.handle \in Int
BY TreeAssumption DEF Names

LEMMA CheckCidStep ==
  ASSUME IInv, NEW n \in Nvrm, CheckCid(n.cid)
  PROVE  IInv'
<1> USE DEF IInv
<1> DEFINE m == [cid |-> n.cid, parent |-> n.cid, handle |-> n.cid, class |-> "root"]
<1>1. PICK o \in Node : Add(o, m)
  BY DEF CheckCid
<1>2. /\ driver = "nvrm" /\ notFound > 0 /\ notFound' = notFound - 1
      /\ todo' = [op |-> "checked", cid |-> n.cid, at |-> 0]
      /\ UNCHANGED << driver, option, fifos, status, open, miscount, left, shadowed >>
  BY DEF CheckCid, Running, history
<1>3. m \in Names
  BY NvrmTyped DEF Names, Class
<1> HIDE DEF m
<1>4. Tree'
  BY <1>1, <1>3, AddKeepsTree
<1>5. notFound' \in Nat /\ todo' \in Todo
  BY <1>2, NvrmTyped DEF TypeOK, Todo
<1>6. TypeOK'
  BY <1>2, <1>4, <1>5 DEF TypeOK, Tree, TreeTyped
<1> QED BY <1>2, <1>4, <1>6 DEF Channels

LEMMA CreateStep ==
  ASSUME IInv, NEW n \in Nvrm, Create(n)
  PROVE  IInv'
<1> USE DEF IInv
<1>1. PICK o \in Node :
        LET dev == Nearest(up', name', o, "device")
            counted == Count(n.class, dev, 1)
        IN  /\ Add(o, n)
            /\ miscount' = (miscount \/ (n.class = "fifo" /\ dev # NULL /\ fifos[dev] = NULL))
            /\ IF n.class = "memory" \/ ~NeedsChipset(o) \/ (dev # NULL /\ fifos[dev] # NULL)
               THEN fifos' = counted /\ UNCHANGED status
               ELSE IF ~option
               THEN fifos' = counted /\ status' = "aborted"
               ELSE IF dev = NULL
               THEN fifos' = counted /\ status' = "crashed"
               ELSE fifos' = WithChipset(dev) /\ UNCHANGED status
  BY DEF Create
<1>2. /\ driver = "nvrm" /\ todo' = Nothing
      /\ UNCHANGED << driver, option, notFound, open, left, shadowed >>
  BY DEF Create, Running
<1>3. Tree'
  BY <1>1, NvrmTyped, AddKeepsTree
<1>4. \E dev : fifos' = Count(n.class, dev, 1) \/ fifos' = WithChipset(dev)
  BY <1>1
<1>5. fifos' \in [Node -> Int \cup {NULL}]
  BY <1>4, FifosTyped DEF TypeOK
<1>6. status' \in {"running", "aborted", "crashed"} /\ miscount' \in BOOLEAN
  BY <1>1 DEF TypeOK
<1>7. todo' \in Todo
  BY <1>2 DEF Todo, Nothing
<1>8. TypeOK'
  BY <1>2, <1>3, <1>5, <1>6, <1>7 DEF TypeOK, Tree, TreeTyped
<1> QED BY <1>2, <1>3, <1>8 DEF Channels

LEMMA DestroyNvrmStep ==
  ASSUME IInv, NEW cid, NEW handle, DestroyNvrm(cid, handle)
  PROVE  IInv'
<1> USE DEF IInv
<1>1. PICK o : o = Find(cid, handle)
  OBVIOUS
<1>2. /\ driver = "nvrm" /\ todo' = Nothing
      /\ UNCHANGED << driver, option, notFound, status, open, left, shadowed >>
      /\ IF o = NULL
         THEN UNCHANGED << tree, fifos, miscount >>
         ELSE /\ Destroy(o)
              /\ fifos' = [Count(name[o].class, Device(o), -1) EXCEPT ![o] = NULL]
              /\ miscount' = (miscount \/ CutsOff(o))
  BY <1>1 DEF DestroyNvrm, Running
<1>3. Tree'
  <2>1. CASE o = NULL
    BY <1>2, <2>1, TreeUnchanged
  <2>2. CASE o # NULL
    <3>1. o \in Live
      BY <1>1, <2>2, FindFacts
    <3> QED BY <1>2, <2>2, <3>1, DestroyKeepsTree
  <2> QED BY <2>1, <2>2
<1>4. fifos' \in [Node -> Int \cup {NULL}]
  <2>1. CASE o = NULL
    BY <1>2, <2>1 DEF TypeOK
  <2>2. CASE o # NULL
    <3>1. Count(name[o].class, Device(o), -1) \in [Node -> Int \cup {NULL}]
      BY FifosTyped DEF TypeOK
    <3> QED BY <1>2, <2>2, <3>1, FifosTyped DEF TypeOK
  <2> QED BY <2>1, <2>2
<1>5. miscount' \in BOOLEAN
  BY <1>2 DEF TypeOK
<1>6. todo' \in Todo
  BY <1>2 DEF Todo, Nothing
<1>7. TypeOK'
  BY <1>2, <1>3, <1>4, <1>5, <1>6 DEF TypeOK, Tree, TreeTyped
<1> QED BY <1>2, <1>3, <1>7 DEF Channels

LEMMA NvrmStep ==
  ASSUME IInv, NvrmIoctl
  PROVE  IInv'
<1>1. ASSUME NEW n \in Nvrm, Create(n) PROVE IInv'
  BY <1>1, CreateStep
<1>2. ASSUME NEW c \in Cids, CheckCid(c) PROVE IInv'
  BY <1>2, CheckCidStep DEF Cids
<1>3. ASSUME NEW c \in Cids, NEW h \in Handles, DestroyNvrm(c, h) PROVE IInv'
  BY <1>3, DestroyNvrmStep
<1>4. ASSUME \/ CreateUnnamed
             \/ \E c \in Cids, h \in Handles : GetChipset(c, h) \/ ObjectInfo(c, h)
      PROVE  IInv'
  <2>1. /\ driver = "nvrm"
        /\ UNCHANGED << driver, option, tree, todo, open, miscount, left, shadowed >>
    BY <1>4 DEF CreateUnnamed, GetChipset, ObjectInfo, Running, history
  <2>2. Tree'
    BY <2>1, TreeUnchanged DEF IInv
  <2>3. fifos' \in [Node -> Int \cup {NULL}]
    BY <1>4, FifosTyped DEF CreateUnnamed, GetChipset, ObjectInfo, IInv, TypeOK
  <2>4. notFound' \in Nat
    BY <1>4 DEF CreateUnnamed, GetChipset, ObjectInfo, IInv, TypeOK
  <2>5. status' \in {"running", "aborted", "crashed"}
    BY <1>4 DEF CreateUnnamed, GetChipset, ObjectInfo, IInv, TypeOK
  <2>6. TypeOK'
    BY <2>1, <2>2, <2>3, <2>4, <2>5 DEF IInv, TypeOK, Tree, TreeTyped
  <2> QED BY <2>1, <2>2, <2>6 DEF IInv, Channels
<1> QED BY <1>1, <1>2, <1>3, <1>4 DEF NvrmIoctl

LEMMA DrmStep ==
  ASSUME IInv, DrmIoctl
  PROVE  IInv'
<1>1. ASSUME NEW c \in Channel, ChannelAlloc(c) \/ ChannelFree(c) PROVE IInv'
  BY <1>1, ChannelAllocStep, ChannelFreeStep
<1>2. ASSUME ChannelFifo \/ FreeChild \/ FreeFifo \/ FreeDevice PROVE IInv'
  BY <1>2, ChannelFifoStep, FreeChildStep, FreeFifoStep, FreeDeviceStep
<1>3. ASSUME NEW c \in Channel, NEW h \in Grobj, GrobjAlloc(c, h) \/ NotifierAlloc(c, h) \/ GpuobjFree(c, h)
      PROVE  IInv'
  BY <1>3, GrobjAllocStep, MemoryStep, CloseStep
<1>4. ASSUME NEW c \in Channel, NEW h \in Gem, GemNew(c, h) PROVE IInv'
  BY <1>4, MemoryStep
<1>5. ASSUME NEW h \in Gem, GemInfo(h) \/ GemClose(h) PROVE IInv'
  BY <1>5, MemoryStep, CloseStep
<1> QED BY <1>1, <1>2, <1>3, <1>4, <1>5 DEF DrmIoctl

-----------------------------------------------------------------------------
(* The count of the fifos.                                                  *)

FifosOf(d) == { o \in Live : name[o].class = "fifo" /\ Device(o) = d }

(* Only a device that is there has a count, and it is that of the fifos     *)
(* below it; before the chipset is known there are none.                    *)
Counts ==
  \A d \in Live : name[d].class = "device" =>
    Cardinality(FifosOf(d)) = IF fifos[d] = NULL THEN 0 ELSE fifos[d]

FInv ==
  driver = "nvrm" /\ status = "running" =>
    /\ \A d \in Node : fifos[d] # NULL => d \in Live /\ name[d].class = "device"
    /\ ~miscount => Counts

LEMMA FifosFinite ==
  ASSUME Tree, NEW d
  PROVE  IsFiniteSet(FifosOf(d)) /\ Cardinality(FifosOf(d)) \in Nat
<1>1. FifosOf(d) \subseteq Node
  BY LiveFacts DEF FifosOf
<1> QED BY <1>1, TopNumber, FS_Subset, FS_CardinalityType

(* The device of an object is one that is there. *)
DeviceIn(L, n, x, d) ==
  /\ d \in L \cup {NULL}
  /\ d # NULL => n[d].class = "device"
  /\ n[x].class = "device" => d = x

LEMMA NearestInside ==
  ASSUME NEW u \in [Node -> Slots], NEW n, NEW L \in SUBSET Node, NEW x \in L,
         \A q \in L : u[q] \in L \cup {NULL},
         NEW d, Found(u, n, x, "device", d)
  PROVE  DeviceIn(L, n, x, d)
<1>1. x \in Node /\ NULL \notin L
  BY NullFacts
<1>2. PICK a \in [0 .. Top -> Slots] : Way(u, x, a) /\ Walk(u, x, a)
  BY <1>1, AboveWalks DEF Way
<1> DEFINE Off == { i \in 0 .. Top : a[i] \notin L \cup {NULL} }
<1>3. Off = {}
  <2> SUFFICES ASSUME Off # {} PROVE FALSE
    OBVIOUS
  <2>0. Off \in SUBSET Nat
    BY TopNumber
  <2>1. PICK m \in Off : \A i \in Off : m <= i
    <3> HIDE DEF Off
    <3> QED BY <2>0, LeastNumber
  <2>2. m # 0
    BY <1>2, <2>1 DEF Walk
  <2>3. m \in 1 .. Top /\ m - 1 \in 0 .. Top /\ m - 1 \notin Off
    BY <2>1, <2>2, TopNumber
  <2>4. a[m] = NULL \/ (a[m - 1] \in L /\ a[m] = u[a[m - 1]])
    BY <1>2, <2>3 DEF Walk
  <2>5. a[m] \in L \cup {NULL}
    BY <2>4
  <2> QED BY <2>1, <2>5
<1>4. \A i \in 0 .. Top : a[i] \in L \cup {NULL}
  BY <1>3
<1>5. FirstOrNone(n, a, "device", d)
  BY <1>1, <1>2, NearestFound, Zenon
<1>6. n[x].class = "device" => First(n, a, "device", 0)
  BY <1>1, <1>2, TopNumber DEF First, Meets, Walk
<1>7. 0 \in 0 .. Top /\ a[0] = x
  BY <1>2, TopNumber DEF Walk
<1> QED BY <1>4, <1>5, <1>6, <1>7 DEF First, Meets, FirstOrNone, DeviceIn

LEMMA DeviceLive ==
  ASSUME Tree, NEW x \in Live
  PROVE  /\ Device(x) \in Live \cup {NULL}
         /\ Device(x) # NULL => name[Device(x)].class = "device"
         /\ name[x].class = "device" => Device(x) = x
<1>1. up \in [Node -> Slots] /\ Live \in SUBSET Node /\ \A q \in Live : up[q] \in Live \cup {NULL}
  BY LiveFacts DEF Tree, TreeTyped, Slots
<1> PICK d : Found(up, name, x, "device", d)
  BY DEF Found
<1>2. DeviceIn(Live, name, x, d)
  BY <1>1, NearestInside, Zenon
<1>3. Device(x) = d
  BY DEF Device, Found
<1> QED BY <1>2, <1>3 DEF DeviceIn

(* A new object is below nobody: the devices of the others stay. *)
LEMMA AddKeepsDevices ==
  ASSUME Tree, NEW o \in Node, NEW n \in Names, Add(o, n), NEW x \in Live
  PROVE  Device(x)' = Device(x)
<1>1. /\ Tree' /\ Live' = Live \cup {o}
      /\ \A q \in Live : q # o /\ name'[q] = name[q] /\ up'[q] = up[q]
  BY Added, AddKeepsTree
<1>2. up \in [Node -> Slots] /\ up' \in [Node -> Slots] /\ x \in Node
  BY <1>1, LiveFacts DEF Tree, TreeTyped, Slots
<1>3. PICK a \in [0 .. Top -> Slots] : Way(up, x, a) /\ Walk(up, x, a)
  BY <1>2, AboveWalks DEF Way
<1>4. PICK b \in [0 .. Top -> Slots] : Way(up', x, b) /\ Walk(up', x, b)
  BY <1>2, AboveWalks DEF Way
<1> DEFINE Off == { i \in 0 .. Top : b[i] # a[i] \/ a[i] \notin Live \cup {NULL} }
<1>5. Off = {}
  <2> SUFFICES ASSUME Off # {} PROVE FALSE
    OBVIOUS
  <2>0. Off \in SUBSET Nat
    BY TopNumber
  <2>1. PICK m \in Off : \A i \in Off : m <= i
    <3> HIDE DEF Off
    <3> QED BY <2>0, LeastNumber
  <2>2. m # 0
    BY <1>3, <1>4, <2>1 DEF Walk
  <2>3. m \in 1 .. Top /\ m - 1 \in 0 .. Top /\ m - 1 \notin Off
    BY <2>1, <2>2, TopNumber
  <2>4. b[m - 1] = a[m - 1] /\ a[m - 1] \in Live \cup {NULL}
    BY <2>3
  <2>5. /\ a[m] = IF a[m - 1] = NULL THEN NULL ELSE up[a[m - 1]]
        /\ b[m] = IF b[m - 1] = NULL THEN NULL ELSE up'[b[m - 1]]
    BY <1>3, <1>4, <2>3 DEF Walk
  <2>6. b[m] = a[m] /\ a[m] \in Live \cup {NULL}
    BY <1>1, <2>4, <2>5, LiveFacts
  <2> QED BY <2>1, <2>6
<1>6. \A i \in 0 .. Top : b[i] = a[i] /\ a[i] \in Live \cup {NULL}
  BY <1>5
<1>7. \A i \in 0 .. Top : Meets(name', b, "device", i) <=> Meets(name, a, "device", i)
  BY <1>1, <1>6 DEF Meets
<1>8. \A k \in 0 .. Top : First(name', b, "device", k) <=> First(name, a, "device", k)
  BY <1>7 DEF First
<1> PICK d, e : Found(up, name, x, "device", d) /\ Found(up', name', x, "device", e)
  BY DEF Found
<1>9. FirstOrNone(name, a, "device", d)
  BY <1>2, <1>3, NearestFound, Zenon
<1>10. FirstOrNone(name', b, "device", e)
  BY <1>2, <1>4, NearestFound, Zenon
<1>11. d = e
  BY <1>6, <1>8, <1>9, <1>10 DEF FirstOrNone
<1> QED BY <1>11 DEF Device, Found

LEMMA AddCounts ==
  ASSUME Tree, NEW o \in Node, NEW n \in Names, Add(o, n)
  PROVE  /\ \A d \in Live :
              FifosOf(d)' = IF n.class = "fifo" /\ Device(o)' = d THEN FifosOf(d) \cup {o} ELSE FifosOf(d)
         /\ n.class = "device" => FifosOf(o)' = {}
         /\ o \notin Live
         /\ Device(o)' \in Live' \cup {NULL} /\ (Device(o)' # NULL => name'[Device(o)'].class = "device")
<1>1. /\ Tree' /\ Live' = Live \cup {o} /\ name'[o] = n
      /\ \A q \in Live : q # o /\ name'[q] = name[q] /\ Device(q)' = Device(q)
  BY Added, AddKeepsTree, AddKeepsDevices
<1>2. Device(o)' \in Live' \cup {NULL} /\ (Device(o)' # NULL => name'[Device(o)'].class = "device")
  <2>1. up' \in [Node -> Slots] /\ Live' \in SUBSET Node /\ \A q \in Live' : up'[q] \in Live' \cup {NULL}
    <3>1. Live \subseteq Node /\ TreeTyped' /\ LinksMutual'
      BY <1>1, LiveFacts DEF Tree
    <3> QED BY <1>1, <3>1 DEF TreeTyped, LinksMutual, Slots
  <2> PICK d : Found(up', name', o, "device", d)
    BY DEF Found
  <2>2. o \in Live'
    BY <1>1
  <2>3. DeviceIn(Live', name', o, d)
    BY <2>1, <2>2, NearestInside, Zenon
  <2>4. Device(o)' = d
    BY DEF Device, Found
  <2> QED BY <2>3, <2>4 DEF DeviceIn
<1>3. \A d : FifosOf(d)' = { q \in Live' : name'[q].class = "fifo" /\ Device(q)' = d }
  BY DEF FifosOf
<1>4. ASSUME NEW d \in Live
      PROVE  FifosOf(d)' = IF n.class = "fifo" /\ Device(o)' = d THEN FifosOf(d) \cup {o} ELSE FifosOf(d)
  BY <1>1, <1>3 DEF FifosOf
<1>5. ASSUME n.class = "device" PROVE FifosOf(o)' = {}
  <2>1. \A q \in Live : Device(q) # o
    BY <1>1, DeviceLive, NullFacts
  <2> QED BY <1>1, <1>3, <1>5, <2>1
<1> QED BY <1>1, <1>2, <1>4, <1>5

(* An object that goes cuts the walks that went through it. *)
Cut(o, a, b) ==
  /\ \A i \in 0 .. Top : b[i] \in {a[i], NULL} /\ b[i] # o
  /\ \A i \in 0 .. Top : b[i] # a[i] => \E j \in 0 .. Top : j <= i /\ a[j] = o

LEMMA DestroyCutsWalks ==
  ASSUME Tree, NEW o \in Live, Destroy(o), NEW x \in Live, x # o,
         NEW a \in [0 .. Top -> Slots], Way(up, x, a),
         NEW b \in [0 .. Top -> Slots], Way(up', x, b)
  PROVE  Cut(o, a, b)
<1>1. /\ Tree' /\ o \in Node /\ o # NULL /\ x \in Node
      /\ \A q \in Node : q # o => up'[q] = IF up[q] = o THEN NULL ELSE up[q]
  BY DestroyKeepsTree, LiveFacts
<1>2. up \in [Node -> Slots] /\ up' \in [Node -> Slots]
  BY <1>1 DEF Tree, TreeTyped, Slots
<1>3. Walk(up, x, a) /\ Walk(up', x, b)
  BY <1>1, <1>2, AboveWalks DEF Way
<1> DEFINE Good(i) == /\ b[i] \in {a[i], NULL} /\ b[i] # o
                      /\ b[i] # a[i] => \E j \in 0 .. Top : j <= i /\ a[j] = o
           Off == { i \in 0 .. Top : ~Good(i) }
<1>4. Off = {}
  <2> SUFFICES ASSUME Off # {} PROVE FALSE
    OBVIOUS
  <2> HIDE DEF Good
  <2>0. Off \in SUBSET Nat
    BY TopNumber
  <2>1. PICK m \in Off : \A i \in Off : m <= i
    <3> HIDE DEF Off
    <3> QED BY <2>0, LeastNumber
  <2>2. m # 0
    BY <1>3, <2>1 DEF Walk, Good
  <2>3. m \in 1 .. Top /\ m - 1 \in 0 .. Top /\ m - 1 \notin Off
    BY <2>1, <2>2, TopNumber
  <2>4. Good(m - 1) /\ a[m - 1] \in Slots /\ b[m - 1] \in Slots /\ a[m] \in Slots
    BY <2>3, TopNumber
  <2>5. /\ a[m] = IF a[m - 1] = NULL THEN NULL ELSE up[a[m - 1]]
        /\ b[m] = IF b[m - 1] = NULL THEN NULL ELSE up'[b[m - 1]]
    BY <1>3, <2>3 DEF Walk
  <2>6. CASE b[m - 1] # a[m - 1]
    <3>1. b[m - 1] = NULL /\ b[m] = NULL
      BY <2>4, <2>5, <2>6 DEF Good
    <3>2. PICK j \in 0 .. Top : j <= m - 1 /\ a[j] = o
      BY <2>4, <2>6 DEF Good
    <3>3. j <= m
      BY <2>3, <3>2, TopNumber
    <3>4. Good(m)
      BY <1>1, <3>1, <3>2, <3>3 DEF Good
    <3> QED BY <2>1, <3>4
  <2>7. CASE b[m - 1] = a[m - 1] /\ a[m - 1] = NULL
    <3>1. Good(m)
      BY <1>1, <2>5, <2>7 DEF Good
    <3> QED BY <2>1, <3>1
  <2>8. CASE b[m - 1] = a[m - 1] /\ a[m - 1] # NULL
    <3>1. a[m - 1] \in Node /\ a[m - 1] # o
      BY <2>4, <2>8 DEF Slots, Good
    <3>2. a[m] = up[a[m - 1]] /\ b[m] = IF a[m] = o THEN NULL ELSE a[m]
      BY <1>1, <2>5, <2>8, <3>1
    <3>3. m \in 0 .. Top /\ m <= m
      BY <2>3, TopNumber
    <3>4. Good(m)
      BY <1>1, <3>2, <3>3 DEF Good
    <3> QED BY <2>1, <3>4
  <2> QED BY <2>6, <2>7, <2>8
<1>5. \A i \in 0 .. Top : Good(i)
  BY <1>4
<1> QED BY <1>5 DEF Cut

LEMMA DestroyKeepsDevices ==
  ASSUME Tree, NEW o \in Live, Destroy(o), ~CutsOff(o),
         NEW x \in Live, x # o, name[x].class = "fifo", NEW d \in Live, d # o
  PROVE  Device(x)' = d <=> Device(x) = d
<1>1. /\ Tree' /\ o \in Node /\ o # NULL /\ x \in Node /\ d # NULL /\ x \in Live'
      /\ \A q \in Node : q # o => name'[q] = name[q]
  BY DestroyKeepsTree, LiveFacts
<1>2. up \in [Node -> Slots] /\ up' \in [Node -> Slots]
  BY <1>1 DEF Tree, TreeTyped, Slots
<1>3. PICK a \in [0 .. Top -> Slots] : Way(up, x, a) /\ Walk(up, x, a)
  BY <1>1, <1>2, AboveWalks DEF Way
<1>4. PICK b \in [0 .. Top -> Slots] : Way(up', x, b) /\ Walk(up', x, b)
  BY <1>1, <1>2, AboveWalks DEF Way
<1>5. /\ \A i \in 0 .. Top : b[i] \in {a[i], NULL} /\ b[i] # o
      /\ \A i \in 0 .. Top : b[i] # a[i] => \E j \in 0 .. Top : j <= i /\ a[j] = o
  <2>1. Cut(o, a, b)
    BY <1>3, <1>4, DestroyCutsWalks, Zenon
  <2> QED BY <2>1 DEF Cut
<1> PICK before, after :
          Found(up, name, x, "device", before) /\ Found(up', name', x, "device", after)
  BY DEF Found
<1>11. Device(x) = before /\ Device(x)' = after
  BY DEF Device, Found
<1>6. FirstOrNone(name, a, "device", before)
  BY <1>1, <1>2, <1>3, NearestFound, Zenon
<1>7. FirstOrNone(name', b, "device", after)
  BY <1>1, <1>2, <1>4, NearestFound, Zenon
<1>8. \A i \in 0 .. Top : Meets(name', b, "device", i) <=> b[i] # NULL /\ Meets(name, a, "device", i)
  <2> SUFFICES ASSUME NEW i \in 0 .. Top
               PROVE  Meets(name', b, "device", i) <=> b[i] # NULL /\ Meets(name, a, "device", i)
    OBVIOUS
  <2>1. b[i] # NULL => b[i] = a[i] /\ b[i] \in Node /\ b[i] # o
    BY <1>5 DEF Slots
  <2> QED BY <1>1, <2>1 DEF Meets
<1>9. ASSUME after = d PROVE before = d
  <2>1. PICK k \in 0 .. Top : First(name', b, "device", k) /\ d = b[k]
    BY <1>1, <1>7, <1>9 DEF FirstOrNone
  <2>2. b[k] # NULL /\ b[k] = a[k] /\ Meets(name, a, "device", k)
    BY <1>1, <1>5, <1>8, <2>1 DEF First
  <2>3. ASSUME NEW i \in 0 .. Top, i < k PROVE ~Meets(name, a, "device", i)
    <3>1. ASSUME b[i] = NULL PROVE FALSE
      <4>1. k \in i .. Top
        BY <2>3, TopNumber
      <4>2. b[k] = NULL
        BY <1>4, <3>1, <4>1, WalkEnds, Zenon
      <4> QED BY <2>2, <4>2
    <3> QED BY <1>8, <2>1, <2>3, <3>1 DEF First
  <2>4. First(name, a, "device", k)
    BY <2>2, <2>3 DEF First
  <2> QED BY <1>6, <2>1, <2>2, <2>4 DEF FirstOrNone
<1>10. ASSUME before = d PROVE after = d
  <2>1. PICK k \in 0 .. Top : First(name, a, "device", k) /\ d = a[k]
    BY <1>1, <1>6, <1>10 DEF FirstOrNone
  <2>2. ASSUME NEW j \in 0 .. Top, j <= k PROVE a[j] # o
    <3>1. CASE name[o].class = "device"
      <4>1. a[j] = o => Meets(name, a, "device", j)
        BY <1>1, <3>1 DEF Meets
      <4>2. j = k \/ j < k
        BY <2>2, TopNumber
      <4> QED BY <2>1, <4>1, <4>2 DEF First
    <3>2. CASE name[o].class # "device"
      <4>1. o \notin Range(a)
        BY <1>1, <1>3, <1>10, <1>11, <3>2 DEF CutsOff, Way
      <4> QED BY <4>1 DEF Range
    <3> QED BY <3>1, <3>2
  <2>3. b[k] = a[k]
    BY <1>5, <2>1, <2>2
  <2>4. First(name', b, "device", k)
    BY <1>1, <1>8, <2>1, <2>3 DEF First
  <2> QED BY <1>7, <2>1, <2>3, <2>4 DEF FirstOrNone
<1> QED BY <1>9, <1>10, <1>11

LEMMA DestroyCounts ==
  ASSUME Tree, NEW o \in Live, Destroy(o), ~CutsOff(o), NEW d \in Live, d # o
  PROVE  FifosOf(d)' = FifosOf(d) \ {o}
<1>1. /\ Live' = Live \ {o} /\ Live \subseteq Node
      /\ \A q \in Node : q # o => name'[q] = name[q]
  BY DestroyKeepsTree, LiveFacts
<1>2. FifosOf(d)' = { q \in Live' : name'[q].class = "fifo" /\ Device(q)' = d }
  BY DEF FifosOf
<1>3. \A q \in Live : q # o /\ name[q].class = "fifo" => (Device(q)' = d <=> Device(q) = d)
  BY DestroyKeepsDevices
<1> QED BY <1>1, <1>2, <1>3 DEF FifosOf

(* Counts after a step, from the values at one device. *)
LEMMA CountAdded ==
  ASSUME Tree, NEW d, NEW o \in Node, o \notin Live, FifosOf(d)' = FifosOf(d) \cup {o}
  PROVE  Cardinality(FifosOf(d)') = Cardinality(FifosOf(d)) + 1
<1>1. o \notin FifosOf(d) /\ IsFiniteSet(FifosOf(d))
  BY FifosFinite DEF FifosOf
<1> QED BY <1>1, FS_AddElement

LEMMA CreateCounts ==
  ASSUME IInv, FInv, NEW n \in Nvrm, Create(n), status' = "running"
  PROVE  FInv'
<1> DEFINE To(o, dev) ==
             /\ Add(o, n)
             /\ miscount' = (miscount \/ (n.class = "fifo" /\ dev # NULL /\ fifos[dev] = NULL))
             /\ \/ fifos' = Count(n.class, dev, 1)
                \/ dev # NULL /\ fifos[dev] = NULL /\ fifos' = WithChipset(dev)
<1>10. PICK o \in Node : To(o, Device(o)')
  BY DEF Create, Device
<1>11. PICK dev : dev = Device(o)'
  OBVIOUS
<1>1. To(o, dev) /\ dev = Device(o)'
  BY <1>10, <1>11
<1>2. driver = "nvrm" /\ status = "running" /\ driver' = driver
  BY DEF Create, Running
<1>3. /\ Tree /\ n \in Names /\ fifos \in [Node -> Int \cup {NULL}] /\ NULL \notin Int
      /\ miscount \in BOOLEAN
  BY NvrmTyped, TreeAssumption DEF IInv, TypeOK
<1>4. /\ Live' = Live \cup {o} /\ name'[o] = n /\ Live \subseteq Node
      /\ \A q \in Live : q # o /\ name'[q] = name[q]
  BY <1>1, <1>3, Added, LiveFacts
<1>5. /\ \A d \in Live :
           FifosOf(d)' = IF n.class = "fifo" /\ dev = d THEN FifosOf(d) \cup {o} ELSE FifosOf(d)
      /\ n.class = "device" => FifosOf(o)' = {}
      /\ o \notin Live
      /\ dev \in Live' \cup {NULL} /\ (dev # NULL => name'[dev].class = "device")
  BY <1>1, <1>3, AddCounts
<1>6. \A d \in Node : fifos[d] # NULL => d \in Live /\ name[d].class = "device"
  BY <1>2 DEF FInv
<1>7. ASSUME NEW d \in Node
      PROVE  fifos'[d] = IF dev = d /\ fifos' = Count(n.class, dev, 1) /\ n.class = "fifo" /\ fifos[d] # NULL
                         THEN fifos[d] + 1
                         ELSE IF dev = d /\ fifos[d] = NULL /\ fifos' = WithChipset(dev) THEN 0
                         ELSE fifos[d]
  <2>1. CASE fifos' = Count(n.class, dev, 1)
    <3>1. fifos'[d] = IF dev = d /\ n.class = "fifo" /\ fifos[d] # NULL THEN fifos[d] + 1 ELSE fifos[d]
      BY <1>3, <1>5, <2>1, NullFacts DEF Count
    <3>2. fifos' = WithChipset(dev) /\ dev = d /\ fifos[d] = NULL => fifos'[d] = 0
      BY <1>3, NullFacts DEF WithChipset
    <3> QED BY <2>1, <3>1, <3>2
  <2>2. CASE fifos' # Count(n.class, dev, 1) /\ fifos[dev] = NULL /\ fifos' = WithChipset(dev)
    BY <1>3, <2>2 DEF WithChipset
  <2> QED BY <1>1, <2>1, <2>2
<1>8. ASSUME NEW d \in Node, fifos'[d] # NULL PROVE d \in Live' /\ name'[d].class = "device"
  <2>1. CASE fifos[d] # NULL
    BY <1>4, <1>6, <2>1
  <2>2. CASE fifos[d] = NULL
    <3>1. dev = d /\ dev # NULL
      BY <1>7, <1>8, <2>2, NullFacts
    <3> QED BY <1>5, <3>1
  <2> QED BY <2>1, <2>2
<1>9. ASSUME ~miscount', NEW d \in Live', name'[d].class = "device"
      PROVE  Cardinality(FifosOf(d)') = IF fifos'[d] = NULL THEN 0 ELSE fifos'[d]
  <2>1. ~miscount /\ ~(n.class = "fifo" /\ dev # NULL /\ fifos[dev] = NULL)
    BY <1>1, <1>3, <1>9
  <2>2. CASE d = o
    <3>1. n.class = "device" /\ fifos[d] = NULL
      BY <1>4, <1>5, <1>6, <1>9, <2>2
    <3>2. Cardinality(FifosOf(d)') = 0
      BY <1>5, <2>2, <3>1, FS_EmptySet
    <3>3. fifos'[d] \in {NULL, 0}
      BY <1>7, <2>2, <3>1
    <3> QED BY <3>2, <3>3
  <2>3. CASE d # o
    <3>1. d \in Live /\ d \in Node /\ name[d].class = "device" /\ d # NULL
      BY <1>4, <1>9, <2>3, NullFacts
    <3>2. Cardinality(FifosOf(d)) = IF fifos[d] = NULL THEN 0 ELSE fifos[d]
      BY <1>2, <2>1, <3>1 DEF FInv, Counts
    <3>3. CASE n.class = "fifo" /\ dev = d
      <4>1. fifos[d] # NULL /\ fifos[d] \in Int /\ FifosOf(d)' = FifosOf(d) \cup {o}
        BY <1>3, <1>5, <2>1, <3>1, <3>3
      <4>2. Cardinality(FifosOf(d)') = fifos[d] + 1
        BY <1>3, <1>5, <3>2, <4>1, CountAdded
      <4>3. fifos' = Count(n.class, dev, 1)
        BY <1>1, <3>3, <4>1
      <4>4. fifos'[d] = fifos[d] + 1 /\ fifos[d] + 1 \in Int
        BY <1>7, <3>1, <3>3, <4>1, <4>3
      <4> QED BY <1>3, <4>2, <4>4
    <3>4. CASE ~(n.class = "fifo" /\ dev = d)
      <4>1. FifosOf(d)' = FifosOf(d)
        BY <1>5, <3>1, <3>4
      <4>2. fifos'[d] = fifos[d] \/ (fifos[d] = NULL /\ fifos'[d] = 0)
        BY <1>7, <3>1, <3>4
      <4> QED BY <3>2, <4>1, <4>2
    <3> QED BY <3>3, <3>4
  <2> QED BY <2>2, <2>3
<1> QED BY <1>8, <1>9 DEF FInv, Counts

LEMMA DestroyNvrmCounts ==
  ASSUME IInv, FInv, NEW cid, NEW handle, DestroyNvrm(cid, handle), Find(cid, handle) # NULL
  PROVE  FInv'
<1>1. PICK o : o = Find(cid, handle)
  OBVIOUS
<1>2. /\ Destroy(o) /\ driver = "nvrm" /\ status = "running" /\ UNCHANGED << driver, status >>
      /\ fifos' = [Count(name[o].class, Device(o), -1) EXCEPT ![o] = NULL]
      /\ miscount' = (miscount \/ CutsOff(o))
  BY <1>1 DEF DestroyNvrm, Running
<1>3. /\ Tree /\ fifos \in [Node -> Int \cup {NULL}] /\ NULL \notin Int /\ miscount \in BOOLEAN
      /\ o \in Live /\ o \in Node
  BY <1>1, FindFacts, LiveFacts, TreeAssumption DEF IInv, TypeOK
<1>4. /\ Live' = Live \ {o} /\ Live \subseteq Node
      /\ \A q \in Node : q # o => name'[q] = name[q]
  BY <1>2, <1>3, DestroyKeepsTree, LiveFacts
<1>5. PICK dev : dev = Device(o)
  OBVIOUS
<1>6. dev \in Live \cup {NULL} /\ (dev # NULL => name[dev].class = "device")
  BY <1>3, <1>5, DeviceLive
<1>7. ASSUME NEW d \in Node
      PROVE  fifos'[d] = IF d = o THEN NULL
                         ELSE IF name[o].class = "fifo" /\ dev = d /\ fifos[d] # NULL THEN fifos[d] - 1
                         ELSE fifos[d]
  <2>1. PICK c : c = Count(name[o].class, dev, -1)
    OBVIOUS
  <2>2. c \in [Node -> Int \cup {NULL}]
    BY <1>3, <2>1, FifosTyped
  <2>3. c[d] = IF name[o].class = "fifo" /\ dev = d /\ fifos[d] # NULL THEN fifos[d] - 1 ELSE fifos[d]
    BY <1>3, <1>6, <2>1, NullFacts DEF Count
  <2>4. fifos' = [c EXCEPT ![o] = NULL]
    BY <1>2, <1>5, <2>1
  <2> QED BY <1>3, <2>2, <2>3, <2>4
<1>8. ASSUME NEW d \in Node, fifos'[d] # NULL PROVE d \in Live' /\ name'[d].class = "device"
  <2>1. d # o /\ fifos[d] # NULL
    BY <1>7, <1>8
  <2> QED BY <1>2, <1>4, <2>1 DEF FInv
<1>9. ASSUME ~miscount', NEW d \in Live', name'[d].class = "device"
      PROVE  Cardinality(FifosOf(d)') = IF fifos'[d] = NULL THEN 0 ELSE fifos'[d]
  <2>1. ~miscount /\ ~CutsOff(o)
    BY <1>2, <1>3, <1>9
  <2>2. d \in Live /\ d \in Node /\ d # o /\ name[d].class = "device" /\ d # NULL
    BY <1>4, <1>9, NullFacts
  <2>3. FifosOf(d)' = FifosOf(d) \ {o}
    BY <1>2, <1>3, <2>1, <2>2, DestroyCounts
  <2>4. Cardinality(FifosOf(d)) = IF fifos[d] = NULL THEN 0 ELSE fifos[d]
    BY <1>2, <2>1, <2>2 DEF FInv, Counts
  <2>5. IsFiniteSet(FifosOf(d)) /\ Cardinality(FifosOf(d)) \in Nat
    BY <1>3, FifosFinite
  <2>6. o \in FifosOf(d) <=> name[o].class = "fifo" /\ dev = d
    BY <1>3, <1>5 DEF FifosOf
  <2>7. CASE o \in FifosOf(d)
    <3>1. Cardinality(FifosOf(d)') = Cardinality(FifosOf(d)) - 1
      BY <2>3, <2>5, <2>7, FS_RemoveElement
    <3>2. Cardinality(FifosOf(d)) # 0
      BY <2>5, <2>7, FS_EmptySet
    <3>3. fifos[d] # NULL /\ fifos[d] \in Int /\ Cardinality(FifosOf(d)) = fifos[d]
      BY <1>3, <2>2, <2>4, <3>2
    <3>4. fifos'[d] = fifos[d] - 1 /\ fifos[d] - 1 \in Int
      BY <1>7, <2>2, <2>6, <2>7, <3>3
    <3> QED BY <1>3, <3>1, <3>3, <3>4
  <2>8. CASE o \notin FifosOf(d)
    <3>1. FifosOf(d)' = FifosOf(d)
      BY <2>3, <2>8
    <3>2. fifos'[d] = fifos[d]
      BY <1>7, <2>2, <2>6, <2>8
    <3> QED BY <2>4, <3>1, <3>2
  <2> QED BY <2>7, <2>8
<1> QED BY <1>8, <1>9 DEF FInv, Counts

(* What leaves the tree alone leaves the devices alone. *)
LEMMA TreeKeepsCounts ==
  ASSUME UNCHANGED tree
  PROVE  Live' = Live /\ name' = name /\ \A d : FifosOf(d)' = FifosOf(d)
<1>1. name' = name /\ up' = up
  BY DEF tree
<1>2. Live' = Live
  BY <1>1 DEF Live
<1>3. \A x : Device(x)' = Device(x)
  BY <1>1 DEF Device
<1>4. \A d : FifosOf(d)' = { o \in Live' : name'[o].class = "fifo" /\ Device(o)' = d }
  BY DEF FifosOf
<1> QED BY <1>1, <1>2, <1>3, <1>4 DEF FifosOf

LEMMA CheckCidCounts ==
  ASSUME IInv, FInv, NEW n \in Nvrm, CheckCid(n.cid)
  PROVE  FInv'
<1> DEFINE m == [cid |-> n.cid, parent |-> n.cid, handle |-> n.cid, class |-> "root"]
<1>1. PICK o \in Node : Add(o, m)
  BY DEF CheckCid
<1>2. /\ driver = "nvrm" /\ status = "running"
      /\ UNCHANGED << driver, fifos, status, miscount >>
  BY DEF CheckCid, Running, history
<1>3. m \in Names /\ m.class = "root"
  BY NvrmTyped DEF Names, Class
<1> HIDE DEF m
<1>4. Tree /\ Live \subseteq Node
  BY LiveFacts DEF IInv
<1>5. /\ Live' = Live \cup {o} /\ name'[o] = m
      /\ \A q \in Live : q # o /\ name'[q] = name[q]
  BY <1>1, <1>3, <1>4, Added
<1>6. \A d \in Live : FifosOf(d)' = FifosOf(d)
  BY <1>1, <1>3, <1>4, AddCounts
<1>7. \A d \in Node : fifos'[d] # NULL => d \in Live' /\ name'[d].class = "device"
  BY <1>2, <1>4, <1>5 DEF FInv
<1>8. ASSUME ~miscount', NEW d \in Live', name'[d].class = "device"
      PROVE  Cardinality(FifosOf(d)') = IF fifos'[d] = NULL THEN 0 ELSE fifos'[d]
  <2>1. d \in Live /\ name[d].class = "device"
    BY <1>3, <1>5, <1>8
  <2> QED BY <1>2, <1>6, <1>8, <2>1 DEF FInv, Counts
<1> QED BY <1>7, <1>8 DEF FInv, Counts

LEMMA GetChipsetCounts ==
  ASSUME IInv, FInv, NEW cid, NEW handle, GetChipset(cid, handle)
  PROVE  FInv'
<1>1. PICK dev : dev = Device(Find(cid, handle))
  OBVIOUS
<1>2. /\ driver = "nvrm" /\ status = "running" /\ UNCHANGED << driver, status, tree, miscount >>
      /\ Find(cid, handle) # NULL /\ dev # NULL /\ fifos' = WithChipset(dev)
  BY <1>1 DEF GetChipset, Running, history
<1>3. Tree /\ Live \subseteq Node /\ fifos \in [Node -> Int \cup {NULL}]
  BY LiveFacts DEF IInv, TypeOK
<1>4. dev \in Live /\ name[dev].class = "device"
  BY <1>1, <1>2, <1>3, FindFacts, DeviceLive
<1>5. Live' = Live /\ name' = name /\ \A d : FifosOf(d)' = FifosOf(d)
  BY <1>2, TreeKeepsCounts
<1>6. \A d \in Node : fifos'[d] = fifos[d] \/ (d = dev /\ fifos[d] = NULL /\ fifos'[d] = 0)
  BY <1>2, <1>3, <1>4 DEF WithChipset
<1>7. \A d \in Node : fifos'[d] # NULL => d \in Live' /\ name'[d].class = "device"
  BY <1>2, <1>4, <1>5, <1>6 DEF FInv
<1>8. ASSUME ~miscount', NEW d \in Live', name'[d].class = "device"
      PROVE  Cardinality(FifosOf(d)') = IF fifos'[d] = NULL THEN 0 ELSE fifos'[d]
  <2>1. Cardinality(FifosOf(d)) = IF fifos[d] = NULL THEN 0 ELSE fifos[d]
    BY <1>2, <1>5, <1>8 DEF FInv, Counts
  <2> QED BY <1>3, <1>5, <1>6, <1>8, <2>1
<1> QED BY <1>7, <1>8 DEF FInv, Counts

LEMMA StaysCounted ==
  ASSUME FInv, UNCHANGED << driver, tree, fifos, miscount >>, status' = "running" => status = "running"
  PROVE  FInv'
<1>1. Live' = Live /\ name' = name /\ \A d : FifosOf(d)' = FifosOf(d)
  BY TreeKeepsCounts
<1> QED BY <1>1 DEF FInv, Counts

LEMMA NextFInv ==
  ASSUME IInv, FInv, [Next]_tvars
  PROVE  FInv'
<1>1. ASSUME NEW n \in Nvrm, Create(n) PROVE FInv'
  BY <1>1, CreateCounts DEF FInv
<1>2. ASSUME NEW c \in Cids, CheckCid(c) PROVE FInv'
  BY <1>2, CheckCidCounts DEF Cids
<1>3. ASSUME NEW c, NEW h, DestroyNvrm(c, h) PROVE FInv'
  <2>1. CASE Find(c, h) = NULL
    <3>1. UNCHANGED << driver, tree, fifos, miscount, status >>
      BY <1>3, <2>1 DEF DestroyNvrm
    <3> QED BY <3>1, StaysCounted
  <2>2. CASE Find(c, h) # NULL
    BY <1>3, <2>2, DestroyNvrmCounts
  <2> QED BY <2>1, <2>2
<1>4. ASSUME NEW c, NEW h, GetChipset(c, h) PROVE FInv'
  BY <1>4, GetChipsetCounts
<1>5. ASSUME NEW c, NEW h, CreateUnnamed \/ ObjectInfo(c, h) PROVE FInv'
  <2>1. UNCHANGED << driver, tree, fifos, miscount >> /\ status = "running"
    BY <1>5 DEF CreateUnnamed, ObjectInfo, Running, history
  <2> QED BY <2>1, StaysCounted
<1>6. ASSUME DrmIoctl PROVE FInv'
  <2>1. driver' # "nvrm"
    BY <1>6 DEF DrmIoctl, ChannelAlloc, ChannelFree, ChannelFifo, FreeChild, FreeFifo, FreeDevice,
      GrobjAlloc, NotifierAlloc, GpuobjFree, GemNew, GemInfo, GemClose, Nouveau, Unchanged
  <2> QED BY <2>1 DEF FInv
<1>7. CASE UNCHANGED tvars
  <2>1. UNCHANGED << driver, tree, fifos, miscount, status >>
    BY <1>7 DEF tvars, history
  <2> QED BY <2>1, StaysCounted
<1> QED BY <1>1, <1>2, <1>3, <1>4, <1>5, <1>6, <1>7 DEF Next, NvrmIoctl

-----------------------------------------------------------------------------
LEMMA InitIInv ==
  ASSUME Init
  PROVE  IInv
<1>1. /\ objects = << >> /\ name = [o \in Node |-> NULL] /\ up = [o \in Node |-> NULL]
      /\ kids = [o \in Node |-> << >>] /\ todo = Nothing /\ open = {} /\ left = {}
  BY DEF Init
<1>2. Live = {}
  BY <1>1 DEF Live
<1>3. TypeOK
  <2>1. /\ objects \in Seq(Node) /\ name \in [Node -> Names \cup {NULL}]
        /\ up \in [Node -> Node \cup {NULL}] /\ kids \in [Node -> Seq(Node \cup {NULL})]
    BY <1>1
  <2>2. fifos \in [Node -> Int \cup {NULL}]
    BY DEF Init
  <2>3. todo \in Todo
    BY <1>1 DEF Todo, Nothing
  <2>4. /\ driver \in {"nvrm", "nouveau"} /\ option \in BOOLEAN /\ notFound \in Nat
        /\ status \in {"running", "aborted", "crashed"}
        /\ open \subseteq Channel /\ miscount \in BOOLEAN
        /\ left \subseteq Node /\ shadowed \subseteq Channel
    BY DEF Init
  <2> QED BY <2>1, <2>2, <2>3, <2>4 DEF TypeOK
<1>4. LinksMutual
  <2>1. ToSet(objects) = {} /\ DOMAIN objects = {}
    BY <1>1 DEF ToSet
  <2>2. \A o, p \in Node : ~Contains(kids[p], o) /\ up[o] # p /\ DOMAIN kids[p] = {}
    BY <1>1, NullFacts DEF Contains
  <2> QED BY <1>1, <1>2, <2>1, <2>2 DEF LinksMutual
<1>5. Tree
  BY <1>1, <1>3, <1>4, NullFacts DEF Tree, TreeTyped, Older, NamedParent, Packed, FromFront, TypeOK
<1>6. Channels
  <2>1. Kinds /\ FifoInUse /\ OneFifo /\ EngineInUse /\ LeftThere /\ Alternate /\ Shadow /\ DeviceInUse /\ OneDevice
    BY <1>1, <1>2 DEF Kinds, FifoInUse, OneFifo, EngineInUse, LeftThere, Alternate, Shadow, DeviceInUse, OneDevice
  <2>2. Handler /\ Position /\ FifoThere /\ DeviceThere
    BY <1>1 DEF Handler, Position, FifoThere, DeviceThere, Freeing, Ending, Nothing
  <2> QED BY <2>1, <2>2 DEF Channels
<1> QED BY <1>3, <1>5, <1>6 DEF IInv

LEMMA StutterIInv ==
  ASSUME IInv, UNCHANGED tvars
  PROVE  IInv'
<1>1. UNCHANGED << driver, option, tree, fifos, notFound, todo, status, open, miscount, left, shadowed >>
  BY DEF tvars, history
<1>2. UNCHANGED << objects, name, up, kids >>
  BY <1>1 DEF tree
<1>3. Tree' /\ Live' = Live
  BY <1>1, TreeUnchanged DEF IInv
<1>4. TypeOK'
  BY <1>1, <1>2 DEF IInv, TypeOK
<1>5. ASSUME driver = "nouveau" PROVE Channels'
  <2>1. Kinds' /\ OneFifo' /\ Shadow' /\ OneDevice' /\ Alternate'
    BY <1>1, <1>2, <1>3, <1>5 DEF IInv, Channels, Kinds, OneFifo, Shadow, OneDevice, Alternate, Freeing
  <2>2. Handler' /\ Position' /\ FifoThere' /\ DeviceThere'
    BY <1>1, <1>2, <1>3, <1>5
    DEF IInv, Channels, Handler, Position, FifoThere, DeviceThere, Has, Making, Freeing, Ending
  <2>3. FifoInUse' /\ EngineInUse' /\ LeftThere' /\ DeviceInUse'
    BY <1>1, <1>2, <1>3, <1>5
    DEF IInv, Channels, FifoInUse, EngineInUse, LeftThere, DeviceInUse, Making, Freeing, Ending
  <2> QED BY <2>1, <2>2, <2>3 DEF Channels
<1> QED BY <1>1, <1>3, <1>4, <1>5 DEF IInv, Channels

(* The tree and what nouveau keeps in it are invariant. *)
THEOREM Invariance == Spec => []IInv
<1>1. Init => IInv
  BY InitIInv
<1>2. IInv /\ [Next]_tvars => IInv'
  BY NvrmStep, DrmStep, StutterIInv DEF Next
<1> QED BY <1>1, <1>2, PTL DEF Spec

(* Every field of every object keeps its type, whatever the ioctls are. *)
THEOREM TypeCorrect == Spec => []TypeOK
<1>1. IInv => TypeOK
  BY DEF IInv
<1> QED BY <1>1, Invariance, PTL

(* The list, the parents and the arrays of children always agree, in the    *)
(* middle of a handler too.                                                 *)
THEOREM LinksCorrect == Spec => []LinksMutual
<1>1. IInv => LinksMutual
  BY DEF IInv, Tree
<1> QED BY <1>1, Invariance, PTL

(* A parent is older than its children, so every walk up ends. *)
THEOREM AgeCorrect == Spec => []ParentsOlder
<1>1. IInv => ParentsOlder
  <2> SUFFICES ASSUME IInv, NEW o \in Live, up[o] # NULL
               PROVE  Place(o) < Place(up[o])
    BY DEF ParentsOlder
  <2>1. Tree
    BY DEF IInv
  <2>2. objects \in Seq(Node) /\ o \in Node /\ up[o] \in Live
    BY <2>1, LiveFacts DEF Tree, TreeTyped
  <2>3. ASSUME NEW q \in Live PROVE Place(q) \in DOMAIN objects /\ objects[Place(q)] = q
    <3>1. \E i \in DOMAIN objects : objects[i] = q
      BY <2>1, <2>2, LiveFacts DEF Contains
    <3> QED BY <3>1 DEF Place
  <2> QED BY <2>1, <2>2, <2>3 DEF Tree, Older
<1> QED BY <1>1, Invariance, PTL

(* nvrm: the count that decides whether the decoder warns about a trace     *)
(* with several channels is that of the fifos below the device, unless a    *)
(* fifo came before the chipset was known or was cut off from its device.   *)
THEOREM FifosCorrect == Spec => []FifosCounted
<1>1. Init => FInv
  <2> SUFFICES ASSUME Init PROVE FInv
    OBVIOUS
  <2>1. Live = {} /\ \A d \in Node : fifos[d] = NULL
    BY DEF Init, Live
  <2> QED BY <2>1 DEF FInv, Counts
<1>2. IInv /\ FInv /\ [Next]_tvars => FInv'
  BY NextFInv
<1>3. IInv /\ FInv => FifosCounted
  BY DEF FInv, Counts, FifosCounted, FifosOf
<1> QED BY <1>1, <1>2, <1>3, Invariance, PTL DEF Spec

(* What a freed channel leaves on the list is exactly what its loop passed  *)
(* over: every second object that hung on its fifo, for ever without a      *)
(* parent, all its notifiers and buffers, which hang on the device, and the *)
(* device if a buffer was freed instead (drm.c:632-638).                    *)
THEOREM ChannelCorrect == Spec => []ChannelGone
<1>1. IInv => ChannelGone
  <2> SUFFICES ASSUME IInv, driver = "nouveau", todo = Nothing
               PROVE  /\ left \subseteq Live
                      /\ \A o \in left : name[o].class = "memory" \/ (name[o].class = "engine" /\ up[o] = NULL)
                      /\ \A o \in Live : name[o].cid \notin open =>
                           \/ name[o].class = "engine" /\ o \in left
                           \/ name[o].class = "memory"
                           \/ name[o].class = "device" /\ name[o].cid \in shadowed
    BY DEF ChannelGone
  <2>1. \A c : ~Freeing(c) /\ ~Ending(c)
    BY DEF Freeing, Ending, Nothing
  <2>2. left \subseteq Live
    BY DEF IInv, Channels, LeftThere
  <2>3. \A o \in left : name[o].class = "memory" \/ (name[o].class = "engine" /\ up[o] = NULL)
    BY <2>1 DEF IInv, Channels, LeftThere
  <2>4. ASSUME NEW o \in Live, name[o].cid \notin open
        PROVE  \/ name[o].class = "engine" /\ o \in left
               \/ name[o].class = "memory"
               \/ name[o].class = "device" /\ name[o].cid \in shadowed
    BY <2>1, <2>4 DEF IInv, Channels, Kinds, FifoInUse, EngineInUse, DeviceInUse
  <2> QED BY <2>2, <2>3, <2>4
<1> QED BY <1>1, Invariance, PTL
=============================================================================
