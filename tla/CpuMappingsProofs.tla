------------------------- MODULE CpuMappingsProofs -------------------------
(***************************************************************************)
(* Proofs about CpuMappings, for any objects, structs, regions and         *)
(* addresses, and any numbers the driver gives.  Owned and MunmapAccepted  *)
(* need each other, and both need to know that a struct that has an id is  *)
(* in the table under it, with the address the region has now: then the    *)
(* search by address and the search by id meet in the same struct.         *)
(***************************************************************************)
EXTENDS CpuMappings, SequencesExt, SequenceTheorems, WellFoundedInduction, TLAPS

-----------------------------------------------------------------------------
(* Numbers and lists.  That every set of numbers has a least one stands for *)
(* induction in these proofs.                                               *)

(* Every set of natural numbers that is not empty has a least element. *)
LEMMA LeastNumber ==
  ASSUME NEW S \in SUBSET Nat, S # {}
  PROVE  \E m \in S : \A k \in S : m <= k
<1>1. \A x, y \in Nat : << x, y >> \in OpToRel(<, Nat) <=> x < y
  BY DEF OpToRel
<1>2. PICK m \in S : \A k \in S : << k, m >> \notin OpToRel(<, Nat)
  BY NatLessThanWellFounded, WFMin, Zenon
<1>3. \A k \in S : ~(k < m)
  BY <1>1, <1>2, Zenon
<1> QED BY <1>3

(* Min finds it. *)
LEMMA MinLeast ==
  ASSUME NEW S \in SUBSET Nat, S # {}
  PROVE  Min(S) \in S /\ \A k \in S : Min(S) <= k
BY LeastNumber DEF Min

Distinct(s) == \A i, j \in DOMAIN s : i # j => s[i] # s[j]

(* s without its i-th element. *)
LEMMA RemoveAtShape ==
  ASSUME NEW T, NEW s \in Seq(T), NEW i \in 1 .. Len(s)
  PROVE  /\ RemoveAt(s, i) \in Seq(T) /\ Len(RemoveAt(s, i)) = Len(s) - 1
         /\ \A j \in 1 .. Len(s) - 1 : RemoveAt(s, i)[j] = IF j < i THEN s[j] ELSE s[j + 1]
<1> DEFINE a == SubSeq(s, 1, i - 1)
           b == SubSeq(s, i + 1, Len(s))
<1>1. RemoveAt(s, i) = a \o b
  BY DEF RemoveAt
<1>2. a \in Seq(T) /\ Len(a) = i - 1 /\ \A j \in 1 .. i - 1 : a[j] = s[j]
  OBVIOUS
<1>3. b \in Seq(T) /\ Len(b) = Len(s) - i /\ \A j \in 1 .. Len(s) - i : b[j] = s[i + 1 + j - 1]
  OBVIOUS
<1> HIDE DEF a, b
<1>4. a \o b \in Seq(T) /\ Len(a \o b) = Len(s) - 1
  <2>1. a \o b \in Seq(T) /\ Len(a \o b) = Len(a) + Len(b)
    BY <1>2, <1>3, ConcatProperties, Zenon
  <2> QED BY <1>2, <1>3, <2>1
<1>5. ASSUME NEW j \in 1 .. Len(s) - 1
      PROVE  (a \o b)[j] = IF j < i THEN s[j] ELSE s[j + 1]
  <2>1. (a \o b)[j] = IF j <= i - 1 THEN a[j] ELSE b[j - (i - 1)]
    BY <1>2, <1>3, ConcatProperties, SMT
  <2>2. CASE j < i
    BY <1>2, <2>1, <2>2
  <2>3. CASE ~(j < i)
    <3>1. j - (i - 1) \in 1 .. Len(s) - i
      BY <2>3
    <3>2. b[j - (i - 1)] = s[i + 1 + (j - (i - 1)) - 1]
      BY <1>3, <3>1
    <3>3. i + 1 + (j - (i - 1)) - 1 = j + 1
      OBVIOUS
    <3> QED BY <2>1, <2>3, <3>2, <3>3
  <2> QED BY <2>2, <2>3
<1> QED BY <1>1, <1>4, <1>5

(* RemoveFirst takes out the first of the elements that are equal to e, and *)
(* the others keep their order.                                             *)
LEMMA RemoveFirstShape ==
  ASSUME NEW T, NEW s \in Seq(T), NEW e, Contains(s, e)
  PROVE  \E i \in 1 .. Len(s) :
           /\ s[i] = e /\ \A j \in 1 .. i - 1 : s[j] # e
           /\ RemoveFirst(s, e) \in Seq(T) /\ Len(RemoveFirst(s, e)) = Len(s) - 1
           /\ \A j \in 1 .. Len(s) - 1 :
                RemoveFirst(s, e)[j] = IF j < i THEN s[j] ELSE s[j + 1]
<1> DEFINE I == { i \in 1 .. Len(s) : s[i] = e }
<1>1. I \in SUBSET Nat /\ I # {}
  BY DEF Contains
<1>2. Min(I) \in I /\ \A k \in I : Min(I) <= k
  BY <1>1, MinLeast
<1>3. RemoveFirst(s, e) = RemoveAt(s, Min(I))
  BY <1>1 DEF RemoveFirst, SelectInSeq, Contains
<1> HIDE DEF I
<1>4. Min(I) \in 1 .. Len(s) /\ s[Min(I)] = e /\ \A j \in 1 .. Min(I) - 1 : s[j] # e
  <2>1. Min(I) \in 1 .. Len(s) /\ s[Min(I)] = e
    BY <1>2 DEF I
  <2>2. ASSUME NEW j \in 1 .. Min(I) - 1 PROVE s[j] # e
    <3>1. j \in 1 .. Len(s) /\ ~(Min(I) <= j)
      BY <2>1
    <3> QED BY <1>2, <3>1 DEF I
  <2> QED BY <2>1, <2>2
<1> QED BY <1>3, <1>4, RemoveAtShape

LEMMA RemoveAbsent ==
  ASSUME NEW s, NEW e, ~Contains(s, e)
  PROVE  RemoveFirst(s, e) = s
BY DEF RemoveFirst, Contains

(* Of a list that has no element twice nothing else is lost, and e is gone. *)
LEMMA RemoveFirstDistinct ==
  ASSUME NEW T, NEW s \in Seq(T), NEW e, Distinct(s)
  PROVE  /\ RemoveFirst(s, e) \in Seq(T) /\ Distinct(RemoveFirst(s, e))
         /\ \A x : Contains(RemoveFirst(s, e), x) <=> Contains(s, x) /\ x # e
<1>1. CASE ~Contains(s, e)
  BY <1>1, RemoveAbsent
<1>2. CASE Contains(s, e)
  <2> DEFINE r == RemoveFirst(s, e)
  <2>1. PICK i \in 1 .. Len(s) :
           /\ s[i] = e /\ r \in Seq(T) /\ Len(r) = Len(s) - 1
           /\ \A j \in 1 .. Len(s) - 1 : r[j] = IF j < i THEN s[j] ELSE s[j + 1]
    BY <1>2, RemoveFirstShape
  <2> HIDE DEF r
  <2>2. ASSUME NEW j \in DOMAIN r, NEW k \in DOMAIN r, j # k PROVE r[j] # r[k]
    <3>1. j \in 1 .. Len(s) - 1 /\ k \in 1 .. Len(s) - 1
      BY <2>1
    <3> DEFINE J == IF j < i THEN j ELSE j + 1
               K == IF k < i THEN k ELSE k + 1
    <3>2. J \in DOMAIN s /\ K \in DOMAIN s /\ J # K
      BY <2>2, <3>1
    <3>3. r[j] = s[J] /\ r[k] = s[K]
      BY <2>1, <3>1
    <3> QED BY <3>2, <3>3 DEF Distinct
  <2>3. ASSUME NEW x, Contains(r, x) PROVE Contains(s, x) /\ x # e
    <3>1. PICK j \in 1 .. Len(r) : r[j] = x
      BY <2>3 DEF Contains
    <3>2. PICK k : k = IF j < i THEN j ELSE j + 1
      OBVIOUS
    <3>3. j \in 1 .. Len(s) - 1 /\ k \in 1 .. Len(s) /\ k # i
      BY <2>1, <3>1, <3>2
    <3>4. s[k] = x
      BY <2>1, <3>1, <3>2, <3>3
    <3>5. s[k] # s[i]
      BY <3>3 DEF Distinct
    <3> QED BY <2>1, <3>3, <3>4, <3>5 DEF Contains
  <2>4. ASSUME NEW x, Contains(s, x), x # e PROVE Contains(r, x)
    <3>1. PICK k \in 1 .. Len(s) : s[k] = x
      BY <2>4 DEF Contains
    <3>2. k < i => r[k] = x /\ k \in 1 .. Len(r)
      BY <2>1, <3>1
    <3>3. k > i => r[k - 1] = x /\ k - 1 \in 1 .. Len(r)
      BY <2>1, <3>1
    <3> QED BY <2>1, <2>4, <3>1, <3>2, <3>3 DEF Contains
  <2> QED BY <2>1, <2>2, <2>3, <2>4 DEF r, Distinct
<1> QED BY <1>1, <1>2

(* An element in front. *)
LEMMA InFront ==
  ASSUME NEW T, NEW s \in Seq(T), NEW e \in T
  PROVE  /\ << e >> \o s \in Seq(T)
         /\ \A x : Contains(<< e >> \o s, x) <=> x = e \/ Contains(s, x)
         /\ Distinct(s) /\ ~Contains(s, e) => Distinct(<< e >> \o s)
<1> DEFINE r == << e >> \o s
<1>1. /\ r \in Seq(T) /\ Len(r) = Len(s) + 1 /\ r[1] = e
      /\ \A i \in 1 .. Len(s) : r[i + 1] = s[i]
      /\ \A i \in 2 .. Len(r) : r[i] = s[i - 1]
  OBVIOUS
<1> HIDE DEF r
<1>2. ASSUME NEW x, Contains(s, x) PROVE Contains(r, x)
  BY <1>1, <1>2 DEF Contains
<1>3. ASSUME NEW x, Contains(r, x), x # e PROVE Contains(s, x)
  <2>1. PICK i \in 1 .. Len(r) : r[i] = x
    BY <1>3 DEF Contains
  <2> QED BY <1>1, <1>3, <2>1 DEF Contains
<1>4. Contains(r, e)
  BY <1>1 DEF Contains
<1>5. Distinct(s) /\ ~Contains(s, e) => Distinct(r)
  <2> SUFFICES ASSUME Distinct(s), ~Contains(s, e),
                      NEW i \in DOMAIN r, NEW j \in DOMAIN r, i # j
               PROVE  r[i] # r[j]
    BY DEF Distinct
  <2>1. i \in 1 .. Len(s) + 1 /\ j \in 1 .. Len(s) + 1
    BY <1>1
  <2>2. ASSUME NEW k \in 2 .. Len(s) + 1 PROVE k - 1 \in DOMAIN s /\ r[k] = s[k - 1] /\ r[k] # r[1]
    BY <1>1 DEF Contains
  <2>3. CASE i = 1 \/ j = 1
    BY <2>1, <2>2, <2>3
  <2>4. CASE i # 1 /\ j # 1
    <3>1. i - 1 \in DOMAIN s /\ j - 1 \in DOMAIN s /\ i - 1 # j - 1
      BY <2>1, <2>4
    <3>2. s[i - 1] # s[j - 1]
      BY <3>1 DEF Distinct
    <3> QED BY <2>1, <2>2, <2>4, <3>2
  <2> QED BY <2>3, <2>4
<1> QED BY <1>1, <1>2, <1>3, <1>4, <1>5 DEF r

-----------------------------------------------------------------------------
(* The inductive invariant.                                                 *)

(* A region is known under its id, by a struct that has its address. *)
Known ==
  /\ \A i \in Id : table[i] # NULL <=> region[i] # NULL
  /\ \A i \in Id : table[i] # NULL => heap[table[i]] # NULL /\ heap[table[i]].id = i
  /\ \A m \in Mapping : heap[m] # NULL =>
       IF heap[m].id = 0 THEN heap[m].addr = 0 /\ heap[m].object # NULL
       ELSE table[heap[m].id] = m /\ heap[m].addr = region[heap[m].id].addr
  /\ \A i, j \in Id : region[i] # NULL /\ region[j] # NULL /\ i # j =>
       region[i].addr # region[j].addr

(* The table reaches as far as the largest id. *)
Sized ==
  /\ slots = 0 <=> maxId = 0
  /\ slots # 0 => maxId < slots
  /\ \A i \in Id : table[i] # NULL => i <= maxId

IInv ==
  /\ TypeOK /\ Distinct(objects) /\ Linked /\ Sized /\ MunmapAccepted
  /\ Running => Known

-----------------------------------------------------------------------------
(* The searches.                                                            *)

LEMMA FirstWithFound ==
  ASSUME NEW s \in Seq(Mapping), NEW field, NEW v
  PROVE  \/ FirstWith(s, field, v) = NULL /\ \A x : Contains(s, x) => heap[x][field] # v
         \/ /\ FirstWith(s, field, v) \in Mapping
            /\ Contains(s, FirstWith(s, field, v))
            /\ heap[FirstWith(s, field, v)][field] = v
<1> DEFINE I == { i \in 1 .. Len(s) : heap[s[i]][field] = v }
<1>1. CASE I = {}
  BY <1>1 DEF FirstWith, SelectInSeq, Contains
<1>2. CASE I # {}
  <2>1. Min(I) \in I
    <3>1. I \in SUBSET Nat
      OBVIOUS
    <3> HIDE DEF I
    <3> QED BY <1>2, <3>1, MinLeast
  <2>2. Min(I) \in 1 .. Len(s) /\ Min(I) # 0 /\ heap[s[Min(I)]][field] = v
    BY <2>1
  <2>3. SelectInSeq(s, LAMBDA m : heap[m][field] = v) = Min(I)
    BY <1>2 DEF SelectInSeq
  <2>4. FirstWith(s, field, v) = s[Min(I)]
    BY <2>2, <2>3 DEF FirstWith
  <2> HIDE DEF I
  <2> QED BY <2>2, <2>4 DEF Contains
<1> QED BY <1>1, <1>2

(* nvrm_mmap finds a mapping of some object, or none. *)
LEMMA AnnouncedFound ==
  ASSUME TypeOK, NEW off
  PROVE  \/ Announced(off) = NULL
         \/ Announced(off) \in Mapping /\ \E o \in Object : Contains(attached[o], Announced(off))
<1> DEFINE I == { i \in 1 .. Len(objects) : FirstWith(attached[objects[i]], "offset", off) # NULL }
<1>1. CASE I = {}
  BY <1>1 DEF Announced, SelectInSeq
<1>2. CASE I # {}
  <2>1. Min(I) \in I
    <3>1. I \in SUBSET Nat
      OBVIOUS
    <3> HIDE DEF I
    <3> QED BY <1>2, <3>1, MinLeast
  <2>2. Min(I) \in 1 .. Len(objects) /\ Min(I) # 0
    BY <2>1
  <2>3. SelectInSeq(objects, LAMBDA o : FirstWith(attached[o], "offset", off) # NULL) = Min(I)
    BY <1>2 DEF SelectInSeq
  <2>4. Announced(off) = FirstWith(attached[objects[Min(I)]], "offset", off)
    BY <2>2, <2>3 DEF Announced
  <2>5. PICK i \in 1 .. Len(objects) : Announced(off) = FirstWith(attached[objects[i]], "offset", off)
    BY <2>2, <2>4
  <2>6. objects[i] \in Object
    BY ElementOfSeq DEF TypeOK
  <2>7. attached[objects[i]] \in Seq(Mapping)
    BY <2>6 DEF TypeOK
  <2>8. \/ Announced(off) = NULL
        \/ Announced(off) \in Mapping /\ Contains(attached[objects[i]], Announced(off))
    BY <2>5, <2>7, FirstWithFound
  <2> QED BY <2>6, <2>8, Zenon
<1> QED BY <1>1, <1>2

(* host_unmap finds a mapping of the object, or none. *)
LEMMA MeantFound ==
  ASSUME TypeOK, NEW o \in Object, NEW n
  PROVE  \/ Meant(o, n) = NULL
         \/ Meant(o, n) \in Mapping /\ Contains(attached[o], Meant(o, n))
<1>1. attached[o] \in Seq(Mapping)
  BY DEF TypeOK
<1> QED BY <1>1, FirstWithFound DEF Meant

-----------------------------------------------------------------------------
(* The invariant is kept.                                                   *)

LEMMA InitIInv == Init => IInv
<1> SUFFICES ASSUME Init PROVE IInv
  OBVIOUS
<1> USE NumberAssumption, NullAssumption DEF Init
<1>1. TypeOK
  BY DEF TypeOK
<1>2. Distinct(objects) /\ Linked
  BY DEF Distinct, Linked, Contains
<1>3. Known /\ Sized /\ MunmapAccepted
  BY DEF Known, Sized, MunmapAccepted
<1> QED BY <1>1, <1>2, <1>3 DEF IInv

(* An object with no mappings. *)
LEMMA CreateStep ==
  ASSUME IInv, NEW o \in Object, Create(o)
  PROVE  IInv'
<1> USE DEF IInv, Create
<1>1. /\ objects' \in Seq(Object) /\ Distinct(objects')
      /\ \A x : Contains(objects', x) <=> x = o \/ Contains(objects, x)
  <2>1. objects \in Seq(Object)
    BY DEF TypeOK
  <2> QED BY <2>1, InFront
<1>2. TypeOK'
  BY <1>1 DEF TypeOK
<1>3. Linked'
  BY <1>1 DEF Linked
<1>4. (Running => Known)' /\ Sized' /\ MunmapAccepted'
  BY DEF Known, Sized, MunmapAccepted, Running
<1> QED BY <1>1, <1>2, <1>3, <1>4

(* A new struct, on the list of o: what host_map and the ioctls that create *)
(* a mapped object have in common.                                          *)
LEMMA AttachStep ==
  ASSUME IInv, NEW o \in Object, NEW off \in Offset, NEW tag \in Tag \cup {-1, 0}, NEW m \in Malloc,
         objects' \in Seq(Object), Distinct(objects'),
         Contains(objects', o), \A x : Contains(objects, x) => Contains(objects', x),
         heap' = [heap EXCEPT ![m] = NewMapping(o, off, tag)],
         attached' = [attached EXCEPT ![o] = << m >> \o @],
         UNCHANGED << table, slots, maxId, status, region >>
  PROVE  IInv'
<1> USE NumberAssumption, NullAssumption DEF IInv
<1>1. m \in Mapping /\ heap[m] = NULL
  BY DEF Malloc
<1>2. NewMapping(o, off, tag) \in Struct /\ NewMapping(o, off, tag) # NULL
  <2>1. NewMapping(o, off, tag) \in Struct
    BY DEF NewMapping, Struct
  <2> QED BY <2>1
<1>3. \A p \in Object : attached[p] \in Seq(Mapping) /\ Distinct(attached[p]) /\ ~Contains(attached[p], m)
  BY <1>1 DEF TypeOK, Linked, Distinct
<1>4. /\ attached'[o] \in Seq(Mapping) /\ Distinct(attached'[o])
      /\ \A x : Contains(attached'[o], x) <=> x = m \/ Contains(attached[o], x)
  <2>1. attached'[o] = << m >> \o attached[o]
    BY DEF TypeOK
  <2> QED BY <1>1, <1>3, <2>1, InFront
<1>5. TypeOK'
  BY <1>1, <1>2, <1>4 DEF TypeOK
<1>6. Linked'
  <2> SUFFICES ASSUME NEW p \in Object
               PROVE  /\ \A x \in Mapping : Contains(attached'[p], x) <=> heap'[x] # NULL /\ heap'[x].object = p
                      /\ Distinct(attached'[p])
                      /\ attached'[p] # << >> => Contains(objects', p)
    BY DEF Linked, Distinct
  <2>1. heap'[m].object = o /\ heap'[m] # NULL /\ \A x \in Mapping \ {m} : heap'[x] = heap[x]
    BY <1>1, <1>2 DEF TypeOK, NewMapping
  <2>2. CASE p = o
    BY <1>4, <2>1, <2>2 DEF Linked
  <2>3. CASE p # o
    <3>1. attached'[p] = attached[p]
      BY <2>3 DEF TypeOK
    <3> QED BY <1>1, <1>3, <2>1, <2>3, <3>1 DEF Linked
  <2> QED BY <2>2, <2>3
<1>7. ASSUME Running PROVE Known'
  <2>1. \A i \in Id : table[i] # NULL => table[i] \in Mapping /\ table[i] # m
    BY <1>1, <1>7 DEF Known, TypeOK
  <2>2. heap'[m] = NewMapping(o, off, tag) /\ \A x \in Mapping \ {m} : heap'[x] = heap[x]
    BY <1>1 DEF TypeOK
  <2>3. NewMapping(o, off, tag).id = 0 /\ NewMapping(o, off, tag).addr = 0 /\ NewMapping(o, off, tag).object = o
    BY DEF NewMapping
  <2>4. Known /\ table' = table /\ region' = region
    BY <1>7
  <2>5. \A i \in Id : table'[i] # NULL => heap'[table'[i]] # NULL /\ heap'[table'[i]].id = i
    BY <2>1, <2>2, <2>4 DEF Known
  <2>6. ASSUME NEW x \in Mapping, heap'[x] # NULL
        PROVE  IF heap'[x].id = 0 THEN heap'[x].addr = 0 /\ heap'[x].object # NULL
               ELSE table'[heap'[x].id] = x /\ heap'[x].addr = region'[heap'[x].id].addr
    <3>1. CASE x = m
      BY <2>2, <2>3, <3>1
    <3>2. CASE x # m
      BY <2>2, <2>4, <2>6, <3>2 DEF Known
    <3> QED BY <3>1, <3>2
  <2> QED BY <2>4, <2>5, <2>6 DEF Known
<1>8. Sized' /\ MunmapAccepted'
  BY DEF Sized, MunmapAccepted
<1> QED BY <1>5, <1>6, <1>7, <1>8 DEF Running

LEMMA HostMapStep ==
  ASSUME IInv, NEW o \in Object, NEW off \in Offset, NEW tag \in Tag \cup {-1}, HostMap(o, off, tag)
  PROVE  IInv'
<1>1. PICK m \in Malloc : /\ heap' = [heap EXCEPT ![m] = NewMapping(o, off, tag)]
                          /\ attached' = [attached EXCEPT ![o] = << m >> \o @]
  BY DEF HostMap
<1>2. /\ objects' \in Seq(Object) /\ Distinct(objects') /\ Contains(objects', o)
      /\ \A x : Contains(objects, x) => Contains(objects', x)
  BY DEF HostMap, IInv, TypeOK
<1>3. UNCHANGED << table, slots, maxId, status, region >>
  BY DEF HostMap
<1> QED BY <1>1, <1>2, <1>3, AttachStep

LEMMA CreateMappedStep ==
  ASSUME IInv, NEW o \in Object, NEW off \in Offset, NEW tag \in Tag \cup {-1, 0},
         CreateMapped(o, off, tag)
  PROVE  IInv'
<1>1. PICK m \in Malloc : /\ heap' = [heap EXCEPT ![m] = NewMapping(o, off, tag)]
                          /\ attached' = [attached EXCEPT ![o] = << m >>]
  BY DEF CreateMapped
<1>2. attached[o] = << >>
  BY DEF CreateMapped, IInv, Linked
<1>3. attached' = [attached EXCEPT ![o] = << m >> \o @]
  <2>1. << m >> \o << >> = << m >>
    OBVIOUS
  <2> QED BY <1>1, <1>2, <2>1
<1>4. /\ objects' \in Seq(Object) /\ Distinct(objects') /\ Contains(objects', o)
      /\ \A x : Contains(objects, x) => Contains(objects', x)
  <2>1. objects \in Seq(Object)
    BY DEF IInv, TypeOK
  <2> QED BY <2>1, InFront DEF CreateMapped, IInv
<1>5. UNCHANGED << table, slots, maxId, status, region >>
  BY DEF CreateMapped
<1> QED BY <1>1, <1>3, <1>4, <1>5, AttachStep

(* Mappings in L leave their lists: those the table does not hold are       *)
(* freed.  What host_unmap and gpu_object_destroy have in common.           *)
LEMMA DetachStep ==
  ASSUME IInv, Running, NEW L \in SUBSET Mapping,
         objects' \in Seq(Object), Distinct(objects'),
         attached' \in [Object -> Seq(Mapping)],
         \A p \in Object : /\ Distinct(attached'[p])
                           /\ \A x : Contains(attached'[p], x) <=> Contains(attached[p], x) /\ x \notin L
                           /\ attached'[p] # << >> => Contains(objects', p),
         heap' \in [Mapping -> Struct \cup {NULL}],
         \A x \in Mapping \ L : heap'[x] = heap[x],
         \A x \in L : /\ heap[x] # NULL
                      /\ heap[x].id = 0 => heap'[x] = NULL
                      /\ heap[x].id # 0 => /\ heap'[x] # NULL /\ heap'[x].object = NULL
                                           /\ heap'[x].addr = heap[x].addr /\ heap'[x].id = heap[x].id,
         UNCHANGED << table, slots, maxId, status, region >>
  PROVE  IInv'
<1> USE NumberAssumption, NullAssumption DEF IInv
<1>1. TypeOK'
  BY DEF TypeOK
<1>2. Linked'
  BY DEF Linked, Distinct
<1>3. Known'
  <2>1. Known /\ table' = table /\ region' = region /\ table \in [Id -> Mapping \cup {NULL}]
        /\ 0 \notin Id
    BY DEF TypeOK
  <2>2. \A i \in Id : table'[i] # NULL => heap'[table'[i]] # NULL /\ heap'[table'[i]].id = i
    <3> SUFFICES ASSUME NEW i \in Id, table[i] # NULL
                 PROVE  heap'[table[i]] # NULL /\ heap'[table[i]].id = i
      BY <2>1
    <3>1. table[i] \in Mapping /\ heap[table[i]] # NULL /\ heap[table[i]].id = i /\ i # 0
      <4> HIDE DEF IInv
      <4> QED BY <2>1 DEF Known
    <3> QED BY <3>1
  <2>3. \A x \in Mapping : heap'[x] # NULL =>
          IF heap'[x].id = 0 THEN heap'[x].addr = 0 /\ heap'[x].object # NULL
          ELSE table'[heap'[x].id] = x /\ heap'[x].addr = region'[heap'[x].id].addr
    BY <2>1 DEF Known
  <2> QED BY <2>1, <2>2, <2>3 DEF Known
<1>4. Sized' /\ MunmapAccepted'
  BY DEF Sized, MunmapAccepted
<1> QED BY <1>1, <1>2, <1>3, <1>4

(* In a state that is known a struct is kept exactly when it has an id.     *)
LEMMA DetachedFacts ==
  ASSUME IInv, Running, NEW m \in Mapping, heap[m] # NULL
  PROVE  /\ heap[m].id = 0 => Detached(m) = NULL
         /\ heap[m].id # 0 => /\ Detached(m) \in Struct
                              /\ Detached(m).object = NULL /\ Detached(m).id = heap[m].id
                              /\ Detached(m).addr = heap[m].addr
<1>1. heap[m] \in Struct
  BY DEF IInv, TypeOK
<1>2. heap[m].id # 0 => table[heap[m].id] = m
  BY DEF IInv, Known
<1> QED BY <1>1, <1>2 DEF Detached, Struct

LEMMA HostUnmapStep ==
  ASSUME IInv, NEW o \in Object, NEW n, HostUnmap(o, n)
  PROVE  IInv'
<1> USE NumberAssumption, NullAssumption
<1>1. Running
  BY DEF HostUnmap
<1>2. CASE Meant(o, n) = NULL
  <2>1. status' = "host_unmap aborted"
    BY <1>2 DEF HostUnmap
  <2>2. UNCHANGED << objects, attached, heap, table, slots, maxId, region >>
    BY <1>2 DEF HostUnmap
  <2>3. ~Running' /\ MunmapAccepted'
    BY <2>1 DEF MunmapAccepted, Running
  <2>4. TypeOK'
    BY <2>1, <2>2 DEF IInv, TypeOK
  <2>5. Distinct(objects)' /\ Linked' /\ Sized'
    BY <2>2 DEF IInv, Linked, Sized
  <2> QED BY <2>3, <2>4, <2>5 DEF IInv
<1>3. ASSUME NEW m, m = Meant(o, n), m # NULL PROVE IInv'
  <2>1. m \in Mapping /\ Contains(attached[o], m)
    BY <1>3, MeantFound DEF IInv
  <2>2. heap[m] # NULL
    BY <2>1 DEF IInv, Linked
  <2>3. /\ heap' = [heap EXCEPT ![m] = IF Detached(m) = NULL THEN NULL
                                        ELSE [Detached(m) EXCEPT !.offset = -1, !.tag = -1]]
        /\ attached' = [attached EXCEPT ![o] = RemoveFirst(@, m)]
        /\ Contains(objects, o) /\ UNCHANGED << objects, table, slots, maxId, status, region >>
    BY <1>3 DEF HostUnmap
  <2>4. /\ attached' \in [Object -> Seq(Mapping)]
        /\ \A p \in Object : /\ Distinct(attached'[p])
                             /\ \A x : Contains(attached'[p], x) <=> Contains(attached[p], x) /\ x \notin {m}
                             /\ attached'[p] # << >> => Contains(objects', p)
    <3>1. \A p \in Object : attached[p] \in Seq(Mapping) /\ Distinct(attached[p])
      BY DEF IInv, TypeOK, Linked, Distinct
    <3>2. /\ RemoveFirst(attached[o], m) \in Seq(Mapping) /\ Distinct(RemoveFirst(attached[o], m))
          /\ \A x : Contains(RemoveFirst(attached[o], m), x) <=> Contains(attached[o], x) /\ x # m
      BY <3>1, RemoveFirstDistinct
    <3>3. attached'[o] = RemoveFirst(attached[o], m) /\ \A p \in Object \ {o} : attached'[p] = attached[p]
      BY <2>3 DEF IInv, TypeOK
    <3>4. \A p \in Object \ {o} : ~Contains(attached[p], m)
      BY <2>1 DEF IInv, Linked
    <3>5. \A p \in Object : attached'[p] # << >> => Contains(objects', p)
      BY <2>3, <3>3 DEF IInv, Linked
    <3>6. attached' \in [Object -> Seq(Mapping)]
      BY <2>3, <3>2 DEF IInv, TypeOK
    <3>7. ASSUME NEW p \in Object, NEW x
          PROVE  Contains(attached'[p], x) <=> Contains(attached[p], x) /\ x \notin {m}
      BY <3>2, <3>3, <3>4
    <3> QED BY <3>1, <3>2, <3>3, <3>5, <3>6, <3>7
  <2>5. /\ heap' \in [Mapping -> Struct \cup {NULL}]
        /\ \A x \in Mapping \ {m} : heap'[x] = heap[x]
        /\ heap[m].id = 0 => heap'[m] = NULL
        /\ heap[m].id # 0 => /\ heap'[m] # NULL /\ heap'[m].object = NULL
                             /\ heap'[m].addr = heap[m].addr /\ heap'[m].id = heap[m].id
    <3> DEFINE d == IF Detached(m) = NULL THEN NULL ELSE [Detached(m) EXCEPT !.offset = -1, !.tag = -1]
    <3>1. /\ heap[m].id = 0 => d = NULL
          /\ heap[m].id # 0 => /\ d \in Struct /\ d # NULL /\ d.object = NULL
                               /\ d.addr = heap[m].addr /\ d.id = heap[m].id
      <4>1. CASE heap[m].id = 0
        BY <1>1, <2>1, <2>2, <4>1, DetachedFacts
      <4>2. CASE heap[m].id # 0
        <5>1. /\ Detached(m) \in Struct /\ Detached(m) # NULL /\ Detached(m).object = NULL
              /\ Detached(m).id = heap[m].id /\ Detached(m).addr = heap[m].addr
          BY <1>1, <2>1, <2>2, <4>2, DetachedFacts
        <5>2. d \in Struct /\ d.object = NULL /\ d.id = heap[m].id /\ d.addr = heap[m].addr
          BY <5>1 DEF Struct
        <5> QED BY <4>2, <5>2
      <4> QED BY <4>1, <4>2
    <3>2. heap' = [heap EXCEPT ![m] = d]
      BY <2>3
    <3> HIDE DEF d
    <3>3. heap \in [Mapping -> Struct \cup {NULL}] /\ d \in Struct \cup {NULL}
      BY <3>1 DEF IInv, TypeOK
    <3> QED BY <2>1, <3>1, <3>2, <3>3
  <2>6. objects' \in Seq(Object) /\ Distinct(objects')
    BY <2>3 DEF IInv, TypeOK
  <2>7. UNCHANGED << table, slots, maxId, status, region >>
    BY <2>3
  <2> DEFINE L == {m}
  <2>8. /\ \A x \in Mapping \ L : heap'[x] = heap[x]
        /\ \A x \in L : /\ heap[x] # NULL
                        /\ heap[x].id = 0 => heap'[x] = NULL
                        /\ heap[x].id # 0 => /\ heap'[x] # NULL /\ heap'[x].object = NULL
                                             /\ heap'[x].addr = heap[x].addr /\ heap'[x].id = heap[x].id
    BY <2>2, <2>5
  <2>9. \A p \in Object : /\ Distinct(attached'[p])
                          /\ \A x : Contains(attached'[p], x) <=> Contains(attached[p], x) /\ x \notin L
                          /\ attached'[p] # << >> => Contains(objects', p)
    BY <2>4
  <2>10. L \in SUBSET Mapping
    BY <2>1
  <2> HIDE DEF L
  <2> QED BY <1>1, <2>10, <2>4, <2>5, <2>6, <2>7, <2>8, <2>9, DetachStep
<1> QED BY <1>2, <1>3

LEMMA DestroyStep ==
  ASSUME IInv, NEW o \in Object, Destroy(o)
  PROVE  IInv'
<1> DEFINE L == { x \in Mapping : Contains(attached[o], x) }
<1> USE NumberAssumption, NullAssumption
<1>1. Running
  BY DEF Destroy
<1>2. objects' \in Seq(Object) /\ Distinct(objects') /\ \A x : Contains(objects', x) <=> Contains(objects, x) /\ x # o
  <2>1. objects \in Seq(Object) /\ Distinct(objects)
    BY DEF IInv, TypeOK
  <2> QED BY <2>1, RemoveFirstDistinct DEF Destroy
<1>3. attached' = [attached EXCEPT ![o] = << >>] /\ UNCHANGED << table, slots, maxId, status, region >>
  BY DEF Destroy
<1>4. attached' \in [Object -> Seq(Mapping)] /\ attached'[o] = << >> /\ \A p \in Object \ {o} : attached'[p] = attached[p]
  <2>1. attached \in [Object -> Seq(Mapping)]
    BY DEF IInv, TypeOK
  <2>2. << >> \in Seq(Mapping)
    OBVIOUS
  <2> QED BY <1>3, <2>1, <2>2, Zenon
<1>5. ASSUME NEW p \in Object
      PROVE  /\ Distinct(attached'[p])
             /\ \A x : Contains(attached'[p], x) <=> Contains(attached[p], x) /\ x \notin L
             /\ attached'[p] # << >> => Contains(objects', p)
  <2>1. CASE p = o
    <3>1. attached[p] \in Seq(Mapping)
      BY DEF IInv, TypeOK
    <3>2. \A x : Contains(attached[p], x) => x \in Mapping
      BY <3>1, ElementOfSeq DEF Contains
    <3>3. attached'[p] = << >>
      BY <1>4, <2>1
    <3> QED BY <2>1, <3>2, <3>3 DEF Contains, Distinct
  <2>2. CASE p # o
    <3>1. attached'[p] = attached[p] /\ Distinct(attached[p])
      BY <1>4, <2>2 DEF IInv, Linked, Distinct
    <3>2. attached[p] # << >> => Contains(objects, p)
      BY DEF IInv, Linked
    <3>3. ASSUME NEW x \in L PROVE ~Contains(attached[p], x)
      <4>1. heap[x].object = o
        BY <3>3 DEF IInv, Linked
      <4> QED BY <2>2, <3>3, <4>1 DEF IInv, Linked
    <3> QED BY <1>2, <2>2, <3>1, <3>2, <3>3
  <2> QED BY <2>1, <2>2
<1> DEFINE d(x) == IF Detached(x) = NULL THEN NULL ELSE [Detached(x) EXCEPT !.offset = 0]
<1>6. heap' = [m \in Mapping |-> IF ~Contains(attached[o], m) THEN heap[m] ELSE d(m)]
  BY DEF Destroy
<1>7. ASSUME NEW x \in L
      PROVE  /\ heap[x] # NULL
             /\ heap[x].id = 0 => d(x) = NULL
             /\ heap[x].id # 0 => /\ d(x) \in Struct /\ d(x) # NULL /\ d(x).object = NULL
                                  /\ d(x).addr = heap[x].addr /\ d(x).id = heap[x].id
  <2>1. x \in Mapping /\ heap[x] # NULL
    BY <1>7 DEF IInv, Linked
  <2>2. CASE heap[x].id = 0
    BY <1>1, <2>1, <2>2, DetachedFacts
  <2>3. CASE heap[x].id # 0
    <3>1. /\ Detached(x) \in Struct /\ Detached(x) # NULL /\ Detached(x).object = NULL
          /\ Detached(x).id = heap[x].id /\ Detached(x).addr = heap[x].addr
      BY <1>1, <2>1, <2>3, DetachedFacts
    <3>2. d(x) \in Struct /\ d(x).object = NULL /\ d(x).id = heap[x].id /\ d(x).addr = heap[x].addr
      BY <3>1 DEF Struct
    <3> QED BY <2>1, <2>3, <3>2
  <2> QED BY <2>1, <2>2, <2>3
<1> HIDE DEF d
<1>8. /\ heap' \in [Mapping -> Struct \cup {NULL}]
      /\ \A x \in Mapping \ L : heap'[x] = heap[x]
      /\ \A x \in L : heap'[x] = d(x)
  <2>1. heap \in [Mapping -> Struct \cup {NULL}]
    BY DEF IInv, TypeOK
  <2>2. \A x \in L : d(x) \in Struct \cup {NULL}
    <3> TAKE x \in L
    <3>1. heap[x].id = 0 \/ heap[x].id # 0
      OBVIOUS
    <3> QED BY <1>7, <3>1
  <2> QED BY <1>6, <2>1, <2>2
<1>9. \A x \in L : /\ heap[x] # NULL
                   /\ heap[x].id = 0 => heap'[x] = NULL
                   /\ heap[x].id # 0 => /\ heap'[x] # NULL /\ heap'[x].object = NULL
                                        /\ heap'[x].addr = heap[x].addr /\ heap'[x].id = heap[x].id
  BY <1>7, <1>8
<1>10. L \in SUBSET Mapping
  OBVIOUS
<1> HIDE DEF L
<1> QED BY <1>1, <1>2, <1>3, <1>4, <1>5, <1>8, <1>9, <1>10, DetachStep

-----------------------------------------------------------------------------
(* Regions.                                                                 *)

(* set_cpu_mapping: as ids come one after the other, doubling the table     *)
(* once makes room for the next one.                                        *)
LEMMA SetStep ==
  ASSUME TypeOK, Sized, NEW id \in Id, NEW m \in Mapping \cup {NULL}, maxId # 0 => id <= maxId + 1,
         SetCpuMapping(id, m)
  PROVE  /\ Sized' /\ slots' \in Nat /\ maxId' \in Id \cup {0}
         /\ table' \in [Id -> Mapping \cup {NULL}]
         /\ table'[id] = m /\ \A i \in Id \ {id} : table'[i] = table[i]
<1> USE NumberAssumption, NullAssumption
<1>1. /\ slots \in Nat /\ maxId \in Nat /\ FirstSlots \in Nat /\ FirstSlots > 0 /\ id \in Nat /\ id > 0
      /\ maxId \in Id \cup {0} /\ \A i \in Id : i \in Nat
  <2>1. \A i \in Id : i \in Nat /\ i > 0
    OBVIOUS
  <2>2. slots \in Nat /\ maxId \in Id \cup {0}
    BY DEF TypeOK
  <2> QED BY <2>1, <2>2
<1>2. slots' = SlotsFor(id) /\ maxId' = IF id > maxId THEN id ELSE maxId
  BY DEF SetCpuMapping
<1>3. SlotsFor(id) \in Nat /\ SlotsFor(id) >= slots /\ id < SlotsFor(id)
  <2>1. slots # 0 => maxId < slots /\ maxId # 0
    BY DEF Sized
  <2>2. CASE slots = 0
    BY <1>1, <2>2 DEF SlotsFor
  <2>3. CASE slots # 0
    BY <1>1, <2>1, <2>3 DEF SlotsFor
  <2> QED BY <2>2, <2>3
<1>4. /\ table' \in [Id -> Mapping \cup {NULL}]
      /\ table'[id] = m /\ \A i \in Id \ {id} : table'[i] = table[i]
  BY DEF SetCpuMapping, TypeOK
<1>5. maxId' \in Id \cup {0} /\ maxId' >= id /\ maxId' >= maxId /\ maxId' # 0
  BY <1>1, <1>2
<1>6. slots' # 0 /\ maxId' < slots'
  <2>1. slots # 0 => maxId < slots
    BY DEF Sized
  <2>2. slots = 0 => maxId = 0
    BY DEF Sized
  <2> QED BY <1>1, <1>2, <1>3, <2>1, <2>2
<1>7. \A i \in Id : table'[i] # NULL => i <= maxId'
  <2> TAKE i \in Id
  <2>1. CASE i = id
    BY <1>5, <2>1
  <2>2. CASE i # id
    <3>1. table[i] # NULL => i <= maxId
      BY DEF Sized
    <3> QED BY <1>1, <1>2, <1>4, <2>2, <3>1
  <2> QED BY <2>1, <2>2
<1> QED BY <1>2, <1>3, <1>4, <1>5, <1>6, <1>7 DEF Sized

(* The struct m gets the region id: what nvrm_mmap does with the mapping it *)
(* found, or buffer_mmap with a new one.                                    *)
LEMMA AssignStep ==
  ASSUME IInv, Running, NEW id \in Id, NEW a \in Addr, NEW off \in Offset, NEW m \in Mapping,
         NEW r \in Struct, r.id = id, r.addr = a,
         r.object = IF heap[m] = NULL THEN NULL ELSE heap[m].object,
         NewRegion(id, a), SetCpuMapping(id, m),
         heap' = [heap EXCEPT ![m] = r],
         region' = [region EXCEPT ![id] = [addr |-> a, offset |-> off]],
         status' = IF heap[m] = NULL \/ heap[m].id = 0 THEN status ELSE "reuse",
         UNCHANGED << objects, attached >>
  PROVE  IInv'
<1> USE NumberAssumption, NullAssumption
<1>1. TypeOK /\ Linked /\ Sized /\ MunmapAccepted /\ Known /\ Distinct(objects)
  BY DEF IInv
<1>2. /\ Sized' /\ slots' \in Nat /\ maxId' \in Id \cup {0}
      /\ table' \in [Id -> Mapping \cup {NULL}]
      /\ table'[id] = m /\ \A i \in Id \ {id} : table'[i] = table[i]
  BY <1>1, SetStep DEF NewRegion
<1>3. r # NULL /\ heap'[m] = r /\ \A x \in Mapping \ {m} : heap'[x] = heap[x]
  BY <1>1 DEF TypeOK
<1>4. /\ region' \in [Id -> Region \cup {NULL}] /\ region'[id] # NULL /\ region'[id].addr = a
      /\ \A i \in Id \ {id} : region'[i] = region[i]
  <2>1. [addr |-> a, offset |-> off] \in Region
    BY DEF Region
  <2>2. region \in [Id -> Region \cup {NULL}]
    BY <1>1 DEF TypeOK
  <2> QED BY <2>1, <2>2
<1>5. TypeOK'
  BY <1>1, <1>2, <1>4 DEF TypeOK
<1>6. Linked'
  <2>1. ASSUME NEW o \in Object, NEW x \in Mapping
        PROVE  (heap'[x] # NULL /\ heap'[x].object = o) <=> (heap[x] # NULL /\ heap[x].object = o)
    BY <1>3
  <2> QED BY <1>1, <2>1 DEF Linked
<1>7. MunmapAccepted'
  BY <1>1 DEF MunmapAccepted
<1>8. ASSUME Running' PROVE Known'
  <2>1. heap[m] = NULL \/ heap[m].id = 0
    BY <1>8 DEF Running
  <2>2. region[id] = NULL /\ table[id] = NULL
    BY <1>1 DEF NewRegion, Known
  <2>3. \A i \in Id : table'[i] # NULL <=> region'[i] # NULL
    BY <1>1, <1>2, <1>4 DEF Known
  <2>4. ASSUME NEW i \in Id, table'[i] # NULL
        PROVE  heap'[table'[i]] # NULL /\ heap'[table'[i]].id = i
    <3>1. CASE i = id
      BY <1>2, <1>3, <3>1
    <3>2. CASE i # id
      <4>1. table[i] \in Mapping /\ heap[table[i]] # NULL /\ heap[table[i]].id = i /\ i # 0
        <5>1. table[i] = table'[i] /\ table[i] # NULL
          BY <1>2, <2>4, <3>2
        <5>2. table[i] \in Mapping /\ i # 0
          BY <1>1, <5>1 DEF TypeOK
        <5>3. heap[table[i]] # NULL /\ heap[table[i]].id = i
          BY <1>1, <5>1 DEF Known
        <5> QED BY <5>2, <5>3
      <4> QED BY <1>2, <1>3, <2>1, <3>2, <4>1
    <3> QED BY <3>1, <3>2
  <2>5. ASSUME NEW x \in Mapping, heap'[x] # NULL
        PROVE  IF heap'[x].id = 0 THEN heap'[x].addr = 0 /\ heap'[x].object # NULL
               ELSE table'[heap'[x].id] = x /\ heap'[x].addr = region'[heap'[x].id].addr
    <3>1. CASE x = m
      BY <1>2, <1>3, <1>4, <3>1
    <3>2. CASE x # m
      <4>1. heap'[x] = heap[x] /\ heap[x] \in Struct
        BY <1>1, <1>3, <2>5, <3>2 DEF TypeOK
      <4>2. heap[x].id \in Id \cup {0}
        BY <4>1 DEF Struct
      <4>3. heap[x].id # id
        BY <1>1, <2>2, <2>5, <4>1 DEF Known
      <4>4. IF heap[x].id = 0 THEN heap[x].addr = 0 /\ heap[x].object # NULL
            ELSE table[heap[x].id] = x /\ heap[x].addr = region[heap[x].id].addr
        BY <1>1, <2>5, <4>1 DEF Known
      <4>5. CASE heap[x].id = 0
        BY <4>1, <4>4, <4>5
      <4>6. CASE heap[x].id # 0
        <5> PICK i : i = heap[x].id
          OBVIOUS
        <5>1. i \in Id \ {id} /\ i # 0
          BY <4>2, <4>3, <4>6
        <5>2. table'[i] = table[i] /\ region'[i] = region[i]
          BY <1>2, <1>4, <5>1
        <5>3. heap'[x].id = i /\ table[i] = x /\ heap'[x].addr = region[i].addr
          BY <4>1, <4>4, <4>6
        <5> QED BY <5>1, <5>2, <5>3
      <4> QED BY <4>5, <4>6
    <3> QED BY <3>1, <3>2
  <2>6. ASSUME NEW i \in Id, NEW j \in Id, region'[i] # NULL, region'[j] # NULL, i # j
        PROVE  region'[i].addr # region'[j].addr
    BY <1>1, <1>4, <2>6 DEF Known, NewRegion, Unmapped
  <2> QED BY <2>3, <2>4, <2>5, <2>6 DEF Known
<1> QED BY <1>1, <1>2, <1>5, <1>6, <1>7, <1>8 DEF IInv

LEMMA MmapStep ==
  ASSUME IInv, NEW id \in Id, NEW a \in Addr, NEW off \in Offset, Mmap(id, a, off)
  PROVE  IInv'
<1> USE NumberAssumption, NullAssumption
<1>1. /\ Running /\ NewRegion(id, a) /\ UNCHANGED << objects, attached >>
      /\ region' = [region EXCEPT ![id] = [addr |-> a, offset |-> off]]
  BY DEF Mmap
<1>2. heap \in [Mapping -> Struct \cup {NULL}]
  BY DEF IInv, TypeOK
<1>3. ASSUME NEW m, m = Announced(off), m # NULL PROVE IInv'
  <2>1. /\ heap' = [heap EXCEPT ![m].addr = a, ![m].id = id, ![m].offset = IF off = 0 THEN -1 ELSE off]
        /\ SetCpuMapping(id, m)
        /\ status' = IF heap[m].id # 0 THEN "reuse" ELSE status
    BY <1>3 DEF Mmap
  <2>2. m \in Mapping /\ heap[m] # NULL
    BY <1>3, AnnouncedFound DEF IInv, Linked
  <2>3. heap[m] \in Struct
    BY <1>2, <2>2
  <2> DEFINE r == [heap[m] EXCEPT !.addr = a, !.id = id, !.offset = IF off = 0 THEN -1 ELSE off]
  <2>4. r \in Struct /\ r.id = id /\ r.addr = a /\ r.object = heap[m].object
    BY <2>3 DEF Struct
  <2>5. heap' = [heap EXCEPT ![m] = r]
    BY <1>2, <2>1, <2>2
  <2> HIDE DEF r
  <2> QED BY <1>1, <2>1, <2>2, <2>4, <2>5, AssignStep
<1>4. CASE Announced(off) = NULL
  <2>1. PICK m \in Malloc :
           /\ heap' = [heap EXCEPT ![m] = [NewMapping(NULL, off, 0) EXCEPT !.addr = a, !.id = id]]
           /\ SetCpuMapping(id, m) /\ UNCHANGED status
    BY <1>4 DEF Mmap
  <2>2. m \in Mapping /\ heap[m] = NULL
    BY DEF Malloc
  <2> DEFINE r == [NewMapping(NULL, off, 0) EXCEPT !.addr = a, !.id = id]
  <2>3. r \in Struct /\ r.id = id /\ r.addr = a /\ r.object = NULL
    BY DEF Struct, NewMapping
  <2> HIDE DEF r
  <2>4. heap' = [heap EXCEPT ![m] = r]
    BY <2>1 DEF r
  <2> QED BY <1>1, <2>1, <2>2, <2>3, <2>4, AssignStep
<1> QED BY <1>3, <1>4

(* The program stops: nothing but the regions and the status changes.       *)
LEMMA StopStep ==
  ASSUME IInv, status' \in {"reuse", "write aborted", "host_unmap aborted", "undefined"},
         UNCHANGED << objects, attached, heap, table, slots, maxId, region >>
  PROVE  IInv'
<1>1. ~Running' /\ MunmapAccepted'
  BY DEF MunmapAccepted, Running
<1>2. TypeOK'
  <2>1. TypeOK /\ status' \in {"reuse", "write aborted", "host_unmap aborted", "undefined"}
    BY DEF IInv
  <2> HIDE DEF IInv
  <2> QED BY <2>1 DEF TypeOK
<1>3. Distinct(objects)' /\ Linked' /\ Sized'
  BY ZenonT(60) DEF IInv, Linked, Sized
<1> QED BY <1>1, <1>2, <1>3 DEF IInv

(* The table holds the struct of a region that is mapped. *)
LEMMA RegionKnown ==
  ASSUME IInv, Running, NEW id \in Id, region[id] # NULL
  PROVE  /\ region[id] \in Region /\ table[id] \in Mapping /\ table[id] # NULL
         /\ heap[table[id]] \in Struct /\ heap[table[id]] # NULL
         /\ heap[table[id]].id = id /\ heap[table[id]].addr = region[id].addr /\ id # 0
<1> USE NumberAssumption, NullAssumption
<1>1. TypeOK /\ Known
  BY DEF IInv
<1>2. table[id] \in Mapping /\ region[id] \in Region /\ id # 0
  <2>1. table[id] # NULL
    BY <1>1 DEF Known
  <2>2. table[id] \in Mapping
    BY <1>1, <2>1 DEF TypeOK
  <2>3. region[id] \in Region
    BY <1>1 DEF TypeOK
  <2> QED BY <2>2, <2>3
<1>3. heap[table[id]] # NULL /\ heap[table[id]].id = id
  BY <1>1 DEF Known
<1>4. heap[table[id]].addr = region[id].addr
  BY <1>1, <1>2, <1>3 DEF Known
<1>5. heap[table[id]] \in Struct
  BY <1>1, <1>2, <1>3 DEF TypeOK
<1> QED BY <1>2, <1>3, <1>4, <1>5

LEMMA WriteStep ==
  ASSUME IInv, NEW id \in Id, Write(id)
  PROVE  IInv'
BY RegionKnown, StopStep DEF Write

LEMMA MremapStep ==
  ASSUME IInv, NEW id \in Id, NEW a \in Addr, NEW resized \in BOOLEAN, Mremap(id, a, resized)
  PROVE  IInv'
<1> USE NumberAssumption, NullAssumption
<1>1. Running /\ region[id] # NULL /\ (Unmapped(a) \/ a = region[id].addr)
      /\ UNCHANGED << objects, attached, table, slots, maxId >>
  BY DEF Mremap
<1>2. PICK m \in Mapping : m = table[id] /\ heap[m] # NULL
  BY <1>1, RegionKnown
<1>3. CASE resized /\ heap[m].object # NULL
  BY <1>1, <1>2, <1>3, StopStep DEF Mremap
<1>4. CASE ~(resized /\ heap[m].object # NULL)
  <2>1. /\ heap' = [heap EXCEPT ![m].addr = a, ![m].offset = region[id].offset, ![m].data = resized \/ @]
        /\ region' = [region EXCEPT ![id].addr = a]
        /\ UNCHANGED status
    BY <1>2, <1>4 DEF Mremap
  <2>2. TypeOK /\ Linked /\ Sized /\ MunmapAccepted /\ Known /\ Distinct(objects)
    BY <1>1 DEF IInv
  <2>3. /\ region[id] \in Region /\ m \in Mapping /\ heap[m] \in Struct
        /\ heap[m].id = id /\ heap[m].addr = region[id].addr /\ id # 0
    BY <1>1, <1>2, RegionKnown
  <2> DEFINE r == [heap[m] EXCEPT !.addr = a, !.offset = region[id].offset, !.data = resized \/ @]
             q == [region[id] EXCEPT !.addr = a]
  <2>4. r \in Struct /\ r.id = id /\ r.addr = a /\ r.object = heap[m].object
    BY <2>3 DEF Struct, Region
  <2>5. q \in Region /\ q.addr = a
    BY <2>3 DEF Region
  <2>6. heap' = [heap EXCEPT ![m] = r] /\ region' = [region EXCEPT ![id] = q]
    BY <2>1, <2>2 DEF TypeOK
  <2> HIDE DEF r, q
  <2>7. r # NULL /\ heap'[m] = r /\ \A x \in Mapping \ {m} : heap'[x] = heap[x]
    BY <2>2, <2>4, <2>6 DEF TypeOK
  <2>8. q # NULL /\ region'[id] = q /\ \A i \in Id \ {id} : region'[i] = region[i]
    BY <2>2, <2>5, <2>6 DEF TypeOK
  <2>9. TypeOK'
    <3>1. heap' \in [Mapping -> Struct \cup {NULL}]
      BY <2>2, <2>4, <2>6 DEF TypeOK
    <3>2. region' \in [Id -> Region \cup {NULL}]
      BY <2>2, <2>5, <2>6 DEF TypeOK
    <3> QED BY <1>1, <2>1, <2>2, <3>1, <3>2 DEF TypeOK
  <2>10. Linked'
    <3>1. ASSUME NEW o \in Object, NEW x \in Mapping
          PROVE  (heap'[x] # NULL /\ heap'[x].object = o) <=> (heap[x] # NULL /\ heap[x].object = o)
      BY <1>2, <2>4, <2>7
    <3> QED BY <1>1, <2>2, <3>1 DEF Linked
  <2>11. Sized' /\ MunmapAccepted'
    BY <1>1, <2>1, <2>2 DEF Sized, MunmapAccepted
  <2>12. Known'
    <3>1. \A i \in Id : table'[i] # NULL <=> region'[i] # NULL
      BY <1>1, <2>2, <2>8 DEF Known
    <3>2. ASSUME NEW i \in Id, table'[i] # NULL
          PROVE  heap'[table'[i]] # NULL /\ heap'[table'[i]].id = i
      <4>1. table[i] # NULL /\ table' = table
        BY <1>1, <3>2
      <4>2. table[i] \in Mapping
        BY <2>2, <4>1 DEF TypeOK
      <4>3. heap[table[i]] # NULL /\ heap[table[i]].id = i
        BY <2>2, <4>1 DEF Known
      <4> QED BY <2>3, <2>4, <2>7, <4>1, <4>2, <4>3
    <3>3. ASSUME NEW x \in Mapping, heap'[x] # NULL
          PROVE  IF heap'[x].id = 0 THEN heap'[x].addr = 0 /\ heap'[x].object # NULL
                 ELSE table'[heap'[x].id] = x /\ heap'[x].addr = region'[heap'[x].id].addr
      <4>1. CASE x = m
        BY <1>1, <1>2, <2>3, <2>4, <2>5, <2>7, <2>8, <4>1
      <4>2. CASE x # m
        <5>1. heap'[x] = heap[x] /\ heap[x] \in Struct
          BY <2>2, <2>7, <3>3, <4>2 DEF TypeOK
        <5>2. heap[x].id \in Id \cup {0}
          BY <5>1 DEF Struct
        <5>3. heap[x].id # id
          BY <1>2, <2>2, <2>3, <3>3, <4>2, <5>1 DEF Known
        <5>4. table' = table
          BY <1>1
        <5>5. heap[x].id # 0 => region'[heap[x].id] = region[heap[x].id]
          BY <2>8, <5>2, <5>3
        <5>6. IF heap[x].id = 0 THEN heap[x].addr = 0 /\ heap[x].object # NULL
              ELSE table[heap[x].id] = x /\ heap[x].addr = region[heap[x].id].addr
          BY <2>2, <3>3, <5>1 DEF Known
        <5> QED BY <5>1, <5>4, <5>5, <5>6
      <4> QED BY <4>1, <4>2
    <3>4. ASSUME NEW i \in Id, NEW j \in Id, region'[i] # NULL, region'[j] # NULL, i # j
          PROVE  region'[i].addr # region'[j].addr
      BY <1>1, <2>2, <2>5, <2>8, <3>4 DEF Known, Unmapped
    <3> QED BY <3>1, <3>2, <3>3, <3>4 DEF Known
  <2> QED BY <2>9, <2>10, <2>11, <2>12, <2>2, <1>1 DEF IInv
<1> QED BY <1>3, <1>4

(* The search by address meets the struct that the table holds, if it is on *)
(* the list of an object, and nothing else.                                 *)
LEMMA SameStruct ==
  ASSUME IInv, Running, NEW id \in Id, region[id] # NULL,
         NEW x \in Mapping, heap[x] # NULL, heap[x].addr = region[id].addr
  PROVE  x = table[id]
<1> USE NumberAssumption, NullAssumption
<1>1. Known
  BY DEF IInv
<1>2. region[id].addr # 0
  BY RegionKnown DEF Region
<1>3. heap[x].id # 0 /\ table[heap[x].id] = x /\ heap[x].addr = region[heap[x].id].addr
  BY <1>1, <1>2 DEF Known
<1>4. heap[x] \in Struct
  BY DEF IInv, TypeOK
<1>5. heap[x].id \in Id
  BY <1>3, <1>4 DEF Struct
<1>6. region[heap[x].id] # NULL
  BY <1>1, <1>3, <1>5 DEF Known
<1>7. heap[x].id = id
  BY <1>1, <1>3, <1>5, <1>6 DEF Known
<1> QED BY <1>3, <1>7

(* nvrm_munmap: m leaves the list it is on. *)
LEMMA UnlinkedFacts ==
  ASSUME IInv, Running, NEW id \in Id, region[id] # NULL, NEW o \in Object
  PROVE  /\ Unlinked(region[id].addr)[o] \in Seq(Mapping) /\ Distinct(Unlinked(region[id].addr)[o])
         /\ \A x : Contains(Unlinked(region[id].addr)[o], x) <=> Contains(attached[o], x) /\ x # table[id]
         /\ FirstWith(attached[o], "addr", region[id].addr) =
              IF heap[table[id]].object = o THEN table[id] ELSE NULL
<1> DEFINE a == region[id].addr
           f == FirstWith(attached[o], "addr", a)
           m == table[id]
           u == RemoveFirst(attached[o], f)
<1> USE NumberAssumption, NullAssumption
<1> SUFFICES /\ u \in Seq(Mapping) /\ Distinct(u)
             /\ \A x : Contains(u, x) <=> Contains(attached[o], x) /\ x # m
             /\ f = IF heap[m].object = o THEN m ELSE NULL
  BY Zenon DEF Unlinked
<1>1. attached[o] \in Seq(Mapping) /\ Distinct(attached[o])
  BY DEF IInv, TypeOK, Linked, Distinct
<1>2. /\ u \in Seq(Mapping) /\ Distinct(u)
      /\ \A x : Contains(u, x) <=> Contains(attached[o], x) /\ x # f
  BY <1>1, RemoveFirstDistinct
<1>3. m \in Mapping /\ heap[m] # NULL /\ heap[m].addr = a
  BY RegionKnown
<1>4. Contains(attached[o], m) <=> heap[m].object = o
  BY <1>3 DEF IInv, Linked
<1>5. \A x : Contains(attached[o], x) => x \in Mapping
  BY <1>1, ElementOfSeq DEF Contains
<1>6. \/ f = NULL /\ \A x : Contains(attached[o], x) => heap[x]["addr"] # a
      \/ f \in Mapping /\ Contains(attached[o], f) /\ heap[f]["addr"] = a
  BY <1>1, FirstWithFound
<1>7. CASE f = NULL
  <2>1. \A x : Contains(attached[o], x) => heap[x].addr # a
    BY <1>6, <1>7
  <2>2. ~Contains(attached[o], m)
    BY <1>3, <2>1
  <2> QED BY <1>2, <1>4, <1>5, <1>7, <2>2
<1>8. CASE f # NULL
  <2>1. f \in Mapping /\ Contains(attached[o], f) /\ heap[f].addr = a
    BY <1>6, <1>8
  <2>2. heap[f] # NULL
    BY <2>1 DEF IInv, Linked
  <2>3. f = m
    BY <2>1, <2>2, SameStruct
  <2> QED BY <1>2, <1>4, <2>1, <2>3
<1> QED BY <1>7, <1>8

LEMMA MunmapStep ==
  ASSUME IInv, NEW id \in Id, Munmap(id)
  PROVE  IInv'
<1> USE NumberAssumption, NullAssumption
<1>1. Running /\ region[id] # NULL /\ UNCHANGED objects /\ region' = [region EXCEPT ![id] = NULL]
  BY DEF Munmap
<1>2. TypeOK /\ Linked /\ Sized /\ MunmapAccepted /\ Known /\ Distinct(objects)
  BY <1>1 DEF IInv
<1> DEFINE a == region[id].addr
           gone == Disconnected(a)
           left == [x \in Mapping |-> IF x \in gone THEN Detached(x) ELSE heap[x]]
<1>3. PICK m \in Mapping : /\ m = table[id] /\ m # NULL /\ heap[m] \in Struct /\ heap[m] # NULL
                           /\ heap[m].id = id /\ id # 0
  BY <1>1, RegionKnown
<1>4. \A x \in gone : x = m
  <2> SUFFICES ASSUME NEW o \in Object, FirstWith(attached[o], "addr", a) # NULL
               PROVE  FirstWith(attached[o], "addr", a) = m
    BY DEF Disconnected
  <2> QED BY <1>1, <1>3, UnlinkedFacts
<1>5. heap[m].object # NULL => m \in gone
  <2> SUFFICES ASSUME heap[m].object # NULL PROVE m \in gone
    OBVIOUS
  <2>1. heap[m].object \in Object
    BY <1>3 DEF Struct
  <2>2. FirstWith(attached[heap[m].object], "addr", a) = m
    BY <1>1, <1>3, <2>1, UnlinkedFacts
  <2> QED BY <1>3, <2>1, <2>2 DEF Disconnected
<1>6. left[m] # NULL /\ left[m].object = NULL
  <2>1. Detached(m) \in Struct /\ Detached(m) # NULL /\ Detached(m).object = NULL
    BY <1>1, <1>3, DetachedFacts
  <2>2. left[m] = IF m \in gone THEN Detached(m) ELSE heap[m]
    OBVIOUS
  <2> QED BY <1>3, <1>5, <2>1, <2>2
<1>7. /\ attached' = Unlinked(a) /\ heap' = [left EXCEPT ![m] = NULL]
      /\ SetCpuMapping(id, NULL) /\ UNCHANGED status
  BY <1>3, <1>6 DEF Munmap
<1>8. heap' \in [Mapping -> Struct \cup {NULL}] /\ heap'[m] = NULL /\ \A x \in Mapping \ {m} : heap'[x] = heap[x]
  <2>1. \A x \in Mapping \ {m} : left[x] = heap[x]
    BY <1>4
  <2> HIDE DEF gone
  <2>2. heap' = [x \in Mapping |-> IF x = m THEN NULL ELSE left[x]]
    BY <1>7
  <2> HIDE DEF left
  <2>3. heap' = [x \in Mapping |-> IF x = m THEN NULL ELSE heap[x]]
    BY <2>1, <2>2
  <2>4. heap \in [Mapping -> Struct \cup {NULL}]
    BY <1>2 DEF TypeOK
  <2> QED BY <2>3, <2>4
<1> HIDE DEF gone, left
<1>9. \A o \in Object : /\ attached'[o] \in Seq(Mapping) /\ Distinct(attached'[o])
                        /\ \A x : Contains(attached'[o], x) <=> Contains(attached[o], x) /\ x # m
  <2> TAKE o \in Object
  <2>1. attached'[o] = Unlinked(region[id].addr)[o]
    BY <1>7
  <2>2. /\ attached'[o] \in Seq(Mapping) /\ Distinct(attached'[o])
        /\ \A x : Contains(attached'[o], x) <=> Contains(attached[o], x) /\ x # table[id]
    BY <1>1, <2>1, UnlinkedFacts
  <2> QED BY <1>3, <2>2
<1>10. attached' \in [Object -> Seq(Mapping)]
  BY <1>7, <1>9 DEF Unlinked
<1>11. /\ Sized' /\ slots' \in Nat /\ maxId' \in Id \cup {0}
       /\ table' \in [Id -> Mapping \cup {NULL}]
       /\ table'[id] = NULL /\ \A i \in Id \ {id} : table'[i] = table[i]
  <2>1. id <= maxId /\ id \in Nat
    BY <1>2, <1>3 DEF Sized
  <2>2. maxId \in Nat
    <3>1. maxId \in Id \cup {0}
      BY <1>2 DEF TypeOK
    <3> QED BY <3>1
  <2>3. id <= maxId + 1
    BY <2>1, <2>2
  <2> QED BY <1>2, <1>7, <2>3, SetStep
<1>12. region' \in [Id -> Region \cup {NULL}] /\ region'[id] = NULL /\ \A i \in Id \ {id} : region'[i] = region[i]
  BY <1>1, <1>2 DEF TypeOK
<1>13. TypeOK'
  BY <1>1, <1>2, <1>7, <1>8, <1>10, <1>11, <1>12 DEF TypeOK
<1>14. Linked'
  <2> SUFFICES ASSUME NEW o \in Object
               PROVE  /\ \A x \in Mapping : Contains(attached'[o], x) <=> heap'[x] # NULL /\ heap'[x].object = o
                      /\ attached'[o] # << >> => Contains(objects, o)
    BY <1>1, <1>9 DEF Linked, Distinct
  <2>1. \A x \in Mapping : Contains(attached'[o], x) <=> heap'[x] # NULL /\ heap'[x].object = o
    <3> TAKE x \in Mapping
    <3>1. CASE x = m
      BY <1>8, <1>9, <3>1
    <3>2. CASE x # m
      <4>1. Contains(attached[o], x) <=> heap[x] # NULL /\ heap[x].object = o
        BY <1>2 DEF Linked
      <4> QED BY <1>8, <1>9, <3>2, <4>1
    <3> QED BY <3>1, <3>2
  <2>2. ASSUME attached'[o] # << >> PROVE Contains(objects, o)
    <3>1. attached'[o] \in Seq(Mapping)
      BY <1>9
    <3>2. Len(attached'[o]) \in Nat \ {0}
      BY <2>2, <3>1
    <3>3. Contains(attached'[o], attached'[o][1])
      BY <3>2 DEF Contains
    <3>4. Contains(attached[o], attached'[o][1])
      BY <1>9, <3>3
    <3>5. attached[o] # << >>
      BY <3>4 DEF Contains
    <3> QED BY <1>2, <3>5 DEF Linked
  <2> QED BY <2>1, <2>2
<1>15. Known'
  <2>1. \A i \in Id : table'[i] # NULL <=> region'[i] # NULL
    BY <1>2, <1>11, <1>12 DEF Known
  <2>2. ASSUME NEW i \in Id, table'[i] # NULL
        PROVE  heap'[table'[i]] # NULL /\ heap'[table'[i]].id = i
    <3>1. i # id /\ table'[i] = table[i] /\ table[i] # NULL
      BY <1>11, <2>2
    <3>2. table[i] \in Mapping
      BY <1>2, <3>1 DEF TypeOK
    <3>3. heap[table[i]] # NULL /\ heap[table[i]].id = i
      BY <1>2, <3>1 DEF Known
    <3>4. table[i] # m
      BY <1>3, <3>1, <3>3
    <3> QED BY <1>8, <3>1, <3>2, <3>3, <3>4
  <2>3. ASSUME NEW x \in Mapping, heap'[x] # NULL
        PROVE  IF heap'[x].id = 0 THEN heap'[x].addr = 0 /\ heap'[x].object # NULL
               ELSE table'[heap'[x].id] = x /\ heap'[x].addr = region'[heap'[x].id].addr
    <3>1. x # m /\ heap'[x] = heap[x]
      BY <1>8, <2>3
    <3>2. heap[x] \in Struct
      BY <1>2, <2>3, <3>1 DEF TypeOK
    <3>3. heap[x].id \in Id \cup {0}
      BY <3>2 DEF Struct
    <3>4. IF heap[x].id = 0 THEN heap[x].addr = 0 /\ heap[x].object # NULL
          ELSE table[heap[x].id] = x /\ heap[x].addr = region[heap[x].id].addr
      BY <1>2, <2>3, <3>1 DEF Known
    <3>5. heap[x].id # id
      BY <1>3, <3>1, <3>4
    <3> QED BY <1>11, <1>12, <3>1, <3>3, <3>4, <3>5
  <2>4. \A i, j \in Id : region'[i] # NULL /\ region'[j] # NULL /\ i # j =>
          region'[i].addr # region'[j].addr
    BY <1>2, <1>12 DEF Known
  <2> QED BY <2>1, <2>2, <2>3, <2>4 DEF Known
<1>16. MunmapAccepted' /\ Distinct(objects)'
  BY <1>1, <1>2, <1>7 DEF MunmapAccepted
<1> QED BY <1>11, <1>13, <1>14, <1>15, <1>16 DEF IInv

-----------------------------------------------------------------------------
(* The theorems.                                                            *)

LEMMA NextIInv == IInv /\ [Next]_vars => IInv'
<1> SUFFICES ASSUME IInv, [Next]_vars PROVE IInv'
  OBVIOUS
<1>1. ASSUME NEW o \in Object, Create(o) PROVE IInv'
  BY <1>1, CreateStep
<1>2. ASSUME NEW o \in Object, Destroy(o) PROVE IInv'
  BY <1>2, DestroyStep
<1>3. ASSUME NEW o \in Object, NEW off \in Offset, NEW tag \in Tag \cup {-1}, HostMap(o, off, tag)
      PROVE  IInv'
  BY <1>3, HostMapStep
<1>4. ASSUME NEW o \in Object, NEW off \in Offset, NEW tag \in Tag \cup {-1, 0}, CreateMapped(o, off, tag)
      PROVE  IInv'
  BY <1>4, CreateMappedStep
<1>5. ASSUME NEW o \in Object, NEW n \in Tag \cup Offset \cup Addr, HostUnmap(o, n) PROVE IInv'
  BY <1>5, HostUnmapStep
<1>6. ASSUME NEW id \in Id, NEW a \in Addr, NEW off \in Offset, Mmap(id, a, off) PROVE IInv'
  BY <1>6, MmapStep
<1>7. ASSUME NEW id \in Id, NEW a \in Addr, NEW resized \in BOOLEAN, Mremap(id, a, resized) PROVE IInv'
  BY <1>7, MremapStep
<1>8. ASSUME NEW id \in Id, Munmap(id) PROVE IInv'
  BY <1>8, MunmapStep
<1>9. ASSUME NEW id \in Id, Write(id) PROVE IInv'
  BY <1>9, WriteStep
<1>10. CASE UNCHANGED vars
  <2>1. UNCHANGED << objects, attached, heap, table, slots, maxId, status, region >>
    BY <1>10 DEF vars
  <2>2. TypeOK' /\ Distinct(objects)'
    <3>1. TypeOK /\ Distinct(objects)
      BY DEF IInv
    <3> QED BY <2>1, <3>1, ZenonT(60) DEF TypeOK, Distinct
  <2>3. Linked'
    BY <2>1, ZenonT(60) DEF IInv, Linked
  <2>4. Sized' /\ MunmapAccepted'
    BY <2>1 DEF IInv, Sized, MunmapAccepted
  <2>5. Running' => Known'
    <3>1. Running' => Running
      BY <2>1 DEF Running
    <3>2. Known => Known'
      BY <2>1, Zenon DEF Known
    <3> QED BY <3>1, <3>2 DEF IInv
  <2> QED BY <2>2, <2>3, <2>4, <2>5 DEF IInv
<1> QED BY <1>1, <1>2, <1>3, <1>4, <1>5, <1>6, <1>7, <1>8, <1>9, <1>10 DEF Next

THEOREM Invariance == Spec => []IInv
BY InitIInv, NextIInv, PTL DEF Spec

(* The structs, lists and the table hold what they were declared for.       *)
THEOREM TypeCorrect == Spec => []TypeOK
<1>1. IInv => TypeOK
  BY DEF IInv
<1> QED BY <1>1, Invariance, PTL

(* However ioctls and messages of the tracer follow each other, the lists   *)
(* of the objects and the pointers of the mappings agree.                   *)
THEOREM LinkedCorrect == Spec => []Linked
<1>1. IInv => Linked
  BY DEF IInv
<1> QED BY <1>1, Invariance, PTL

(* No mapping is freed while the table holds it, and none is lost: for any  *)
(* number of objects, mappings and regions.                                 *)
THEOREM OwnedCorrect == Spec => []Owned
<1>1. IInv => Owned
  <2> SUFFICES ASSUME IInv, Running PROVE Owned
    BY DEF Owned
  <2>1. Known
    BY DEF IInv
  <2>2. \A i \in Id : table[i] # NULL => heap[table[i]] # NULL /\ heap[table[i]].id = i
    BY <2>1 DEF Known
  <2>3. ASSUME NEW m \in Mapping, heap[m] # NULL
        PROVE  heap[m].object # NULL \/ \E i \in Id : table[i] = m
    <3>1. heap[m] \in Struct
      BY <2>3 DEF IInv, TypeOK
    <3>2. heap[m].id \in Id \cup {0}
      BY <3>1 DEF Struct
    <3> QED BY <2>1, <2>3, <3>2 DEF Known
  <2> QED BY <2>2, <2>3 DEF Owned
<1> QED BY <1>1, Invariance, PTL

(* A region that is unmapped is always found, in a state that               *)
(* buffer_munmap accepts.                                                   *)
THEOREM MunmapCorrect == Spec => []MunmapAccepted
<1>1. IInv => MunmapAccepted
  BY DEF IInv
<1> QED BY <1>1, Invariance, PTL

(* Doubling the table once is enough for any first size and any regions, as *)
(* long as the tracer counts them one after the other.                      *)
THEOREM InsideCorrect == Spec => []InsideTable
<1>1. IInv => InsideTable
  <2> SUFFICES ASSUME IInv, NEW i \in Id, table[i] # NULL PROVE i < slots
    BY DEF InsideTable
  <2>1. i <= maxId /\ i \in Nat /\ i > 0 /\ slots \in Nat /\ maxId \in Nat
    <3>1. slots \in Nat /\ maxId \in Id \cup {0} /\ i <= maxId
      BY DEF IInv, Sized, TypeOK
    <3> QED BY <3>1, NumberAssumption
  <2>2. slots # 0 /\ maxId < slots
    BY <2>1 DEF IInv, Sized
  <2> QED BY <2>1, <2>2
<1> QED BY <1>1, Invariance, PTL
=============================================================================
