-------------------------- MODULE RegionListProofs --------------------------
(***************************************************************************)
(* Proofs about RegionList, for every set of nodes, every limit and every  *)
(* set of input ranges.                                                    *)
(***************************************************************************)
EXTENDS RegionList, TLAPS

(* List lemmas: what an insertion and a removal do to a sorted list.  key   *)
(* and its new value need only agree on the nodes that stay.                *)
(* The links after n is inserted before c, or r is removed, and two keys    *)
(* that order the nodes alike.                                              *)
Inserted(L, n, c, h, nx, pv, h2, nx2, pv2) ==
  /\ nx2[n] = c /\ \A m \in L : nx2[m] = IF m = pv[c] THEN n ELSE nx[m]
  /\ pv2[n] = pv[c] /\ \A m \in L : pv2[m] = IF m = c THEN n ELSE pv[m]
  /\ h2 = IF pv[c] = NULL THEN n ELSE h

Removed(L, r, h, l, nx, pv, h2, l2, nx2, pv2) ==
  /\ \A n \in L \ {r} : nx2[n] = IF n = pv[r] THEN nx[r] ELSE nx[n]
  /\ \A n \in L \ {r} : pv2[n] = IF n = nx[r] THEN pv[r] ELSE pv[n]
  /\ h2 = IF pv[r] = NULL THEN nx[r] ELSE h
  /\ l2 = IF nx[r] = NULL THEN pv[r] ELSE l

SameOrder(L, key, key2) == \A m, k \in L : key[m] < key[k] <=> key2[m] < key2[k]

JustBefore(L, n, c, key) ==
  key[n] < key[c] /\ \A m \in L : key[m] < key[n] <=> key[m] < key[c]

LEMMA SingletonList ==
  ASSUME NEW n \in Node, NEW nx, NEW pv, NEW key \in [Node -> Nat],
         nx[n] = NULL, pv[n] = NULL
  PROVE  SortedList({n}, n, n, nx, pv, key)
BY NodeAssumption DEF SortedList

LEMMA AppendToList ==
  ASSUME NEW L \in SUBSET Node, NEW h \in Pointer, NEW l \in Pointer,
         NEW nx \in [Node -> Pointer], NEW pv \in [Node -> Pointer],
         NEW nx2 \in [Node -> Pointer], NEW pv2 \in [Node -> Pointer],
         NEW key \in [Node -> Nat], NEW key2 \in [Node -> Nat],
         NEW n \in Node, n \notin L, L # {},
         SortedList(L, h, l, nx, pv, key),
         nx2 = [nx EXCEPT ![n] = NULL, ![l] = n],
         pv2 = [pv EXCEPT ![n] = l],
         \A m \in L : key2[m] = key[m] /\ key2[m] < key2[n]
  PROVE  SortedList(L \cup {n}, h, n, nx2, pv2, key2)
<1> USE NodeAssumption DEF Pointer
<1>1. l \in L /\ h \in L /\ l # n /\ n # NULL
  BY DEF SortedList
<1>2. /\ nx2[n] = NULL /\ nx2[l] = n /\ \A m \in L \ {l} : nx2[m] = nx[m]
      /\ pv2[n] = l /\ \A m \in L : pv2[m] = pv[m]
  BY <1>1
<1>3. \A m \in L : m # h => pv2[m] \in L /\ nx2[pv2[m]] = m
  BY <1>1, <1>2 DEF SortedList
<1>4. \A m \in L : m # l => nx2[m] \in L /\ pv2[nx2[m]] = m /\ key2[m] < key2[nx2[m]]
  BY <1>1, <1>2 DEF SortedList
<1>5. \A m, k \in L : /\ m # k => key2[m] < key2[k] \/ key2[k] < key2[m]
                      /\ key2[m] < key2[k] => /\ m # l /\ k # h
                                              /\ k = nx2[m] \/ key2[nx2[m]] < key2[k]
  BY <1>1, <1>2, <1>4 DEF SortedList
<1>6. \A m \in L : n = nx2[m] \/ key2[nx2[m]] < key2[n]
  BY <1>1, <1>2, <1>4
<1>7. \A m \in L : ~ (key2[n] < key2[m])
  OBVIOUS
<1> QED
  BY <1>1, <1>2, <1>3, <1>4, <1>5, <1>6, <1>7, SMTT(30) DEF SortedList

LEMMA InsertIntoList ==
  ASSUME NEW L \in SUBSET Node, NEW h \in Pointer, NEW l \in Pointer,
         NEW nx \in [Node -> Pointer], NEW pv \in [Node -> Pointer],
         NEW nx2 \in [Node -> Pointer], NEW pv2 \in [Node -> Pointer],
         NEW key \in [Node -> Nat], NEW key2 \in [Node -> Nat],
         NEW n \in Node, n \notin L, NEW c \in L,
         SortedList(L, h, l, nx, pv, key),
         NEW h2 \in Pointer, Inserted(L, n, c, h, nx, pv, h2, nx2, pv2),
         SameOrder(L, key, key2), JustBefore(L, n, c, key2)
  PROVE  SortedList(L \cup {n}, h2, l, nx2, pv2, key2)
<1> USE NodeAssumption DEF Pointer, Inserted, SameOrder, JustBefore
<1>1. /\ l \in L /\ h \in L /\ c # n /\ n # NULL
      /\ pv[c] = NULL <=> c = h
      /\ \A m \in L : m # n /\ m # NULL
  BY DEF SortedList
<1>2. /\ nx2[n] = c /\ \A m \in L : m # pv[c] => nx2[m] = nx[m]
      /\ pv[c] # NULL => nx2[pv[c]] = n /\ pv[c] \in L
      /\ pv2[n] = pv[c] /\ pv2[c] = n /\ \A m \in L \ {c} : pv2[m] = pv[m]
  BY <1>1 DEF SortedList
<1>3. \A m \in L : /\ m # c /\ m # h => pv2[m] \in L /\ nx2[pv2[m]] = m
                   /\ m # pv[c] /\ m # l => nx2[m] \in L /\ pv2[nx2[m]] = m
  <2> TAKE m \in L
  <2>1. ASSUME m # c, m # h PROVE pv2[m] \in L /\ nx2[pv2[m]] = m
    <3>1. pv[m] \in L /\ nx[pv[m]] = m /\ pv2[m] = pv[m]
      BY <2>1 DEF SortedList
    <3>2. pv[m] # pv[c]
      <4>1. c # h => nx[pv[c]] = c
        BY DEF SortedList
      <4> QED
        BY <1>1, <2>1, <3>1, <4>1
    <3> QED
      BY <3>1, <3>2
  <2>2. ASSUME m # pv[c], m # l PROVE nx2[m] \in L /\ pv2[nx2[m]] = m
    <3>1. nx[m] \in L /\ pv[nx[m]] = m /\ nx2[m] = nx[m]
      BY <2>2 DEF SortedList
    <3>2. nx[m] # c
      BY <2>2, <3>1
    <3> QED
      BY <3>1, <3>2
  <2> QED
    BY <2>1, <2>2
<1>4. \A m, k \in L : /\ m # k => key2[m] < key2[k] \/ key2[k] < key2[m]
                      /\ key2[m] < key2[k] => m # l /\ k # h
  BY DEF SortedList
<1>5. \A m, k \in L : m # pv[c] /\ key2[m] < key2[k] => k = nx2[m] \/ key2[nx2[m]] < key2[k]
  BY <1>1, <1>2 DEF SortedList
<1>6. \A m \in L : m # pv[c] /\ m # l => key2[m] < key2[nx2[m]]
  BY <1>1, <1>2 DEF SortedList
<1>7. pv[c] # NULL => key2[pv[c]] < key2[c] /\ key2[pv[c]] < key2[n]
  BY <1>1, <1>2 DEF SortedList
<1>8. \A m \in L : key2[n] < key2[m] <=> m = c \/ key2[c] < key2[m]
  <2> TAKE m \in L
  <2>1. key2 \in [Node -> Nat] /\ m \in Node /\ c \in Node
    OBVIOUS
  <2>2. m # c => key2[m] < key2[c] \/ key2[c] < key2[m]
    BY <1>4
  <2> QED
    BY <2>1, <2>2
<1>9. \A m \in L : key2[m] < key2[n] => pv[c] # NULL /\ (m = pv[c] \/ key2[nx2[m]] < key2[n])
  <2> SUFFICES ASSUME NEW m \in L, key2[m] < key2[n]
               PROVE  pv[c] # NULL /\ (m = pv[c] \/ key2[nx2[m]] < key2[n])
    OBVIOUS
  <2>1. key2[m] < key2[c]
    OBVIOUS
  <2>2. c # h /\ m # l
    BY <2>1, <1>4
  <2>3. ASSUME m # pv[c] PROVE nx2[m] \in L /\ (c = nx2[m] \/ key2[nx2[m]] < key2[c])
    BY <2>1, <2>2, <2>3, <1>3, <1>5
  <2>4. ASSUME m # pv[c] PROVE nx2[m] # c
    BY <1>1, <1>2, <1>3, <2>2, <2>4 DEF SortedList
  <2> QED
    BY <1>1, <2>2, <2>3, <2>4
<1>10. \A k \in L : key2[n] < key2[k] => k # h2
  BY <1>1, <1>4, <1>8
<1>11. \A m \in L : m # h2 \/ pv[c] # NULL
  BY <1>1
<1>12. /\ h2 \in L \cup {n} /\ pv2[h2] = NULL /\ nx2[l] = NULL
       /\ h2 # NULL /\ l # NULL
  BY <1>1, <1>2 DEF SortedList
<1>13. \A m \in L \cup {n} :
         /\ m # h2 => pv2[m] \in L \cup {n} /\ nx2[pv2[m]] = m
         /\ m # l => nx2[m] \in L \cup {n} /\ pv2[nx2[m]] = m /\ key2[m] < key2[nx2[m]]
  <2> TAKE m \in L \cup {n}
  <2>1. CASE m = n
    BY <2>1, <1>1, <1>2
  <2>2. CASE m \in L
    <3>1. m # h => pv2[m] \in L \cup {n} /\ nx2[pv2[m]] = m
      BY <2>2, <1>1, <1>2, <1>3
    <3>2. m = h /\ m # h2 => c = h
      BY <2>2, <1>1
    <3>3. m = h /\ m # h2 => pv2[m] = n /\ nx2[n] = m
      BY <3>2, <1>1, <1>2
    <3>4. m # l => nx2[m] \in L \cup {n} /\ pv2[nx2[m]] = m /\ key2[m] < key2[nx2[m]]
      BY <2>2, <1>1, <1>2, <1>3, <1>6, <1>7
    <3> QED
      BY <3>1, <3>3, <3>4
  <2> QED
    BY <2>1, <2>2
<1>14. \A m, k \in L \cup {n} : m # k => key2[m] < key2[k] \/ key2[k] < key2[m]
  <2>1. \A m \in L : key2[m] < key2[n] \/ key2[n] < key2[m]
    BY <1>8, <1>4
  <2> QED
    BY <2>1, <1>4
<1>15. \A m, k \in L \cup {n} : key2[m] < key2[k] =>
          m # l /\ k # h2 /\ (k = nx2[m] \/ key2[nx2[m]] < key2[k])
  <2> SUFFICES ASSUME NEW m \in L \cup {n}, NEW k \in L \cup {n}, key2[m] < key2[k]
               PROVE  m # l /\ k # h2 /\ (k = nx2[m] \/ key2[nx2[m]] < key2[k])
    OBVIOUS
  <2>1. CASE m = n
    BY <2>1, <1>1, <1>2, <1>8, <1>10
  <2>2. CASE m # n /\ k = n
    BY <2>2, <1>1, <1>2, <1>4, <1>9
  <2>3. CASE m # n /\ k # n /\ m # pv[c]
    BY <2>3, <1>4, <1>5, <1>1
  <2>4. CASE m # n /\ k # n /\ m = pv[c]
    <3>1. m # NULL /\ m \in L /\ k \in L /\ nx2[m] = n /\ c # h
      BY <2>4, <1>1, <1>2
    <3>2. nx[m] = c
      BY <2>4, <3>1 DEF SortedList
    <3>3. k = c \/ key2[c] < key2[k]
      BY <3>1, <3>2 DEF SortedList
    <3> QED
      BY <3>1, <3>3, <1>1, <1>4, <1>8
  <2> QED
    BY <2>1, <2>2, <2>3, <2>4
<1> QED
  BY <1>12, <1>13, <1>14, <1>15 DEF SortedList

LEMMA RemoveFromList ==
  ASSUME NEW L \in SUBSET Node, NEW h \in Pointer, NEW l \in Pointer,
         NEW nx \in [Node -> Pointer], NEW pv \in [Node -> Pointer],
         NEW nx2 \in [Node -> Pointer], NEW pv2 \in [Node -> Pointer],
         NEW key \in [Node -> Nat], NEW key2 \in [Node -> Nat],
         NEW r \in L, NEW c \in L, r # c,
         SortedList(L, h, l, nx, pv, key),
         NEW h2 \in Pointer, NEW l2 \in Pointer,
         Removed(L, r, h, l, nx, pv, h2, l2, nx2, pv2),
         SameOrder(L \ {r}, key, key2)
  PROVE  SortedList(L \ {r}, h2, l2, nx2, pv2, key2)
<1> USE NodeAssumption DEF Pointer, Removed, SameOrder
<1> DEFINE M == L \ {r}
<1>1. /\ h \in L /\ l \in L /\ NULL \notin L
      /\ pv[h] = NULL /\ nx[l] = NULL
      /\ \A n \in L : n # h => pv[n] \in L /\ nx[pv[n]] = n
      /\ \A n \in L : n # l => nx[n] \in L /\ pv[nx[n]] = n /\ key[n] < key[nx[n]]
      /\ \A n, m \in L : n # m => key[n] < key[m] \/ key[m] < key[n]
      /\ \A n, m \in L : key[n] < key[m] => /\ n # l /\ m # h
                                            /\ m = nx[n] \/ key[nx[n]] < key[m]
  BY DEF SortedList
<1>2. /\ pv[r] = NULL <=> r = h
      /\ nx[r] = NULL <=> r = l
      /\ r # h => pv[r] \in M /\ nx[pv[r]] = r
      /\ r # l => nx[r] \in M /\ pv[nx[r]] = r
  BY <1>1
<1>3. h2 \in M /\ l2 \in M
  BY <1>1, <1>2
<1>4. \A n \in M : /\ nx2[n] = IF n = pv[r] THEN nx[r] ELSE nx[n]
                   /\ pv2[n] = IF n = nx[r] THEN pv[r] ELSE pv[n]
  OBVIOUS
<1>5. \A n \in M : nx[n] = r <=> n = pv[r]
  <2> TAKE n \in M
  <2> QED
    BY <1>1, <1>2
<1>6. \A n \in M : pv[n] = r <=> n = nx[r]
  <2> TAKE n \in M
  <2> QED
    BY <1>1, <1>2
<1>7. pv2[h2] = NULL /\ nx2[l2] = NULL
  BY <1>1, <1>2, <1>3, <1>4
<1>8. \A n \in M : n # h2 => pv2[n] \in M /\ nx2[pv2[n]] = n
  BY <1>1, <1>2, <1>3, <1>4, <1>5, <1>6
<1>9. \A n \in M : n # l2 => nx2[n] \in M /\ pv2[nx2[n]] = n
  BY <1>1, <1>2, <1>3, <1>4, <1>5, <1>6
<1>10. \A n \in M : n # l2 => key[n] < key[nx2[n]]
  <2> SUFFICES ASSUME NEW n \in M, n # l2 PROVE key[n] < key[nx2[n]]
    OBVIOUS
  <2>1. CASE n = pv[r]
    <3>1. r # h /\ r # l
      BY <1>1, <1>2, <2>1
    <3>2. key[n] < key[r] /\ key[r] < key[nx[r]]
      BY <3>1, <2>1, <1>1, <1>2
    <3> QED
      BY <3>1, <3>2, <2>1, <1>2, <1>4
  <2>2. CASE n # pv[r]
    BY <2>2, <1>1, <1>2, <1>4
  <2> QED
    BY <2>1, <2>2
<1>11. \A n, m \in M : key[n] < key[m] => n # l2 /\ m # h2
  <2> SUFFICES ASSUME NEW n \in M, NEW m \in M, key[n] < key[m] PROVE n # l2 /\ m # h2
    OBVIOUS
  <2>1. n # l /\ m # h
    BY <1>1
  <2>2. CASE n = l2
    <3>1. r = l /\ n = pv[r] /\ r # h
      BY <2>1, <2>2, <1>1, <1>2
    <3>2. m = nx[n] \/ key[nx[n]] < key[m]
      BY <1>1
    <3>3. nx[n] = r
      BY <3>1, <1>2
    <3> QED
      BY <3>1, <3>2, <3>3, <1>1
  <2>3. CASE m = h2
    <3>1. r = h /\ m = nx[r] /\ r # l
      BY <2>1, <2>3, <1>1, <1>2
    <3>2. ~ (key[n] < key[r])
      BY <3>1, <1>1
    <3>3. key[r] < key[n]
      BY <3>2, <1>1
    <3>4. n = nx[r] \/ key[nx[r]] < key[n]
      BY <3>3, <1>1
    <3> QED
      BY <3>1, <3>4, <1>1
  <2> QED
    BY <2>2, <2>3
<1>12. \A n, m \in M : key[n] < key[m] => m = nx2[n] \/ key[nx2[n]] < key[m]
  <2> SUFFICES ASSUME NEW n \in M, NEW m \in M, key[n] < key[m]
               PROVE  m = nx2[n] \/ key[nx2[n]] < key[m]
    OBVIOUS
  <2>1. m = nx[n] \/ key[nx[n]] < key[m]
    BY <1>1
  <2>2. CASE n = pv[r]
    <3>1. nx[n] = r /\ m # r
      BY <2>2, <1>5
    <3>2. key[r] < key[m]
      BY <2>1, <3>1
    <3> QED
      BY <3>2, <2>2, <1>1, <1>4
  <2>3. CASE n # pv[r]
    BY <2>1, <2>3, <1>4
  <2> QED
    BY <2>2, <2>3
<1>13. \A n \in M : n # l2 => key2[n] < key2[nx2[n]]
  BY <1>9, <1>10
<1>14. \A n, m \in M : n # m => key2[n] < key2[m] \/ key2[m] < key2[n]
  BY <1>1
<1>15. \A n, m \in M : key2[n] < key2[m] => n # l2 /\ m # h2 /\ (m = nx2[n] \/ key2[nx2[n]] < key2[m])
  BY <1>9, <1>11, <1>12
<1>16. M # {} /\ h2 # NULL /\ l2 # NULL
  BY <1>1, <1>3
<1> QED
  BY <1>3, <1>7, <1>8, <1>9, <1>13, <1>14, <1>15, <1>16 DEF SortedList

(* The keys only matter by the order they put the nodes in.                 *)
LEMMA ReorderList ==
  ASSUME NEW L \in SUBSET Node, NEW h \in Pointer, NEW l \in Pointer,
         NEW nx \in [Node -> Pointer], NEW pv \in [Node -> Pointer],
         NEW key \in [Node -> Nat], NEW key2 \in [Node -> Nat],
         SortedList(L, h, l, nx, pv, key), SameOrder(L, key, key2)
  PROVE  SortedList(L, h, l, nx, pv, key2)
BY DEF SortedList, SameOrder, Pointer

-----------------------------------------------------------------------------
(* The inductive invariant.  Between calls the ranges are separate; during  *)
(* a merge phase they are, but for cur, which may have grown over its       *)
(* neighbours on one side; the search has passed only ranges that end       *)
(* before the new one does; and once the new range is recorded it stays     *)
(* inside cur, or inside some node.                                         *)
Separate(n, m) == end[n] < start[m] \/ end[m] < start[n]

Merging == pc \in {"mergeNext", "mergePrev"}

WellFormed == \A n \in live :
  /\ start[n] <= end[n]
  /\ start[n] = end[n] => pc \in {"mergePrev", "check", "aborted"} /\ arg.len = 0

Disjoint == \A n, m \in live :
  n # m /\ ~ (Merging /\ cur \in {n, m}) => Separate(n, m)

GrowsLeft == pc = "mergePrev" =>
  \A m \in live \ {cur} : end[cur] < start[m] \/ end[m] < end[cur]

GrowsRight == pc = "mergeNext" =>
  \A m \in live \ {cur} : end[m] < start[cur] \/ start[cur] < start[m]

Passed == pc = "search" =>
  /\ argEnd <= end[last]
  /\ \A m \in live : start[m] < start[cur] => end[m] < argEnd

Recorded ==
  /\ Merging => start[cur] <= arg.start /\ argEnd <= end[cur]
  /\ pc = "check" => InRegions

IInv ==
  /\ TypeOK /\ LinksOK /\ CursorLive /\ OnlyEmptyRejected
  /\ WellFormed /\ Disjoint /\ GrowsLeft /\ GrowsRight /\ Passed /\ Recorded

LEMMA InitIInv == Init => IInv
<1> SUFFICES ASSUME Init PROVE IInv
  OBVIOUS
<1>1. TypeOK
  BY NoRangeAssumption DEF Init, TypeOK, Pointer
<1>2. LinksOK
  BY DEF Init, LinksOK, SortedList
<1>3. pc = "idle" /\ live = {}
  BY DEF Init
<1> QED
  BY <1>1, <1>2, <1>3 DEF IInv, CursorLive, OnlyEmptyRejected, WellFormed, Disjoint,
     GrowsLeft, GrowsRight, Passed, Recorded, Merging

(* What TypeOK says of the arguments of an open call.                       *)
LEMMA ArgType ==
  ASSUME TypeOK, pc # "idle"
  PROVE  arg \in Args /\ arg.start \in Nat /\ arg.len \in Nat /\ argEnd \in Nat
         /\ arg # NoRange
<1>1. arg \in Args /\ arg # NoRange
  BY DEF TypeOK
<1>2. arg.start \in Starts /\ arg.len \in Lens
  <2>1. arg \in [start : Starts, len : Lens]
    BY <1>1 DEF Args
  <2> QED
    BY <2>1
<1>3. arg.start \in Nat /\ arg.len \in Nat
  BY <1>2, InputAssumption
<1> QED
  BY <1>1, <1>3 DEF argEnd

LEMMA KeyType ==
  ASSUME TypeOK
  PROVE  /\ Key \in [Node -> Nat] /\ live \subseteq Node
         /\ \A n \in live : start[n] \in Nat /\ end[n] \in Nat
         /\ \A n \in live : n \in Node
BY DEF TypeOK, Key

(* What the links say of the last node: it is the last in the order, and    *)
(* between merges everything else ends before it starts.                    *)
LEMMA LastIsLast ==
  ASSUME IInv, live # {}, ~ Merging
  PROVE  /\ last \in live /\ head \in live /\ next[last] = NULL
         /\ \A m \in live \ {last} : end[m] < start[last] /\ start[m] < start[last]
         /\ \A m \in live \ {head} : end[head] < start[m]
<1>1. /\ Key = start /\ last \in live /\ head \in live /\ next[last] = NULL
      /\ \A n, m \in live : /\ n # m => start[n] < start[m] \/ start[m] < start[n]
                            /\ start[n] < start[m] => n # last /\ m # head
  BY DEF IInv, LinksOK, SortedList, Key, Merging
<1>2. \A n, m \in live : n # m => Separate(n, m)
  BY DEF IInv, Disjoint
<1>3. \A n \in live : start[n] <= end[n] /\ start[n] \in Nat /\ end[n] \in Nat
  BY KeyType DEF IInv, WellFormed
<1>4. \A m \in live \ {last} : start[m] < start[last]
  BY <1>1
<1>5. \A m \in live \ {head} : start[head] < start[m]
  BY <1>1
<1> QED
  BY <1>1, <1>2, <1>3, <1>4, <1>5 DEF Separate

-----------------------------------------------------------------------------
(* The steps that leave the list alone.                                     *)
LEMMA StepCall ==
  ASSUME IInv, NEW a \in Args, Call(a)
  PROVE  IInv'
<1>1. TypeOK'
  BY NoRangeAssumption, InputAssumption DEF IInv, Call, TypeOK, heap, Args, Pointer
<1>2. LinksOK'
  BY DEF IInv, Call, LinksOK, SortedList, Key, heap
<1>3. /\ pc = "idle" /\ pc' = "add" /\ live' = live /\ start' = start /\ end' = end
  BY DEF Call, heap
<1> QED
  BY <1>1, <1>2, <1>3 DEF IInv, CursorLive, OnlyEmptyRejected, WellFormed, Disjoint, Separate,
     GrowsLeft, GrowsRight, Passed, Recorded, Merging

LEMMA StepEnterSearch ==
  ASSUME IInv, EnterSearch
  PROVE  IInv'
<1>1. TypeOK'
  BY DEF IInv, EnterSearch, TypeOK, heap, argEnd
<1>2. LinksOK'
  BY DEF IInv, EnterSearch, LinksOK, SortedList, Key, heap
<1>3. /\ pc = "add" /\ pc' = "search" /\ live' = live /\ start' = start /\ end' = end
      /\ last' = last /\ arg' = arg /\ argEnd <= end[last] /\ cur' = head /\ head # NULL
  BY DEF EnterSearch, heap
<1>4. head \in live /\ \A m \in live \ {head} : end[head] < start[m]
  BY <1>3, LastIsLast DEF IInv, LinksOK, SortedList, Merging
<1>5. \A m \in live : start[m] \in Nat /\ end[m] \in Nat /\ start[m] <= end[m]
  BY KeyType DEF IInv, WellFormed
<1>6. Passed'
  BY <1>3, <1>4, <1>5 DEF Passed, argEnd
<1> QED
  BY <1>1, <1>2, <1>3, <1>4, <1>6 DEF IInv, CursorLive, OnlyEmptyRejected, WellFormed, Disjoint,
     Separate, GrowsLeft, GrowsRight, Recorded, Merging

LEMMA StepSearchSkip ==
  ASSUME IInv, SearchSkip
  PROVE  IInv'
<1>1. /\ pc = "search" /\ pc' = "search" /\ live' = live /\ start' = start /\ end' = end
      /\ last' = last /\ arg' = arg /\ argEnd > end[cur] /\ cur' = next[cur]
      /\ cur \in live /\ Key = start
  BY DEF SearchSkip, heap, IInv, CursorLive, Key
<1>2. \A m \in live : start[m] \in Nat /\ end[m] \in Nat /\ start[m] <= end[m]
  BY KeyType DEF IInv, WellFormed
<1>3. argEnd <= end[last] /\ \A m \in live : start[m] < start[cur] => end[m] < argEnd
  BY <1>1 DEF IInv, Passed
<1>4. argEnd \in Nat
  BY <1>1, ArgType DEF IInv
<1>5. last \in live /\ cur # last
  BY <1>1, <1>2, <1>3, <1>4 DEF IInv, LinksOK, SortedList
<1>6. /\ next[cur] \in live /\ start[cur] < start[next[cur]]
      /\ \A m \in live : start[m] < start[next[cur]] => m = cur \/ start[m] < start[cur]
  <2>1. /\ next[cur] \in live /\ start[cur] < start[next[cur]]
        /\ \A m \in live : /\ m # cur => start[m] < start[cur] \/ start[cur] < start[m]
                           /\ start[cur] < start[m] =>
                                m = next[cur] \/ start[next[cur]] < start[m]
    BY <1>1, <1>5 DEF IInv, LinksOK, SortedList
  <2> QED
    BY <2>1, <1>2, <1>1
<1>7. Passed'
  BY <1>1, <1>2, <1>3, <1>4, <1>6 DEF Passed, argEnd
<1>8. TypeOK'
  BY <1>1, <1>6 DEF IInv, SearchSkip, TypeOK, heap, Pointer
<1>9. LinksOK'
  BY <1>1 DEF IInv, SearchSkip, LinksOK, SortedList, Key, heap
<1> QED
  BY <1>1, <1>6, <1>7, <1>8, <1>9 DEF IInv, CursorLive, OnlyEmptyRejected, WellFormed, Disjoint,
     Separate, GrowsLeft, GrowsRight, Recorded, Merging

LEMMA StepFoundInside ==
  ASSUME IInv, FoundInside
  PROVE  IInv'
<1>1. TypeOK'
  BY DEF IInv, FoundInside, TypeOK, heap
<1>2. LinksOK'
  BY DEF IInv, FoundInside, LinksOK, SortedList, Key, heap
<1>3. /\ pc = "search" /\ pc' = "check" /\ live' = live /\ start' = start /\ end' = end
      /\ arg' = arg /\ cur \in live /\ argEnd <= end[cur] /\ arg.start >= start[cur]
  BY DEF FoundInside, heap, IInv, CursorLive
<1>4. InRegions'
  BY <1>3 DEF InRegions, argEnd
<1> QED
  BY <1>1, <1>2, <1>3, <1>4 DEF IInv, CursorLive, OnlyEmptyRejected, WellFormed, Disjoint, Separate,
     GrowsLeft, GrowsRight, Passed, Recorded, Merging

LEMMA StepReturnAdded ==
  ASSUME IInv, ReturnAdded
  PROVE  IInv'
<1>1. TypeOK'
  BY DEF IInv, ReturnAdded, TypeOK, heap, Pointer
<1>2. LinksOK'
  BY DEF IInv, ReturnAdded, LinksOK, SortedList, Key, heap
<1>3. /\ pc = "check" /\ pc' = "idle" /\ live' = live /\ start' = start /\ end' = end
  BY DEF ReturnAdded, heap
<1>4. \A n \in live : start[n] < end[n] /\ start[n] \in Nat /\ end[n] \in Nat
  BY KeyType DEF ReturnAdded, Sane, IInv
<1>5. WellFormed'
  BY <1>3, <1>4 DEF WellFormed
<1> QED
  BY <1>1, <1>2, <1>3, <1>5 DEF IInv, CursorLive, OnlyEmptyRejected, Disjoint, Separate,
     GrowsLeft, GrowsRight, Passed, Recorded, Merging

(* The final checks only ever fail because of an empty range: the list is   *)
(* sorted and disjoint, and holds the range.                                *)
LEMMA StepReturnRejected ==
  ASSUME IInv, ReturnRejected
  PROVE  IInv'
<1>1. TypeOK'
  BY DEF IInv, ReturnRejected, TypeOK, heap
<1>2. LinksOK'
  BY DEF IInv, ReturnRejected, LinksOK, SortedList, Key, heap
<1>3. /\ pc = "check" /\ pc' = "aborted" /\ live' = live /\ start' = start /\ end' = end
      /\ arg' = arg /\ ~ (Sane /\ InRegions)
  BY DEF ReturnRejected, heap
<1>4. InRegions /\ Key = start /\ ~ Sane
  BY <1>3 DEF IInv, Recorded, Key
<1>5. \A n \in live : start[n] <= end[n] /\ start[n] \in Nat /\ end[n] \in Nat
  BY KeyType DEF IInv, WellFormed
<1>6. \A n \in live : next[n] # NULL => end[n] < start[next[n]]
  <2> SUFFICES ASSUME NEW n \in live, next[n] # NULL PROVE end[n] < start[next[n]]
    OBVIOUS
  <2>1. next[n] \in live /\ start[n] < start[next[n]]
    BY <1>4 DEF IInv, LinksOK, SortedList
  <2>2. Separate(n, next[n])
    BY <1>3, <1>5, <2>1 DEF IInv, Disjoint, Merging
  <2> QED
    BY <1>5, <2>1, <2>2 DEF Separate
<1>7. head # NULL => prev[head] = NULL
  BY DEF IInv, LinksOK, SortedList
<1>8. \E n \in live : ~ (start[n] < end[n])
  BY <1>4, <1>6, <1>7 DEF Sane
<1>9. arg.len = 0
  BY <1>5, <1>8 DEF IInv, WellFormed
<1> QED
  BY <1>1, <1>2, <1>3, <1>9 DEF IInv, CursorLive, OnlyEmptyRejected, WellFormed, Disjoint, Separate,
     GrowsLeft, GrowsRight, Passed, Recorded, Merging

LEMMA StepFreeRegions ==
  ASSUME IInv, FreeRegions
  PROVE  IInv'
<1>1. TypeOK'
  BY DEF IInv, FreeRegions, TypeOK, Pointer
<1>2. LinksOK'
  BY DEF FreeRegions, LinksOK, SortedList
<1> QED
  BY <1>1, <1>2 DEF FreeRegions, IInv, CursorLive, OnlyEmptyRejected, WellFormed, Disjoint,
     GrowsLeft, GrowsRight, Passed, Recorded, Merging

-----------------------------------------------------------------------------
(* The steps that change the end of the list.                               *)
LEMMA StepAddFirst ==
  ASSUME IInv, NEW n \in Node, AddFirst(n)
  PROVE  IInv'
<1>1. /\ pc = "add" /\ pc' = "check" /\ live' = {n} /\ arg' = arg /\ cur' = cur
      /\ head' = n /\ last' = n
  BY DEF AddFirst, IInv, LinksOK, SortedList
<1>2. arg.start \in Nat /\ arg.len \in Nat /\ argEnd \in Nat /\ argEnd = arg.start + arg.len
  BY <1>1, ArgType DEF IInv, argEnd
<1>3. TypeOK'
  BY <1>1, <1>2 DEF IInv, AddFirst, TypeOK, Pointer
<1>4. /\ next'[n] = NULL /\ prev'[n] = NULL
      /\ start'[n] = arg.start /\ end'[n] = argEnd
  BY DEF AddFirst, IInv, TypeOK
<1>5. LinksOK'
  BY <1>1, <1>3, <1>4, SingletonList DEF LinksOK, Key, TypeOK
<1>6. InRegions'
  BY <1>1, <1>2, <1>4 DEF InRegions, argEnd
<1> QED
  BY <1>1, <1>2, <1>3, <1>4, <1>5, <1>6 DEF IInv, CursorLive, OnlyEmptyRejected, WellFormed,
     Disjoint, Separate, GrowsLeft, GrowsRight, Passed, Recorded, Merging

LEMMA StepExtendLast ==
  ASSUME IInv, ExtendLast
  PROVE  IInv'
<1>1. /\ pc = "add" /\ pc' = "check" /\ live' = live /\ arg' = arg /\ start' = start
      /\ head # NULL /\ arg.start = end[last]
      /\ ~ Merging /\ last' = last
  BY DEF ExtendLast, Merging
<1>2. arg.start \in Nat /\ arg.len \in Nat /\ argEnd \in Nat /\ argEnd = arg.start + arg.len
  BY <1>1, ArgType DEF IInv, argEnd
<1>3. live # {}
  BY <1>1 DEF IInv, LinksOK, SortedList
<1>4. last \in live /\ \A m \in live \ {last} : end[m] < start[last]
  BY <1>1, <1>3, LastIsLast
<1>5. \A m \in live : start[m] \in Nat /\ end[m] \in Nat /\ start[m] < end[m] /\ m \in Node
  BY <1>1, KeyType DEF IInv, WellFormed
<1>6. end' \in [Node -> Nat] /\ end'[last] = argEnd /\ \A m \in live \ {last} : end'[m] = end[m]
  BY <1>1, <1>2, <1>4, <1>5 DEF IInv, TypeOK, ExtendLast
<1>7. TypeOK'
  BY <1>1, <1>6 DEF IInv, TypeOK, ExtendLast
<1>8. LinksOK'
  BY <1>1 DEF IInv, LinksOK, Key, ExtendLast
<1>9. InRegions'
  BY <1>1, <1>2, <1>4, <1>5, <1>6 DEF InRegions, argEnd
<1>10. WellFormed'
  BY <1>1, <1>2, <1>4, <1>5, <1>6 DEF WellFormed
<1>11. Disjoint'
  BY <1>1, <1>4, <1>5, <1>6 DEF IInv, Disjoint, Separate, Merging
<1> QED
  BY <1>1, <1>7, <1>8, <1>9, <1>10, <1>11 DEF IInv, CursorLive, OnlyEmptyRejected, GrowsLeft,
     GrowsRight, Passed, Recorded, Merging

LEMMA StepAppendLast ==
  ASSUME IInv, NEW n \in Node, AppendLast(n)
  PROVE  IInv'
<1>1. /\ pc = "add" /\ pc' = "check" /\ live' = live \cup {n} /\ arg' = arg /\ n \notin live
      /\ head # NULL /\ arg.start > end[last] /\ ~ Merging /\ Key = start /\ Key' = start'
      /\ last' = n /\ head' = head
  BY DEF AppendLast, Merging, Key
<1>2. arg.start \in Nat /\ arg.len \in Nat /\ argEnd \in Nat /\ argEnd = arg.start + arg.len
  BY <1>1, ArgType DEF IInv, argEnd
<1>3. live # {}
  BY <1>1 DEF IInv, LinksOK, SortedList
<1>4. last \in live /\ \A m \in live \ {last} : end[m] < start[last]
  BY <1>1, <1>3, LastIsLast
<1>5. \A m \in live : start[m] \in Nat /\ end[m] \in Nat /\ start[m] < end[m] /\ m \in Node
  BY <1>1, KeyType DEF IInv, WellFormed
<1>6. /\ start'[n] = arg.start /\ end'[n] = argEnd
      /\ \A m \in live : start'[m] = start[m] /\ end'[m] = end[m] /\ end[m] < arg.start
  <2>1. start'[n] = arg.start /\ end'[n] = argEnd
    BY DEF AppendLast, IInv, TypeOK
  <2>2. \A m \in live : start'[m] = start[m] /\ end'[m] = end[m]
    BY <1>1, <1>5 DEF AppendLast, IInv, TypeOK
  <2>3. \A m \in live : end[m] < arg.start
    BY <1>1, <1>2, <1>4, <1>5
  <2> QED
    BY <2>1, <2>2, <2>3
<1>7. TypeOK'
  BY <1>1, <1>2, <1>4 DEF IInv, AppendLast, TypeOK, Pointer
<1>8. LinksOK'
  <2>1. \A m \in live : start'[m] = start[m] /\ start'[m] < start'[n]
    BY <1>2, <1>5, <1>6
  <2>2. SortedList(live, head, last, next, prev, start)
    BY <1>1 DEF IInv, LinksOK
  <2>3. SortedList(live \cup {n}, head, n, next', prev', start')
    BY <1>1, <1>3, <1>7, <2>1, <2>2, AppendToList DEF IInv, TypeOK, AppendLast
  <2> QED
    BY <1>1, <2>3 DEF LinksOK
<1>9. InRegions'
  BY <1>1, <1>2, <1>6 DEF InRegions, argEnd
<1>10. WellFormed'
  BY <1>1, <1>2, <1>5, <1>6 DEF WellFormed
<1>11. Disjoint'
  BY <1>1, <1>2, <1>5, <1>6 DEF IInv, Disjoint, Separate, Merging
<1> QED
  BY <1>1, <1>7, <1>8, <1>9, <1>10, <1>11 DEF IInv, CursorLive, OnlyEmptyRejected, GrowsLeft,
     GrowsRight, Passed, Recorded, Merging

LEMMA StepOverlapLast ==
  ASSUME IInv, OverlapLast
  PROVE  IInv'
<1>1. /\ pc = "add" /\ live' = live /\ arg' = arg /\ next' = next /\ prev' = prev
      /\ head # NULL /\ arg.start < end[last] /\ argEnd > end[last]
      /\ ~ Merging /\ Key = start /\ last' = last /\ head' = head
      /\ end' = [end EXCEPT ![last] = argEnd]
  BY DEF OverlapLast, Merging, Key
<1>2. arg.start \in Nat /\ arg.len \in Nat /\ argEnd \in Nat /\ argEnd = arg.start + arg.len
  BY <1>1, ArgType DEF IInv, argEnd
<1>3. live # {}
  BY <1>1 DEF IInv, LinksOK, SortedList
<1>4. last \in live /\ \A m \in live \ {last} : end[m] < start[last] /\ start[m] < start[last]
  BY <1>1, <1>3, LastIsLast
<1>5. \A m \in live : start[m] \in Nat /\ end[m] \in Nat /\ start[m] < end[m] /\ m \in Node
  BY <1>1, KeyType DEF IInv, WellFormed
<1>6. end' \in [Node -> Nat] /\ end'[last] = argEnd /\ \A m \in live \ {last} : end'[m] = end[m]
  BY <1>1, <1>2, <1>4, <1>5 DEF IInv, TypeOK
<1>7. \A n, m \in live : start[n] < start[m] <=> end'[n] < end'[m]
  BY <1>1, <1>4, <1>5, <1>6, <1>2 DEF IInv, Disjoint, Separate
<1>8. CASE arg.start < start[last]
  <2>1. /\ pc' = "mergePrev" /\ cur' = last /\ Key' = end'
        /\ start' = [start EXCEPT ![last] = arg.start]
    BY <1>8, <1>1, <1>2, <1>4, <1>5 DEF OverlapLast, Key
  <2>2. start' \in [Node -> Nat] /\ start'[last] = arg.start /\ \A m \in live \ {last} : start'[m] = start[m]
    BY <1>2, <1>4, <1>5, <2>1 DEF IInv, TypeOK
  <2>3. TypeOK'
    BY <1>1, <1>4, <1>6, <2>1, <2>2 DEF IInv, TypeOK, OverlapLast, Pointer
  <2>4. LinksOK'
    <3>1. SortedList(live, head, last, next, prev, start)
      BY <1>1 DEF IInv, LinksOK
    <3>2. SortedList(live, head, last, next, prev, end')
      BY <1>6, <1>7, <3>1, ReorderList DEF IInv, TypeOK, SameOrder
    <3> QED
      BY <1>1, <2>1, <3>2 DEF LinksOK
  <2>5. WellFormed'
    BY <1>1, <1>2, <1>4, <1>5, <1>6, <2>1, <2>2 DEF WellFormed
  <2>6. Disjoint'
    BY <1>1, <1>4, <1>6, <2>1, <2>2 DEF IInv, Disjoint, Separate, Merging
  <2>7. GrowsLeft'
    BY <1>1, <1>2, <1>4, <1>5, <1>6, <2>1 DEF GrowsLeft
  <2>8. Recorded'
    BY <1>1, <1>2, <1>6, <2>1, <2>2 DEF Recorded, Merging, argEnd
  <2> QED
    BY <1>1, <1>4, <2>1, <2>3, <2>4, <2>5, <2>6, <2>7, <2>8 DEF IInv, CursorLive, OnlyEmptyRejected,
       GrowsRight, Passed
<1>9. CASE arg.start >= start[last]
  <2>1. pc' = "check" /\ Key' = start /\ start' = start /\ cur' = cur
    BY <1>9, <1>1, <1>2, <1>4, <1>5 DEF OverlapLast, Key
  <2>2. TypeOK'
    BY <1>1, <1>6, <2>1 DEF IInv, TypeOK, OverlapLast
  <2>3. LinksOK'
    BY <1>1, <2>1 DEF IInv, LinksOK
  <2>4. InRegions'
    BY <1>9, <1>1, <1>2, <1>4, <1>6, <2>1 DEF InRegions, argEnd
  <2>5. WellFormed'
    BY <1>1, <1>2, <1>4, <1>5, <1>6, <2>1 DEF WellFormed
  <2>6. Disjoint'
    BY <1>1, <1>4, <1>5, <1>6, <2>1 DEF IInv, Disjoint, Separate, Merging
  <2> QED
    BY <2>1, <2>2, <2>3, <2>4, <2>5, <2>6 DEF IInv, CursorLive, OnlyEmptyRejected,
       GrowsLeft, GrowsRight, Passed, Recorded, Merging
<1> QED
  BY <1>2, <1>4, <1>5, <1>8, <1>9

-----------------------------------------------------------------------------
(* The steps that end the search.                                           *)
LEMMA SearchFacts ==
  ASSUME IInv, pc = "search"
  PROVE  /\ cur \in live /\ Key = start /\ ~ Merging
         /\ arg.start \in Nat /\ arg.len \in Nat /\ argEnd \in Nat /\ argEnd = arg.start + arg.len
         /\ \A m \in live : /\ m \in Node /\ start[m] \in Nat /\ end[m] \in Nat
                            /\ start[m] < end[m]
         /\ \A m, n \in live : m # n => Separate(m, n)
         /\ \A m \in live : start[m] < start[cur] => end[m] < argEnd
         /\ SortedList(live, head, last, next, prev, start)
<1>1. cur \in live /\ Key = start /\ ~ Merging
  BY DEF IInv, CursorLive, Key, Merging
<1>2. arg.start \in Nat /\ arg.len \in Nat /\ argEnd \in Nat /\ argEnd = arg.start + arg.len
  BY ArgType DEF IInv, argEnd
<1>3. \A m \in live : m \in Node /\ start[m] \in Nat /\ end[m] \in Nat /\ start[m] < end[m]
  BY KeyType DEF IInv, WellFormed
<1> QED
  BY <1>1, <1>2, <1>3 DEF IInv, Disjoint, Passed, LinksOK

LEMMA StepSearchExtend ==
  ASSUME IInv, SearchExtend
  PROVE  IInv'
<1>1. /\ pc = "search" /\ pc' = "mergeNext" /\ live' = live /\ arg' = arg /\ start' = start
      /\ cur' = cur /\ argEnd > end[cur] /\ end[cur] = arg.start
      /\ end' = [end EXCEPT ![cur] = @ + arg.len]
  BY DEF SearchExtend
<1> USE SearchFacts, <1>1
<1>2. end' \in [Node -> Nat] /\ end'[cur] = argEnd /\ \A m \in live \ {cur} : end'[m] = end[m]
  BY DEF IInv, TypeOK
<1>3. TypeOK'
  BY <1>2 DEF IInv, TypeOK, SearchExtend
<1>4. LinksOK'
  BY DEF LinksOK, Key, SearchExtend
<1>5. WellFormed'
  BY <1>2 DEF WellFormed
<1>6. Disjoint'
  BY <1>2 DEF Disjoint, Separate, Merging
<1>7. GrowsRight'
  <2> SUFFICES ASSUME NEW m \in live, m # cur PROVE end'[m] < start[cur] \/ start[cur] < start[m]
    BY DEF GrowsRight
  <2>1. Separate(m, cur)
    OBVIOUS
  <2> QED
    BY <1>2, <2>1 DEF Separate
<1>8. Recorded'
  BY <1>2 DEF Recorded, Merging, argEnd
<1> QED
  BY <1>3, <1>4, <1>5, <1>6, <1>7, <1>8 DEF IInv, CursorLive, OnlyEmptyRejected, GrowsLeft, Passed

LEMMA StepFoundBefore ==
  ASSUME IInv, NEW n \in Node, FoundBefore(n)
  PROVE  IInv'
<1>1. /\ pc = "search" /\ pc' = "mergePrev" /\ live' = live \cup {n} /\ arg' = arg /\ cur' = n
      /\ n \notin live /\ arg.start < start[cur] /\ argEnd < start[cur]
      /\ start' = [start EXCEPT ![n] = arg.start]
      /\ end' = [end EXCEPT ![n] = argEnd]
      /\ prev' = [prev EXCEPT ![n] = prev[cur], ![cur] = n]
      /\ next' = [m \in Node |-> IF m = n THEN cur
                                 ELSE IF m = prev[cur] THEN n ELSE next[m]]
      /\ head' = IF prev[cur] = NULL THEN n ELSE head
      /\ last' = last
  BY DEF FoundBefore
<1>2. /\ cur \in live /\ cur \in Node
      /\ arg.start \in Nat /\ argEnd \in Nat /\ arg.len \in Nat /\ argEnd = arg.start + arg.len
      /\ \A m \in live : m \in Node /\ start[m] \in Nat /\ end[m] \in Nat /\ start[m] < end[m]
      /\ SortedList(live, head, last, next, prev, start)
  BY <1>1, SearchFacts
<1>3. \A m, k \in live : start[m] < start[k] => end[m] < start[k]
  BY <1>1, SearchFacts DEF Separate
<1>4. \A m \in live : start[m] < start[cur] => end[m] < argEnd
  BY <1>1, SearchFacts
<1>5. /\ start' \in [Node -> Nat] /\ end' \in [Node -> Nat]
      /\ start'[n] = arg.start /\ end'[n] = argEnd
      /\ \A m \in live : start'[m] = start[m] /\ end'[m] = end[m]
  BY <1>1, <1>2 DEF IInv, TypeOK
<1>6. TypeOK'
  <2>1. prev[cur] \in Pointer
    BY <1>2 DEF IInv, TypeOK
  <2>2. prev' \in [Node -> Pointer] /\ next' \in [Node -> Pointer]
    BY <1>1, <1>2, <2>1 DEF IInv, TypeOK, Pointer
  <2> QED
    BY <1>1, <1>5, <2>2 DEF IInv, TypeOK, Pointer
<1>7. \A m, k \in live : start[m] < start[k] <=> end'[m] < end'[k]
  <2> TAKE m, k \in live
  <2>1. m # k => start[m] < start[k] \/ start[k] < start[m]
    BY <1>2 DEF SortedList
  <2> QED
    BY <2>1, <1>2, <1>3, <1>5
<1>8. end'[n] < end'[cur] /\ \A m \in live : end'[m] < end'[n] <=> end'[m] < end'[cur]
  <2>1. argEnd < end[cur]
    BY <1>1, <1>2
  <2>2. ASSUME NEW m \in live PROVE end[m] < argEnd <=> end[m] < end[cur]
    <3>1. end[m] < end[cur] <=> start[m] < start[cur]
      BY <1>5, <1>7, <1>2
    <3> QED
      BY <3>1, <2>1, <1>2, <1>4
  <2> QED
    BY <2>1, <2>2, <1>2, <1>5
<1>9. LinksOK'
  <2>1. /\ next'[n] = cur /\ \A m \in live : next'[m] = IF m = prev[cur] THEN n ELSE next[m]
        /\ prev'[n] = prev[cur] /\ \A m \in live : prev'[m] = IF m = cur THEN n ELSE prev[m]
    BY <1>1, <1>2 DEF IInv, TypeOK
  <2>2. /\ live \in SUBSET Node /\ head \in Pointer /\ last \in Pointer
        /\ next \in [Node -> Pointer] /\ prev \in [Node -> Pointer] /\ start \in [Node -> Nat]
        /\ next' \in [Node -> Pointer] /\ prev' \in [Node -> Pointer]
    BY <1>6 DEF IInv, TypeOK
  <2>3. SortedList(live \cup {n}, head', last, next', prev', end')
    <3>1. n \notin live /\ cur \in live /\ end' \in [Node -> Nat]
      BY <1>1, <1>2, <1>5
    <3>2. SortedList(live, head, last, next, prev, start)
      BY <1>2
    <3>3. Inserted(live, n, cur, head, next, prev, head', next', prev')
      BY <1>1, <2>1 DEF Inserted
    <3>4. SameOrder(live, start, end') /\ JustBefore(live, n, cur, end')
      BY <1>7, <1>8 DEF SameOrder, JustBefore
    <3>5. head' \in Pointer
      BY <1>6 DEF TypeOK
    <3> QED
      BY <2>2, <3>1, <3>2, <3>3, <3>4, <3>5, InsertIntoList
  <2> QED
    BY <1>1, <2>3 DEF LinksOK, Key
<1>10. WellFormed'
  BY <1>1, <1>2, <1>5 DEF WellFormed
<1>11. Disjoint'
  BY <1>1, <1>5, SearchFacts DEF Disjoint, Separate, Merging
<1>12. GrowsLeft'
  <2> SUFFICES ASSUME NEW m \in live PROVE argEnd < start[m] \/ end[m] < argEnd
    BY <1>1, <1>5 DEF GrowsLeft
  <2>1. m = cur \/ start[m] < start[cur] \/ start[cur] < start[m]
    BY <1>2 DEF SortedList
  <2> QED
    BY <2>1, <1>1, <1>2, <1>4
<1>13. Recorded'
  BY <1>1, <1>2, <1>5 DEF Recorded, Merging, argEnd
<1> QED
  BY <1>1, <1>6, <1>9, <1>10, <1>11, <1>12, <1>13 DEF IInv, CursorLive, OnlyEmptyRejected,
     GrowsRight, Passed

LEMMA StepFoundOverlap ==
  ASSUME IInv, FoundOverlap
  PROVE  IInv'
<1>1. /\ pc = "search" /\ pc' = "mergePrev" /\ live' = live /\ arg' = arg /\ cur' = cur
      /\ argEnd <= end[cur] /\ arg.start < start[cur] /\ argEnd >= start[cur]
      /\ start' = [start EXCEPT ![cur] = arg.start] /\ end' = end
  BY DEF FoundOverlap
<1>2. /\ cur \in live /\ cur \in Node
      /\ arg.start \in Nat /\ argEnd \in Nat /\ argEnd = arg.start + arg.len
      /\ \A m \in live : m \in Node /\ start[m] \in Nat /\ end[m] \in Nat /\ start[m] < end[m]
      /\ SortedList(live, head, last, next, prev, start)
  BY <1>1, SearchFacts
<1>3. \A m, k \in live : start[m] < start[k] => end[m] < start[k]
  BY <1>1, SearchFacts DEF Separate
<1>4. /\ start' \in [Node -> Nat] /\ start'[cur] = arg.start
      /\ \A m \in live \ {cur} : start'[m] = start[m]
  BY <1>1, <1>2 DEF IInv, TypeOK
<1>5. TypeOK'
  BY <1>1, <1>4 DEF IInv, TypeOK, FoundOverlap
<1>6. \A m, k \in live : start[m] < start[k] <=> end[m] < end[k]
  <2> TAKE m, k \in live
  <2>1. m # k => start[m] < start[k] \/ start[k] < start[m]
    BY <1>2 DEF SortedList
  <2> QED
    BY <2>1, <1>2, <1>3
<1>7. LinksOK'
  <2>1. /\ live \in SUBSET Node /\ head \in Pointer /\ last \in Pointer
        /\ next \in [Node -> Pointer] /\ prev \in [Node -> Pointer]
        /\ start \in [Node -> Nat] /\ end \in [Node -> Nat]
    BY DEF IInv, TypeOK
  <2>2. SortedList(live, head, last, next, prev, end)
    BY <1>2, <1>6, <2>1, ReorderList DEF SameOrder
  <2> QED
    BY <1>1, <2>2 DEF LinksOK, Key, FoundOverlap
<1>8. WellFormed'
  BY <1>1, <1>2, <1>4 DEF WellFormed
<1>9. Disjoint'
  BY <1>1, <1>4, SearchFacts DEF Disjoint, Separate, Merging
<1>10. GrowsLeft'
  <2> SUFFICES ASSUME NEW m \in live, m # cur PROVE end[cur] < start[m] \/ end[m] < end[cur]
    BY <1>1, <1>4 DEF GrowsLeft
  <2>1. start[m] < start[cur] \/ start[cur] < start[m]
    BY <1>2 DEF SortedList
  <2> QED
    BY <2>1, <1>2, <1>3, <1>6
<1>11. Recorded'
  BY <1>1, <1>2, <1>4 DEF Recorded, Merging, argEnd
<1> QED
  BY <1>1, <1>2, <1>5, <1>7, <1>8, <1>9, <1>10, <1>11 DEF IInv, CursorLive, OnlyEmptyRejected,
     GrowsRight, Passed

-----------------------------------------------------------------------------
(* The merges.  First, what holds between cur and the other nodes.          *)
LEMMA MergeNextFacts ==
  ASSUME IInv, pc = "mergeNext"
  PROVE  /\ cur \in live /\ Key = start /\ Merging
         /\ \A m \in live : /\ m \in Node /\ m # NULL /\ start[m] \in Nat /\ end[m] \in Nat
                            /\ start[m] < end[m]
         /\ \A m, n \in live : n \notin {m, cur} /\ m # cur => Separate(m, n)
         /\ \A m \in live \ {cur} : end[m] < start[cur] \/ start[cur] < start[m]
         /\ SortedList(live, head, last, next, prev, start)
         /\ next[cur] # NULL => next[cur] \in live /\ next[cur] # cur
         /\ \A m \in live \ {cur} : start[cur] < start[m] =>
              next[cur] # NULL /\ (m = next[cur] \/ start[next[cur]] < start[m])
         /\ start[cur] <= arg.start /\ argEnd <= end[cur]
         /\ arg.start \in Nat /\ argEnd \in Nat
<1>1. cur \in live /\ Key = start /\ Merging
  BY DEF IInv, CursorLive, Key, Merging
<1>2. \A m \in live : /\ m \in Node /\ m # NULL /\ start[m] \in Nat /\ end[m] \in Nat
                     /\ start[m] < end[m]
  BY KeyType, NodeAssumption DEF IInv, WellFormed
<1>3. SortedList(live, head, last, next, prev, start)
  BY <1>1 DEF IInv, LinksOK
<1>4. /\ next[cur] # NULL => next[cur] \in live /\ start[cur] < start[next[cur]]
      /\ \A m \in live : start[cur] < start[m] =>
           cur # last /\ (m = next[cur] \/ start[next[cur]] < start[m])
      /\ cur # last => next[cur] \in live
  BY <1>1, <1>3 DEF SortedList
<1>5. arg.start \in Nat /\ argEnd \in Nat
  BY ArgType DEF IInv
<1>6. \A m, n \in live : n \notin {m, cur} /\ m # cur => Separate(m, n)
  BY DEF IInv, Disjoint
<1>7. next[cur] # NULL => next[cur] \in live /\ next[cur] # cur
  BY <1>1, <1>2, <1>4
<1>8. \A m \in live \ {cur} : start[cur] < start[m] =>
        next[cur] # NULL /\ (m = next[cur] \/ start[next[cur]] < start[m])
  BY <1>2, <1>4
<1> QED
  BY <1>1, <1>2, <1>3, <1>5, <1>6, <1>7, <1>8 DEF IInv, GrowsRight, Recorded

LEMMA MergePrevFacts ==
  ASSUME IInv, pc = "mergePrev"
  PROVE  /\ cur \in live /\ Key = end /\ Merging
         /\ \A m \in live : /\ m \in Node /\ m # NULL /\ start[m] \in Nat /\ end[m] \in Nat
                            /\ start[m] <= end[m] /\ (start[m] = end[m] => arg.len = 0)
         /\ \A m, n \in live : n \notin {m, cur} /\ m # cur => Separate(m, n)
         /\ \A m \in live \ {cur} : end[cur] < start[m] \/ end[m] < end[cur]
         /\ SortedList(live, head, last, next, prev, end)
         /\ prev[cur] # NULL => prev[cur] \in live /\ prev[cur] # cur
         /\ \A m \in live \ {cur} : end[m] < end[cur] =>
              prev[cur] # NULL /\ (m = prev[cur] \/ end[m] < end[prev[cur]])
         /\ start[cur] <= arg.start /\ argEnd <= end[cur]
         /\ arg.start \in Nat /\ argEnd \in Nat
<1>1. cur \in live /\ Key = end /\ Merging
  BY DEF IInv, CursorLive, Key, Merging
<1>2. \A m \in live : /\ m \in Node /\ m # NULL /\ start[m] \in Nat /\ end[m] \in Nat
                     /\ start[m] <= end[m] /\ (start[m] = end[m] => arg.len = 0)
  BY KeyType, NodeAssumption DEF IInv, WellFormed
<1>3. SortedList(live, head, last, next, prev, end)
  BY <1>1 DEF IInv, LinksOK
<1>4. cur # head <=> prev[cur] # NULL
  BY <1>1, <1>2, <1>3 DEF SortedList
<1>5. prev[cur] # NULL => /\ prev[cur] \in live /\ next[prev[cur]] = cur
                          /\ end[prev[cur]] < end[cur]
  BY <1>1, <1>2, <1>3, <1>4 DEF SortedList
<1>6. \A m \in live \ {cur} : end[m] < end[cur] =>
         prev[cur] # NULL /\ (m = prev[cur] \/ end[m] < end[prev[cur]])
  <2> SUFFICES ASSUME NEW m \in live \ {cur}, end[m] < end[cur]
               PROVE  prev[cur] # NULL /\ (m = prev[cur] \/ end[m] < end[prev[cur]])
    OBVIOUS
  <2>1. prev[cur] # NULL
    BY <1>1, <1>3, <1>4 DEF SortedList
  <2>2. m = prev[cur] \/ end[m] < end[prev[cur]] \/ end[prev[cur]] < end[m]
    BY <1>3, <1>5, <2>1 DEF SortedList
  <2>3. ~ (end[prev[cur]] < end[m])
    <3>1. end[prev[cur]] < end[m] => m = cur \/ end[cur] < end[m]
      BY <1>3, <1>5, <2>1 DEF SortedList
    <3> QED
      BY <3>1, <1>1, <1>2
  <2> QED
    BY <2>1, <2>2, <2>3
<1>7. arg.start \in Nat /\ argEnd \in Nat
  BY ArgType DEF IInv
<1>8. \A m, n \in live : n \notin {m, cur} /\ m # cur => Separate(m, n)
  BY DEF IInv, Disjoint
<1>9. prev[cur] # NULL => prev[cur] \in live /\ prev[cur] # cur
  BY <1>1, <1>2, <1>5
<1> QED
  BY <1>1, <1>2, <1>3, <1>6, <1>7, <1>8, <1>9 DEF IInv, GrowsLeft, Recorded

(* A merge ends: cur is separate from its neighbours again.                 *)
LEMMA StepMergeNextDone ==
  ASSUME IInv, MergeNextDone
  PROVE  IInv'
<1>1. /\ pc = "mergeNext" /\ pc' = "check" /\ live' = live /\ arg' = arg
      /\ start' = start /\ end' = end
      /\ next[cur] # NULL => start[next[cur]] > end[cur]
  BY DEF MergeNextDone, heap
<1> USE MergeNextFacts, <1>1
<1>2. \A m \in live \ {cur} : Separate(m, cur)
  <2> SUFFICES ASSUME NEW m \in live \ {cur}, start[cur] < start[m] PROVE end[cur] < start[m]
    BY DEF Separate
  <2>1. next[cur] \in live /\ end[cur] < start[next[cur]]
    OBVIOUS
  <2>2. m = next[cur] \/ start[next[cur]] < start[m]
    OBVIOUS
  <2> QED
    BY <2>1, <2>2
<1>3. Disjoint'
  BY <1>2 DEF Disjoint, Separate, Merging
<1>4. TypeOK' /\ LinksOK'
  BY DEF MergeNextDone, IInv, TypeOK, LinksOK, Key, heap
<1>5. InRegions'
  BY DEF InRegions, argEnd
<1> QED
  BY <1>3, <1>4, <1>5 DEF IInv, CursorLive, OnlyEmptyRejected, WellFormed, GrowsLeft, GrowsRight,
     Passed, Recorded, Merging

LEMMA StepMergePrevDone ==
  ASSUME IInv, MergePrevDone
  PROVE  IInv'
<1>1. /\ pc = "mergePrev" /\ pc' = "check" /\ live' = live /\ arg' = arg
      /\ start' = start /\ end' = end
      /\ prev[cur] # NULL => end[prev[cur]] < start[cur]
  BY DEF MergePrevDone, heap
<1> USE MergePrevFacts, <1>1
<1>2. \A m \in live \ {cur} : Separate(m, cur)
  <2> SUFFICES ASSUME NEW m \in live \ {cur}, end[m] < end[cur] PROVE end[m] < start[cur]
    BY DEF Separate
  <2>1. prev[cur] \in live /\ end[prev[cur]] < start[cur]
    OBVIOUS
  <2>2. m = prev[cur] \/ end[m] < end[prev[cur]]
    OBVIOUS
  <2> QED
    BY <2>1, <2>2
<1>3. \A m, n \in live : m # n => Separate(m, n)
  BY <1>2 DEF Separate
<1>4. Disjoint'
  BY <1>3 DEF Disjoint, Separate
<1>5. \A m, n \in live : end[m] < end[n] <=> start[m] < start[n]
  <2> TAKE m, n \in live
  <2>1. m # n => Separate(m, n)
    BY <1>3
  <2> QED
    BY <2>1 DEF Separate
<1>6. TypeOK'
  BY DEF MergePrevDone, IInv, TypeOK, heap
<1>7. LinksOK'
  <2>1. /\ live \in SUBSET Node /\ head \in Pointer /\ last \in Pointer
        /\ next \in [Node -> Pointer] /\ prev \in [Node -> Pointer]
        /\ start \in [Node -> Nat] /\ end \in [Node -> Nat]
    BY DEF IInv, TypeOK
  <2>2. SortedList(live, head, last, next, prev, start)
    BY <1>5, <2>1, ReorderList DEF SameOrder
  <2> QED
    BY <2>2 DEF MergePrevDone, LinksOK, Key, heap
<1>8. InRegions'
  BY DEF InRegions, argEnd
<1> QED
  BY <1>4, <1>6, <1>7, <1>8 DEF IInv, CursorLive, OnlyEmptyRejected, WellFormed, GrowsLeft,
     GrowsRight, Passed, Recorded, Merging

LEMMA DropRegionRemoves ==
  ASSUME TypeOK, NEW r \in live, NEW c \in live, r # c, DropRegion(r),
         NEW key \in [Node -> Nat], NEW key2 \in [Node -> Nat],
         SortedList(live, head, last, next, prev, key), SameOrder(live \ {r}, key, key2)
  PROVE  /\ SortedList(live', head', last', next', prev', key2)
         /\ live' = live \ {r}
         /\ next' \in [Node -> Pointer] /\ prev' \in [Node -> Pointer]
         /\ head' \in Pointer /\ last' \in Pointer
<1>1. /\ live \in SUBSET Node /\ head \in Pointer /\ last \in Pointer /\ r \in Node
      /\ next \in [Node -> Pointer] /\ prev \in [Node -> Pointer]
  BY DEF TypeOK
<1>2. /\ live' = live \ {r}
      /\ next' = [n \in Node |-> CASE n = r -> NULL
                                   [] n = prev[r] -> next[r]
                                   [] OTHER -> next[n]]
      /\ prev' = [n \in Node |-> CASE n = r -> NULL
                                   [] n = next[r] -> prev[r]
                                   [] OTHER -> prev[n]]
      /\ head' = IF prev[r] = NULL THEN next[r] ELSE head
      /\ last' = IF next[r] = NULL THEN prev[r] ELSE last
  BY DEF DropRegion
<1>3. next[r] \in Pointer /\ prev[r] \in Pointer
  BY <1>1
<1>4. head' \in Pointer /\ last' \in Pointer
  BY <1>1, <1>2, <1>3
<1>5. next' \in [Node -> Pointer] /\ prev' \in [Node -> Pointer]
  <2>1. \A n \in Node : (CASE n = r -> NULL [] n = prev[r] -> next[r] [] OTHER -> next[n]) \in Pointer
    BY <1>1, <1>3 DEF Pointer
  <2>2. \A n \in Node : (CASE n = r -> NULL [] n = next[r] -> prev[r] [] OTHER -> prev[n]) \in Pointer
    BY <1>1, <1>3 DEF Pointer
  <2> QED
    BY <1>2, <2>1, <2>2
<1>6. Removed(live, r, head, last, next, prev, head', last', next', prev')
  BY <1>1, <1>2 DEF Removed
<1> QED
  BY <1>1, <1>2, <1>4, <1>5, <1>6, RemoveFromList

LEMMA StepMergeNextCovered ==
  ASSUME IInv, MergeNextCovered
  PROVE  IInv'
<1> DEFINE r == next[cur]
<1>1. /\ pc = "mergeNext" /\ pc' = "mergeNext" /\ arg' = arg /\ cur' = cur /\ r # NULL
      /\ start[r] <= end[cur] /\ end[r] <= end[cur]
      /\ start' = [start EXCEPT ![r] = 0] /\ end' = [end EXCEPT ![r] = 0] /\ DropRegion(r)
  BY DEF MergeNextCovered
<1> USE MergeNextFacts, <1>1
<1>2. r \in live /\ r # cur /\ r \in Node
  OBVIOUS
<1>3. /\ start' \in [Node -> Nat] /\ end' \in [Node -> Nat] /\ start \in [Node -> Nat]
      /\ \A m \in live \ {r} : start'[m] = start[m] /\ end'[m] = end[m]
  BY <1>2 DEF IInv, TypeOK
<1>4. /\ SortedList(live', head', last', next', prev', start')
      /\ live' = live \ {r}
      /\ next' \in [Node -> Pointer] /\ prev' \in [Node -> Pointer]
      /\ head' \in Pointer /\ last' \in Pointer
  <2>1. SameOrder(live \ {r}, start, start')
    BY <1>3 DEF SameOrder
  <2>2. /\ cur \in live /\ SortedList(live, head, last, next, prev, start) /\ TypeOK /\ DropRegion(r)
    BY DEF IInv
  <2> HIDE DEF r
  <2> QED
    BY ONLY <1>2, <1>3, <2>1, <2>2, DropRegionRemoves
<1>5. TypeOK'
  BY <1>3, <1>4 DEF IInv, TypeOK
<1>6. LinksOK'
  BY <1>4 DEF LinksOK, Key
<1>7. WellFormed'
  BY <1>3, <1>4 DEF WellFormed
<1>8. Disjoint'
  BY <1>3, <1>4 DEF Disjoint, Separate, Merging
<1>9. GrowsRight'
  BY <1>2, <1>3, <1>4 DEF GrowsRight
<1>10. Recorded'
  BY <1>2, <1>3 DEF Recorded, Merging, argEnd
<1> QED
  BY <1>2, <1>4, <1>5, <1>6, <1>7, <1>8, <1>9, <1>10 DEF IInv, CursorLive, OnlyEmptyRejected,
     GrowsLeft, Passed

(* The dropped node is separate from all others, so taking over its end     *)
(* cannot reach the node after it.                                          *)
LEMMA StepMergeNextOverlap ==
  ASSUME IInv, MergeNextOverlap
  PROVE  IInv'
<1> DEFINE r == next[cur]
<1>1. /\ pc = "mergeNext" /\ pc' = "check" /\ arg' = arg /\ cur' = cur /\ r # NULL
      /\ start[r] <= end[cur] /\ end[r] > end[cur]
      /\ start' = [start EXCEPT ![r] = 0] /\ end' = [end EXCEPT ![cur] = end[r], ![r] = 0]
      /\ DropRegion(r)
  BY DEF MergeNextOverlap
<1> USE MergeNextFacts, <1>1
<1>2. r \in live /\ r # cur /\ r \in Node
  OBVIOUS
<1>3. /\ start' \in [Node -> Nat] /\ end' \in [Node -> Nat] /\ start \in [Node -> Nat]
      /\ \A m \in live \ {r} : start'[m] = start[m]
      /\ \A m \in live \ {r, cur} : end'[m] = end[m]
      /\ end'[cur] = end[r]
  BY <1>2 DEF IInv, TypeOK
<1>4. /\ SortedList(live', head', last', next', prev', start')
      /\ live' = live \ {r}
      /\ next' \in [Node -> Pointer] /\ prev' \in [Node -> Pointer]
      /\ head' \in Pointer /\ last' \in Pointer
  <2>1. SameOrder(live \ {r}, start, start')
    BY <1>3 DEF SameOrder
  <2>2. /\ cur \in live /\ SortedList(live, head, last, next, prev, start) /\ TypeOK /\ DropRegion(r)
    BY DEF IInv
  <2> HIDE DEF r
  <2> QED
    BY ONLY <1>2, <1>3, <2>1, <2>2, DropRegionRemoves
<1>5. TypeOK'
  BY <1>3, <1>4 DEF IInv, TypeOK
<1>6. LinksOK'
  BY <1>4 DEF LinksOK, Key
<1>7. WellFormed'
  <2> SUFFICES ASSUME NEW m \in live, m # r PROVE start'[m] < end'[m]
    BY <1>3, <1>4 DEF WellFormed
  <2>1. start[m] < end[m] /\ start[cur] < end[r]
    BY <1>2
  <2> QED
    BY <1>3, <2>1
<1>8. \A m \in live \ {cur, r} : end[m] < start[cur] \/ end[r] < start[m]
  <2> SUFFICES ASSUME NEW m \in live \ {cur, r}, start[cur] < start[m] PROVE end[r] < start[m]
    OBVIOUS
  <2>1. start[r] < start[m]
    OBVIOUS
  <2>2. Separate(m, r)
    BY <1>2
  <2>3. start[m] < end[m] /\ start[r] < end[r]
    BY <1>2
  <2> QED
    BY <1>2, <2>1, <2>2, <2>3 DEF Separate
<1>9. Disjoint'
  <2> SUFFICES ASSUME NEW m \in live \ {r}, NEW n \in live \ {r}, m # n PROVE Separate(m, n)'
    BY <1>4 DEF Disjoint
  <2>1. CASE cur \notin {m, n}
    BY <2>1, <1>3 DEF Separate
  <2>2. CASE cur \in {m, n}
    BY <2>2, <1>3, <1>8 DEF Separate
  <2> QED
    BY <2>1, <2>2
<1>10. InRegions'
  BY <1>2, <1>3, <1>4 DEF InRegions, argEnd
<1> QED
  BY <1>5, <1>6, <1>7, <1>9, <1>10 DEF IInv, CursorLive, OnlyEmptyRejected,
     GrowsLeft, GrowsRight, Passed, Recorded, Merging

LEMMA StepMergePrevCovered ==
  ASSUME IInv, MergePrevCovered
  PROVE  IInv'
<1> DEFINE r == prev[cur]
<1>1. /\ pc = "mergePrev" /\ pc' = "mergePrev" /\ arg' = arg /\ cur' = cur /\ r # NULL
      /\ end[r] >= start[cur] /\ start[r] >= start[cur]
      /\ start' = [start EXCEPT ![r] = 0] /\ end' = [end EXCEPT ![r] = 0] /\ DropRegion(r)
  BY DEF MergePrevCovered
<1> USE MergePrevFacts, <1>1
<1>2. r \in live /\ r # cur /\ r \in Node
  OBVIOUS
<1>3. /\ start' \in [Node -> Nat] /\ end' \in [Node -> Nat] /\ end \in [Node -> Nat]
      /\ \A m \in live \ {r} : start'[m] = start[m] /\ end'[m] = end[m]
  BY <1>2 DEF IInv, TypeOK
<1>4. /\ SortedList(live', head', last', next', prev', end')
      /\ live' = live \ {r}
      /\ next' \in [Node -> Pointer] /\ prev' \in [Node -> Pointer]
      /\ head' \in Pointer /\ last' \in Pointer
  <2>1. SameOrder(live \ {r}, end, end')
    BY <1>3 DEF SameOrder
  <2>2. /\ cur \in live /\ SortedList(live, head, last, next, prev, end) /\ TypeOK /\ DropRegion(r)
    BY DEF IInv
  <2> HIDE DEF r
  <2> QED
    BY ONLY <1>2, <1>3, <2>1, <2>2, DropRegionRemoves
<1>5. TypeOK'
  BY <1>3, <1>4 DEF IInv, TypeOK
<1>6. LinksOK'
  BY <1>4 DEF LinksOK, Key
<1>7. WellFormed'
  BY <1>3, <1>4 DEF WellFormed
<1>8. Disjoint'
  BY <1>3, <1>4 DEF Disjoint, Separate, Merging
<1>9. GrowsLeft'
  BY <1>2, <1>3, <1>4 DEF GrowsLeft
<1>10. Recorded'
  BY <1>2, <1>3 DEF Recorded, Merging, argEnd
<1> QED
  BY <1>2, <1>4, <1>5, <1>6, <1>7, <1>8, <1>9, <1>10 DEF IInv, CursorLive, OnlyEmptyRejected,
     GrowsRight, Passed

LEMMA StepMergePrevOverlap ==
  ASSUME IInv, MergePrevOverlap
  PROVE  IInv'
<1> DEFINE r == prev[cur]
<1>1. /\ pc = "mergePrev" /\ pc' = "check" /\ arg' = arg /\ cur' = cur /\ r # NULL
      /\ end[r] >= start[cur] /\ start[r] < start[cur]
      /\ start' = [start EXCEPT ![cur] = start[r], ![r] = 0] /\ end' = [end EXCEPT ![r] = 0]
      /\ DropRegion(r)
  BY DEF MergePrevOverlap
<1> USE MergePrevFacts, <1>1
<1>2. r \in live /\ r # cur /\ r \in Node
  OBVIOUS
<1>3. /\ start' \in [Node -> Nat] /\ end' \in [Node -> Nat] /\ end \in [Node -> Nat]
      /\ \A m \in live \ {r} : end'[m] = end[m]
      /\ \A m \in live \ {r, cur} : start'[m] = start[m]
      /\ start'[cur] = start[r]
  BY <1>2 DEF IInv, TypeOK
<1>4. \A m \in live \ {cur, r} : end[cur] < start[m] \/ end[m] < start[r]
  <2> SUFFICES ASSUME NEW m \in live \ {cur, r}, end[m] < end[cur] PROVE end[m] < start[r]
    OBVIOUS
  <2>1. end[m] < end[r]
    OBVIOUS
  <2>2. Separate(m, r)
    BY <1>2
  <2>3. start[m] <= end[m] /\ start[r] <= end[r]
    BY <1>2
  <2> QED
    BY <1>2, <2>1, <2>2, <2>3 DEF Separate
<1>5. \A m, n \in live \ {r} : m # n => Separate(m, n)'
  <2> SUFFICES ASSUME NEW m \in live \ {r}, NEW n \in live \ {r}, m # n PROVE Separate(m, n)'
    OBVIOUS
  <2>1. CASE cur \notin {m, n}
    BY <2>1, <1>3 DEF Separate
  <2>2. CASE cur \in {m, n}
    BY <2>2, <1>3, <1>4 DEF Separate
  <2> QED
    BY <2>1, <2>2
<1>6. \A m \in live \ {r} : start'[m] <= end'[m] /\ (start'[m] = end'[m] => arg.len = 0)
  <2> TAKE m \in live \ {r}
  <2>1. start[cur] <= end[cur] /\ start[r] < start[cur]
    OBVIOUS
  <2> QED
    BY <1>2, <1>3, <2>1
<1>7. /\ SortedList(live', head', last', next', prev', start')
      /\ live' = live \ {r}
      /\ next' \in [Node -> Pointer] /\ prev' \in [Node -> Pointer]
      /\ head' \in Pointer /\ last' \in Pointer
  <2>1. SameOrder(live \ {r}, end, start')
    <3> SUFFICES ASSUME NEW m \in live \ {r}, NEW n \in live \ {r}
                 PROVE  end[m] < end[n] <=> start'[m] < start'[n]
      BY DEF SameOrder
    <3>1. m # n => end'[m] < start'[n] \/ end'[n] < start'[m]
      BY <1>5 DEF Separate
    <3>2. /\ start'[m] <= end'[m] /\ start'[n] <= end'[n] /\ end'[m] = end[m] /\ end'[n] = end[n]
          /\ start'[m] \in Nat /\ start'[n] \in Nat /\ end'[m] \in Nat /\ end'[n] \in Nat
      BY <1>3, <1>6
    <3> QED
      BY ONLY <3>1, <3>2
  <2>2. /\ cur \in live /\ SortedList(live, head, last, next, prev, end) /\ TypeOK /\ DropRegion(r)
    BY DEF IInv
  <2> HIDE DEF r
  <2> QED
    BY ONLY <1>2, <1>3, <2>1, <2>2, DropRegionRemoves
<1>8. TypeOK'
  BY <1>3, <1>7 DEF IInv, TypeOK
<1>9. LinksOK'
  BY <1>7 DEF LinksOK, Key
<1>10. WellFormed'
  BY <1>6, <1>7 DEF WellFormed
<1>11. Disjoint'
  BY <1>5, <1>7 DEF Disjoint
<1>12. InRegions'
  BY <1>2, <1>3, <1>7 DEF InRegions, argEnd
<1> QED
  BY <1>8, <1>9, <1>10, <1>11, <1>12 DEF IInv, CursorLive, OnlyEmptyRejected,
     GrowsLeft, GrowsRight, Passed, Recorded, Merging

-----------------------------------------------------------------------------
LEMMA NextIInv == IInv /\ [Next]_vars => IInv'
<1> SUFFICES ASSUME IInv, [Next]_vars PROVE IInv'
  OBVIOUS
<1>1. CASE Next
  <2>1. CASE \E a \in Args : Call(a)
    BY <2>1, StepCall
  <2>2. CASE \E n \in Node : AddFirst(n) \/ AppendLast(n) \/ FoundBefore(n)
    BY <2>2, StepAddFirst, StepAppendLast, StepFoundBefore
  <2>3. CASE ExtendLast \/ OverlapLast \/ EnterSearch
    BY <2>3, StepExtendLast, StepOverlapLast, StepEnterSearch
  <2>4. CASE SearchSkip \/ SearchExtend \/ FoundInside \/ FoundOverlap
    BY <2>4, StepSearchSkip, StepSearchExtend, StepFoundInside, StepFoundOverlap
  <2>5. CASE MergeNextDone \/ MergeNextCovered \/ MergeNextOverlap
    BY <2>5, StepMergeNextDone, StepMergeNextCovered, StepMergeNextOverlap
  <2>6. CASE MergePrevDone \/ MergePrevCovered \/ MergePrevOverlap
    BY <2>6, StepMergePrevDone, StepMergePrevCovered, StepMergePrevOverlap
  <2>7. CASE ReturnAdded \/ ReturnRejected \/ FreeRegions
    BY <2>7, StepReturnAdded, StepReturnRejected, StepFreeRegions
  <2> QED
    BY <1>1, <2>1, <2>2, <2>3, <2>4, <2>5, <2>6, <2>7 DEF Next, AddRange
<1>2. CASE UNCHANGED vars
  BY <1>2 DEF vars, heap, IInv, TypeOK, LinksOK, Key, CursorLive, OnlyEmptyRejected, WellFormed,
     Disjoint, Separate, GrowsLeft, GrowsRight, Passed, Recorded, Merging, InRegions, argEnd
<1> QED
  BY <1>1, <1>2

THEOREM Invariance == Spec => []IInv
BY InitIInv, NextIInv, PTL DEF Spec

(* The state of the recorder always has its type.                           *)
THEOREM TypeCorrect == Spec => []TypeOK
BY Invariance, PTL DEF IInv

(* At every step of every call the heap holds one sorted doubly linked      *)
(* list: no merge and no drop_region leaves a link, head or last behind.    *)
THEOREM LinksCorrect == Spec => []LinksOK
BY Invariance, PTL DEF IInv

(* The search never runs off the list and no merge uses a freed node.       *)
THEOREM CursorCorrect == Spec => []CursorLive
BY Invariance, PTL DEF IInv

(* regions_add_range only ever returns 0 for a range of length 0.           *)
THEOREM RejectionCorrect == Spec => []OnlyEmptyRejected
BY Invariance, PTL DEF IInv

(* Between calls every node is a maximal run of written bytes.              *)
THEOREM MaximalRunsCorrect == Spec => []MaximalRuns
<1>1. IInv => MaximalRuns
  <2> SUFFICES ASSUME IInv, pc = "idle", NEW n \in live, NEW m \in live
               PROVE  start[n] < end[n] /\ (n # m => end[n] < start[m] \/ end[m] < start[n])
    BY DEF MaximalRuns
  <2>1. start[n] \in Nat /\ end[n] \in Nat /\ start[n] < end[n]
    BY KeyType DEF IInv, WellFormed
  <2> QED
    BY <2>1 DEF IInv, Disjoint, Separate, Merging
<1> QED
  BY <1>1, Invariance, PTL

-----------------------------------------------------------------------------
(* The refinement.  Holds(b) says that byte b is in a node.                 *)
Holds(b) == \E n \in live : start[n] <= b /\ b < end[n]

(* A step that keeps the bytes and the call is a stuttering step,           *)
LEMMA KeepBytes ==
  ASSUME \A b \in Nat : Holds(b)' <=> Holds(b), arg' = arg
  PROVE  UNCHANGED Bytes!bytesVars
<1>1. \A b \in 0 .. Limit - 1 : Holds(b)' <=> Holds(b)
  BY LimitAssumption
<1>2. Covered = { b \in 0 .. Limit - 1 : Holds(b) }
  BY DEF Covered, Holds
<1>3. Covered' = { b \in 0 .. Limit - 1 : Holds(b)' }
  BY DEF Covered, Holds
<1>4. Covered' = Covered
  BY <1>1, <1>2, <1>3
<1> QED
  BY <1>4 DEF Bytes!bytesVars

(* and one that adds the bytes of the range is the abstract Record.         *)
LEMMA AddBytes ==
  ASSUME IInv, pc # "idle", arg' = arg,
         \A b \in Nat : Holds(b)' <=> Holds(b) \/ (arg.start <= b /\ b < argEnd)
  PROVE  Bytes!Record
<1>1. /\ arg # NoRange /\ arg.start \in Nat /\ argEnd \in Nat /\ arg.len \in Nat
      /\ argEnd = arg.start + arg.len /\ argEnd < Limit
  BY ArgType DEF IInv, Args, argEnd
<1>2. Covered = { b \in 0 .. Limit - 1 : Holds(b) }
  BY DEF Covered, Holds
<1>3. Covered' = { b \in 0 .. Limit - 1 : Holds(b)' }
  BY DEF Covered, Holds
<1>4. Bytes!BytesOf(arg) = { b \in 0 .. Limit - 1 : arg.start <= b /\ b < argEnd }
  BY <1>1, LimitAssumption DEF Bytes!BytesOf
<1>5. \A b \in 0 .. Limit - 1 : Holds(b)' <=> Holds(b) \/ (arg.start <= b /\ b < argEnd)
  BY LimitAssumption
<1>6. Covered' = Covered \cup Bytes!BytesOf(arg)
  BY <1>2, <1>3, <1>4, <1>5
<1> QED
  BY <1>1, <1>6 DEF Bytes!Record

LEMMA InitRefines == Init => Bytes!Init
BY DEF Init, Bytes!Init, Covered

LEMMA CallRefines ==
  ASSUME IInv, NEW a \in Args, Call(a)
  PROVE  Bytes!Call(a) /\ a \in Bytes!Ranges
<1>1. a.start \in Nat /\ a.len \in Nat /\ a.start + a.len < Limit /\ a \in [start : Nat, len : Nat]
  <2>1. a \in [start : Starts, len : Lens] /\ a.start + a.len < Limit
    BY DEF Args
  <2>2. a \in [start : Nat, len : Nat]
    BY <2>1, InputAssumption
  <2> QED
    BY <2>1, <2>2
<1>2. a.start \in 0 .. Limit /\ a.len \in 0 .. Limit
  BY <1>1, LimitAssumption
<1>3. a \in [start : 0 .. Limit, len : 0 .. Limit]
  BY <1>1, <1>2
<1>4. a \in Bytes!Ranges
  BY <1>1, <1>3 DEF Bytes!Ranges
<1>5. arg = NoRange /\ arg' = a /\ Covered' = Covered
  BY DEF Call, IInv, TypeOK, Covered, heap
<1> QED
  BY <1>4, <1>5 DEF Bytes!Call

(* The seven places where a call records its range.                         *)
LEMMA RecordRefines ==
  ASSUME IInv,
         \/ \E n \in Node : AddFirst(n) \/ AppendLast(n) \/ FoundBefore(n)
         \/ ExtendLast \/ OverlapLast \/ SearchExtend \/ FoundOverlap
  PROVE  Bytes!Record
<1>1. pc # "idle" /\ arg' = arg
  BY DEF AddFirst, AppendLast, FoundBefore, ExtendLast, OverlapLast, SearchExtend, FoundOverlap
<1>2. arg.start \in Nat /\ argEnd \in Nat /\ arg.len \in Nat /\ argEnd = arg.start + arg.len
  BY <1>1, ArgType DEF IInv, argEnd
<1>3. \A m \in live : m \in Node /\ start[m] \in Nat /\ end[m] \in Nat /\ start[m] <= end[m]
  BY KeyType DEF IInv, WellFormed
<1>4. head # NULL => last \in live
  BY DEF IInv, LinksOK, SortedList
<1>5. pc = "search" => cur \in live
  BY DEF IInv, CursorLive
<1> SUFFICES ASSUME NEW b \in Nat
             PROVE  Holds(b)' <=> Holds(b) \/ (arg.start <= b /\ b < argEnd)
  BY <1>1, AddBytes
<1>6. ASSUME NEW n \in Node, AddFirst(n) \/ AppendLast(n) \/ FoundBefore(n)
      PROVE  Holds(b)' <=> Holds(b) \/ (arg.start <= b /\ b < argEnd)
  <2>1. /\ live' = live \cup {n} /\ n \notin live
        /\ start' = [start EXCEPT ![n] = arg.start] /\ end' = [end EXCEPT ![n] = argEnd]
    BY <1>6 DEF AddFirst, AppendLast, FoundBefore
  <2>2. /\ start'[n] = arg.start /\ end'[n] = argEnd
        /\ \A m \in live : start'[m] = start[m] /\ end'[m] = end[m]
    BY <2>1, <1>3 DEF IInv, TypeOK
  <2> QED
    BY <2>1, <2>2 DEF Holds
<1>7. CASE ExtendLast \/ SearchExtend
  <2>1. PICK c \in live : /\ arg.start = end[c] /\ live' = live /\ start' = start
                          /\ end' = [end EXCEPT ![c] = @ + arg.len]
    BY <1>4, <1>5, <1>7 DEF ExtendLast, SearchExtend
  <2>2. end'[c] = argEnd /\ \A m \in live \ {c} : end'[m] = end[m]
    BY <2>1, <1>2, <1>3 DEF IInv, TypeOK
  <2>3. start[c] <= arg.start
    BY <2>1, <1>3
  <2> QED
    BY <2>1, <2>2, <2>3, <1>2, <1>3 DEF Holds
<1>8. CASE OverlapLast
  <2>1. /\ last \in live /\ live' = live /\ arg.start < end[last] /\ argEnd > end[last]
        /\ end' = [end EXCEPT ![last] = argEnd]
        /\ start' = [start EXCEPT ![last] = IF arg.start < @ THEN arg.start ELSE @]
    BY <1>2, <1>3, <1>4, <1>8 DEF OverlapLast, IInv, TypeOK
  <2>2. /\ end'[last] = argEnd /\ \A m \in live \ {last} : end'[m] = end[m] /\ start'[m] = start[m]
        /\ start'[last] = IF arg.start < start[last] THEN arg.start ELSE start[last]
    BY <2>1, <1>3 DEF IInv, TypeOK
  <2> QED
    BY <2>1, <2>2, <1>2, <1>3 DEF Holds
<1>9. CASE FoundOverlap
  <2>1. /\ cur \in live /\ live' = live /\ arg.start < start[cur] /\ argEnd >= start[cur]
        /\ argEnd <= end[cur] /\ end' = end /\ start' = [start EXCEPT ![cur] = arg.start]
    BY <1>5, <1>9 DEF FoundOverlap
  <2>2. start'[cur] = arg.start /\ \A m \in live \ {cur} : start'[m] = start[m]
    BY <2>1, <1>3 DEF IInv, TypeOK
  <2> QED
    BY <2>1, <2>2, <1>2, <1>3 DEF Holds
<1> QED
  BY <1>6, <1>7, <1>8, <1>9

(* The merges lose no byte: what is dropped lies inside cur.                *)
LEMMA MergeRefines ==
  ASSUME IInv, MergeNextCovered \/ MergeNextOverlap \/ MergePrevCovered \/ MergePrevOverlap
  PROVE  UNCHANGED Bytes!bytesVars
<1>1. \A m \in live : m \in Node /\ start[m] \in Nat /\ end[m] \in Nat /\ start[m] <= end[m]
  BY KeyType DEF IInv, WellFormed
<1>2. PICK r \in live \ {cur} :
        /\ cur \in live /\ live' = live \ {r}
        /\ start[r] <= end[cur] /\ start[cur] <= end[r]
        /\ \A m \in live \ {r, cur} : start'[m] = start[m] /\ end'[m] = end[m]
        /\ start'[cur] = IF start[r] < start[cur] THEN start[r] ELSE start[cur]
        /\ end'[cur] = IF end[r] > end[cur] THEN end[r] ELSE end[cur]
  <2>1. CASE MergeNextCovered \/ MergeNextOverlap
    <3> DEFINE r == next[cur]
    <3>1. /\ pc = "mergeNext" /\ r # NULL /\ start[r] <= end[cur] /\ live' = live \ {r}
          /\ start' = [start EXCEPT ![r] = 0]
          /\ \/ end[r] <= end[cur] /\ end' = [end EXCEPT ![r] = 0]
             \/ end[r] > end[cur] /\ end' = [end EXCEPT ![cur] = end[r], ![r] = 0]
      BY <2>1 DEF MergeNextCovered, MergeNextOverlap, DropRegion
    <3>2. cur \in live /\ r \in live /\ r # cur
      BY <3>1, MergeNextFacts
    <3>3. start[cur] < start[r]
      BY <3>1, <3>2, MergeNextFacts DEF SortedList
    <3>4. /\ \A m \in live \ {r, cur} : start'[m] = start[m] /\ end'[m] = end[m]
          /\ start'[cur] = start[cur]
          /\ end'[cur] = IF end[r] > end[cur] THEN end[r] ELSE end[cur]
      BY <3>1, <3>2, <1>1 DEF IInv, TypeOK
    <3>5. start[cur] <= end[r] /\ ~ (start[r] < start[cur])
      BY <3>2, <3>3, <1>1
    <3> QED
      BY <3>1, <3>2, <3>4, <3>5
  <2>2. CASE MergePrevCovered \/ MergePrevOverlap
    <3> DEFINE r == prev[cur]
    <3>1. /\ pc = "mergePrev" /\ r # NULL /\ start[cur] <= end[r] /\ live' = live \ {r}
          /\ end' = [end EXCEPT ![r] = 0]
          /\ \/ start[r] >= start[cur] /\ start' = [start EXCEPT ![r] = 0]
             \/ start[r] < start[cur] /\ start' = [start EXCEPT ![cur] = start[r], ![r] = 0]
      BY <2>2 DEF MergePrevCovered, MergePrevOverlap, DropRegion
    <3>2. cur \in live /\ r \in live /\ r # cur
      BY <3>1, MergePrevFacts
    <3>3. cur # head
      BY <3>1, <3>2, MergePrevFacts DEF SortedList
    <3>4. next[r] = cur
      BY <3>2, <3>3, MergePrevFacts, <3>1 DEF SortedList
    <3>5. r # last
      BY <3>2, <3>4, MergePrevFacts, <3>1 DEF SortedList
    <3>6. end[r] < end[cur]
      BY <3>1, <3>2, <3>4, <3>5, MergePrevFacts DEF SortedList
    <3>7. /\ \A m \in live \ {r, cur} : start'[m] = start[m] /\ end'[m] = end[m]
          /\ end'[cur] = end[cur]
          /\ start'[cur] = IF start[r] < start[cur] THEN start[r] ELSE start[cur]
      BY <3>1, <3>2, <1>1 DEF IInv, TypeOK
    <3>8. start[r] <= end[cur] /\ ~ (end[r] > end[cur])
      BY <3>2, <3>6, <1>1
    <3> QED
      BY <3>1, <3>2, <3>7, <3>8
  <2> QED
    BY <2>1, <2>2
<1>3. \A b \in Nat : Holds(b)' <=> Holds(b)
  <2> SUFFICES ASSUME NEW b \in Nat PROVE Holds(b)' <=> Holds(b)
    OBVIOUS
  <2>1. (start'[cur] <= b /\ b < end'[cur]) <=>
          (start[cur] <= b /\ b < end[cur]) \/ (start[r] <= b /\ b < end[r])
    BY <1>1, <1>2
  <2> QED
    BY <1>2, <2>1 DEF Holds
<1>4. arg' = arg
  BY DEF MergeNextCovered, MergeNextOverlap, MergePrevCovered, MergePrevOverlap
<1> QED
  BY <1>3, <1>4, KeepBytes

LEMMA QuietRefines ==
  ASSUME \/ EnterSearch \/ SearchSkip \/ FoundInside \/ MergeNextDone \/ MergePrevDone
         \/ ReturnRejected \/ UNCHANGED vars
  PROVE  UNCHANGED Bytes!bytesVars
<1>1. live' = live /\ start' = start /\ end' = end /\ arg' = arg
  BY DEF EnterSearch, SearchSkip, FoundInside, MergeNextDone, MergePrevDone, ReturnRejected,
     vars, heap
<1> QED
  BY <1>1, KeepBytes DEF Holds

LEMMA ReturnRefines ==
  ASSUME IInv, ReturnAdded
  PROVE  Bytes!Return
<1>1. /\ pc = "check" /\ InRegions /\ arg' = NoRange
      /\ live' = live /\ start' = start /\ end' = end
  BY DEF ReturnAdded, heap
<1>2. /\ arg # NoRange /\ arg.start \in Nat /\ argEnd \in Nat /\ arg.len \in Nat
      /\ argEnd = arg.start + arg.len /\ argEnd < Limit
  BY <1>1, ArgType DEF IInv, Args, argEnd
<1>3. PICK n \in live : arg.start >= start[n] /\ argEnd <= end[n]
  BY <1>1 DEF InRegions
<1>4. start[n] \in Nat /\ end[n] \in Nat
  BY KeyType DEF IInv
<1>5. Bytes!BytesOf(arg) \subseteq Covered
  <2> SUFFICES ASSUME NEW b \in arg.start .. (arg.start + arg.len - 1) PROVE b \in Covered
    BY DEF Bytes!BytesOf
  <2>1. b \in 0 .. Limit - 1 /\ start[n] <= b /\ b < end[n]
    BY <1>2, <1>3, <1>4, LimitAssumption
  <2> QED
    BY <2>1 DEF Covered
<1>6. Covered' = Covered
  BY <1>1 DEF Covered
<1> QED
  BY <1>1, <1>2, <1>5, <1>6 DEF Bytes!Return

LEMMA FreeRefines ==
  ASSUME IInv, FreeRegions
  PROVE  Bytes!Clear
<1>1. live' = {} /\ arg' = arg /\ arg = NoRange
  BY DEF FreeRegions, IInv, TypeOK
<1>2. Covered' = {}
  BY <1>1 DEF Covered
<1> QED
  BY <1>1, <1>2 DEF Bytes!Clear

(* The list of regions is a faithful implementation of a set of written     *)
(* bytes, for every size of object, set of ranges and allocator.            *)
THEOREM Refinement == Spec => ImplementsWrittenBytes
<1>1. IInv /\ [Next]_vars => [Bytes!Next]_Bytes!bytesVars
  <2> SUFFICES ASSUME IInv, [Next]_vars PROVE [Bytes!Next]_Bytes!bytesVars
    OBVIOUS
  <2>1. CASE \E a \in Args : Call(a)
    BY <2>1, CallRefines DEF Bytes!Next
  <2>2. CASE \/ \E n \in Node : AddFirst(n) \/ AppendLast(n) \/ FoundBefore(n)
             \/ ExtendLast \/ OverlapLast \/ SearchExtend \/ FoundOverlap
    BY <2>2, RecordRefines DEF Bytes!Next
  <2>3. CASE MergeNextCovered \/ MergeNextOverlap \/ MergePrevCovered \/ MergePrevOverlap
    BY <2>3, MergeRefines
  <2>4. CASE \/ EnterSearch \/ SearchSkip \/ FoundInside \/ MergeNextDone \/ MergePrevDone
             \/ ReturnRejected \/ UNCHANGED vars
    BY <2>4, QuietRefines
  <2>5. CASE ReturnAdded \/ FreeRegions
    BY <2>5, ReturnRefines, FreeRefines DEF Bytes!Next
  <2> QED
    BY <2>1, <2>2, <2>3, <2>4, <2>5 DEF Next, AddRange
<1> QED
  BY <1>1, InitRefines, Invariance, PTL DEF Spec, ImplementsWrittenBytes, Bytes!Spec
=============================================================================
