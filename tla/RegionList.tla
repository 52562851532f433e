----------------------------- MODULE RegionList -----------------------------
(***************************************************************************)
(* src/demmt/region.c: the written-region recorder of a GPU object.  The   *)
(* recorder is a doubly linked list of byte ranges [start, end), kept      *)
(* sorted, disjoint and non-adjacent, with a pointer to its last node.     *)
(*                                                                         *)
(* The model keeps the heap of list nodes: a node is its address, the      *)
(* fields are functions from addresses, malloc picks an address that is    *)
(* not live and free makes it dead.  A call of regions_add_range is a      *)
(* sequence of steps, one per iteration of its search loop and one per     *)
(* activation of the tail-recursive merge routines; pc says where the call *)
(* is and cur is the local pointer.  The program is single-threaded: no    *)
(* other operation starts while a call is open.                            *)
(***************************************************************************)
EXTENDS Integers

CONSTANTS
  Node,     \* addresses malloc may return for a struct region
  NULL,     \* the null pointer
  NoRange,  \* the call's arguments when no call is open
  Limit,    \* offsets are uint32_t: 0 .. Limit - 1
  Starts,   \* start offsets callers pass
  Lens      \* lengths callers pass; 0 is possible (an m2mf copy of 0 lines)

ASSUME LimitAssumption == Limit \in Nat
ASSUME NodeAssumption == NULL \notin Node
ASSUME InputAssumption == Starts \subseteq Nat /\ Lens \subseteq Nat
ASSUME NoRangeAssumption == NoRange \notin [start : Nat, len : Nat]

VARIABLES
  live,              \* the nodes malloc returned and free did not take back
  start, end,        \* the range of a node
  prev, next,        \* its links
  head, last,        \* struct regions
  pc,                \* where the call in progress is
  arg,               \* its (start, len), or NoRange
  cur                \* its local pointer

heap == << start, end, prev, next >>
vars == << live, heap, head, last, pc, arg, cur >>

Pointer == Node \cup {NULL}

(* The ranges callers hand over: buffer_register_mmt_write and              *)
(* gpu_mapping_register_write first check them against the length of the   *)
(* object, so start + len does not wrap as long as objects are smaller     *)
(* than Limit bytes.                                                       *)
Args == { a \in [start : Starts, len : Lens] : a.start + a.len < Limit }

argEnd == arg.start + arg.len

TypeOK ==
  /\ live \subseteq Node
  /\ start \in [Node -> Nat] /\ end \in [Node -> Nat]
  /\ prev \in [Node -> Pointer] /\ next \in [Node -> Pointer]
  /\ head \in Pointer /\ last \in Pointer /\ cur \in Pointer
  /\ pc \in {"idle", "add", "search", "mergeNext", "mergePrev", "check", "aborted"}
  /\ arg \in Args \cup {NoRange}
  /\ arg = NoRange <=> pc = "idle"

Init ==
  /\ live = {}
  /\ start = [n \in Node |-> 0] /\ end = [n \in Node |-> 0]
  /\ prev = [n \in Node |-> NULL] /\ next = [n \in Node |-> NULL]
  /\ head = NULL /\ last = NULL
  /\ pc = "idle" /\ arg = NoRange /\ cur = NULL

-----------------------------------------------------------------------------
(* regions_add_range is entered. *)
Call(a) ==
  /\ pc = "idle"
  /\ pc' = "add" /\ arg' = a /\ cur' = NULL
  /\ UNCHANGED << live, heap, head, last >>

(* Definitions named ...Mutant are wrong on purpose: each replaces the       *)
(* definition after it to show that a property can fail.  No action uses    *)
(* them.  This one stores an inclusive end.                                  *)
AddFirstMutant(n) ==
  /\ pc = "add" /\ head = NULL
  /\ n \notin live
  /\ live' = live \cup {n}
  /\ start' = [start EXCEPT ![n] = arg.start]
  /\ end' = [end EXCEPT ![n] = argEnd - 1]
  /\ prev' = [prev EXCEPT ![n] = NULL]
  /\ next' = [next EXCEPT ![n] = NULL]
  /\ head' = n /\ last' = n
  /\ pc' = "check"
  /\ UNCHANGED << arg, cur >>

(* __regions_add_range on an empty list. *)
AddFirst(n) ==
  /\ pc = "add" /\ head = NULL
  /\ n \notin live
  /\ live' = live \cup {n}
  /\ start' = [start EXCEPT ![n] = arg.start]
  /\ end' = [end EXCEPT ![n] = argEnd]
  /\ prev' = [prev EXCEPT ![n] = NULL]
  /\ next' = [next EXCEPT ![n] = NULL]
  /\ head' = n /\ last' = n
  /\ pc' = "check"
  /\ UNCHANGED << arg, cur >>

(* The range starts exactly where the last node ends. *)
ExtendLast ==
  /\ pc = "add" /\ head # NULL
  /\ arg.start = end[last]
  /\ end' = [end EXCEPT ![last] = @ + arg.len]
  /\ pc' = "check"
  /\ UNCHANGED << live, start, prev, next, head, last, arg, cur >>

(* The range lies beyond the last node. *)
AppendLast(n) ==
  /\ pc = "add" /\ head # NULL
  /\ arg.start > end[last]
  /\ n \notin live
  /\ live' = live \cup {n}
  /\ start' = [start EXCEPT ![n] = arg.start]
  /\ end' = [end EXCEPT ![n] = argEnd]
  /\ prev' = [prev EXCEPT ![n] = last]
  /\ next' = [next EXCEPT ![n] = NULL, ![last] = n]
  /\ last' = n
  /\ pc' = "check"
  /\ UNCHANGED << head, arg, cur >>

\* Does not merge after it moved the start of the last node.
OverlapLastMutant ==
  /\ pc = "add" /\ head # NULL
  /\ arg.start < end[last] /\ argEnd > end[last]
  /\ end' = [end EXCEPT ![last] = argEnd]
  /\ start' = [start EXCEPT ![last] = IF arg.start < @ THEN arg.start ELSE @]
  /\ pc' = "check"
  /\ UNCHANGED << live, prev, next, head, last, arg, cur >>

(* The range starts before the end of the last node and ends after it. *)
OverlapLast ==
  /\ pc = "add" /\ head # NULL
  /\ arg.start < end[last] /\ argEnd > end[last]
  /\ end' = [end EXCEPT ![last] = argEnd]
  /\ \/ /\ arg.start < start[last]
        /\ start' = [start EXCEPT ![last] = arg.start]
        /\ cur' = last /\ pc' = "mergePrev"
     \/ /\ arg.start >= start[last]
        /\ pc' = "check"
        /\ UNCHANGED << start, cur >>
  /\ UNCHANGED << live, prev, next, head, last, arg >>

\* Searches although the range ends beyond the last node.
EnterSearchMutant ==
  /\ pc = "add" /\ head # NULL
  /\ arg.start < end[last]
  /\ pc' = "search" /\ cur' = head
  /\ UNCHANGED << live, heap, head, last, arg >>

(* The range ends at or before the end of the last node. *)
EnterSearch ==
  /\ pc = "add" /\ head # NULL
  /\ arg.start < end[last] /\ argEnd <= end[last]
  /\ pc' = "search" /\ cur' = head
  /\ UNCHANGED << live, heap, head, last, arg >>

-----------------------------------------------------------------------------
\* The loop forgets to advance.
SearchSkipMutant ==
  /\ pc = "search"
  /\ argEnd > end[cur] /\ end[cur] # arg.start
  /\ UNCHANGED vars

(* An iteration of the search loop for the first node that ends at or after *)
(* the range.                                                               *)
SearchSkip ==
  /\ pc = "search"
  /\ argEnd > end[cur] /\ end[cur] # arg.start
  /\ cur' = next[cur]
  /\ UNCHANGED << live, heap, head, last, pc, arg >>

(* The loop's shortcut: the range starts where the visited node ends. *)
SearchExtend ==
  /\ pc = "search"
  /\ argEnd > end[cur] /\ end[cur] = arg.start
  /\ end' = [end EXCEPT ![cur] = @ + arg.len]
  /\ pc' = "mergeNext"
  /\ UNCHANGED << live, start, prev, next, head, last, arg, cur >>

(* The loop ends at cur, which already holds the range. *)
FoundInside ==
  /\ pc = "search"
  /\ argEnd <= end[cur] /\ arg.start >= start[cur]
  /\ pc' = "check"
  /\ UNCHANGED << live, heap, head, last, arg, cur >>

(* The range ends before cur starts: a new node before cur. *)
FoundBefore(n) ==
  /\ pc = "search"
  /\ argEnd <= end[cur] /\ arg.start < start[cur] /\ argEnd < start[cur]
  /\ n \notin live
  /\ live' = live \cup {n}
  /\ start' = [start EXCEPT ![n] = arg.start]
  /\ end' = [end EXCEPT ![n] = argEnd]
  /\ prev' = [prev EXCEPT ![n] = prev[cur], ![cur] = n]
  /\ next' = [m \in Node |-> IF m = n THEN cur
                             ELSE IF m = prev[cur] THEN n ELSE next[m]]
  /\ head' = IF prev[cur] = NULL THEN n ELSE head
  /\ cur' = n /\ pc' = "mergePrev"
  /\ UNCHANGED << last, arg >>

(* The range ends inside cur, or where it starts: cur grows to the left. *)
FoundOverlap ==
  /\ pc = "search"
  /\ argEnd <= end[cur] /\ arg.start < start[cur] /\ argEnd >= start[cur]
  /\ start' = [start EXCEPT ![cur] = arg.start]
  /\ pc' = "mergePrev"
  /\ UNCHANGED << live, end, prev, next, head, last, arg, cur >>

-----------------------------------------------------------------------------
\* Forgets that the dropped node may be the last one.
DropRegionMutant(r) ==
  /\ live' = live \ {r}
  /\ next' = [n \in Node |-> CASE n = r -> NULL
                               [] n = prev[r] -> next[r]
                               [] OTHER -> next[n]]
  /\ prev' = [n \in Node |-> CASE n = r -> NULL
                               [] n = next[r] -> prev[r]
                               [] OTHER -> prev[n]]
  /\ head' = IF prev[r] = NULL THEN next[r] ELSE head
  /\ UNCHANGED last

(* drop_region: unlink and free node r.  The fields of a dead node are      *)
(* reset, so that states that differ only in dead memory are one state.     *)
DropRegion(r) ==
  /\ live' = live \ {r}
  /\ next' = [n \in Node |-> CASE n = r -> NULL
                               [] n = prev[r] -> next[r]
                               [] OTHER -> next[n]]
  /\ prev' = [n \in Node |-> CASE n = r -> NULL
                               [] n = next[r] -> prev[r]
                               [] OTHER -> prev[n]]
  /\ head' = IF prev[r] = NULL THEN next[r] ELSE head
  /\ last' = IF next[r] = NULL THEN prev[r] ELSE last

(* maybe_merge_with_next: an activation drops the next node when cur covers *)
(* it and goes on, or takes over its end when it sticks out, or returns.    *)
MergeNextDone ==
  /\ pc = "mergeNext"
  /\ next[cur] # NULL => start[next[cur]] > end[cur]
  /\ pc' = "check"
  /\ UNCHANGED << live, heap, head, last, arg, cur >>

MergeNextCovered ==
  LET r == next[cur] IN
  /\ pc = "mergeNext" /\ r # NULL
  /\ start[r] <= end[cur] /\ end[r] <= end[cur]
  /\ start' = [start EXCEPT ![r] = 0]
  /\ end' = [end EXCEPT ![r] = 0]
  /\ DropRegion(r)
  /\ UNCHANGED << pc, arg, cur >>

\* Drops the next node without taking over its end.
MergeNextOverlapMutant ==
  LET r == next[cur] IN
  /\ pc = "mergeNext" /\ r # NULL
  /\ start[r] <= end[cur] /\ end[r] > end[cur]
  /\ start' = [start EXCEPT ![r] = 0]
  /\ end' = [end EXCEPT ![r] = 0]
  /\ DropRegion(r)
  /\ pc' = "check"
  /\ UNCHANGED << arg, cur >>

MergeNextOverlap ==
  LET r == next[cur] IN
  /\ pc = "mergeNext" /\ r # NULL
  /\ start[r] <= end[cur] /\ end[r] > end[cur]
  /\ start' = [start EXCEPT ![r] = 0]
  /\ end' = [end EXCEPT ![cur] = end[r], ![r] = 0]
  /\ DropRegion(r)
  /\ pc' = "check"
  /\ UNCHANGED << arg, cur >>

(* maybe_merge_with_previous, likewise. *)
MergePrevDone ==
  /\ pc = "mergePrev"
  /\ prev[cur] # NULL => end[prev[cur]] < start[cur]
  /\ pc' = "check"
  /\ UNCHANGED << live, heap, head, last, arg, cur >>

MergePrevCovered ==
  LET r == prev[cur] IN
  /\ pc = "mergePrev" /\ r # NULL
  /\ end[r] >= start[cur] /\ start[r] >= start[cur]
  /\ start' = [start EXCEPT ![r] = 0]
  /\ end' = [end EXCEPT ![r] = 0]
  /\ DropRegion(r)
  /\ UNCHANGED << pc, arg, cur >>

MergePrevOverlap ==
  LET r == prev[cur] IN
  /\ pc = "mergePrev" /\ r # NULL
  /\ end[r] >= start[cur] /\ start[r] < start[cur]
  /\ start' = [start EXCEPT ![cur] = start[r], ![r] = 0]
  /\ end' = [end EXCEPT ![r] = 0]
  /\ DropRegion(r)
  /\ pc' = "check"
  /\ UNCHANGED << arg, cur >>

-----------------------------------------------------------------------------
\* The sanity check is left out.
SaneMutant == TRUE

(* regions_are_sane: a walk from head.  Links may not be cyclic when it     *)
(* runs (LinksOK below), so the nodes it visits are the live ones.          *)
Sane ==
  /\ head # NULL => prev[head] = NULL
  /\ \A n \in live :
       /\ start[n] < end[n]
       /\ next[n] # NULL => end[n] < start[next[n]]

(* range_in_regions *)
InRegions == \E n \in live : arg.start >= start[n] /\ argEnd <= end[n]

(* regions_add_range returns 1, *)
ReturnAdded ==
  /\ pc = "check" /\ Sane /\ InRegions
  /\ pc' = "idle" /\ arg' = NoRange /\ cur' = NULL
  /\ UNCHANGED << live, heap, head, last >>

(* or 0, and every caller aborts. *)
ReturnRejected ==
  /\ pc = "check" /\ ~ (Sane /\ InRegions)
  /\ pc' = "aborted"
  /\ UNCHANGED << live, heap, head, last, arg, cur >>

(* free_regions, called when the object is destroyed. *)
FreeRegions ==
  /\ pc = "idle" /\ head # NULL
  /\ live' = {} /\ head' = NULL /\ last' = NULL
  /\ start' = [n \in Node |-> 0] /\ end' = [n \in Node |-> 0]
  /\ prev' = [n \in Node |-> NULL] /\ next' = [n \in Node |-> NULL]
  /\ UNCHANGED << pc, arg, cur >>

AddRange ==
  \/ \E n \in Node : AddFirst(n) \/ AppendLast(n) \/ FoundBefore(n)
  \/ ExtendLast \/ OverlapLast \/ EnterSearch
  \/ SearchSkip \/ SearchExtend \/ FoundInside \/ FoundOverlap
  \/ MergeNextDone \/ MergeNextCovered \/ MergeNextOverlap
  \/ MergePrevDone \/ MergePrevCovered \/ MergePrevOverlap
  \/ ReturnAdded \/ ReturnRejected

Next ==
  \/ \E a \in Args : Call(a)
  \/ AddRange
  \/ FreeRegions

(* A step of a call is always taken: the decoder is one sequential process. *)
Spec == Init /\ [][Next]_vars /\ WF_vars(AddRange)

-----------------------------------------------------------------------------
(* The links nx and pv are those of a doubly linked list from h to l of the *)
(* nodes L, in the order of key.                                            *)
SortedList(L, h, l, nx, pv, key) ==
  /\ h = NULL <=> L = {}
  /\ l = NULL <=> L = {}
  /\ L # {} => h \in L /\ pv[h] = NULL /\ l \in L /\ nx[l] = NULL
  /\ \A n \in L :
       /\ n # h => pv[n] \in L /\ nx[pv[n]] = n
       /\ n # l => nx[n] \in L /\ pv[nx[n]] = n /\ key[n] < key[nx[n]]
  /\ \A n, m \in L :
       /\ n # m => key[n] < key[m] \/ key[m] < key[n]
       /\ key[n] < key[m] => /\ n # l /\ m # h
                             /\ m = nx[n] \/ key[nx[n]] < key[m]

(* The list is ordered by end while cur grows to the left and by start      *)
(* otherwise; between calls the two agree.                                  *)
Key == IF pc = "mergePrev" THEN end ELSE start

(* The heap always holds one sorted doubly linked list of exactly the live  *)
(* nodes, inside a call too: neither the merges nor drop_region ever leave  *)
(* a neighbour, head or last behind (drop_region region.c:89-110, the       *)
(* insertion region.c:272-288).                                             *)
LinksOK == SortedList(live, head, last, next, prev, Key)

(* "if we will ever crash on cur being NULL then it means we screwed up     *)
(* earlier" (region.c:253): the search loop never runs off the list, and    *)
(* neither it nor a merge ever uses a node that was freed.                  *)
CursorLive == pc \in {"search", "mergeNext", "mergePrev"} => cur \in live

(* The only range that regions_add_range rejects, and a caller aborts on,   *)
(* is an empty one (an m2mf copy of 0 bytes): the checks at the end of      *)
(* regions_add_range (region.c:299-306) are otherwise never hit.            *)
OnlyEmptyRejected == pc = "aborted" => arg.len = 0

(* Between calls no two recorded ranges touch: each node is a maximal run   *)
(* of written bytes, which the shader decoders rely on when they look for   *)
(* the node that starts at a program's address.                             *)
MaximalRuns ==
  pc = "idle" => \A n, m \in live :
    /\ start[n] < end[n]
    /\ n # m => end[n] < start[m] \/ end[m] < start[n]

(* Every call of regions_add_range returns: the loop and the recursive      *)
(* merges terminate.                                                        *)
CallReturns == pc = "add" ~> pc \in {"idle", "aborted"}

(* The recorder implements WrittenBytes: the bytes inside live nodes change *)
(* at one step of a call, by exactly the bytes of its range, every other    *)
(* step of the call leaves them alone, and the call returns only when they  *)
(* are all there.                                                           *)
Covered == { b \in 0 .. Limit - 1 : \E n \in live : start[n] <= b /\ b < end[n] }

Bytes == INSTANCE WrittenBytes WITH written <- Covered, open <- arg

ImplementsWrittenBytes == Bytes!Spec
=============================================================================
