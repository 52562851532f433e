----------------------------- MODULE MethodQueue -----------------------------
(***************************************************************************)
(* What the words of a command stream mean, after the tables of            *)
(* src/docs/hw/fifo/dma-pusher.rst: a command announces a list of methods, *)
(* each following word is the parameter of the next one of them, and only  *)
(* when the list is used up is the next word a command again.  The decoder *)
(* of src/demmt/pushbuf.c has no list: it counts words and increments.  On *)
(* which cards and in which mode a form may be used is left out.           *)
(***************************************************************************)
EXTENDS CommandWords, Sequences

CONSTANTS
  Words,     \* the words that may come
  Chipset,
  NoMethod   \* no method

VARIABLES
  expected,  \* the announced methods whose parameters have not come yet
  counting,  \* the method of a long command whose count has not come yet
  submitted  \* the method the last word submitted, with its parameter

vars == << expected, counting, submitted >>

Method(s, m) == [subc |-> s, mthd |-> m]
With(method, w) == [subc |-> method.subc, mthd |-> method.mthd, data |-> w]

Increasing(s, m, n)   == [k \in 1..n |-> Method(s, m + k - 1)]
Constant(s, m, n)     == [k \in 1..n |-> Method(s, m)]
IncreaseOnce(s, m, n) == [k \in 1..n |-> Method(s, IF k = 1 THEN m ELSE m + 1)]

(* The methods a command word announces; none for the words that are no     *)
(* method commands, or have none of the forms of the tables.  Before GF100  *)
(* and in the old forms of GF100 a method is a number of 11 bits; the new   *)
(* forms have 12 bits for it, and ignore the one above.                     *)
NewMethod(w) == WideMethod(w) % 4096

Nv4Methods(w) ==
  CASE w.low = 0 /\ w.top = 0 /\ w.type = 0 -> Increasing(w.subc, w.mthd, w.count)
    [] w.low = 0 /\ w.top = 2 /\ w.type = 0 -> Constant(w.subc, w.mthd, w.count)
    [] OTHER                                -> << >>

Gf100Methods(w) ==
  CASE w.top = 0 /\ w.type = 0 -> Increasing(w.subc, w.mthd, w.count)
    [] w.top = 2 /\ w.type = 0 -> Constant(w.subc, w.mthd, w.count)
    [] w.top = 1 -> Increasing(w.subc, NewMethod(w), WideCount(w))
    [] w.top = 3 -> Constant(w.subc, NewMethod(w), WideCount(w))
    [] w.top = 5 -> IncreaseOnce(w.subc, NewMethod(w), WideCount(w))
    [] OTHER     -> << >>

Methods(w) == IF Chipset < GF100 THEN Nv4Methods(w) ELSE Gf100Methods(w)

(* The method commands whose parameters are the words that follow. *)
Announces(w) ==
  IF Chipset < GF100
  THEN w.low = 0 /\ w.top \in {0, 2} /\ w.type = 0
  ELSE w.top \in {1, 3, 5} \/ (w.top \in {0, 2} /\ w.type = 0)

IsLong(w)   == Chipset < GF100 /\ w.low = 0 /\ w.top = 0 /\ w.type = 3 /\ w.count = 0
IsInline(w) == Chipset >= GF100 /\ w.top = 4

Init == expected = << >> /\ counting = NoMethod /\ submitted = NoMethod

Command(w) ==
  /\ expected = << >> /\ counting = NoMethod
  /\ expected' = Methods(w)
  /\ counting' = IF IsLong(w) THEN Method(w.subc, w.mthd) ELSE NoMethod
  /\ submitted' = IF IsInline(w)
                  THEN With(Method(w.subc, NewMethod(w)), WordOf(WideCount(w)))
                  ELSE NoMethod

Count(w) ==
  /\ counting # NoMethod
  /\ Len(expected') = LongCountOf(w)
  /\ expected' = Constant(counting.subc, counting.mthd, LongCountOf(w))
  /\ counting' = NoMethod /\ submitted' = NoMethod

Parameter(w) ==
  /\ expected # << >>
  /\ submitted' = With(Head(expected), w)
  /\ expected' = Tail(expected)
  /\ UNCHANGED counting

Next == \E w \in Words : Command(w) \/ Count(w) \/ Parameter(w)

Spec == Init /\ [][Next]_vars
=============================================================================
