----------------------------- MODULE MCMmtDecode -----------------------------
(***************************************************************************)
(* Model checking MmtDecode: three or four messages of every shape that do *)
(* not fit into the buffer together, whole or truncated, read in pieces of *)
(* every size.  A trace is given as a sequence of records; which of them   *)
(* belong together is found here from their types alone.                   *)
(***************************************************************************)
EXTENDS MmtDecode, FiniteSetsExt

T(b) == << << MsgText, b, b, EOR >> >>
U == << << Unmap, 1, EOR >> >>
W == << << Write, 2, 3, EOR, EOR >> >>   \* the last byte of its data looks like EOR
K == << NvMark \o << 1, 4, EOR >> >>
M == << NvMmap \o << 5, EOR >> >>
Silent == << NvDestroy \o << 6, EOR >> >>
I == << << Ioctl, 0, EOR >>, << Dump, 7, 1, 8, EOR >>, << Dump, 9, 0, EOR >> >>
N == << << NV, Ioctl, 0, EOR >> >> \o Silent \o << NvDump \o << 7, 0, 0, EOR >> >>
P == << << NV, Ioctl, 0, EOR >> >> \o M \o << NvDump \o << 7, 0, 0, EOR >> >>
S == << << NV, Ioctl, 0, EOR >> >> \o Silent   \* the destruction it passes over is no dump
V == << << Unmap, NvDump[2], EOR >> >>      \* its data look like the subtype of a dump
O == << NvDump \o << 7, 1, 8, 1, 9, EOR >> >>

TypeOf(r) == IF r[1] = NV THEN << NV, r[2] >> ELSE << r[1] >>

(* Where each of the records begins, and where the last one ends. *)
Starts(records) == [i \in 1 .. Len(records) + 1 |-> Len(FlattenSeq(SubSeq(records, 1, i - 1)))]

(* From record i on, the first that is not passed over by an ioctl. *)
FirstKept(records, old, i) ==
  Min({ j \in i .. Len(records) + 1 : j > Len(records) \/ old \/ TypeOf(records[j]) \notin Omitted })

(* The dumps of an ioctl that has n of them before record i. *)
RECURSIVE DumpsFrom(_, _, _, _)
DumpsFrom(records, old, i, n) ==
  LET j == FirstKept(records, old, i)
  IN IF n < MaxArgs /\ j <= Len(records) /\ TypeOf(records[j]) = (IF old THEN << Dump >> ELSE NvDump)
     THEN << j >> \o DumpsFrom(records, old, j + 1, n + 1) ELSE << >>

(* The messages from record i on, n of them having been sent. *)
RECURSIVE MessagesFrom(_, _, _)
MessagesFrom(records, i, n) ==
  IF i > Len(records) THEN << >>
  ELSE LET y == TypeOf(records[i])
           old == y = << Ioctl >>
           dumps == IF y \in Ioctls THEN DumpsFrom(records, old, i + 1, 0)
                    ELSE IF y = NvDump THEN << i >> ELSE << >>
           next == IF dumps = << >> THEN i + 1 ELSE Last(dumps) + 1
           after == IF y \in NoHandler THEN n ELSE n + 1
           at == Starts(records)
       IN << [at |-> at[i], dumps |-> [k \in DOMAIN dumps |-> at[dumps[k]]],
              stop |-> at[FirstKept(records, old, next)], after |-> after] >>
            \o MessagesFrom(records, next, after)

(* The trace of these records, the last one cut. *)
Trace(messages, cut) ==
  LET records == FlattenSeq(messages)
      bytes == FlattenSeq(records)
      at == Starts(records)
      ends == [p \in { at[i] : i \in DOMAIN records } |->
                 at[1 + CHOOSE i \in DOMAIN records : at[i] = p]]
      t == [bytes |-> bytes, length |-> Len(bytes) - cut, ends |-> ends,
            messages |-> MessagesFrom(IF cut > 0 THEN Front(records) ELSE records, 1, 0)]
      shown == SelectSeq(t.messages, LAMBDA m : TypeIn(t, m.at) \notin NoHandler)
  IN [bytes |-> t.bytes, length |-> t.length, ends |-> t.ends, messages |-> t.messages,
      sent |-> [i \in DOMAIN shown |-> Meaning(t, shown[i])]]

MCTraces ==
  { Trace(m, c) : m \in { << U, I, U >>, << K, N, Silent, U, M >>, << W, I, I >>, << N, N >>, << N, U, M >>,
                          << N, U, O >>, << P, U >>, << O, O, K >>, << I, T(2), U >>, << T(1), T(2), N >>,
                          << K, T(2), T(1), W >>, << M, S, V >>, << M, N, U >> },
                  c \in {0, 2} }

TextTraces == { Trace(<< K, T(2), T(1), W >>, 0) }
MCNoise == {0, EOR}
=============================================================================
