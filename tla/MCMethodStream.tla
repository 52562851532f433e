--------------------------- MODULE MCMethodStream ---------------------------
(***************************************************************************)
(* Model checking MethodStream.  Each word list has a word of every form,  *)
(* method commands of one and several parameters on two subchannels,       *)
(* commands that start at method 0, and words that read as a handle, as a  *)
(* count and as a command.  Left out are the words about which the code    *)
(* and the documentation disagree (Documented): in the old forms of GF100  *)
(* only method 0 is left.                                                  *)
(***************************************************************************)
EXTENDS MethodStream

W(top, count, type, subc, mthd, low) ==
  [top |-> top, count |-> count, type |-> type, subc |-> subc, mthd |-> mthd, low |-> low]

H1 == W(0, 0, 0, 0, 20, 0)  \* handles; as commands they announce nothing
H2 == W(0, 0, 0, 1, 21, 0)
N1 == W(0, 0, 0, 0, 22, 0)  \* a name

Nv4Words == {
  Zero, H1, N1,
  W(0, 2, 0, 0, 0, 0), W(0, 1, 0, 1, 0, 0),                       \* increasing
  W(2, 2, 0, 1, 6, 0),                                            \* constant
  W(0, 0, 3, 0, 0, 0), W(0, 0, 3, 1, 7, 0),                       \* long
  W(0, 1, 1, 0, 0, 0), W(0, 0, 2, 0, 0, 0),                       \* SLI, return
  W(5, 2, 0, 1, 0, 0), W(0, 1, 0, 0, 1, 3),                       \* invalid
  W(0, 0, 0, 0, 0, 1), W(0, 1, 0, 0, 3, 1), W(0, 0, 0, 0, 0, 2),  \* jumps, call
  W(1, 0, 0, 0, 8, 0) }                                           \* old jump

WideWords == {
  Zero, H1, N1,
  W(1, 0, 2, 0, 0, 0), W(1, 0, 3, 1, 5, 1),                       \* increasing
  W(3, 0, 2, 0, 0, 0),                                            \* constant
  W(5, 0, 3, 1, 0, 0),                                            \* increase once
  W(4, 0, 3, 0, 5, 0), W(4, 0, 1, 1, 0, 0),                       \* inline
  W(0, 2, 0, 1, 0, 0), W(2, 2, 0, 1, 0, 0),                       \* old forms
  W(0, 1, 1, 0, 0, 0), W(2, 1, 2, 0, 0, 0), W(7, 1, 0, 0, 0, 0),  \* SLI, invalid
  W(0, 0, 0, 0, 32, 0) }                                          \* a device class

NoDefault == [s \in 0..7 |-> Zero]
Defaults == [NoDefault EXCEPT ![0] = H2]
MCCreated == {H1}
MCNameOf == [h \in {H1} |-> N1]

ASSUME WordsDocumented == \A w \in Words : Documented(w)
=============================================================================
