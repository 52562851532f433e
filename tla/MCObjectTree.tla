----------------------------- MODULE MCObjectTree -----------------------------
(***************************************************************************)
(* Model checking ObjectTree: a client with a device, things between it    *)
(* and a fifo, and names that are used twice; two channels of nouveau with *)
(* a buffer that has the number of one of them for a handle.               *)
(***************************************************************************)
EXTENDS ObjectTree, TLC

Name(p, h, c) == [cid |-> 7, parent |-> p, handle |-> h, class |-> c]

MCNvrm == { Name(7, 2, "device"), Name(2, 3, "subdevice"), Name(2, 4, "fifo"),
            Name(3, 5, "fifo"), Name(4, 6, "engine") }
MCSymmetry == Permutations(Node)
=============================================================================
