---------------------------- MODULE MethodStream ----------------------------
(***************************************************************************)
(* src/demmt/pushbuf.c: pushbuf_decode, the decoder of one pushbuffer      *)
(* word, with the subchannel bindings of a channel (struct fifo_state).    *)
(* Words come one at a time and the state is kept between pushbuffer       *)
(* segments, so the decoder must know at every word whether it is a        *)
(* command or a parameter.  Between two words an ioctl handler may give    *)
(* the channel another object or name one.                                 *)
(*                                                                         *)
(* Not modelled: state->skip (nothing ever sets it), the colours, contexts *)
(* and descriptions of objects, and the text that is printed.              *)
(***************************************************************************)
EXTENDS CommandWords, Sequences, FiniteSetsExt

CONSTANTS
  Words,          \* the words that may be in the pushbuffer
  Chipset,
  DefaultHandle,  \* what a subchannel is bound to by default from GK104 on
  Created,        \* handles of the objects ioctls create in the channel
  NameOf,         \* the name an ioctl gives to an object
  MaxObjects,     \* MAX_OBJECTS
  MaxCount,       \* bound on the parameters of a long command
  NoMethod        \* no method was submitted

ASSUME WordsAssumption == Words \subseteq Word
ASSUME HandleAssumption ==
  /\ Created \subseteq Word \ {Zero} /\ NameOf \in [Created -> Word]
  /\ DefaultHandle \in [0..7 -> Word]
ASSUME CountAssumption == Chipset \in Nat /\ MaxObjects \in Nat /\ MaxCount \in Nat
ASSUME NoMethodAssumption ==
  NoMethod \notin [subc : Nat, mthd : Nat, data : Word] \cup [subc : Nat, mthd : Nat]

VARIABLES
  incr,      \* how many more parameters move on to the next method
  subchan,   \* the subchannel of the current command
  addr,      \* the method the next parameter goes to
  size,      \* how many parameters are still to come
  long,      \* long_command: the next word is a count
  submitted, \* the method the last word submitted (mthd, mthd_data), if any
  nextaddr,  \* what the last call returned: 0, or the address to go on at
  subchans,  \* the object bound to each subchannel, an index of objects or 0
  objects,   \* the objects of the channel, in slot order
  stopped,   \* demmt_abort was called, or get_object recurses for ever
  told       \* history: the handle last submitted to method 0 of a subchannel

decoder == << incr, subchan, addr, size, long, submitted, nextaddr >>
vars == << decoder, subchans, objects, stopped, told >>

TypeOK ==
  /\ incr \in Nat /\ addr \in Nat /\ size \in Nat
  /\ subchan \in 0..7 /\ long \in BOOLEAN
  /\ submitted \in [subc : 0..7, mthd : Nat, data : Word] \cup {NoMethod}
  /\ nextaddr \in Nat
  /\ subchans \in [0..7 -> 0..Len(objects)]
  /\ objects \in Seq([handle : Word, name : Word]) /\ Len(objects) <= MaxObjects
  /\ stopped \in BOOLEAN /\ told \in [0..7 -> Word]

Init ==
  /\ incr = 0 /\ subchan = 0 /\ addr = 0 /\ size = 0 /\ long = FALSE
  /\ submitted = NoMethod /\ nextaddr = 0
  /\ subchans = [s \in 0..7 |-> 0] /\ objects = << >>
  /\ stopped = FALSE /\ told = [s \in 0..7 |-> Zero]

-----------------------------------------------------------------------------
(* Objects and subchannels.                                                 *)

Object(h) == [handle |-> h, name |-> Zero]
First(I) == IF I = {} THEN 0 ELSE Min(I)

(* get_object without its guess: by handle, then by name. *)
Lookup(h) ==
  LET byHandle == { i \in DOMAIN objects : objects[i].handle = h }
      byName   == { i \in DOMAIN objects : objects[i].name = h }
  IN IF h = Zero THEN 0 ELSE First(IF byHandle # {} THEN byHandle ELSE byName)

(* pushbuf_add_object ignores the classes NVRM_DEVICE_0 and                 *)
(* NVRM_SUBDEVICE_0 (0x0080, 0x2080); the class of a guessed object is the  *)
(* low half of its handle.                                                  *)
DeviceClass(h) == h.subc \in {0, 1} /\ h.mthd = 32 /\ h.low = 0

(* subchans[s] = get_object(h).  From GF100 on an object nobody announced   *)
(* is added on the spot; get_object then calls itself to find it.           *)
Bind(s, h) ==
  LET found == Lookup(h)
      guess == found = 0 /\ h # Zero /\ Chipset >= GF100
  IN /\ stopped' = (guess /\ (DeviceClass(h) \/ Len(objects) = MaxObjects))
     /\ objects' = IF guess /\ ~stopped' THEN Append(objects, Object(h)) ELSE objects
     /\ subchans' = IF stopped' THEN subchans
                    ELSE [subchans EXCEPT ![s] = IF guess THEN Len(objects') ELSE found]

KeepBindings == UNCHANGED << subchans, objects, stopped >>

-----------------------------------------------------------------------------
(* pushbuf_decode, one action per form of word.  AtCommand and AtParameter  *)
(* tell the two uses of a word apart.                                       *)

AtCommand   == size = 0 /\ ~stopped
AtParameter == size # 0 /\ ~stopped
Nv4Command  == AtCommand /\ ~long /\ Chipset < GF100
WideCommand == AtCommand /\ ~long /\ Chipset >= GF100

Load(s, m, n) == subchan' = s /\ addr' = m /\ size' = n
Quiet == submitted' = NoMethod /\ nextaddr' = 0

Nop(w) ==
  /\ AtCommand /\ ~long /\ w = Zero
  /\ Quiet /\ KeepBindings /\ UNCHANGED << incr, subchan, addr, size, long >>

(* Wrong on purpose: the default is bound over what the driver bound. *)
MethodCommandMutant(s) ==
  /\ Quiet
  /\ IF Chipset >= GK104 /\ DefaultHandle[s] # Zero
     THEN Bind(s, DefaultHandle[s])
     ELSE KeepBindings

(* The end of a method command: the channel's default object is bound.      *)
MethodCommand(s) ==
  /\ Quiet
  /\ IF Chipset >= GK104 /\ subchans[s] = 0 /\ DefaultHandle[s] # Zero
     THEN Bind(s, DefaultHandle[s])
     ELSE KeepBindings

-----------------------------------------------------------------------------
(* The formats before GF100. *)

Nv4Increasing(w) ==
  /\ Nv4Command /\ w # Zero /\ w.low = 0 /\ w.top = 0 /\ w.type = 0
  /\ Load(w.subc, w.mthd, w.count) /\ incr' = w.count /\ long' = FALSE
  /\ MethodCommand(w.subc)

Nv4Constant(w) ==
  /\ Nv4Command /\ w.low = 0 /\ w.top = 2
  /\ Load(w.subc, w.mthd, w.count) /\ incr' = 0 /\ long' = FALSE
  /\ MethodCommand(w.subc)

Nv4Long(w) ==
  /\ Nv4Command /\ w.low = 0 /\ w.top = 0 /\ w.type = 3
  /\ Load(w.subc, w.mthd, 0) /\ incr' = 0 /\ long' = TRUE
  /\ MethodCommand(w.subc)

(* Wrong on purpose: the flag is not cleared. *)
Nv4LongCountMutant(w) ==
  /\ AtCommand /\ long
  /\ LongCountOf(w) <= MaxCount
  /\ size' = LongCountOf(w) /\ UNCHANGED << incr, subchan, addr, long >>
  /\ Quiet /\ KeepBindings

Nv4LongCount(w) ==
  /\ AtCommand /\ long
  /\ LongCountOf(w) <= MaxCount
  /\ size' = LongCountOf(w) /\ long' = FALSE /\ UNCHANGED << incr, subchan, addr >>
  /\ Quiet /\ KeepBindings

(* SLI conditionals, returns, calls and invalid words: not followed.        *)
Nv4Other(w) ==
  /\ Nv4Command
  /\ \/ w.low = 0 /\ w.top = 0 /\ w.type \in {1, 2}
     \/ w.low = 0 /\ w.top > 2
     \/ w.low > 1
  /\ Load(w.subc, w.mthd, 0) /\ UNCHANGED << incr, long >>
  /\ Quiet /\ KeepBindings

(* The old jump is reported to be "1", and size is left as loaded. *)
Nv4OldJump(w) ==
  /\ Nv4Command /\ w.low = 0 /\ w.top = 1
  /\ Load(w.subc, w.mthd, w.count) /\ UNCHANGED << incr, long >>
  /\ nextaddr' = 1
  /\ submitted' = NoMethod /\ KeepBindings

(* A jump to address 0 returns 0: the caller goes on with the next word. *)
Nv4Jump(w) ==
  /\ Nv4Command /\ w.low = 1
  /\ Load(w.subc, w.mthd, 0) /\ UNCHANGED << incr, long >>
  /\ nextaddr' = 4 * TargetOf(w)
  /\ submitted' = NoMethod /\ KeepBindings

-----------------------------------------------------------------------------
(* The formats of GF100. *)

WideIncreasing(w) ==
  /\ WideCommand /\ w.top = 1
  /\ Load(w.subc, WideMethod(w), WideCount(w)) /\ incr' = WideCount(w)
  /\ MethodCommand(w.subc) /\ UNCHANGED long

WideConstant(w) ==
  /\ WideCommand /\ w.top = 3
  /\ Load(w.subc, WideMethod(w), WideCount(w)) /\ incr' = 0
  /\ MethodCommand(w.subc) /\ UNCHANGED long

(* Wrong on purpose: the method never increases. *)
WideIncreaseOnceMutant(w) ==
  /\ WideCommand /\ w.top = 5
  /\ Load(w.subc, WideMethod(w), WideCount(w)) /\ incr' = 0
  /\ MethodCommand(w.subc) /\ UNCHANGED long

WideIncreaseOnce(w) ==
  /\ WideCommand /\ w.top = 5
  /\ Load(w.subc, WideMethod(w), WideCount(w)) /\ incr' = 1
  /\ MethodCommand(w.subc) /\ UNCHANGED long

WideInline(w) ==
  /\ WideCommand /\ w.top = 4
  /\ Load(w.subc, WideMethod(w), 0)
  /\ submitted' = [subc |-> w.subc, mthd |-> WideMethod(w), data |-> WordOf(WideCount(w))]
  /\ nextaddr' = 0
  /\ KeepBindings /\ UNCHANGED << incr, long >>

(* incr is 1 here, as for the increase-once form. *)
WideOldIncreasing(w) ==
  /\ WideCommand /\ w # Zero /\ w.top = 0 /\ w.type = 0
  /\ Load(w.subc, WideMethod(w), w.count) /\ incr' = 1
  /\ MethodCommand(w.subc) /\ UNCHANGED long

WideOldConstant(w) ==
  /\ WideCommand /\ w.top = 2 /\ w.type = 0
  /\ Load(w.subc, WideMethod(w), w.count) /\ incr' = 0
  /\ MethodCommand(w.subc) /\ UNCHANGED long

(* SLI words and invalid words. *)
WideOther(w) ==
  /\ WideCommand
  /\ \/ w.top = 0 /\ w.type # 0 /\ incr' = 1
     \/ w.top = 2 /\ w.type # 0 /\ incr' = 0
     \/ w.top \in {6, 7} /\ UNCHANGED incr
  /\ Load(w.subc, WideMethod(w), 0) /\ UNCHANGED long
  /\ Quiet /\ KeepBindings

-----------------------------------------------------------------------------
(* Method 0 binds the subchannel, unless the object that is bound has that  *)
(* very handle.                                                             *)
BindParameter(w) ==
  LET bound == subchans[subchan]
  IN IF bound # 0 => objects[bound].handle # w THEN Bind(subchan, w) ELSE KeepBindings

Parameter(w) ==
  /\ AtParameter
  /\ submitted' = [subc |-> subchan, mthd |-> addr, data |-> w] /\ nextaddr' = 0
  /\ IF addr = 0
     THEN BindParameter(w) /\ told' = [told EXCEPT ![subchan] = w]
     ELSE KeepBindings /\ UNCHANGED told
  /\ addr' = IF incr # 0 THEN addr + 1 ELSE addr
  /\ incr' = IF incr # 0 THEN incr - 1 ELSE incr
  /\ size' = size - 1
  /\ UNCHANGED << subchan, long >>

CommandWord(w) ==
  \/ Nop(w)
  \/ Nv4Increasing(w) \/ Nv4Constant(w) \/ Nv4Long(w) \/ Nv4LongCount(w)
  \/ Nv4Other(w) \/ Nv4OldJump(w) \/ Nv4Jump(w)
  \/ WideIncreasing(w) \/ WideConstant(w) \/ WideIncreaseOnce(w) \/ WideInline(w)
  \/ WideOldIncreasing(w) \/ WideOldConstant(w) \/ WideOther(w)

PushbufDecode(w) == Parameter(w) \/ (CommandWord(w) /\ UNCHANGED told)

-----------------------------------------------------------------------------
(* The ioctl handlers: pushbuf_add_object, pushbuf_add_object_name.         *)

(* Wrong on purpose: one slot more than there is. *)
AddObjectMutant(h) ==
  /\ ~stopped
  /\ stopped' = (Len(objects) > MaxObjects)
  /\ objects' = IF stopped' THEN objects ELSE Append(objects, Object(h))
  /\ UNCHANGED << decoder, subchans, told >>

AddObject(h) ==
  /\ ~stopped
  /\ stopped' = (Len(objects) = MaxObjects)
  /\ objects' = IF stopped' THEN objects ELSE Append(objects, Object(h))
  /\ UNCHANGED << decoder, subchans, told >>

NameObject(h) ==
  LET named == First({ i \in DOMAIN objects : objects[i].handle = h })
  IN /\ ~stopped /\ named # 0
     /\ objects' = [objects EXCEPT ![named].name = NameOf[h]]
     /\ UNCHANGED << decoder, subchans, stopped, told >>

Next ==
  \/ \E w \in Words : PushbufDecode(w)
  \/ \E h \in Created : AddObject(h) \/ NameObject(h)

Spec == Init /\ [][Next]_vars

-----------------------------------------------------------------------------
(* The methods the decoder still owes parameters for. *)
Expected == [k \in 1..size |->
               [subc |-> subchan, mthd |-> addr + (IF k - 1 < incr THEN k - 1 ELSE incr)]]

(* The words of which the code and the documentation say the same.  They    *)
(* disagree about these:                                                    *)
(*   - before GF100, an old jump whose count bits are not 0 leaves the      *)
(*     decoder waiting for parameters, and non-increasing commands of any   *)
(*     type and long commands of any count are taken for valid ones;        *)
(*   - from GF100 on, bit 12 counts in the new forms, the method of the old *)
(*     forms is taken from 13 bits at the bottom as in the new ones, and an *)
(*     old increasing command increases once.                               *)
Documented(w) ==
  /\ Chipset < GF100 /\ w.low = 0 =>
       /\ w.top = 1 => w.count = 0
       /\ w.top = 2 => w.type = 0
       /\ w.top = 0 /\ w.type = 3 => w.count = 0
  /\ Chipset >= GF100 =>
       /\ w.top \in {1, 3, 4, 5} => w.mthd < 1024
       /\ w.top \in {0, 2} /\ w.type = 0 /\ w.count # 0 => w.mthd = 0 /\ w.low = 0
       /\ w.top = 0 /\ w.type = 0 => w.count <= 2

Queue == INSTANCE MethodQueue WITH
           expected <- Expected,
           counting <- IF long THEN [subc |-> subchan, mthd |-> addr] ELSE NoMethod

(* The counters incr, addr and size lead every parameter to the method the  *)
(* command formats say it belongs to, and no parameter is ever taken for a  *)
(* command or a command for a parameter (pushbuf_decode).                   *)
ImplementsMethodQueue == Queue!Spec

(* A subchannel is bound to the object last asked for with method 0, by     *)
(* handle or by name, whatever objects were created, named or guessed since *)
(* (pushbuf_decode, get_object); a default never replaces it, and it is     *)
(* unbound only if that object is unknown and the chipset is too old for    *)
(* guessing.  Method 0 sent inline does not bind and is not counted.        *)
BoundAsTold ==
  \A s \in 0..7 :
    LET bound == subchans[s]
        Answers(h) == h # Zero /\ h \in {objects[bound].handle, objects[bound].name}
    IN \/ stopped
       \/ bound = 0 /\ (told[s] = Zero \/ Chipset < GF100)
       \/ bound # 0 /\ told[s] # Zero /\ Answers(told[s])
       \/ bound # 0 /\ told[s] = Zero /\ Chipset >= GK104 /\ Answers(DefaultHandle[s])
=============================================================================
