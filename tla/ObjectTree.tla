----------------------------- MODULE ObjectTree -----------------------------
(***************************************************************************)
(* src/demmt/buffer.c, nvrm.c and drm.c: the GPU objects of the program    *)
(* that is traced.  The ioctls create and destroy objects by name, a       *)
(* client (cid) and a handle; the decoder keeps a list of all of them and  *)
(* a tree: each object points to its parent, and the parent has an array   *)
(* of its children.  What an object belongs to (its device, its channel)   *)
(* is found by walking up.                                                 *)
(*                                                                         *)
(* A trace is of one driver.  nvrm names objects as it likes and destroys  *)
(* them one by one; nouveau has channels, for each of which the decoder    *)
(* makes up a device and a fifo.  A handler that adds or destroys more     *)
(* than one object does it one at a time: todo says what is left of it.    *)
(* nvrm's handlers leave out an ioctl that failed; nouveau's do not look,  *)
(* and the ioctls of nouveau are taken to have succeeded.  Contents,       *)
(* mappings and the table of a channel are in other modules.               *)
(***************************************************************************)
EXTENDS Integers, FiniteSets, Sequences, SequencesExt, FiniteSetsExt

CONSTANTS
  Node,      \* memory for struct gpu_object
  NULL,
  Nvrm,      \* what nvrm creates: [cid, parent, handle, class]
  Channel,   \* numbers of nouveau's channels
  Grobj,     \* handles of objects of a channel
  Gem,       \* handles of buffers
  FifoHandle,\* 0xf1f0eeee
  Grow,      \* how much an array of children grows by: 10
  MaxCount,  \* bound: how far from 0 the count of fifos is followed
  MaxUnnamed \* bound: how many clients are created without a name at a time

Class == {"root", "device", "subdevice", "fifo", "engine", "memory"}
Names == [cid : Int, handle : Int, parent : Int, class : Class]

ASSUME TreeAssumption ==
  /\ NULL \notin Node /\ NULL \notin Names /\ NULL \notin Int /\ IsFiniteSet(Node)
  /\ Nvrm \subseteq Names /\ Grow \in Nat \ {0}
  /\ MaxCount \in Nat /\ MaxUnnamed \in Nat

(* Handles of buffers start at 1, and those that the libraries choose for   *)
(* objects are not the numbers of channels.                                 *)
ASSUME HandleAssumption ==
  /\ Channel \subseteq Nat /\ Grobj \subseteq Nat /\ Gem \subseteq Nat \ {0} /\ FifoHandle \in Nat
  /\ Channel \cap Grobj = {} /\ FifoHandle \notin Channel \cup Grobj \cup Gem

VARIABLES
  driver,   \* which driver was traced
  option,   \* the chipset was given on the command line (-m)
  objects,  \* gpu_objects, newest first
  name,     \* cid, handle, parent and class of the object at each address,
            \* NULL when the memory is free
  up,       \* parent_object
  kids,     \* children_objects
  fifos,    \* class_data of a device: NULL until the chipset is known
  notFound, \* cid_not_found
  todo,     \* the rest of the handler that is running
  status,
  open,     \* the trace: the channels that exist
  miscount, \* history: a fifo came before the chipset, or lost its device
  left,     \* history: what freed channels are expected to leave on the list
  shadowed  \* history: channels whose number was also the handle of a buffer

tree == << objects, name, up, kids >>
history == << miscount, left, shadowed >>
tvars == << driver, option, tree, fifos, notFound, todo, status, open, history >>

Nothing == [op |-> "nothing", cid |-> 0, at |-> 0]
Todo == [op : {"nothing", "checked", "fifo", "children", "device"}, cid : Int, at : Nat]

TypeOK ==
  /\ driver \in {"nvrm", "nouveau"} /\ option \in BOOLEAN
  /\ objects \in Seq(Node)
  /\ name \in [Node -> Names \cup {NULL}]
  /\ up \in [Node -> Node \cup {NULL}]
  /\ kids \in [Node -> Seq(Node \cup {NULL})]
  /\ fifos \in [Node -> Int \cup {NULL}]
  /\ notFound \in Nat /\ todo \in Todo
  /\ status \in {"running", "aborted", "crashed"}
  /\ open \subseteq Channel
  /\ miscount \in BOOLEAN /\ left \subseteq Node /\ shadowed \subseteq Channel

Init ==
  /\ driver \in {"nvrm", "nouveau"} /\ option \in BOOLEAN
  /\ objects = << >> /\ name = [o \in Node |-> NULL]
  /\ up = [o \in Node |-> NULL] /\ kids = [o \in Node |-> << >>]
  /\ fifos = [o \in Node |-> NULL] /\ notFound = 0 /\ todo = Nothing
  /\ status = "running" /\ open = {}
  /\ miscount = FALSE /\ left = {} /\ shadowed = {}

-----------------------------------------------------------------------------
(* buffer.c: finding, adding and destroying objects.                        *)

Live == { o \in Node : name[o] # NULL }

Find(cid, handle) ==
  LET i == SelectInSeq(objects, LAMBDA o : name[o].cid = cid /\ name[o].handle = handle)
  IN IF i = 0 THEN NULL ELSE objects[i]

(* The first empty place in an array of children, which grows when full. *)
WithChild(a, o) ==
  LET empty == { i \in DOMAIN a : a[i] = NULL }
  IN IF empty # {} THEN [a EXCEPT ![Min(empty)] = o]
     ELSE a \o [i \in 1 .. Grow |-> IF i = 1 THEN o ELSE NULL]

(* gpu_object_disconnect_from_parent: the others move up. *)
WithoutChild(a, o) ==
  LET i == SelectInSeq(a, LAMBDA c : c = o)
  IN IF i = 0 THEN a
     ELSE [j \in DOMAIN a |-> IF j < i THEN a[j] ELSE IF j < Len(a) THEN a[j + 1] ELSE NULL]

(* Wrong on purpose: the object is on the list before its parent is looked for. *)
AddMutant(o, n) ==
  LET i == SelectInSeq(objects, LAMBDA p : name[p].cid = n.cid /\ name[p].handle = n.parent)
      p == IF n.parent = n.handle THEN o ELSE IF i = 0 THEN NULL ELSE objects[i]
  IN /\ name[o] = NULL
     /\ name' = [name EXCEPT ![o] = n] /\ objects' = << o >> \o objects
     /\ up' = [up EXCEPT ![o] = p]
     /\ kids' = IF p = NULL THEN kids ELSE [kids EXCEPT ![p] = WithChild(@, o)]

(* gpu_object_add *)
Add(o, n) ==
  LET p == Find(n.cid, n.parent)
  IN /\ name[o] = NULL
     /\ name' = [name EXCEPT ![o] = n] /\ objects' = << o >> \o objects
     /\ up' = [up EXCEPT ![o] = p]
     /\ kids' = IF p = NULL THEN kids ELSE [kids EXCEPT ![p] = WithChild(@, o)]

(* Wrong on purpose: the children keep their parent. *)
DestroyMutant(o) ==
  /\ name' = [name EXCEPT ![o] = NULL] /\ objects' = RemoveFirst(objects, o)
  /\ up' = [up EXCEPT ![o] = NULL]
  /\ kids' = [p \in Node |-> IF p = o THEN << >>
                             ELSE IF p = up[o] THEN WithoutChild(kids[p], o) ELSE kids[p]]

(* gpu_object_destroy *)
Destroy(o) ==
  /\ name' = [name EXCEPT ![o] = NULL] /\ objects' = RemoveFirst(objects, o)
  /\ up' = [p \in Node |-> IF p = o \/ p \in ToSet(kids[o]) THEN NULL ELSE up[p]]
  /\ kids' = [p \in Node |-> IF p = o THEN << >>
                             ELSE IF p = up[o] THEN WithoutChild(kids[p], o) ELSE kids[p]]

-----------------------------------------------------------------------------
(* nvrm.c: walking up the tree u with names n.                              *)

Above(u, o) ==
  LET chain[i \in 0 .. Cardinality(Node)] ==
        IF i = 0 THEN o ELSE IF chain[i - 1] = NULL THEN NULL ELSE u[chain[i - 1]]
  IN chain

Nearest(u, n, o, class) ==
  LET chain == Above(u, o)
      hits == { i \in DOMAIN chain : chain[i] # NULL /\ n[chain[i]].class = class }
  IN IF hits = {} THEN NULL ELSE chain[Min(hits)]

Device(o) == Nearest(up, name, o, "device")

(* nvrm_device_set_chipset *)
WithChipset(dev) == [fifos EXCEPT ![dev] = IF @ = NULL THEN 0 ELSE @]

(* Wrong on purpose: the count is not taken back. *)
CountMutant(class, dev, n) ==
  IF class = "fifo" /\ dev # NULL /\ fifos[dev] # NULL /\ n > 0
  THEN [fifos EXCEPT ![dev] = @ + n] ELSE fifos

(* nvrm_add_object and nvrm_destroy_gpu_object count the fifos of a device  *)
(* whose chipset is known.                                                  *)
Count(class, dev, n) ==
  IF class = "fifo" /\ dev # NULL /\ fifos[dev] # NULL
  THEN [fifos EXCEPT ![dev] = @ + n] ELSE fifos

Bounded == \A dev \in Node : fifos[dev] # NULL => fifos[dev] \in -MaxCount .. MaxCount

Running == status = "running" /\ driver = "nvrm"
Ready(cid) ==
  \/ todo = Nothing /\ (notFound = 0 \/ Find(cid, cid) # NULL)
  \/ todo = [op |-> "checked", cid |-> cid, at |-> 0]

(* Wrong on purpose: any client that is not known gets an object. *)
CheckCidMutant(cid) ==
  /\ Running /\ todo = Nothing /\ Find(cid, cid) = NULL
  /\ \E o \in Node : Add(o, [cid |-> cid, parent |-> cid, handle |-> cid, class |-> "root"])
  /\ notFound' = notFound - 1 /\ todo' = [op |-> "checked", cid |-> cid, at |-> 0]
  /\ UNCHANGED << driver, option, fifos, status, open, history >>

(* check_cid: a client whose creation was recorded without its name gets an *)
(* object when it is first used.                                            *)
CheckCid(cid) ==
  /\ Running /\ todo = Nothing /\ notFound > 0 /\ Find(cid, cid) = NULL
  /\ \E o \in Node : Add(o, [cid |-> cid, parent |-> cid, handle |-> cid, class |-> "root"])
  /\ notFound' = notFound - 1 /\ todo' = [op |-> "checked", cid |-> cid, at |-> 0]
  /\ UNCHANGED << driver, option, fifos, status, open, history >>

CreateUnnamed ==
  /\ Running /\ todo = Nothing /\ notFound < MaxUnnamed
  /\ notFound' = notFound + 1
  /\ UNCHANGED << driver, option, tree, fifos, todo, status, open, history >>

(* pushbuf_add_object asks for the chipset when the object belongs to a     *)
(* fifo; a new fifo belongs to itself.                                      *)
NeedsChipset(o) ==
  /\ name'[o].class \notin {"device", "subdevice"}
  /\ Nearest(up', name', o, "fifo") # NULL

(* handle_nvrm_ioctl_create and create_simple, and, without a place in the  *)
(* table of a channel, memory, create_dma and create_vspace.                *)
Create(n) ==
  /\ Running /\ Ready(n.cid)
  /\ \E o \in Node :
       /\ Add(o, n)
       /\ LET dev == Nearest(up', name', o, "device")
              counted == Count(n.class, dev, 1)
          IN /\ miscount' = (miscount \/ (n.class = "fifo" /\ dev # NULL /\ fifos[dev] = NULL))
             /\ IF n.class = "memory" \/ ~NeedsChipset(o) \/ (dev # NULL /\ fifos[dev] # NULL)
                THEN fifos' = counted /\ UNCHANGED status
                ELSE IF ~option
                THEN fifos' = counted /\ status' = "aborted"
                ELSE IF dev = NULL
                THEN fifos' = counted /\ status' = "crashed"
                ELSE fifos' = WithChipset(dev) /\ UNCHANGED status
  /\ todo' = Nothing /\ Bounded'
  /\ UNCHANGED << driver, option, notFound, open, left, shadowed >>

(* An object between a fifo and its device goes. *)
CutsOff(o) ==
  /\ name[o].class # "device"
  /\ \E f \in Live \ {o} :
       name[f].class = "fifo" /\ Device(f) # NULL /\ o \in Range(Above(up, f))

DestroyNvrm(cid, handle) ==
  LET o == Find(cid, handle)
  IN /\ Running /\ Ready(cid) /\ todo' = Nothing
     /\ IF o = NULL
        THEN UNCHANGED << tree, fifos, miscount >>
        ELSE /\ Destroy(o)
             /\ fifos' = [Count(name[o].class, Device(o), -1) EXCEPT ![o] = NULL]
             /\ miscount' = (miscount \/ CutsOff(o))
     /\ Bounded'
     /\ UNCHANGED << driver, option, notFound, status, open, left, shadowed >>

(* handle_nvrm_ioctl_call: the chipset of the device the object belongs to. *)
GetChipset(cid, handle) ==
  LET o == Find(cid, handle)
  IN /\ Running /\ todo = Nothing
     /\ o # NULL /\ Device(o) # NULL /\ fifos' = WithChipset(Device(o))
     /\ UNCHANGED << driver, option, tree, notFound, todo, status, open, history >>

(* And the names of objects, for pushbuf_add_object_name: without a channel *)
(* there is no table to look into.                                          *)
ObjectInfo(cid, handle) ==
  LET o == Find(cid, handle)
  IN /\ Running /\ todo = Nothing
     /\ status' = IF o = NULL \/ Nearest(up, name, o, "fifo") = NULL THEN "crashed" ELSE status
     /\ UNCHANGED << driver, option, tree, fifos, notFound, todo, open, history >>

-----------------------------------------------------------------------------
(* drm.c: nouveau.  The driver names channels and objects that exist.       *)

Nouveau == status = "running" /\ driver = "nouveau"
Unchanged == UNCHANGED << driver, option, notFound, miscount >>

ChannelAlloc(c) ==
  /\ Nouveau /\ todo = Nothing /\ c \notin open
  /\ \E o \in Node :
       /\ Add(o, [cid |-> c, parent |-> c, handle |-> c, class |-> "device"])
       /\ fifos' = WithChipset(o)
  /\ open' = open \cup {c} /\ todo' = [op |-> "fifo", cid |-> c, at |-> 0]
  /\ Unchanged /\ UNCHANGED << status, left, shadowed >>

ChannelFifo ==
  /\ Nouveau /\ todo.op = "fifo"
  /\ \E o \in Node :
       Add(o, [cid |-> todo.cid, parent |-> todo.cid, handle |-> FifoHandle, class |-> "fifo"])
  /\ todo' = Nothing
  /\ Unchanged /\ UNCHANGED << fifos, status, open, left, shadowed >>

(* drm_nouveau_gem_new *)
GemNew(c, h) ==
  /\ Nouveau /\ todo = Nothing
  /\ \E o \in Node : Add(o, [cid |-> c, parent |-> c, handle |-> h, class |-> "memory"])
  /\ shadowed' = IF h = c THEN shadowed \cup {c} ELSE shadowed
  /\ Unchanged /\ UNCHANGED << fifos, todo, status, open, left >>

(* The devices are tried in the order of the list: obj is what was found    *)
(* with the last one, unless two in a row had the handle.                   *)
GemInfo(h) ==
  LET devices  == { i \in DOMAIN objects : name[objects[i]].class = "device" }
      Knows(i) == Find(name[objects[i]].cid, h) # NULL
  IN /\ Nouveau /\ todo = Nothing
     /\ \A i, j \in devices : i < j /\ Knows(i) /\ Knows(j) => \E k \in devices : i < k /\ k < j
     /\ \E last \in devices :
          LET dev == name[objects[last]]
          IN /\ \A i \in devices : i <= last
             /\ ~Knows(last)
             /\ \E o \in Node :
                  Add(o, [cid |-> dev.cid, parent |-> dev.handle, handle |-> h, class |-> "memory"])
             /\ shadowed' = IF h = dev.cid THEN shadowed \cup {dev.cid} ELSE shadowed
     /\ Unchanged /\ UNCHANGED << fifos, todo, status, open, left >>

GemClose(h) ==
  LET o == Find(0, h)
  IN /\ Nouveau /\ todo = Nothing /\ o # NULL
     /\ Destroy(o) /\ fifos' = [fifos EXCEPT ![o] = NULL] /\ left' = left \ {o}
     /\ Unchanged /\ UNCHANGED << todo, status, open, shadowed >>

GrobjAlloc(c, h) ==
  /\ Nouveau /\ todo = Nothing /\ c \in open
  /\ \E o \in Node : Add(o, [cid |-> c, parent |-> FifoHandle, handle |-> h, class |-> "engine"])
  /\ Unchanged /\ UNCHANGED << fifos, todo, status, open, left, shadowed >>

NotifierAlloc(c, h) ==
  /\ Nouveau /\ todo = Nothing /\ c \in open
  /\ \E o \in Node : Add(o, [cid |-> c, parent |-> c, handle |-> h, class |-> "memory"])
  /\ Unchanged /\ UNCHANGED << fifos, todo, status, open, left, shadowed >>

GpuobjFree(c, h) ==
  LET o == Find(c, h)
  IN /\ Nouveau /\ todo = Nothing /\ o # NULL
     /\ Destroy(o) /\ left' = left \ {o}
     /\ Unchanged /\ UNCHANGED << fifos, todo, status, open, shadowed >>

(* What ChannelFree passes over: its loop steps over every second child of  *)
(* the fifo, because the children behind one that goes move up, and it does *)
(* not look at the buffers and the notifiers, which hang on the device.     *)
EverySecond(f) == { kids[f][i] : i \in { j \in DOMAIN kids[f] : j % 2 = 0 } } \ {NULL}
PassedOver(c) ==
  EverySecond(Find(c, FifoHandle)) \cup { o \in Live : name[o].cid = c /\ name[o].class = "memory" }

ChannelFree(c) ==
  /\ Nouveau /\ todo = Nothing /\ c \in open
  /\ open' = open \ {c} /\ todo' = [op |-> "children", cid |-> c, at |-> 1]
  /\ left' = left \cup PassedOver(c)
  /\ Unchanged /\ UNCHANGED << tree, fifos, status, shadowed >>

(* Wrong on purpose: the last child is left out. *)
FreeChildMutant ==
  LET fifo == Find(todo.cid, FifoHandle)
      i == todo.at
  IN /\ Nouveau /\ todo.op = "children" /\ i <= Len(kids[fifo])
     /\ IF kids[fifo][i] # NULL /\ i > 1 THEN Destroy(kids[fifo][i]) ELSE UNCHANGED tree
     /\ todo' = [todo EXCEPT !.at = i + 1]
     /\ Unchanged /\ UNCHANGED << fifos, status, open, left, shadowed >>

(* One round of the loop over the children of the fifo. *)
FreeChild ==
  LET fifo == Find(todo.cid, FifoHandle)
      i == todo.at
  IN /\ Nouveau /\ todo.op = "children" /\ i <= Len(kids[fifo])
     /\ IF kids[fifo][i] # NULL THEN Destroy(kids[fifo][i]) ELSE UNCHANGED tree
     /\ todo' = [todo EXCEPT !.at = i + 1]
     /\ Unchanged /\ UNCHANGED << fifos, status, open, left, shadowed >>

FreeFifo ==
  LET fifo == Find(todo.cid, FifoHandle)
  IN /\ Nouveau /\ todo.op = "children" /\ todo.at > Len(kids[fifo])
     /\ Destroy(fifo)
     /\ todo' = [todo EXCEPT !.op = "device"]
     /\ Unchanged /\ UNCHANGED << fifos, status, open, left, shadowed >>

(* A buffer with the number of the channel for a handle goes instead of the *)
(* device.                                                                  *)
FreeDevice ==
  LET dev == Find(todo.cid, todo.cid)
  IN /\ Nouveau /\ todo.op = "device"
     /\ Destroy(dev) /\ fifos' = [fifos EXCEPT ![dev] = NULL]
     /\ todo' = Nothing /\ left' = left \ {dev}
     /\ Unchanged /\ UNCHANGED << status, open, shadowed >>

-----------------------------------------------------------------------------
Cids == { n.cid : n \in Nvrm }
Handles == { n.handle : n \in Nvrm }

NvrmIoctl ==
  \/ \E n \in Nvrm : Create(n)
  \/ \E c \in Cids : CheckCid(c)
  \/ CreateUnnamed
  \/ \E c \in Cids, h \in Handles : DestroyNvrm(c, h) \/ GetChipset(c, h) \/ ObjectInfo(c, h)

DrmIoctl ==
  \/ \E c \in Channel : ChannelAlloc(c) \/ ChannelFree(c)
  \/ ChannelFifo \/ FreeChild \/ FreeFifo \/ FreeDevice
  \/ \E c \in Channel, h \in Grobj : GrobjAlloc(c, h) \/ NotifierAlloc(c, h) \/ GpuobjFree(c, h)
  \/ \E c \in Channel, h \in Gem : GemNew(c, h)
  \/ \E h \in Gem : GemInfo(h) \/ GemClose(h)

Next == NvrmIoctl \/ DrmIoctl
Spec == Init /\ [][Next]_tvars

-----------------------------------------------------------------------------
(* The list has the live objects, each once; an object is in the array of   *)
(* its parent, once, and in no other array: no pointer of the tree, in      *)
(* either direction, leads to an object that was freed.                     *)
LinksMutual ==
  /\ ToSet(objects) = Live
  /\ \A i, j \in DOMAIN objects : i # j => objects[i] # objects[j]
  /\ \A o \in Node : up[o] # NULL => {o, up[o]} \subseteq Live
  /\ \A o, p \in Node : Contains(kids[p], o) <=> up[o] = p
  /\ \A p \in Node : \A i, j \in DOMAIN kids[p] :
       i # j /\ kids[p][i] # NULL => kids[p][i] # kids[p][j]

Place(o) == CHOOSE i \in DOMAIN objects : objects[i] = o

(* Parents are older than their children, so that the walks to the device   *)
(* and to the fifo of an object end, whatever names the driver uses twice.  *)
ParentsOlder == \A o \in Live : up[o] # NULL => Place(o) < Place(up[o])

(* nvrm: the count that decides whether the decoder warns about a trace     *)
(* with several channels is right, unless a fifo came before the chipset    *)
(* was known or was cut off from its device.                                *)
FifosCounted ==
  driver = "nvrm" /\ ~miscount /\ status = "running" =>
    \A dev \in Live : name[dev].class = "device" /\ fifos[dev] # NULL =>
      fifos[dev] = Cardinality({ o \in Live : name[o].class = "fifo" /\ Device(o) = dev })

(* nouveau: what a channel that was freed leaves on the list is exactly     *)
(* what was passed over: every second object that hung on its fifo, without *)
(* a parent from then on, all its notifiers and buffers (until they are     *)
(* freed by name), and the device when a buffer was freed instead.          *)
ChannelGone ==
  driver = "nouveau" /\ todo = Nothing =>
    /\ left \subseteq Live
    /\ \A o \in left : name[o].class = "memory" \/ (name[o].class = "engine" /\ up[o] = NULL)
    /\ \A o \in Live : name[o].cid \notin open =>
         \/ name[o].class = "engine" /\ o \in left
         \/ name[o].class = "memory"
         \/ name[o].class = "device" /\ name[o].cid \in shadowed
=============================================================================
