---------------------------- MODULE CpuMappings ----------------------------
(***************************************************************************)
(* src/demmt/buffer.c and nvrm.c: the CPU mappings of GPU objects.  The     *)
(* driver announces that a part of an object will be mapped (host_map) and *)
(* the tracer reports mmap, mremap and munmap of regions it numbers; the   *)
(* decoder must find out which of them belong together.  A struct          *)
(* cpu_mapping may be on the list of its object, in the table cpu_mappings *)
(* under its id, or both, and is freed by whoever finds that the other     *)
(* does not hold it.                                                       *)
(*                                                                         *)
(* The heap is explicit.  What a handle means (gpu_object_find), lengths   *)
(* and contents are left out; so are the GPU mappings of an object.  A run *)
(* stops where the decoder aborts, and where it says "mapping reuse,       *)
(* expect crash soon" (nvrm_mmap).                                         *)
(***************************************************************************)
EXTENDS Integers, SequencesExt

CONSTANTS
  Object,      \* memory for struct gpu_object
  Mapping,     \* memory for struct cpu_mapping
  Id,          \* the numbers of regions; the decoder takes 0 for none
  Addr,        \* where regions are mapped
  Offset,      \* mmap offsets of the driver; newer ones always use 0
  Tag,         \* map ids of newer drivers
  FirstSlots,  \* the smallest table: 4
  NULL

Struct == [object : Object \cup {NULL}, offset : Offset \cup {-1, 0}, tag : Tag \cup {-1, 0},
           addr : Addr \cup {0}, id : Id \cup {0}, data : BOOLEAN]
Region == [addr : Addr, offset : Offset]

ASSUME NumberAssumption ==
  /\ Id \subseteq Nat \ {0} /\ Addr \subseteq Nat \ {0}
  /\ Offset \subseteq Nat /\ Tag \subseteq Nat /\ FirstSlots \in Nat \ {0}

ASSUME NullAssumption ==
  NULL \notin Mapping /\ NULL \notin Object /\ NULL \notin Struct /\ NULL \notin Region

VARIABLES
  objects,   \* gpu_objects, newest first
  attached,  \* obj->cpu_mappings, newest first
  heap,      \* the struct at each address, or NULL when it is free
  table,     \* cpu_mappings
  slots,     \* preallocated_cpu_mappings
  maxId,     \* max_id, 0 for UINT32_MAX
  status,    \* how the program fares
  region     \* the trace: the regions that are mapped now

vars == << objects, attached, heap, table, slots, maxId, status, region >>

TypeOK ==
  /\ objects \in Seq(Object) /\ attached \in [Object -> Seq(Mapping)]
  /\ heap \in [Mapping -> Struct \cup {NULL}]
  /\ table \in [Id -> Mapping \cup {NULL}]
  /\ slots \in Nat /\ maxId \in Id \cup {0}
  /\ status \in {"running", "reuse", "no such buffer", "write aborted", "host_unmap aborted",
                 "munmap aborted", "undefined"}
  /\ region \in [Id -> Region \cup {NULL}]

Init ==
  /\ objects = << >> /\ attached = [o \in Object |-> << >>]
  /\ heap = [m \in Mapping |-> NULL] /\ table = [i \in Id |-> NULL]
  /\ slots = 0 /\ maxId = 0
  /\ status = "running" /\ region = [i \in Id |-> NULL]

Running == status = "running"
Malloc == { m \in Mapping : heap[m] = NULL }
FirstWith(s, field, v) ==
  LET i == SelectInSeq(s, LAMBDA m : heap[m][field] = v) IN IF i = 0 THEN NULL ELSE s[i]

-----------------------------------------------------------------------------
(* Helpers of buffer.c.                                                     *)

(* Wrong on purpose: the table grows one mapping too late. *)
SlotsForMutant(id) ==
  IF id <= slots THEN slots
  ELSE 2 * (IF slots # 0 THEN slots ELSE IF id > FirstSlots THEN id ELSE FirstSlots)

(* set_cpu_mapping doubles the table once. *)
SlotsFor(id) ==
  IF id < slots THEN slots
  ELSE 2 * (IF slots # 0 THEN slots ELSE IF id > FirstSlots THEN id ELSE FirstSlots)

SetCpuMapping(id, m) ==
  /\ table' = [table EXCEPT ![id] = m]
  /\ slots' = SlotsFor(id)
  /\ maxId' = IF id > maxId THEN id ELSE maxId

(* Wrong on purpose: the table is not asked. *)
DetachedMutant(m) == NULL

(* What disconnect_cpu_mapping_from_gpu_object leaves of a mapping: nothing *)
(* when the table does not hold it.                                         *)
Detached(m) ==
  IF heap[m].id # 0 => table[heap[m].id] # m
  THEN NULL
  ELSE [heap[m] EXCEPT !.object = NULL, !.data = FALSE]

(* Wrong on purpose: the offset is not rounded down to a page. *)
NewMappingMutant(o, off, tag) ==
  [object |-> o, offset |-> off + 1, tag |-> tag, addr |-> 0, id |-> 0, data |-> TRUE]

(* Offset has offsets of pages: host_map rounds down what the driver gives. *)
NewMapping(o, off, tag) ==
  [object |-> o, offset |-> off, tag |-> tag, addr |-> 0, id |-> 0, data |-> TRUE]

-----------------------------------------------------------------------------
(* The ioctl handlers.                                                      *)

(* nvrm_add_object *)
Create(o) ==
  /\ Running /\ ~Contains(objects, o)
  /\ objects' = << o >> \o objects
  /\ UNCHANGED << attached, heap, table, slots, maxId, status, region >>

(* host_map, for the ioctls host_map and host_map56. *)
HostMap(o, off, tag) ==
  /\ Running /\ Contains(objects, o)
  /\ \E m \in Malloc :
       /\ heap' = [heap EXCEPT ![m] = NewMapping(o, off, tag)]
       /\ attached' = [attached EXCEPT ![o] = << m >> \o @]
  /\ UNCHANGED << objects, table, slots, maxId, status, region >>

(* create_vspace and drm_nouveau_gem_new give an offset, create_vspace56 an *)
(* id instead.                                                              *)
Given(off, tag) == IF off # 0 THEN tag \in {-1, 0} ELSE tag \in Tag \ {0}

CreateMapped(o, off, tag) ==
  /\ Running /\ ~Contains(objects, o) /\ Given(off, tag)
  /\ objects' = << o >> \o objects
  /\ \E m \in Malloc :
       /\ heap' = [heap EXCEPT ![m] = NewMapping(o, off, tag)]
       /\ attached' = [attached EXCEPT ![o] = << m >>]
  /\ UNCHANGED << table, slots, maxId, status, region >>

(* The mapping host_unmap means by a number, whatever kind of number it is. *)
Meant(o, n) ==
  LET byTag    == FirstWith(attached[o], "tag", n)
      byOffset == FirstWith(attached[o], "offset", n)
      byAddr   == FirstWith(attached[o], "addr", n)
  IN IF byTag # NULL THEN byTag ELSE IF byOffset # NULL THEN byOffset ELSE byAddr

HostUnmap(o, n) ==
  LET m == Meant(o, n)
  IN /\ Running /\ Contains(objects, o)
     /\ IF m = NULL
        THEN status' = "host_unmap aborted" /\ UNCHANGED << heap, attached >>
        ELSE /\ heap' = [heap EXCEPT ![m] =
                          IF Detached(m) = NULL THEN NULL
                          ELSE [Detached(m) EXCEPT !.offset = -1, !.tag = -1]]
             /\ attached' = [attached EXCEPT ![o] = RemoveFirst(@, m)]
             /\ UNCHANGED status
     /\ UNCHANGED << objects, table, slots, maxId, region >>

(* Wrong on purpose: the mappings stay attached. *)
DestroyMutant(o) ==
  /\ Running /\ Contains(objects, o)
  /\ objects' = RemoveFirst(objects, o)
  /\ attached' = [attached EXCEPT ![o] = << >>]
  /\ UNCHANGED << heap, table, slots, maxId, status, region >>

(* gpu_object_destroy *)
Destroy(o) ==
  /\ Running /\ Contains(objects, o)
  /\ objects' = RemoveFirst(objects, o)
  /\ heap' = [m \in Mapping |->
                IF ~Contains(attached[o], m) THEN heap[m]
                ELSE IF Detached(m) = NULL THEN NULL
                ELSE [Detached(m) EXCEPT !.offset = 0]]
  /\ attached' = [attached EXCEPT ![o] = << >>]
  /\ UNCHANGED << table, slots, maxId, status, region >>

-----------------------------------------------------------------------------
(* The tracer's messages.  It numbers regions one after the other, and      *)
(* regions do not overlap.                                                  *)

Unmapped(a) == \A i \in Id : region[i] # NULL => region[i].addr # a
NewRegion(id, a) ==
  /\ region[id] = NULL /\ Unmapped(a)
  /\ maxId # 0 => id <= maxId + 1

(* The first mapping with that offset, over all objects. *)
Announced(off) ==
  LET i == SelectInSeq(objects, LAMBDA o : FirstWith(attached[o], "offset", off) # NULL)
  IN IF i = 0 THEN NULL ELSE FirstWith(attached[objects[i]], "offset", off)

(* nvrm_mmap; a private mapping (buffer_mmap) when none was announced. *)
Mmap(id, a, off) ==
  LET found == Announced(off)
  IN /\ Running /\ NewRegion(id, a)
     /\ IF found # NULL
        THEN /\ heap' = [heap EXCEPT ![found].addr = a, ![found].id = id,
                                     ![found].offset = IF off = 0 THEN -1 ELSE off]
             /\ SetCpuMapping(id, found)
             /\ status' = IF heap[found].id # 0 THEN "reuse" ELSE status
        ELSE \E m \in Malloc :
               /\ heap' = [heap EXCEPT ![m] = [NewMapping(NULL, off, 0)
                                               EXCEPT !.addr = a, !.id = id]]
               /\ SetCpuMapping(id, m) /\ UNCHANGED status
     /\ region' = [region EXCEPT ![id] = [addr |-> a, offset |-> off]]
     /\ UNCHANGED << objects, attached >>

(* Wrong on purpose: the mapping forgets that it moved. *)
MremapMutant(id, a, resized) ==
  LET m == table[id]
  IN /\ Running /\ region[id] # NULL /\ (Unmapped(a) \/ a = region[id].addr)
     /\ IF m = NULL
        THEN status' = "no such buffer" /\ UNCHANGED << heap, region >>
        ELSE IF resized /\ heap[m].object # NULL
        THEN status' = "undefined" /\ UNCHANGED << heap, region >>
        ELSE /\ heap' = [heap EXCEPT ![m].offset = region[id].offset,
                                     ![m].data = resized \/ @]
             /\ region' = [region EXCEPT ![id].addr = a]
             /\ UNCHANGED status
     /\ UNCHANGED << objects, attached, table, slots, maxId >>

(* demmt_mremap, buffer_mremap.  A new length of an attached mapping makes  *)
(* it call realloc with a pointer into the object's data.                   *)
Mremap(id, a, resized) ==
  LET m == table[id]
  IN /\ Running /\ region[id] # NULL /\ (Unmapped(a) \/ a = region[id].addr)
     /\ IF m = NULL
        THEN status' = "no such buffer" /\ UNCHANGED << heap, region >>
        ELSE IF resized /\ heap[m].object # NULL
        THEN status' = "undefined" /\ UNCHANGED << heap, region >>
        ELSE /\ heap' = [heap EXCEPT ![m].addr = a, ![m].offset = region[id].offset,
                                     ![m].data = resized \/ @]
             /\ region' = [region EXCEPT ![id].addr = a]
             /\ UNCHANGED status
     /\ UNCHANGED << objects, attached, table, slots, maxId >>

(* What nvrm_munmap takes off: the first mapping at the address on the list *)
(* of each object.                                                          *)
Disconnected(a) == { FirstWith(attached[o], "addr", a) : o \in Object } \ {NULL}
Unlinked(a) == [o \in Object |-> RemoveFirst(attached[o], FirstWith(attached[o], "addr", a))]

(* demmt_munmap: nvrm_munmap, then buffer_munmap. *)
Munmap(id) ==
  LET gone == Disconnected(region[id].addr)
      left == [m \in Mapping |-> IF m \in gone THEN Detached(m) ELSE heap[m]]
      m    == table[id]
  IN /\ Running /\ region[id] # NULL
     /\ IF m = NULL
        THEN status' = "no such buffer" /\ UNCHANGED << heap, attached, table, slots, maxId >>
        ELSE /\ attached' = Unlinked(region[id].addr)
             /\ IF left[m] = NULL \/ left[m].object # NULL
                THEN heap' = left /\ status' = "munmap aborted" /\ UNCHANGED << table, slots, maxId >>
                ELSE heap' = [left EXCEPT ![m] = NULL] /\ SetCpuMapping(id, NULL) /\ UNCHANGED status
     /\ region' = [region EXCEPT ![id] = NULL]
     /\ UNCHANGED objects

(* buffer_register_mmt_write, when it finds no data to write to. *)
Write(id) ==
  /\ Running /\ region[id] # NULL
  /\ IF table[id] = NULL THEN status' = "no such buffer"
     ELSE ~heap[table[id]].data /\ status' = "write aborted"
  /\ UNCHANGED << objects, attached, heap, table, slots, maxId, region >>

Next ==
  \/ \E o \in Object :
       \/ Create(o) \/ Destroy(o)
       \/ \E off \in Offset, tag \in Tag \cup {-1} : HostMap(o, off, tag)
       \/ \E off \in Offset, tag \in Tag \cup {-1, 0} : CreateMapped(o, off, tag)
       \/ \E n \in Tag \cup Offset \cup Addr : HostUnmap(o, n)
  \/ \E id \in Id :
       \/ \E a \in Addr, off \in Offset : Mmap(id, a, off)
       \/ \E a \in Addr, resized \in BOOLEAN : Mremap(id, a, resized)
       \/ Munmap(id) \/ Write(id)

Spec == Init /\ [][Next]_vars

-----------------------------------------------------------------------------
(* The lists of the objects and the object pointers of the mappings agree:  *)
(* no list holds a mapping that was freed or that belongs to another object *)
(* or twice, and only live objects have mappings (host_map,                 *)
(* disconnect_cpu_mapping_from_gpu_object, gpu_object_destroy).             *)
Linked ==
  \A o \in Object :
    /\ \A m \in Mapping : Contains(attached[o], m) <=> heap[m] # NULL /\ heap[m].object = o
    /\ \A i, j \in DOMAIN attached[o] : i # j => attached[o][i] # attached[o][j]
    /\ attached[o] # << >> => Contains(objects, o)

(* Two holders share a mapping and either may free it: as long as no reuse  *)
(* was reported, the table holds no mapping that was freed, holds each one  *)
(* at its own id only, and none is lost by both (the test in                *)
(* disconnect_cpu_mapping_from_gpu_object, buffer_munmap).                  *)
Owned ==
  Running =>
    /\ \A i \in Id : table[i] # NULL => heap[table[i]] # NULL /\ heap[table[i]].id = i
    /\ \A m \in Mapping : heap[m] # NULL =>
         heap[m].object # NULL \/ \E i \in Id : table[i] = m

(* Whatever became of its object, a region that is mapped is known under    *)
(* its id, and when it is unmapped it is in a state buffer_munmap accepts   *)
(* ("invalid buffer id" and "inconsistent mapping data" never happen):      *)
(* nvrm_munmap searches by address, buffer_munmap by id.                    *)
MunmapAccepted == status \notin {"no such buffer", "munmap aborted"}

(* Every mapping is stored inside the table: doubling it once is enough     *)
(* when ids come one after the other (set_cpu_mapping).                     *)
InsideTable == \A i \in Id : table[i] # NULL => i < slots
=============================================================================
