# Models and proofs of envytools' trace decoder and video bitstreams

This directory holds TLA+ modules for parts of [envytools](../src), TLC
configurations that check them on small instances, and TLAPS proofs of what
matters most. envytools is a collection of tools for NVIDIA GPUs. Most of it is
tables and one-pass functions over them. Two parts have state, and
invariants that thousands of steps must keep. **demmt**
(`src/demmt`) replays a trace of a graphics driver (memory writes, ioctls,
mmap calls, recorded by valgrind-mmt) and prints the GPU commands the driver
submitted. **vstream** (`src/vstream`) reads and writes video bitstreams, with the
same functions in both directions, down to the bits and the arithmetic coder of H.264.

demmt is one sequential process. Nothing runs concurrently with it, and nothing
is persisted. What is hard about it is that it sees a *foreign* program's
actions in whatever order that program chose, and has to keep consistent
with them a set of tables that refer to each other: a list of written ranges, the
position inside a command stream that arrives in pieces, guesses about where
rings and buffers are, mappings that die in one table and live on in another.
Those orders are the interleavings the models explore.
vstream is sequential too: there the two sides of the bitstream must keep in step.

Contents

1. [The system](#1-the-system): components, state, operations, interactions, hard behaviours
2. [The modules](#2-the-modules): one section each, with the correspondence to the code
3. [The runs](#3-the-runs): bounds, why they are enough, what each shows
4. [The proofs](#4-the-proofs)
5. [Where code and documentation disagree](#5-where-code-and-documentation-disagree)
6. [What is not modelled](#6-what-is-not-modelled)
7. [Plan](#7-plan)

## 1. The system

### Components of demmt

| component | state | operations | correct when |
|---|---|---|---|
| written regions (`region.c`) | a doubly linked list of byte ranges per GPU object, `head`, `last` | `regions_add_range`, `free_regions` | the list is exactly the set of bytes written, as maximal runs, and no legal range is rejected |
| word decoder (`pushbuf.c`, `pushbuf_decode`) | `size`, `incr`, `addr`, `subchan`, `long_command`; per channel the objects and what each subchannel is bound to | one call per word; `pushbuf_add_object`, `pushbuf_add_object_name` from ioctls | every word is taken for what it is, command or parameter, and every parameter goes to its method and object |
| NV4 pusher (`pushbuf.c`, `user_decode`, `user_print`) | `last_gpu_mapping`, `prev_dma_put`, `dma_put` | one call per word written to the USER area | the words between two values of DMA_PUT are decoded once, in order, also across a wraparound, and nothing outside the mapping is read |
| IB pusher (`pushbuf.c`, `ib_decode`; `buffer_decode.c`) | `pb_pointer_found`, `ib.is`, `ib.offset`, `ib.entries`, the entry being read | one call per traced write | the ring is recognised, every complete entry is decoded once, in order |
| CPU mappings (`buffer.c`, `nvrm.c`, `drm.c`) | objects with lists of `struct cpu_mapping`, the table `cpu_mappings` by region id | ioctls `create_vspace`, `host_map`, `host_unmap`, `destroy`; trace messages mmap, mremap, munmap, write | list, object pointer and table agree; a mapping is freed once, by its last holder; each unmapped region is found |
| tree of GPU objects (`buffer.c`, `nvrm.c`, `drm.c`) | parents, arrays of children, GPU mappings, the count of fifos | create and destroy ioctls, channel alloc and free | the links are mutual, a walk to the device ends, the fifos are counted, a freed channel is gone |
| trace framing (`mmt_bin_decode.c`) | a refilled buffer, an index; pointers into the buffer while an ioctl is collected | load, cut into messages | each message is handled once, whole, wherever the trace is cut into reads |
| macro interpreter (`macro.c`) | code, registers | run one macro | |
| class decoders, ioctl printers | what a method set last | print | |

Interactions: `main.c` gets messages from the framing and calls `nvrm_mmap`,
`nvrm_munmap`, `buffer_mremap` or `buffer_register_mmt_write`. A write goes to the data
of the mapping, then to `regions_add_range` of its object, then to
`buffer_decode_register_write`, which recognises rings and USER areas and calls
`ib_decode` or `user_decode`. These call `pushbuf_decode` for each word they find in the
data of other mappings. `pushbuf_decode` binds objects that ioctls or it itself put
into the channel's table. The ioctl handlers of `nvrm.c` and `drm.c` change the
objects and mappings that all the others hold pointers to.

Shared state is therefore plain pointers: from the table of regions to mappings,
from mappings to objects and back, from the pushers to GPU mappings, from channel
objects to GPU objects.

### Components of vstream

| component | state | operations | correct when |
|---|---|---|---|
| bits (`bitstream.c`) | the bytes, the byte at hand, counts of zero bytes and bits | `vs_u`, `vs_ue`, `vs_se`, `vs_vlc`, `vs_start`, `vs_align_byte`, `vs_end`, and for reading `vs_has_more_data`, `vs_search_start` | what is written is read back; no start code appears inside a unit; the end of a unit and the next start code are found |
| arithmetic coder (`h264_cabac.c`) | range, offset or low, counted bits, a state per context | init, decision, bypass, terminate | the decoder gets the bins of the encoder and stops at the same bit |
| syntax (`h261.c`, `h262*.c`, `h264*.c`) | structs of headers and macroblocks | one function per syntax structure | |

The programs `deh261`, `deh262` and `deh264` read a stream unit by unit, and after an error
search for the next start code. An H.264 slice alternates between the coder and raw samples.

### Hard behaviours

- *Order of foreign calls.* The traced program may unmap a region before or after it
  destroys the object, remap it, map it twice.
- *State kept between pieces.* A command may be split between two pieces of pushbuffer;
  the ring and DMA_PUT wrap around; the decoder keeps counts from piece to piece.
- *Guesses kept for ever.* Where a ring begins and which object a handle means is decided
  once, from the first write that looks right.
- *Stale pointers.* A pointer taken in one call is used in a later one.
- *Pointers into a buffer that moves.* The framing measures messages in a buffer it refills.
- *Two sides in step.* The encoder writes bits when it knows them; the decoder reads them ahead.
- *Boundaries.* Ranges that touch, the end of a ring, the last slot of a table, the last byte
  before a refill.

The hazards, each at its line, are listed in `PROJECT.json`, with the properties that
would catch them going wrong or the reason why none does yet.

### The rest of the repository

`rnn` (register database), `envydis`/`easm` (assembler, disassembler), `nvhw` (reference models of GPU units), `hwtest` and `nva` (real
hardware), `nvbios`, `vdpow`, `cupti_trace`, `util`, `rnndb`, `ssot` and `cgen` are not
modelled; the components of `PROJECT.json` say why for each.

## 2. The modules

Two families, and modules of their own:

```
WrittenBytes  <-- implements --  RegionList        RegionListProofs, MCRegionList

CommandWords
   MethodQueue  <-- implements --  MethodStream    MethodStreamProofs, MCMethodStream
                                     UserPusher      MCUserPusher
                                       DriverReplay    DriverReplayProofs, MCDriverReplay
                                     IbPusher
                                       IbReplay        IbReplayProofs, MCIbReplay

CpuMappings                                        CpuMappingsProofs, MCCpuMappings
ObjectTree                                         ObjectTreeProofs, MCObjectTree
MmtDecode                                          MmtDecodeProofs, MCMmtDecode

Bitstream                                          MCBitstream
Cabac                                              CabacProofs, MCCabac
```

Definitions named `...Mutant` are wrong on purpose: each is what a plausible bug would
make of the definition next to it, and with it the property it is listed for in
`PROJECT.json` fails. No action uses them.

### RegionList (`region.c`)

The heap is explicit: `Node` is the set of addresses malloc may return, `live` those it
has returned, and the fields of a node are functions. A call of `regions_add_range` is
split into steps, one per branch of `__regions_add_range`, per round of its search loop
and per activation of the two merge routines; `pc` says where the call is, `cur` is the
local pointer. `DropRegion` is `drop_region`; `Sane` and `InRegions` are the checks at
the end of `regions_add_range`. Recursion of the merges is tail recursion, so a step per
activation loses nothing. `Args` are the ranges the callers pass: they compare with the
object's length first, so nothing wraps around as long as objects are smaller than `Limit`
(4 GiB in the code).

`WrittenBytes` is what the callers rely on: a set of bytes, to which each call adds its
range at one moment.

### CommandWords, MethodQueue, MethodStream (`pushbuf.c`)

`CommandWords` cuts a 32-bit word at the bit positions the command formats share, so
that a word is a record of six small fields and every mask and shift of `pushbuf_decode`
is arithmetic on fields. Nothing tells a command from a parameter but the state.

`MethodQueue` is the meaning of a stream after the tables of
`src/docs/hw/fifo/dma-pusher.rst`: a command announces a *list* of methods and each
following word is the parameter of the first of them. `MethodStream` is the code, which has
no list but three counters. `Announces` says which words are commands, `Methods` what they
announce, both as the tables say and not as the code does: the methods of the new forms have 12 bits,
those of the old forms 11 bits above the two lowest, and reserved bits that are set make a word
no command. `Documented` are the words for which the code does what the tables say; section 5 lists
the six kinds it leaves out. The actions of MethodStream are the forms of word: `Nv4...` for the older
formats, `Wide...` from GF100 on, `Parameter` for everything that is not a command, plus
the two calls that ioctl handlers make, `AddObject` and `NameObject`. `Bind` is
`get_object` with its guess (an unknown handle is added on the spot), including the case in
which it calls itself for ever and the one in which the table is full (`stopped`).
`told` is a history variable: the handle last submitted to method 0 of a subchannel.
`MaxCount` bounds the count of a long command.

### UserPusher (`pushbuf.c`), DriverReplay

`UserPusher` adds the memory, the mappings and the three variables of
`user_decode_state`; a call of `user_decode` and `user_decode_end` is a sequence of steps
(`UserDecode`, `UserDecodeEnd`, `PrintWord` for each word, `WrapAround`, `Confused`,
`PrintDone`). `user_decode` starts by printing what the previous call left over; the model
omits that, and `NothingPending` (checked and proved) says that there is never anything left.
Between calls any word of memory may be overwritten and any value be written to DMA_PUT.
Addresses count words: the driver sets DMA_PUT to multiples of 4. No mapping is at address 0.

`DriverReplay` closes the system with a driver (external, not part of demmt) that does what
the documentation calls the usual way to use the mode: a circular buffer, a jump back to the
beginning, words that were not fetched are not overwritten, DMA_PUT is set after any
number of commands, even after a wraparound. The commands are documented ones, with all their
parameters. `ready` and `due` hold an entry for each *word*: the method it submits, or `NoMethod`
for a command word and a jump. `ready` is what was written since DMA_PUT was set, `due` what was
submitted and has not been decoded yet.

### IbPusher (`pushbuf.c`, `buffer_decode.c`), IbReplay

A traced write is one call of `buffer_decode_register_write`: `RegisterWrite` stores the
words and runs the recognition (`Recognise`), then the loop visits each word (`SkipWord`,
`IbEntry`) and decodes the piece an entry points to (`PrintWord`, `EntryDone`). `known`
says whether the ioctl that created the channel was traced with its arguments: if so the ring
is recognised by its address, else by an entry that points to the start of a mapping. The
first word of a slot is cut to its address bits and the second one to address and size.
`LowWords` is 2^30 in the code. One mapping may hold a ring. The size of an entry is not
compared with anything by the code: `Reads` lets a read behind the mapping return any word.

`IbReplay` is again a documented driver: commands into a pushbuffer, an entry for any prefix
of what was written (so commands are split between entries), low word first, then the
high word, or, once the ring was recognised, one or two entries in one write. `ready` and `due` are
as in DriverReplay. The low word of the first entry is not 0 (section 5 says what happens then).

### CpuMappings (`buffer.c`, `nvrm.c`, `drm.c`, `main.c`)

`heap` maps the addresses of `struct cpu_mapping` to their contents or to NULL when
free; `attached` are the lists of the objects, `table` is `cpu_mappings`. The ioctl
handlers are `Create`, `HostMap`, `CreateMapped`, `HostUnmap`, `Destroy`; the messages of the
tracer are `Mmap`, `Mremap`, `Munmap`, `Write`. `Detached` is
`disconnect_cpu_mapping_from_gpu_object`, which frees the mapping if the table does not
hold it. `region` is the traced program's view: which regions it has mapped. The tracer
numbers regions one after the other and regions do not overlap (`NewRegion`). A behaviour
ends where the program aborts, and where it reports "mapping reuse, expect crash soon": after
that the code promises nothing. A `Mremap` that changes the length of an attached mapping
makes the code call `realloc` with a pointer into the object's data; the behaviour ends
there too ("undefined").

### ObjectTree (`buffer.c`, `nvrm.c`, `drm.c`)

`objects` is the list `gpu_objects`, newest first; `up` and `kids` are `parent_object` and
`children_objects`, with the empty places of the array; `name` holds what an object is found by.
`Add`, `Find`, `Destroy`, `WithChild` and `WithoutChild` are the functions of `buffer.c`. A trace is
of one driver. The handlers of nvrm are `Create` (all ioctls that create, which differ in the class
and in whether a channel's table is told), `DestroyNvrm`, `GetChipset`, `ObjectInfo`;
`CreateUnnamed` and `CheckCid` are the clients whose handle was not recorded. `Above` and `Nearest`
are the walks to the device and to the fifo; a chipset that is asked for before it is known ends
the behaviour ("aborted"), as `abort` does, unless it was given by `-m` (`option`). The handlers of
nouveau add or destroy several objects, one at a time: `ChannelAlloc` then `ChannelFifo`;
`ChannelFree`, a `FreeChild` for each round of the loop, `FreeFifo`, `FreeDevice`. `left`, `shadowed`
and `miscount` are history variables: they name the cases in which the code is known to
leave something behind, so that the properties say exactly what is left of the promise:

- the loop that destroys the children of a channel skips every second one, because
  `gpu_object_destroy` compacts the array it walks, and neither it nor the two calls behind it look
  at the notifiers and buffers of the channel, which hang on its device. `left` holds these objects
  (`PassedOver`, from `EverySecond`): it is filled when the ioctl comes, from the array as it is
  then, and `ChannelGone` says that after the loop exactly they are on the list;
- a buffer whose handle is the number of the channel is found in place of the device;
- a fifo that is created before the chipset is known, or loses the objects between it and its
  device, is not counted. With `-m` that is the first fifo of every device, and the count falls
  to -1 when it is destroyed.

`MaxUnnamed` bounds how many clients without a name are pending, which the code does not.
The ioctls of nouveau in the model succeed, and free only channels and objects that exist:
the handlers do not look at their result.

### MmtDecode (`mmt_bin_decode.c`, `mmt_bin_decode_nvidia.c`)

A step is the code between two returns of `mmt_load_data_with_prefix`; `want` is the call under way.
`Refill` moves what is left to the start of the buffer and reads: any number of bytes at least as
large as needed, so every way to cut a trace into pieces is a behaviour.
`NotEnoughSpace`, `Underflow`, `EndOfTrace`, `UnexpectedEof` and `DumpsAtEof` are its other ends. `Start`,
`NvStart`, `TextByte`, `CountedMessage`, `WholeMessage` and `Again` are the branches of `mmt_decode` and
`mmt_decode_nvidia`, `DumpType` to `DumpData` the two functions that look for memory dumps behind
an ioctl. The formats are scaled down: one type of each shape, a byte for each structure and
length. Pointers into the buffer are indexes (`ctl`, `nv`, `d`, `args`), which a refill does
not change. `OmitMessage` is the end of a round in which `load_memory_dump` passes over a message: it
tests the subtype once more through `nv`, which was set before the loader of that message may have
moved the bytes, and goes on to the next message or, when the byte reads as a dump's, takes what
follows for a dump without a look (`Ask("head", ...)`).

Two history variables name what goes wrong then. `torn` records that a byte was tested that had not
been read, or that a pointer of a stand-alone dump went stale. `astray` records that the re-test
went wrong in the present pass over the dumps of an ioctl. A pass that went astray
either ends in `exit` or collects something that is thrown away: the bytes have moved, so `Again`
starts over. So `DeliveredAsRecorded` makes no exception for it, and
`EndsWithTheTrace` makes one only for giving up. Section 5 has both cases.

A trace is a record: the bytes the tracer wrote, how many of them are in the file, where each
record ends, which records make a message, and what the handlers are to get for them (`sent`).
`TraceAssumption` says what makes it one: each record has the shape of its type and ends
in EOR (`Shaped`), the lengths it names lie inside it, records follow each other up to the end of
the file, where the last one may be cut (`Records`), and each message is an ioctl with the
dumps behind it, a dump alone, or one record (`IsMessage`, `WithDumps`). A message with its dumps, and
the byte that shows there are no more, must fit into the buffer; a trace for which it does not
ends in `NotEnoughSpace`. What an ioctl passes over before
a dump of it is part of no message and is dropped, as in the code; what it passes over before it finds that there is no
further dump is met again. TLC evaluates the assumption for the traces of the run, which
MCMmtDecode builds from records alone; the proofs are for all traces that satisfy it.

### Bitstream (`vstream/bitstream.c`)

`Put...` and `Get...` are the two directions of each function, on records that hold the fields of
`struct bitstream`. A behaviour writes a stream, call by call (`WriteStart`, `WriteCall`, `WriteEnd`,
`Close`), in the order the formats have: a start code, then anything, then the end of the unit. Then
it is read with the same calls (`Read`). At any point the reader may go `Astray`: it reads bits as it
likes, until it `Search`es and, where it found something, `Restart`s. A byte and a word have
`ByteBits` and `WordBits`. `vs_se` refuses the least number of a word (`PutSe`). `vs_ue` of a value whose code has a prefix of 2^31 - 1 or more shifts by 32
("undefined"); only streams that were written without a refusal are read.

### Cabac (`vstream/h264_cabac.c`)

Encoder and decoder side by side. An action encodes or decodes one bin (`Decision`, `Bypass`, `Terminate`
and `DDecision`, `DBypass`, `DTerminate`) or is one round of the renorm loop (`Renorm`, `DRenorm`). `Flush` is the end of
`h264_cabac_terminate`. `Pcm` and `DPcm` are the samples in the middle of a slice, after which the coder starts
anew. `Send` ends the slice and may damage one bit. The bins are any, in any contexts. `Init` computes the states of the contexts as `init_ctx` does. The tables are
constants, with the only assumption the code needs: the smaller part of the interval is at
least 1 and leaves something of the larger.

## 3. The runs

All runs set CHECK_DEADLOCK FALSE: a trace may end anywhere, and the program may abort.

| run | instance | properties | distinct states |
|---|---|---|---|
| `regions` | 5 nodes, offsets 0..7, all ranges, the empty ones too | `TypeOK`, `LinksOK`, `CursorLive`, `OnlyEmptyRejected`, `MaximalRuns`, `ImplementsWrittenBytes`, `CallReturns` | 461,217 |
| `methods_nv4` | 16 words, a chipset before GF100 | `ImplementsMethodQueue` | 221,806 |
| `methods_gk104` | 15 words, GK104, a default binding on one of two subchannels | `TypeOK`, `BoundAsTold`, `ImplementsMethodQueue` | 193,036 |
| `user_pusher` | 4 words, 3 mappings, 5 values of DMA_PUT | `PrintsInside`, `NothingPending`, `CallReturns` | 401,168 |
| `driver_replay` | a pushbuffer of 9 words, commands of 0 to 2 parameters | `AllDecoded`, `DecodedAsSubmitted` | 219,448 |
| `ib_replay` | a ring of 2 slots inside an area of 4, a pushbuffer of 4 words across an address where the low word is 0 again | `AllDecoded`, `DecodedAsSubmitted`, `CallReturns` | 195,084 |
| `cpu_mappings` | 2 objects, 3 mappings, 3 regions, 2 addresses, offsets 0 and another, 1 tag; the table starts with 1 slot; addresses of structs symmetric | `TypeOK`, `Linked`, `Owned`, `MunmapAccepted`, `InsideTable` | 1,075,471 |
| `object_tree` | 4 objects, an array of children grows by 2; nvrm: one client with 5 names; nouveau: 2 channels, a buffer, an object; at most 1 unnamed client pending; addresses symmetric | `TypeOK`, `LinksMutual`, `ParentsOlder`, `FifosCounted`, `ChannelGone` | 241,984 |
| `mmt_decode` | 11 traces of 2 to 5 messages, whole and cut by 2 bytes, a buffer of 19 bytes, at most 2 dumps per ioctl | `TypeOK`, `DeliveredAsRecorded`, `EndsWithTheTrace`, `Ends` | 22,525 |
| `torn_text` | one trace with two texts | `TextEndsAtEor`: violated | |
| `bitstream` | bytes of 4 bits, words of 8, 2 start codes, 2 or 3 calls from a set for each type | `RoundTrip`, `HasMore`, `Resync` | 5,243,802 |
| `cabac` | the tables of the source, 2 contexts, 6 bins, 3 when a bit is damaged | `TypeOK`, `EncoderNeverFails`, `OffsetInRange`, `RoundTrip` | 908,578 |

Why the bounds are enough:

- *regions.* Ranges between 0 and 7 give lists of up to four nodes that neither
  overlap nor touch, with room to insert before, between and after them; a range may cover
  several nodes and end inside, at, or one before the next, which is all the code compares.
  Five nodes so that malloc never fails. The proofs remove the bounds.
- *methods.* The word sets hold each form of word the code tells apart, with counts of 0, 1, 2
  and 3 and two subchannels; handles and names are among them, so each also occurs as
  parameter and each parameter as a command. GK104 does everything GF100 does and binds defaults
  too; the subchannel without a default behaves as on GF100. The words for which the decoder is known
  not to follow the documentation are left out (`WordsDocumented` in MCMethodStream is evaluated); section 5
  describes them. What is left of the old forms of GF100 is method 0. The proofs hold for any words, and for any
  `Documented` words where they compare with the documentation.
- *user_pusher.* One mapping of two words, one of one, one without CPU mapping, and values
  between them: every branch of `user_decode` and `user_print` is taken. The words are a
  command, a jump to the start, an old jump, and 0. The proofs remove the bounds.
- *driver_replay*, *ib_replay.* The buffers are a few words long, so each wraparound
  happens at every offset inside a command, and behaviours are unbounded in length; parameters
  are words that would be commands or jumps if the decoder lost count. The proofs remove the bounds.
- *cpu_mappings.* Two objects may hold mappings with the same offset, a third mapping is
  private, and three regions at two addresses force reuse of addresses. The table starts with
  one slot in place of four, so it has to grow twice. The proofs remove the bounds.
- *object_tree.* Four objects hold a device, a subdevice, a fifo and what is below it, or two
  fifos, or a channel of nouveau with two children; a name is used again while the
  object that had it lives. An array of two places is filled, grows, and is compacted. The proofs
  remove the bounds.
- *mmt_decode.* The buffer holds the longest ioctl with its dumps and not much more,
  so that every message is met across a refill at every offset, with any number of bytes read
  at once; a data byte looks like EOR; an ioctl has none, one or two dumps, the most it may have, some behind records that
  are passed over, and is followed by each other shape. A cut of two bytes truncates the last message. The proofs
  remove the bounds.
- *bitstream.* In bytes of 4 bits a start code still takes three of them and a value; the calls
  make runs of zeros of every length up to what has to be escaped, once at a byte
  boundary and once across it, and bytes that are stop bits. Two start codes, so that there is one to
  search for. A word of 8 bits has room for exponential codes of up to 13 bits. Four of them are written and read back, the
  shortest of `vs_ue`, its longest (63, a prefix of 6 zeros), one positive number and the least one of `vs_se` that
  has the longest code (-63); the others of the set are those the code does not write: 255 and -128 are refused, 127 and 64 shift
  by the width of a word. Values between these are not tried.
- *cabac.* Six bins of two contexts, one that knows nothing and one that is nearly certain, make
  every state of the interval in which a bit is counted, kept for several bins and written; the
  proofs remove the bound for all four properties.

Fairness. demmt is one thread, so a call runs to its end before the next message is read.
That is the only fairness assumed: weak fairness of the steps inside a call (`AddRange` in
RegionList, `Decoding` in UserPusher, `Decode` in IbReplay), never of a call being made. MmtDecode
is one call of `mmt_decode` on a finite trace, which the program makes once: weak fairness of its next
step. The liveness properties say that each call returns. They are not vacuous: a
search loop that does not advance, a pushbuffer loop that follows jumps, a write loop that
stays at a word and an ioctl that is collected anew for ever violate them.

## 4. The proofs

TLAPS checks all of these for every value of the constants that satisfies the named
assumptions.

**RegionListProofs** (from `LimitAssumption`, `NodeAssumption`, `InputAssumption`,
`NoRangeAssumption`): `TypeCorrect`, `LinksCorrect`, `CursorCorrect`,
`RejectionCorrect`, `MaximalRunsCorrect`, and `Refinement`: RegionList implements WrittenBytes.

`LinksOK` alone is not inductive: while a merge is going on one node overlaps others, and
the search may only be entered when the list has a node to stop at. `IInv` adds that
live nodes are not empty (`WellFormed`), disjoint and not adjacent except around `cur`
(`Disjoint`), what the merge has established about the side it is not working on
(`GrowsLeft`, `GrowsRight`), that the search has passed only nodes before the range and that
the last one is not before it (`Passed`), and that the range is recorded once a node has
taken it (`Recorded`). The key idea is to say sortedness as a relation between the link
functions and a *key* (`SortedList`), and to change the key: a node that grows to
the left keeps its place by end, a node that grows to the right by start. The lemmas on
lists (`SingletonList`, `AppendToList`, `InsertIntoList`, `RemoveFromList`,
`ReorderList`) are about arbitrary sets and functions; each action then has one lemma,
`Step...`. The refinement has one lemma per kind of step: the range is recorded at the
step in which a node takes it, the merges change no byte (`KeepBytes`), and the
call returns when its bytes are there.

Some facts are the same in several of the proofs below, at the head of each module that needs
them: every set of natural numbers that is not empty has a least element, which
follows from the well-foundedness of the numbers and stands for induction; and what removing an element,
putting one in front, and concatenation make of a sequence.

**MethodStreamProofs** (from `WordsAssumption`, `HandleAssumption`, `CountAssumption`,
`NoMethodAssumption`): `TypeCorrect`, `BoundCorrect`, and `Refinement`: MethodStream implements
MethodQueue. `BoundAsTold` needs that an object in the table has a handle, and no name but the one
that belongs to its handle (`Named`): naming an object later must not make a subchannel that is
bound already mean something else. The refinement maps the counters to
the list they owe (`Owed`); a step that takes a parameter takes the head of that list (`OwedStep`), and
a step that loads counters makes the list the command announces (`OwedIncreasing`, `OwedConstant`,
`OwedOnce`). It needs that while a long count is awaited nothing else is (`CountAlone`). Its
hypothesis is that all words are `Documented`; TLC evaluates it for the words of the runs
(`WordsDocumented` in MCMethodStream). Whether `Documented` is more than it has to be is visible in
section 5: of each kind of word it excludes the code does something else than the tables say.
The last part of the module is about words in memory: `Run` says that the words from `p` to
`q - 1`, read one after the other, submit a given list and leave nothing expected; a command that a
driver writes behind a run makes it longer (`RunCommand`), and the decoder consumes it word by word
(`ReadRun`).

**DriverReplayProofs** (from the above, `MappingAssumption` and, for the driver, `DriverAssumption`). First the
pusher alone, with whatever is written into memory and to DMA_PUT: `PrintsInsideCorrect` and
`NothingPendingCorrect`. Neither is inductive alone: that the words lie in the
mapping follows from `Anchored` — `prev` and `put` lie in the mapping that is remembered —
which a wraparound keeps because the jump target was compared with the mapping. The proof also
needs that `pushbuf_decode` returns an address (`DecodeReturnsAddress`), for any word in
any state of the decoder. Then the pusher and a driver: `AllDecodedCorrect`, `DecodedAsSubmittedCorrect`.
The invariant `DInv` says where the driver is (`Places`), that what it wrote
since it set DMA_PUT is in memory (`Written`), and, for each place of the program, that the words between
where the decoder stands and DMA_PUT submit what is due (`Progress`). A piece that wraps around is a run
up to a jump and a run from the beginning of the buffer (`Around`); the decoder is before the
jump or has just read it (`AtWrap`).

**IbReplayProofs** (from the assumptions of MethodStream, `RingAssumption`, `MappingAssumption`,
`DriverAssumption`): `AllDecodedCorrect`, `DecodedAsSubmittedCorrect`. Here the decoder may stop in the middle
of a command, so the invariant `RInv` follows one run from the next word to decode to where the driver
writes, which submits what is due and then what is ready (`Meant`). What the slots hold matters
only while a write is looked at: the part of it that is left holds no complete entry, one, or two
(`None`, `One`, `Two`), and while an entry is printed the second one may still be to come
(`Printing`). `Recognised` says that the window of entries begins at the first slot, as the ring is
recognised by the first entry.

**CpuMappingsProofs** (from `NumberAssumption`, `NullAssumption`): `TypeCorrect`, `LinkedCorrect`,
`OwnedCorrect`, `MunmapCorrect`, `InsideCorrect`. `Owned` and `MunmapAccepted` are not inductive: a region
is found by address in one search and by id in another, and both must meet in the same struct. `Known` says
so: a struct that has an id is in the table under it and has the address its region has
now; one without an id has no address and is held by an object; the regions that are mapped have
different addresses. `Sized` says how large the table is compared with the
largest id so far: as ids come one after the other, doubling once is enough.

**ObjectTreeProofs** (from `TreeAssumption`, `HandleAssumption`): `TypeCorrect`, `LinksCorrect`,
`AgeCorrect`, `FifosCorrect`, `ChannelCorrect`. The tree alone is inductive (types, `LinksMutual`, parents are
older than their children and are the objects the children name), whoever uses it: two lemmas about
`Add` and `Destroy` do for every handler (`AddKeepsTree`, `DestroyKeepsTree`). For `ChannelGone`
the invariant says which kinds of objects nouveau's ioctls put on the list, where the fifo of a channel
is while it is being freed, and what the loop has done so far: the children stand at the front of the array
(`Packed`), in front of the place where the loop is they are those it passed over, and from there on every second one is in `left` and
the others are not (`Alternate`); what is in `left` is on the list, and hangs on no fifo but the one that is going (`LeftThere`). For `FifosCounted` it says that a device whose chipset is unknown has no fifos
and that only a device that is there has a count (`FInv`); the work is in what the walks up the
tree (`Above`, `Nearest`) find before and after an object is added at the front (`AddCounts`) or is
taken out in the middle (`DestroyCutsWalks`, `DestroyCounts`), and in that they end (`WalkEnds`, as
parents are older and memory is finite).

**MmtDecodeProofs** (from `SizesAssumption`, `TraceAssumption`): `TypeCorrect`, `DeliveredCorrect`, `EndsCorrect`, for
buffers of any size, any number of arguments, any traces, and reads that bring any number of bytes. The
invariant has two layers. `WInv` holds even when bytes are torn: what was loaded is a window of the
trace (`Window`), and at each place of the code the call under way asks for what the locals
say (`Asked`, `AskedOfDump`). The second layer, `Decoding`, holds until something is torn, and speaks of the trace rather than
of the buffer; `IInv` has it only while not `torn`, and while `astray` has in its place what `Start` needs to
begin the same ioctl once more (`AstrayInv`: the bytes have moved, so `ctl # idx`, and all before the ioctl
was handled; `Strays` is the step that leads there). `Here` is the place in the trace of the message at `mmt_idx`, which a refill does not
change although it moves both. It is at the next message and all before it were handled (`Handled`); the record there has the
type and the size found so far (`Measured`); a record behind it that may be a dump has the parts found so far (`Found`), and belongs
to no ioctl (`Alone`) or is at most as far as the next dump, or as the message that shows there is none
(`Gathering`). The pointers collected so far are right, but only as long as the bytes did not move since the
ioctl was met (`Collected`, under `ctl = idx`); that is what `Again` tests: a refill that moves anything sets the index to 0, and then an ioctl that was met elsewhere is
collected again (`ctl # idx => idx = 0`). Each step is then a comparison of a few bytes with the
record they come from; the step that decides whether there is another dump is `NextDump`.

**CabacProofs** (from `CtxAssumption`, `TableAssumption`): `CoderInvariant`,
`CoderTypes`, `EncoderSucceeds`, `DecoderInside`, `RoundTripCorrect`, for any contexts, any tables that leave something
of every range, and any number of bins, damaged or not. That the encoder's first bit is 0 is not inductive: `low` alone may grow
with every bin. The strengthening bounds the sum: `low + range <= 1024`, and `<= 512` as long as no
bit is known (`Interval`), which holds at the start (0 + 510), because a bin makes the interval
smaller, and because a round of the renorm loop doubles `low + range` after it took off what it
wrote. On the decoder's side `offset < range` is kept by each bin for the part it
chooses (`Below`). The encoder and the decoder are independent but for the bits, so the proof treats
them apart (`EncOK`, `DecOK`), with a lemma per action and one that the other side is idle.

`RoundTrip` relates all bins ever encoded to all bits ever written, and the bits are not
known while the bins are encoded: some wait for a carry (`outstanding`), and nine of those the decoder has
read by then are not even decided. The proof does without induction over either. It takes streams (`Stream`) that begin with what was written,
and calls one `Possible` when its next bits name a number inside the interval of the encoder
(`Register` is the ten bits that are compared with `low`, `Distance` how far they are above it, `Waiting`
says that the bits that wait are the complement of the next one). A `Script` is a
sequence of states of a decoder, each by a `Move` from the one before; the moves restate the decoder's steps as relations
between such states. The invariant `Encoding` says that, *whichever* possible stream it is, there is a script from the
start of the slice to exactly where the encoder is, with the distance as offset (`Coding`). Each step of the encoder
keeps it because a stream that is possible after the step was possible before (`ShiftFlows`,
`ShiftBack`), and the decoder's next move makes of the old distance the new one. After a terminating bin
the encoder doubles its range seven times and the decoder does not: `Flushing` counts these
rounds (`Doubled`), after which the low bits of `low` are 0. The last two bits then leave only possible streams, whatever follows
them (`FlushEncodes`), so between slices and before samples the invariant is about all streams
that begin with what was written (`AtRest`), and a decoder of them has read just these bits. When a slice was sent undamaged,
the invariant `Decoded` keeps one script, for the bits as they are: the decoder is in one
of its states, or done. A decoder step from there can only be the next move (`MoveFrom`, then one lemma per action), never a failure, as
the script ends within the bits.

Only model-checked:

- liveness (`CallReturns` of three modules, `Ends`): fairness is beyond the prover;
- Bitstream's `RoundTrip`, `HasMore` and `Resync`. A call of the module reads or writes any number of bits in
  one step, by a fold: what a fold computes for every input is induction over data, out of the prover's
  reach. (In Cabac a step is one bin or one round of the loop, so the same question is about invariants.)

## 5. Where code and documentation disagree

One is a run whose property is violated (`torn_text`); `PROJECT.json` has the quotations.

- **A text is torn at a refill** (`mmt_bin_decode.c:185`). The loop over a text message tests a byte
  before it makes sure that it was read. If what was read so far ends right before the EOR, the byte that
  is tested is one of an earlier message, or lies behind the buffer: the EOR is missed and the
  message goes on with the next one, or it ends early, `mmt_idx` passes `len`, and the next
  subtraction underflows.

The others were met while modelling. The models do what the code does, and the instances of the
runs, or the history variables the properties name, leave these cases out:

- **Old jump leaves a count** (`pushbuf.c:430`). The count of the command is loaded before the
  form of the word is known; the branch of the old jump returns without clearing it. When
  bits 18–28 of the target are not 0, the words after it are taken for parameters
  (`docs/hw/fifo/dma-pusher.rst:363`: the next command is read from the target).
- **Reserved bits before GF100** (`pushbuf.c:432`, `pushbuf.c:420`). A non-increasing command needs type bits 0 and
  a long command count bits 0 (table at `dma-pusher.rst:297`); the decoder takes either without them.
- **Old increasing command increases once** (`pushbuf.c:347`). On GF100 and later the old
  form sets `incr = 1` in place of the count (`dma-pusher.rst:413`).
- **Methods of the old forms on GF100** (`pushbuf.c:327`). The tables have an 11-bit method in bits 2–12
  (`dma-pusher.rst:413`, `dma-pusher.rst:418`); the decoder takes bits 0–12, as in the new forms, so every method
  but 0 is another one than the documented.
- **Bit 12 of the new forms** (`pushbuf.c:327`). The tables have 12 bits of method; the decoder takes 13.
- **Offset 0 is found again** (`buffer.c:326`). `nvrm_mmap` clobbers the offset 0 of a
  mapping so that it is not found twice (`nvrm.c:720`); `buffer_mremap` writes it back.
- **A ring recognised late is shifted** (`buffer_decode.c:99`). An entry whose low word is 0
  is not recognised; if it is the first one, the window of entries begins one slot late and
  the first slot is not decoded in later rounds either.
- **Every second child of a channel survives it** (`drm.c:634`), **its notifiers and buffers survive it**, as they hang on the device
  (`drm.c:663`), **a buffer hides a device** (`drm.c:638`), **the first fifo is not counted** with `-m` (`nvrm.c:296`): see ObjectTree.
- **A dump on its own may be stale** (`mmt_bin_decode_nvidia.c:270`). An ioctl checks whether the
  bytes moved while its dumps were measured; a dump that is a message of its own is measured once.
- **The subtype is tested again where it no longer is** (`mmt_bin_decode_nvidia.c:143`). `load_memory_dump` ends its
  loop when `nv->subtype` is 'o'; `nv` was taken before the loader of the message that is passed over, which
  may have moved the buffer. If the byte that is there now is an 'o', what follows is taken for a dump. The
  pass is thrown away if it ends, as the ioctl has moved too, but the checks on the way may give up on a
  whole trace: an mmap, an ioctl, an 'nd' that is passed over and a
  message behind it, with a refill in the loader of the 'nd', end in "unexpected EOF" when the length found in
  the supposed dump goes beyond the file. No document or comment speaks of it, so it is not a run of its own.
- **An 'm' is passed over** (`mmt_bin_decode_nvidia.c:120`) between an ioctl and a dump of it, although
  demmt has a handler for it.
- **More than 20 dumps** behind an ioctl (`MAX_ARGS`): the rest of the new kind is met as messages of an unknown type.
- **Values from 2^31 - 1 on** (`bitstream.c:180`) shift by 32 in the loop that measures the prefix,
  although only 2^32 - 1 is refused.
- **The count of zero bytes goes on over a start code** that is written (`bitstream.c:297`): a unit that ends in two
  zero bytes makes the writer of H.262 refuse a first byte below 2 of the next one.
- **A search after a 01 that was read** (`bitstream.c:354`): when `vs_byte` has refused the last byte of a
  start code, the count of zero bytes is still 2, and the unit is missed.

## 6. What is not modelled

- Text: everything that is printed, `decode_terse`, `decode_verbose`, `obj->data`.
- `state->skip` of the word decoder: nothing sets it.
- The recognition of USER areas, and more than one ring or channel: `pb_pointer_found` is one
  flag per device, so a second channel is not looked for.
- Contents and lengths of mappings in CpuMappings, hence the stale `data` pointers after
  a `realloc` of an object's data; ids that skip more than the table can grow.
- GPU mappings that disappear while a pusher remembers them.
- In ObjectTree: file descriptors (one process, one device file), failed ioctls of nouveau, and
  frees of channels and objects that do not exist.
- In MmtDecode: `sysconf`, handlers' own effects, and message types that repeat a shape.
- The syntax of the video formats above the bits, `vs_mark` and `vs_infer`, and the binarizations of CABAC.
- The macro interpreter (`macro.c`), an interpreter whose state lives for one call.
- Objects of 4 GiB and more (`start + len` in 32 bits).

## 7. Plan

Done: the eleven modules of section 2 with their runs, and proofs of all but the properties that section 4
lists as only model-checked. Next, in this order:

1. **GPU mappings**: `vspace_map`, `vspace_unmap`, and the pointers the pushers and the channels'
   tables keep to mappings and objects: a composition of ObjectTree with UserPusher and MethodStream.
2. **Macro** (`macro.c`): delay slots, the parameters a macro reads and the methods it sends.
3. **Binarization** of syntax elements in `h264_cabac.c`, over Cabac's bins.
