# micro_core in TLA+

A model of [micro_core](https://github.com/mahdi-sahebi/micro_core), a heap-free C library whose
centre is `mc_comm`: a sliding-window protocol that turns a lossy, reordering packet medium into a
reliable byte stream. The modules here are translated from the sources (`src/...` below, relative to
the repository), model-checked with TLC on small instances, and partly proved with TLAPS for all
values of the constants.

## 1. The system

| Component | Source | State | Operations | Status |
|---|---|---|---|---|
| window pool | `src/io/communication/mc_window_pool.c`, `mc_window.h` | ring of windows, `bgn_id`, `end_id`, `bgn_index`, `stored_size` | init/clear, contains, get, write, read, update, ack, header stamp | `WindowPool.tla` |
| protocol | `mc_protocol.c` | (the pools), `send_delay_us` | receive data/ack, resend unacknowledged, flush the incomplete window | `Comm.tla` |
| communication API | `mc_communication.c` | a sending and a receiving frame | init, update, send, recv, flush | `Comm.tla` |
| frame, io | `mc_frame.c`, `mc_io.c` | `temp_window`, `temp_stored` | assemble and verify a packet, three send attempts | `Frame.tla` (byte line), `Comm.tla` (datagrams) |
| message | `src/io/message/mc_message.c` | `recv_pool`, `recv_pool_stored`, subscription table | send, signal, update, subscribe, unsubscribe | `Message.tla`, its table `SortedArray.tla` |
| sorted array, binary search | `src/dsa/sarray.c`, `src/alg/algorithm.c` | slots, count | insert, remove, remove_at, clear, find, nearest | `SortedArray.tla` |
| linear allocator | `src/dsa/memory/memlin.c` | capacity, size | create, alloc, clear | `Memlin.tla` |
| chain | `src/pattern/mc_chain.c` | array of callbacks | push, clear, run | not modelled |
| buffer, time, error, version | headers, `time_linux.c` | none | | not modelled |

How they interact. The application calls `mc_comm_send`, `mc_comm_recv` and `mc_comm_flush`, each a
loop that works on a pool and calls `mc_comm_update` when it can do nothing else; the application's
own loop calls `mc_comm_update` in between. An update reads at most one packet through the `io.recv`
callback, hands it to `protocol_recv` (which updates one pool and may answer through `io.send`), then
sends again every stamped packet whose delay has passed, then the incomplete window when it is older
than 250 ms. The two endpoints share nothing but the packets. `mc_msg` puts a header in front of
each message, sends both with `mc_comm_send`, and looks the id of a received message up in a sorted
array.

What is hard here: packets and acknowledgements lost, repeated and reordered while ring, ids and flags
of four pools must agree; a byte line on which one missing byte shifts every later packet; an update
from a timer inside another call; ids that run out; a window that is stamped early (incomplete) or late
(full pool); the cursor of a partial read; the timers; full pools; bytes that are accepted and must
eventually arrive. `PROJECT.json` lists each such hazard with its line and the properties that would
notice.

What makes each component correct:

* window pool: a stamped packet stays in its window until it is acknowledged, the write loop makes
  progress, the first acknowledgement removes the whole acknowledged run;
* protocol: an acknowledged packet is at the peer, one id is one content until the ids run out, old
  packets are acknowledged again;
* API: exactly the accepted bytes come out, in order; a successful flush means everything is at the
  peer; what was sent arrives at last;
* frame and io: no byte is met twice or passed over by short reads; damage stays in its packet while the
  line loses none; what is given on was sent, once and in this order; a packet that is in step arrives;
* message: every message is met whole and in order, at last, and only its subscriber is called;
* sorted array: sorted at all times, search meets what is there (of equal elements the leftmost, say the
  tests), insertion and removal move one element;
* allocator: the header's capacity is all that is left of the buffer, blocks fit in it, and a request is
  refused exactly if it does not fit.

## 2. Modules

```
WindowPool      the pool as a record, its C functions as operators        (constants IdMod, Payload)
  Comm          two endpoints and the network: one action per loop iteration of the API
    CommInvariant   the inductive invariant of ids, rings and flags
    CommRefinement  Comm implements Stream (abstract specification)
      CommContent   (on both) the inductive invariant of the data
    CommLiveness  fairness and liveness
    MCComm      instances for TLC (with CommContent and CommLiveness)
    CommPreempted   Comm with an update from a timer inside wndpool_write (MCCommPreempted)
    MCCommWrap  (with CommContent) an instance that starts late and runs out of ids
Stream          what the link promises its applications
Message         the message layer over the byte stream (MCMessage: the instance)
  SortedArray   its subscription table (an instance), also on its own
Frame           the bytes of the packets below the link, stand-alone
Memlin          stand-alone (MCMemlin: the instance)

Arithmetic                % and \div, and the least natural number with a property
  WindowPoolProofs        each pool operator: types, and the invariants of CommInvariant
    LinkProofs            TypeCorrect, LinkCorrect, MovesOn and what follows from them
      ContentProofs       ContentCorrect, what follows from it, and the refinement (Implements)
  FrameProofs             Accounted, StaysInPlace, KeepsStep, KeepsOrder
  SortedArrayProofs       the binary search, and the operations of the array
    MessageProofs         (as an instance) TypesHold, CallsSubscribers, StaysInStep, ArriveIntact
  MemlinProofs            HeaderTypes, HeaderCorrect, BlocksFit, RefusesRightly
```

**WindowPool.** A pool is the record of `wndpool_t`, a window the record of `wnd_t`. Payload bytes
are positions in the stream that the sending application produces, so the data of a window is the
`size` positions after `from`; a receiver that hands over anything else has lost, repeated or
invented a byte. Each operator has the name of its C function. `Write` is the loop of
`wndpool_write` for at most one payload, which is all `mc_comm_send` ever passes: the loop then runs
at most twice. `remove_acked` is a `while` loop; `Ack` says that the number of windows it removes is
the length of the acknowledged run. Ids are computed modulo `IdMod` (2^32 in the code), including
the subtraction and the wrap in `get_index` and `wndpool_contains`. `wndpool_init` does not assign
`stored_size`, so the initial value is a parameter.

**Comm.** `snd[e]` and `rcv[e]` are the pools of endpoint `e`, `net[e]` the set of frames on their
way to it (a set: a frame may be received any number of times because a receive may leave a copy,
it may be lost, and order is free). `call[e]` is the API call the endpoint is in. The actions are
the iterations of the three loops: `SendWrites`/`SendWaits`, `RecvReads`/`RecvWaits`/`RecvTimesOut`,
`FlushWaits`/`FlushReturns`, with `CallSend`, `CallRecv`, `CallFlush` as the entries, and `Poll` for
an update from the application's own loop. All updates go through `CommUpdate`: receive, answer,
resend (`due`, a free choice among the stamped packets), flush the incomplete window (`stale`, a
free choice). The endpoint is single-threaded, so an iteration is one step. `accepted` and
`delivered` are what the API returns to the applications, `log` is a history of the content each id
was first stamped with.

Left out of Comm: argument checks; the CRC computation (a packet is intact or it is a lost packet);
the bytes behind the payload of a short packet; the assembly of a packet from partial reads (`Frame`); the
adaptive delay (`due` covers every delay); the acknowledgement's own payload, which the code does not
set. A full window that cannot be stamped is passed to `on_done` with a stale header and checksum
(`mc_window_pool.c:204`): the receiver drops it, so the model sends nothing.

**CommPreempted** is `Comm` with `mc_comm_update` also called from a timer, as the comment at
`mc_communication.c:16` and api.md:93 allow. A call of `wndpool_write` is cut in two steps: the tests
with the fetch of `window` (`WriteBegins`), and the rest (`WriteEnds`); between them the timer may
make any number of updates (`TimerUpdates`), each of which runs to its end. `window` keeps pointing at the
window that was last when it was fetched, while `wndpool_update_header` asks for the last one anew
(`FirstSeg`). Other places that a timer may interrupt are not modelled, and the module is for payloads of
at most 2 bytes, so that an append to a stamped window fills it.

**Frame** is what lies below `Comm` on a line that knows only bytes: `Attempt` is one of the three
attempts of `io_send` (a driver with `Cuts` takes the part that fits), `IoRecv` is `io_recv` with the
bytes the driver has and `frame_recv` on what is then in `temp_window`, `LoseByte` and `ChangeByte` are
the line. A byte is its packet and place or `Noise`, and a window is good exactly if it is a whole
packet: a damaged window that passes CRC16 by chance is not modelled, nor is a header found by chance.
`InPlace` is why `InStep` holds: it gives the byte that belongs at each place of what is under way.
To `Comm` a dropped window, or a packet whose three attempts failed, is a lost frame. The windows that
`frame_recv` gives on are packets whose `io_send` succeeded, each once at most and in their order
(`OrderKept`), so the network of `Comm`, which also duplicates and reorders, allows all that a byte line
does; but that what keeps being sent arrives does not hold of it: see `frame` below.

**Stream** is the abstract specification: in each direction a byte stream with a bounded number of
bytes under way, of which a prefix is safe at the other end, and a flush that succeeds only when that
prefix is everything. `CommRefinement` maps the link to it: the safe prefix ends where the first
packet starts that the receiving pool neither holds nor has handed over.

**Message** is one direction of the message layer: `stream` holds the bytes `mc_comm` has accepted and
not handed over. `mc_comm_send` is its loop, one piece per step, with timeouts if `TimesOut`;
`mc_comm_recv` returns any number of the bytes asked for that are there. `mc_msg_update` is one step
(`MsgUpdate`): between its two reads the other endpoint could only add bytes, and the order of such a
step and the update does not matter. A byte is its message and place, and a header that is not the
header of one message reads anything (`Headers`). The callback is recorded in `handled`; it does not
call back into the API. `Subscribe` and `Unsubscribe` are `Insert` and `Remove` of `SortedArray`. Pools
smaller than a header, which the code does not refuse either, are left out (`LayoutAssumption`), and so
is a configuration without a table (`ids_capacity` 0; `TableAssumption`). `sent` is a history: of each
message it keeps how many bytes `mc_comm_send` took (`put`), and after how many others (`from`), so that
`MessageInv` can say where in which message the receiver is. `SizesFit` is what `mc_msg_send` asks of
its callers without testing it, that a size fits the 16 bits of the header.

**SortedArray** keeps keys only. What `mc_sarray_remove_at` reads behind the array is a free choice. That
function tests that the array is not empty, but not its index (`sarray.c:148-157`); the model calls it with
the index of an element only (`Next`). With `count` it drops the last element, with a larger index
`count - index` wraps and `memmove` is asked for nearly 2^32 elements: left out, a condition on the caller.

**Memlin** starts with `mc_memlin_create` on a buffer of any of the sizes `Buffers`, with the header
width that `get_word_type` finds and the capacity cut to it; the three widths are the constants `Mods`
(3, 4 and 6 bits in the run, as 2^32 is beyond TLC's integers), the addition of `mc_memlin_alloc` has
the widest. Buffers smaller than their header, which the code accepts, and requests close to 2^32, whose
sum wraps past the test, are left out: `FitsBuffer` fails with either. `HeadersFit` and `SumsFit` state
the two conditions; `MCMemlin` assumes them of its instance, and the theorems on blocks have them as
hypotheses. No property says that the header is the smallest that would do, as it is not:
`get_word_type` asks for the size of the whole buffer, so one of 256 to 258 bytes gets the header of 16
bits and two bytes less than a header of 8 bits would leave, and one of 65536 to 65540 bytes that of 32.

## 3. Runs

| Run | Question | Instance | Result |
|---|---|---|---|
| `comm_duplex` | is the link a reliable stream in both directions at once, is flush honest, do the invariants of the proofs hold? | payload 2, pools 2/1, 3 and 1 bytes, calls up to 3 bytes | holds, 180 508 states |
| `comm_wrap` | what happens where the ids wrap; do windows stay until acknowledged in any order? | 6 ids, payload 2, pools 2/2, 3 packets before and 6 bytes after, calls up to 2 | holds, 128 500 states |
| `comm_live` | does everything stamped arrive, is it removed, is each step one of the abstract stream? | payload 2, pools 2/2, 2 bytes, fairness | holds, 1 738 states |
| `comm_stuck` | does everything accepted arrive? | payload 1, pools 2/1, 2 bytes, fairness | violated |
| `comm_dirty` | is delivery right on a buffer that is not zero? | payload 2, pools 2/1, `stored_size` 0..2 | violated |
| `comm_preempted` | is delivery right when a timer calls the update inside `mc_comm_send`? | payload 2, pools 2/1, 3 bytes | violated |
| `frame` | are packets assembled right, is each byte in its place, is damage contained and the order kept, does what is in step arrive? | packets of 3 bytes, line of 5, 3 packets, up to 2 bytes lost, 2 cut, 1 changed, fairness | holds, 65 323 states |
| `message` | is the receiver in step, is every message met whole, in order and at last, until a send is cut? | 2 messages of sizes 0, 2, 3, pool 4 (3 is too large), header 2, pieces of 2, timeouts, fairness | holds, 60 423 states |
| `sarray` | sorted array and binary search | 4 keys, 4 slots | holds, 787 states |
| `sarray_unsubscribe` | does removing an absent key change nothing? | 3 keys, 3 slots | violated |
| `sarray_first` | does a search for a key that occurs more than once return the leftmost? | 4 keys, 4 slots | violated |
| `memlin` | is the capacity the rest of the buffer, do the blocks fit, is just what does not fit refused? | 11 buffers around the limits of the widths, headers 3, 5, 9 | holds, 1 536 states |

Why the bounds are enough to be interesting. Three bytes with a sending ring of two windows and a
receiving one of one go around both rings, and the six bytes of `comm_wrap` go around two rings of two with
every alignment of `bgn_index` and `bgn_id`. With the byte that comes back in `comm_duplex` an endpoint
receives data and acknowledgements at once, and the calls of the two wait for each other; more bytes, or
the refinement in this run, take TLC past five minutes. `ImplementsStream` is therefore checked in
`comm_live`, which is small: its two bytes can be one packet or two, read in parts, and arrive out of
order. Payload 2 gives incomplete windows, windows stamped by the flush timer with one byte, writes that
are refused because the last window was already sent, a write that fills one window and goes on in the
next, and reads that stop in the middle of a packet. Calls of up to 3 bytes cross a window. A sending pool
of 2 has two packets in flight when the second was stamped incomplete, so acknowledgements overtake each
other and one acknowledgement removes two windows, in `comm_live`, too. A receiving pool of one window is
the smallest case in which packets arrive that it must refuse; that one holds packets out of order is for
the pools of two in `comm_wrap` and `comm_live`. `IdMod` is so large that no id wraps, except in
`comm_wrap`. That instance would take too many
states from `Init` on, so `MCCommWrap` starts it where `Comm` is after `Start` full packets were
exchanged, one endpoint's pools having moved on to id `Start` and the network having kept a copy of the
first packet and one of its acknowledgement (`LateInit`); the bytes sent from there need the last ids
and the first ones again, with incomplete windows on both sides of the wrap. `MaxBytes` and `MaxCall`
are the bounds on what the applications do. In the message run headers and bodies can be cut by a read
or a piece, the dropped body takes two segments of the pool, and the link holds less than that message,
so sender and receiver wait for each other. In the frame run the line holds less than two packets, so
drivers are full and cut, a packet is read in every partition, and one byte lost after one sent in vain
brings the receiver back in step. None of the runs disables the deadlock check: an application may
always make another call, and `io_recv` may always find nothing.

Fairness (`CommLiveness`). Strong fairness of `Resend` is the documented duty to call
`mc_comm_update` regularly (doc/io/communication/api.md:93) together with the passing of time: an
update in which the delays have expired. Strong fairness of `Receive` per packet type and id, with
`StopsLosing`, says that the network, after losing as much as it likes for as long as it likes,
delivers what keeps being sent. The receiving application reads again and again. Nothing is assumed
of the order of packets, of duplicates, or of the sender making another call.

`FairSpec` of `Message` asks that `mc_msg_update` is called while it can get bytes and that a send
under way goes on; that the link delivers is what `comm_live` shows of every stamped
packet (and what `comm_stuck` refutes of a last window that is never stamped).

`FairSpec` of `Frame` asks only that an update reads while there is something to read; nothing is
asked of the sender or the line.

What `comm_wrap` shows is narrow: safety. Where `bgn_id + capacity` passes the number of ids,
`wndpool_contains` holds of no id, so nothing is stored and no acknowledgement counts; the sender goes
on until its ring is full, with `end_id` behind `bgn_id` and `protocol_send_unacked` idle. The link has
stopped for good rather than deliver a wrong byte, and no late packet can bring a pool back to the first
ids (`NoTurningBack`). An id may then have been stamped twice, but no pool takes the second packet. That
it stops after 2^32 packets is the code's own TODO (`mc_protocol.c:70`, `mc_window_pool.c:199`).

What `frame` shows is narrow, too. Once a byte is lost, or a cut attempt leaves a part of a packet on the
line (`mc_io.c:30`), the receiver meets windows that straddle two packets and drops them all, because
`frame_drop` does nothing; it is back in step only when the shift adds up to a whole window
(`AlignedArrives`). On such a line the link above delivers nothing more, although communication.md:23
offers it for "any raw byte stream"; the code has a TODO for it (`mc_frame.c:17`).

The violated runs are the findings:

* `comm_stuck`: when a write fills the last free window while all others are in flight, the window is
  not stamped (`mc_window_pool.c:197`), is not "incomplete" because it is full (`:217`), and is not
  among the unacknowledged packets because `end_id` did not move. `mc_comm_send` has reported its
  bytes as sent, yet unless it is called again they never leave, and `mc_comm_flush` times out.
* `comm_dirty`: `stored_size` is not initialised, so `mc_comm_recv` may start in the middle of the
  first packet.
* `comm_preempted`: the timer stamps and sends the incomplete window after `wndpool_write` has found it
  unsent; the byte then appended to it shares the id of a packet that the receiver has read.
* `sarray_unsubscribe`: `mc_sarray_remove` removes the lower bound without comparing the key.
* `sarray_first`: `mc_alg_lower_bound` stops at any equal element (`algorithm.c:37-40`), where its tests
  ask for the leftmost: test/alg/test_alg.c:130 for 1 (the code returns 2), :156 for 0 (it returns 2). Nor
  does `mc_alg_nearest`, which starts from there, return the first of several nearest elements, as :331
  (for 1, with the absent key 22; it returns 3) and :365 (for 0; it returns 2) ask. The tests pass all the
  same, because on a wrong value they return `result.error`, which is `MC_SUCCESS`. The run asks it of keys
  in the array, of both functions; its counterexample, three equal keys, refutes both. `FindMeets` and
  `NearestIsNearest` hold with duplicates because they leave open which of equal elements is met.

Other disagreements have no run of their own. `mc_msg_send` that times out inside a message leaves its
first bytes in the stream, and the receiver completes them with bytes of the next: a callback is called
with bytes no message had (message/api.md:17 says "complete message"; `IntactUntilCut` stops at the
cut). `get_data` of the allocator ignores its index, so all blocks start at the same address
(`GetData`). `mc_comm_flush` also waits for the receiving pool, so an endpoint with unread data gets a
timeout whatever its peer acknowledges. And two show when the constants of `message.cfg` are changed:
with a size of at least `SizeMod` the header says less than the body has (`mc_message.c:240`) and
`IntactUntilCut` fails without
any timeout; with `PoolSize = HeaderSize` `drop_message` asks for 0 bytes and `EveryMessageHandled`
fails, although test.md:167 says "the receiver continues".

Every property of the passing runs comes with a mutant of a definition (the operators marked
"Mutant" in the modules), a plausible slip that makes the run fail.

## 4. Proofs

Every safety property that a passing run checks is also proved, for every value of the constants that
satisfies the named assumptions. What stays with TLC is at the end of this section.

| Component | Theorem | Says |
|---|---|---|
| link | `TypeCorrect` | `TypeOK`: no index leaves its ring, no window holds more than a payload, no id leaves its width, whatever the network does |
| | `LinkCorrect` | `LinkInv`: the inductive invariant of ids, rings and flags, also past the wrap of the ids |
| | `MovesOn` | `NoTurningBack`: no frame brings a pool back to ids that it is past |
| | `AckedReceived` | what the sender removed or marked acknowledged is held, or was handed over, by the peer |
| | `Retained` | a packet in flight is in its own window; ring positions never collide |
| | `FirstUnacked` | the first packet in flight is never an acknowledged one between two calls, so the error branch of `mc_protocol.c:92` is dead |
| | `ContentCorrect` | `ContentInv`: the inductive invariant of the data |
| | `InOrder` | `InOrderDelivery`: what is delivered is a prefix of what was accepted |
| | `OneContent` | `OneContentPerId`: a packet id never stands for two contents, as long as `IdsLast` |
| | `TakesAll` | `WriteTakesAll`: the loop of `wndpool_write` makes progress |
| | `FlushReceived` | `FlushedIsReceived`: a successful flush means that all is at the peer |
| | `Implements` | `ImplementsStream`: the link implements `Stream` |
| frame, io | `FrameTypes` | `TypeOK`: `temp_window` never overflows |
| | `Accounted` | `BytesAccounted`: every byte that a driver took is somewhere exactly once |
| | `StaysInPlace` | `InPlace`: while nothing is lost or cut, each byte under way is where it belongs or was changed |
| | `KeepsOrder` | `OrderKept`: whatever is lost, changed or cut, what is given on was sent, once and in this order |
| | `KeepsStep` | `InStep`: the n-th window met is the n-th packet, or thrown away because a byte was changed |
| message | `TypesHold` | `TypeOK`: the pool is never overrun, whatever a header reads |
| | `CallsSubscribers` | `CallsSubscriber`: a callback is called exactly if its id is subscribed |
| | `StaysInStep` | `MessageInv`: the inductive invariant of stream and pool |
| | `ArriveIntact` | `IntactUntilCut`: messages are met whole and in order until a send is cut |
| sorted array, | `ArrayTypes`, `StaysSorted` | `TypeOK` and `Sorted`, duplicates included, whatever is read behind the array |
| binary search | `FindCorrect` | `FindMeets`: the search ends, and meets every key that is there, at any of its elements |
| | `NearestCorrect` | `NearestIsNearest`: no element is nearer than the one `mc_alg_nearest` returns |
| | `InsertAdds`, `RemoveTakes` | `InsertAddsOne`, `RemoveTakesOne`: one element comes or goes, no other changes |
| allocator | `HeaderTypes` | `TypeOK` |
| | `HeaderCorrect` | `HeaderWhole`: in a buffer that holds its header, the capacity is all of the rest, not cut by the width; size never passes it |
| | `BlocksFit` | `FitsBuffer`: what was handed out fits the buffer with the header |
| | `RefusesRightly` | `RefusesIffFull`: a request is refused exactly if it exceeds the buffer behind the header that was chosen and the blocks handed out |

**Assumptions.** Of the link: there is an id, a payload has a byte, a pool has a window
(`IdModAssumption`, `PayloadAssumption`, `CapAssumption`); the applications' bounds are natural numbers
and `stored_size` starts within a payload (`BoundAssumption`, `StoredAssumption`); two sending rings and
a receiving one fit into the ids (`RingsAssumption`, not needed for `TypeCorrect`: a capacity is a
`uint8_t`, an id has 32 bits). Nothing bounds the number of packets. Capacities need not divide `IdMod`.
`ContentCorrect`, `InOrder`, `OneContent`, `FlushReceived` and `Implements` have the hypothesis
`InitStored \subseteq {0}`, a buffer that was zero where `stored_size` lies: `mc_comm_init` does not see
to it, and `comm_dirty` shows that delivery is wrong without it. The rest of the link's theorems hold
with any `stored_size` within a payload; the code leaves any 16-bit value there, and one beyond a payload,
with which the first read copies from behind the window, is not modelled.

Of the others: a window has a byte and fits the line (`FrameAssumption`); a pool holds a header
(`LayoutAssumption`); keys are integers (`KeysAssumption`); wider widths have more values
(`WidthsAssumption`). `StaysInStep` and `ArriveIntact` ask for `SizesFit`, `BlocksFit` and `RefusesRightly`
for `HeadersFit` and `SumsFit`: conditions that the code leaves to its callers, each necessary (see `Message` and
`Memlin` in 2, and the disagreements in 3). TLC evaluates them on the instances it checks.

**The link.** The `TypeOK` of `Comm` is inductive as it stands: `WindowPoolProofs` has a lemma per
operator and `LinkProofs` a step per action.

`AckedIsReceived` is not inductive: a step that delivers an acknowledgement is right only if every
acknowledgement under way is of a packet that the receiver has, a duplicate is harmless only if its
window belongs to its id, and removing a run of windows is harmless only if the ring positions after it
are those of the following ids. `LinkInv` (in `CommInvariant`) says all this of each direction:

* `SndRing`, while `end_id` is not behind `bgn_id`: `bgn_index` is `bgn_id` modulo the capacity; the `N`
  packets ever stamped end at `end_id` or, when the window at `end_id` was stamped incomplete, one after
  it; each packet in flight is in its window and every other window is clear but for the data being
  collected;
* `RcvInv`: the same alignment at the receiver, and each of its windows is free or holds the one id of
  its position, which was stamped;
* the data frames under way were stamped, the acknowledgements under way are of packets the receiver
  holds or has handed over, and so is every packet the sender believes acknowledged;
* `SndSpent`, once `end_id` has begun again with 0: `bgn_id` is within a ring of the last id, so
  `wndpool_contains` holds of no id and no acknowledgement counts; a window that is marked acknowledged
  is still that of its own id. What a packet in flight becomes does not matter: it is not sent again. A
  number that counts the packets without wrapping (`Filling`) stands for the last window in both cases.

That `bgn_id` never wraps is a consequence (`MovesOn`): only acknowledged windows are removed, an id is
stored or acknowledged only if the upper end of the ring has not wrapped, and the window of `INVALID_ID`
never counts as valid. An id may be stamped a second time, in a frame that the receiver would take for
an old one; `RingsAssumption` keeps the two meanings of such an id apart, since a sender is at most a
ring ahead of `bgn_id`, and `bgn_id` at most a ring ahead of the receiver (`CloseBehind`).

`WindowPoolProofs` shows what `wndpool_write`, `_ack`, `_update`, `_read` and the header stamp do to
`SndRing` and `RcvInv`; an operator is cut where the C function is (one pass of the write loop, one
removal of a run). In `LinkProofs`, `RecvInv` and `ResendInv` are the two halves of an update,
`SenderActs` and `ReceiverActs` say what a step of one endpoint must keep for both directions, and there
is one lemma per kind of step (`UpdateKeeps`, `SendKeeps`, `RecvKeeps`, `CallKeeps`, `LoseKeeps`);
`StepLink` joins them.

**The data.** `InOrderDelivery` needs to know what is in the windows. `ContentInv` (in `CommContent`)
adds, given `LinkInv`: the packets stamped so far are consecutive pieces of the stream (`Consecutive`);
a window in flight has the content its id was stamped with, as long as it may be sent again, and the
window being filled starts where the last packet ended (`SndContent`); so has each window of the
receiver and each data frame, unless its id was stamped twice (`RcvContent`, `OutContent`; `RecvContent`
shows that such a frame is not stored); and the application has got the bytes up to `stored_size` bytes
into the packet `bgn_id`, of which never all were read, so `remove_first` was not forgotten. It is again
a lemma per pool operator and one per kind of step. Where a window is appended to, `LinkInv` is what
says that it was not stamped before. `OneContentPerId` itself is true only until an id is stamped twice
(`IdsLast`), after which two contents may lie in the network, though not at the receiver. `InOrder`,
`OneContent` and `FlushReceived` follow from the two invariants without further induction; `TakesAll`
follows from `LinkInv` alone.

**The refinement.** `Implements` maps initial states to initial states and each step to a step of
`Stream` or none: only the writes of `mc_comm_send` accept, only the reads of `mc_comm_recv` deliver, a
packet that fills the gap at the receiver makes bytes arrive, any other update is a stutter. Its core is
`MissingFacts`: the first packet that the receiver lacks exists, is at most `RcvCap` after `bgn_id`, and
only grows (`MissingGrows`); and `RoomUnderWay`, that two rings bound what is under way.

**Frame.** The two conjuncts of `Accounted` are inductive together; each action adds the same to both
sides of the account, and the product of the window size and the windows met is kept out of the
arithmetic of the provers. `InStep` is not inductive: it says nothing of the bytes that are not a window
yet. `InPlace` says of each place of `temp_window` and the line which byte of which packet belongs there
and that it is this byte or `Noise`, and that changed bytes under way and dropped windows together are
no more than were changed. `Accounted` then shows that what is under way is whole packets, and
`PlacedWindow` that a window's worth of bytes in place is the next packet unless one of them is noise.
`OrderKept` makes no such assumption and needs an invariant of its own, `Traced`: the packets given on,
and behind them those whose last byte is still under way, are different packets of `sent`, in this
order. An attempt that is cut never sends a last byte, no fault adds one, and a window is given on only
with one at its end. A window may still be put together of the bytes of two attempts at the same packet.

**Sorted array and search.** A recursive function has a value only if one exists, and what it computes
needs induction. Both are shown by a least counterexample: `LeastNatural` (from the well-foundedness of
< on the natural numbers) gives the narrowest bounds of the search for which a claim fails, and one pass
of the loop refutes it (`SearchLoops`, `SearchAnswers`). `Halves` is where the unsigned bounds are
right: the middle of valid bounds is valid, and bounds below 0 are never made. The rest is the answer of
the search put into `Insert` and `Remove`; that one element comes or goes (`OneMore`) is a bijection
between the slots of each key before and after.

**Message.** `IntactUntilCut` is not inductive either. `MessageInv` has three parts: the bytes in the
stream are the last ones that were put into it, each at its place among all accepted bytes
(`StreamInPlace`); `recv_pool_stored` counts the bytes in the pool and is never that of a complete
message (`PoolInPlace`); and while no message was cut, the receiver has taken exactly the messages
handled and `recv_pool_stored` bytes of the next, which are in the pool (`InStep`), or, if the message
is dropped, its header is. The first two, with `Sorted` of the table, are inductive (`TypeStep`); the
table's invariant is that of `SortedArrayProofs`, taken over as an instance. A step of the sender only
lets `sent` grow (`GrowsKeeps`). For `MsgUpdate`, `FrontByte` and `FrontPiece` say that the front of the
stream is the place of the next message the receiver has reached, `BodyIs` brings the two ways to read a
body to one form, and `MeetsWhole` is the moment at which the last byte is there. If the next message
was cut, nothing is claimed after it; that the receiver may then be `stored > put` inside it is part of
`InStep`.

**Allocator.** That the sum of the blocks is `size` is shown for every list of blocks (`SumExists`,
`TotalAppend`), and that the chosen width holds the capacity (`HeaderFacts`) makes every reduction
modulo a width the identity.

TLC checks `LinkInv`, `ContentInv`, `InPlace` and `MessageInv` as well, in `comm_duplex`, `comm_wrap`,
`frame` and `message`.

**Only model-checked.** All liveness (`StampedIsRemoved`, `StampedIsDelivered`, `AlignedArrives`,
`EveryMessageHandled`): temporal properties under fairness and ENABLED are outside the prover's reach.
The runs that expect a violation.

## 5. Not modelled, and the plan

Not modelled, with the reason in `PROJECT.json`: chain, buffer, time, error and version types, the
test programs; of the algorithms the CRC, whose result is abstracted to right or wrong. Abstracted in the
link: see "Left out of Comm" above.

The plan, most important first:

1. Proofs: the argument of `StampedIsDelivered` as far as it is safety (what `Resend` and `Receive` establish
   for each packet).
2. The adaptive retransmission delay (`mc_protocol.c:63`) as a function of the measured delays, on a
   clock that may step, and how often a packet is sent again.
3. `Message` with callbacks that call back (a nested `mc_msg_update` overwrites the pool the callback
   reads), and with sizes beyond `SizeMod`, which now take too many states.
4. The other places where a timer may interrupt a call (`wndpool_read`, `remove_first`).
5. A peer that restarts: the code has nothing for it, so only what it breaks could be shown.
