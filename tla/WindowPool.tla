----------------------------- MODULE WindowPool -----------------------------
(***************************************************************************)
(* The window pool of src/src/io/communication/mc_window_pool.c: a ring of *)
(* `capacity' packet windows addressed by packet id.  The sending side and *)
(* the receiving side of an endpoint each own one.  The pool has no state  *)
(* of its own here: it is a record, and every function of the C file is an *)
(* operator from a pool to a pool.                                         *)
(*                                                                         *)
(* Payload bytes are abstracted to their position in the byte stream the   *)
(* sending application hands over (1, 2, 3, ...).  Since wndpool_write     *)
(* only ever appends, the data of a window is an interval of positions:    *)
(* the `size' positions that follow `from'.                                *)
(***************************************************************************)
EXTENDS Integers, Sequences

CONSTANTS
  IdMod,    \* number of packet ids: 2^32 in the code (mc_pkt_id is uint32_t)
  Payload   \* data bytes per window: window_size - sizeof(mc_pkt)

ASSUME IdModAssumption   == IdMod \in Nat \ {0, 1}
ASSUME PayloadAssumption == Payload \in Nat \ {0}

INVALID_ID == IdMod - 1          \* 0xFFFFFFFF in the code
Ids        == 0 .. IdMod - 1

(* wnd_t: the packet's id and data, and the two flags kept beside it.      *)
Window == [id : Ids, from : Nat, size : 0 .. Payload,
           is_acked : BOOLEAN, is_sent : BOOLEAN]

(* wnd_clear.                                                              *)
Cleared == [id |-> INVALID_ID, from |-> 0, size |-> 0,
            is_acked |-> TRUE, is_sent |-> FALSE]

(* wndpool_t.                                                              *)
Pool(cap) == [bgn_id : Ids, end_id : Ids, bgn_index : 0 .. cap - 1,
              stored_size : 0 .. Payload, capacity : {cap},
              windows : [0 .. cap - 1 -> Window]]

(* wndpool_init and wndpool_clear.  Neither assigns stored_size: it is     *)
(* whatever the caller's buffer held.                                      *)
InitPool(cap, stored) ==
  [bgn_id |-> 0, end_id |-> 0, bgn_index |-> 0, stored_size |-> stored,
   capacity |-> cap, windows |-> [k \in 0 .. cap - 1 |-> Cleared]]

Smaller(a, b) == IF a <= b THEN a ELSE b

-----------------------------------------------------------------------------
(* Addressing.                                                             *)

GetIndex(p, id) ==
  LET dif == (id - p.bgn_id) % IdMod
      off == IF id < p.bgn_id THEN dif + p.capacity ELSE dif
  IN  ((p.bgn_id + off) % IdMod) % p.capacity

Get(p, id) == p.windows[GetIndex(p, id)]

LastIndex(p) == GetIndex(p, p.end_id)
Last(p)      == p.windows[LastIndex(p)]

IsValid(w) == w.id # INVALID_ID

(* Mutant: one id too many.                                                *)
ContainsOneMore(p, id) == p.bgn_id <= id /\ id <= (p.bgn_id + p.capacity) % IdMod

(* Mutant: the upper end is computed in 64 bits and does not wrap.         *)
ContainsUnwrapped(p, id) == p.bgn_id <= id /\ id < p.bgn_id + p.capacity

(* wndpool_contains: the upper end is computed in 32 bits and wraps.       *)
Contains(p, id) == p.bgn_id <= id /\ id < (p.bgn_id + p.capacity) % IdMod

(* wndpool_get_count.  The cast to uint8_t cuts nothing off: no more than  *)
(* capacity windows are in use, and capacity is a uint8_t itself.          *)
Count(p) == ((p.end_id - p.bgn_id) % IdMod) + (IF Last(p).size # 0 THEN 1 ELSE 0)

(* Mutant: the bytes not yet stamped are forgotten.                        *)
IsEmptyById(p) == p.end_id = p.bgn_id

IsEmpty(p) == p.end_id = p.bgn_id /\ Last(p).size = 0

(* Mutant: an incomplete window is sent once and not again.                *)
HasIncompleteUnsent(p) ==
  ~IsEmpty(p) /\ 0 < Last(p).size /\ Last(p).size # Payload /\ ~Last(p).is_sent

(* A full window counts as complete even when it was never stamped.        *)
HasIncomplete(p) ==
  ~IsEmpty(p) /\ 0 < Last(p).size /\ Last(p).size # Payload

-----------------------------------------------------------------------------
(* The sending side.                                                       *)

(* The packet in a window as it goes on the wire.                          *)
DataFrame(w) == [type |-> "data", id |-> w.id, from |-> w.from, size |-> w.size]

(* wndpool_update_header: stamp the last window with end_id.               *)
UpdateHeader(p) ==
  [p EXCEPT !.windows[LastIndex(p)] =
     [Last(p) EXCEPT !.id = p.end_id, !.is_acked = FALSE, !.is_sent = TRUE]]

(* Mutants: writing into a window that was sent; into a full pool.         *)
CanWriteSent(p) == Count(p) # p.capacity
CanWriteFull(p) == ~Last(p).is_sent

CanWrite(p) == Count(p) # p.capacity /\ ~Last(p).is_sent

(* Mutant: <= for < when the pool is asked for a free window.              *)
WriteSegWraps(p, pos, n) ==
  LET w    == Last(p)
      seg  == Smaller(n, Payload - w.size)
      fill == [p EXCEPT !.windows[LastIndex(p)] =
                 [w EXCEPT !.from = IF w.size = 0 THEN pos ELSE w.from,
                           !.size = w.size + seg]]
      next == [UpdateHeader(fill) EXCEPT !.end_id = (p.end_id + 1) % IdMod]
  IN  IF w.size + seg = Payload /\ Count(fill) <= p.capacity
      THEN [pool |-> [next EXCEPT !.windows[LastIndex(next)] = Cleared],
            taken |-> seg,
            sent  |-> <<DataFrame(Last(UpdateHeader(fill)))>>]
      ELSE [pool |-> fill, taken |-> seg, sent |-> << >>]

(* One pass of the loop in wndpool_write, with n > 0 bytes left to take,   *)
(* the first of which follows stream position pos.  A window that becomes  *)
(* full is stamped and given to on_done only while the pool has a window   *)
(* to go on with; otherwise on_done sends a packet without a valid header  *)
(* or checksum, which no receiver accepts.                                 *)
WriteSeg(p, pos, n) ==
  LET w    == Last(p)
      seg  == Smaller(n, Payload - w.size)
      grow == [w EXCEPT !.from = IF w.size = 0 THEN pos ELSE w.from,
                        !.size = w.size + seg]
      fill == [p EXCEPT !.windows[LastIndex(p)] = grow]
      next == [UpdateHeader(fill) EXCEPT !.end_id = (p.end_id + 1) % IdMod]
  IN  IF w.size + seg = Payload /\ Count(fill) < p.capacity
      THEN [pool |-> [next EXCEPT !.windows[LastIndex(next)] = Cleared],
            taken |-> seg,
            sent  |-> <<DataFrame(Last(UpdateHeader(fill)))>>]
      ELSE [pool |-> fill, taken |-> seg, sent |-> << >>]

(* wndpool_write of n bytes, 1 <= n <= Payload (mc_comm_send never passes  *)
(* more): at most two passes of its loop.                                  *)
Write(p, pos, n) ==
  LET one == WriteSeg(p, pos, n)
      two == WriteSeg(one.pool, pos + one.taken, n - one.taken)
  IN  IF ~CanWrite(p)       THEN [pool |-> p, taken |-> 0, sent |-> << >>]
      ELSE IF one.taken = n THEN one
      ELSE [pool |-> two.pool, taken |-> one.taken + two.taken,
            sent |-> one.sent \o two.sent]

(* Mutant: the index of the first window does not wrap.                    *)
RemoveFirstNoWrap(p, n) ==
  LET bgn == (p.bgn_id + n) % IdMod
      gone(k) == \E i \in 0 .. n - 1 : k = p.bgn_index + i
  IN  [p EXCEPT !.windows   = [k \in DOMAIN @ |-> IF gone(k) THEN Cleared ELSE @[k]],
                !.bgn_id    = bgn,
                !.bgn_index = @ + n,
                !.end_id    = IF @ < bgn THEN bgn ELSE @]

(* n times remove_first: clear the first window and move on; end_id never  *)
(* stays behind bgn_id.                                                    *)
RemoveFirst(p, n) ==
  LET bgn == (p.bgn_id + n) % IdMod
      gone(k) == \E i \in 0 .. n - 1 : k = (p.bgn_index + i) % p.capacity
  IN  [p EXCEPT !.windows   = [k \in DOMAIN @ |-> IF gone(k) THEN Cleared ELSE @[k]],
                !.bgn_id    = bgn,
                !.bgn_index = (@ + n) % p.capacity,
                !.end_id    = IF @ < bgn THEN bgn ELSE @]

(* Mutant: a window that holds no packet counts as acknowledged, as its    *)
(* flag says.                                                              *)
IsAckedAtAny(p, i) == p.windows[(p.bgn_index + i) % p.capacity].is_acked

(* is_first_acked, for the i-th window from the first one.                 *)
IsAckedAt(p, i) ==
  LET w == p.windows[(p.bgn_index + i) % p.capacity]
  IN  IsValid(w) /\ w.is_acked

(* Mutant: `if' for `while': one acknowledged window is removed at most.   *)
AckedOne(p, n) == n = 1

(* remove_acked stops after n windows: they are valid and acknowledged and *)
(* the next one is not.  A removed window is invalid, so n <= capacity.    *)
AckedRun(p, n) ==
  /\ \A i \in 0 .. n - 1 : IsAckedAt(p, i)
  /\ n < p.capacity => ~IsAckedAt(p, n)

(* wndpool_ack: the one pool it leaves behind (AckedRun holds of one n).   *)
Ack(p, id) ==
  LET a == [p EXCEPT !.windows[GetIndex(p, id)].is_acked = TRUE]
  IN  IF id = p.bgn_id
      THEN {RemoveFirst(a, n) : n \in {i \in 0 .. p.capacity : AckedRun(a, i)}}
      ELSE {a}

-----------------------------------------------------------------------------
(* The receiving side.                                                     *)

(* wndpool_update: the whole packet is copied over the window.  is_sent is *)
(* not touched.                                                            *)
Update(p, f) ==
  [p EXCEPT !.windows[GetIndex(p, f.id)] =
     [id |-> f.id, from |-> f.from, size |-> f.size,
      is_acked |-> TRUE, is_sent |-> @.is_sent]]

(* What a read past the end of the packet returns: no stream position.     *)
Garbage == 0

(* Mutant: a read that takes less than the window drops the rest of it.    *)
ReadDropsRest(p, n) ==
  LET w == Get(p, p.bgn_id)
      m == Smaller(w.size, n)
  IN  IF ~IsAckedAt(p, 0)
      THEN [pool |-> p, bytes |-> << >>]
      ELSE [pool |-> RemoveFirst(p, 1), bytes |-> [i \in 1 .. m |-> w.from + i]]

(* wndpool_read of up to n bytes of the first window, continuing after the *)
(* stored_size bytes earlier reads took.  The subtraction is unsigned: a   *)
(* stored_size beyond the window makes it huge.                            *)
Read(p, n) ==
  LET w   == Get(p, p.bgn_id)
      m   == IF p.stored_size <= w.size THEN Smaller(w.size - p.stored_size, n) ELSE n
      sum == p.stored_size + m
  IN  IF ~IsAckedAt(p, 0)
      THEN [pool |-> p, bytes |-> << >>]
      ELSE [pool |-> IF sum >= w.size
                     THEN RemoveFirst([p EXCEPT !.stored_size = 0], 1)
                     ELSE [p EXCEPT !.stored_size = sum],
            bytes |-> [i \in 1 .. m |-> IF p.stored_size + i <= w.size
                                        THEN w.from + p.stored_size + i
                                        ELSE Garbage]]
=============================================================================
