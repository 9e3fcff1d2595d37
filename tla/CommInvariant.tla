--------------------------- MODULE CommInvariant ---------------------------
(***************************************************************************)
(* Why the link loses nothing: the invariant that ties the packet ids, the *)
(* rings and the flags of the two pools of a direction to each other and   *)
(* to the frames under way.                                                *)
(***************************************************************************)
EXTENDS Comm

(* The window that the ring keeps for packet id.                           *)
Slot(p, id) == p.windows[id % p.capacity]

Span(p) == p.bgn_id .. p.bgn_id + p.capacity - 1

(* A sending pool after N packets were stamped: the packets in flight are  *)
(* in their windows, the others are clear but for the data of the window   *)
(* being filled.                                                           *)
SndRing(s, N) ==
  /\ s.bgn_id <= s.end_id /\ s.end_id < s.bgn_id + s.capacity
  /\ s.bgn_index = s.bgn_id % s.capacity
  /\ N = s.end_id \/ N = s.end_id + 1
  /\ \A id \in Span(s) : id < N  => Slot(s, id).id = id /\ Slot(s, id).is_sent
  /\ \A id \in Span(s) : id >= N => Slot(s, id).id = INVALID_ID /\ ~Slot(s, id).is_sent
  /\ \A id \in Span(s) : id >= N /\ id # s.end_id => Slot(s, id).size = 0

(* Between two calls the first packet is not an acknowledged one.          *)
SndInv(s, N) == SndRing(s, N) /\ ~IsAckedAt(s, 0)

(* An acknowledged window is that of its id, or of one that was removed.   *)
AckedInPlace(s) ==
  \A k \in DOMAIN s.windows :
    LET w == s.windows[k]
    IN  IsValid(w) /\ w.is_acked =>
          w.id < s.bgn_id \/ (w.id \in Span(s) /\ k = w.id % s.capacity)

(* A sending pool that has used up the ids: end_id has begun again with 0  *)
(* and is behind bgn_id, which is so close to the last id that             *)
(* wndpool_contains holds of no id and no acknowledgement counts.  The     *)
(* last window may have been that of a packet in flight.                   *)
SndSpent(s, N) ==
  /\ s.end_id < s.bgn_id /\ s.end_id + IdMod < s.bgn_id + s.capacity
  /\ N = s.end_id + IdMod + (IF Last(s).is_sent THEN 1 ELSE 0)
  /\ Last(s).id = IF Last(s).is_sent THEN s.end_id ELSE INVALID_ID
  /\ AckedInPlace(s) /\ ~IsAckedAt(s, 0)

SenderInv(s, N) == SndInv(s, N) \/ SndSpent(s, N)

(* A receiving pool whose peer has stamped N packets.                      *)
RcvInv(r, N) ==
  /\ r.bgn_id <= N
  /\ r.bgn_index = r.bgn_id % r.capacity
  /\ \A id \in Span(r) : Slot(r, id).id = INVALID_ID \/ (Slot(r, id).id = id /\ id < N)

(* The bytes accepted and not yet stamped.                                 *)
Pending(s) == IF Last(s).is_sent THEN 0 ELSE Last(s).size

(* Packet id was acknowledged; packet id is at the receiver.               *)
Acked(s, id) ==
  \/ id < s.bgn_id
  \/ id # INVALID_ID /\ id \in Span(s) /\ Slot(s, id).id = id /\ Slot(s, id).is_acked
Held(r, id) ==
  id < r.bgn_id \/ (id # INVALID_ID /\ id \in Span(r) /\ Slot(r, id).id = id)

(* The direction from a sending pool s to a receiving pool r with the data *)
(* frames of `out' under way and the acknowledgements of `back' returning. *)
DirectionInv(s, r, N, out, back) ==
  /\ SenderInv(s, N)
  /\ RcvInv(r, N)
  /\ \A f \in out : f.type = "data" => f.id < N
  /\ \A f \in back : f.type = "ack" => Held(r, f.id)
  /\ \A id \in 0 .. N - 1 : Acked(s, id) => Held(r, id)

(* The inductive invariant of the link, for both directions: no packet is  *)
(* forgotten by wndpool_ack before protocol_recv of the peer has stored    *)
(* it, and no two ids of a ring meet in one window.                        *)
LinkInv ==
  /\ TypeOK
  /\ \A e \in End :
       DirectionInv(snd[e], rcv[Peer(e)], Len(log[e]), net[Peer(e)], net[e])
=============================================================================
