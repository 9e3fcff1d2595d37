---------------------------- MODULE CommContent ----------------------------
(***************************************************************************)
(* Why the link delivers the right bytes: the invariant that ties what the *)
(* windows, the frames under way and the applications hold to the stream   *)
(* of the sender, on top of the invariant of the ids in CommInvariant.     *)
(***************************************************************************)
EXTENDS CommInvariant, CommRefinement

(* The packets stamped in L are consecutive pieces of the stream.          *)
Consecutive(L) == \A i \in DOMAIN L : L[i].from = StartOf(L, i - 1)

(* A sending pool after L was stamped and a bytes were accepted: a packet  *)
(* in flight keeps the content it was stamped with, and the window being   *)
(* filled goes on where the last packet ended.  Once the ids are used up a *)
(* packet in flight may lose its window, and is not sent again.            *)
SndContent(s, L, a) ==
  /\ s.bgn_id <= s.end_id =>
       \A id \in Span(s) : id < Len(L) => ContentOf(Slot(s, id)) = L[id + 1]
  /\ Pending(s) # 0 => Last(s).from = StartOf(L, Len(L))
  /\ a = StartOf(L, Len(L)) + Pending(s)

(* A receiving pool whose peer stamped L and whose application got D: it   *)
(* got the packets before the first one, and of that one stored_size       *)
(* bytes, but never all of them.                                           *)
RcvContent(r, L, D) ==
  /\ \A id \in Span(r) :
       id # INVALID_ID /\ Slot(r, id).id = id => ContentOf(Slot(r, id)) = L[id + 1]
  /\ r.stored_size # 0 =>
       /\ r.bgn_id # INVALID_ID /\ Slot(r, r.bgn_id).id = r.bgn_id
       /\ r.stored_size < Slot(r, r.bgn_id).size
  /\ Len(D) = StartOf(L, r.bgn_id) + r.stored_size
  /\ \A i \in DOMAIN D : D[i] = i

(* A data frame carries what was stamped with its id, unless the id was    *)
(* stamped twice.                                                          *)
OutContent(out, L) ==
  \A f \in out : f.type = "data" => ContentOf(f) = L[f.id + 1] \/ f.id + IdMod < Len(L)

(* After a flush nothing waits to be stamped or acknowledged.              *)
FlushContent(c, s, L) == c = Flushed => s.bgn_id = Len(L) /\ Pending(s) = 0

(* The direction from a sending pool s, after L was stamped and a bytes    *)
(* accepted, to a receiving pool r, after D was delivered.                 *)
DirectionContent(s, r, L, a, D, out, c) ==
  /\ Consecutive(L)
  /\ SndContent(s, L, a)
  /\ RcvContent(r, L, D)
  /\ OutContent(out, L)
  /\ FlushContent(c, s, L)

(* The invariant, for both directions.  Between two calls and within them  *)
(* what the pools of a direction hold are the bytes accepted and not yet   *)
(* delivered, each in its place.                                           *)
ContentInv ==
  \A e \in End : DirectionContent(snd[e], rcv[Peer(e)], log[e], accepted[e],
                                 delivered[Peer(e)], net[Peer(e)], call[e])
=============================================================================
