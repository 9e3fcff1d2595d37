-------------------------------- MODULE Comm --------------------------------
(***************************************************************************)
(* Two endpoints of the reliable link of src/src/io/communication: each    *)
(* one is an mc_comm with a sending pool and a receiving pool, and the     *)
(* io.send / io.recv callbacks of the two meet in a datagram network that  *)
(* loses, duplicates and reorders packets.                                 *)
(*                                                                         *)
(* A step of an endpoint is one iteration of the loop in mc_comm_send,     *)
(* mc_comm_recv or mc_comm_flush, or one mc_comm_update called from the    *)
(* application's own loop while no call is under way.  The endpoint is     *)
(* single-threaded, so such a step runs to its end.                        *)
(*                                                                         *)
(* Abstractions.  Time: whether the retransmission delay of a packet or    *)
(* the 250 ms of an incomplete window have passed, and whether a call has  *)
(* timed out, is a free choice.  Packets: a packet that fails the header   *)
(* or checksum test is read and dropped, so it is an iteration that gets   *)
(* no frame (and a Lose).  An io.send that fails three times is a Lose.    *)
(***************************************************************************)
EXTENDS WindowPool, FiniteSets, Functions

CONSTANTS
  SndCap,      \* windows of a sending pool (config.send.capacity)
  RcvCap,      \* windows of a receiving pool (config.recv.capacity)
  MaxBytes,    \* bound: the bytes each endpoint's application ever sends
  MaxCall,     \* bound: the largest size passed to mc_comm_send / mc_comm_recv
  InitStored   \* what the buffer given to mc_comm_init may hold in stored_size

End == 0 .. 1
Peer(e) == 1 - e

ASSUME CapAssumption   == SndCap \in Nat \ {0} /\ RcvCap \in Nat \ {0}
(* A capacity is a uint8_t, an id 32 bits wide.                            *)
ASSUME RingsAssumption == 2 * SndCap + RcvCap <= IdMod
ASSUME BoundAssumption == MaxBytes \in [End -> Nat] /\ MaxCall \in Nat \ {0}
(* The code leaves any uint16_t there; more than a payload, for which the  *)
(* first read copies from behind the window, is not modelled.              *)
ASSUME StoredAssumption == InitStored \subseteq 0 .. Payload

VARIABLES
  snd,        \* snd[e]: the sending pool of endpoint e
  rcv,        \* rcv[e]: its receiving pool
  net,        \* net[e]: the frames under way to e
  call,       \* call[e]: the API call e is in, and the bytes it has left to do
  accepted,   \* accepted[e]: bytes e's application got accepted by mc_comm_send
  delivered,  \* delivered[e]: the stream positions e's application has received
  log         \* log[e]: history: the content stamped with id 0, 1, 2, ...

vars == <<snd, rcv, net, call, accepted, delivered, log>>

NoFrame == [type |-> "none"]
AckFrame(id) == [type |-> "ack", id |-> id, from |-> 0, size |-> 0]

Frame == [type : {"data", "ack"}, id : Ids, from : Nat, size : 0 .. Payload]

Idle == [fn |-> "idle", left |-> 0]
(* mc_comm_flush has returned true and no call has been made since.        *)
Flushed == [fn |-> "flushed", left |-> 0]
Call == [fn : {"idle", "flushed", "send", "recv", "flush"}, left : 0 .. MaxCall]

Content == [from : Nat, size : 1 .. Payload]

TypeOK ==
  /\ snd \in [End -> Pool(SndCap)]
  /\ rcv \in [End -> Pool(RcvCap)]
  /\ net \in [End -> SUBSET Frame]
  /\ call \in [End -> Call]
  /\ accepted \in [End -> Nat]
  /\ delivered \in [End -> Seq(Nat)]
  /\ log \in [End -> Seq(Content)]

Init ==
  /\ snd = [e \in End |-> InitPool(SndCap, 0)]
  /\ \E stored \in [End -> InitStored] :
       rcv = [e \in End |-> InitPool(RcvCap, stored[e])]
  /\ net = [e \in End |-> {}]
  /\ call = [e \in End |-> Idle]
  /\ accepted = [e \in End |-> 0]
  /\ delivered = [e \in End |-> << >>]
  /\ log = [e \in End |-> << >>]

-----------------------------------------------------------------------------
(* mc_comm_update.                                                         *)

(* Mutants: a packet is acknowledged though there is no window for it; an  *)
(* old one is not acknowledged again.                                      *)
ProtocolRecvAcksAll(s, r, f) ==
  IF f = NoFrame
  THEN {[snd |-> s, rcv |-> r, out |-> {}]}
  ELSE IF f.type = "ack"
  THEN {[snd |-> p, rcv |-> r, out |-> {}] :
          p \in IF Contains(s, f.id) THEN Ack(s, f.id) ELSE {s}}
  ELSE {[snd |-> s, rcv |-> IF Contains(r, f.id) THEN Update(r, f) ELSE r,
         out |-> {AckFrame(f.id)}]}
ProtocolRecvForgets(s, r, f) ==
  IF f = NoFrame
  THEN {[snd |-> s, rcv |-> r, out |-> {}]}
  ELSE IF f.type = "ack"
  THEN {[snd |-> p, rcv |-> r, out |-> {}] :
          p \in IF Contains(s, f.id) THEN Ack(s, f.id) ELSE {s}}
  ELSE IF Contains(r, f.id)
  THEN {[snd |-> s, rcv |-> Update(r, f), out |-> {AckFrame(f.id)}]}
  ELSE {[snd |-> s, rcv |-> r, out |-> {}]}

(* protocol_recv: what the frame does to the pools, and the answer to it.  *)
ProtocolRecv(s, r, f) ==
  IF f = NoFrame
  THEN {[snd |-> s, rcv |-> r, out |-> {}]}
  ELSE IF f.type = "ack"
  THEN IF Contains(s, f.id)
       THEN {[snd |-> p, rcv |-> r, out |-> {}] : p \in Ack(s, f.id)}
       ELSE {[snd |-> s, rcv |-> r, out |-> {}]}
  ELSE IF f.id < r.bgn_id
  THEN {[snd |-> s, rcv |-> r, out |-> {AckFrame(f.id)}]}
  ELSE IF Contains(r, f.id)
  THEN {[snd |-> s, rcv |-> Update(r, f), out |-> {AckFrame(f.id)}]}
  ELSE {[snd |-> s, rcv |-> r, out |-> {}]}

(* Mutant: the first packet in flight is never sent again.                 *)
UnackedAfterFirst(s) == {id \in s.bgn_id + 1 .. s.end_id - 1 : ~Get(s, id).is_acked}

(* protocol_send_unacked: the packets that are stamped, in flight and not  *)
(* acknowledged.                                                           *)
Unacked(s) == {id \in s.bgn_id .. s.end_id - 1 : ~Get(s, id).is_acked}

(* send_stale_incomplete: an incomplete window is stamped once, and sent   *)
(* again on every call until it is acknowledged and removed.               *)
Stamp(s) == IF Last(s).is_sent THEN s ELSE UpdateHeader(s)

ContentOf(w) == [from |-> w.from, size |-> w.size]

(* mc_comm_update at endpoint e, whose pools are s and r: io_recv yields f *)
(* (keep: the network keeps a copy of it), then the packets due are sent   *)
(* again, then the incomplete window if it is stale.                       *)
CommUpdate(e, s, r, f, keep, due, stale) ==
  \E res \in ProtocolRecv(s, r, f) :
    LET send  == stale /\ HasIncomplete(res.snd)
        s2    == IF send THEN Stamp(res.snd) ELSE res.snd
        again == {DataFrame(Get(res.snd, id)) : id \in Unacked(res.snd) \cap due}
        inc   == IF send THEN {DataFrame(Last(s2))} ELSE {}
    IN  /\ snd' = [snd EXCEPT ![e] = s2]
        /\ rcv' = [rcv EXCEPT ![e] = res.rcv]
        /\ net' = [net EXCEPT ![e] = IF keep THEN @ ELSE @ \ {f},
                              ![Peer(e)] = @ \cup res.out \cup again \cup inc]
        /\ log' = IF send /\ ~Last(res.snd).is_sent
                  THEN [log EXCEPT ![e] = Append(@, ContentOf(Last(s2)))]
                  ELSE log

(* The update of a loop in which nothing else happens to the pools.        *)
Pump(e, f, keep, due, stale) == CommUpdate(e, snd[e], rcv[e], f, keep, due, stale)

-----------------------------------------------------------------------------
(* The API.  A loop iteration has the choices of the update it may make.   *)

NoCall(e) == call[e].fn \in {"idle", "flushed"}

Return(e) == call' = [call EXCEPT ![e] = Idle]

(* The application's own loop calls mc_comm_update.                        *)
Poll(e, f, keep, due, stale) ==
  /\ NoCall(e)
  /\ Pump(e, f, keep, due, stale)
  /\ UNCHANGED <<call, accepted, delivered>>

CallSend(e, n) ==
  /\ NoCall(e)
  /\ accepted[e] + n <= MaxBytes[e]
  /\ call' = [call EXCEPT ![e] = [fn |-> "send", left |-> n]]
  /\ UNCHANGED <<snd, rcv, net, accepted, delivered, log>>

(* The timeout of mc_comm_send is tested at the end of an iteration.       *)
SendWrites(e, timedOut) ==
  LET seg == Smaller(call[e].left, Payload)
      w   == Write(snd[e], accepted[e], seg)
  IN  /\ call[e].fn = "send"
      /\ w.taken # 0
      /\ snd' = [snd EXCEPT ![e] = w.pool]
      /\ net' = [net EXCEPT ![Peer(e)] = @ \cup Range(w.sent)]
      /\ log' = [log EXCEPT ![e] = @ \o [i \in DOMAIN w.sent |-> ContentOf(w.sent[i])]]
      /\ accepted' = [accepted EXCEPT ![e] = @ + seg]
      /\ IF timedOut \/ call[e].left = seg
         THEN Return(e)
         ELSE call' = [call EXCEPT ![e].left = @ - seg]
      /\ UNCHANGED <<rcv, delivered>>

SendWaits(e, f, keep, due, stale, timedOut) ==
  /\ call[e].fn = "send"
  /\ Write(snd[e], accepted[e], Smaller(call[e].left, Payload)).taken = 0
  /\ Pump(e, f, keep, due, stale)
  /\ IF timedOut THEN Return(e) ELSE UNCHANGED call
  /\ UNCHANGED <<accepted, delivered>>

(* An application asks for no more than its peer ever sends.               *)
CallRecv(e, n) ==
  /\ NoCall(e)
  /\ Len(delivered[e]) + n <= MaxBytes[Peer(e)]
  /\ call' = [call EXCEPT ![e] = [fn |-> "recv", left |-> n]]
  /\ UNCHANGED <<snd, rcv, net, accepted, delivered, log>>

RecvReads(e) ==
  LET r == Read(rcv[e], call[e].left)
      m == Len(r.bytes)
  IN  /\ call[e].fn = "recv"
      /\ m # 0
      /\ rcv' = [rcv EXCEPT ![e] = r.pool]
      /\ delivered' = [delivered EXCEPT ![e] = @ \o r.bytes]
      /\ IF call[e].left = m
         THEN Return(e)
         ELSE call' = [call EXCEPT ![e].left = @ - m]
      /\ UNCHANGED <<snd, net, accepted, log>>

RecvWaits(e, f, keep, due, stale) ==
  LET r == Read(rcv[e], call[e].left)
  IN  /\ call[e].fn = "recv"
      /\ Len(r.bytes) = 0
      /\ CommUpdate(e, snd[e], r.pool, f, keep, due, stale)
      /\ UNCHANGED <<call, accepted, delivered>>

(* The timeout of mc_comm_recv is tested at the start of an iteration.     *)
RecvTimesOut(e) ==
  /\ call[e].fn = "recv"
  /\ Return(e)
  /\ UNCHANGED <<snd, rcv, net, accepted, delivered, log>>

CallFlush(e) ==
  /\ NoCall(e)
  /\ call' = [call EXCEPT ![e] = [fn |-> "flush", left |-> 0]]
  /\ UNCHANGED <<snd, rcv, net, accepted, delivered, log>>

(* Flushing waits for the receiving pool too, which only mc_comm_recv      *)
(* empties.                                                                *)
FlushWaits(e, f, keep, due, stale, timedOut) ==
  /\ call[e].fn = "flush"
  /\ ~IsEmpty(snd[e]) \/ ~IsEmpty(rcv[e])
  /\ Pump(e, f, keep, due, stale)
  /\ IF timedOut THEN Return(e) ELSE UNCHANGED call
  /\ UNCHANGED <<accepted, delivered>>

FlushReturns(e) ==
  /\ call[e].fn = "flush"
  /\ IsEmpty(snd[e]) /\ IsEmpty(rcv[e])
  /\ call' = [call EXCEPT ![e] = Flushed]
  /\ UNCHANGED <<snd, rcv, net, accepted, delivered, log>>

(* An iteration that makes an update, in whatever call.                    *)
Updates(e, f, keep, due, stale, timedOut) ==
  \/ Poll(e, f, keep, due, stale)
  \/ SendWaits(e, f, keep, due, stale, timedOut)
  \/ RecvWaits(e, f, keep, due, stale)
  \/ FlushWaits(e, f, keep, due, stale, timedOut)

(* The network loses a frame.                                              *)
Lose(e, f) ==
  /\ net' = [net EXCEPT ![e] = @ \ {f}]
  /\ UNCHANGED <<snd, rcv, call, accepted, delivered, log>>

(* A step of endpoint e, or the loss of a frame under way to it.           *)
Step(e) ==
  \/ \E f \in net[e] \cup {NoFrame}, keep, stale, timedOut \in BOOLEAN,
        due \in SUBSET (snd[e].bgn_id .. snd[e].end_id - 1) :
       Updates(e, f, keep, due, stale, timedOut)
  \/ \E n \in 1 .. MaxCall : CallSend(e, n) \/ CallRecv(e, n)
  \/ \E timedOut \in BOOLEAN : SendWrites(e, timedOut)
  \/ RecvReads(e)
  \/ RecvTimesOut(e)
  \/ CallFlush(e)
  \/ FlushReturns(e)
  \/ \E f \in net[e] : Lose(e, f)

Next == \E e \in End : Step(e)

Spec == Init /\ [][Next]_vars

-----------------------------------------------------------------------------
(* Properties.                                                             *)

(* The receiving pool q holds packet id, or has already handed it over.    *)
Received(q, id) ==
  id < q.bgn_id \/ \E k \in DOMAIN q.windows : IsValid(q.windows[k]) /\ q.windows[k].id = id

(* mc_comm_recv hands over exactly the bytes the peer's mc_comm_send       *)
(* accepted, each once and in order (api.md:112), whatever the network     *)
(* did.                                                                    *)
InOrderDelivery ==
  \A e \in End :
    /\ Len(delivered[e]) <= accepted[Peer(e)]
    /\ \A i \in DOMAIN delivered[e] : delivered[e][i] = i

(* The sender forgets a packet, or stops sending it again, only when the   *)
(* peer has it (protocol_recv, wndpool_ack, remove_acked).                 *)
AckedIsReceived ==
  \A e \in End : \A id \in 0 .. Len(log[e]) - 1 :
    \/ id < snd[e].bgn_id
    \/ \E k \in DOMAIN snd[e].windows :
         LET w == snd[e].windows[k] IN IsValid(w) /\ w.id = id /\ w.is_acked
    => Received(rcv[Peer(e)], id)

(* A packet that was stamped and not yet removed sits in its window, so    *)
(* that it can be sent again (protocol_send_unacked); the window of the    *)
(* bytes not yet stamped is none of these.                                 *)
RetainedUntilRemoved ==
  \A e \in End :
    /\ \A id \in snd[e].bgn_id .. snd[e].end_id - 1 : Get(snd[e], id).id = id
    /\ Last(snd[e]).id \in {snd[e].end_id, INVALID_ID}
    /\ snd[e].end_id - snd[e].bgn_id < SndCap

(* One packet id stands for one content for ever: what is under way and    *)
(* what the two pools hold under an id is what was first stamped with it.  *)
(* A packet whose stamped window grew afterwards would break this.         *)
OneContentPerId ==
  \A e \in End :
    LET Logged(x) == x.id < Len(log[e]) /\ ContentOf(x) = log[e][x.id + 1]
    IN  /\ \A f \in net[Peer(e)] : f.type = "data" => Logged(f)
        /\ \A w \in Range(snd[e].windows) \cup Range(rcv[Peer(e)].windows) :
             IsValid(w) => Logged(w)

(* The first id of a pool only moves on: no frame, however late, brings    *)
(* back one that remove_first is past.                                     *)
NoTurningBack ==
  [][\A e \in End : /\ snd[e].bgn_id <= snd'[e].bgn_id
                   /\ rcv[e].bgn_id <= rcv'[e].bgn_id]_vars

(* Between two calls the first packet in flight is never one that has been *)
(* acknowledged: the "Error: first is acked but not removed" of            *)
(* mc_protocol.c:92 does not happen.                                       *)
FirstIsUnacked ==
  \A e \in End : ~IsAckedAt(snd[e], 0)

(* The loop of wndpool_write ends: two passes take every byte mc_comm_send *)
(* passes, also when an earlier call left a full window unstamped.         *)
WriteTakesAll ==
  \A e \in End : \A n \in 1 .. Payload :
    CanWrite(snd[e]) => Write(snd[e], accepted[e], n).taken = n

(* mc_comm_flush returns true only when the peer has every byte accepted   *)
(* so far (api.md:157).                                                    *)
FlushedIsReceived ==
  \A e \in End :
    call[e] = Flushed =>
      /\ \A id \in 0 .. Len(log[e]) - 1 : Received(rcv[Peer(e)], id)
      /\ accepted[e] = IF log[e] = << >> THEN 0
                       ELSE log[e][Len(log[e])].from + log[e][Len(log[e])].size
=============================================================================
