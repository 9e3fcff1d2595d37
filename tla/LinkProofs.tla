----------------------------- MODULE LinkProofs -----------------------------
(***************************************************************************)
(* Type correctness of the link, its invariant, and what follows from it.  *)
(***************************************************************************)
EXTENDS WindowPoolProofs

USE IdModAssumption, PayloadAssumption, CapAssumption, BoundAssumption, StoredAssumption

LEMMA RingsFit == SndCap <= IdMod /\ RcvCap <= IdMod /\ SndCap + SndCap + RcvCap <= IdMod
  BY RingsAssumption

(* ----------------------------------------------------------------------- *)
(* Type correctness.                                                       *)

LEMMA PeerType == ASSUME NEW e \in End PROVE Peer(e) \in End /\ Peer(e) # e /\ Peer(Peer(e)) = e
  BY DEF End, Peer

LEMMA InitType == Init => TypeOK
  <1> SUFFICES ASSUME Init PROVE TypeOK
    OBVIOUS
  <1>0. 0 \in Ids
    BY DEF Ids
  <1>1. \A cap \in Nat \ {0} : \A stored \in 0 .. Payload : InitPool(cap, stored) \in Pool(cap)
    BY <1>0, ClearedType DEF InitPool, Pool
  <1>2. snd \in [End -> Pool(SndCap)]
    BY <1>1 DEF Init, End
  <1>3. rcv \in [End -> Pool(RcvCap)]
    <2>1. PICK stored \in [End -> InitStored] : rcv = [e \in End |-> InitPool(RcvCap, stored[e])]
      BY DEF Init
    <2>2. \A e \in End : stored[e] \in 0 .. Payload
      BY <2>1
    <2> QED
      BY <1>1, <2>1, <2>2
  <1>4. call \in [End -> Call]
    BY DEF Init, Idle, Call
  <1> QED
    BY <1>2, <1>3, <1>4 DEF Init, TypeOK

LEMMA CallType ==
  /\ Idle \in Call /\ Flushed \in Call /\ [fn |-> "flush", left |-> 0] \in Call
  /\ \A n \in 0 .. MaxCall : [fn |-> "send", left |-> n] \in Call /\ [fn |-> "recv", left |-> n] \in Call
  BY DEF Idle, Flushed, Call

(* A call goes on with the bytes it has left.                              *)
LEMMA CallGoesOn ==
  ASSUME call \in [End -> Call], NEW e \in End, NEW m \in 0 .. call[e].left
  PROVE  [call EXCEPT ![e].left = @ - m] \in [End -> Call]
  <1> DEFINE c == [call[e] EXCEPT !.left = call[e].left - m]
  <1>1. call[e] \in Call /\ call[e].left \in 0 .. MaxCall
    BY DEF Call
  <1>2. call[e].left - m \in 0 .. MaxCall
    BY <1>1
  <1>3. c \in Call
    BY <1>1, <1>2 DEF Call
  <1>4. [call EXCEPT ![e].left = @ - m] = [call EXCEPT ![e] = c]
    OBVIOUS
  <1> QED
    BY <1>3, <1>4

LEMMA StampType ==
  ASSUME NEW s \in Pool(SndCap)
  PROVE  Stamp(s) \in Pool(SndCap) /\ Last(Stamp(s)) \in Window
  <1>1. Stamp(s) \in Pool(SndCap)
    BY UpdateHeaderType DEF Stamp
  <1> QED
    BY <1>1, LastType

(* Stamping keeps the size of the window.                                  *)
LEMMA StampSize ==
  ASSUME NEW s \in Pool(SndCap) PROVE Last(Stamp(s)).size = Last(s).size
  <1>1. Last(s) \in Window
    BY LastType
  <1>2. Last(UpdateHeader(s)).size = Last(s).size
    BY <1>1, UpdateHeaderLast DEF Window
  <1> QED
    BY <1>2 DEF Stamp

LEMMA DataFrameType ==
  ASSUME NEW w \in Window PROVE DataFrame(w) \in Frame
  BY DEF DataFrame, Frame, Window

LEMMA AckFrameType == ASSUME NEW id \in Ids PROVE AckFrame(id) \in Frame
  BY DEF AckFrame, Frame

LEMMA ProtocolRecvType ==
  ASSUME NEW s \in Pool(SndCap), NEW r \in Pool(RcvCap), NEW f \in Frame \cup {NoFrame},
         NEW res \in ProtocolRecv(s, r, f)
  PROVE  res.snd \in Pool(SndCap) /\ res.rcv \in Pool(RcvCap) /\ res.out \subseteq Frame
  <1>1. CASE f = NoFrame
    BY <1>1 DEF ProtocolRecv
  <1>2. CASE f # NoFrame
    <2>1. f \in Frame /\ f.id \in Ids /\ f.from \in Nat /\ f.size \in 0 .. Payload
      BY <1>2 DEF Frame
    <2>2. AckFrame(f.id) \in Frame
      BY <2>1, AckFrameType
    <2>3. CASE f.type = "ack"
      <3>1. CASE Contains(s, f.id)
        <4>1. PICK p \in Ack(s, f.id) : res = [snd |-> p, rcv |-> r, out |-> {}]
          BY <1>2, <2>3, <3>1 DEF ProtocolRecv
        <4> QED
          BY <2>1, <4>1, AckType
      <3>2. CASE ~Contains(s, f.id)
        BY <1>2, <2>3, <3>2 DEF ProtocolRecv
      <3> QED
        BY <3>1, <3>2
    <2>4. CASE f.type # "ack"
      <3>1. Update(r, f) \in Pool(RcvCap)
        BY <2>1, UpdateType
      <3>2. res \in {[snd |-> s, rcv |-> r, out |-> {AckFrame(f.id)}],
                     [snd |-> s, rcv |-> Update(r, f), out |-> {AckFrame(f.id)}],
                     [snd |-> s, rcv |-> r, out |-> {}]}
        BY <1>2, <2>4 DEF ProtocolRecv
      <3> QED
        BY <2>2, <3>1, <3>2
    <2> QED
      BY <2>3, <2>4
  <1> QED
    BY <1>1, <1>2

(* The pool after send_stale_incomplete, the frames of an update, and what *)
(* it logs, in terms of the pool x that protocol_recv left.                *)
Stamps(x, stale)     == stale /\ HasIncomplete(x)
AfterStale(x, stale) == IF Stamps(x, stale) THEN Stamp(x) ELSE x
Resent(x, due)       == {DataFrame(Get(x, id)) : id \in Unacked(x) \cap due}
StaleFrame(x, stale) == IF Stamps(x, stale) THEN {DataFrame(Last(Stamp(x)))} ELSE {}

(* What an update makes of the outcome res of protocol_recv.               *)
Answers(e, res, f, keep, due, stale) ==
  /\ snd' = [snd EXCEPT ![e] = AfterStale(res.snd, stale)]
  /\ rcv' = [rcv EXCEPT ![e] = res.rcv]
  /\ net' = [net EXCEPT
               ![e] = IF keep THEN @ ELSE @ \ {f},
               ![Peer(e)] = @ \cup res.out \cup Resent(res.snd, due)
                              \cup StaleFrame(res.snd, stale)]
  /\ log' = IF Stamps(res.snd, stale) /\ ~Last(res.snd).is_sent
            THEN [log EXCEPT ![e] = Append(@, ContentOf(Last(Stamp(res.snd))))]
            ELSE log

(* Every iteration that makes an update is protocol_recv on the pools,     *)
(* after at most one empty read, and then the two ways to send again.      *)
LEMMA UpdateStep ==
  ASSUME NEW e \in End, NEW f, NEW keep \in BOOLEAN, NEW stale \in BOOLEAN,
         NEW timedOut \in BOOLEAN, NEW due,
         Updates(e, f, keep, due, stale, timedOut)
  PROVE  /\ accepted' = accepted /\ delivered' = delivered
         /\ \E r, res :
              /\ res \in ProtocolRecv(snd[e], r, f)
              /\ \/ r = rcv[e]
                 \/ /\ Len(Read(rcv[e], call[e].left).bytes) = 0
                    /\ call[e].fn = "recv"
                    /\ r = Read(rcv[e], call[e].left).pool
              /\ Answers(e, res, f, keep, due, stale)
  <1> USE DEF CommUpdate, Answers, AfterStale, Resent, StaleFrame, Stamps
  <1>1. CASE RecvWaits(e, f, keep, due, stale)
    BY <1>1 DEF RecvWaits
  <1>2. CASE Poll(e, f, keep, due, stale)
    BY <1>2 DEF Poll, Pump
  <1>3. CASE SendWaits(e, f, keep, due, stale, timedOut)
    BY <1>3 DEF SendWaits, Pump
  <1>4. CASE FlushWaits(e, f, keep, due, stale, timedOut)
    BY <1>4 DEF FlushWaits, Pump
  <1> QED
    BY <1>1, <1>2, <1>3, <1>4 DEF Updates

LEMMA UpdateFramesType ==
  ASSUME NEW x \in Pool(SndCap), NEW stale \in BOOLEAN, NEW due
  PROVE  /\ AfterStale(x, stale) \in Pool(SndCap)
         /\ Resent(x, due) \subseteq Frame
         /\ StaleFrame(x, stale) \subseteq Frame
         /\ Stamps(x, stale) => ContentOf(Last(Stamp(x))) \in Content
  <1>1. AfterStale(x, stale) \in Pool(SndCap)
    BY StampType DEF AfterStale
  <1>2. Resent(x, due) \subseteq Frame
    <2>0. x.bgn_id \in Ids /\ x.end_id \in Ids
      BY DEF Pool
    <2>1. \A id \in Unacked(x) : id \in Ids
      BY <2>0 DEF Unacked, Ids
    <2>2. \A id \in Unacked(x) : Get(x, id) \in Window
      BY <2>1, IndexType DEF Get
    <2> QED
      BY <2>2, DataFrameType DEF Resent
  <1>3. StaleFrame(x, stale) \subseteq Frame
    BY StampType, DataFrameType DEF StaleFrame
  <1>4. ASSUME Stamps(x, stale) PROVE ContentOf(Last(Stamp(x))) \in Content
    <2>1. Last(Stamp(x)) \in Window /\ Last(Stamp(x)).size = Last(x).size
      BY StampType, StampSize
    <2>2. Last(x).size > 0
      BY <1>4 DEF Stamps, HasIncomplete
    <2> QED
      BY <2>1, <2>2 DEF ContentOf, Content, Window
  <1> QED
    BY <1>1, <1>2, <1>3, <1>4

LEMMA TypeStep == TypeOK /\ [Next]_vars => TypeOK'
  <1> SUFFICES ASSUME TypeOK, [Next]_vars PROVE TypeOK'
    OBVIOUS
  <1>1. CASE UNCHANGED vars
    BY <1>1 DEF vars, TypeOK
  <1>2. ASSUME NEW e \in End, NEW f \in net[e] \cup {NoFrame}, NEW keep \in BOOLEAN,
               NEW stale \in BOOLEAN, NEW timedOut \in BOOLEAN,
               NEW due \in SUBSET (snd[e].bgn_id .. snd[e].end_id - 1),
               Updates(e, f, keep, due, stale, timedOut)
        PROVE  TypeOK'
    <2>1. snd[e] \in Pool(SndCap) /\ rcv[e] \in Pool(RcvCap) /\ call[e] \in Call
      BY DEF TypeOK
    <2>2. call' \in [End -> Call]
      BY <1>2, CallType DEF TypeOK, Updates, Poll, SendWaits, RecvWaits, FlushWaits, Return
    <2>3. accepted' = accepted /\ delivered' = delivered
      BY <1>2, UpdateStep
    <2>4. PICK r, res :
            /\ res \in ProtocolRecv(snd[e], r, f)
            /\ r = rcv[e] \/ r = Read(rcv[e], call[e].left).pool
            /\ Answers(e, res, f, keep, due, stale)
      BY <1>2, UpdateStep
    <2>5. /\ snd' = [snd EXCEPT ![e] = AfterStale(res.snd, stale)]
          /\ rcv' = [rcv EXCEPT ![e] = res.rcv]
          /\ net' = [net EXCEPT
                       ![e] = IF keep THEN @ ELSE @ \ {f},
                       ![Peer(e)] = @ \cup res.out \cup Resent(res.snd, due)
                                      \cup StaleFrame(res.snd, stale)]
          /\ log' = IF Stamps(res.snd, stale) /\ ~Last(res.snd).is_sent
                    THEN [log EXCEPT ![e] = Append(@, ContentOf(Last(Stamp(res.snd))))]
                    ELSE log
      BY <2>4 DEF Answers
    <2>6. r \in Pool(RcvCap)
      <3>1. call[e].left \in Nat
        BY <2>1 DEF Call
      <3> QED
        BY <2>1, <2>4, <3>1, ReadType
    <2>7. f \in Frame \cup {NoFrame}
      BY DEF TypeOK
    <2>8. res.snd \in Pool(SndCap) /\ res.rcv \in Pool(RcvCap) /\ res.out \subseteq Frame
      BY <2>1, <2>4, <2>6, <2>7, ProtocolRecvType
    <2>9. snd' \in [End -> Pool(SndCap)] /\ rcv' \in [End -> Pool(RcvCap)]
      BY <2>5, <2>8, UpdateFramesType DEF TypeOK
    <2>10. net' \in [End -> SUBSET Frame]
      <3>1. Resent(res.snd, due) \subseteq Frame /\ StaleFrame(res.snd, stale) \subseteq Frame
        BY <2>8, UpdateFramesType
      <3> QED
        BY <2>5, <2>8, <3>1, PeerType DEF TypeOK
    <2>11. log' \in [End -> Seq(Content)]
      <3>1. Stamps(res.snd, stale) => ContentOf(Last(Stamp(res.snd))) \in Content
        BY <2>8, UpdateFramesType
      <3>2. \A s \in Seq(Content), c \in Content : Append(s, c) \in Seq(Content)
        OBVIOUS
      <3> QED
        BY <2>5, <3>1, <3>2 DEF TypeOK
    <2> QED
      BY <2>2, <2>3, <2>9, <2>10, <2>11 DEF TypeOK
  <1>3. ASSUME NEW e \in End, NEW n \in 1 .. MaxCall, CallSend(e, n) \/ CallRecv(e, n)
        PROVE  TypeOK'
    <2>0. [fn |-> "send", left |-> n] \in Call /\ [fn |-> "recv", left |-> n] \in Call
      BY DEF Call
    <2>1. call' \in [End -> Call]
      BY <1>3, <2>0 DEF CallSend, CallRecv, TypeOK
    <2> QED
      BY <1>3, <2>1 DEF CallSend, CallRecv, TypeOK
  <1>4. ASSUME NEW e \in End, NEW timedOut \in BOOLEAN, SendWrites(e, timedOut)
        PROVE  TypeOK'
    <2> DEFINE seg == Smaller(call[e].left, Payload)
               w   == Write(snd[e], accepted[e], seg)
    <2>1. snd[e] \in Pool(SndCap) /\ call[e] \in Call /\ accepted[e] \in Nat
      BY DEF TypeOK
    <2>2. seg \in 0 .. call[e].left /\ call[e].left \in 0 .. MaxCall
      BY <2>1 DEF Smaller, Call
    <2>3. w.pool \in Pool(SndCap) /\ w.sent \in Seq(FullFrame)
      BY <2>1, <2>2, WriteType
    <2>4. /\ snd' = [snd EXCEPT ![e] = w.pool]
          /\ net' = [net EXCEPT ![Peer(e)] = @ \cup Range(w.sent)]
          /\ log' = [log EXCEPT ![e] = @ \o [i \in DOMAIN w.sent |-> ContentOf(w.sent[i])]]
          /\ accepted' = [accepted EXCEPT ![e] = @ + seg]
          /\ IF timedOut \/ call[e].left = seg
             THEN Return(e) ELSE call' = [call EXCEPT ![e].left = @ - seg]
          /\ UNCHANGED <<rcv, delivered>>
      BY <1>4 DEF SendWrites
    <2> HIDE DEF w
    <2>5. /\ Len(w.sent) \in Nat /\ DOMAIN w.sent = 1 .. Len(w.sent)
          /\ \A i \in DOMAIN w.sent : w.sent[i] \in FullFrame
      BY <2>3
    <2>6. Range(w.sent) \subseteq Frame
      BY <2>5 DEF Range, FullFrame, Frame
    <2>61. \A i \in DOMAIN w.sent : ContentOf(w.sent[i]) \in Content
      BY <2>5 DEF FullFrame, ContentOf, Content
    <2>62. [i \in DOMAIN w.sent |-> ContentOf(w.sent[i])] \in Seq(Content)
      BY <2>5, <2>61
    <2>7. call' \in [End -> Call]
      <3>1. [call EXCEPT ![e].left = @ - seg] \in [End -> Call]
        <4> HIDE DEF seg
        <4> QED
          BY <2>2, CallGoesOn DEF TypeOK
      <3>2. [call EXCEPT ![e] = Idle] \in [End -> Call]
        BY CallType DEF TypeOK
      <3> QED
        BY <2>4, <3>1, <3>2 DEF Return
    <2>8. snd' \in [End -> Pool(SndCap)] /\ accepted' \in [End -> Nat]
      BY <2>1, <2>2, <2>3, <2>4, SMTT(60) DEF TypeOK
    <2>9. net' \in [End -> SUBSET Frame]
      BY <2>4, <2>6 DEF TypeOK
    <2>10. log' \in [End -> Seq(Content)]
      BY <2>4, <2>62 DEF TypeOK
    <2> QED
      BY <2>4, <2>7, <2>8, <2>9, <2>10 DEF TypeOK
  <1>5. ASSUME NEW e \in End, RecvReads(e) PROVE TypeOK'
    <2> DEFINE r == Read(rcv[e], call[e].left)
    <2>1. rcv[e] \in Pool(RcvCap) /\ call[e] \in Call /\ call[e].left \in 0 .. MaxCall
      BY DEF TypeOK, Call
    <2>2. r.pool \in Pool(RcvCap) /\ r.bytes \in Seq(Nat) /\ Len(r.bytes) \in 0 .. call[e].left
      BY <2>1, ReadType
    <2>3. /\ rcv' = [rcv EXCEPT ![e] = r.pool]
          /\ delivered' = [delivered EXCEPT ![e] = @ \o r.bytes]
          /\ IF call[e].left = Len(r.bytes)
             THEN Return(e) ELSE call' = [call EXCEPT ![e].left = @ - Len(r.bytes)]
          /\ UNCHANGED <<snd, net, accepted, log>>
      BY <1>5 DEF RecvReads
    <2> HIDE DEF r
    <2>4. call' \in [End -> Call]
      <3>1. [call EXCEPT ![e].left = @ - Len(r.bytes)] \in [End -> Call]
        BY <2>2, CallGoesOn DEF TypeOK
      <3>2. [call EXCEPT ![e] = Idle] \in [End -> Call]
        BY CallType DEF TypeOK
      <3> QED
        BY <2>3, <3>1, <3>2 DEF Return
    <2>5. delivered' \in [End -> Seq(Nat)]
      BY <2>2, <2>3 DEF TypeOK
    <2> QED
      BY <2>2, <2>3, <2>4, <2>5 DEF TypeOK
  <1>6. ASSUME NEW e \in End, RecvTimesOut(e) \/ CallFlush(e) \/ FlushReturns(e)
        PROVE  TypeOK'
    <2>1. call' \in [End -> Call]
      BY <1>6, CallType DEF RecvTimesOut, CallFlush, FlushReturns, Return, TypeOK
    <2> QED
      BY <1>6, <2>1 DEF RecvTimesOut, CallFlush, FlushReturns, TypeOK
  <1>7. ASSUME NEW e \in End, NEW f \in net[e], Lose(e, f) PROVE TypeOK'
    BY <1>7 DEF Lose, TypeOK
  <1> QED
    BY <1>1, <1>2, <1>3, <1>4, <1>5, <1>6, <1>7 DEF Next, Step

(* The state of the link keeps its types: no window ever holds more than   *)
(* a payload, no index leaves its ring, and no id its 32 bits              *)
(* (mc_window_pool.c, whose arithmetic is unchecked C).                    *)
THEOREM TypeCorrect == Spec => []TypeOK
  <1>1. Init => TypeOK
    BY InitType
  <1>2. TypeOK /\ [Next]_vars => TypeOK'
    BY TypeStep
  <1> QED
    BY <1>1, <1>2, PTL DEF Spec

-----------------------------------------------------------------------------
(* What the functions of mc_protocol.c do to the invariants of the pools.  *)

(* A receiver holds only packets that were stamped.                        *)
LEMMA HeldBelow ==
  ASSUME NEW cap \in Nat \ {0}, NEW r \in Pool(cap), NEW N \in Nat, RcvInv(r, N),
         NEW id \in Nat, Held(r, id)
  PROVE  id < N
  <1>1. r.bgn_id \in Nat /\ r.bgn_id <= N /\ Span(r) = r.bgn_id .. r.bgn_id + cap - 1
    BY PoolFacts DEF RcvInv, Span
  <1>2. CASE id < r.bgn_id
    BY <1>1, <1>2
  <1>3. CASE id # INVALID_ID /\ id \in Span(r) /\ Slot(r, id).id = id
    BY <1>3 DEF RcvInv
  <1> QED
    BY <1>2, <1>3 DEF Held

(* What protocol_recv of a frame does to a sender after N packets whose    *)
(* peer is q, and to a receiver whose peer stamped M packets.              *)
AfterRecv(s, r, N, M, q, res) ==
  /\ SenderInv(res.snd, N) /\ s.bgn_id <= res.snd.bgn_id
  /\ res.snd # s => SndInv(s, N) /\ SndInv(res.snd, N)
  /\ KeepsContent(s, res.snd, N)
  /\ \A j \in 0 .. N - 1 : Acked(res.snd, j) => Acked(s, j) \/ Held(q, j)
  /\ RcvInv(res.rcv, M) /\ res.rcv.bgn_id = r.bgn_id
  /\ \A j \in Nat : Held(r, j) => Held(res.rcv, j)
  /\ \A g \in res.out : g.type = "ack" /\ Held(res.rcv, g.id)

LEMMA RecvInv ==
  ASSUME NEW s \in Pool(SndCap), NEW r \in Pool(RcvCap), NEW q \in Pool(RcvCap),
         NEW N \in Nat, NEW M \in Nat, SenderInv(s, N), RcvInv(r, M), RcvInv(q, N),
         NEW f \in Frame \cup {NoFrame}, f.type = "data" => f.id < M,
         f.type = "ack" => Held(q, f.id), NEW res \in ProtocolRecv(s, r, f)
  PROVE  AfterRecv(s, r, N, M, q, res)
  <1>0. /\ KeepsContent(s, s, N) /\ s.bgn_id <= s.bgn_id
        /\ (f # NoFrame /\ f.type # "ack" => Update(r, f).bgn_id = r.bgn_id)
    <2>1. s.bgn_id <= s.bgn_id
      BY PoolFacts
    <2> QED
      BY <2>1 DEF KeepsContent, Update, Pool
  <1>1. CASE res = [snd |-> s, rcv |-> r, out |-> {}]
    BY <1>0, <1>1 DEF AfterRecv
  <1>2. CASE f.type = "ack" /\ f # NoFrame /\ Contains(s, f.id)
    <2>1. PICK p \in Ack(s, f.id) : res = [snd |-> p, rcv |-> r, out |-> {}]
      BY <1>2 DEF ProtocolRecv
    <2>2. f.id \in Nat /\ f.id \in Ids /\ f \in Frame
      BY <1>2 DEF Frame, Ids
    <2>3. f.id < N
      BY <1>2, <2>2, HeldBelow
    <2>4. /\ SndInv(s, N) /\ SndInv(p, N) /\ s.bgn_id <= p.bgn_id /\ KeepsContent(s, p, N)
          /\ \A j \in 0 .. N - 1 : Acked(p, j) => Acked(s, j) \/ j = f.id
      <3>1. PICK id \in Ids : id = f.id
        BY <2>2
      <3> QED
        BY <1>2, <2>3, <3>1, RingsFit, AckInv
    <2>5. res.snd = p /\ res.rcv = r /\ res.out = {}
      BY <2>1
    <2> QED
      BY <1>2, <2>4, <2>5 DEF AfterRecv, SenderInv
  <1>3. CASE f.type # "ack" /\ f # NoFrame /\ f.id < r.bgn_id
             /\ res = [snd |-> s, rcv |-> r, out |-> {AckFrame(f.id)}]
    BY <1>0, <1>3 DEF AfterRecv, AckFrame, Held
  <1>4. CASE f.type # "ack" /\ f # NoFrame /\ Contains(r, f.id)
             /\ res = [snd |-> s, rcv |-> Update(r, f), out |-> {AckFrame(f.id)}]
    <2>1. f.id \in Ids /\ f.from \in Nat /\ f.size \in 0 .. Payload /\ f.id < M
      BY <1>4 DEF Frame
    <2>2. /\ RcvInv(Update(r, f), M)
          /\ Held(Update(r, f), f.id)
          /\ \A j \in Nat : Held(r, j) => Held(Update(r, f), j)
      BY <1>4, <2>1, RingsFit, UpdateHolds
    <2> QED
      BY <1>0, <1>4, <2>2 DEF AfterRecv, AckFrame
  <1> QED
    BY <1>1, <1>2, <1>3, <1>4 DEF ProtocolRecv

(* The packets that are sent again and the stale incomplete window.        *)
AfterResend(x, N, stale, due, M) ==
  /\ SenderInv(AfterStale(x, stale), M) /\ AfterStale(x, stale).bgn_id = x.bgn_id
  /\ \A j \in 0 .. M - 1 : Acked(AfterStale(x, stale), j) => j < N /\ Acked(x, j)
  /\ \A g \in Resent(x, due) \cup StaleFrame(x, stale) : g.type = "data" /\ g.id < M

LEMMA ResendInv ==
  ASSUME NEW x \in Pool(SndCap), NEW N \in Nat, SenderInv(x, N),
         NEW stale \in BOOLEAN, NEW due,
         NEW M, M = IF Stamps(x, stale) /\ ~Last(x).is_sent THEN N + 1 ELSE N
  PROVE  AfterResend(x, N, stale, due, M)
  <1>1. /\ x.bgn_id \in Nat /\ x.end_id \in Nat /\ x.end_id < IdMod
        /\ x.capacity = SndCap /\ Span(x) = x.bgn_id .. x.bgn_id + SndCap - 1
    <2>1. x.capacity = SndCap /\ x.bgn_id \in Nat /\ x.end_id \in Nat /\ x.end_id \in Ids
      BY PoolFacts
    <2> QED
      BY <2>1 DEF Span, Ids
  <1>2. \A g \in Resent(x, due) : g.type = "data" /\ g.id < N /\ g.id < N + 1
    <2> SUFFICES ASSUME NEW id \in x.bgn_id .. x.end_id - 1
                 PROVE  /\ DataFrame(Get(x, id)).type = "data"
                        /\ DataFrame(Get(x, id)).id < N /\ DataFrame(Get(x, id)).id < N + 1
      BY DEF Resent, Unacked
    <2>0. SndInv(x, N) /\ x.end_id <= N /\ x.end_id < x.bgn_id + SndCap
      <3>1. x.bgn_id <= x.end_id
        BY <1>1
      <3>2. SndInv(x, N)
        BY <3>1, RingsFit, SenderBounds
      <3> QED
        BY <3>2, RingFacts DEF SndInv
    <2>1. id \in Span(x) /\ id < N /\ id \in Nat /\ id < IdMod /\ x.bgn_id <= id
      BY <1>1, <2>0
    <2>2. Get(x, id) = Slot(x, id)
      BY <2>1, IndexSlot
    <2>3. Slot(x, id).id = id
      BY <2>0, <2>1 DEF SndInv, SndRing
    <2> QED
      BY <2>1, <2>2, <2>3 DEF DataFrame
  <1>3. CASE ~Stamps(x, stale)
    <2>1. AfterStale(x, stale) = x /\ StaleFrame(x, stale) = {} /\ M = N
      BY <1>3 DEF AfterStale, StaleFrame
    <2> QED
      BY <1>2, <2>1 DEF AfterResend
  <1>4. CASE Stamps(x, stale) /\ Last(x).is_sent
    <2>1. /\ AfterStale(x, stale) = x /\ M = N
          /\ StaleFrame(x, stale) = {DataFrame(Last(x))}
      BY <1>4 DEF AfterStale, StaleFrame, Stamp
    <2>2. Last(x).id = x.end_id /\ x.end_id < N
      <3>1. PICK i : i = Filling(x, N)
        OBVIOUS
      <3>2. Last(x).id = x.end_id /\ (i = x.end_id \/ i = x.end_id + IdMod)
        BY <1>4, <3>1, RingsFit, FillingFacts
      <3>3. i = N - 1
        BY <1>4, <3>1 DEF Filling
      <3> QED
        BY <1>1, <3>2, <3>3
    <2>3. \A g \in StaleFrame(x, stale) : g.type = "data" /\ g.id < M
      BY <2>1, <2>2 DEF DataFrame
    <2> QED
      BY <1>2, <2>1, <2>3 DEF AfterResend
  <1>5. CASE Stamps(x, stale) /\ ~Last(x).is_sent
    <2>1. PICK q : q = UpdateHeader(x)
      OBVIOUS
    <2>2. /\ AfterStale(x, stale) = q /\ M = N + 1
          /\ StaleFrame(x, stale) = {DataFrame(Last(q))}
      BY <1>5, <2>1 DEF AfterStale, StaleFrame, Stamp
    <2>3. /\ SenderInv(q, N + 1) /\ q.bgn_id = x.bgn_id /\ Last(q).id = x.end_id
          /\ N = x.end_id \/ N = x.end_id + IdMod
          /\ \A j \in 0 .. N : Acked(q, j) => j < N /\ Acked(x, j)
      BY <1>5, <2>1, RingsFit, StampInv
    <2>6. \A g \in Resent(x, due) \cup StaleFrame(x, stale) : g.type = "data" /\ g.id < M
      <3>1. DataFrame(Last(q)).type = "data" /\ DataFrame(Last(q)).id < N + 1
        BY <1>1, <2>3 DEF DataFrame
      <3> QED
        BY <1>2, <2>2, <3>1
    <2>7. \A j \in 0 .. M - 1 : Acked(q, j) => j < N /\ Acked(x, j)
      BY <2>2, <2>3
    <2> QED
      BY <2>2, <2>3, <2>6, <2>7 DEF AfterResend
  <1> QED
    BY <1>3, <1>4, <1>5

-----------------------------------------------------------------------------
(* A direction of the link, seen from its two ends.                        *)

(* The sender's end acts.                                                  *)
LEMMA SenderActs ==
  ASSUME NEW s, NEW s2, NEW r \in Pool(RcvCap), NEW N \in Nat, NEW M \in Nat,
         NEW out \in SUBSET Frame, NEW out2, NEW back, NEW back2,
         DirectionInv(s, r, N, out, back),
         N <= M, SenderInv(s2, M), back2 \subseteq back,
         \A j \in 0 .. M - 1 : Acked(s2, j) => j < N /\ (Acked(s, j) \/ Held(r, j)),
         \A f \in out2 : f \in out \/ f.type # "data" \/ f.id < M
  PROVE  DirectionInv(s2, r, M, out2, back2)
  <1>1. /\ RcvInv(r, N)
        /\ \A f \in out : f.type = "data" => f.id < N
        /\ \A f \in back : f.type = "ack" => Held(r, f.id)
        /\ \A id \in 0 .. N - 1 : Acked(s, id) => Held(r, id)
    BY DEF DirectionInv
  <1>2. RcvInv(r, M)
    <2>1. /\ r.bgn_id \in Nat /\ r.bgn_id <= N /\ r.bgn_index = r.bgn_id % r.capacity
          /\ \A id \in Span(r) : id \in Int
      BY <1>1, PoolFacts DEF RcvInv, Span
    <2>2. \A id \in Span(r) : Slot(r, id).id = INVALID_ID \/ (Slot(r, id).id = id /\ id < M)
      BY <1>1, <2>1 DEF RcvInv
    <2> QED
      BY <2>1, <2>2 DEF RcvInv
  <1>3. \A f \in out2 : f.type = "data" => f.id < M
    <2>1. \A f \in out : f.id \in Int
      BY DEF Frame, Ids
    <2> QED
      BY <1>1, <2>1
  <1>4. \A id \in 0 .. M - 1 : Acked(s2, id) => Held(r, id)
    BY <1>1
  <1> QED
    BY <1>1, <1>2, <1>3, <1>4 DEF DirectionInv

(* The receiver's end acts.                                                *)
LEMMA ReceiverActs ==
  ASSUME NEW s, NEW r, NEW r2, NEW N \in Nat, NEW out, NEW out2,
         NEW back \in SUBSET Frame, NEW back2,
         DirectionInv(s, r, N, out, back),
         RcvInv(r2, N), \A j \in Nat : Held(r, j) => Held(r2, j), out2 \subseteq out,
         \A f \in back2 : f \in back \/ f.type # "ack" \/ Held(r2, f.id)
  PROVE  DirectionInv(s, r2, N, out2, back2)
  <1>1. \A f \in back : f.id \in Nat
    BY DEF Frame, Ids
  <1>2. \A f \in back2 : f.type = "ack" => Held(r2, f.id)
    BY <1>1 DEF DirectionInv
  <1>3. \A id \in 0 .. N - 1 : Acked(s, id) => Held(r2, id)
    BY DEF DirectionInv
  <1> QED
    BY <1>2, <1>3 DEF DirectionInv

-----------------------------------------------------------------------------
(* The steps of the link.                                                  *)

(* What the invariant says of an endpoint and its two directions.          *)
LEMMA EndFacts ==
  ASSUME LinkInv, NEW e \in End
  PROVE  /\ snd[e] \in Pool(SndCap) /\ rcv[e] \in Pool(RcvCap) /\ rcv[Peer(e)] \in Pool(RcvCap)
         /\ net[e] \in SUBSET Frame /\ net[Peer(e)] \in SUBSET Frame
         /\ call[e] \in Call /\ accepted[e] \in Nat
         /\ Len(log[e]) \in Nat /\ Len(log[Peer(e)]) \in Nat
         /\ DirectionInv(snd[e], rcv[Peer(e)], Len(log[e]), net[Peer(e)], net[e])
         /\ DirectionInv(snd[Peer(e)], rcv[e], Len(log[Peer(e)]), net[e], net[Peer(e)])
  <1>1. /\ snd[e] \in Pool(SndCap) /\ rcv[e] \in Pool(RcvCap) /\ rcv[Peer(e)] \in Pool(RcvCap)
        /\ net[e] \in SUBSET Frame /\ net[Peer(e)] \in SUBSET Frame
        /\ call[e] \in Call /\ accepted[e] \in Nat
        /\ log[e] \in Seq(Content) /\ log[Peer(e)] \in Seq(Content)
    BY PeerType DEF LinkInv, TypeOK
  <1>2. Len(log[e]) \in Nat /\ Len(log[Peer(e)]) \in Nat
    BY <1>1
  <1>3. /\ DirectionInv(snd[e], rcv[Peer(e)], Len(log[e]), net[Peer(e)], net[e])
        /\ DirectionInv(snd[Peer(e)], rcv[e], Len(log[Peer(e)]), net[e], net[Peer(e)])
    BY PeerType DEF LinkInv
  <1> QED
    BY <1>1, <1>2, <1>3

(* No pool of an endpoint goes back to an id before its first one.         *)
Onward(e) == snd[e].bgn_id <= snd'[e].bgn_id /\ rcv[e].bgn_id <= rcv'[e].bgn_id

LEMMA EndIds ==
  ASSUME LinkInv, NEW e \in End
  PROVE  /\ snd[e].bgn_id \in Nat /\ rcv[e].bgn_id \in Nat
         /\ snd[e].bgn_id <= snd[e].bgn_id /\ rcv[e].bgn_id <= rcv[e].bgn_id
  <1>1. snd[e].bgn_id \in Nat
    BY EndFacts, PoolFacts
  <1>2. rcv[e].bgn_id \in Nat
    BY EndFacts, PoolFacts
  <1> QED
    BY <1>1, <1>2

(* A step of endpoint e leaves what its peer keeps alone.                  *)
LEMMA LinkAfter ==
  ASSUME LinkInv, TypeOK', NEW e \in End,
         DirectionInv(snd'[e], rcv'[Peer(e)], Len(log'[e]), net'[Peer(e)], net'[e]),
         DirectionInv(snd'[Peer(e)], rcv'[e], Len(log'[Peer(e)]), net'[e], net'[Peer(e)])
  PROVE  LinkInv'
  <1>1. \A d \in End : d = e \/ d = Peer(e)
    BY DEF End, Peer
  <1>2. Peer(Peer(e)) = e
    BY PeerType
  <1>3. \A d \in End :
          DirectionInv(snd'[d], rcv'[Peer(d)], Len(log'[d]), net'[Peer(d)], net'[d])
    BY <1>1, <1>2
  <1> QED
    BY <1>3 DEF LinkInv

(* mc_comm_update, from whatever loop.                                     *)
LEMMA UpdateKeeps ==
  ASSUME LinkInv, TypeOK', NEW e \in End, NEW f \in net[e] \cup {NoFrame},
         NEW keep \in BOOLEAN, NEW stale \in BOOLEAN, NEW timedOut \in BOOLEAN, NEW due,
         Updates(e, f, keep, due, stale, timedOut)
  PROVE  LinkInv' /\ Onward(e) /\ UNCHANGED <<snd[Peer(e)], rcv[Peer(e)]>>
  <1>1. PICK s, r, q, N, M :
          s = snd[e] /\ r = rcv[e] /\ q = rcv[Peer(e)] /\ N = Len(log[e]) /\ M = Len(log[Peer(e)])
    OBVIOUS
  <1>2. PICK sp, in, out, n : sp = snd[Peer(e)] /\ in = net[e] /\ out = net[Peer(e)]
                             /\ n = call[e].left
    OBVIOUS
  <1>3. /\ s \in Pool(SndCap) /\ r \in Pool(RcvCap) /\ q \in Pool(RcvCap)
        /\ in \in SUBSET Frame /\ out \in SUBSET Frame /\ N \in Nat /\ M \in Nat
        /\ DirectionInv(s, q, N, out, in) /\ DirectionInv(sp, r, M, in, out)
    BY <1>1, <1>2, EndFacts
  <1>4. n \in Nat
    BY <1>2, EndFacts DEF Call
  <1>6. PICK r1, res :
          /\ res \in ProtocolRecv(s, r1, f)
          /\ r1 = r \/ r1 = Read(r, n).pool
          /\ Answers(e, res, f, keep, due, stale)
    BY <1>1, <1>2, UpdateStep
  <1>7. /\ r1 \in Pool(RcvCap) /\ RcvInv(r1, M) /\ r.bgn_id <= r1.bgn_id
        /\ \A j \in Nat : Held(r, j) => Held(r1, j)
    <2>1. RcvInv(r, M)
      BY <1>3 DEF DirectionInv
    <2>2. PICK p : p = Read(r, n).pool
      OBVIOUS
    <2>3. /\ p \in Pool(RcvCap) /\ RcvInv(p, M) /\ r.bgn_id <= p.bgn_id
          /\ \A j \in Nat : Held(r, j) => Held(p, j)
      BY <1>3, <1>4, <2>1, <2>2, ReadHolds, ReadType
    <2>4. r.bgn_id <= r.bgn_id
      BY <1>1, EndIds
    <2> QED
      BY <1>3, <1>6, <2>1, <2>2, <2>3, <2>4
  <1>8. /\ f \in Frame \cup {NoFrame}
        /\ f.type = "data" => f.id < M
        /\ f.type = "ack" => Held(q, f.id)
    BY <1>2, <1>3 DEF DirectionInv, NoFrame
  <1>9. SenderInv(s, N) /\ RcvInv(q, N)
    BY <1>3 DEF DirectionInv
  <1>10. AfterRecv(s, r1, N, M, q, res)
    BY <1>3, <1>6, <1>7, <1>8, <1>9, RecvInv
  <1>11. PICK x, x2, N2 :
           /\ x = res.snd /\ x2 = AfterStale(x, stale)
           /\ N2 = IF Stamps(x, stale) /\ ~Last(x).is_sent THEN N + 1 ELSE N
    OBVIOUS
  <1>12. x \in Pool(SndCap)
    BY <1>3, <1>6, <1>7, <1>8, <1>11, ProtocolRecvType
  <1>13. SenderInv(x, N) /\ s.bgn_id <= x.bgn_id /\ res.rcv.bgn_id = r1.bgn_id
    BY <1>10, <1>11 DEF AfterRecv
  <1>14. AfterResend(x, N, stale, due, N2)
    BY <1>3, <1>11, <1>12, <1>13, ResendInv
  <1>15. /\ snd' = [snd EXCEPT ![e] = x2]
         /\ rcv' = [rcv EXCEPT ![e] = res.rcv]
         /\ net' = [net EXCEPT
                      ![e] = IF keep THEN @ ELSE @ \ {f},
                      ![Peer(e)] = @ \cup res.out \cup Resent(x, due) \cup StaleFrame(x, stale)]
         /\ log' = IF Stamps(x, stale) /\ ~Last(x).is_sent
                   THEN [log EXCEPT ![e] = Append(@, ContentOf(Last(Stamp(x))))]
                   ELSE log
         /\ accepted' = accepted
    BY <1>6, <1>11, UpdateStep DEF Answers
  <1>16. /\ snd'[e] = x2 /\ snd'[Peer(e)] = sp /\ rcv'[e] = res.rcv /\ rcv'[Peer(e)] = q
         /\ net'[e] \subseteq in
         /\ net'[Peer(e)] = out \cup res.out \cup Resent(x, due) \cup StaleFrame(x, stale)
    BY <1>1, <1>2, <1>15, PeerType DEF LinkInv, TypeOK
  <1>17. Len(log'[e]) = N2 /\ log'[Peer(e)] = log[Peer(e)]
    <2>1. log[e] \in Seq(Content) /\ log \in [End -> Seq(Content)]
      BY DEF LinkInv, TypeOK
    <2> QED
      BY <1>1, <1>11, <1>15, <2>1, PeerType
  <1>19. DirectionInv(x2, q, N2, net'[Peer(e)], net'[e])
    <2>1. N2 \in Nat /\ N <= N2
      BY <1>3, <1>11
    <2>2. SenderInv(x2, N2)
      BY <1>11, <1>14 DEF AfterResend
    <2>3. \A j \in 0 .. N2 - 1 : Acked(x2, j) => j < N /\ (Acked(s, j) \/ Held(q, j))
      BY <1>3, <1>10, <1>11, <1>14 DEF AfterRecv, AfterResend
    <2>4. \A g \in net'[Peer(e)] : g \in out \/ g.type # "data" \/ g.id < N2
      BY <1>10, <1>14, <1>16 DEF AfterRecv, AfterResend
    <2> QED
      BY <1>3, <1>16, <2>1, <2>2, <2>3, <2>4, SenderActs
  <1>20. DirectionInv(sp, res.rcv, M, net'[e], net'[Peer(e)])
    <2>1. RcvInv(res.rcv, M) /\ \A j \in Nat : Held(r, j) => Held(res.rcv, j)
      BY <1>7, <1>10 DEF AfterRecv
    <2>2. \A g \in net'[Peer(e)] : g \in out \/ g.type # "ack" \/ Held(res.rcv, g.id)
      BY <1>10, <1>14, <1>16 DEF AfterRecv, AfterResend
    <2> QED
      BY <1>3, <1>16, <2>1, <2>2, ReceiverActs
  <1>21. LinkInv'
    BY <1>1, <1>2, <1>16, <1>17, <1>19, <1>20, LinkAfter
  <1>22. Onward(e)
    BY <1>1, <1>7, <1>11, <1>13, <1>14, <1>16 DEF AfterResend, Onward
  <1> QED
    BY <1>1, <1>2, <1>16, <1>21, <1>22

(* mc_comm_send that gets bytes into its pool.                             *)
LEMMA SendKeeps ==
  ASSUME LinkInv, TypeOK', NEW e \in End, NEW timedOut \in BOOLEAN, SendWrites(e, timedOut)
  PROVE  LinkInv' /\ Onward(e) /\ UNCHANGED <<snd[Peer(e)], rcv[Peer(e)]>>
  <1>1. PICK s, q, N, seg, pos :
          /\ s = snd[e] /\ q = rcv[Peer(e)] /\ N = Len(log[e]) /\ pos = accepted[e]
          /\ seg = Smaller(call[e].left, Payload)
    OBVIOUS
  <1>2. PICK sp, r, M, in, out : /\ sp = snd[Peer(e)] /\ r = rcv[e] /\ M = Len(log[Peer(e)])
                                /\ in = net[e] /\ out = net[Peer(e)]
    OBVIOUS
  <1>3. PICK w, s2, sent, taken :
          w = Write(s, pos, seg) /\ s2 = w.pool /\ sent = w.sent /\ taken = w.taken
    OBVIOUS
  <1>4. /\ s \in Pool(SndCap) /\ q \in Pool(RcvCap) /\ r \in Pool(RcvCap)
        /\ DirectionInv(s, q, N, out, in) /\ DirectionInv(sp, r, M, in, out)
    BY <1>1, <1>2, EndFacts
  <1>5. /\ in \in SUBSET Frame /\ out \in SUBSET Frame /\ N \in Nat /\ M \in Nat /\ pos \in Nat
    BY <1>1, <1>2, EndFacts
  <1>7. seg \in Nat
    <2>1. call[e].left \in Nat
      BY EndFacts DEF Call
    <2> QED
      BY <1>1, <2>1 DEF Smaller
  <1>10. SenderInv(s, N)
    BY <1>4 DEF DirectionInv
  <1>11. AfterWrite(s, N, w)
    BY <1>3, <1>4, <1>5, <1>7, <1>10, RingsFit, WriteInv
  <1>12. PICK N2 \in Nat :
           /\ N2 = N + Len(sent)
           /\ SenderInv(s2, N2) /\ s2.bgn_id = s.bgn_id
           /\ \A j \in 0 .. N2 - 1 : Acked(s2, j) => j < N /\ Acked(s, j)
           /\ \A f \in Range(sent) : f.id < N2
    BY <1>3, <1>11 DEF AfterWrite
  <1>13. s2 \in Pool(SndCap) /\ taken \in 0 .. seg /\ sent \in Seq(FullFrame)
    BY <1>3, <1>4, <1>5, <1>7, WriteType
  <1>14. /\ snd' = [snd EXCEPT ![e] = s2]
         /\ net' = [net EXCEPT ![Peer(e)] = @ \cup Range(sent)]
         /\ log' = [log EXCEPT ![e] = @ \o [i \in DOMAIN sent |-> ContentOf(sent[i])]]
         /\ rcv' = rcv
    BY <1>1, <1>3 DEF SendWrites
  <1>15. /\ snd'[e] = s2 /\ snd'[Peer(e)] = sp /\ rcv'[e] = r /\ rcv'[Peer(e)] = q
         /\ net'[e] = in /\ net'[Peer(e)] = out \cup Range(sent)
    BY <1>1, <1>2, <1>14, PeerType DEF LinkInv, TypeOK
  <1>16. Len(log'[e]) = N2 /\ log'[Peer(e)] = log[Peer(e)]
    <2>1. log[e] \in Seq(Content) /\ log \in [End -> Seq(Content)]
      BY DEF LinkInv, TypeOK
    <2>2. PICK c : c = [i \in DOMAIN sent |-> ContentOf(sent[i])]
      OBVIOUS
    <2>3. c \in Seq(Content) /\ Len(c) = Len(sent)
      <3>1. /\ Len(sent) \in Nat /\ DOMAIN sent = 1 .. Len(sent)
            /\ \A i \in DOMAIN sent : sent[i] \in FullFrame
        BY <1>13
      <3>2. \A i \in DOMAIN sent : ContentOf(sent[i]) \in Content
        BY <3>1 DEF FullFrame, ContentOf, Content
      <3> QED
        BY <2>2, <3>1, <3>2
    <2>4. log' = [log EXCEPT ![e] = @ \o c]
      BY <1>14, <2>2
    <2>5. Len(log[e] \o c) = Len(log[e]) + Len(c)
      <3>1. \A l, d \in Seq(Content) : Len(l \o d) = Len(l) + Len(d)
        OBVIOUS
      <3> QED
        BY <2>1, <2>3, <3>1
    <2> QED
      BY <1>1, <1>12, <2>1, <2>3, <2>4, <2>5, PeerType
  <1>19. DirectionInv(s2, q, N2, net'[Peer(e)], net'[e])
    <2>1. N <= N2
      BY <1>5, <1>12, <1>13
    <2>2. net'[e] \subseteq in
      BY <1>15
    <2>3. \A j \in 0 .. N2 - 1 : Acked(s2, j) => j < N /\ (Acked(s, j) \/ Held(q, j))
      BY <1>12
    <2>4. \A g \in net'[Peer(e)] : g \in out \/ g.type # "data" \/ g.id < N2
      BY <1>12, <1>15
    <2>5. SenderInv(s2, N2)
      BY <1>12
    <2> QED
      BY <1>4, <1>5, <2>1, <2>2, <2>3, <2>4, <2>5, SenderActs
  <1>20. DirectionInv(sp, r, M, net'[e], net'[Peer(e)])
    <2>1. RcvInv(r, M) /\ net'[e] \subseteq in
      BY <1>4, <1>15 DEF DirectionInv
    <2>2. \A g \in Range(sent) : g.type # "ack"
      <3>1. \A i \in DOMAIN sent : sent[i].type = "data"
        <4>1. \A i \in DOMAIN sent : sent[i] \in FullFrame
          BY <1>13
        <4> QED
          BY <4>1 DEF FullFrame
      <3> QED
        BY <3>1 DEF Range
    <2>3. \A g \in net'[Peer(e)] : g \in out \/ g.type # "ack" \/ Held(r, g.id)
      BY <1>15, <2>2
    <2> QED
      BY <1>4, <1>5, <2>1, <2>3, ReceiverActs
  <1>21. LinkInv'
    BY <1>1, <1>2, <1>15, <1>16, <1>19, <1>20, LinkAfter
  <1>22. Onward(e)
    <2>1. s.bgn_id <= s.bgn_id /\ r.bgn_id <= r.bgn_id
      BY <1>1, <1>2, EndIds
    <2> QED
      BY <1>1, <1>2, <1>12, <1>15, <2>1 DEF Onward
  <1> QED
    BY <1>1, <1>2, <1>15, <1>21, <1>22

(* mc_comm_recv that gets bytes out of its pool.                           *)
LEMMA RecvKeeps ==
  ASSUME LinkInv, TypeOK', NEW e \in End, RecvReads(e)
  PROVE  LinkInv' /\ Onward(e) /\ UNCHANGED <<snd[Peer(e)], rcv[Peer(e)]>>
  <1>1. PICK sp, r, r2, M, in, out, n :
          /\ sp = snd[Peer(e)] /\ r = rcv[e] /\ M = Len(log[Peer(e)])
          /\ in = net[e] /\ out = net[Peer(e)] /\ n = call[e].left /\ r2 = Read(r, n).pool
    OBVIOUS
  <1>2. /\ r \in Pool(RcvCap) /\ DirectionInv(sp, r, M, in, out)
        /\ out \in SUBSET Frame /\ M \in Nat /\ n \in Nat
        /\ DirectionInv(snd[e], rcv[Peer(e)], Len(log[e]), out, in)
    <2>1. n \in Nat
      BY <1>1, EndFacts DEF Call
    <2> QED
      BY <1>1, <2>1, EndFacts
  <1>4. RcvInv(r2, M) /\ r.bgn_id <= r2.bgn_id /\ \A j \in Nat : Held(r, j) => Held(r2, j)
    <2>1. RcvInv(r, M)
      BY <1>2 DEF DirectionInv
    <2> QED
      BY <1>1, <1>2, <2>1, ReadHolds
  <1>5. rcv' = [rcv EXCEPT ![e] = r2] /\ UNCHANGED <<snd, net, log>>
    BY <1>1 DEF RecvReads
  <1>6. rcv'[e] = r2 /\ rcv'[Peer(e)] = rcv[Peer(e)]
    BY <1>5, PeerType DEF LinkInv, TypeOK
  <1>7. DirectionInv(sp, r2, M, in, out)
    BY <1>2, <1>4, ReceiverActs
  <1>8. LinkInv'
    BY <1>1, <1>2, <1>5, <1>6, <1>7, LinkAfter
  <1>9. Onward(e)
    BY <1>1, <1>4, <1>5, <1>6, EndIds DEF Onward
  <1> QED
    BY <1>5, <1>6, <1>8, <1>9

(* The calls and returns of the API, and the network.                      *)
LEMMA CallKeeps ==
  ASSUME LinkInv, TypeOK', UNCHANGED <<snd, rcv, net, log>>
  PROVE  LinkInv'
  BY DEF LinkInv

LEMMA LoseKeeps ==
  ASSUME LinkInv, TypeOK', NEW e \in End, NEW f \in net[e], Lose(e, f)
  PROVE  LinkInv'
  <1>1. /\ UNCHANGED <<snd, rcv, log>>
        /\ net'[e] \subseteq net[e] /\ net'[Peer(e)] = net[Peer(e)]
    BY PeerType DEF Lose, LinkInv, TypeOK
  <1>2. /\ DirectionInv(snd[e], rcv[Peer(e)], Len(log[e]), net'[Peer(e)], net'[e])
        /\ DirectionInv(snd[Peer(e)], rcv[e], Len(log[Peer(e)]), net'[e], net'[Peer(e)])
    BY <1>1, EndFacts DEF DirectionInv
  <1> QED
    BY <1>1, <1>2, EndFacts, LinkAfter

LEMMA InitLink == Init => LinkInv
  <1> SUFFICES ASSUME Init PROVE LinkInv
    OBVIOUS
  <1>1. TypeOK
    BY InitType
  <1>2. \A cap \in Nat \ {0} : 0 % cap = 0
    BY ModSmall
  <1>3. \A cap \in Nat \ {0} : \A stored :
          LET p == InitPool(cap, stored)
          IN  /\ p.bgn_id = 0 /\ p.end_id = 0 /\ p.bgn_index = 0 /\ p.capacity = cap
              /\ p.windows = [k \in 0 .. cap - 1 |-> Cleared]
    BY DEF InitPool
  <1>4. \A cap \in Nat \ {0} : \A id \in Int : id % cap \in 0 .. cap - 1
    BY ModType
  <1>5. ASSUME NEW cap \in Nat \ {0}, NEW p, p.bgn_id = 0, p.end_id = 0, p.bgn_index = 0,
               p.capacity = cap, p.windows = [k \in 0 .. cap - 1 |-> Cleared]
        PROVE  SndInv(p, 0) /\ RcvInv(p, 0) /\ Pending(p) = 0
    <2>1. ASSUME NEW id \in Span(p) PROVE Slot(p, id) = Cleared
      <3>1. id \in Int
        BY <1>5, <2>1 DEF Span
      <3>2. id % cap \in 0 .. cap - 1
        BY <1>4, <3>1
      <3> QED
        BY <1>5, <3>2 DEF Slot
    <2>2. (p.bgn_index + 0) % p.capacity = 0 /\ 0 \in 0 .. cap - 1
      BY <1>2, <1>5
    <2>3. ~IsAckedAt(p, 0)
      BY <1>5, <2>2 DEF IsAckedAt, IsValid, Cleared
    <2>4. LastIndex(p) \in 0 .. cap - 1
      <3>1. (0 - 0) % IdMod = 0 /\ (0 + 0) % IdMod = 0
        BY ModSmall
      <3>2. GetIndex(p, 0) = 0 % cap
        BY <1>5, <3>1 DEF GetIndex
      <3> QED
        BY <1>2, <1>5, <3>2 DEF LastIndex
    <2>5. Pending(p) = 0
      BY <1>5, <2>4 DEF Pending, Last, Cleared
    <2>6. \A id \in Span(p) : id \in 0 .. cap - 1
      BY <1>5 DEF Span
    <2>7. SndRing(p, 0)
      BY <1>2, <1>5, <2>1, <2>6 DEF SndRing, Cleared
    <2>8. RcvInv(p, 0)
      BY <1>2, <1>5, <2>1, <2>6 DEF RcvInv, Cleared
    <2> QED
      BY <2>3, <2>5, <2>7, <2>8 DEF SndInv
  <1>6. ASSUME NEW e \in End
        PROVE  /\ SndInv(snd[e], 0) /\ Pending(snd[e]) = 0 /\ RcvInv(rcv[e], 0)
               /\ Len(log[e]) = 0 /\ net[e] = {}
    <2>1. snd[e] = InitPool(SndCap, 0) /\ \E stored : rcv[e] = InitPool(RcvCap, stored)
      BY DEF Init
    <2>2. SndInv(snd[e], 0) /\ Pending(snd[e]) = 0 /\ RcvInv(rcv[e], 0)
      <3>1. PICK p, q : p = snd[e] /\ q = rcv[e]
        OBVIOUS
      <3>2. SndInv(p, 0) /\ Pending(p) = 0
        <4>1. /\ p.bgn_id = 0 /\ p.end_id = 0 /\ p.bgn_index = 0 /\ p.capacity = SndCap
              /\ p.windows = [k \in 0 .. SndCap - 1 |-> Cleared]
          BY <1>3, <2>1, <3>1
        <4> QED
          BY <1>5, <4>1
      <3>3. RcvInv(q, 0)
        <4>1. /\ q.bgn_id = 0 /\ q.end_id = 0 /\ q.bgn_index = 0 /\ q.capacity = RcvCap
              /\ q.windows = [k \in 0 .. RcvCap - 1 |-> Cleared]
          BY <1>3, <2>1, <3>1
        <4> QED
          BY <1>5, <4>1
      <3> QED
        BY <3>1, <3>2, <3>3
    <2> QED
      BY <2>2 DEF Init
  <1> QED
    BY <1>1, <1>6, PeerType DEF LinkInv, DirectionInv, SenderInv

LEMMA StepLink ==
  ASSUME LinkInv, [Next]_vars
  PROVE  LinkInv' /\ \A e \in End : Onward(e)
  <1>0. TypeOK'
    BY TypeStep DEF LinkInv
  <1>1. \A e \in End : UNCHANGED <<snd[e], rcv[e]>> => Onward(e)
    BY EndIds DEF Onward
  <1>2. ASSUME NEW e \in End, LinkInv', Onward(e), UNCHANGED <<snd[Peer(e)], rcv[Peer(e)]>>
        PROVE  \A d \in End : Onward(d)
    <2>1. \A d \in End : d = e \/ d = Peer(e)
      BY DEF End, Peer
    <2>2. Onward(Peer(e))
      BY <1>1, <1>2, PeerType
    <2> QED
      BY <1>2, <2>1, <2>2
  <1>3. CASE UNCHANGED <<snd, rcv, net, log>>
    <2>1. LinkInv'
      BY <1>0, <1>3, CallKeeps
    <2> QED
      BY <1>1, <1>3, <2>1
  <1>4. ASSUME NEW e \in End, NEW f \in net[e] \cup {NoFrame}, NEW keep \in BOOLEAN,
               NEW stale \in BOOLEAN, NEW timedOut \in BOOLEAN,
               NEW due \in SUBSET (snd[e].bgn_id .. snd[e].end_id - 1),
               Updates(e, f, keep, due, stale, timedOut)
        PROVE  LinkInv' /\ \A d \in End : Onward(d)
    BY <1>0, <1>2, <1>4, UpdateKeeps
  <1>5. ASSUME NEW e \in End, NEW timedOut \in BOOLEAN, SendWrites(e, timedOut)
        PROVE  LinkInv' /\ \A d \in End : Onward(d)
    BY <1>0, <1>2, <1>5, SendKeeps
  <1>6. ASSUME NEW e \in End, RecvReads(e) PROVE LinkInv' /\ \A d \in End : Onward(d)
    BY <1>0, <1>2, <1>6, RecvKeeps
  <1>7. ASSUME NEW e \in End, NEW f \in net[e], Lose(e, f)
        PROVE  LinkInv' /\ \A d \in End : Onward(d)
    <2>1. LinkInv'
      BY <1>0, <1>7, LoseKeeps
    <2>2. UNCHANGED <<snd, rcv>>
      BY <1>7 DEF Lose
    <2> QED
      BY <1>1, <2>1, <2>2
  <1>8. UNCHANGED vars => UNCHANGED <<snd, rcv, net, log>>
    BY DEF vars
  <1>9. ASSUME NEW e \in End,
               \/ \E n \in 1 .. MaxCall : CallSend(e, n) \/ CallRecv(e, n)
               \/ RecvTimesOut(e) \/ CallFlush(e) \/ FlushReturns(e)
        PROVE  UNCHANGED <<snd, rcv, net, log>>
    BY <1>9 DEF CallSend, CallRecv, RecvTimesOut, CallFlush, FlushReturns
  <1> QED
    BY <1>3, <1>4, <1>5, <1>6, <1>7, <1>8, <1>9 DEF Next, Step

(* In every session, also after the packet ids began again with 0, the     *)
(* rings, ids and flags of the pools of a direction agree with each other  *)
(* and with the frames under way (mc_window_pool.c, mc_protocol.c).        *)
THEOREM LinkCorrect == Spec => []LinkInv
  <1>1. Init => LinkInv
    BY InitLink
  <1>2. LinkInv /\ [Next]_vars => LinkInv'
    BY StepLink
  <1> QED
    BY <1>1, <1>2, PTL DEF Spec

(* Packet ids only ever move on: no acknowledgement or packet, however     *)
(* late, brings a pool back to one it removed or handed over               *)
(* (wndpool_contains, remove_first).                                       *)
THEOREM MovesOn == Spec => NoTurningBack
  <1>1. LinkInv /\ [Next]_vars => [\A e \in End : /\ snd[e].bgn_id <= snd'[e].bgn_id
                                              /\ rcv[e].bgn_id <= rcv'[e].bgn_id]_vars
    BY StepLink DEF Onward
  <1> QED
    BY <1>1, LinkCorrect, PTL DEF Spec, NoTurningBack

-----------------------------------------------------------------------------
(* What the invariant is for.                                              *)

LEMMA LinkAcked == LinkInv => AckedIsReceived
  <1> SUFFICES ASSUME LinkInv, NEW e \in End, NEW id \in 0 .. Len(log[e]) - 1,
                      \/ id < snd[e].bgn_id
                      \/ \E k \in DOMAIN snd[e].windows :
                           LET w == snd[e].windows[k]
                           IN  IsValid(w) /\ w.id = id /\ w.is_acked
               PROVE  Received(rcv[Peer(e)], id)
    BY DEF AckedIsReceived
  <1>1. PICK s, r, N, out, back :
          /\ s = snd[e] /\ r = rcv[Peer(e)] /\ N = Len(log[e])
          /\ out = net[Peer(e)] /\ back = net[e]
    OBVIOUS
  <1>2. /\ s \in Pool(SndCap) /\ r \in Pool(RcvCap) /\ N \in Nat
        /\ DirectionInv(s, r, N, out, back)
    BY <1>1, EndFacts
  <1>3. AckedInPlace(s) /\ \A j \in 0 .. N - 1 : Acked(s, j) => Held(r, j)
    <2>1. SenderInv(s, N)
      BY <1>2 DEF DirectionInv
    <2> QED
      BY <1>2, <2>1, RingsFit, FillingFacts DEF DirectionInv
  <1>4. s.capacity = SndCap /\ DOMAIN s.windows = 0 .. SndCap - 1
    BY <1>2 DEF Pool
  <1>5. Acked(s, id)
    BY <1>1, <1>3, <1>4 DEF AckedInPlace, Acked, IsValid, Slot
  <1>6. Held(r, id)
    BY <1>1, <1>3, <1>5
  <1>7. Received(r, id)
    <2>1. DOMAIN r.windows = 0 .. RcvCap - 1 /\ r.capacity = RcvCap
      BY <1>2 DEF Pool
    <2>2. id \in Int /\ RcvCap \in Nat \ {0}
      BY <1>1, <1>2, CapAssumption
    <2>3. id % RcvCap \in 0 .. RcvCap - 1
      BY <2>2, ModType
    <2> QED
      BY <1>6, <2>1, <2>3 DEF Held, Received, Slot, IsValid
  <1> QED
    BY <1>1, <1>7

LEMMA LinkRetained == LinkInv => RetainedUntilRemoved /\ FirstIsUnacked
  <1> SUFFICES ASSUME LinkInv, NEW e \in End
               PROVE  /\ \A id \in snd[e].bgn_id .. snd[e].end_id - 1 : Get(snd[e], id).id = id
                      /\ Last(snd[e]).id \in {snd[e].end_id, INVALID_ID}
                      /\ snd[e].end_id - snd[e].bgn_id < SndCap
                      /\ ~IsAckedAt(snd[e], 0)
    BY DEF RetainedUntilRemoved, FirstIsUnacked
  <1>1. PICK s, r, N, out, back :
          /\ s = snd[e] /\ r = rcv[Peer(e)] /\ N = Len(log[e])
          /\ out = net[Peer(e)] /\ back = net[e]
    OBVIOUS
  <1>2. s \in Pool(SndCap) /\ N \in Nat /\ SenderInv(s, N)
    BY <1>1, EndFacts DEF DirectionInv
  <1>3. PICK i : i = Filling(s, N)
    OBVIOUS
  <1>4. /\ ~IsAckedAt(s, 0) /\ Last(s).id \in {s.end_id, INVALID_ID}
        /\ i \in Nat /\ i < s.bgn_id + SndCap
        /\ \/ s.bgn_id <= s.end_id /\ i = s.end_id /\ SndInv(s, N)
           \/ s.end_id < s.bgn_id
    BY <1>2, <1>3, RingsFit, FillingFacts
  <1>5. /\ s.bgn_id \in Nat /\ s.end_id \in Nat /\ s.end_id < IdMod
        /\ Span(s) = s.bgn_id .. s.bgn_id + SndCap - 1
    <2>1. s.capacity = SndCap /\ s.bgn_id \in Nat /\ s.end_id \in Nat /\ s.end_id \in Ids
      BY <1>2, PoolFacts
    <2> QED
      BY <2>1 DEF Span, Ids
  <1>6. ASSUME NEW id \in s.bgn_id .. s.end_id - 1 PROVE Get(s, id).id = id
    <2>0. SndInv(s, N) /\ s.end_id < s.bgn_id + SndCap /\ s.end_id <= N
      BY <1>2, <1>4, <1>5, RingFacts DEF SndInv
    <2>1. id \in Span(s) /\ id < N /\ id \in Nat /\ id < IdMod /\ s.bgn_id <= id
      BY <1>2, <1>5, <2>0
    <2>2. Get(s, id) = Slot(s, id)
      BY <1>2, <2>1, IndexSlot
    <2> QED
      BY <2>0, <2>1, <2>2 DEF SndInv, SndRing
  <1>7. s.end_id - s.bgn_id < SndCap
    BY <1>4, <1>5
  <1> QED
    BY <1>1, <1>4, <1>6, <1>7

(* The sender forgets a packet, or stops sending it again, only when the   *)
(* peer has it (protocol_recv, wndpool_ack, remove_acked), whatever the    *)
(* network lost, repeated or reordered.                                    *)
THEOREM AckedReceived == Spec => []AckedIsReceived
  BY LinkCorrect, LinkAcked, PTL

(* A packet that was stamped and not yet removed sits in its own window,   *)
(* from which protocol_send_unacked can send it again.                     *)
THEOREM Retained == Spec => []RetainedUntilRemoved
  <1>1. LinkInv => RetainedUntilRemoved
    BY LinkRetained
  <1> QED
    BY <1>1, LinkCorrect, PTL

(* The error branch of mc_protocol.c:92 is dead: between two calls the     *)
(* first packet in flight is never an acknowledged one.                    *)
THEOREM FirstUnacked == Spec => []FirstIsUnacked
  <1>1. LinkInv => FirstIsUnacked
    BY LinkRetained
  <1> QED
    BY <1>1, LinkCorrect, PTL
=============================================================================
