---------------------------- MODULE CommLiveness ----------------------------
(***************************************************************************)
(* Liveness of the link.  The fairness is what the documentation asks of   *)
(* the application and of the network:                                     *)
(*   - mc_comm_update is called regularly and time passes, so that again   *)
(*     and again every packet in flight is due and an incomplete window is *)
(*     stale (api.md:93);                                                  *)
(*   - the network loses packets only for a while, of any length, and what *)
(*     is under way afterwards is received;                                *)
(*   - an application that may receive more calls mc_comm_recv again and   *)
(*     again and lets it read, a call under way goes on, and a flush times *)
(*     out at last.                                                        *)
(***************************************************************************)
EXTENDS Comm

(* An update that finds no frame but every timer expired.                  *)
Resend(e) ==
  \E timedOut \in BOOLEAN :
    Updates(e, NoFrame, TRUE, snd[e].bgn_id .. snd[e].end_id - 1, TRUE, timedOut)

(* An update that receives a frame of this type and id.                    *)
Receive(e, type, id) ==
  \E f \in net[e], stale, timedOut \in BOOLEAN :
    /\ f.type = type /\ f.id = id
    /\ Updates(e, f, FALSE, {}, stale, timedOut)

(* A flush ends, successful or not.                                        *)
FlushEnds(e) == FlushReturns(e) \/ FlushWaits(e, NoFrame, TRUE, {}, FALSE, TRUE)

(* Endpoint e as the sender of MaxBytes[e] bytes.                          *)
FairSender(e) ==
  /\ SF_vars(Resend(e))
  /\ \A id \in 0 .. MaxBytes[e] - 1 : SF_vars(Receive(e, "ack", id))
  /\ WF_vars(\E timedOut \in BOOLEAN : SendWrites(e, timedOut))
  /\ WF_vars(FlushEnds(e))

(* Endpoint e as the receiver of what its peer sends.                      *)
FairReceiver(e) ==
  /\ \A id \in 0 .. MaxBytes[Peer(e)] - 1 : SF_vars(Receive(e, "data", id))
  /\ SF_vars(\E n \in 1 .. MaxCall : CallRecv(e, n))
  /\ SF_vars(RecvReads(e))
  /\ SF_vars(FlushEnds(e))

Senders == {e \in End : MaxBytes[e] > 0}

(* A frame that is received but of no use disappears like a lost one.      *)
StopsLosing ==
  <>[][\A e \in End : \A f \in net[e] : Lose(e, f) => Receive(e, f.type, f.id)]_vars

Fairness ==
  /\ \A e \in Senders : FairSender(e) /\ FairReceiver(Peer(e))
  /\ StopsLosing

FairSpec == Spec /\ Fairness

(* Every packet once stamped is acknowledged and removed at last, so that  *)
(* its window is free again (protocol_send_unacked and the re-acknowledge- *)
(* ment of old packets in protocol_recv).                                  *)
StampedIsRemoved ==
  \A e \in End : \A n \in 1 .. MaxBytes[e] :
    Len(log[e]) >= n ~> snd[e].bgn_id >= n

(* Every byte in a stamped packet reaches the peer's application.          *)
StampedIsDelivered ==
  \A e \in End : \A n \in 1 .. MaxBytes[e] :
    (log[e] # << >> /\ log[e][Len(log[e])].from + log[e][Len(log[e])].size >= n)
      ~> Len(delivered[Peer(e)]) >= n

(* "guarantees reliable transfer" (communication.md:4): every byte that    *)
(* mc_comm_send accepted reaches the peer's application.                   *)
AcceptedIsDelivered ==
  \A e \in End : \A n \in 1 .. MaxBytes[e] :
    accepted[e] >= n ~> Len(delivered[Peer(e)]) >= n
=============================================================================
