--------------------------- MODULE CommRefinement ---------------------------
(***************************************************************************)
(* The link implements the byte stream of Stream.tla.                      *)
(***************************************************************************)
EXTENDS Comm

(* Stream position at which packet id starts, in the stream stamped in L.  *)
StartOf(L, id) == IF id = 0 THEN 0 ELSE L[id].from + L[id].size

(* The first packet the receiving pool q lacks: all before it are safe.    *)
FirstMissing(q) ==
  CHOOSE n \in q.bgn_id .. q.bgn_id + RcvCap :
    /\ ~Received(q, n)
    /\ \A id \in q.bgn_id .. n - 1 : Received(q, id)

Arrived == [e \in End |-> StartOf(log[e], FirstMissing(rcv[Peer(e)]))]

S == INSTANCE Stream WITH
       Capacity <- (SndCap + RcvCap) * Payload,
       arrived  <- Arrived,
       flushed  <- [e \in End |-> call[e] = Flushed]

(* Whatever the network loses, repeats or reorders, the two applications   *)
(* see a reliable byte stream in each direction: mc_comm_recv delivers     *)
(* what mc_comm_send accepted, in order, no more than the two pools hold   *)
(* is ever under way, and mc_comm_flush is true only when all of it is     *)
(* safe at the peer.                                                       *)
ImplementsStream == S!StreamSpec
=============================================================================
