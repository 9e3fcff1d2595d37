----------------------------- MODULE MCCommWrap -----------------------------
(***************************************************************************)
(* An instance of the link whose packet ids run out.  It starts late: the  *)
(* state is one that Comm reaches when endpoint 0 has sent Start full      *)
(* packets, all of them acknowledged and read, and the network has kept a  *)
(* copy of the first one and of its acknowledgement.                       *)
(***************************************************************************)
EXTENDS CommContent

CONSTANTS
  Start,   \* packets exchanged before the instance begins
  More     \* bound: the bytes sent after them

OneWayMore == [e \in End |-> IF e = 0 THEN Start * Payload + More ELSE 0]

(* A pool after Start packets went through it.                             *)
Moved(p) ==
  [p EXCEPT !.bgn_id = Start, !.end_id = Start, !.bgn_index = Start % p.capacity]

Packets == [i \in 1 .. Start |-> [from |-> (i - 1) * Payload, size |-> Payload]]

LateInit ==
  /\ snd = [e \in End |-> LET p == InitPool(SndCap, 0) IN IF e = 0 THEN Moved(p) ELSE p]
  /\ rcv = [e \in End |-> LET p == InitPool(RcvCap, 0) IN IF e = 1 THEN Moved(p) ELSE p]
  /\ net = [e \in End |-> IF e = 1
                          THEN {[type |-> "data", id |-> 0, from |-> 0, size |-> Payload]}
                          ELSE {AckFrame(0)}]
  /\ call = [e \in End |-> Idle]
  /\ accepted = [e \in End |-> IF e = 0 THEN Start * Payload ELSE 0]
  /\ delivered = [e \in End |-> IF e = 1 THEN [i \in 1 .. Start * Payload |-> i] ELSE << >>]
  /\ log = [e \in End |-> IF e = 0 THEN Packets ELSE << >>]

LateSpec == LateInit /\ [][Next]_vars
=============================================================================
