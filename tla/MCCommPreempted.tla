-------------------------- MODULE MCCommPreempted ---------------------------
(* One direction: endpoint 0 sends, endpoint 1 receives.                   *)
EXTENDS CommPreempted

OneWay3 == [e \in End |-> IF e = 0 THEN 3 ELSE 0]
=============================================================================
