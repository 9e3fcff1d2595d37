------------------------------- MODULE MCComm -------------------------------
(* Instances of the link for TLC.                                          *)
EXTENDS CommContent, CommLiveness

(* One direction: endpoint 0 sends, endpoint 1 receives.                   *)
OneWay2 == [e \in End |-> IF e = 0 THEN 2 ELSE 0]

(* Both directions at once.                                                *)
ThreeAndOne == [e \in End |-> IF e = 0 THEN 3 ELSE 1]
=============================================================================
