------------------------------- MODULE Stream -------------------------------
(***************************************************************************)
(* What the link of src/src/io/communication promises the applications at  *)
(* its two ends: in each direction a reliable byte stream with a bounded   *)
(* amount of data under way.  Byte positions stand for bytes.              *)
(***************************************************************************)
EXTENDS Integers, Sequences

CONSTANT Capacity   \* the most bytes one direction may hold undelivered

Ends == 0 .. 1
Other(e) == 1 - e

VARIABLES
  accepted,   \* accepted[e]: bytes taken from the application at e
  arrived,    \* arrived[e]: of these, the bytes safe at the other end
  delivered,  \* delivered[e]: the positions handed to the application at e
  flushed     \* flushed[e]: the last call of e was a flush that succeeded

streamVars == <<accepted, arrived, delivered, flushed>>

StreamInit ==
  /\ accepted  = [e \in Ends |-> 0]
  /\ arrived   = [e \in Ends |-> 0]
  /\ delivered = [e \in Ends |-> << >>]
  /\ flushed   = [e \in Ends |-> FALSE]

(* The next bytes are taken, if they find room.                            *)
Accept(e) ==
  /\ \E n \in 1 .. Capacity :
       /\ accepted[e] + n - Len(delivered[Other(e)]) <= Capacity
       /\ accepted' = [accepted EXCEPT ![e] = @ + n]
  /\ ~flushed[e]
  /\ UNCHANGED <<arrived, delivered, flushed>>

(* Some bytes more are safe at the other end, none of them skipped.        *)
Arrive(e) ==
  /\ \E n \in arrived[e] + 1 .. accepted[e] : arrived' = [arrived EXCEPT ![e] = n]
  /\ UNCHANGED <<accepted, delivered, flushed>>

(* The next bytes that arrived are handed over.                            *)
Deliver(e) ==
  /\ \E n \in Len(delivered[e]) + 1 .. arrived[Other(e)] :
       delivered' = [delivered EXCEPT ![e] = [i \in 1 .. n |-> i]]
  /\ UNCHANGED <<accepted, arrived, flushed>>

(* A flush succeeds once everything accepted is safe at the other end.     *)
Flush(e) ==
  /\ arrived[e] = accepted[e]
  /\ flushed' = [flushed EXCEPT ![e] = TRUE]
  /\ UNCHANGED <<accepted, arrived, delivered>>

Forget(e) ==
  /\ flushed' = [flushed EXCEPT ![e] = FALSE]
  /\ UNCHANGED <<accepted, arrived, delivered>>

StreamNext ==
  \E e \in Ends : Accept(e) \/ Arrive(e) \/ Deliver(e) \/ Flush(e) \/ Forget(e)

StreamSpec == StreamInit /\ [][StreamNext]_streamVars
=============================================================================
