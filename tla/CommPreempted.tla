--------------------------- MODULE CommPreempted ----------------------------
(***************************************************************************)
(* The link of Comm when mc_comm_update also runs in a timer callback or a *)
(* thread of its own, which the comment at mc_communication.c:16 and       *)
(* api.md:93 allow.  There is no lock: the update may come between the     *)
(* tests of wndpool_write and the copy that follows them, when `window'    *)
(* already points to the window that was the last one.                     *)
(*                                                                         *)
(* The update runs to its end, as in a callback, and at this place only:   *)
(* one is enough to show what it does.  Other places in wndpool_write, and *)
(* those in mc_comm_recv, are not modelled.                                *)
(*                                                                         *)
(* The module is for payloads of at most 2 bytes: an append to a stamped   *)
(* window then fills it.  With more room it could leave one that is longer *)
(* but not full, whose checksum is wrong, and frames carry none here.      *)
(***************************************************************************)
EXTENDS Comm

VARIABLE
  write   \* write[e]: the index of `window' and the bytes left to take, of the
          \* wndpool_write that endpoint e is in

allVars == <<vars, write>>

NoWrite == [window |-> 0, left |-> 0]

PreInit == Init /\ write = [e \in End |-> NoWrite]

(* wndpool_write of mc_comm_send passes its tests.                         *)
WriteBegins(e) ==
  /\ call[e].fn = "send"
  /\ CanWrite(snd[e])
  /\ write' = [write EXCEPT ![e] = [window |-> LastIndex(snd[e]),
                                    left   |-> Smaller(call[e].left, Payload)]]
  /\ UNCHANGED vars

(* The timer's mc_comm_update.                                             *)
TimerUpdates(e) ==
  /\ \E f \in net[e] \cup {NoFrame}, keep, stale \in BOOLEAN,
        due \in SUBSET (snd[e].bgn_id .. snd[e].end_id - 1) :
       Pump(e, f, keep, due, stale)
  /\ UNCHANGED <<call, accepted, delivered, write>>

(* The first pass of the loop with `window' at index k, of n bytes after   *)
(* stream position pos.  When k is not the last window any more, the       *)
(* header goes to another window than the data, and what is sent has no    *)
(* valid header.                                                           *)
FirstSeg(p, k, pos, n) ==
  LET w    == p.windows[k]
      seg  == Smaller(n, Payload - w.size)
      grow == [w EXCEPT !.from = IF w.size = 0 THEN pos ELSE w.from,
                        !.size = w.size + seg]
      fill == [p EXCEPT !.windows[k] = grow]
      next == [UpdateHeader(fill) EXCEPT !.end_id = (p.end_id + 1) % IdMod]
  IN  IF w.size + seg = Payload /\ Count(fill) < p.capacity
      THEN [pool |-> [next EXCEPT !.windows[LastIndex(next)] = Cleared],
            taken |-> seg,
            sent  |-> IF k = LastIndex(fill)
                      THEN <<DataFrame(Last(UpdateHeader(fill)))>> ELSE << >>]
      ELSE [pool |-> fill, taken |-> seg, sent |-> << >>]

(* The rest of wndpool_write and of the iteration of mc_comm_send.         *)
WriteEnds(e, timedOut) ==
  LET n   == write[e].left
      one == FirstSeg(snd[e], write[e].window, accepted[e], n)
      two == WriteSeg(one.pool, accepted[e] + one.taken, n - one.taken)
      res == IF one.taken = n THEN one
             ELSE [pool |-> two.pool, sent |-> one.sent \o two.sent]
  IN  /\ snd' = [snd EXCEPT ![e] = res.pool]
      /\ net' = [net EXCEPT ![Peer(e)] = @ \cup Range(res.sent)]
      /\ log' = [log EXCEPT ![e] = @ \o [i \in DOMAIN res.sent |-> ContentOf(res.sent[i])]]
      /\ accepted' = [accepted EXCEPT ![e] = @ + n]
      /\ IF timedOut \/ call[e].left = n
         THEN Return(e)
         ELSE call' = [call EXCEPT ![e].left = @ - n]
      /\ write' = [write EXCEPT ![e] = NoWrite]
      /\ UNCHANGED <<rcv, delivered>>

(* Endpoints outside a write go on as in Comm, their whole write among     *)
(* the steps.                                                              *)
PreNext ==
  \E e \in End :
    IF write[e] = NoWrite
    THEN \/ WriteBegins(e)
         \/ Step(e) /\ UNCHANGED write
    ELSE \/ TimerUpdates(e)
         \/ \E timedOut \in BOOLEAN : WriteEnds(e, timedOut)

PreSpec == PreInit /\ [][PreNext]_allVars
=============================================================================
