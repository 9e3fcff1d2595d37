------------------------------- MODULE Frame --------------------------------
(***************************************************************************)
(* Packets over a line that knows only bytes (a UART, say): io_send and    *)
(* io_recv of src/src/io/communication/mc_io.c and frame_recv of           *)
(* mc_frame.c, one direction of the link.  A packet is always window_size  *)
(* bytes; nothing else tells the receiver where one ends, so sender and    *)
(* receiver are in step or they are not.                                   *)
(*                                                                         *)
(* A byte is the packet it is of and its place in it, or Noise.  The       *)
(* header and the checksum of a window are right exactly if it is a whole  *)
(* packet: a window that starts with the header by chance, or has the      *)
(* checksum of 16 bits by chance, is not modelled.  A packet sent again    *)
(* has the same bytes.                                                     *)
(*                                                                         *)
(* The line and the two callbacks are external: the line keeps the order   *)
(* of the bytes, may lose or change any of them (bytes are lost and        *)
(* changed where they leave the line), and the driver takes what fits.     *)
(***************************************************************************)
EXTENDS Integers, Sequences, FiniteSets

CONSTANTS
  WindowSize,  \* bytes of a packet: window_size, the same at both ends
  Packets,     \* the packets that are sent, each any number of times
  Dropped,     \* what becomes of a window that is not a packet
  LineSize,    \* bytes that fit the line and the buffers of its drivers
  Cuts,        \* whether a driver takes a part of a packet that does not fit
  MaxSends,    \* bound: packets that io_send reports as sent
  MaxShort,    \* bound: bytes sent by attempts that took a part
  MaxLost,     \* bound: bytes the line loses
  MaxChanged   \* bound: bytes it changes

ASSUME FrameAssumption ==
  /\ WindowSize \in Nat \ {0} /\ LineSize \in Nat /\ LineSize >= WindowSize
  /\ Packets # {} /\ Dropped \notin Packets
  /\ Cuts \in BOOLEAN
  /\ MaxSends \in Nat /\ MaxShort \in Nat /\ MaxLost \in Nat /\ MaxChanged \in Nat

VARIABLES
  line,      \* the bytes under way
  temp,      \* temp_window: the temp_stored bytes of the packet in assembly
  sending,   \* the packet io_send is under way with, and the attempts left
  sent,      \* history: the packets that io_send has returned true for
  windows,   \* history: what frame_recv made of each window: the packet it gave
             \* to protocol_recv, or Dropped
  short, lost, changed  \* history: bytes sent in vain, lost and changed

sender == <<sending, sent, short>>
receiver == <<temp, windows>>
faults == <<lost, changed>>
vars == <<line, sender, receiver, faults>>

Attempts == 3
NoSend == [pkt |-> CHOOSE p \in Packets : TRUE, left |-> 0]

Byte == [pkt : Packets, at : 1 .. WindowSize]
Noise == [pkt |-> NoSend.pkt, at |-> 0]

Bytes(p) == [i \in 1 .. WindowSize |-> [pkt |-> p, at |-> i]]

TypeOK ==
  /\ line \in Seq(Byte \cup {Noise}) /\ Len(line) <= LineSize
  /\ temp \in Seq(Byte \cup {Noise}) /\ Len(temp) < WindowSize
  /\ sending \in [pkt : Packets, left : 0 .. Attempts]
  /\ sent \in Seq(Packets) /\ windows \in Seq(Packets \cup {Dropped})
  /\ short \in 0 .. MaxShort /\ lost \in 0 .. MaxLost /\ changed \in 0 .. MaxChanged

Init ==
  /\ line = << >> /\ temp = << >>
  /\ sending = NoSend
  /\ sent = << >> /\ windows = << >>
  /\ short = 0 /\ lost = 0 /\ changed = 0

Smaller(a, b) == IF a <= b THEN a ELSE b

-----------------------------------------------------------------------------
(* The sender.                                                             *)

(* io_send of packet p is called.                                          *)
IoSend(p) ==
  /\ sending.left = 0
  /\ Len(sent) < MaxSends
  /\ sending' = [pkt |-> p, left |-> Attempts]
  /\ UNCHANGED <<line, sent, short, receiver, faults>>

Room == LineSize - Len(line)

Taken == IF Room >= WindowSize THEN WindowSize ELSE IF Cuts THEN Room ELSE 0

(* Mutant: an io.send that takes a part counts as done.                    *)
AttemptTakesPart ==
  /\ sending.left > 0
  /\ line' = line \o SubSeq(Bytes(sending.pkt), 1, Taken)
  /\ IF Taken # 0
     THEN sending' = NoSend /\ sent' = Append(sent, sending.pkt)
     ELSE /\ sending' = IF sending.left = 1 THEN NoSend ELSE [sending EXCEPT !.left = @ - 1]
          /\ UNCHANGED sent
  /\ UNCHANGED <<short, receiver, faults>>

(* Mutant: the loop goes on after the attempt that sent the packet.        *)
AttemptAgain ==
  /\ sending.left > 0
  /\ line' = line \o SubSeq(Bytes(sending.pkt), 1, Taken)
  /\ sending' = IF sending.left = 1 THEN NoSend ELSE [sending EXCEPT !.left = @ - 1]
  /\ sent' = IF Taken = WindowSize /\ sending.left = Attempts
             THEN Append(sent, sending.pkt) ELSE sent
  /\ short + (Taken % WindowSize) <= MaxShort
  /\ short' = short + (Taken % WindowSize)
  /\ UNCHANGED <<receiver, faults>>

(* One attempt: io.send takes the packet, or a part of it, which stays on  *)
(* the line; the next attempt begins with its first byte again.            *)
Attempt ==
  /\ sending.left > 0
  /\ line' = line \o SubSeq(Bytes(sending.pkt), 1, Taken)
  /\ IF Taken = WindowSize
     THEN /\ sending' = NoSend
          /\ sent' = Append(sent, sending.pkt)
          /\ UNCHANGED short
     ELSE /\ short + Taken <= MaxShort
          /\ short' = short + Taken
          /\ sending' = IF sending.left = 1 THEN NoSend ELSE [sending EXCEPT !.left = @ - 1]
          /\ UNCHANGED sent
  /\ UNCHANGED <<receiver, faults>>

-----------------------------------------------------------------------------
(* The receiver.                                                           *)

IsPacket(w) == \E p \in Packets : w = Bytes(p)

(* Mutant: a window that is thrown away stays in temp_window.              *)
FrameRecvKeeps(w) ==
  IF Len(w) # WindowSize
  THEN temp' = w /\ UNCHANGED windows
  ELSE IF IsPacket(w)
  THEN temp' = << >> /\ windows' = Append(windows, w[1].pkt)
  ELSE temp' = w /\ windows' = Append(windows, Dropped)

(* frame_recv with the bytes w in temp_window: nothing until they are a    *)
(* whole window, which is a packet, or is thrown away (frame_drop does     *)
(* not look for the next header).                                          *)
FrameRecv(w) ==
  IF Len(w) # WindowSize
  THEN temp' = w /\ UNCHANGED windows
  ELSE /\ temp' = << >>
       /\ windows' = Append(windows, IF IsPacket(w) THEN w[1].pkt ELSE Dropped)

(* Mutants: a read asks for a whole window; it begins at the first byte of *)
(* temp_window again.                                                      *)
IoRecvWhole(r) ==
  /\ r <= Smaller(WindowSize, Len(line))
  /\ line' = SubSeq(line, r + 1, Len(line))
  /\ FrameRecv(temp \o SubSeq(line, 1, r))
  /\ UNCHANGED <<sender, faults>>
IoRecvOver(r) ==
  /\ r <= Smaller(WindowSize - Len(temp), Len(line))
  /\ line' = SubSeq(line, r + 1, Len(line))
  /\ FrameRecv(SubSeq(line, 1, r))
  /\ UNCHANGED <<sender, faults>>

(* io_recv asks for the bytes that the window lacks and gets r of them,    *)
(* none perhaps.                                                           *)
IoRecv(r) ==
  /\ r <= Smaller(WindowSize - Len(temp), Len(line))
  /\ line' = SubSeq(line, r + 1, Len(line))
  /\ IF r = 0 THEN UNCHANGED <<temp, windows>> ELSE FrameRecv(temp \o SubSeq(line, 1, r))
  /\ UNCHANGED <<sender, faults>>

-----------------------------------------------------------------------------
(* The line.                                                               *)

LoseByte ==
  /\ line # << >> /\ lost < MaxLost
  /\ line' = Tail(line)
  /\ lost' = lost + 1
  /\ UNCHANGED <<changed, sender, receiver>>

ChangeByte ==
  /\ line # << >> /\ line[1] # Noise /\ changed < MaxChanged
  /\ line' = [line EXCEPT ![1] = Noise]
  /\ changed' = changed + 1
  /\ UNCHANGED <<lost, sender, receiver>>

Next ==
  \/ \E p \in Packets : IoSend(p)
  \/ Attempt
  \/ \E r \in 0 .. WindowSize : IoRecv(r)
  \/ LoseByte
  \/ ChangeByte

Spec == Init /\ [][Next]_vars

(* mc_comm_update is called again and again (api.md:93) and reads what is  *)
(* there.                                                                  *)
Fairness == WF_vars(\E r \in 1 .. WindowSize : IoRecv(r))

FairSpec == Spec /\ Fairness

-----------------------------------------------------------------------------
(* Properties.                                                             *)

(* Every byte the driver took is under way, in temp_window, part of a      *)
(* window that was met, or lost by the line, and is none of these twice:   *)
(* the arithmetic of temp_stored in io_recv and frame_recv, whatever reads *)
(* are short and attempts cut.                                             *)
BytesAccounted ==
  Len(line) + Len(temp) + WindowSize * Len(windows) + lost
    = WindowSize * Len(sent) + short

DroppedAt(ws) == {i \in DOMAIN ws : ws[i] = Dropped}

(* On a line that loses nothing, below a driver that takes packets whole   *)
(* or not at all, damage is contained: the n-th window is the n-th packet  *)
(* io_send reported as sent, or is thrown away, and no more windows are    *)
(* thrown away than bytes were changed.                                    *)
InStep ==
  lost = 0 /\ short = 0 =>
    /\ Len(windows) <= Len(sent)
    /\ \A i \in DOMAIN windows : windows[i] \in {sent[i], Dropped}
    /\ Cardinality(DroppedAt(windows)) <= changed

Given == {i \in DOMAIN windows : windows[i] # Dropped}

(* Whatever the line loses or changes and wherever attempts are cut, what  *)
(* frame_recv gives on are packets that io_send reported as sent, each     *)
(* once and in their order: the packets above may go missing and nothing   *)
(* else, though a window may be put together of two of them.               *)
OrderKept ==
  \E f \in [Given -> DOMAIN sent] :
    /\ \A i \in Given : windows[i] = sent[f[i]]
    /\ \A i, k \in Given : i < k => f[i] < f[k]

(* The bytes that were sent and not yet met, oldest first.                 *)
Underway == temp \o line

(* The byte that belongs at the j-th place of them.                        *)
Belongs(j) ==
  [pkt |-> sent[Len(windows) + 1 + (j - 1) \div WindowSize], at |-> 1 + ((j - 1) % WindowSize)]

NoiseAt(s) == {j \in DOMAIN s : s[j] = Noise}

(* Why InStep holds: while nothing was lost or sent in vain, each byte     *)
(* under way is in its place or was changed, and every change has spoilt   *)
(* one byte under way or one window at most.                               *)
InPlace ==
  lost = 0 /\ short = 0 =>
    /\ \A j \in DOMAIN Underway : Underway[j] \in {Noise, Belongs(j)}
    /\ Cardinality(DroppedAt(windows)) + Cardinality(NoiseAt(Underway)) <= changed
    /\ Len(windows) <= Len(sent)
    /\ \A i \in DOMAIN windows : windows[i] \in {sent[i], Dropped}

(* The last packet on the line ends where a window of the receiver ends.   *)
Aligned ==
  LET n == Len(Underway)
  IN  /\ n >= WindowSize /\ n % WindowSize = 0
      /\ IsPacket(SubSeq(Underway, n - WindowSize + 1, n))

(* Whatever was lost and cut before, a packet that is in step again is     *)
(* met, unless the line damages something after it was sent: a window that *)
(* is thrown away leaves nothing behind in temp_window.                    *)
AlignedArrives ==
  \A n \in 0 .. MaxSends, l \in 0 .. MaxLost, c \in 0 .. MaxChanged :
    Aligned /\ lost = l /\ changed = c /\ Len(SelectSeq(windows, LAMBDA w : w # Dropped)) = n
      ~> \/ Len(SelectSeq(windows, LAMBDA w : w # Dropped)) > n
         \/ lost > l \/ changed > c
=============================================================================
