---------------------------- MODULE FrameProofs -----------------------------
(* Proofs about Frame, for every window size, set of packets, length of    *)
(* the line and bound on the faults, with and without drivers that cut.    *)
EXTENDS Frame, Arithmetic, FiniteSetTheorems

LEMMA Distributes ==
  ASSUME NEW a \in Nat, NEW b \in Nat
  PROVE  a * (b + 1) = a * b + a
  OBVIOUS

LEMMA BytesOf ==
  ASSUME NEW p \in Packets
  PROVE  /\ Bytes(p) \in Seq(Byte \cup {Noise})
         /\ Len(Bytes(p)) = WindowSize
  <1>1. WindowSize \in Nat
    BY FrameAssumption
  <1>2. \A i \in 1 .. WindowSize : [pkt |-> p, at |-> i] \in Byte
    BY DEF Byte
  <1> QED
    BY <1>1, <1>2 DEF Bytes

(* A prefix and the rest of a sequence.                                    *)
LEMMA Cut ==
  ASSUME NEW S, NEW s \in Seq(S), NEW n \in 0 .. Len(s)
  PROVE  /\ SubSeq(s, 1, n) \in Seq(S) /\ Len(SubSeq(s, 1, n)) = n
         /\ SubSeq(s, n + 1, Len(s)) \in Seq(S)
         /\ Len(SubSeq(s, n + 1, Len(s))) = Len(s) - n
  OBVIOUS

LEMMA InitType == Init => TypeOK /\ BytesAccounted
  <1> SUFFICES ASSUME Init PROVE TypeOK /\ BytesAccounted
    OBVIOUS
  <1>1. NoSend \in [pkt : Packets, left : 0 .. Attempts]
    BY FrameAssumption DEF NoSend, Attempts
  <1>2. WindowSize * 0 = 0
    BY FrameAssumption
  <1>3. TypeOK
    BY <1>1, FrameAssumption DEF Init, TypeOK
  <1>4. BytesAccounted
    BY <1>2 DEF Init, BytesAccounted
  <1> QED
    BY <1>3, <1>4

(* Each step keeps the types and the account.                              *)
LEMMA StepType ==
  TypeOK /\ BytesAccounted /\ [Next]_vars => TypeOK' /\ BytesAccounted'
  <1> SUFFICES ASSUME TypeOK, BytesAccounted, [Next]_vars
               PROVE  TypeOK' /\ BytesAccounted'
    OBVIOUS
  <1> DEFINE AnyByte == Byte \cup {Noise}
  <1>0. /\ WindowSize \in Nat \ {0} /\ LineSize \in Nat /\ LineSize >= WindowSize
        /\ line \in Seq(AnyByte) /\ temp \in Seq(AnyByte)
        /\ sent \in Seq(Packets) /\ windows \in Seq(Packets \cup {Dropped})
        /\ short \in Nat /\ lost \in Nat /\ changed \in Nat
    BY FrameAssumption DEF TypeOK
  <1> DEFINE A == WindowSize * Len(windows)
             B == WindowSize * Len(sent)
             Account == Len(line) + Len(temp) + A + lost = B + short
  <1>a. A \in Nat /\ B \in Nat /\ Account
    BY <1>0 DEF BytesAccounted
  <1>b. Account' => BytesAccounted'
    BY DEF BytesAccounted
  <1>c. /\ windows' = windows => A' = A
        /\ sent' = sent => B' = B
    OBVIOUS
  <1>d. /\ Len(line) \in Nat /\ Len(temp) \in Nat /\ Len(temp) < WindowSize
        /\ WindowSize \in Nat /\ short \in Nat /\ lost \in Nat
    BY <1>0 DEF TypeOK
  <1> HIDE DEF A, B
  <1>1. ASSUME NEW p \in Packets, IoSend(p) PROVE TypeOK' /\ BytesAccounted'
    <2>1. sending' \in [pkt : Packets, left : 0 .. Attempts]
      BY <1>1 DEF IoSend, Attempts
    <2>2. TypeOK'
      BY <2>1, <1>1 DEF IoSend, TypeOK, receiver, faults
    <2>3. BytesAccounted'
      BY <1>1, <1>a, <1>b, <1>c DEF IoSend, receiver, faults
    <2> QED BY <2>2, <2>3
  <1>2. CASE Attempt
    <2> DEFINE b == Bytes(sending.pkt)
    <2>1. sending.pkt \in Packets /\ sending.left \in 0 .. Attempts
      BY DEF TypeOK
    <2>2. b \in Seq(AnyByte) /\ Len(b) = WindowSize
      BY <2>1, BytesOf
    <2>3. Taken \in 0 .. WindowSize /\ Len(line) + Taken <= LineSize
      BY <1>0 DEF Taken, Room, TypeOK
    <2>4. SubSeq(b, 1, Taken) \in Seq(AnyByte) /\ Len(SubSeq(b, 1, Taken)) = Taken
      <3> HIDE DEF b, AnyByte
      <3> QED BY <2>2, <2>3, Cut
    <2>5. line' \in Seq(AnyByte) /\ Len(line') = Len(line) + Taken
      <3> HIDE DEF b, AnyByte
      <3>1. line' = line \o SubSeq(b, 1, Taken)
        BY <1>2 DEF Attempt, b
      <3> QED BY <3>1, <2>4, <1>0
    <2>6. NoSend \in [pkt : Packets, left : 0 .. Attempts]
      BY FrameAssumption DEF NoSend, Attempts
    <2>7. CASE Taken = WindowSize
      <3>1. /\ sending' = NoSend /\ sent' = Append(sent, sending.pkt) /\ short' = short
            /\ UNCHANGED <<receiver, faults>>
        BY <1>2, <2>7 DEF Attempt
      <3>2. sent' \in Seq(Packets) /\ Len(sent') = Len(sent) + 1
        BY <3>1, <2>1, <1>0
      <3>3. B' = B + WindowSize
        BY <3>2, <1>0, Distributes DEF B
      <3>4. TypeOK'
        BY <3>1, <3>2, <2>3, <2>5, <2>6 DEF TypeOK, receiver, faults
      <3>5. BytesAccounted'
        <4>1. A' = A /\ temp' = temp /\ lost' = lost /\ short' = short
          BY <3>1, <1>c DEF receiver, faults
        <4> HIDE DEF AnyByte, b
        <4> QED
          BY <4>1, <3>3, <2>5, <2>7, <1>a, <1>b, <1>d
      <3> QED BY <3>4, <3>5
    <2>8. CASE Taken # WindowSize
      <3>1. /\ short + Taken <= MaxShort /\ short' = short + Taken /\ sent' = sent
            /\ sending' = IF sending.left = 1 THEN NoSend
                          ELSE [sending EXCEPT !.left = @ - 1]
            /\ sending.left > 0
            /\ UNCHANGED <<receiver, faults>>
        BY <1>2, <2>8 DEF Attempt
      <3>2. sending' \in [pkt : Packets, left : 0 .. Attempts]
        BY <3>1, <2>1, <2>6 DEF TypeOK, Attempts
      <3>3. short' \in 0 .. MaxShort
        BY <3>1, <2>3, <1>0, FrameAssumption
      <3>4. TypeOK'
        BY <3>1, <3>2, <3>3, <2>3, <2>5 DEF TypeOK, receiver, faults
      <3>5. BytesAccounted'
        <4>1. A' = A /\ B' = B /\ temp' = temp /\ lost' = lost /\ short' = short + Taken
          BY <3>1, <1>c DEF receiver, faults
        <4> HIDE DEF AnyByte, b
        <4> QED
          BY <4>1, <2>3, <2>5, <1>a, <1>b, <1>d
      <3> QED BY <3>4, <3>5
    <2> QED BY <2>7, <2>8
  <1>3. ASSUME NEW r \in 0 .. WindowSize, IoRecv(r) PROVE TypeOK' /\ BytesAccounted'
    <2> DEFINE w == temp \o SubSeq(line, 1, r)
    <2>1. r \in 0 .. Len(line) /\ Len(temp) + r <= WindowSize
      BY <1>3, <1>0 DEF IoRecv, Smaller
    <2>2. /\ SubSeq(line, 1, r) \in Seq(AnyByte) /\ Len(SubSeq(line, 1, r)) = r
          /\ line' \in Seq(AnyByte) /\ Len(line') = Len(line) - r
      <3> HIDE DEF AnyByte
      <3> QED BY <1>3, <1>0, <2>1, Cut DEF IoRecv
    <2>3. w \in Seq(AnyByte) /\ Len(w) = Len(temp) + r
      <3> HIDE DEF AnyByte
      <3> QED BY <2>2, <1>0
    <2>4. UNCHANGED <<sender, faults>>
      BY <1>3 DEF IoRecv
    <2>5. CASE r = 0
      <3>1. UNCHANGED <<temp, windows>>
        BY <1>3, <2>5 DEF IoRecv
      <3>2. TypeOK'
        BY <3>1, <2>2, <2>4, <2>5, <1>0 DEF TypeOK, sender, faults
      <3>3. BytesAccounted'
        BY <3>1, <2>2, <2>4, <2>5, <1>0, <1>a, <1>b, <1>c DEF sender, faults
      <3> QED BY <3>2, <3>3
    <2>6. CASE r # 0 /\ Len(w) # WindowSize
      <3>1. temp' = w /\ windows' = windows
        BY <1>3, <2>6 DEF IoRecv, FrameRecv
      <3> HIDE DEF w
      <3>2. Len(temp') < WindowSize
        BY <3>1, <2>1, <2>3, <2>6, <1>d
      <3>3. TypeOK'
        BY <3>1, <3>2, <2>1, <2>2, <2>3, <2>4, <1>0 DEF TypeOK, sender, faults
      <3>4. BytesAccounted'
        <4>1. A' = A /\ B' = B /\ lost' = lost /\ short' = short
          BY <3>1, <2>4, <1>c DEF sender, faults
        <4> HIDE DEF AnyByte
        <4> QED
          BY <4>1, <3>1, <2>1, <2>2, <2>3, <1>a, <1>b, <1>d, SMTT(30)
      <3> QED BY <3>3, <3>4
    <2>7. CASE r # 0 /\ Len(w) = WindowSize
      <3>1. /\ temp' = << >>
            /\ windows' = Append(windows, IF IsPacket(w) THEN w[1].pkt ELSE Dropped)
        BY <1>3, <2>7 DEF IoRecv, FrameRecv
      <3>2. IsPacket(w) => w[1].pkt \in Packets
        <4>1. 1 \in 1 .. WindowSize
          BY <1>0
        <4>2. \A p \in Packets : Bytes(p)[1].pkt = p
          BY <4>1 DEF Bytes
        <4> HIDE DEF w
        <4> QED BY <4>2 DEF IsPacket
      <3>3. windows' \in Seq(Packets \cup {Dropped}) /\ Len(windows') = Len(windows) + 1
        <4> DEFINE x == IF IsPacket(w) THEN w[1].pkt ELSE Dropped
        <4>1. x \in Packets \cup {Dropped}
          BY <3>2
        <4>2. windows' = Append(windows, x)
          BY <3>1
        <4> HIDE DEF x
        <4> QED BY <4>1, <4>2, <1>0
      <3>4. A' = A + WindowSize
        BY <3>3, <1>0, Distributes DEF A
      <3> HIDE DEF w
      <3>5. TypeOK'
        BY <3>1, <3>3, <2>1, <2>2, <2>4, <1>0 DEF TypeOK, sender, faults
      <3>6. BytesAccounted'
        <4>1. B' = B /\ lost' = lost /\ short' = short /\ Len(temp') = 0
          BY <3>1, <2>4, <1>c DEF sender, faults
        <4> HIDE DEF AnyByte
        <4> QED
          BY <4>1, <3>4, <2>1, <2>2, <2>3, <2>7, <1>a, <1>b, <1>d
      <3> QED BY <3>5, <3>6
    <2> QED BY <2>5, <2>6, <2>7
  <1>4. CASE LoseByte
    <2>1. line' \in Seq(AnyByte) /\ Len(line') = Len(line) - 1 /\ lost' = lost + 1
      BY <1>4, <1>0 DEF LoseByte
    <2>2. lost' \in 0 .. MaxLost
      BY <1>4, <2>1, <1>0, FrameAssumption DEF LoseByte
    <2>3. TypeOK'
      BY <1>4, <2>1, <2>2, <1>0 DEF LoseByte, TypeOK, sender, receiver
    <2>4. BytesAccounted'
      <3>1. A' = A /\ B' = B /\ temp' = temp /\ short' = short
        BY <1>4, <1>c DEF LoseByte, sender, receiver
      <3> QED
        BY <3>1, <2>1, <1>a, <1>b, <1>d
    <2> QED BY <2>3, <2>4
  <1>5. CASE ChangeByte
    <2>1. line' \in Seq(AnyByte) /\ Len(line') = Len(line)
      BY <1>5, <1>0 DEF ChangeByte
    <2>2. changed' \in 0 .. MaxChanged
      BY <1>5, <1>0, FrameAssumption DEF ChangeByte
    <2>3. TypeOK'
      BY <1>5, <2>1, <2>2, <1>0 DEF ChangeByte, TypeOK, sender, receiver
    <2>4. BytesAccounted'
      BY <1>5, <2>1, <1>0, <1>a, <1>b, <1>c DEF ChangeByte, sender, receiver
    <2> QED BY <2>3, <2>4
  <1>6. CASE UNCHANGED vars
    BY <1>6 DEF vars, sender, receiver, faults, TypeOK, BytesAccounted
  <1> QED
    BY <1>1, <1>2, <1>3, <1>4, <1>5, <1>6 DEF Next

(* The window assembled in temp_window never outgrows it, and no byte that *)
(* a driver took is met twice or passed over by io_recv and frame_recv.    *)
THEOREM Accounted == Spec => [](TypeOK /\ BytesAccounted)
  <1>1. Init => TypeOK /\ BytesAccounted
    BY InitType
  <1>2. (TypeOK /\ BytesAccounted) /\ [Next]_vars => (TypeOK /\ BytesAccounted)'
    BY StepType
  <1> QED
    BY <1>1, <1>2, PTL DEF Spec

(* frame_recv never keeps as much as a window in its buffer, so what it    *)
(* reads next fits behind it, and a window it hands on is one packet whole *)
(* or one it dropped, for every size of a window and of the line.          *)
THEOREM FrameTypes == Spec => []TypeOK
  BY Accounted, PTL

-----------------------------------------------------------------------------
(* Where the bytes under way belong.                                       *)

AnyBytes == Byte \cup {Noise}

(* The bytes u follow those of the first n packets of ps, each changed or  *)
(* not.                                                                    *)
Placed(u, ps, n) ==
  \A j \in DOMAIN u :
    u[j] \in {Noise, [pkt |-> ps[n + 1 + (j - 1) \div WindowSize],
                      at  |-> 1 + ((j - 1) % WindowSize)]}

LEMMA ConcatOf ==
  ASSUME NEW S, NEW s \in Seq(S), NEW t \in Seq(S), NEW v, v = s \o t
  PROVE  /\ Len(v) = Len(s) + Len(t) /\ DOMAIN v = 1 .. Len(s) + Len(t)
         /\ \A i \in 1 .. Len(s) : v[i] = s[i]
         /\ \A i \in 1 .. Len(t) : v[Len(s) + i] = t[i]
  OBVIOUS

LEMMA PacketBehind ==
  ASSUME NEW u \in Seq(AnyBytes), NEW p \in Packets
  PROVE  /\ Len(u \o Bytes(p)) = Len(u) + WindowSize
         /\ \A j \in 1 .. Len(u) : (u \o Bytes(p))[j] = u[j]
         /\ \A a \in 1 .. WindowSize : (u \o Bytes(p))[Len(u) + a] = [pkt |-> p, at |-> a]
         /\ DOMAIN (u \o Bytes(p)) = 1 .. Len(u) + WindowSize
  <1>1. PICK b : b = Bytes(p)
    OBVIOUS
  <1>2. b \in Seq(AnyBytes) /\ Len(b) = WindowSize
        /\ \A a \in 1 .. WindowSize : b[a] = [pkt |-> p, at |-> a]
    BY <1>1, BytesOf DEF Bytes, AnyBytes
  <1>3. b \in Seq(AnyBytes)
    BY <1>2
  <1>4. Len(u \o b) = Len(u) + Len(b) /\ DOMAIN (u \o b) = 1 .. Len(u) + Len(b)
    BY <1>3
  <1>5. \A i \in 1 .. Len(u) : (u \o b)[i] = u[i]
    BY <1>3
  <1>6. \A i \in 1 .. Len(b) : (u \o b)[Len(u) + i] = b[i]
    BY <1>3
  <1> QED
    BY <1>1, <1>2, <1>4, <1>5, <1>6

LEMMA PlacedPacket ==
  ASSUME NEW u \in Seq(AnyBytes), NEW ps \in Seq(Packets), NEW n \in Nat, NEW m \in Nat,
         Len(ps) = n + m, Len(u) = WindowSize * m, Placed(u, ps, n), NEW p \in Packets
  PROVE  Placed(u \o Bytes(p), Append(ps, p), n)
  <1>1. WindowSize \in Nat \ {0} /\ Len(u) \in Nat
    BY FrameAssumption
  <1>2. PICK qs, v : qs = Append(ps, p) /\ v = u \o Bytes(p)
    OBVIOUS
  <1>3. /\ \A j \in 1 .. Len(u) : v[j] = u[j]
        /\ \A a \in 1 .. WindowSize : v[Len(u) + a] = [pkt |-> p, at |-> a]
        /\ DOMAIN v = 1 .. Len(u) + WindowSize
    BY <1>2, PacketBehind, Zenon
  <1>4. ASSUME NEW j \in 1 .. Len(u)
        PROVE  v[j] \in {Noise, [pkt |-> qs[n + 1 + (j - 1) \div WindowSize],
                                 at  |-> 1 + ((j - 1) % WindowSize)]}
    <2>1. PICK q : q = (j - 1) \div WindowSize
      OBVIOUS
    <2>2. q \in 0 .. m - 1
      <3>1. PICK k \in Nat : k = j - 1 /\ k < WindowSize * m
        BY <1>1
      <3>2. k \div WindowSize \in 0 .. m - 1
        <4>1. m \in Int /\ WindowSize \in Nat \ {0}
          BY <1>1
        <4> QED
          BY <3>1, <4>1, DivBelow, Zenon
      <3> QED
        BY <2>1, <3>1, <3>2
    <2>3. qs[n + 1 + q] = ps[n + 1 + q]
      <3>1. n + 1 + q \in 1 .. Len(ps)
        BY <2>2
      <3> QED
        BY <1>2, <3>1
    <2> QED
      BY <1>3, <2>1, <2>3, SMTT(30) DEF Placed
  <1>5. ASSUME NEW a \in 1 .. WindowSize
        PROVE  v[Len(u) + a] = [pkt |-> qs[n + 1 + (Len(u) + a - 1) \div WindowSize],
                                at  |-> 1 + ((Len(u) + a - 1) % WindowSize)]
    <2>1. PICK r \in 0 .. WindowSize - 1 : r = a - 1
      BY <1>1
    <2>2. (WindowSize * m + r) \div WindowSize = m /\ (WindowSize * m + r) % WindowSize = r
      <3>1. m \in Int /\ WindowSize \in Nat \ {0}
        BY <1>1
      <3> QED
        BY <3>1, DivUnique, Zenon
    <2>3. Len(u) + a - 1 = WindowSize * m + r /\ 1 + r = a
      BY <1>1, <2>1
    <2>4. qs[n + 1 + m] = p
      <3>1. n + 1 + m = Len(ps) + 1
        OBVIOUS
      <3> QED
        BY <1>2, <3>1
    <2>5. v[Len(u) + a] = [pkt |-> p, at |-> a]
      BY <1>3
    <2> QED
      BY <2>2, <2>3, <2>4, <2>5
  <1>6. ASSUME NEW j \in DOMAIN v
        PROVE  v[j] \in {Noise, [pkt |-> qs[n + 1 + (j - 1) \div WindowSize],
                                 at  |-> 1 + ((j - 1) % WindowSize)]}
    <2>1. CASE j <= Len(u)
      <3>1. j \in 1 .. Len(u)
        BY <1>1, <1>3, <2>1
      <3> QED
        BY <1>4, <3>1
    <2>2. CASE j > Len(u)
      <3>1. PICK a \in 1 .. WindowSize : j = Len(u) + a
        <4>1. j - Len(u) \in 1 .. WindowSize /\ j = Len(u) + (j - Len(u))
          BY <1>1, <1>3, <2>2, SMTT(30)
        <4> QED
          BY <4>1
      <3> QED
        BY <1>5, <3>1
    <2> QED
      BY <1>1, <1>3, <2>1, <2>2
  <1> QED
    BY <1>2, <1>6 DEF Placed

(* A whole window in front is one packet, but for its changed bytes.       *)
LEMMA PlacedWindow ==
  ASSUME NEW w \in Seq(AnyBytes), NEW t \in Seq(AnyBytes), NEW ps, NEW n \in Nat,
         Len(w) = WindowSize, Placed(w \o t, ps, n)
  PROVE  /\ Placed(t, ps, n + 1)
         /\ \A a \in 1 .. WindowSize : w[a] \in {Noise, [pkt |-> ps[n + 1], at |-> a]}
  <1>1. WindowSize \in Nat \ {0} /\ Len(t) \in Nat
    BY FrameAssumption
  <1>2. PICK v : v = w \o t
    OBVIOUS
  <1>3. /\ DOMAIN v = 1 .. Len(t) + WindowSize /\ DOMAIN t = 1 .. Len(t)
        /\ \A a \in 1 .. WindowSize : v[a] = w[a]
        /\ \A j \in 1 .. Len(t) : v[j + WindowSize] = t[j]
    <2>1. DOMAIN t = 1 .. Len(t) /\ \A j \in 1 .. Len(t) : j + WindowSize = Len(w) + j
      BY <1>1
    <2>2. /\ DOMAIN v = 1 .. Len(w) + Len(t)
          /\ \A i \in 1 .. Len(w) : v[i] = w[i]
          /\ \A i \in 1 .. Len(t) : v[Len(w) + i] = t[i]
      BY <1>2, ConcatOf, SMTT(30)
    <2> QED
      BY <1>1, <2>1, <2>2
  <1>4. ASSUME NEW j \in DOMAIN v
        PROVE  v[j] \in {Noise, [pkt |-> ps[n + 1 + (j - 1) \div WindowSize],
                                 at  |-> 1 + ((j - 1) % WindowSize)]}
    BY <1>2 DEF Placed
  <1>5. ASSUME NEW j \in DOMAIN t
        PROVE  t[j] \in {Noise, [pkt |-> ps[n + 1 + 1 + (j - 1) \div WindowSize],
                                 at  |-> 1 + ((j - 1) % WindowSize)]}
    <2>1. PICK k \in Int : k = j - 1
      BY <1>3
    <2>2. PICK q, a : q = k \div WindowSize /\ a = k % WindowSize
      OBVIOUS
    <2>7. q \in Int /\ a \in Int
      BY <1>1, <2>2, DivMod
    <2>3. (k + WindowSize) \div WindowSize = q + 1 /\ (k + WindowSize) % WindowSize = a
      BY <1>1, <2>2, DivNextRound, ModNextRound
    <2>4. j + WindowSize \in DOMAIN v /\ (j + WindowSize) - 1 = k + WindowSize
          /\ v[j + WindowSize] = t[j]
      <3>1. j \in 1 .. Len(t)
        BY <1>3
      <3>2. j + WindowSize \in 1 .. Len(t) + WindowSize /\ (j + WindowSize) - 1 = k + WindowSize
        BY <1>1, <2>1, <3>1
      <3> QED
        BY <1>3, <3>1, <3>2
    <2>5. t[j] \in {Noise, [pkt |-> ps[n + 1 + (q + 1)], at |-> 1 + a]}
      BY <1>4, <2>3, <2>4
    <2>6. n + 1 + (q + 1) = n + 1 + 1 + q
      BY <2>7
    <2> QED
      BY <2>1, <2>2, <2>5, <2>6
  <1>6. ASSUME NEW a \in 1 .. WindowSize
        PROVE  w[a] \in {Noise, [pkt |-> ps[n + 1], at |-> a]}
    <2>1. PICK r \in 0 .. WindowSize - 1 : r = a - 1
      BY <1>1
    <2>4. WindowSize * 0 + r = r
      BY <1>1
    <2>5. (WindowSize * 0 + r) \div WindowSize = 0 /\ (WindowSize * 0 + r) % WindowSize = r
      <3>1. 0 \in Int /\ WindowSize \in Nat \ {0}
        BY <1>1
      <3> QED
        BY <3>1, DivUnique, Zenon
    <2>2. (a - 1) \div WindowSize = 0 /\ (a - 1) % WindowSize = a - 1
      BY <2>1, <2>4, <2>5
    <2>3. a \in DOMAIN v /\ v[a] = w[a] /\ n + 1 + 0 = n + 1 /\ 1 + (a - 1) = a
      BY <1>1, <1>3
    <2> QED
      BY <1>4, <2>2, <2>3
  <1> QED
    BY <1>5, <1>6 DEF Placed

LEMMA PlacedNoise ==
  ASSUME NEW u \in Seq(AnyBytes), NEW i \in DOMAIN u, NEW ps, NEW n, Placed(u, ps, n)
  PROVE  Placed([u EXCEPT ![i] = Noise], ps, n)
  <1>1. PICK v : v = [u EXCEPT ![i] = Noise]
    OBVIOUS
  <1>2. DOMAIN v = DOMAIN u /\ \A j \in DOMAIN u : v[j] = Noise \/ v[j] = u[j]
    BY <1>1
  <1> QED
    BY <1>1, <1>2 DEF Placed

-----------------------------------------------------------------------------
(* How many bytes and windows were spoilt.                                 *)

LEMMA NoiseType ==
  ASSUME NEW u \in Seq(AnyBytes)
  PROVE  /\ IsFiniteSet(NoiseAt(u)) /\ Cardinality(NoiseAt(u)) \in Nat
         /\ NoiseAt(u) \subseteq 1 .. Len(u)
  <1>1. NoiseAt(u) \in SUBSET (1 .. Len(u))
    BY DEF NoiseAt
  <1>2. IsFiniteSet(1 .. Len(u))
    BY FS_Interval
  <1> QED
    BY <1>1, <1>2, FS_Subset, FS_CardinalityType

LEMMA NoisePacket ==
  ASSUME NEW u \in Seq(AnyBytes), NEW p \in Packets
  PROVE  NoiseAt(u \o Bytes(p)) = NoiseAt(u)
  <1>1. WindowSize \in Nat \ {0} /\ Len(u) \in Nat
    BY FrameAssumption
  <1>2. PICK v : v = u \o Bytes(p)
    OBVIOUS
  <1>3. /\ \A j \in 1 .. Len(u) : v[j] = u[j]
        /\ \A a \in 1 .. WindowSize : v[Len(u) + a] = [pkt |-> p, at |-> a]
        /\ DOMAIN v = 1 .. Len(u) + WindowSize
    BY <1>2, PacketBehind, Zenon
  <1>4. ASSUME NEW j \in DOMAIN v, j \notin 1 .. Len(u) PROVE v[j] # Noise
    <2>1. PICK a \in 1 .. WindowSize : j = Len(u) + a
      <3>1. j - Len(u) \in 1 .. WindowSize /\ j = Len(u) + (j - Len(u))
        BY <1>1, <1>3, <1>4
      <3> QED
        BY <3>1
    <2>2. v[j].at = a
      <3>1. v[j] = [pkt |-> p, at |-> a]
        BY <1>3, <2>1
      <3> QED
        BY <3>1
    <2>3. Noise.at = 0 /\ a # 0
      BY DEF Noise
    <2> QED
      BY <2>2, <2>3
  <1>5. \A j \in 1 .. Len(u) : j \in DOMAIN v
    BY <1>1, <1>3
  <1>6. DOMAIN u = 1 .. Len(u)
    OBVIOUS
  <1> QED
    BY <1>2, <1>3, <1>4, <1>5, <1>6 DEF NoiseAt

LEMMA NoiseChange ==
  ASSUME NEW u \in Seq(AnyBytes), NEW i \in DOMAIN u
  PROVE  Cardinality(NoiseAt([u EXCEPT ![i] = Noise])) <= Cardinality(NoiseAt(u)) + 1
  <1>1. PICK N, n : N = NoiseAt(u) /\ n = Cardinality(N)
    OBVIOUS
  <1>2. NoiseAt([u EXCEPT ![i] = Noise]) = N \cup {i}
    BY <1>1 DEF NoiseAt
  <1>3. IsFiniteSet(N) /\ n \in Nat
    BY <1>1, NoiseType
  <1>4. Cardinality(N \cup {i}) = IF i \in N THEN n ELSE n + 1
    BY <1>1, <1>3, FS_AddElement
  <1>5. Cardinality(N \cup {i}) <= n + 1
    BY <1>3, <1>4
  <1> QED
    BY <1>1, <1>2, <1>5

(* A window with a changed byte takes one with it.                         *)
LEMMA NoiseWindow ==
  ASSUME NEW w \in Seq(AnyBytes), NEW t \in Seq(AnyBytes), Len(w) = WindowSize
  PROVE  Cardinality(NoiseAt(t)) + (IF NoiseAt(w) = {} THEN 0 ELSE 1)
           <= Cardinality(NoiseAt(w \o t))
  <1>1. WindowSize \in Nat \ {0} /\ Len(t) \in Nat
    BY FrameAssumption
  <1>2. PICK v : v = w \o t
    OBVIOUS
  <1>4. /\ DOMAIN v = 1 .. Len(t) + WindowSize /\ DOMAIN t = 1 .. Len(t)
        /\ \A a \in 1 .. WindowSize : v[a] = w[a]
        /\ \A j \in 1 .. Len(t) : v[j + WindowSize] = t[j]
    <2>1. DOMAIN t = 1 .. Len(t) /\ \A j \in 1 .. Len(t) : j + WindowSize = Len(w) + j
      BY <1>1
    <2>2. /\ DOMAIN v = 1 .. Len(w) + Len(t)
          /\ \A i \in 1 .. Len(w) : v[i] = w[i]
          /\ \A i \in 1 .. Len(t) : v[Len(w) + i] = t[i]
      BY <1>2, ConcatOf
    <2> QED
      BY <1>1, <2>1, <2>2
  <1>3. v \in Seq(AnyBytes)
    BY <1>2
  <1>5. PICK N, M, V : N = NoiseAt(t) /\ M = NoiseAt(w) /\ V = NoiseAt(v)
    OBVIOUS
  <1>6. /\ IsFiniteSet(N) /\ IsFiniteSet(V) /\ Cardinality(N) \in Nat /\ Cardinality(V) \in Nat
        /\ N \subseteq 1 .. Len(t) /\ M \subseteq 1 .. WindowSize
    BY <1>3, <1>5, NoiseType
  <1>7. PICK h : h = [j \in N |-> j + WindowSize]
    OBVIOUS
  <1>8. PICK T : T = {h[j] : j \in N}
    OBVIOUS
  <1>9. h \in [N -> T] /\ \A j, k \in N : h[j] = h[k] => j = k
    BY <1>1, <1>6, <1>7, <1>8
  <1>10. h \in Bijection(N, T)
    BY <1>8, <1>9 DEF Bijection, Injection, Surjection, IsInjective
  <1>11. IsFiniteSet(T) /\ Cardinality(T) = Cardinality(N)
    <2>1. ExistsBijection(N, T)
      BY <1>10, Zenon DEF ExistsBijection
    <2> QED
      BY <1>6, <2>1, FS_Bijection
  <1>12. ASSUME NEW j \in N PROVE h[j] \in V /\ h[j] > WindowSize
    <2>1. j \in 1 .. Len(t) /\ t[j] = Noise
      BY <1>5, <1>6 DEF NoiseAt
    <2>2. j + WindowSize \in DOMAIN v /\ v[j + WindowSize] = Noise /\ j + WindowSize > WindowSize
      BY <1>1, <1>4, <2>1
    <2> QED
      BY <1>5, <1>7, <2>2 DEF NoiseAt
  <1>13. CASE M = {}
    <2>1. T \in SUBSET V
      BY <1>8, <1>12
    <2>2. Cardinality(T) <= Cardinality(V)
      BY <1>6, <2>1, FS_Subset
    <2> QED
      BY <1>2, <1>5, <1>6, <1>11, <1>13, <2>2
  <1>14. CASE M # {}
    <2>1. PICK i : i \in M
      BY <1>14
    <2>2. i \in 1 .. WindowSize /\ w[i] = Noise
      BY <1>5, <1>6, <2>1 DEF NoiseAt
    <2>3. i \in V
      <3>1. i \in DOMAIN v /\ v[i] = Noise
        BY <1>1, <1>4, <2>2
      <3> QED
        BY <1>5, <3>1 DEF NoiseAt
    <2>4. i \notin T
      <3>1. \A x \in T : x > WindowSize
        BY <1>8, <1>12
      <3>2. ~ (i > WindowSize)
        BY <1>1, <2>2
      <3> QED
        BY <3>1, <3>2
    <2>5. T \cup {i} \in SUBSET V
      BY <1>8, <1>12, <2>3
    <2>6. Cardinality(T \cup {i}) = Cardinality(T) + 1
      BY <1>11, <2>4, FS_AddElement
    <2>7. Cardinality(T \cup {i}) <= Cardinality(V)
      BY <1>6, <2>5, FS_Subset
    <2> QED
      BY <1>2, <1>5, <1>6, <1>11, <1>14, <2>6, <2>7
  <1> QED
    BY <1>13, <1>14

LEMMA DroppedAppend ==
  ASSUME NEW ws \in Seq(Packets \cup {Dropped}), NEW x
  PROVE  /\ Cardinality(DroppedAt(ws)) \in Nat
         /\ Cardinality(DroppedAt(Append(ws, x)))
              = Cardinality(DroppedAt(ws)) + (IF x = Dropped THEN 1 ELSE 0)
  <1>1. PICK D : D = DroppedAt(ws)
    OBVIOUS
  <1>2. PICK n \in Nat : n = Len(ws)
    OBVIOUS
  <1>3. D \in SUBSET (1 .. n)
    BY <1>1, <1>2 DEF DroppedAt
  <1>4. IsFiniteSet(D) /\ Cardinality(D) \in Nat
    <2>1. IsFiniteSet(1 .. n)
      BY FS_Interval
    <2> QED
      BY <1>3, <2>1, FS_Subset, FS_CardinalityType
  <1>5. DroppedAt(Append(ws, x)) = IF x = Dropped THEN D \cup {n + 1} ELSE D
    BY <1>1, <1>2 DEF DroppedAt
  <1>6. n + 1 \notin D
    BY <1>3
  <1>7. Cardinality(D \cup {n + 1}) = Cardinality(D) + 1
    BY <1>4, <1>6, FS_AddElement
  <1> QED
    BY <1>1, <1>4, <1>5, <1>7

(* A window that is met is the packet that was sent in its turn, or one of *)
(* its bytes was changed.                                                  *)
LEMMA WindowMet ==
  ASSUME NEW w \in Seq(AnyBytes), NEW p \in Packets, Len(w) = WindowSize,
         \A a \in 1 .. WindowSize : w[a] \in {Noise, [pkt |-> p, at |-> a]}
  PROVE  /\ IsPacket(w) => w[1].pkt = p
         /\ ~ IsPacket(w) => NoiseAt(w) # {}
  <1>1. WindowSize \in Nat \ {0} /\ DOMAIN w = 1 .. WindowSize
    BY FrameAssumption
  <1>2. ASSUME NEW q \in Packets, w = Bytes(q) PROVE w[1].pkt = p
    <2>1. 1 \in 1 .. WindowSize
      BY <1>1
    <2>2. w[1] = [pkt |-> q, at |-> 1]
      BY <1>2, <2>1 DEF Bytes
    <2>3. w[1] # Noise
      BY <2>2 DEF Noise
    <2>4. w[1] = [pkt |-> p, at |-> 1]
      BY <2>1, <2>3
    <2> QED
      BY <2>4
  <1>3. ASSUME NoiseAt(w) = {} PROVE IsPacket(w)
    <2>1. \A a \in 1 .. WindowSize : w[a] = [pkt |-> p, at |-> a]
      BY <1>1, <1>3 DEF NoiseAt
    <2>2. w = [a \in 1 .. WindowSize |-> w[a]]
      BY <1>1
    <2>3. w = Bytes(p)
      BY <2>1, <2>2 DEF Bytes
    <2> QED
      BY <2>3 DEF IsPacket
  <1> QED
    BY <1>2, <1>3 DEF IsPacket

LEMMA Grouped ==
  ASSUME NEW s \in Seq(AnyBytes), NEW t \in Seq(AnyBytes), NEW u \in Seq(AnyBytes)
  PROVE  t \o (s \o u) = (t \o s) \o u
  OBVIOUS

(* Reading moves bytes from the front of the line to the end of temp.      *)
LEMMA Moved ==
  ASSUME NEW s \in Seq(AnyBytes), NEW t \in Seq(AnyBytes), NEW r \in 0 .. Len(s)
  PROVE  (t \o SubSeq(s, 1, r)) \o SubSeq(s, r + 1, Len(s)) = t \o s
  <1>1. PICK a, b : a = SubSeq(s, 1, r) /\ b = SubSeq(s, r + 1, Len(s))
    OBVIOUS
  <1>2. a \in Seq(AnyBytes) /\ b \in Seq(AnyBytes) /\ Len(a) = r /\ Len(b) = Len(s) - r
    BY <1>1, Cut
  <1>3. /\ \A i \in 1 .. r : a[i] = s[i]
        /\ \A i \in 1 .. Len(s) - r : b[i] = s[r + i]
    BY <1>1
  <1>4. a \o b = s
    <2>1. PICK v : v = a \o b
      OBVIOUS
    <2>2. /\ Len(v) = Len(s)
          /\ \A i \in 1 .. r : v[i] = a[i]
          /\ \A i \in 1 .. Len(s) - r : v[r + i] = b[i]
      BY <1>2, <2>1, ConcatOf
    <2>3. ASSUME NEW i \in 1 .. Len(s) PROVE v[i] = s[i]
      <3>1. CASE i <= r
        BY <1>3, <2>2, <3>1
      <3>2. CASE i > r
        <4>1. i - r \in 1 .. Len(s) - r /\ r + (i - r) = i
          BY <3>2
        <4> QED
          BY <1>3, <2>2, <4>1
      <3> QED
        BY <3>1, <3>2
    <2>4. v \in Seq(AnyBytes)
      BY <1>2, <2>1
    <2>5. v = [i \in 1 .. Len(s) |-> v[i]]
      BY <2>2, <2>4
    <2>6. s = [i \in 1 .. Len(s) |-> s[i]]
      OBVIOUS
    <2>7. v = s
      BY <2>3, <2>5, <2>6
    <2> QED
      BY <2>1, <2>7
  <1>5. (t \o a) \o b = t \o (a \o b)
    BY <1>2, Grouped
  <1> QED
    BY <1>1, <1>4, <1>5

LEMMA ChangedAt ==
  ASSUME NEW s \in Seq(AnyBytes), NEW t \in Seq(AnyBytes), s # << >>
  PROVE  /\ t \o [s EXCEPT ![1] = Noise] = [t \o s EXCEPT ![Len(t) + 1] = Noise]
         /\ Len(t) + 1 \in DOMAIN (t \o s)
  <1>1. PICK z, x, v, u : /\ z = [s EXCEPT ![1] = Noise] /\ x = t \o s
                          /\ v = t \o z /\ u = [x EXCEPT ![Len(t) + 1] = Noise]
    OBVIOUS
  <1>2. Len(s) \in Nat \ {0} /\ Len(t) \in Nat /\ Noise \in AnyBytes
    BY DEF AnyBytes
  <1>3. z \in Seq(AnyBytes) /\ Len(z) = Len(s)
    BY <1>1, <1>2
  <1>4. z[1] = Noise /\ \A i \in 2 .. Len(s) : z[i] = s[i]
    BY <1>1, <1>2
  <1>5. /\ DOMAIN x = 1 .. Len(t) + Len(s)
        /\ \A i \in 1 .. Len(t) : x[i] = t[i]
        /\ \A i \in 1 .. Len(s) : x[Len(t) + i] = s[i]
    BY <1>1, ConcatOf
  <1>6. /\ DOMAIN v = 1 .. Len(t) + Len(s)
        /\ \A i \in 1 .. Len(t) : v[i] = t[i]
        /\ \A i \in 1 .. Len(s) : v[Len(t) + i] = z[i]
    BY <1>1, <1>3, ConcatOf
  <1>7. DOMAIN u = DOMAIN x /\ Len(t) + 1 \in DOMAIN x
    BY <1>1, <1>2, <1>5
  <1>8. \A k \in DOMAIN x : k # Len(t) + 1 => u[k] = x[k]
    BY <1>1
  <1>9. ASSUME NEW i \in 1 .. Len(t) + Len(s) PROVE v[i] = u[i]
    <2>1. CASE i <= Len(t)
      <3>1. i \in 1 .. Len(t) /\ i # Len(t) + 1
        BY <1>2, <2>1
      <3>2. u[i] = x[i]
        BY <1>5, <1>8, <3>1
      <3> QED
        BY <1>5, <1>6, <3>1, <3>2
    <2>2. CASE i > Len(t)
      <3>1. PICK j \in 1 .. Len(s) : i = Len(t) + j
        <4>1. i - Len(t) \in 1 .. Len(s) /\ i = Len(t) + (i - Len(t))
          BY <1>2, <2>2
        <4> QED
          BY <4>1
      <3>2. CASE j = 1
        <4>1. v[i] = Noise
          BY <1>4, <1>6, <3>1, <3>2
        <4>2. u[i] = Noise
          BY <1>1, <1>7, <3>1, <3>2
        <4> QED
          BY <4>1, <4>2
      <3>3. CASE j # 1
        <4>1. v[i] = s[j]
          <5>1. j \in 2 .. Len(s)
            BY <1>2, <3>3
          <5> QED
            BY <1>4, <1>6, <3>1, <5>1
        <4>2. u[i] = x[i] /\ x[i] = s[j]
          <5>1. i # Len(t) + 1
            BY <1>2, <3>1, <3>3
          <5>2. u[i] = x[i]
            BY <1>5, <1>8, <5>1
          <5> QED
            BY <1>5, <3>1, <5>2
        <4> QED
          BY <4>1, <4>2
      <3> QED
        BY <3>2, <3>3
    <2> QED
      BY <1>2, <2>1, <2>2
  <1>10. v = [i \in 1 .. Len(t) + Len(s) |-> v[i]] /\ u = [i \in 1 .. Len(t) + Len(s) |-> u[i]]
    <2>1. v \in Seq(AnyBytes) /\ x \in Seq(AnyBytes)
      BY <1>1, <1>3
    <2>2. v = [i \in DOMAIN v |-> v[i]]
      BY <2>1
    <2>3. u = [i \in DOMAIN u |-> u[i]]
      BY <1>1
    <2> QED
      BY <1>5, <1>6, <1>7, <2>2, <2>3
  <1> QED
    BY <1>1, <1>7, <1>9, <1>10

LEMMA WholePackets ==
  ASSUME NEW a \in Nat, NEW b \in Nat, NEW x \in Nat, x + WindowSize * a = WindowSize * b
  PROVE  a <= b /\ x = WindowSize * (b - a)
  <1>1. WindowSize \in Nat \ {0}
    BY FrameAssumption
  <1>2. WindowSize * (b - a) = WindowSize * b - WindowSize * a
    BY <1>1, MulDist
  <1>3. PICK d, e, f : d = b - a /\ e = WindowSize * a /\ f = WindowSize * b
    OBVIOUS
  <1>4. d \in Int /\ e \in Int /\ f \in Int
    BY <1>1, <1>3
  <1>5. x = WindowSize * d
    BY <1>2, <1>3, <1>4
  <1>6. ~ (d <= -1)
    BY <1>1, <1>4, <1>5, MulNeg
  <1> QED
    BY <1>3, <1>4, <1>5, <1>6

-----------------------------------------------------------------------------
(* The two ends stay in step.                                              *)

(* The windows ws were met of the packets ps, the bytes u are under way,   *)
(* and c bytes were changed: what InPlace says of a line without loss.     *)
Whole(ws, u, ps, c) ==
  /\ Placed(u, ps, Len(ws))
  /\ Cardinality(DroppedAt(ws)) + Cardinality(NoiseAt(u)) <= c
  /\ Len(ws) <= Len(ps)
  /\ \A i \in DOMAIN ws : ws[i] \in {ps[i], Dropped}

LEMMA WholeSent ==
  ASSUME NEW ws \in Seq(Packets \cup {Dropped}), NEW u \in Seq(AnyBytes),
         NEW ps \in Seq(Packets), NEW c \in Nat, Whole(ws, u, ps, c),
         Len(u) = WindowSize * (Len(ps) - Len(ws)), NEW p \in Packets
  PROVE  Whole(ws, u \o Bytes(p), Append(ps, p), c)
  <1>1. PICK n \in Nat, m \in Nat : n = Len(ws) /\ Len(ps) = n + m /\ m = Len(ps) - Len(ws)
    <2>1. Len(ws) \in Nat /\ Len(ps) \in Nat /\ Len(ws) <= Len(ps)
      BY DEF Whole
    <2>2. Len(ps) - Len(ws) \in Nat /\ Len(ps) = Len(ws) + (Len(ps) - Len(ws))
      BY <2>1
    <2> QED
      BY <2>1, <2>2, Zenon
  <1>2. Placed(u, ps, n) /\ Len(u) = WindowSize * m
    BY <1>1 DEF Whole
  <1>3. Placed(u \o Bytes(p), Append(ps, p), n)
    BY <1>1, <1>2, PlacedPacket, Zenon
  <1>4. NoiseAt(u \o Bytes(p)) = NoiseAt(u)
    BY NoisePacket
  <1>5. Len(Append(ps, p)) = Len(ps) + 1 /\ \A i \in 1 .. Len(ps) : Append(ps, p)[i] = ps[i]
    OBVIOUS
  <1>6. \A i \in DOMAIN ws : ws[i] \in {Append(ps, p)[i], Dropped}
    BY <1>1, <1>5 DEF Whole
  <1> QED
    BY <1>1, <1>3, <1>4, <1>5, <1>6 DEF Whole

LEMMA WholeMet ==
  ASSUME NEW ws \in Seq(Packets \cup {Dropped}), NEW w \in Seq(AnyBytes),
         NEW t \in Seq(AnyBytes), NEW ps \in Seq(Packets), NEW c \in Nat,
         Whole(ws, w \o t, ps, c), Len(w) = WindowSize, Len(ws) < Len(ps)
  PROVE  Whole(Append(ws, IF IsPacket(w) THEN w[1].pkt ELSE Dropped), t, ps, c)
  <1>1. PICK n, x, v, k : /\ n = Len(ws) /\ v = w \o t
                          /\ x = IF IsPacket(w) THEN w[1].pkt ELSE Dropped
                          /\ k = IF x = Dropped THEN 1 ELSE 0
    OBVIOUS
  <1>2. n \in Nat /\ ps[n + 1] \in Packets
    BY <1>1
  <1>3. Placed(t, ps, n + 1) /\ \A a \in 1 .. WindowSize : w[a] \in {Noise, [pkt |-> ps[n + 1], at |-> a]}
    <2>1. Placed(w \o t, ps, n)
      BY <1>1 DEF Whole
    <2> QED
      BY <1>2, <2>1, PlacedWindow, Zenon
  <1>4. (IsPacket(w) => w[1].pkt = ps[n + 1]) /\ (~ IsPacket(w) => NoiseAt(w) # {})
    <2>1. PICK p \in Packets : p = ps[n + 1]
      BY <1>2
    <2>2. \A a \in 1 .. WindowSize : w[a] \in {Noise, [pkt |-> p, at |-> a]}
      BY <1>3, <2>1
    <2> QED
      BY <2>1, <2>2, WindowMet
  <1>5. x \in {ps[n + 1], Dropped} /\ (x = Dropped => NoiseAt(w) # {})
    BY <1>1, <1>2, <1>4, FrameAssumption
  <1>6. Len(Append(ws, x)) = n + 1 /\ Cardinality(DroppedAt(Append(ws, x))) = Cardinality(DroppedAt(ws)) + k
        /\ Cardinality(DroppedAt(ws)) \in Nat
    <2>1. Len(Append(ws, x)) = n + 1
      BY <1>1
    <2> QED
      BY <1>1, <2>1, DroppedAppend
  <1>7. Cardinality(NoiseAt(t)) + k <= Cardinality(NoiseAt(v))
    <2>1. Cardinality(NoiseAt(t)) + (IF NoiseAt(w) = {} THEN 0 ELSE 1) <= Cardinality(NoiseAt(v))
      BY <1>1, NoiseWindow
    <2>2. Cardinality(NoiseAt(t)) \in Nat /\ Cardinality(NoiseAt(v)) \in Nat
      <3>1. v \in Seq(AnyBytes)
        BY <1>1
      <3> QED
        BY <3>1, NoiseType
    <2> QED
      BY <1>1, <1>5, <2>1, <2>2
  <1>8. Cardinality(DroppedAt(Append(ws, x))) + Cardinality(NoiseAt(t)) <= c
    <2>1. Cardinality(DroppedAt(ws)) + Cardinality(NoiseAt(v)) <= c
      BY <1>1 DEF Whole
    <2>2. PICK d, e, f : d = Cardinality(DroppedAt(ws)) /\ e = Cardinality(NoiseAt(v))
                         /\ f = Cardinality(NoiseAt(t))
      OBVIOUS
    <2>3. d \in Nat /\ e \in Nat /\ f \in Nat /\ k \in Nat
      <3>1. v \in Seq(AnyBytes)
        BY <1>1
      <3> QED
        BY <1>1, <1>6, <2>2, <3>1, NoiseType
    <2>4. d + e <= c
      BY <2>1, <2>2
    <2>5. f + k <= e
      BY <1>7, <2>2
    <2>6. Cardinality(DroppedAt(Append(ws, x))) = d + k
      BY <1>6, <2>2
    <2>7. (d + k) + f <= c
      BY <2>3, <2>4, <2>5
    <2> QED
      BY <2>2, <2>6, <2>7
  <1>9. \A i \in DOMAIN Append(ws, x) : Append(ws, x)[i] \in {ps[i], Dropped}
    <2>1. \A i \in 1 .. n : ws[i] \in {ps[i], Dropped}
      BY <1>1 DEF Whole
    <2>2. /\ DOMAIN Append(ws, x) = 1 .. n + 1 /\ Append(ws, x)[n + 1] = x
          /\ \A i \in 1 .. n : Append(ws, x)[i] = ws[i]
      BY <1>1
    <2> QED
      BY <1>2, <1>5, <2>1, <2>2
  <1> QED
    BY <1>1, <1>2, <1>3, <1>6, <1>8, <1>9 DEF Whole

LEMMA WholeChanged ==
  ASSUME NEW ws, NEW u \in Seq(AnyBytes), NEW ps, NEW c \in Nat, Whole(ws, u, ps, c),
         Cardinality(DroppedAt(ws)) \in Nat, NEW i \in DOMAIN u
  PROVE  Whole(ws, [u EXCEPT ![i] = Noise], ps, c + 1)
  <1>1. PICK v, d, e, f : /\ v = [u EXCEPT ![i] = Noise] /\ d = Cardinality(DroppedAt(ws))
                          /\ e = Cardinality(NoiseAt(u)) /\ f = Cardinality(NoiseAt(v))
    OBVIOUS
  <1>2. v \in Seq(AnyBytes)
    BY <1>1 DEF AnyBytes
  <1>3. Placed(v, ps, Len(ws))
    BY <1>1, PlacedNoise DEF Whole
  <1>4. f <= e + 1 /\ e \in Nat /\ f \in Nat /\ d \in Nat
    BY <1>1, <1>2, NoiseChange, NoiseType
  <1>5. d + e <= c
    BY <1>1 DEF Whole
  <1>6. d + f <= c + 1
    BY <1>4, <1>5
  <1> QED
    BY <1>1, <1>3, <1>6 DEF Whole

(* Each step keeps what is under way in place.                             *)
LEMMA StepInPlace ==
  ASSUME TypeOK, BytesAccounted, InPlace, TypeOK', BytesAccounted', [Next]_vars
  PROVE  InPlace'
  <1> SUFFICES ASSUME lost' = 0, short' = 0
               PROVE  Whole(windows', Underway', sent', changed')
    BY DEF InPlace, Whole, Placed, Belongs
  <1>1. /\ line \in Seq(AnyBytes) /\ temp \in Seq(AnyBytes) /\ Underway \in Seq(AnyBytes)
        /\ line' \in Seq(AnyBytes) /\ temp' \in Seq(AnyBytes)
        /\ sent \in Seq(Packets) /\ windows \in Seq(Packets \cup {Dropped})
        /\ sent' \in Seq(Packets) /\ windows' \in Seq(Packets \cup {Dropped})
        /\ short \in Nat /\ lost \in Nat /\ changed \in Nat
        /\ WindowSize \in Nat \ {0}
    BY FrameAssumption DEF TypeOK, AnyBytes, Underway
  <1>2. lost = 0 /\ short = 0
    <2>1. CASE UNCHANGED vars
      BY <2>1 DEF vars, faults, sender
    <2>2. ASSUME NEW p \in Packets, IoSend(p) PROVE lost = 0 /\ short = 0
      BY <2>2 DEF IoSend, faults
    <2>3. CASE Attempt
      <3>1. lost = 0 /\ (short' = short \/ short' = short + Taken)
        BY <2>3 DEF Attempt, faults
      <3>2. Taken \in Nat
        BY FrameAssumption DEF Taken, Room, TypeOK
      <3> QED
        BY <1>1, <3>1, <3>2
    <2>4. ASSUME NEW r \in 0 .. WindowSize, IoRecv(r) PROVE lost = 0 /\ short = 0
      BY <2>4 DEF IoRecv, sender, faults
    <2>5. CASE LoseByte
      BY <1>1, <2>5 DEF LoseByte, sender
    <2>6. CASE ChangeByte
      BY <2>6 DEF ChangeByte, sender
    <2> QED
      BY <2>1, <2>2, <2>3, <2>4, <2>5, <2>6 DEF Next
  <1>3. Whole(windows, Underway, sent, changed)
    BY <1>2 DEF InPlace, Whole, Placed, Belongs
  <1>4. Len(windows) <= Len(sent) /\ Len(Underway) = WindowSize * (Len(sent) - Len(windows))
    <2>1. Len(Underway) = Len(temp) + Len(line)
      BY <1>1 DEF Underway
    <2>2. PICK a \in Nat, b \in Nat, x \in Nat :
            a = Len(windows) /\ b = Len(sent) /\ x = Len(Underway)
      BY <1>1
    <2>3. x + WindowSize * a = WindowSize * b
      <3>1. WindowSize * a \in Nat /\ WindowSize * b \in Nat
        BY <1>1
      <3>2. Len(line) + Len(temp) + WindowSize * a + 0 = WindowSize * b + 0
        BY <1>2, <2>2 DEF BytesAccounted
      <3>3. x = Len(temp) + Len(line) /\ Len(temp) \in Nat /\ Len(line) \in Nat
        BY <1>1, <2>1, <2>2
      <3> QED
        BY <3>1, <3>2, <3>3
    <2>4. a <= b /\ x = WindowSize * (b - a)
      BY <2>3, WholePackets
    <2> QED
      BY <2>2, <2>4
  <1>5. ASSUME UNCHANGED <<Underway, windows, sent, changed>>
        PROVE  Whole(windows', Underway', sent', changed')
    BY <1>3, <1>5
  <1>6. CASE UNCHANGED vars
    BY <1>5, <1>6 DEF vars, receiver, sender, faults, Underway
  <1>7. ASSUME NEW p \in Packets, IoSend(p)
        PROVE  Whole(windows', Underway', sent', changed')
    BY <1>5, <1>7 DEF IoSend, receiver, faults, Underway
  <1>8. CASE Attempt
    <2> DEFINE p == sending.pkt
    <2>1. p \in Packets /\ UNCHANGED <<temp, windows, changed>>
      BY <1>8 DEF Attempt, TypeOK, receiver, faults
    <2>2. CASE Taken = WindowSize
      <3>1. line' = line \o SubSeq(Bytes(p), 1, WindowSize) /\ sent' = Append(sent, p)
        BY <1>8, <2>2 DEF Attempt
      <3>2. SubSeq(Bytes(p), 1, WindowSize) = Bytes(p)
        BY <1>1, <2>1, BytesOf
      <3>3. Underway' = Underway \o Bytes(p)
        <4>1. Bytes(p) \in Seq(AnyBytes)
          BY <2>1, BytesOf DEF AnyBytes
        <4>2. temp \o (line \o Bytes(p)) = (temp \o line) \o Bytes(p)
          BY <1>1, <4>1, Grouped
        <4> QED
          BY <2>1, <3>1, <3>2, <4>2 DEF Underway
      <3>4. Whole(windows, Underway \o Bytes(p), Append(sent, p), changed)
        <4> HIDE DEF p
        <4> QED
          BY <1>1, <1>3, <1>4, <2>1, WholeSent
      <3> QED
        BY <2>1, <3>1, <3>3, <3>4
    <2>3. CASE Taken # WindowSize
      <3>1. line' = line \o SubSeq(Bytes(p), 1, Taken) /\ sent' = sent /\ short' = short + Taken
        BY <1>8, <2>3 DEF Attempt
      <3>2. Taken \in Int
        BY FrameAssumption DEF Taken, Room, TypeOK
      <3>3. Taken = 0
        BY <1>2, <3>1, <3>2
      <3>4. line' = line
        <4>1. SubSeq(Bytes(p), 1, 0) = << >>
          BY <2>1, BytesOf
        <4>2. line \o << >> = line
          BY <1>1
        <4> QED
          BY <3>1, <3>3, <4>1, <4>2
      <3> QED
        BY <1>5, <2>1, <3>1, <3>4 DEF Underway
    <2> QED
      BY <2>2, <2>3
  <1>9. ASSUME NEW r \in 0 .. WindowSize, IoRecv(r)
        PROVE  Whole(windows', Underway', sent', changed')
    <2>1. PICK w : w = temp \o SubSeq(line, 1, r)
      OBVIOUS
    <2>2. r \in 0 .. Len(line) /\ line' = SubSeq(line, r + 1, Len(line))
          /\ UNCHANGED <<sent, changed>>
      BY <1>1, <1>9 DEF IoRecv, Smaller, sender, faults
    <2>3. w \in Seq(AnyBytes) /\ w \o line' = Underway
      <3>1. SubSeq(line, 1, r) \in Seq(AnyBytes)
        BY <1>1, <2>2, Cut
      <3>2. w \in Seq(AnyBytes)
        BY <1>1, <2>1, <3>1
      <3>3. (temp \o SubSeq(line, 1, r)) \o SubSeq(line, r + 1, Len(line)) = temp \o line
        BY <1>1, <2>2, Moved
      <3> QED
        BY <2>1, <2>2, <3>2, <3>3 DEF Underway
    <2>4. CASE r = 0
      <3>1. UNCHANGED <<temp, windows>>
        BY <1>9, <2>4 DEF IoRecv
      <3>2. line' = line
        BY <1>1, <2>2, <2>4
      <3> QED
        BY <1>5, <2>2, <3>1, <3>2 DEF Underway
    <2>5. CASE r # 0 /\ Len(w) # WindowSize
      <3>1. temp' = w /\ windows' = windows
        BY <1>9, <2>1, <2>5 DEF IoRecv, FrameRecv
      <3> QED
        BY <1>5, <2>2, <2>3, <3>1 DEF Underway
    <2>6. CASE r # 0 /\ Len(w) = WindowSize
      <3>1. PICK ws : ws = Append(windows, IF IsPacket(w) THEN w[1].pkt ELSE Dropped)
        OBVIOUS
      <3>2. temp' = << >> /\ windows' = ws
        BY <1>9, <2>1, <2>6, <3>1 DEF IoRecv, FrameRecv
      <3>3. Underway' = line'
        BY <1>1, <3>2 DEF Underway
      <3>4. Len(windows) < Len(sent)
        <4>1. Len(Underway) >= WindowSize
          <5>1. Len(w \o line') = Len(w) + Len(line')
            BY <1>1, <2>3
          <5> QED
            BY <1>1, <2>3, <2>6, <5>1
        <4>2. Len(windows) # Len(sent)
          <5>1. ASSUME Len(windows) = Len(sent) PROVE FALSE
            <6>1. Len(sent) - Len(windows) = 0 /\ WindowSize * 0 = 0
              BY <1>1, <5>1
            <6>2. Len(Underway) = 0
              BY <1>4, <6>1
            <6> QED
              BY <1>1, <4>1, <6>2
          <5> QED
            BY <5>1
        <4> QED
          BY <1>1, <1>4, <4>2
      <3>5. Whole(ws, line', sent, changed)
        BY <1>1, <1>3, <2>3, <2>6, <3>1, <3>4, WholeMet
      <3> QED
        BY <2>2, <3>2, <3>3, <3>5
    <2> QED
      BY <2>4, <2>5, <2>6
  <1>10. CASE LoseByte
    BY <1>1, <1>10 DEF LoseByte
  <1>11. CASE ChangeByte
    <2>1. line # << >> /\ line' = [line EXCEPT ![1] = Noise] /\ changed' = changed + 1
          /\ UNCHANGED <<temp, windows, sent>>
      BY <1>11 DEF ChangeByte, sender, receiver
    <2>2. /\ temp \o line' = [temp \o line EXCEPT ![Len(temp) + 1] = Noise]
          /\ Len(temp) + 1 \in DOMAIN Underway
      BY <1>1, <2>1, ChangedAt DEF Underway
    <2>3. Underway' = [Underway EXCEPT ![Len(temp) + 1] = Noise]
      BY <2>1, <2>2 DEF Underway
    <2>4. Cardinality(DroppedAt(windows)) \in Nat
      BY <1>1, DroppedAppend
    <2>5. Whole(windows, [Underway EXCEPT ![Len(temp) + 1] = Noise], sent, changed + 1)
      BY <1>1, <1>3, <2>2, <2>4, WholeChanged
    <2> QED
      BY <2>1, <2>3, <2>5
  <1> QED
    BY <1>6, <1>7, <1>8, <1>9, <1>10, <1>11 DEF Next

LEMMA InitInPlace == Init => InPlace
  <1> SUFFICES ASSUME Init PROVE InPlace
    OBVIOUS
  <1>1. Underway = << >> /\ windows = << >> /\ sent = << >> /\ changed = 0
    BY DEF Init, Underway
  <1>2. NoiseAt(Underway) = {} /\ DroppedAt(windows) = {}
    BY <1>1 DEF NoiseAt, DroppedAt
  <1>3. Cardinality({}) = 0
    BY FS_EmptySet
  <1>4. Cardinality(DroppedAt(windows)) + Cardinality(NoiseAt(Underway)) <= changed
    <2>1. Cardinality(DroppedAt(windows)) = 0 /\ Cardinality(NoiseAt(Underway)) = 0
      BY <1>2, <1>3, Zenon
    <2>2. changed = 0
      BY <1>1
    <2> QED
      BY <2>1, <2>2
  <1>5. DOMAIN Underway = {} /\ DOMAIN windows = {} /\ Len(windows) <= Len(sent)
    BY <1>1
  <1> QED
    BY <1>4, <1>5 DEF InPlace

(* While the line loses nothing and the driver cuts nothing, every byte    *)
(* under way stands where io_recv will take it for the byte of the packet  *)
(* it is of, and the changed ones are no more than were changed.           *)
THEOREM StaysInPlace == Spec => []InPlace
  <1> DEFINE Inv == TypeOK /\ BytesAccounted /\ InPlace
  <1>1. Init => Inv
    BY InitType, InitInPlace
  <1>2. Inv /\ [Next]_vars => Inv'
    BY StepType, StepInPlace
  <1>3. Inv => InPlace
    OBVIOUS
  <1> QED
    BY <1>1, <1>2, <1>3, PTL DEF Spec

(* Then frame_recv gives protocol_recv the packets that io_send sent, in   *)
(* their order, and throws away at most one window for each changed byte.  *)
THEOREM KeepsStep == Spec => []InStep
  <1> DEFINE Inv == TypeOK /\ InPlace
  <1>1. Inv => InStep
    <2> SUFFICES ASSUME TypeOK, InPlace, lost = 0, short = 0
                 PROVE  /\ Len(windows) <= Len(sent)
                        /\ \A i \in DOMAIN windows : windows[i] \in {sent[i], Dropped}
                        /\ Cardinality(DroppedAt(windows)) <= changed
      BY DEF InStep
    <2>1. Cardinality(NoiseAt(Underway)) \in Nat
      <3>1. Underway \in Seq(AnyBytes)
        BY DEF TypeOK, AnyBytes, Underway
      <3> QED
        BY <3>1, NoiseType
    <2>2. Cardinality(DroppedAt(windows)) \in Nat
      BY DroppedAppend DEF TypeOK
    <2> QED
      BY <2>1, <2>2 DEF InPlace, TypeOK
  <1>2. Spec => [](TypeOK /\ BytesAccounted)
    BY Accounted
  <1>3. Spec => []InPlace
    BY StaysInPlace
  <1> QED
    BY <1>1, <1>2, <1>3, PTL

-----------------------------------------------------------------------------
(* The order is kept, whatever is lost, changed and cut.                   *)

GivenOf(ws) == {i \in DOMAIN ws : ws[i] # Dropped}

(* The places of the bytes that are the last of their packet.              *)
Ends(u) == {j \in DOMAIN u : u[j].at = WindowSize}

(* The packets given on in ws, and behind them those whose last byte is    *)
(* still in u, are different ones of ps, in this order: a window is given  *)
(* on only with such a byte at its end, and an attempt that was cut did    *)
(* not send it.                                                            *)
Follow(ws, u, ps, f, g) ==
  /\ \A i \in GivenOf(ws) : ps[f[i]] = ws[i]
  /\ \A i, k \in GivenOf(ws) : i < k => f[i] < f[k]
  /\ \A j \in Ends(u) : ps[g[j]] = u[j].pkt
  /\ \A j, k \in Ends(u) : j < k => g[j] < g[k]
  /\ \A i \in GivenOf(ws), j \in Ends(u) : f[i] < g[j]

Traced(ws, u, ps) ==
  \E f \in [GivenOf(ws) -> DOMAIN ps], g \in [Ends(u) -> DOMAIN ps] : Follow(ws, u, ps, f, g)

SameGiven(vs, ws) == GivenOf(vs) = GivenOf(ws) /\ \A i \in GivenOf(ws) : vs[i] = ws[i]

(* The last bytes in v are among those in u, h[j] the place there.         *)
Among(v, u, h) ==
  /\ h \in [Ends(v) -> Ends(u)]
  /\ \A j \in Ends(v) : v[j].pkt = u[h[j]].pkt
  /\ \A j, k \in Ends(v) : j < k => h[j] < h[k]

(* Last bytes may go, and keep their order.                                *)
LEMMA TracedLess ==
  ASSUME NEW ws, NEW u, NEW ps, NEW vs, NEW v, NEW h,
         Traced(ws, u, ps), SameGiven(vs, ws), Among(v, u, h)
  PROVE  Traced(vs, v, ps)
  <1>1. PICK W, E, D, L : W = GivenOf(ws) /\ E = Ends(u) /\ D = Ends(v) /\ L = DOMAIN ps
    OBVIOUS
  <1>0. PICK f \in [GivenOf(ws) -> DOMAIN ps], g \in [Ends(u) -> DOMAIN ps] :
          Follow(ws, u, ps, f, g)
    BY DEF Traced
  <1>2. /\ f \in [W -> L] /\ g \in [E -> L]
        /\ \A i \in W : ps[f[i]] = ws[i]
        /\ \A i, k \in W : i < k => f[i] < f[k]
        /\ \A j \in E : ps[g[j]] = u[j].pkt
        /\ \A j, k \in E : j < k => g[j] < g[k]
        /\ \A i \in W, j \in E : f[i] < g[j]
    <2>1. DOMAIN ps = L
      BY <1>1
    <2>2. f \in [W -> L] /\ g \in [E -> L]
      BY <1>1, <1>0, <2>1
    <2> QED
      BY <1>1, <1>0, <2>2 DEF Follow
  <1>3. /\ h \in [D -> E]
        /\ \A j \in D : v[j].pkt = u[h[j]].pkt
        /\ \A j, k \in D : j < k => h[j] < h[k]
    BY <1>1 DEF Among
  <1>4. PICK e : e = [j \in D |-> g[h[j]]]
    OBVIOUS
  <1>5. e \in [D -> L] /\ \A j \in D : e[j] = g[h[j]] /\ h[j] \in E
    BY <1>2, <1>3, <1>4
  <1>6. \A j \in D : ps[e[j]] = v[j].pkt
    BY <1>2, <1>3, <1>5
  <1>7. \A j, k \in D : j < k => e[j] < e[k]
    BY <1>2, <1>3, <1>5
  <1>8. \A i \in W, j \in D : f[i] < e[j]
    BY <1>2, <1>5
  <1>9. GivenOf(vs) = W /\ \A i \in W : ps[f[i]] = vs[i]
    BY <1>1, <1>2 DEF SameGiven
  <1>10. Follow(vs, v, ps, f, e)
    BY <1>1, <1>2, <1>6, <1>7, <1>8, <1>9 DEF Follow
  <1>11. f \in [GivenOf(vs) -> DOMAIN ps] /\ e \in [Ends(v) -> DOMAIN ps]
    BY <1>1, <1>2, <1>5, <1>9
  <1> QED
    BY <1>10, <1>11 DEF Traced

(* A packet sent whole is the last one.                                    *)
LEMMA TracedSent ==
  ASSUME NEW ws, NEW u \in Seq(AnyBytes), NEW ps \in Seq(Packets), NEW p \in Packets,
         Traced(ws, u, ps)
  PROVE  Traced(ws, u \o Bytes(p), Append(ps, p))
  <1>1. PICK v, qs, n : v = u \o Bytes(p) /\ qs = Append(ps, p) /\ n = Len(u)
    OBVIOUS
  <1>2. WindowSize \in Nat \ {0} /\ n \in Nat /\ Len(ps) \in Nat
    BY <1>1, FrameAssumption
  <1>3. /\ \A j \in 1 .. n : v[j] = u[j]
        /\ \A a \in 1 .. WindowSize : v[n + a] = [pkt |-> p, at |-> a]
        /\ DOMAIN v = 1 .. n + WindowSize
    BY <1>1, PacketBehind, Zenon
  <1>4. /\ DOMAIN qs = 1 .. Len(ps) + 1 /\ qs[Len(ps) + 1] = p
        /\ \A k \in 1 .. Len(ps) : qs[k] = ps[k]
    BY <1>1
  <1>5. Ends(v) = Ends(u) \cup {n + WindowSize}
    <2>1. ASSUME NEW j \in 1 .. n PROVE j \in Ends(v) <=> j \in Ends(u)
      BY <1>1, <1>2, <1>3 DEF Ends
    <2>2. ASSUME NEW j \in 1 .. n + WindowSize, j > n
          PROVE  j \in Ends(v) <=> j = n + WindowSize
      <3>1. PICK a \in 1 .. WindowSize : j = n + a
        <4>1. j - n \in 1 .. WindowSize /\ j = n + (j - n)
          BY <1>2, <2>2
        <4> QED
          BY <4>1
      <3>2. v[j].at = a
        <4>1. v[n + a] = [pkt |-> p, at |-> a]
          BY <1>3
        <4> QED
          BY <3>1, <4>1
      <3> QED
        BY <1>2, <1>3, <3>1, <3>2 DEF Ends
    <2>3. \A j \in Ends(v) : j \in 1 .. n + WindowSize
      BY <1>3 DEF Ends
    <2>4. \A j \in Ends(u) : j \in 1 .. n
      BY <1>1 DEF Ends
    <2> QED
      BY <1>2, <2>1, <2>2, <2>3, <2>4
  <1>6. PICK W, E : W = GivenOf(ws) /\ E = Ends(u)
    OBVIOUS
  <1>0. PICK f \in [GivenOf(ws) -> DOMAIN ps], g \in [Ends(u) -> DOMAIN ps] :
          Follow(ws, u, ps, f, g)
    BY DEF Traced
  <1>7. /\ f \in [W -> 1 .. Len(ps)] /\ g \in [E -> 1 .. Len(ps)]
        /\ \A i \in W : ps[f[i]] = ws[i]
        /\ \A i, k \in W : i < k => f[i] < f[k]
        /\ \A j \in E : ps[g[j]] = u[j].pkt
        /\ \A j, k \in E : j < k => g[j] < g[k]
        /\ \A i \in W, j \in E : f[i] < g[j]
    <2>1. DOMAIN ps = 1 .. Len(ps)
      OBVIOUS
    <2>2. f \in [W -> 1 .. Len(ps)] /\ g \in [E -> 1 .. Len(ps)]
      BY <1>6, <1>0, <2>1
    <2> QED
      BY <1>6, <1>0, <2>2 DEF Follow
  <1>8. PICK e : e = [j \in E \cup {n + WindowSize} |-> IF j \in E THEN g[j] ELSE Len(ps) + 1]
    OBVIOUS
  <1>9. E \in SUBSET (1 .. n) /\ n + WindowSize \notin E
    BY <1>1, <1>2, <1>6 DEF Ends
  <1>10. /\ \A j \in E : e[j] = g[j] /\ g[j] \in 1 .. Len(ps)
         /\ e[n + WindowSize] = Len(ps) + 1
    BY <1>7, <1>8, <1>9
  <1>11. /\ f \in [W -> DOMAIN qs] /\ \A i \in W : f[i] \in 1 .. Len(ps)
         /\ e \in [Ends(v) -> DOMAIN qs]
    <2>1. \A k \in 1 .. Len(ps) : k \in DOMAIN qs
      BY <1>2, <1>4
    <2>2. Len(ps) + 1 \in DOMAIN qs
      BY <1>2, <1>4
    <2>3. f \in [W -> DOMAIN qs] /\ \A i \in W : f[i] \in 1 .. Len(ps)
      BY <1>7, <2>1
    <2>4. e \in [E \cup {n + WindowSize} -> DOMAIN qs]
      BY <1>7, <1>8, <2>1, <2>2
    <2> QED
      BY <1>5, <1>6, <2>3, <2>4
  <1>12. \A i \in W : qs[f[i]] = ws[i]
    BY <1>4, <1>7, <1>11
  <1>13. \A j \in Ends(v) : qs[e[j]] = v[j].pkt
    <2>1. ASSUME NEW j \in E PROVE qs[e[j]] = v[j].pkt
      BY <1>3, <1>4, <1>7, <1>9, <1>10
    <2>2. v[n + WindowSize] = [pkt |-> p, at |-> WindowSize]
      <3>1. WindowSize \in 1 .. WindowSize
        BY <1>2
      <3> QED
        BY <1>3, <3>1
    <2>3. qs[e[n + WindowSize]] = v[n + WindowSize].pkt
      BY <1>4, <1>10, <2>2
    <2> QED
      BY <1>5, <1>6, <2>1, <2>3
  <1>14. \A j, k \in Ends(v) : j < k => e[j] < e[k]
    <2>1. ASSUME NEW j \in E, NEW k \in E, j < k PROVE e[j] < e[k]
      BY <1>7, <1>10, <2>1
    <2>2. ASSUME NEW j \in E PROVE e[j] < e[n + WindowSize] /\ ~ (n + WindowSize < j)
      BY <1>2, <1>9, <1>10
    <2> QED
      BY <1>2, <1>5, <1>6, <2>1, <2>2
  <1>15. \A i \in W, j \in Ends(v) : f[i] < e[j]
    <2>1. ASSUME NEW i \in W, NEW j \in E PROVE f[i] < e[j]
      BY <1>7, <1>10
    <2>2. ASSUME NEW i \in W PROVE f[i] < e[n + WindowSize]
      BY <1>2, <1>10, <1>11
    <2> QED
      BY <1>5, <1>6, <2>1, <2>2
  <1>16. Follow(ws, v, qs, f, e)
    BY <1>6, <1>7, <1>12, <1>13, <1>14, <1>15 DEF Follow
  <1>17. f \in [GivenOf(ws) -> DOMAIN qs] /\ e \in [Ends(v) -> DOMAIN qs]
    BY <1>6, <1>11
  <1> QED
    BY <1>1, <1>16, <1>17 DEF Traced

(* An attempt that was cut adds no last byte.                              *)
LEMMA TracedCut ==
  ASSUME NEW ws, NEW u \in Seq(AnyBytes), NEW ps, NEW p \in Packets,
         NEW n \in 0 .. WindowSize - 1, Traced(ws, u, ps)
  PROVE  Traced(ws, u \o SubSeq(Bytes(p), 1, n), ps)
  <1>1. PICK b, c, v : b = Bytes(p) /\ c = SubSeq(b, 1, n) /\ v = u \o c
    OBVIOUS
  <1>2. WindowSize \in Nat \ {0} /\ n \in Nat /\ n < WindowSize
    BY FrameAssumption
  <1>3. /\ b \in Seq(AnyBytes) /\ Len(b) = WindowSize
        /\ \A a \in 1 .. WindowSize : b[a] = [pkt |-> p, at |-> a]
    BY <1>1, BytesOf DEF Bytes, AnyBytes
  <1>4. c \in Seq(AnyBytes) /\ Len(c) = n
    BY <1>1, <1>2, <1>3, Cut
  <1>5. \A a \in 1 .. n : c[a] = b[a]
    BY <1>1, <1>2, <1>3
  <1>6. \A a \in 1 .. n : c[a].at = a
    <2> TAKE a \in 1 .. n
    <2>1. a \in 1 .. WindowSize
      BY <1>2
    <2>2. c[a] = [pkt |-> p, at |-> a]
      BY <1>3, <1>5, <2>1
    <2> QED
      BY <2>2
  <1>7. /\ DOMAIN v = 1 .. Len(u) + n
        /\ \A i \in 1 .. Len(u) : v[i] = u[i]
        /\ \A i \in 1 .. n : v[Len(u) + i] = c[i]
    BY <1>1, <1>4, ConcatOf
  <1>8. ASSUME NEW j \in Ends(v) PROVE j \in Ends(u) /\ v[j] = u[j]
    <2>1. j \in 1 .. Len(u) + n /\ v[j].at = WindowSize
      BY <1>7 DEF Ends
    <2>2. CASE j <= Len(u)
      <3>1. j \in 1 .. Len(u)
        BY <2>1, <2>2
      <3> QED
        BY <1>7, <2>1, <3>1 DEF Ends
    <2>3. CASE j > Len(u)
      <3>1. PICK a \in 1 .. n : j = Len(u) + a
        <4>1. j - Len(u) \in 1 .. n /\ j = Len(u) + (j - Len(u))
          BY <1>2, <2>1, <2>3
        <4> QED
          BY <4>1
      <3>2. v[j].at = a
        BY <1>6, <1>7, <3>1
      <3> QED
        BY <1>2, <2>1, <3>2
    <2> QED
      BY <1>2, <2>1, <2>2, <2>3
  <1>9. PICK h : h = [j \in Ends(v) |-> j]
    OBVIOUS
  <1>10. h \in [Ends(v) -> Ends(u)] /\ \A j \in Ends(v) : h[j] = j
    BY <1>8, <1>9
  <1>11. /\ \A j \in Ends(v) : v[j].pkt = u[h[j]].pkt
         /\ \A j, k \in Ends(v) : j < k => h[j] < h[k]
    BY <1>8, <1>10
  <1>12. Among(v, u, h) /\ SameGiven(ws, ws)
    BY <1>10, <1>11 DEF Among, SameGiven
  <1>13. Traced(ws, v, ps)
    BY <1>12, TracedLess
  <1> QED
    BY <1>1, <1>13

(* A lost byte is gone, and a changed one is the last of no packet.        *)
LEMMA TracedLost ==
  ASSUME NEW ws, NEW t \in Seq(AnyBytes), NEW s \in Seq(AnyBytes), s # << >>, NEW ps,
         Traced(ws, t \o s, ps)
  PROVE  Traced(ws, t \o Tail(s), ps)
  <1>1. PICK z, u, v, n : z = Tail(s) /\ u = t \o s /\ v = t \o z /\ n = Len(t)
    OBVIOUS
  <1>2. /\ z \in Seq(AnyBytes) /\ Len(z) = Len(s) - 1 /\ Len(s) \in Nat \ {0} /\ n \in Nat
        /\ \A i \in 1 .. Len(s) - 1 : z[i] = s[i + 1]
    BY <1>1
  <1>3. /\ DOMAIN u = 1 .. n + Len(s)
        /\ \A i \in 1 .. n : u[i] = t[i]
        /\ \A i \in 1 .. Len(s) : u[n + i] = s[i]
    BY <1>1, ConcatOf
  <1>4. /\ DOMAIN v = 1 .. n + (Len(s) - 1)
        /\ \A i \in 1 .. n : v[i] = t[i]
        /\ \A i \in 1 .. Len(s) - 1 : v[n + i] = z[i]
    BY <1>1, <1>2, ConcatOf
  <1>5. PICK h : h = [j \in Ends(v) |-> IF j <= n THEN j ELSE j + 1]
    OBVIOUS
  <1>6. ASSUME NEW j \in Ends(v)
        PROVE  /\ j \in Int /\ h[j] = (IF j <= n THEN j ELSE j + 1)
               /\ h[j] \in Ends(u) /\ v[j] = u[h[j]]
    <2>1. j \in 1 .. n + (Len(s) - 1) /\ v[j].at = WindowSize
      BY <1>4 DEF Ends
    <2>2. h[j] = IF j <= n THEN j ELSE j + 1
      BY <1>5
    <2>3. CASE j <= n
      <3>1. j \in 1 .. n
        BY <2>1, <2>3
      <3>2. v[j] = u[j]
        BY <1>3, <1>4, <3>1
      <3>3. j \in DOMAIN u
        BY <1>2, <1>3, <3>1
      <3> QED
        BY <2>1, <2>2, <2>3, <3>2, <3>3 DEF Ends
    <2>4. CASE j > n
      <3>1. PICK a \in 1 .. Len(s) - 1 : j = n + a
        <4>1. j - n \in 1 .. Len(s) - 1 /\ j = n + (j - n)
          BY <1>2, <2>1, <2>4
        <4> QED
          BY <4>1
      <3>2. a + 1 \in 1 .. Len(s) /\ j + 1 = n + (a + 1)
        BY <1>2, <3>1
      <3>3. v[j] = u[j + 1]
        <4>1. v[n + a] = z[a] /\ z[a] = s[a + 1]
          BY <1>2, <1>4
        <4>2. u[n + (a + 1)] = s[a + 1]
          BY <1>3, <3>2
        <4> QED
          BY <3>1, <3>2, <4>1, <4>2
      <3>4. j + 1 \in DOMAIN u
        BY <1>2, <1>3, <3>2
      <3>5. h[j] = j + 1
        BY <1>2, <2>1, <2>2, <2>4
      <3> QED
        BY <2>1, <2>2, <3>3, <3>4, <3>5 DEF Ends
    <2> QED
      BY <1>2, <2>1, <2>3, <2>4
  <1>7. h \in [Ends(v) -> Ends(u)]
    BY <1>5, <1>6
  <1>8. \A j \in Ends(v) : v[j].pkt = u[h[j]].pkt
    BY <1>6
  <1>9. \A j, k \in Ends(v) : j < k => h[j] < h[k]
    BY <1>2, <1>6
  <1>10. Traced(ws, v, ps)
    <2>1. Traced(ws, u, ps)
      BY <1>1
    <2>2. Among(v, u, h) /\ SameGiven(ws, ws)
      BY <1>7, <1>8, <1>9 DEF Among, SameGiven
    <2> QED
      BY <2>1, <2>2, TracedLess
  <1> QED
    BY <1>1, <1>10

LEMMA TracedChanged ==
  ASSUME NEW ws, NEW u \in Seq(AnyBytes), NEW m \in DOMAIN u, NEW ps, Traced(ws, u, ps)
  PROVE  Traced(ws, [u EXCEPT ![m] = Noise], ps)
  <1>1. PICK v : v = [u EXCEPT ![m] = Noise]
    OBVIOUS
  <1>2. DOMAIN v = DOMAIN u /\ v[m] = Noise /\ \A j \in DOMAIN u : j # m => v[j] = u[j]
    BY <1>1
  <1>3. v[m].at # WindowSize
    <2>1. Noise.at = 0
      BY DEF Noise
    <2> QED
      BY <1>2, <2>1, FrameAssumption
  <1>4. \A j \in Ends(v) : j \in Ends(u) /\ v[j] = u[j]
    BY <1>2, <1>3 DEF Ends
  <1>5. PICK h : h = [j \in Ends(v) |-> j]
    OBVIOUS
  <1>6. h \in [Ends(v) -> Ends(u)] /\ \A j \in Ends(v) : h[j] = j
    BY <1>4, <1>5
  <1>7. /\ \A j \in Ends(v) : v[j].pkt = u[h[j]].pkt
        /\ \A j, k \in Ends(v) : j < k => h[j] < h[k]
    BY <1>4, <1>6
  <1>8. Among(v, u, h) /\ SameGiven(ws, ws)
    BY <1>6, <1>7 DEF Among, SameGiven
  <1> QED
    BY <1>1, <1>8, TracedLess

(* The last bytes of t are those of u behind its first window.             *)
Behind(u, t) ==
  \A j \in Ends(t) :
    j \in Nat \ {0} /\ WindowSize + j \in Ends(u) /\ u[WindowSize + j] = t[j]

LEMMA EndsBehind ==
  ASSUME NEW w \in Seq(AnyBytes), NEW t \in Seq(AnyBytes), Len(w) = WindowSize
  PROVE  Behind(w \o t, t)
  <1>1. PICK u : u = w \o t
    OBVIOUS
  <1>2. WindowSize \in Nat \ {0} /\ Len(t) \in Nat
    BY FrameAssumption
  <1>3. /\ DOMAIN u = 1 .. WindowSize + Len(t)
        /\ \A i \in 1 .. Len(t) : u[WindowSize + i] = t[i]
    BY <1>1, ConcatOf
  <1>4. ASSUME NEW j \in Ends(t)
        PROVE  j \in Nat \ {0} /\ WindowSize + j \in Ends(u) /\ u[WindowSize + j] = t[j]
    <2>1. j \in 1 .. Len(t) /\ t[j].at = WindowSize
      BY DEF Ends
    <2>2. WindowSize + j \in DOMAIN u
      BY <1>2, <1>3, <2>1
    <2>3. u[WindowSize + j] = t[j]
      BY <1>3, <2>1
    <2>4. WindowSize + j \in Ends(u)
      BY <2>1, <2>2, <2>3 DEF Ends
    <2>5. j \in Nat \ {0}
      BY <1>2, <2>1
    <2> QED
      BY <2>3, <2>4, <2>5
  <1> QED
    BY <1>1, <1>4 DEF Behind

LEMMA EndInFront ==
  ASSUME NEW p \in Packets, NEW t \in Seq(AnyBytes)
  PROVE  WindowSize \in Ends(Bytes(p) \o t) /\ (Bytes(p) \o t)[WindowSize].pkt = p
  <1>1. PICK w, u : w = Bytes(p) /\ u = w \o t
    OBVIOUS
  <1>2. WindowSize \in Nat \ {0} /\ Len(t) \in Nat
    BY FrameAssumption
  <1>3. /\ w \in Seq(AnyBytes) /\ Len(w) = WindowSize
        /\ \A a \in 1 .. WindowSize : w[a] = [pkt |-> p, at |-> a]
    BY <1>1, BytesOf DEF Bytes, AnyBytes
  <1>4. /\ DOMAIN u = 1 .. WindowSize + Len(t)
        /\ \A i \in 1 .. WindowSize : u[i] = w[i]
    BY <1>1, <1>3, ConcatOf
  <1>5. WindowSize \in 1 .. WindowSize /\ WindowSize \in DOMAIN u
    BY <1>2, <1>4
  <1>6. u[WindowSize] = [pkt |-> p, at |-> WindowSize]
    BY <1>3, <1>4, <1>5
  <1>7. WindowSize \in Ends(u) /\ u[WindowSize].pkt = p
    BY <1>5, <1>6 DEF Ends
  <1> QED
    BY <1>1, <1>7

LEMMA TracedDropped ==
  ASSUME NEW ws \in Seq(Packets \cup {Dropped}), NEW w \in Seq(AnyBytes),
         NEW t \in Seq(AnyBytes), NEW ps, Len(w) = WindowSize,
         NEW u, u = w \o t, Traced(ws, u, ps)
  PROVE  Traced(Append(ws, Dropped), t, ps)
  <1>1. PICK vs : vs = Append(ws, Dropped)
    OBVIOUS
  <1>2. WindowSize \in Nat \ {0}
    BY FrameAssumption
  <1>3. GivenOf(vs) = GivenOf(ws) /\ \A i \in GivenOf(ws) : vs[i] = ws[i]
    <2>1. /\ DOMAIN vs = 1 .. Len(ws) + 1 /\ vs[Len(ws) + 1] = Dropped
          /\ \A i \in 1 .. Len(ws) : vs[i] = ws[i]
      BY <1>1
    <2>2. DOMAIN ws = 1 .. Len(ws) /\ Len(ws) \in Nat
      OBVIOUS
    <2> QED
      BY <2>1, <2>2 DEF GivenOf
  <1>4. \A j \in Ends(t) : /\ j \in Nat \ {0} /\ WindowSize + j \in Ends(u)
                           /\ u[WindowSize + j] = t[j]
    <2>1. Behind(u, t)
      BY EndsBehind
    <2> QED
      BY <2>1 DEF Behind
  <1>5. PICK h : h = [j \in Ends(t) |-> WindowSize + j]
    OBVIOUS
  <1>6. h \in [Ends(t) -> Ends(u)] /\ \A j \in Ends(t) : h[j] = WindowSize + j
    BY <1>4, <1>5
  <1>7. \A j \in Ends(t) : t[j].pkt = u[h[j]].pkt
    BY <1>4, <1>6
  <1>8. \A j, k \in Ends(t) : j < k => h[j] < h[k]
    BY <1>2, <1>4, <1>6
  <1>9. Traced(vs, t, ps)
    <2>1. SameGiven(vs, ws)
      BY <1>3 DEF SameGiven
    <2>2. Among(t, u, h)
      BY <1>6, <1>7, <1>8 DEF Among
    <2> QED
      BY <2>1, <2>2, TracedLess
  <1> QED
    BY <1>1, <1>9

(* The packet that is met is the first of those whose last byte was under  *)
(* way.                                                                    *)
LEMMA TracedMet ==
  ASSUME NEW ws \in Seq(Packets \cup {Dropped}), NEW t \in Seq(AnyBytes), NEW ps \in Seq(Packets),
         NEW p \in Packets, NEW w, w = Bytes(p), NEW u, u = w \o t, Traced(ws, u, ps)
  PROVE  Traced(Append(ws, p), t, ps)
  <1>1. PICK vs, n : vs = Append(ws, p) /\ n = Len(ws) + 1
    OBVIOUS
  <1>2. WindowSize \in Nat \ {0} /\ n \in Nat /\ DOMAIN ws = 1 .. n - 1
    BY <1>1, FrameAssumption
  <1>3. w \in Seq(AnyBytes) /\ Len(w) = WindowSize
    BY BytesOf DEF AnyBytes
  <1>4. /\ \A j \in Ends(t) : /\ j \in Nat \ {0} /\ WindowSize + j \in Ends(u)
                              /\ u[WindowSize + j] = t[j]
        /\ WindowSize \in Ends(u) /\ u[WindowSize].pkt = p
    <2>1. Behind(u, t)
      BY <1>3, EndsBehind
    <2>2. WindowSize \in Ends(u) /\ u[WindowSize].pkt = p
      BY EndInFront
    <2> QED
      BY <2>1, <2>2 DEF Behind
  <1>5. /\ DOMAIN vs = 1 .. n /\ vs[n] = p
        /\ \A i \in 1 .. n - 1 : vs[i] = ws[i]
    BY <1>1
  <1>6. PICK W, E, D, L : W = GivenOf(ws) /\ E = Ends(u) /\ D = Ends(t) /\ L = 1 .. Len(ps)
    OBVIOUS
  <1>7. W \in SUBSET (1 .. n - 1) /\ n \notin W /\ GivenOf(vs) = W \cup {n}
    <2>1. W \in SUBSET (1 .. n - 1)
      BY <1>2, <1>6 DEF GivenOf
    <2>2. p # Dropped
      BY FrameAssumption
    <2>3. ASSUME NEW i \in GivenOf(vs) PROVE i \in W \cup {n}
      <3>1. i \in 1 .. n /\ vs[i] # Dropped
        BY <1>5 DEF GivenOf
      <3>2. CASE i # n
        <4>1. i \in 1 .. n - 1
          BY <1>2, <3>1, <3>2
        <4> QED
          BY <1>2, <1>5, <1>6, <3>1, <4>1 DEF GivenOf
      <3> QED
        BY <3>2
    <2>4. ASSUME NEW i \in W PROVE i \in GivenOf(vs)
      <3>1. i \in 1 .. n - 1 /\ ws[i] # Dropped
        BY <1>2, <1>6 DEF GivenOf
      <3>2. i \in 1 .. n
        BY <1>2, <3>1
      <3> QED
        BY <1>5, <3>1, <3>2 DEF GivenOf
    <2>5. n \in GivenOf(vs)
      <3>1. n \in 1 .. n
        BY <1>1, <1>2
      <3> QED
        BY <1>5, <2>2, <3>1 DEF GivenOf
    <2>6. GivenOf(vs) = W \cup {n}
      BY <2>3, <2>4, <2>5
    <2> QED
      BY <1>2, <2>1, <2>6
  <1>0. PICK f \in [GivenOf(ws) -> DOMAIN ps], g \in [Ends(u) -> DOMAIN ps] :
          Follow(ws, u, ps, f, g)
    BY DEF Traced
  <1>8. /\ f \in [W -> L] /\ g \in [E -> L]
        /\ \A i \in W : ps[f[i]] = ws[i]
        /\ \A i, k \in W : i < k => f[i] < f[k]
        /\ \A j \in E : ps[g[j]] = u[j].pkt
        /\ \A j, k \in E : j < k => g[j] < g[k]
        /\ \A i \in W, j \in E : f[i] < g[j]
    <2>1. DOMAIN ps = L
      BY <1>6
    <2>2. f \in [W -> L] /\ g \in [E -> L]
      BY <1>6, <1>0, <2>1
    <2> QED
      BY <1>6, <1>0, <2>2 DEF Follow
  <1>9. PICK e, d : /\ e = [i \in W \cup {n} |-> IF i \in W THEN f[i] ELSE g[WindowSize]]
                    /\ d = [j \in D |-> g[WindowSize + j]]
    OBVIOUS
  <1>10. WindowSize \in E /\ \A j \in D : WindowSize + j \in E /\ WindowSize < WindowSize + j
    BY <1>2, <1>4, <1>6
  <1>11. /\ \A i \in W : e[i] = f[i]
         /\ e[n] = g[WindowSize]
         /\ \A j \in D : d[j] = g[WindowSize + j]
    BY <1>7, <1>9
  <1>12. e \in [W \cup {n} -> L] /\ d \in [D -> L]
    BY <1>8, <1>9, <1>10
  <1>13. ASSUME NEW i \in W PROVE ps[e[i]] = vs[i]
    BY <1>5, <1>7, <1>8, <1>11
  <1>14. ps[e[n]] = vs[n]
    BY <1>4, <1>5, <1>8, <1>10, <1>11
  <1>15. \A i, k \in W \cup {n} : i < k => e[i] < e[k]
    <2>1. ASSUME NEW i \in W, NEW k \in W, i < k PROVE e[i] < e[k]
      BY <1>8, <1>11, <2>1
    <2>2. ASSUME NEW i \in W PROVE e[i] < e[n] /\ ~ (n < i)
      <3>1. e[i] < e[n]
        BY <1>8, <1>10, <1>11
      <3>2. i \in 1 .. n - 1
        BY <1>7
      <3> QED
        BY <1>2, <3>1, <3>2
    <2> QED
      BY <1>2, <2>1, <2>2
  <1>16. \A j \in D : ps[d[j]] = t[j].pkt
    <2> TAKE j \in D
    <2>1. ps[g[WindowSize + j]] = u[WindowSize + j].pkt
      BY <1>8, <1>10
    <2>2. u[WindowSize + j] = t[j]
      BY <1>4, <1>6
    <2> QED
      BY <1>11, <2>1, <2>2
  <1>17. \A j, k \in D : j < k => d[j] < d[k]
    <2> SUFFICES ASSUME NEW j \in D, NEW k \in D, j < k PROVE d[j] < d[k]
      OBVIOUS
    <2>1. WindowSize + j < WindowSize + k
      BY <1>2, <1>4, <1>6
    <2> QED
      BY <1>8, <1>10, <1>11, <2>1
  <1>18. \A i \in W \cup {n}, j \in D : e[i] < d[j]
    BY <1>8, <1>10, <1>11
  <1>19. Follow(vs, t, ps, e, d)
    <2>1. GivenOf(vs) = W \cup {n} /\ Ends(t) = D
      BY <1>6, <1>7
    <2>2. \A i \in W \cup {n} : ps[e[i]] = vs[i]
      BY <1>13, <1>14
    <2> QED
      BY <1>15, <1>16, <1>17, <1>18, <2>1, <2>2 DEF Follow
  <1>20. e \in [GivenOf(vs) -> DOMAIN ps] /\ d \in [Ends(t) -> DOMAIN ps]
    <2>1. DOMAIN ps = L
      BY <1>6
    <2> QED
      BY <1>6, <1>7, <1>12, <2>1
  <1> QED
    BY <1>1, <1>19, <1>20 DEF Traced

TracedInv == Traced(windows, Underway, sent)

LEMMA InitTraced == Init => TracedInv
  <1> SUFFICES ASSUME Init PROVE TracedInv
    OBVIOUS
  <1>1. Underway = << >> /\ windows = << >> /\ sent = << >>
    BY DEF Init, Underway
  <1>2. GivenOf(windows) = {} /\ Ends(Underway) = {}
    BY <1>1 DEF GivenOf, Ends
  <1>3. PICK e : e = [i \in {} |-> 0]
    OBVIOUS
  <1>4. e \in [GivenOf(windows) -> DOMAIN sent] /\ e \in [Ends(Underway) -> DOMAIN sent]
    BY <1>2, <1>3
  <1>5. Follow(windows, Underway, sent, e, e)
    BY <1>2 DEF Follow
  <1> QED
    BY <1>4, <1>5 DEF TracedInv, Traced

LEMMA StepTraced ==
  ASSUME TypeOK, TracedInv, [Next]_vars
  PROVE  TracedInv'
  <1> SUFFICES Traced(windows', Underway', sent')
    BY DEF TracedInv
  <1>1. /\ line \in Seq(AnyBytes) /\ temp \in Seq(AnyBytes) /\ Underway \in Seq(AnyBytes)
        /\ sent \in Seq(Packets) /\ windows \in Seq(Packets \cup {Dropped})
        /\ WindowSize \in Nat \ {0}
    BY FrameAssumption DEF TypeOK, AnyBytes, Underway
  <1>2. Traced(windows, Underway, sent)
    BY DEF TracedInv
  <1>3. ASSUME UNCHANGED <<Underway, windows, sent>>
        PROVE  Traced(windows', Underway', sent')
    BY <1>2, <1>3
  <1>4. CASE UNCHANGED vars
    BY <1>3, <1>4 DEF vars, receiver, sender, Underway
  <1>5. ASSUME NEW p \in Packets, IoSend(p)
        PROVE  Traced(windows', Underway', sent')
    BY <1>3, <1>5 DEF IoSend, receiver, Underway
  <1>6. CASE Attempt
    <2>1. PICK p, n : p = sending.pkt /\ n = Taken
      OBVIOUS
    <2>2. /\ p \in Packets /\ UNCHANGED <<temp, windows>>
          /\ line' = line \o SubSeq(Bytes(p), 1, n)
          /\ IF n = WindowSize THEN sent' = Append(sent, p) ELSE sent' = sent
      BY <1>6, <2>1 DEF Attempt, TypeOK, receiver
    <2>3. n \in 0 .. WindowSize
      BY <2>1, FrameAssumption DEF Taken, Room, TypeOK
    <2>4. Underway' = Underway \o SubSeq(Bytes(p), 1, n)
      <3>1. SubSeq(Bytes(p), 1, n) \in Seq(AnyBytes)
        <4>1. Bytes(p) \in Seq(AnyBytes) /\ n \in 0 .. Len(Bytes(p))
          BY <2>2, <2>3, BytesOf DEF AnyBytes
        <4> QED
          BY <4>1, Cut
      <3>2. temp \o (line \o SubSeq(Bytes(p), 1, n)) = (temp \o line) \o SubSeq(Bytes(p), 1, n)
        BY <1>1, <3>1, Grouped
      <3> QED
        BY <2>2, <3>2 DEF Underway
    <2>5. CASE n = WindowSize
      <3>1. SubSeq(Bytes(p), 1, n) = Bytes(p)
        BY <1>1, <2>2, <2>5, BytesOf
      <3>2. Traced(windows, Underway \o Bytes(p), Append(sent, p))
        BY <1>1, <1>2, <2>2, TracedSent
      <3> QED
        BY <2>2, <2>4, <2>5, <3>1, <3>2
    <2>6. CASE n # WindowSize
      <3>1. n \in 0 .. WindowSize - 1
        BY <1>1, <2>3, <2>6
      <3>2. Traced(windows, Underway \o SubSeq(Bytes(p), 1, n), sent)
        BY <1>1, <1>2, <2>2, <3>1, TracedCut
      <3> QED
        BY <2>2, <2>4, <2>6, <3>2
    <2> QED
      BY <2>5, <2>6
  <1>7. ASSUME NEW r \in 0 .. WindowSize, IoRecv(r)
        PROVE  Traced(windows', Underway', sent')
    <2>1. PICK w, t : w = temp \o SubSeq(line, 1, r) /\ t = SubSeq(line, r + 1, Len(line))
      OBVIOUS
    <2>2. r \in 0 .. Len(line) /\ line' = t /\ sent' = sent
      BY <1>1, <1>7, <2>1 DEF IoRecv, Smaller, sender
    <2>3. w \in Seq(AnyBytes) /\ t \in Seq(AnyBytes) /\ w \o t = Underway
      <3>1. SubSeq(line, 1, r) \in Seq(AnyBytes) /\ t \in Seq(AnyBytes)
        BY <1>1, <2>1, <2>2, Cut
      <3>2. w \in Seq(AnyBytes)
        BY <1>1, <2>1, <3>1
      <3>3. (temp \o SubSeq(line, 1, r)) \o SubSeq(line, r + 1, Len(line)) = temp \o line
        BY <1>1, <2>2, Moved
      <3> QED
        BY <2>1, <3>1, <3>2, <3>3 DEF Underway
    <2>4. CASE r = 0
      <3>1. UNCHANGED <<temp, windows>>
        BY <1>7, <2>4 DEF IoRecv
      <3>2. line' = line
        BY <1>1, <2>1, <2>2, <2>4
      <3> QED
        BY <1>3, <2>2, <3>1, <3>2 DEF Underway
    <2>5. CASE r # 0 /\ Len(w) # WindowSize
      <3>1. temp' = w /\ windows' = windows
        BY <1>7, <2>1, <2>5 DEF IoRecv, FrameRecv
      <3> QED
        BY <1>3, <2>2, <2>3, <3>1 DEF Underway
    <2>6. CASE r # 0 /\ Len(w) = WindowSize
      <3>1. /\ temp' = << >>
            /\ windows' = Append(windows, IF IsPacket(w) THEN w[1].pkt ELSE Dropped)
        BY <1>7, <2>1, <2>6 DEF IoRecv, FrameRecv
      <3>2. Underway' = t
        BY <2>2, <2>3, <3>1 DEF Underway
      <3>3. CASE IsPacket(w)
        <4>1. PICK p \in Packets : w = Bytes(p)
          BY <3>3 DEF IsPacket
        <4>2. w[1].pkt = p
          BY <1>1, <4>1 DEF Bytes
        <4>3. Traced(Append(windows, p), t, sent)
          BY <1>1, <1>2, <2>3, <4>1, TracedMet
        <4> QED
          BY <2>2, <3>1, <3>2, <3>3, <4>2, <4>3
      <3>4. CASE ~ IsPacket(w)
        <4>1. Traced(Append(windows, Dropped), t, sent)
          BY <1>1, <1>2, <2>3, <2>6, TracedDropped
        <4> QED
          BY <2>2, <3>1, <3>2, <3>4, <4>1
      <3> QED
        BY <3>3, <3>4
    <2> QED
      BY <2>4, <2>5, <2>6
  <1>8. CASE LoseByte
    <2>1. line # << >> /\ line' = Tail(line) /\ UNCHANGED <<temp, windows, sent>>
      BY <1>8 DEF LoseByte, sender, receiver
    <2>2. Traced(windows, temp \o Tail(line), sent)
      BY <1>1, <1>2, <2>1, TracedLost DEF Underway
    <2> QED
      BY <2>1, <2>2 DEF Underway
  <1>9. CASE ChangeByte
    <2>1. /\ line # << >> /\ line' = [line EXCEPT ![1] = Noise]
          /\ UNCHANGED <<temp, windows, sent>>
      BY <1>9 DEF ChangeByte, sender, receiver
    <2>2. /\ temp \o line' = [temp \o line EXCEPT ![Len(temp) + 1] = Noise]
          /\ Len(temp) + 1 \in DOMAIN Underway
      BY <1>1, <2>1, ChangedAt DEF Underway
    <2>3. Underway' = [Underway EXCEPT ![Len(temp) + 1] = Noise]
      BY <2>1, <2>2 DEF Underway
    <2>4. Traced(windows, [Underway EXCEPT ![Len(temp) + 1] = Noise], sent)
      BY <1>1, <1>2, <2>2, TracedChanged
    <2> QED
      BY <2>1, <2>3, <2>4
  <1> QED
    BY <1>4, <1>5, <1>6, <1>7, <1>8, <1>9 DEF Next

(* Lost, changed and cut bytes notwithstanding, protocol_recv gets packets *)
(* that io_send reported as sent, each once at most and in their order:    *)
(* what the link above may count on of a byte stream.                      *)
THEOREM KeepsOrder == Spec => []OrderKept
  <1> DEFINE Inv == TypeOK /\ BytesAccounted /\ TracedInv
  <1>1. Init => Inv
    BY InitType, InitTraced
  <1>2. Inv /\ [Next]_vars => Inv'
    BY StepType, StepTraced
  <1>3. Inv => OrderKept
    <2> SUFFICES ASSUME TracedInv PROVE OrderKept
      OBVIOUS
    <2>1. PICK f \in [GivenOf(windows) -> DOMAIN sent], g \in [Ends(Underway) -> DOMAIN sent] :
            Follow(windows, Underway, sent, f, g)
      BY DEF TracedInv, Traced
    <2>2. Given = GivenOf(windows)
      BY DEF Given, GivenOf
    <2>3. /\ f \in [Given -> DOMAIN sent]
          /\ \A i \in Given : windows[i] = sent[f[i]]
          /\ \A i, k \in Given : i < k => f[i] < f[k]
      <3>1. \A i \in GivenOf(windows) : windows[i] = sent[f[i]]
        BY <2>1 DEF Follow
      <3>2. \A i, k \in GivenOf(windows) : i < k => f[i] < f[k]
        BY <2>1 DEF Follow
      <3> QED
        BY <2>1, <2>2, <3>1, <3>2
    <2> QED
      BY <2>3, Zenon DEF OrderKept
  <1> QED
    BY <1>1, <1>2, <1>3, PTL DEF Spec
=============================================================================
