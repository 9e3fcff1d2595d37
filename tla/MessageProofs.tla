--------------------------- MODULE MessageProofs ----------------------------
(* Proofs about Message, for every size of headers, pool and packets, set  *)
(* of ids and sizes, and number of messages.                               *)
EXTENDS Message, Arithmetic

(* What is proved of the table is used here.                               *)
TableProofs == INSTANCE SortedArrayProofs WITH
                 Keys <- MsgIds, Capacity <- IdsCapacity, data <- slots, count <- subscribed

-----------------------------------------------------------------------------
(* Sequences and bytes.                                                    *)

LEMMA Constants ==
  /\ HeaderSize \in Nat \ {0} /\ SizeMod \in Nat \ {0} /\ PoolSize \in Nat
  /\ PoolSize >= HeaderSize /\ Segment \in Nat \ {0} /\ LinkCapacity \in Nat
  /\ MaxMessages \in Nat /\ Sizes \subseteq Nat
  BY LayoutAssumption, LinkAssumption, TrafficAssumption

(* What v is if it is s followed by t, or the part of s from x + 1 to y.   *)
Joins(s, t, v) ==
  /\ v \in Seq(Byte) /\ Len(v) = Len(s) + Len(t)
  /\ \A i \in 1 .. Len(s) : v[i] = s[i]
  /\ \A i \in 1 .. Len(t) : v[Len(s) + i] = t[i]

PartIs(s, x, y, v) ==
  /\ v \in Seq(Byte) /\ Len(v) = y - x
  /\ \A i \in 1 .. y - x : v[i] = s[x + i]

LEMMA ConcatOf ==
  ASSUME NEW s \in Seq(Byte), NEW t \in Seq(Byte)
  PROVE  Joins(s, t, s \o t)
  BY DEF Joins

LEMMA PartOf ==
  ASSUME NEW s \in Seq(Byte), NEW x \in Nat, NEW y \in Nat, x <= y, y <= Len(s)
  PROVE  PartIs(s, x, y, SubSeq(s, x + 1, y))
  BY DEF PartIs

(* Sequences of the same length and elements are the same.             *)
LEMMA SameSeq ==
  ASSUME NEW s \in Seq(Byte), NEW t \in Seq(Byte), Len(s) = Len(t),
         \A i \in 1 .. Len(s) : s[i] = t[i]
  PROVE  s = t
  OBVIOUS

LEMMA BytesAre ==
  ASSUME NEW m \in 1 .. MaxMessages, NEW a \in Nat, NEW b \in Nat, a <= b
  PROVE  /\ Bytes(m, a, b) \in Seq(Byte) /\ Len(Bytes(m, a, b)) = b - a
         /\ \A i \in 1 .. b - a : Bytes(m, a, b)[i] = [msg |-> m, at |-> a + i - 1]
  <1>1. PICK n \in Nat : n = b - a
    OBVIOUS
  <1>2. \A i \in 1 .. n : [msg |-> m, at |-> a + i - 1] \in Byte
    BY DEF Byte
  <1>3. Bytes(m, a, b) = [i \in 1 .. n |-> [msg |-> m, at |-> a + i - 1]]
    BY <1>1 DEF Bytes
  <1>4. PICK v : v = [i \in 1 .. n |-> [msg |-> m, at |-> a + i - 1]]
    OBVIOUS
  <1>5. v \in Seq(Byte) /\ Len(v) = n
    <2>1. DOMAIN v = 1 .. n /\ \A i \in 1 .. n : v[i] \in Byte
      BY <1>2, <1>4
    <2>2. v = [i \in 1 .. n |-> v[i]]
      BY <1>4
    <2> QED
      BY <2>1, <2>2
  <1>6. \A i \in 1 .. n : v[i] = [msg |-> m, at |-> a + i - 1]
    BY <1>4
  <1> QED
    BY <1>1, <1>3, <1>4, <1>5, <1>6

LEMMA BytesJoin ==
  ASSUME NEW m \in 1 .. MaxMessages, NEW a \in Nat, NEW b \in Nat, NEW c \in Nat,
         a <= b, b <= c
  PROVE  Bytes(m, a, b) \o Bytes(m, b, c) = Bytes(m, a, c)
  <1>1. PICK v : v = Bytes(m, a, b) \o Bytes(m, b, c)
    OBVIOUS
  <1>2. /\ Bytes(m, a, b) \in Seq(Byte) /\ Len(Bytes(m, a, b)) = b - a
        /\ \A i \in 1 .. b - a : Bytes(m, a, b)[i] = [msg |-> m, at |-> a + i - 1]
    BY BytesAre
  <1>3. /\ Bytes(m, b, c) \in Seq(Byte) /\ Len(Bytes(m, b, c)) = c - b
        /\ \A i \in 1 .. c - b : Bytes(m, b, c)[i] = [msg |-> m, at |-> b + i - 1]
    BY BytesAre
  <1>4. /\ Bytes(m, a, c) \in Seq(Byte) /\ Len(Bytes(m, a, c)) = c - a
        /\ \A i \in 1 .. c - a : Bytes(m, a, c)[i] = [msg |-> m, at |-> a + i - 1]
    <2>1. a <= c
      OBVIOUS
    <2> QED
      BY <2>1, BytesAre
  <1>5. PICK s, t, u : s = Bytes(m, a, b) /\ t = Bytes(m, b, c) /\ u = Bytes(m, a, c)
    OBVIOUS
  <1>6. /\ v \in Seq(Byte) /\ Len(v) = c - a
        /\ \A i \in 1 .. b - a : v[i] = [msg |-> m, at |-> a + i - 1]
        /\ \A i \in 1 .. c - b : v[(b - a) + i] = [msg |-> m, at |-> b + i - 1]
    <2>1. Joins(s, t, v)
      BY <1>1, <1>2, <1>3, <1>5, ConcatOf
    <2>2. /\ v \in Seq(Byte) /\ Len(v) = Len(s) + Len(t)
          /\ \A i \in 1 .. Len(s) : v[i] = s[i]
          /\ \A i \in 1 .. Len(t) : v[Len(s) + i] = t[i]
      BY <2>1 DEF Joins
    <2>3. /\ Len(s) = b - a /\ Len(t) = c - b
          /\ \A i \in 1 .. b - a : s[i] = [msg |-> m, at |-> a + i - 1]
          /\ \A i \in 1 .. c - b : t[i] = [msg |-> m, at |-> b + i - 1]
      BY <1>2, <1>3, <1>5
    <2>4. ASSUME NEW i \in 1 .. b - a PROVE v[i] = [msg |-> m, at |-> a + i - 1]
      BY <2>2, <2>3
    <2>5. ASSUME NEW i \in 1 .. c - b PROVE v[(b - a) + i] = [msg |-> m, at |-> b + i - 1]
      BY <2>2, <2>3
    <2>6. v \in Seq(Byte) /\ Len(v) = c - a
      BY <2>2, <2>3
    <2> QED
      BY <2>4, <2>5, <2>6, Zenon
  <1>7. ASSUME NEW i \in 1 .. c - a PROVE v[i] = u[i]
    <2>1. u[i] = [msg |-> m, at |-> a + i - 1]
      BY <1>4, <1>5
    <2>2. CASE i <= b - a
      <3>1. i \in 1 .. b - a
        BY <2>2
      <3> QED
        BY <1>6, <2>1, <3>1
    <2>3. CASE i > b - a
      <3>1. PICK k \in 1 .. c - b : i = (b - a) + k
        <4>1. i - (b - a) \in 1 .. c - b /\ i = (b - a) + (i - (b - a))
          BY <2>3
        <4> QED
          BY <4>1
      <3>2. a + i - 1 = b + k - 1
        BY <3>1
      <3>3. v[i] = [msg |-> m, at |-> b + k - 1]
        BY <1>6, <3>1
      <3> QED
        BY <2>1, <3>2, <3>3
    <2> QED
      BY <2>2, <2>3
  <1>8. u \in Seq(Byte) /\ Len(u) = c - a
    BY <1>4, <1>5
  <1>9. v = u
    BY <1>6, <1>7, <1>8, SameSeq
  <1> QED
    BY <1>1, <1>5, <1>9

LEMMA BytesPart ==
  ASSUME NEW m \in 1 .. MaxMessages, NEW a \in Nat, NEW b \in Nat, a <= b
  PROVE  SubSeq(Bytes(m, 0, b), a + 1, b) = Bytes(m, a, b)
  <1>1. PICK s, t, v : /\ s = Bytes(m, 0, b) /\ t = Bytes(m, a, b)
                       /\ v = SubSeq(s, a + 1, b)
    OBVIOUS
  <1>2. /\ Bytes(m, 0, b) \in Seq(Byte) /\ Len(Bytes(m, 0, b)) = b - 0
        /\ \A i \in 1 .. b - 0 : Bytes(m, 0, b)[i] = [msg |-> m, at |-> 0 + i - 1]
    <2>1. 0 \in Nat /\ 0 <= b
      OBVIOUS
    <2> QED
      BY <2>1, BytesAre
  <1>3. /\ Bytes(m, a, b) \in Seq(Byte) /\ Len(Bytes(m, a, b)) = b - a
        /\ \A i \in 1 .. b - a : Bytes(m, a, b)[i] = [msg |-> m, at |-> a + i - 1]
    BY BytesAre
  <1>4. s \in Seq(Byte) /\ Len(s) = b /\ t \in Seq(Byte) /\ Len(t) = b - a
    BY <1>1, <1>2, <1>3
  <1>5. v \in Seq(Byte) /\ Len(v) = b - a /\ \A i \in 1 .. b - a : v[i] = s[a + i]
    <2>1. PartIs(s, a, b, v)
      BY <1>1, <1>4, PartOf
    <2> QED
      BY <2>1 DEF PartIs
  <1>6. ASSUME NEW i \in 1 .. b - a PROVE v[i] = t[i]
    <2>1. a + i \in 1 .. b - 0 /\ 0 + (a + i) - 1 = a + i - 1
      OBVIOUS
    <2>2. s[a + i] = [msg |-> m, at |-> a + i - 1]
      BY <1>1, <1>2, <2>1
    <2>3. t[i] = [msg |-> m, at |-> a + i - 1]
      BY <1>1, <1>3
    <2> QED
      BY <1>5, <2>2, <2>3
  <1>7. v = t
    BY <1>4, <1>5, <1>6, SameSeq
  <1> QED
    BY <1>1, <1>7

-----------------------------------------------------------------------------
(* The messages sent and the bytes under way.                              *)

Message == [id : MsgIds, size : Sizes, put : Nat, from : Nat]

(* The messages ms were put into the stream one after the other.           *)
InRow(ms) ==
  \A m \in DOMAIN ms :
    /\ ms[m].put <= HeaderSize + ms[m].size
    /\ m < Len(ms) => ms[m + 1].from = ms[m].from + ms[m].put
    /\ \A n \in m + 1 .. Len(ms) : ms[m].from + ms[m].put <= ms[n].from

(* The bytes st are those of the messages ms from the base-th on.          *)
Follow(ms, st, base) ==
  \A j \in DOMAIN st :
    /\ st[j].msg \in DOMAIN ms /\ st[j].at < ms[st[j].msg].put
    /\ ms[st[j].msg].from + st[j].at + 1 = base + j

(* How many bytes the messages ms have put into the stream.                *)
EndOf(ms) == IF ms = << >> THEN 0 ELSE ms[Len(ms)].from + ms[Len(ms)].put

LEMMA StreamIs ==
  /\ StreamInPlace <=> /\ InRow(sent) /\ Follow(sent, stream, Taken)
                       /\ sending => sent # << >> /\ ~Whole(Len(sent))
  /\ Accepted = EndOf(sent)
  BY DEF StreamInPlace, InRow, Follow, Accepted, EndOf, Last

LEMMA MessageFacts ==
  ASSUME NEW ms \in Seq(Message), NEW m \in DOMAIN ms
  PROVE  /\ ms[m].id \in MsgIds /\ ms[m].size \in Sizes /\ ms[m].size \in Nat
         /\ ms[m].put \in Nat /\ ms[m].from \in Nat
         /\ m \in 1 .. Len(ms) /\ Len(ms) \in Nat
  <1>1. ms[m] \in Message
    OBVIOUS
  <1>2. /\ ms[m].id \in MsgIds /\ ms[m].size \in Sizes
        /\ ms[m].put \in Nat /\ ms[m].from \in Nat
    BY <1>1 DEF Message
  <1>3. m \in 1 .. Len(ms) /\ Len(ms) \in Nat
    OBVIOUS
  <1> QED
    BY <1>2, <1>3, Constants

LEMMA EndFacts ==
  ASSUME NEW ms \in Seq(Message)
  PROVE  /\ EndOf(ms) \in Nat
         /\ InRow(ms) => \A m \in DOMAIN ms : ms[m].from + ms[m].put <= EndOf(ms)
  <1>1. CASE ms = << >>
    BY <1>1 DEF EndOf
  <1>2. CASE ms # << >>
    <2>1. PICK l \in DOMAIN ms : l = Len(ms)
      BY <1>2
    <2>2. EndOf(ms) = ms[l].from + ms[l].put
      BY <1>2, <2>1 DEF EndOf
    <2>3. /\ ms[l].from \in Nat /\ ms[l].put \in Nat
          /\ \A m \in DOMAIN ms : ms[m].from \in Nat /\ ms[m].put \in Nat
      BY MessageFacts
    <2>4. ASSUME InRow(ms), NEW m \in DOMAIN ms PROVE ms[m].from + ms[m].put <= EndOf(ms)
      <3>1. m \in 1 .. l
        BY <2>1
      <3>2. CASE m = l
        BY <2>2, <2>3, <3>2
      <3>3. CASE m # l
        <4>1. l \in m + 1 .. Len(ms)
          BY <2>1, <3>1, <3>3
        <4>2. ms[m].from + ms[m].put <= ms[l].from
          BY <2>4, <4>1 DEF InRow
        <4> QED
          BY <2>2, <2>3, <4>2
      <3> QED
        BY <3>2, <3>3
    <2> QED
      BY <2>2, <2>3, <2>4
  <1> QED
    BY <1>1, <1>2

(* A new message goes behind the others.                                   *)
LEMMA RowAppend ==
  ASSUME NEW ms \in Seq(Message), InRow(ms), NEW x \in Message,
         x.put = 0, x.from = EndOf(ms)
  PROVE  /\ Append(ms, x) \in Seq(Message) /\ InRow(Append(ms, x))
         /\ EndOf(Append(ms, x)) = EndOf(ms)
  <1>0. PICK l \in Nat : l = Len(ms)
    OBVIOUS
  <1>1. PICK ns : l = Len(ms) /\ ns = Append(ms, x)
    BY <1>0
  <1>2. /\ ns \in Seq(Message) /\ Len(ns) = l + 1 /\ DOMAIN ns = 1 .. l + 1 /\ ns[l + 1] = x
        /\ \A m \in 1 .. l : ns[m] = ms[m]
    BY <1>1
  <1>3. EndOf(ms) \in Nat /\ \A m \in 1 .. l : ms[m].from + ms[m].put <= EndOf(ms)
    BY <1>1, EndFacts
  <1>4. EndOf(ns) = x.from + x.put
    <2>1. ns # << >>
      BY <1>2
    <2> QED
      BY <1>2, <2>1 DEF EndOf
  <1>5. x.size \in Nat
    BY Constants DEF Message
  <1>6. ASSUME NEW m \in DOMAIN ns
        PROVE  /\ ns[m].put <= HeaderSize + ns[m].size
               /\ m < Len(ns) => ns[m + 1].from = ns[m].from + ns[m].put
               /\ \A n \in m + 1 .. Len(ns) : ns[m].from + ns[m].put <= ns[n].from
    <2>1. CASE m = l + 1
      BY <1>2, <1>5, <2>1, Constants
    <2>2. CASE m # l + 1
      <3>1. m \in 1 .. l
        BY <1>2, <2>2
      <3>2. ns[m] = ms[m] /\ m \in DOMAIN ms
        BY <1>1, <1>2, <3>1
      <3>3. ns[m].put <= HeaderSize + ns[m].size
        BY <3>2 DEF InRow
      <3>4. ASSUME NEW n \in m + 1 .. l + 1 PROVE ns[m].from + ns[m].put <= ns[n].from
        <4>1. CASE n = l + 1
          BY <1>2, <1>3, <3>1, <3>2, <4>1
        <4>2. CASE n # l + 1
          <5>1. n \in m + 1 .. l /\ n \in 1 .. l
            BY <3>1, <4>2
          <5>2. ns[n] = ms[n]
            BY <1>2, <5>1
          <5>3. ms[m].from + ms[m].put <= ms[n].from
            BY <1>1, <3>2, <5>1 DEF InRow
          <5> QED
            BY <3>2, <5>2, <5>3
        <4> QED
          BY <4>1, <4>2
      <3>5. ns[m + 1].from = ns[m].from + ns[m].put
        <4>1. CASE m = l
          <5>1. ms # << >>
            BY <1>1, <3>1, <4>1
          <5>2. EndOf(ms) = ms[m].from + ms[m].put
            BY <1>1, <4>1, <5>1 DEF EndOf
          <5> QED
            BY <1>2, <3>2, <4>1, <5>2
        <4>2. CASE m # l
          <5>1. m + 1 \in 1 .. l /\ m < Len(ms)
            BY <1>1, <3>1, <4>2
          <5>2. ns[m + 1] = ms[m + 1]
            BY <1>2, <5>1
          <5>3. ms[m + 1].from = ms[m].from + ms[m].put
            BY <3>2, <5>1 DEF InRow
          <5> QED
            BY <3>2, <5>2, <5>3
        <4> QED
          BY <4>1, <4>2
      <3> QED
        BY <1>2, <3>3, <3>4, <3>5
    <2> QED
      BY <2>1, <2>2
  <1>7. EndOf(ns) = EndOf(ms)
    BY <1>3, <1>4
  <1> QED
    BY <1>1, <1>2, <1>6, <1>7 DEF InRow

(* The last message has more of its bytes put.                             *)
Puts(ms, l, p, ns) == ns = [ms EXCEPT ![l].put = p]

LEMMA RowPut ==
  ASSUME NEW ms \in Seq(Message), InRow(ms), NEW l, l = Len(ms), l # 0, NEW p \in Nat,
         ms[l].put <= p, p <= HeaderSize + ms[l].size, NEW ns, Puts(ms, l, p, ns)
  PROVE  /\ ns \in Seq(Message) /\ InRow(ns) /\ Len(ns) = l /\ DOMAIN ns = DOMAIN ms
         /\ \A m \in DOMAIN ms : /\ ns[m].from = ms[m].from /\ ns[m].size = ms[m].size
                                 /\ ns[m].id = ms[m].id
                                 /\ ns[m].put = IF m = l THEN p ELSE ms[m].put
         /\ EndOf(ns) = ms[l].from + p
  <1>1. l \in DOMAIN ms /\ l \in Nat /\ DOMAIN ms = 1 .. l
    OBVIOUS
  <1>2. PICK x : x = [ms[l] EXCEPT !.put = p]
    OBVIOUS
  <1>3. x \in Message /\ x.from = ms[l].from /\ x.size = ms[l].size /\ x.id = ms[l].id /\ x.put = p
    <2>1. ms[l] \in Message
      BY <1>1
    <2> QED
      BY <1>2, <2>1 DEF Message
  <1>4. ns = [ms EXCEPT ![l] = x]
    BY <1>2 DEF Puts
  <1>5. ns \in Seq(Message) /\ Len(ns) = l /\ DOMAIN ns = DOMAIN ms
    BY <1>1, <1>3, <1>4
  <1>6. \A m \in DOMAIN ms : ns[m] = IF m = l THEN x ELSE ms[m]
    BY <1>4
  <1>7. \A m \in DOMAIN ms : /\ ns[m].from = ms[m].from /\ ns[m].size = ms[m].size
                             /\ ns[m].id = ms[m].id
                             /\ ns[m].put = IF m = l THEN p ELSE ms[m].put
    BY <1>3, <1>6
  <1>8. EndOf(ns) = ms[l].from + p
    <2>1. ns # << >>
      BY <1>1, <1>5
    <2> QED
      BY <1>1, <1>5, <1>7, <2>1 DEF EndOf
  <1>9. ASSUME NEW m \in DOMAIN ns
        PROVE  /\ ns[m].put <= HeaderSize + ns[m].size
               /\ m < Len(ns) => ns[m + 1].from = ns[m].from + ns[m].put
               /\ \A n \in m + 1 .. Len(ns) : ns[m].from + ns[m].put <= ns[n].from
    <2>1. m \in DOMAIN ms /\ m \in 1 .. l
      BY <1>1, <1>5
    <2>2. ns[m].put <= HeaderSize + ns[m].size
      BY <1>7, <2>1 DEF InRow
    <2>3. m < Len(ns) => ns[m + 1].from = ns[m].from + ns[m].put
      <3>1. m < l => m + 1 \in DOMAIN ms /\ m # l
        BY <1>1, <2>1
      <3> QED
        BY <1>5, <1>7, <2>1, <3>1 DEF InRow
    <2>4. ASSUME NEW n \in m + 1 .. Len(ns) PROVE ns[m].from + ns[m].put <= ns[n].from
      <3>1. n \in DOMAIN ms /\ m # l /\ n \in m + 1 .. Len(ms)
        BY <1>1, <1>5, <2>1
      <3> QED
        BY <1>7, <2>1, <3>1 DEF InRow
    <2> QED
      BY <2>2, <2>3, <2>4
  <1> QED
    BY <1>5, <1>7, <1>8, <1>9 DEF InRow

(* The bytes under way do not mind more messages, or more bytes put.       *)
LEMMA FollowMore ==
  ASSUME NEW ms, NEW ns, NEW st, NEW base, Follow(ms, st, base),
         \A j \in DOMAIN st : st[j].at \in Nat,
         \A m \in DOMAIN ms : /\ m \in DOMAIN ns /\ ns[m].from = ms[m].from
                              /\ ms[m].put \in Nat /\ ns[m].put \in Nat
                              /\ ms[m].put <= ns[m].put
  PROVE  Follow(ns, st, base)
  <1> SUFFICES ASSUME NEW j \in DOMAIN st
               PROVE  /\ st[j].msg \in DOMAIN ns /\ st[j].at < ns[st[j].msg].put
                      /\ ns[st[j].msg].from + st[j].at + 1 = base + j
    BY DEF Follow
  <1>1. PICK m, a : m = st[j].msg /\ a = st[j].at /\ a \in Nat
    OBVIOUS
  <1>2. m \in DOMAIN ms /\ a < ms[m].put /\ ms[m].from + a + 1 = base + j
    BY <1>1 DEF Follow
  <1>3. m \in DOMAIN ns /\ a < ns[m].put /\ ns[m].from + a + 1 = base + j
    BY <1>1, <1>2
  <1> QED
    BY <1>1, <1>3

LEMMA FollowJoin ==
  ASSUME NEW ms, NEW st \in Seq(Byte), NEW base \in Int, Follow(ms, st, base),
         NEW l \in 1 .. MaxMessages, l \in DOMAIN ms, NEW a \in Nat, NEW b \in Nat, a <= b,
         ms[l].put = b, ms[l].from + a = base + Len(st), ms[l].from \in Nat,
         NEW v, Joins(st, Bytes(l, a, b), v)
  PROVE  v \in Seq(Byte) /\ Len(v) = Len(st) + (b - a) /\ Follow(ms, v, base)
  <1>1. PICK t : t = Bytes(l, a, b)
    OBVIOUS
  <1>2. /\ t \in Seq(Byte) /\ Len(t) = b - a
        /\ \A i \in 1 .. b - a : t[i] = [msg |-> l, at |-> a + i - 1]
    BY <1>1, BytesAre
  <1>3. Joins(st, t, v)
    BY <1>1
  <1>4. Len(st) \in Nat /\ Len(t) \in Nat
    BY <1>2
  <1>5. ASSUME NEW j \in DOMAIN v
        PROVE  /\ v[j].msg \in DOMAIN ms /\ v[j].at < ms[v[j].msg].put
               /\ ms[v[j].msg].from + v[j].at + 1 = base + j
    <2>1. j \in 1 .. Len(st) + Len(t)
      BY <1>3 DEF Joins
    <2>2. CASE j <= Len(st)
      <3>1. j \in DOMAIN st /\ v[j] = st[j]
        BY <1>3, <1>4, <2>1, <2>2 DEF Joins
      <3> QED
        BY <3>1 DEF Follow
    <2>3. CASE j > Len(st)
      <3>1. PICK k \in 1 .. Len(t) : j = Len(st) + k
        <4>1. j - Len(st) \in 1 .. Len(t) /\ j = Len(st) + (j - Len(st))
          BY <1>4, <2>1, <2>3
        <4> QED
          BY <4>1
      <3>2. v[j] = [msg |-> l, at |-> a + k - 1]
        BY <1>2, <1>3, <3>1 DEF Joins
      <3>3. v[j].msg = l /\ v[j].at = a + k - 1
        BY <3>2
      <3>4. k \in Nat /\ a + k - 1 < b
        BY <1>2, <3>1
      <3>5. ms[l].from + (a + k - 1) + 1 = base + j
        <4>1. ms[l].from + (a + k - 1) + 1 = (ms[l].from + a) + k
          BY <3>4
        <4>2. (ms[l].from + a) + k = base + (Len(st) + k)
          BY <1>4, <3>4
        <4> QED
          BY <3>1, <4>1, <4>2
      <3> QED
        BY <3>3, <3>4, <3>5
    <2> QED
      BY <1>4, <2>1, <2>2, <2>3
  <1>6. v \in Seq(Byte) /\ Len(v) = Len(st) + (b - a)
    BY <1>2, <1>3 DEF Joins
  <1> QED
    BY <1>5, <1>6 DEF Follow

LEMMA FollowSkip ==
  ASSUME NEW ms, NEW st \in Seq(Byte), NEW base \in Int, Follow(ms, st, base),
         NEW n \in 0 .. Len(st)
  PROVE  /\ SubSeq(st, n + 1, Len(st)) \in Seq(Byte)
         /\ Len(SubSeq(st, n + 1, Len(st))) = Len(st) - n
         /\ Follow(ms, SubSeq(st, n + 1, Len(st)), base + n)
  <1>0. Len(st) \in Nat /\ n \in Nat /\ n <= Len(st)
    OBVIOUS
  <1>1. PICK v, y : v = SubSeq(st, n + 1, y) /\ y = Len(st)
    OBVIOUS
  <1>2. y \in Nat /\ n \in Nat /\ PartIs(st, n, y, v)
    BY <1>0, <1>1, PartOf
  <1>3. v \in Seq(Byte) /\ Len(v) = y - n /\ \A i \in 1 .. y - n : v[i] = st[n + i]
    BY <1>2 DEF PartIs
  <1>4. ASSUME NEW j \in DOMAIN v
        PROVE  /\ v[j].msg \in DOMAIN ms /\ v[j].at < ms[v[j].msg].put
               /\ ms[v[j].msg].from + v[j].at + 1 = (base + n) + j
    <2>1. j \in 1 .. y - n /\ n + j \in DOMAIN st
      BY <1>1, <1>2, <1>3
    <2>2. v[j] = st[n + j]
      BY <1>3, <2>1
    <2>3. base + (n + j) = (base + n) + j
      BY <1>2, <2>1
    <2> QED
      BY <2>1, <2>2, <2>3 DEF Follow
  <1> QED
    BY <1>1, <1>3, <1>4 DEF Follow

-----------------------------------------------------------------------------
(* The subscription table.                                                 *)

TableInv == Table!TypeOK /\ Table!Sorted

LEMMA TableInvIs == TableInv <=> TableProofs!IInv
  BY DEF TableInv, Table!TypeOK, Table!Sorted, Table!Slots, Table!Elements,
         TableProofs!IInv, TableProofs!TypeOK, TableProofs!Sorted, TableProofs!Slots,
         TableProofs!Elements

LEMMA FindIs == ASSUME NEW id \in MsgIds PROVE Table!Find(id) = TableProofs!Find(id)
  BY DEF Table!Find, Table!LowerBound, Table!Search,
         TableProofs!Find, TableProofs!LowerBound, TableProofs!Search

LEMMA TableInit == Table!Init => TableInv
  BY TableAssumption DEF TableInv, Table!Init, Table!TypeOK, Table!Sorted, Table!Slots, Table!Elements

LEMMA TableStays == TableInv /\ UNCHANGED tableVars => TableInv'
  BY DEF TableInv, tableVars, Table!TypeOK, Table!Sorted, Table!Slots, Table!Elements

LEMMA TableStep ==
  ASSUME TableInv, NEW id \in MsgIds, Table!Insert(id) \/ Table!Remove(id)
  PROVE  TableInv'
  <1>1. Table!Insert(id) => TableProofs!Insert(id)
    BY DEF Table!Insert, Table!LowerBound, Table!Search, Table!Slots,
           TableProofs!Insert, TableProofs!LowerBound, TableProofs!Search, TableProofs!Slots
  <1>2. Table!Remove(id) => TableProofs!Remove(id)
    BY FindIs DEF Table!Remove, Table!Slots, TableProofs!Remove, TableProofs!Slots
  <1>3. TableProofs!Next
    BY <1>1, <1>2 DEF TableProofs!Next
  <1>4. TableProofs!IInv
    BY TableInvIs
  <1>5. TableProofs!IInv'
    BY <1>3, <1>4, TableAssumption, TableProofs!StepKeeps
  <1>6. (TableInv <=> TableProofs!IInv)'
    BY TableInvIs, PTL
  <1> QED
    BY <1>5, <1>6

(* dispatch_received takes the element that mc_sarray_find returns for a   *)
(* subscription exactly if the table has one.                              *)
LEMMA FindsSubscribed ==
  ASSUME TableInv, NEW id \in MsgIds
  PROVE  Finds(id) <=> Table!Occurs(id) > 0
  <1>1. TableProofs!IInv
    BY TableInvIs
  <1>2. /\ Table!Find(id) \in 0 .. subscribed
        /\ IF TableProofs!Occurs(id) > 0
           THEN Table!Find(id) < subscribed /\ slots[Table!Find(id)] = id
           ELSE \A i \in TableProofs!Elements : i < Table!Find(id) <=> slots[i] < id
    BY <1>1, FindIs, TableAssumption, TableProofs!SortedFinds
  <1>3. Table!Occurs(id) = TableProofs!Occurs(id)
    BY DEF Table!Occurs, Table!Elements, TableProofs!Occurs, TableProofs!Elements,
           Table!Cardinality, TableProofs!Cardinality
  <1>4. subscribed \in Nat /\ id \in Int
    BY TableAssumption DEF TableInv, Table!TypeOK
  <1>5. CASE Table!Occurs(id) > 0
    BY <1>2, <1>3, <1>4, <1>5 DEF Finds
  <1>6. CASE ~(Table!Occurs(id) > 0)
    <2>1. ASSUME Finds(id) PROVE FALSE
      <3>1. Table!Find(id) # subscribed /\ slots[Table!Find(id)] = id
        BY <2>1 DEF Finds
      <3>2. Table!Find(id) \in TableProofs!Elements
        BY <1>2, <1>4, <3>1 DEF TableProofs!Elements
      <3>3. TableProofs!Occurs(id) > 0
        BY <1>1, <3>1, <3>2, TableAssumption, TableProofs!OccursSome DEF TableProofs!IInv
      <3> QED
        BY <1>3, <1>6, <3>3
    <2> QED
      BY <1>6, <2>1
  <1> QED
    BY <1>5, <1>6

-----------------------------------------------------------------------------
(* Types, and the places of what is under way.                             *)

Met == [how : {"called", "ignored", "dropped"}, id : MsgIds, size : 0 .. SizeMod - 1,
        body : Seq(Byte)]

StreamInv ==
  /\ sent \in Seq(Message) /\ sending \in BOOLEAN /\ Len(sent) <= MaxMessages
  /\ stream \in Seq(Byte) /\ Len(stream) <= LinkCapacity
  /\ StreamInPlace

PoolInv ==
  /\ stored \in 0 .. HeaderSize + SizeMod
  /\ pool \in Seq(Byte) /\ Len(pool) <= PoolSize
  /\ hdr \in Header \cup {NoHeader}
  /\ handled \in Seq(Met)
  /\ PoolInPlace

TypeInv == StreamInv /\ PoolInv /\ TableInv

LEMMA TypeInvTypes == TypeInv => TypeOK
  BY DEF TypeInv, StreamInv, PoolInv, TableInv, TypeOK, Message, Met

(* The bytes of messages that were sent.                                   *)
SentByte == {b \in Byte : b.msg \in DOMAIN sent}

LEMMA PartsIn ==
  ASSUME NEW S, NEW s \in Seq(S), NEW t \in Seq(S), NEW x \in Nat, NEW y \in Nat,
         x <= y, y <= Len(t)
  PROVE  /\ s \o SubSeq(t, x + 1, y) \in Seq(S)
         /\ Len(s \o SubSeq(t, x + 1, y)) = Len(s) + (y - x)
         /\ SubSeq(t, x + 1, y) \in Seq(S) /\ Len(SubSeq(t, x + 1, y)) = y - x
  <1>1. PICK u : u = SubSeq(t, x + 1, y)
    OBVIOUS
  <1>2. u \in Seq(S) /\ Len(u) = y - x
    BY <1>1
  <1>3. s \o u \in Seq(S) /\ Len(s \o u) = Len(s) + Len(u)
    BY <1>2
  <1> QED
    BY <1>1, <1>2, <1>3

LEMMA StreamFacts ==
  ASSUME StreamInv
  PROVE  /\ sent \in Seq(Message) /\ InRow(sent) /\ Follow(sent, stream, Taken)
         /\ stream \in Seq(Byte) /\ Len(stream) \in Nat /\ Len(stream) <= LinkCapacity
         /\ Accepted = EndOf(sent) /\ EndOf(sent) \in Nat
         /\ Taken \in Int /\ Taken = EndOf(sent) - Len(stream)
         /\ Len(sent) \in 0 .. MaxMessages /\ DOMAIN sent = 1 .. Len(sent)
         /\ stream \in Seq(SentByte)
         /\ sending => Len(sent) \in DOMAIN sent /\ ~Whole(Len(sent))
  <1>1. /\ sent \in Seq(Message) /\ stream \in Seq(Byte) /\ Len(stream) \in Nat
        /\ Len(stream) <= LinkCapacity /\ Len(sent) \in Nat /\ Len(sent) <= MaxMessages
        /\ DOMAIN sent = 1 .. Len(sent)
    BY DEF StreamInv
  <1>2. /\ InRow(sent) /\ Follow(sent, stream, Taken) /\ Accepted = EndOf(sent)
        /\ sending => sent # << >> /\ ~Whole(Len(sent))
    BY StreamIs DEF StreamInv
  <1>3. EndOf(sent) \in Nat
    BY <1>1, EndFacts
  <1>4. Taken \in Int /\ Taken = EndOf(sent) - Len(stream)
    BY <1>1, <1>2, <1>3 DEF Taken
  <1>5. stream \in Seq(SentByte)
    <2>1. \A j \in DOMAIN stream : stream[j] \in SentByte
      <3>1. \A j \in DOMAIN stream : stream[j] \in Byte /\ stream[j].msg \in DOMAIN sent
        BY <1>1, <1>2 DEF Follow
      <3> QED
        BY <3>1 DEF SentByte
    <2> QED
      BY <1>1, <2>1
  <1>6. sending => Len(sent) \in DOMAIN sent
    BY <1>1, <1>2
  <1> QED
    BY <1>1, <1>2, <1>3, <1>4, <1>5, <1>6, Constants

LEMMA SentFacts ==
  ASSUME StreamInv, NEW m \in DOMAIN sent
  PROVE  /\ m \in 1 .. MaxMessages /\ m \in 1 .. Len(sent)
         /\ sent[m].id \in MsgIds /\ sent[m].size \in Sizes
         /\ sent[m].size \in Nat /\ sent[m].put \in Nat /\ sent[m].from \in Nat
  <1>1. sent \in Seq(Message) /\ Len(sent) \in 0 .. MaxMessages
    BY StreamFacts
  <1>2. /\ sent[m].id \in MsgIds /\ sent[m].size \in Sizes /\ sent[m].size \in Nat
        /\ sent[m].put \in Nat /\ sent[m].from \in Nat
        /\ m \in 1 .. Len(sent) /\ Len(sent) \in Nat
    BY <1>1, MessageFacts
  <1> QED
    BY <1>1, <1>2, Constants

LEMMA StreamMakes ==
  ASSUME sent' \in Seq(Message), InRow(sent'), Follow(sent', stream', Taken'),
         sending' \in BOOLEAN, Len(sent') <= MaxMessages,
         stream' \in Seq(Byte), Len(stream') <= LinkCapacity,
         sending' => sent' # << >> /\ ~Whole(Len(sent))'
  PROVE  StreamInv'
  <1>1. (StreamInPlace <=> /\ InRow(sent) /\ Follow(sent, stream, Taken)
                           /\ sending => sent # << >> /\ ~Whole(Len(sent)))'
    BY StreamIs, PTL
  <1>2. StreamInPlace'
    BY <1>1
  <1> QED
    BY <1>2 DEF StreamInv

LEMMA AcceptedNext == Accepted' = EndOf(sent')
  <1>1. Accepted = EndOf(sent)
    BY StreamIs
  <1>2. (Accepted = EndOf(sent))'
    BY <1>1, PTL
  <1> QED
    BY <1>2

(* mc_comm_recv takes n bytes.                                             *)
LEMMA SkipKeeps ==
  ASSUME StreamInv, NEW n \in 0 .. Len(stream), stream' = Skip(n), UNCHANGED senderVars
  PROVE  StreamInv' /\ Taken' = Taken + n /\ Len(stream') = Len(stream) - n
  <1>1. sent' = sent /\ sending' = sending
    BY DEF senderVars
  <1>2. /\ stream' \in Seq(Byte) /\ Len(stream') = Len(stream) - n
        /\ Follow(sent, stream', Taken + n)
    BY StreamFacts, FollowSkip DEF Skip
  <1>3. Taken' = Taken + n
    BY <1>1, <1>2, StreamFacts, AcceptedNext DEF Taken
  <1>4. (sending => sent # << >> /\ ~Whole(Len(sent)))'
    <2>1. sending => sent # << >> /\ ~Whole(Len(sent))
      BY StreamIs DEF StreamInv
    <2> QED
      BY <1>1, <2>1 DEF Whole
  <1> QED
    BY <1>1, <1>2, <1>3, <1>4, StreamFacts, StreamMakes, Constants DEF StreamInv

LEMMA StreamPlaces ==
  ASSUME StreamInv
  PROVE  \A j \in DOMAIN stream : stream[j].at \in Nat
  <1>1. stream \in Seq(Byte)
    BY DEF StreamInv
  <1>2. \A j \in DOMAIN stream : stream[j] \in Byte
    BY <1>1
  <1> QED
    BY <1>2 DEF Byte

LEMMA SendKeeps ==
  ASSUME StreamInv, NEW id \in MsgIds, NEW size \in Sizes, MsgSend(id, size)
  PROVE  /\ StreamInv' /\ Taken' = Taken
         /\ Len(sent') = Len(sent) + 1 /\ sent'[Len(sent) + 1].put = 0
         /\ sent'[Len(sent) + 1].from = Accepted
         /\ \A m \in DOMAIN sent : m \in DOMAIN sent' /\ sent'[m] = sent[m]
  <1>1. PICK x, l : /\ x = [id |-> id, size |-> size, put |-> 0, from |-> Accepted]
                    /\ l = Len(sent)
    OBVIOUS
  <1>2. x \in Message /\ x.put = 0 /\ x.from = EndOf(sent) /\ x.size \in Nat
    BY <1>1, StreamFacts, Constants DEF Message
  <1>3. sent' = Append(sent, x) /\ sending' = TRUE /\ stream' = stream
    BY <1>1 DEF MsgSend
  <1>4. sent' \in Seq(Message) /\ InRow(sent') /\ EndOf(sent') = EndOf(sent)
    BY <1>2, <1>3, StreamFacts, RowAppend
  <1>5. /\ Len(sent') = l + 1 /\ sent'[l + 1] = x /\ l \in Nat
        /\ \A m \in DOMAIN sent : m \in DOMAIN sent' /\ sent'[m] = sent[m]
    BY <1>1, <1>2, <1>3, StreamFacts
  <1>6. Taken' = Taken
    BY <1>3, <1>4, StreamFacts, AcceptedNext DEF Taken
  <1>7. Follow(sent', stream', Taken')
    <2>1. \A j \in DOMAIN stream : stream[j].at \in Nat
      BY StreamPlaces
    <2>2. \A m \in DOMAIN sent : sent[m].put \in Nat
      BY StreamFacts, MessageFacts
    <2>3. \A m \in DOMAIN sent : /\ m \in DOMAIN sent' /\ sent'[m].from = sent[m].from
                                 /\ sent[m].put \in Nat /\ sent'[m].put \in Nat
                                 /\ sent[m].put <= sent'[m].put
      BY <1>5, <2>2
    <2> QED
      BY <1>3, <1>6, <2>1, <2>3, StreamFacts, FollowMore
  <1>8. sent' # << >> /\ ~Whole(Len(sent))'
    <2>1. sent' # << >>
      BY <1>5, <1>4
    <2>2. sent'[Len(sent')].put = 0 /\ sent'[Len(sent')].size = x.size
      BY <1>2, <1>5
    <2> QED
      BY <1>2, <2>1, <2>2, Constants DEF Whole
  <1>9. Len(sent') <= MaxMessages
    BY <1>1, <1>5, Constants DEF MsgSend
  <1> QED
    BY <1>1, <1>2, <1>3, <1>4, <1>5, <1>6, <1>7, <1>8, <1>9, StreamFacts, StreamMakes

LEMMA SegmentKeeps ==
  ASSUME StreamInv, NEW late \in BOOLEAN, SendSegment(late)
  PROVE  /\ StreamInv' /\ Taken' = Taken
         /\ Len(sent') = Len(sent) /\ DOMAIN sent' = DOMAIN sent
         /\ \A m \in DOMAIN sent : /\ sent'[m].from = sent[m].from
                                   /\ sent'[m].size = sent[m].size
                                   /\ sent'[m].id = sent[m].id
                                   /\ m # Len(sent) => sent'[m].put = sent[m].put
         /\ sent'[Len(sent)].put >= sent[Len(sent)].put
         /\ sent' # << >> /\ (sending' \/ late \/ Whole(Len(sent))')
         /\ Len(stream') = Len(stream) + sent'[Len(sent)].put - sent[Len(sent)].put
  <1>1. PICK l : l = Len(sent)
    OBVIOUS
  <1>2. l \in DOMAIN sent /\ l \in 1 .. MaxMessages /\ ~Whole(l) /\ sending
    BY <1>1, StreamFacts, Constants DEF SendSegment
  <1>3. PICK m : m = sent[l]
    OBVIOUS
  <1>4. m.size \in Nat /\ m.put \in Nat /\ m.from \in Nat /\ m = Last(sent)
    BY <1>1, <1>2, <1>3, StreamFacts, MessageFacts DEF Last
  <1>5. PICK p, q : p = m.put /\ q = m.put + Piece(m)
    OBVIOUS
  <1>6. p \in Nat /\ q \in Nat /\ p <= q /\ q <= HeaderSize + m.size /\ q - p = Piece(m)
    <2>1. m.put <= HeaderSize + m.size /\ m.put # HeaderSize + m.size
      BY <1>2, <1>3, StreamFacts DEF InRow, Whole
    <2>2. PICK e \in Nat : /\ e = (IF m.put < HeaderSize THEN HeaderSize ELSE HeaderSize + m.size)
                           /\ m.put <= e /\ e <= HeaderSize + m.size
      <3>1. HeaderSize \in Nat /\ HeaderSize + m.size \in Nat
        BY <1>4, Constants
      <3> QED
        BY <1>4, <2>1, <3>1
    <2>3. Piece(m) = Smaller(e - m.put, Segment)
      BY <2>2 DEF Piece
    <2>4. Piece(m) \in Nat /\ Piece(m) <= e - m.put
      BY <1>4, <2>2, <2>3, Constants DEF Smaller
    <2> QED
      BY <1>4, <1>5, <2>2, <2>4
  <1>7. /\ Len(stream) + (q - p) <= LinkCapacity
        /\ stream' = stream \o Bytes(l, p, q)
        /\ sent' = [sent EXCEPT ![l].put = q]
        /\ sending' = (~late /\ q # HeaderSize + m.size)
    BY <1>1, <1>4, <1>5, <1>6 DEF SendSegment
  <1>8. /\ sent' \in Seq(Message) /\ InRow(sent') /\ Len(sent') = l /\ DOMAIN sent' = DOMAIN sent
        /\ \A i \in DOMAIN sent : /\ sent'[i].from = sent[i].from /\ sent'[i].size = sent[i].size
                                  /\ sent'[i].id = sent[i].id
                                  /\ sent'[i].put = IF i = l THEN q ELSE sent[i].put
        /\ EndOf(sent') = m.from + q
    <2>1. l # 0 /\ sent[l].put <= q /\ q <= HeaderSize + sent[l].size
      BY <1>2, <1>3, <1>5, <1>6
    <2>2. sent \in Seq(Message) /\ InRow(sent)
      BY StreamFacts
    <2>4. Puts(sent, l, q, sent')
      BY <1>7 DEF Puts
    <2>3. /\ sent' \in Seq(Message) /\ InRow(sent') /\ Len(sent') = l
          /\ DOMAIN sent' = DOMAIN sent
          /\ \A i \in DOMAIN sent : /\ sent'[i].from = sent[i].from /\ sent'[i].size = sent[i].size
                                    /\ sent'[i].id = sent[i].id
                                    /\ sent'[i].put = IF i = l THEN q ELSE sent[i].put
          /\ EndOf(sent') = sent[l].from + q
      BY <1>1, <1>6, <2>1, <2>2, <2>4, RowPut
    <2> QED
      BY <1>3, <2>3
  <1>9. EndOf(sent) = m.from + p
    <2>1. sent # << >>
      BY <1>2, StreamFacts
    <2> QED
      BY <1>1, <1>3, <1>5, <2>1 DEF EndOf
  <1>10. Follow(sent', stream, Taken)
    <2>1. \A j \in DOMAIN stream : stream[j].at \in Nat
      BY StreamPlaces
    <2>2. \A i \in DOMAIN sent : sent[i].put \in Nat
      BY StreamFacts, MessageFacts
    <2>3. \A i \in DOMAIN sent : /\ i \in DOMAIN sent' /\ sent'[i].from = sent[i].from
                                 /\ sent[i].put \in Nat /\ sent'[i].put \in Nat
                                 /\ sent[i].put <= sent'[i].put
      BY <1>3, <1>5, <1>6, <1>8, <2>2
    <2> QED
      BY <2>1, <2>3, StreamFacts, FollowMore
  <1>11. /\ stream' \in Seq(Byte) /\ Len(stream') = Len(stream) + (q - p)
         /\ Follow(sent', stream', Taken)
    <2>1. l \in DOMAIN sent' /\ sent'[l].put = q /\ sent'[l].from = m.from
      BY <1>2, <1>3, <1>8
    <2>2. sent'[l].from + p = Taken + Len(stream)
      BY <1>4, <1>6, <1>9, <2>1, StreamFacts
    <2>3. stream \in Seq(Byte) /\ Taken \in Int /\ sent'[l].from \in Nat
      BY <1>4, <2>1, StreamFacts
    <2>4. Joins(stream, Bytes(l, p, q), stream')
      BY <1>2, <1>6, <1>7, <2>3, BytesAre, ConcatOf
    <2> QED
      BY <1>2, <1>6, <1>10, <2>1, <2>2, <2>3, <2>4, FollowJoin
  <1>12. Taken' = Taken
    <2>1. Taken' = EndOf(sent') - Len(stream')
      BY AcceptedNext DEF Taken
    <2> QED
      BY <1>4, <1>6, <1>8, <1>9, <1>11, <2>1, StreamFacts, SMTT(30)
  <1>13. /\ sent' # << >> /\ (Whole(Len(sent))' <=> q = HeaderSize + m.size)
         /\ sending' \in BOOLEAN
    <2>1. sent'[Len(sent')].put = q /\ sent'[Len(sent')].size = m.size
      BY <1>2, <1>3, <1>8
    <2>2. sent' # << >>
      BY <1>2, <1>8, StreamFacts
    <2>3. sending' \in BOOLEAN
      BY <1>7
    <2> QED
      BY <2>1, <2>2, <2>3 DEF Whole
  <1>14. Len(sent') <= MaxMessages /\ Len(stream') <= LinkCapacity
    BY <1>2, <1>7, <1>8, <1>11
  <1>15. StreamInv'
    BY <1>7, <1>8, <1>11, <1>12, <1>13, <1>14, StreamMakes
  <1>16. sending' \/ late \/ Whole(Len(sent))'
    BY <1>7, <1>13
  <1>17. /\ sent'[l].put = q /\ sent[l].put = p
         /\ Len(stream') = Len(stream) + sent'[l].put - sent[l].put
         /\ sent'[l].put >= sent[l].put
    <2>1. sent'[l].put = q /\ sent[l].put = p
      BY <1>2, <1>3, <1>5, <1>8
    <2> QED
      BY <1>6, <1>11, <2>1, StreamFacts
  <1> QED
    BY <1>1, <1>8, <1>12, <1>13, <1>15, <1>16, <1>17

(* The pool.                                                               *)
LEMMA PoolFacts ==
  ASSUME PoolInv
  PROVE  /\ stored \in Nat /\ pool \in Seq(SentByte) /\ Len(pool) \in Nat
         /\ Collected \in Seq(SentByte) /\ (stored < HeaderSize => Len(Collected) = stored)
         /\ stored >= HeaderSize =>
              /\ hdr \in Header /\ stored < Expected(hdr) /\ Len(pool) >= HeaderSize
              /\ ~TooLarge(hdr) => Len(pool) = stored
  <1>1. stored \in Nat /\ pool \in Seq(Byte) /\ Len(pool) \in Nat
    BY Constants DEF PoolInv
  <1>2. \A j \in DOMAIN pool : pool[j] \in SentByte
    BY <1>1 DEF PoolInv, PoolInPlace, SentByte
  <1>3. pool \in Seq(SentByte)
    BY <1>1, <1>2
  <1>4. Collected \in Seq(SentByte)
    BY <1>3 DEF Collected
  <1>5. stored >= HeaderSize => ~(stored < HeaderSize)
    BY <1>1, Constants
  <1>6. stored >= HeaderSize =>
          /\ hdr \in Header /\ stored < Expected(hdr)
          /\ IF TooLarge(hdr) THEN Len(pool) >= HeaderSize ELSE Len(pool) = stored
    BY <1>5 DEF PoolInv, PoolInPlace
  <1>7. stored < HeaderSize => Len(Collected) = stored
    BY DEF PoolInv, PoolInPlace
  <1> QED
    BY <1>1, <1>3, <1>4, <1>6, <1>7

LEMMA PoolMakes ==
  ASSUME stored' \in 0 .. HeaderSize + SizeMod, pool' \in Seq(SentByte)', Len(pool') <= PoolSize,
         hdr' \in Header \cup {NoHeader}, handled' \in Seq(Met),
         IF stored' < HeaderSize
         THEN Len(Collected') = stored'
         ELSE /\ hdr' \in Header /\ stored' < Expected(hdr')
              /\ IF TooLarge(hdr') THEN Len(pool') >= HeaderSize ELSE Len(pool') = stored'
  PROVE  PoolInv'
  <1>1. \A j \in DOMAIN pool' : pool'[j] \in SentByte'
    OBVIOUS
  <1>2. \A j \in DOMAIN pool' : pool'[j] \in Byte /\ pool'[j].msg \in DOMAIN sent'
    BY <1>1 DEF SentByte
  <1>3. pool' \in Seq(Byte)
    BY <1>2
  <1> QED
    BY <1>2, <1>3 DEF PoolInv, PoolInPlace, Expected, TooLarge

(* Sending leaves the pool alone.                                          *)
LEMMA PoolStays ==
  ASSUME PoolInv, UNCHANGED receiverVars, \A m \in DOMAIN sent : m \in DOMAIN sent'
  PROVE  PoolInv'
  <1>1. stored' = stored /\ pool' = pool /\ hdr' = hdr /\ handled' = handled
    BY DEF receiverVars
  <1>2. Collected' = Collected
    BY <1>1 DEF Collected
  <1> QED
    BY <1>1, <1>2 DEF PoolInv, PoolInPlace

LEMMA HeaderFacts ==
  ASSUME NEW h \in Header
  PROVE  /\ h.id \in MsgIds /\ h.size \in Nat /\ h.size < SizeMod /\ h.size \in 0 .. SizeMod - 1
         /\ Expected(h) \in Nat /\ Expected(h) >= HeaderSize /\ Expected(h) <= HeaderSize + SizeMod
         /\ TooLarge(h) <=> Expected(h) > PoolSize
  BY Constants DEF Header, Expected, TooLarge

LEMMA RecvFacts ==
  ASSUME NEW size \in Nat, NEW avail \in Nat, NEW r \in Recv(size, avail)
  PROVE  r \in Nat /\ r <= size /\ r <= avail
  BY DEF Recv, Smaller

(* What the part of mc_msg_update behind the header finds, and leaves.     *)
BodyFinds(h, had, before, k) ==
  /\ h \in Header /\ had \in Nat /\ HeaderSize <= had /\ had <= Expected(h)
  /\ before \in Seq(SentByte) /\ HeaderSize <= Len(before)
  /\ ~TooLarge(h) => Len(before) = had
  /\ k \in Nat /\ k <= Len(stream)

LEMMA BodyKeeps ==
  ASSUME StreamInv, PoolInv, NEW h, NEW had, NEW before, NEW k,
         BodyFinds(h, had, before, k), Body(h, had, before, k), UNCHANGED senderVars
  PROVE  StreamInv' /\ PoolInv'
  <1>1. /\ h \in Header /\ had \in Nat /\ HeaderSize <= had /\ had <= Expected(h)
        /\ before \in Seq(SentByte) /\ HeaderSize <= Len(before) /\ Len(before) \in Nat
        /\ ~TooLarge(h) => Len(before) = had
        /\ k \in Nat /\ k <= Len(stream) /\ hdr' = h
    BY DEF BodyFinds, Body
  <1>2. /\ stream \in Seq(SentByte) /\ Len(stream) \in Nat /\ handled \in Seq(Met)
        /\ SentByte' = SentByte
    BY StreamFacts DEF PoolInv, SentByte, senderVars
  <1>3. PICK x \in Nat : x = Expected(h) /\ x <= HeaderSize + SizeMod
    BY <1>1, HeaderFacts
  <1>4. ASSUME NEW r \in Nat, r <= Len(stream) - k, stream' = Skip(k + r) PROVE StreamInv'
    <2>1. k + r \in 0 .. Len(stream)
      BY <1>1, <1>2, <1>4
    <2> QED
      BY <1>4, <2>1, SkipKeeps
  <1>5. ASSUME NEW r \in Nat, r <= Len(stream) - k, NEW s \in Seq(SentByte)
        PROVE  /\ s \o SubSeq(stream, k + 1, k + r) \in Seq(SentByte)
               /\ Len(s \o SubSeq(stream, k + 1, k + r)) = Len(s) + r
    <2>1. k + r \in Nat /\ k <= k + r /\ k + r <= Len(stream) /\ (k + r) - k = r
      BY <1>1, <1>2, <1>5
    <2> QED
      BY <1>1, <1>2, <1>5, <2>1, PartsIn
  <1>6. ASSUME NEW how \in {"called", "ignored", "dropped"}, NEW bytes \in Seq(Byte),
               Handle(how, h, bytes)
        PROVE  handled' \in Seq(Met)
    <2>1. [how |-> how, id |-> h.id, size |-> h.size, body |-> bytes] \in Met
      BY <1>1, HeaderFacts DEF Met
    <2> QED
      BY <1>2, <1>6, <2>1 DEF Handle
  <1>7. CASE TooLarge(h)
    <2>1. PICK header, n : /\ header = SubSeq(before, 1, HeaderSize)
                           /\ n = Smaller(PoolSize - HeaderSize, x - had)
      OBVIOUS
    <2>2. header \in Seq(SentByte) /\ Len(header) = HeaderSize
      BY <1>1, <2>1, Constants
    <2>3. n \in Nat /\ n <= PoolSize - HeaderSize /\ n <= x - had
      BY <1>1, <1>3, <2>1, Constants DEF Smaller
    <2>4. PICK r \in Recv(n, Len(stream) - k) :
            /\ pool' = header \o SubSeq(stream, k + 1, k + r)
            /\ stream' = Skip(k + r)
            /\ IF had + r = x
               THEN stored' = 0 /\ Handle("dropped", h, << >>)
               ELSE stored' = had + r /\ UNCHANGED handled
      BY <1>3, <1>7, <2>1 DEF Body, DropMessage
    <2>5. r \in Nat /\ r <= n /\ r <= Len(stream) - k
      <3>1. Len(stream) - k \in Nat
        BY <1>1, <1>2
      <3> QED
        BY <2>3, <3>1, RecvFacts
    <2>6. pool' \in Seq(SentByte) /\ Len(pool') = HeaderSize + r
      BY <1>5, <2>2, <2>4, <2>5
    <2>7. StreamInv'
      BY <1>4, <2>4, <2>5
    <2>8. handled' \in Seq(Met)
      <3>1. << >> \in Seq(Byte) /\ "dropped" \in {"called", "ignored", "dropped"}
        OBVIOUS
      <3>2. Handle("dropped", h, << >>) \/ UNCHANGED handled
        BY <2>4
      <3> QED
        BY <1>2, <1>6, <3>1, <3>2
    <2>9. Len(pool') <= PoolSize /\ Len(pool') >= HeaderSize
      BY <2>3, <2>5, <2>6, Constants
    <2>10. CASE had + r = x
      <3>1. stored' = 0 /\ stored' < HeaderSize /\ Len(Collected') = stored'
        BY <2>4, <2>10, Constants DEF Collected
      <3> QED
        BY <1>1, <1>2, <2>6, <2>7, <2>8, <2>9, <3>1, Constants, PoolMakes
    <2>11. CASE had + r # x
      <3>1. stored' = had + r
        BY <2>4, <2>11
      <3>2. had + r < x /\ had + r \in Nat
        BY <1>1, <1>3, <2>3, <2>5, <2>11
      <3>3. had + r \in 0 .. HeaderSize + SizeMod /\ ~(stored' < HeaderSize)
        BY <1>1, <1>3, <2>5, <3>1, <3>2, Constants
      <3> QED
        BY <1>1, <1>2, <1>3, <1>7, <2>6, <2>7, <2>8, <2>9, <3>1, <3>2, <3>3, PoolMakes
    <2> QED
      BY <2>10, <2>11
  <1>8. CASE ~TooLarge(h)
    <2>1. PICK r, bytes :
            /\ r \in Recv(x - had, Len(stream) - k)
            /\ bytes = before \o SubSeq(stream, k + 1, k + r)
            /\ pool' = bytes
            /\ stream' = Skip(k + r)
            /\ IF had + r = x
               THEN /\ stored' = 0
                    /\ Handle(IF Finds(h.id) THEN "called" ELSE "ignored", h,
                              SubSeq(bytes, HeaderSize + 1, Len(bytes)))
               ELSE stored' = had + r /\ UNCHANGED handled
      BY <1>3, <1>8 DEF Body, StoreMessage
    <2>2. r \in Nat /\ r <= x - had /\ r <= Len(stream) - k
      <3>1. Len(stream) - k \in Nat /\ x - had \in Nat
        BY <1>1, <1>2, <1>3
      <3> QED
        BY <2>1, <3>1, RecvFacts
    <2>3. bytes \in Seq(SentByte) /\ Len(bytes) = had + r
      BY <1>1, <1>5, <1>8, <2>1, <2>2
    <2>4. x <= PoolSize /\ Len(bytes) <= PoolSize /\ HeaderSize <= Len(bytes)
      BY <1>1, <1>3, <1>8, <2>2, <2>3, HeaderFacts, Constants
    <2>5. StreamInv'
      BY <1>4, <2>1, <2>2
    <2>6. SubSeq(bytes, HeaderSize + 1, Len(bytes)) \in Seq(Byte)
      <3>1. bytes \in Seq(Byte)
        BY <2>3 DEF SentByte
      <3> QED
        BY <2>3, <2>4, <3>1, Constants
    <2>7. handled' \in Seq(Met)
      <3>1. (IF Finds(h.id) THEN "called" ELSE "ignored") \in {"called", "ignored", "dropped"}
        OBVIOUS
      <3> QED
        BY <1>2, <1>6, <2>1, <2>6, <3>1
    <2>8. CASE had + r = x
      <3>1. stored' = 0 /\ stored' < HeaderSize /\ Len(Collected') = stored'
        BY <2>1, <2>8, Constants DEF Collected
      <3> QED
        BY <1>1, <1>2, <2>1, <2>3, <2>4, <2>5, <2>7, <3>1, Constants, PoolMakes
    <2>9. CASE had + r # x
      <3>1. stored' = had + r
        BY <2>1, <2>9
      <3>2. had + r < x /\ had + r \in Nat
        BY <1>1, <1>3, <2>2, <2>9
      <3>3. had + r \in 0 .. HeaderSize + SizeMod /\ ~(stored' < HeaderSize)
        BY <1>1, <1>3, <2>2, <3>1, <3>2, Constants
      <3> QED
        BY <1>1, <1>2, <1>3, <1>8, <2>1, <2>3, <2>4, <2>5, <2>7, <3>1, <3>2, <3>3, PoolMakes
    <2> QED
      BY <2>8, <2>9
  <1> QED
    BY <1>7, <1>8

LEMMA HeadersAre ==
  ASSUME StreamInv, NEW bytes \in Seq(SentByte), Len(bytes) = HeaderSize
  PROVE  Headers(bytes) \subseteq Header
  <1>1. PICK m : m = bytes[1].msg
    OBVIOUS
  <1>2. bytes[1] \in SentByte
    BY Constants
  <1>3. m \in DOMAIN sent
    BY <1>1, <1>2 DEF SentByte
  <1>4. sent[m].id \in MsgIds /\ sent[m].size \in Nat
    BY <1>3, StreamFacts, MessageFacts
  <1>5. sent[m].size % SizeMod \in 0 .. SizeMod - 1
    BY <1>4, Constants
  <1>6. [id |-> sent[m].id, size |-> sent[m].size % SizeMod] \in Header
    BY <1>4, <1>5 DEF Header
  <1> QED
    BY <1>1, <1>6 DEF Headers

(* What mc_msg_update reads of the header.                                 *)
LEMMA HeaderKeeps ==
  ASSUME StreamInv, PoolInv, UpdateReadsHeader
  PROVE  StreamInv' /\ PoolInv'
  <1>1. PICK r \in Recv(HeaderSize - stored, Len(stream)) \ {HeaderSize - stored} :
          /\ pool' = Collected \o SubSeq(stream, 1, r)
          /\ stream' = Skip(r)
          /\ stored' = stored + r
    BY DEF UpdateReadsHeader
  <1>2. /\ stored < HeaderSize /\ stored \in Nat /\ Len(stream) \in Nat
        /\ Collected \in Seq(SentByte) /\ Len(Collected) = stored
        /\ stream \in Seq(SentByte) /\ hdr' = hdr /\ handled' = handled
    BY PoolFacts, StreamFacts DEF UpdateReadsHeader
  <1>3. r \in Nat /\ r < HeaderSize - stored /\ r <= Len(stream)
    <2>1. HeaderSize - stored \in Nat
      BY <1>2, Constants
    <2>2. r \in Nat /\ r <= HeaderSize - stored /\ r <= Len(stream)
      BY <1>2, <2>1, RecvFacts
    <2> QED
      BY <2>1, <2>2
  <1>4. StreamInv' /\ SentByte' = SentByte
    <2>1. r \in 0 .. Len(stream) /\ UNCHANGED senderVars
      BY <1>2, <1>3 DEF UpdateReadsHeader
    <2> QED
      BY <1>1, <2>1, SkipKeeps DEF SentByte, senderVars
  <1>5. /\ Collected \o SubSeq(stream, 0 + 1, r) \in Seq(SentByte)
        /\ Len(Collected \o SubSeq(stream, 0 + 1, r)) = stored + (r - 0)
    <2>1. 0 \in Nat /\ r \in Nat /\ 0 <= r /\ r <= Len(stream)
      BY <1>3
    <2>2. Collected \in Seq(SentByte) /\ stream \in Seq(SentByte) /\ Len(Collected) = stored
      BY <1>2
    <2> QED
      BY <2>1, <2>2, PartsIn, SMTT(30)
  <1>6. pool' \in Seq(SentByte) /\ Len(pool') = stored + r
    BY <1>1, <1>3, <1>5
  <1>7. /\ stored' \in 0 .. HeaderSize + SizeMod /\ stored' < HeaderSize
        /\ Len(pool') <= PoolSize
    BY <1>1, <1>2, <1>3, <1>6, Constants
  <1>8. Len(Collected') = stored'
    BY <1>1, <1>2, <1>3, <1>6 DEF Collected
  <1> QED
    BY <1>2, <1>4, <1>6, <1>7, <1>8, PoolMakes DEF PoolInv

LEMMA EndsHeaderFinds ==
  ASSUME StreamInv, PoolInv, NEW k, k = HeaderSize - stored, stored < HeaderSize, k <= Len(stream),
         NEW bytes, bytes = Collected \o SubSeq(stream, 1, k), NEW h \in Headers(bytes)
  PROVE  BodyFinds(h, HeaderSize, bytes, k) /\ Len(bytes) = HeaderSize
  <1>1. /\ stored \in Nat /\ Len(stream) \in Nat
        /\ Collected \in Seq(SentByte) /\ Len(Collected) = stored /\ stream \in Seq(SentByte)
    BY PoolFacts, StreamFacts
  <1>2. k \in Nat /\ 0 \in Nat /\ 0 <= k /\ stored + (k - 0) = HeaderSize
    BY <1>1, Constants
  <1>3. /\ Collected \o SubSeq(stream, 0 + 1, k) \in Seq(SentByte)
        /\ Len(Collected \o SubSeq(stream, 0 + 1, k)) = stored + (k - 0)
    BY <1>1, <1>2, PartsIn
  <1>4. bytes \in Seq(SentByte) /\ Len(bytes) = HeaderSize
    BY <1>2, <1>3
  <1>5. h \in Header
    BY <1>4, HeadersAre
  <1> QED
    BY <1>2, <1>4, <1>5, HeaderFacts, Constants DEF BodyFinds

LEMMA ReadsBodyFinds ==
  ASSUME StreamInv, PoolInv, stored >= HeaderSize
  PROVE  BodyFinds(hdr, stored, pool, 0)
  <1>1. /\ hdr \in Header /\ stored \in Nat /\ HeaderSize <= stored /\ stored < Expected(hdr)
        /\ pool \in Seq(SentByte) /\ HeaderSize <= Len(pool)
        /\ ~TooLarge(hdr) => Len(pool) = stored
    BY PoolFacts, Constants
  <1>2. 0 \in Nat /\ 0 <= Len(stream)
    BY StreamFacts
  <1> QED
    BY <1>1, <1>2, HeaderFacts DEF BodyFinds

LEMMA UpdateKeeps ==
  ASSUME StreamInv, PoolInv, MsgUpdate
  PROVE  StreamInv' /\ PoolInv'
  <1>1. CASE UpdateReadsHeader
    BY <1>1, HeaderKeeps
  <1>2. CASE UpdateEndsHeader
    <2>1. PICK k, bytes : k = HeaderSize - stored /\ bytes = Collected \o SubSeq(stream, 1, k)
      OBVIOUS
    <2>2. /\ stored < HeaderSize /\ k <= Len(stream) /\ UNCHANGED senderVars
          /\ \E h \in Headers(bytes) : Body(h, HeaderSize, bytes, k)
      BY <1>2, <2>1 DEF UpdateEndsHeader
    <2>3. PICK h \in Headers(bytes) : Body(h, HeaderSize, bytes, k)
      BY <2>2
    <2>4. BodyFinds(h, HeaderSize, bytes, k)
      BY <2>1, <2>2, EndsHeaderFinds
    <2> QED
      BY <2>2, <2>3, <2>4, BodyKeeps
  <1>3. CASE UpdateReadsBody
    BY <1>3, ReadsBodyFinds, BodyKeeps DEF UpdateReadsBody
  <1> QED
    BY <1>1, <1>2, <1>3 DEF MsgUpdate

LEMMA TypeStep == TypeInv /\ [Next]_vars => TypeInv'
  <1> SUFFICES ASSUME TypeInv, [Next]_vars PROVE TypeInv'
    OBVIOUS
  <1>1. StreamInv /\ PoolInv /\ TableInv
    BY DEF TypeInv
  <1>2. ASSUME NEW id \in MsgIds, NEW size \in Sizes, MsgSend(id, size) PROVE TypeInv'
    <2>1. UNCHANGED tableVars /\ UNCHANGED receiverVars
      BY <1>2 DEF MsgSend
    <2> QED
      BY <1>1, <1>2, <2>1, SendKeeps, PoolStays, TableStays DEF TypeInv
  <1>3. ASSUME NEW late \in {FALSE, TimesOut}, SendSegment(late) PROVE TypeInv'
    <2>1. UNCHANGED tableVars /\ UNCHANGED receiverVars /\ late \in BOOLEAN
      BY <1>3, TrafficAssumption DEF SendSegment
    <2>2. StreamInv' /\ DOMAIN sent' = DOMAIN sent
      BY <1>1, <1>3, <2>1, SegmentKeeps
    <2> QED
      BY <1>1, <2>1, <2>2, PoolStays, TableStays DEF TypeInv
  <1>4. ASSUME SendGivesUp PROVE TypeInv'
    <2>1. /\ UNCHANGED tableVars /\ UNCHANGED receiverVars
          /\ sent' = sent /\ stream' = stream /\ sending' = FALSE
      BY <1>4 DEF SendGivesUp
    <2>2. StreamInv'
      <3>1. Taken' = Taken
        BY <2>1 DEF Taken, Accepted
      <3>2. /\ sent \in Seq(Message) /\ InRow(sent) /\ Follow(sent, stream, Taken)
            /\ Len(sent) <= MaxMessages /\ stream \in Seq(Byte) /\ Len(stream) <= LinkCapacity
        BY <1>1, StreamFacts DEF StreamInv
      <3>3. sending' \in BOOLEAN /\ ~sending'
        BY <2>1
      <3> QED
        BY <2>1, <3>1, <3>2, <3>3, StreamMakes
    <2> QED
      BY <1>1, <2>1, <2>2, PoolStays, TableStays DEF TypeInv
  <1>5. CASE MsgUpdate
    <2>1. UNCHANGED tableVars
      BY <1>5 DEF MsgUpdate, UpdateReadsHeader, UpdateEndsHeader, UpdateReadsBody
    <2> QED
      BY <1>1, <1>5, <2>1, UpdateKeeps, TableStays DEF TypeInv
  <1>6. ASSUME NEW id \in MsgIds, Subscribe(id) \/ Unsubscribe(id) PROVE TypeInv'
    <2>1. /\ UNCHANGED senderVars /\ UNCHANGED receiverVars /\ stream' = stream
          /\ Table!Insert(id) \/ Table!Remove(id)
      BY <1>6 DEF Subscribe, Unsubscribe
    <2>2. StreamInv'
      BY <1>1, <2>1 DEF senderVars, StreamInv, StreamInPlace, Taken, Accepted, Whole
    <2>3. PoolInv'
      BY <1>1, <2>1, PoolStays DEF senderVars
    <2> QED
      BY <1>1, <2>1, <2>2, <2>3, TableStep DEF TypeInv
  <1>7. ASSUME UNCHANGED vars PROVE TypeInv'
    <2>1. /\ UNCHANGED senderVars /\ UNCHANGED receiverVars /\ stream' = stream
          /\ UNCHANGED tableVars
      BY <1>7 DEF vars
    <2>2. StreamInv'
      BY <1>1, <2>1 DEF senderVars, StreamInv, StreamInPlace, Taken, Accepted, Whole
    <2>3. PoolInv'
      BY <1>1, <2>1, PoolStays DEF senderVars
    <2> QED
      BY <1>1, <2>1, <2>2, <2>3, TableStays DEF TypeInv
  <1> QED
    BY <1>2, <1>3, <1>4, <1>5, <1>6, <1>7 DEF Next

LEMMA TypeInit == Init => TypeInv
  <1> SUFFICES ASSUME Init PROVE TypeInv
    OBVIOUS
  <1>1. TableInv
    BY TableInit DEF Init
  <1>2. StreamInv
    <2>1. sent = << >> /\ sending = FALSE /\ stream = << >>
      BY DEF Init
    <2>2. sent \in Seq(Message) /\ Len(sent) = 0 /\ DOMAIN sent = {}
      BY <2>1
    <2>3. stream \in Seq(Byte) /\ Len(stream) = 0 /\ DOMAIN stream = {}
      BY <2>1
    <2>4. StreamInPlace
      BY <2>1, <2>2, <2>3 DEF StreamInPlace
    <2>5. Len(sent) <= MaxMessages /\ Len(stream) <= LinkCapacity
      BY <2>2, <2>3, Constants
    <2>6. sending \in BOOLEAN
      BY <2>1
    <2> QED
      BY <2>2, <2>3, <2>4, <2>5, <2>6 DEF StreamInv
  <1>3. PoolInv
    BY Constants DEF Init, PoolInv, PoolInPlace, Collected
  <1> QED
    BY <1>1, <1>2, <1>3 DEF TypeInv

(* Whatever is sent and however the reads cut it, everything keeps its     *)
(* type: the pool never holds more than config.pool_size, and the table    *)
(* never more than its capacity.                                           *)
THEOREM TypesHold == Spec => []TypeOK
  BY TypeInit, TypeStep, TypeInvTypes, PTL DEF Spec

-----------------------------------------------------------------------------
(* Whose callback is called.                                               *)

CallsRight ==
  \A h \in ToSet(handled') :
    Len(handled') > Len(handled) /\ h = Last(handled') /\ h.how # "dropped" =>
      (h.how = "called" <=> Table!Occurs(h.id) > 0)

LEMMA UnchangedCalls == UNCHANGED handled /\ handled \in Seq(Met) => CallsRight
  BY DEF CallsRight

LEMMA HandleCalls ==
  ASSUME TypeInv, NEW h \in Header, NEW how, NEW bytes, Handle(how, h, bytes),
         how = "dropped" \/ how = IF Finds(h.id) THEN "called" ELSE "ignored"
  PROVE  CallsRight
  <1>1. PICK x : x = [how |-> how, id |-> h.id, size |-> h.size, body |-> bytes]
    OBVIOUS
  <1>2. x.how = how /\ x.id = h.id
    BY <1>1
  <1>3. handled' = Append(handled, x) /\ handled \in Seq(Met) /\ TableInv
    BY <1>1 DEF Handle, TypeInv, PoolInv
  <1>4. Last(handled') = x
    BY <1>3 DEF Last
  <1>5. Finds(h.id) <=> Table!Occurs(h.id) > 0
    BY <1>3, HeaderFacts, FindsSubscribed
  <1>6. how # "dropped" => (how = "called" <=> Finds(h.id))
    OBVIOUS
  <1> QED
    BY <1>2, <1>4, <1>5, <1>6 DEF CallsRight

LEMMA BodyCalls ==
  ASSUME TypeInv, NEW h \in Header, NEW had, NEW before, NEW k, Body(h, had, before, k)
  PROVE  CallsRight
  <1>1. handled \in Seq(Met)
    BY DEF TypeInv, PoolInv
  <1>2. CASE TooLarge(h)
    <2>1. UNCHANGED handled \/ Handle("dropped", h, << >>)
      BY <1>2 DEF Body, DropMessage
    <2> QED
      BY <1>1, <2>1, UnchangedCalls, HandleCalls
  <1>3. CASE ~TooLarge(h)
    <2>1. \/ UNCHANGED handled
          \/ \E bytes : Handle(IF Finds(h.id) THEN "called" ELSE "ignored", h, bytes)
      BY <1>3 DEF Body, StoreMessage
    <2>2. CASE \E bytes : Handle(IF Finds(h.id) THEN "called" ELSE "ignored", h, bytes)
      <3>1. PICK how, bytes : /\ how = IF Finds(h.id) THEN "called" ELSE "ignored"
                              /\ Handle(how, h, bytes)
        BY <2>2
      <3> QED
        BY <3>1, HandleCalls
    <2> QED
      BY <1>1, <2>1, <2>2, UnchangedCalls
  <1> QED
    BY <1>2, <1>3

LEMMA StepCalls == TypeInv /\ [Next]_vars => CallsRight
  <1> SUFFICES ASSUME TypeInv, [Next]_vars PROVE CallsRight
    OBVIOUS
  <1>1. StreamInv /\ PoolInv /\ handled \in Seq(Met)
    BY DEF TypeInv, PoolInv
  <1>2. CASE UNCHANGED receiverVars
    BY <1>1, <1>2, UnchangedCalls DEF receiverVars
  <1>3. CASE UpdateReadsHeader
    BY <1>1, <1>3, UnchangedCalls DEF UpdateReadsHeader
  <1>4. CASE UpdateEndsHeader
    <2>1. PICK k, bytes : k = HeaderSize - stored /\ bytes = Collected \o SubSeq(stream, 1, k)
      OBVIOUS
    <2>2. /\ stored < HeaderSize /\ k <= Len(stream)
          /\ \E h \in Headers(bytes) : Body(h, HeaderSize, bytes, k)
      BY <1>4, <2>1 DEF UpdateEndsHeader
    <2>3. PICK h \in Headers(bytes) : Body(h, HeaderSize, bytes, k)
      BY <2>2
    <2>4. BodyFinds(h, HeaderSize, bytes, k)
      BY <1>1, <2>1, <2>2, EndsHeaderFinds
    <2> QED
      BY <2>3, <2>4, BodyCalls DEF BodyFinds
  <1>5. CASE UpdateReadsBody
    BY <1>1, <1>5, ReadsBodyFinds, BodyCalls DEF UpdateReadsBody, BodyFinds
  <1>6. CASE UNCHANGED vars
    BY <1>2, <1>6 DEF vars
  <1>7. Next => UNCHANGED receiverVars \/ MsgUpdate
    BY DEF Next, MsgSend, SendSegment, SendGivesUp, Subscribe, Unsubscribe
  <1> QED
    BY <1>2, <1>3, <1>4, <1>5, <1>6, <1>7 DEF MsgUpdate

(* dispatch_received calls a callback exactly for the ids that are in the  *)
(* table at the time, whatever the binary search of mc_sarray_find returns *)
(* for the others.                                                         *)
THEOREM CallsSubscribers == Spec => CallsSubscriber
  <1>1. TypeInv /\ [Next]_vars => [CallsRight]_vars
    BY StepCalls
  <1>2. [][CallsRight]_vars <=> CallsSubscriber
    BY DEF CallsRight, CallsSubscriber
  <1> QED
    BY <1>1, <1>2, TypeInit, TypeStep, PTL DEF Spec

-----------------------------------------------------------------------------
(* The bytes that the receiver reads next.                                 *)

(* The byte at a place of message m is the one from there.                 *)
LEMMA FrontByte ==
  ASSUME StreamInv, NEW m \in DOMAIN sent, NEW j \in DOMAIN stream, NEW p \in Nat,
         Taken + j = sent[m].from + p + 1, p < sent[m].put
  PROVE  stream[j] = [msg |-> m, at |-> p]
  <1>1. PICK b : b = stream[j]
    OBVIOUS
  <1>2. b \in Byte /\ b.at \in Nat /\ b = [msg |-> b.msg, at |-> b.at]
    <2>1. b \in Byte
      BY <1>1 DEF StreamInv
    <2> QED
      BY <2>1 DEF Byte
  <1>3. PICK l, a : l = b.msg /\ a = b.at
    OBVIOUS
  <1>4. /\ l \in DOMAIN sent /\ a \in Nat /\ a < sent[l].put
        /\ sent[l].from + a + 1 = Taken + j
    BY <1>1, <1>2, <1>3, StreamFacts DEF Follow
  <1>5. /\ l \in 1 .. Len(sent) /\ m \in 1 .. Len(sent)
        /\ sent[m].from \in Nat /\ sent[m].put \in Nat
        /\ sent[l].from \in Nat /\ sent[l].put \in Nat
    BY <1>4, StreamFacts, MessageFacts
  <1>6. ~(l < m)
    <2>1. ASSUME l < m PROVE FALSE
      <3>1. m \in l + 1 .. Len(sent)
        BY <1>5, <2>1
      <3>2. sent[l].from + sent[l].put <= sent[m].from
        BY <1>4, <3>1, StreamFacts DEF InRow
      <3> QED
        BY <1>4, <1>5, <3>2, SMTT(30)
    <2> QED
      BY <2>1
  <1>7. ~(m < l)
    <2>1. ASSUME m < l PROVE FALSE
      <3>1. l \in m + 1 .. Len(sent)
        BY <1>5, <2>1
      <3>2. sent[m].from + sent[m].put <= sent[l].from
        BY <3>1, StreamFacts DEF InRow
      <3> QED
        BY <1>4, <1>5, <3>2, SMTT(30)
    <2> QED
      BY <2>1
  <1>8. l = m
    BY <1>5, <1>6, <1>7
  <1>9. a = p
    BY <1>4, <1>5, <1>8
  <1> QED
    BY <1>1, <1>2, <1>3, <1>8, <1>9

(* r bytes behind the first x are those of message m from place p on.      *)
LEMMA FrontPiece ==
  ASSUME StreamInv, NEW m \in DOMAIN sent, NEW x \in Nat, NEW p \in Nat, NEW r \in Nat,
         x + r <= Len(stream), Taken + x = sent[m].from + p, p + r <= sent[m].put
  PROVE  SubSeq(stream, x + 1, x + r) = Bytes(m, p, p + r)
  <1>1. PICK y, q, s, t : /\ y = x + r /\ q = p + r
                          /\ s = SubSeq(stream, x + 1, y) /\ t = Bytes(m, p, q)
    OBVIOUS
  <1>2. /\ y \in Nat /\ x <= y /\ y <= Len(stream) /\ y - x = r
        /\ q \in Nat /\ p <= q /\ q - p = r
    BY <1>1
  <1>3. /\ m \in 1 .. MaxMessages /\ stream \in Seq(Byte) /\ Len(stream) \in Nat
        /\ Taken \in Int /\ sent[m].from \in Nat /\ sent[m].put \in Nat
    BY StreamFacts, SentFacts
  <1>4. s \in Seq(Byte) /\ Len(s) = r /\ \A i \in 1 .. r : s[i] = stream[x + i]
    <2>1. PartIs(stream, x, y, s)
      BY <1>1, <1>2, <1>3, PartOf
    <2> QED
      BY <1>2, <2>1 DEF PartIs
  <1>5. t \in Seq(Byte) /\ Len(t) = r /\ \A i \in 1 .. r : t[i] = [msg |-> m, at |-> p + i - 1]
    <2>1. /\ Bytes(m, p, q) \in Seq(Byte) /\ Len(Bytes(m, p, q)) = q - p
          /\ \A i \in 1 .. q - p : Bytes(m, p, q)[i] = [msg |-> m, at |-> p + i - 1]
      BY <1>2, <1>3, BytesAre
    <2> QED
      BY <1>1, <1>2, <2>1
  <1>6. ASSUME NEW i \in 1 .. r PROVE s[i] = t[i]
    <2>1. x + i \in DOMAIN stream
      BY <1>1, <1>2, <1>3
    <2>2. PICK z \in Nat : z = p + i - 1
      OBVIOUS
    <2>3. z < sent[m].put
      <3>1. PICK u \in Nat : u = sent[m].put
        BY <1>3
      <3>2. p + r <= u
        BY <3>1
      <3>3. z < u
        BY <2>2, <3>2
      <3> QED
        BY <3>1, <3>3
    <2>4. Taken + (x + i) = sent[m].from + z + 1
      <3>1. PICK u \in Int, v \in Nat : u = Taken /\ v = sent[m].from
        BY <1>3
      <3>2. u + x = v + p
        BY <3>1
      <3>3. u + (x + i) = v + z + 1
        BY <2>2, <3>2
      <3> QED
        BY <3>1, <3>3
    <2>5. stream[x + i] = [msg |-> m, at |-> p + i - 1]
      BY <2>1, <2>2, <2>3, <2>4, FrontByte
    <2> QED
      BY <1>4, <1>5, <2>5
  <1>7. s = t
    BY <1>4, <1>5, <1>6, SameSeq
  <1> QED
    BY <1>1, <1>7

(* Only the next message has bytes behind those of message m.              *)
LEMMA NotLast ==
  ASSUME StreamInv, NEW m \in DOMAIN sent, NEW x \in Nat, NEW y \in Nat,
         x <= Len(stream), Taken + x = sent[m].from + y, y > sent[m].put
  PROVE  m < Len(sent)
  <1>1. /\ m \in 1 .. Len(sent) /\ sent[m].from \in Nat /\ sent[m].put \in Nat
        /\ Taken \in Int /\ Taken = EndOf(sent) - Len(stream) /\ Len(stream) \in Nat
        /\ EndOf(sent) \in Nat /\ Len(sent) \in Nat
    BY StreamFacts, MessageFacts
  <1>2. ASSUME m = Len(sent) PROVE FALSE
    <2>1. sent # << >>
      BY <1>1
    <2>2. EndOf(sent) = sent[m].from + sent[m].put
      BY <1>2, <2>1 DEF EndOf
    <2> QED
      BY <1>1, <2>2, SMTT(30)
  <1> QED
    BY <1>1, <1>2

-----------------------------------------------------------------------------
(* In step.                                                                *)

(* A message up to the n-th was cut.                                       *)
CutBy(n) == \E c \in 1 .. n : c \in DOMAIN sent /\ CutAt(c)

(* The receiver has reached the place recv_pool_stored of message m.       *)
Inside(m) ==
  /\ Taken = sent[m].from + stored
  /\ IF stored > sent[m].put
     THEN m < Len(sent) /\ ~Whole(m)
     ELSE IF stored < HeaderSize
     THEN Collected = Bytes(m, 0, stored)
     ELSE hdr = HeaderOf(m) /\ (~TooLarge(hdr) => pool = Bytes(m, 0, stored))

Behind(i) == IF i = Len(sent) THEN stored = 0 /\ stream = << >> ELSE Inside(i + 1)

LEMMA InStepIs ==
  InStep <=> /\ \A n \in 0 .. Len(handled) : WholeUpTo(n) \/ CutBy(n)
             /\ WholeUpTo(Len(handled)) => Behind(Len(handled))
  BY DEF InStep, CutBy, Behind, Inside

LEMMA InStepMakes ==
  ASSUME NEW i, Len(handled') = i,
         \A n \in 0 .. i : WholeUpTo(n)' \/ CutBy(n)',
         WholeUpTo(i)' => Behind(i)'
  PROVE  InStep'
  BY DEF InStep, CutBy, Behind, Inside

LEMMA WholeFacts ==
  ASSUME NEW n \in Nat
  PROVE  /\ WholeUpTo(n) => \A k \in 0 .. n : WholeUpTo(k)
         /\ WholeUpTo(n) => ~CutBy(n)
         /\ StreamInv /\ WholeUpTo(n) => n <= Len(sent)
  <1>1. WholeUpTo(n) => \A k \in 0 .. n : WholeUpTo(k)
    BY DEF WholeUpTo
  <1>2. WholeUpTo(n) => ~CutBy(n)
    BY DEF WholeUpTo, CutBy, CutAt
  <1>3. ASSUME StreamInv, WholeUpTo(n) PROVE n <= Len(sent)
    <2>1. Len(sent) \in Nat /\ DOMAIN sent = 1 .. Len(sent)
      BY <1>3, StreamFacts
    <2>2. n # 0 => n \in DOMAIN sent
      BY <1>3 DEF WholeUpTo
    <2> QED
      BY <2>1, <2>2
  <1> QED
    BY <1>1, <1>2, <1>3

(* A step of the sender keeps what was sent, and the receiver does not     *)
(* notice it.                                                              *)
Grows ==
  /\ UNCHANGED receiverVars /\ Taken' = Taken
  /\ Len(sent') \in Nat /\ Len(sent) <= Len(sent')
  /\ \A m \in DOMAIN sent :
       /\ m \in DOMAIN sent' /\ sent'[m].from = sent[m].from
       /\ sent'[m].size = sent[m].size /\ sent'[m].id = sent[m].id
       /\ sent'[m].put \in Nat /\ sent'[m].put >= sent[m].put
       /\ m < Len(sent) => sent'[m].put = sent[m].put
       /\ Whole(m) => Whole(m)'
       /\ CutAt(m) => CutAt(m)'
  /\ stream = << >> /\ WholeUpTo(Len(sent)) =>
       IF Len(sent') = Len(sent)
       THEN stream' = << >>
       ELSE /\ sent'[Len(sent) + 1].from = Taken /\ sent'[Len(sent) + 1].put = 0

LEMMA GrowsKeeps ==
  ASSUME StreamInv, PoolInv, InStep, IntactUntilCut, Grows
  PROVE  InStep' /\ IntactUntilCut'
  <1>1. PICK i \in Nat : i = Len(handled)
    BY DEF PoolInv
  <1>2. /\ \A n \in 0 .. i : WholeUpTo(n) \/ CutBy(n)
        /\ WholeUpTo(i) => Behind(i)
    BY <1>1, InStepIs
  <1>3. stored' = stored /\ pool' = pool /\ hdr' = hdr /\ handled' = handled
    BY DEF Grows, receiverVars
  <1>4. \A n \in 0 .. i : (WholeUpTo(n) => WholeUpTo(n)') /\ (CutBy(n) => CutBy(n)')
    BY DEF Grows, WholeUpTo, CutBy
  <1>5. ASSUME NEW n \in 0 .. i, WholeUpTo(n)' PROVE WholeUpTo(n)
    <2>1. ~CutBy(n)'
      BY <1>5 DEF WholeUpTo, CutBy, CutAt
    <2> QED
      BY <1>2, <1>4, <2>1
  <1>6. IntactUntilCut'
    <2> SUFFICES ASSUME NEW m \in DOMAIN handled, WholeUpTo(m)' PROVE MetAsSent(m)'
      BY <1>3 DEF IntactUntilCut
    <2>1. m \in 0 .. i /\ m \in 1 .. m /\ m \in Nat
      BY <1>1 DEF PoolInv
    <2>2. WholeUpTo(m)
      BY <1>5, <2>1
    <2>3. MetAsSent(m) /\ m \in DOMAIN sent
      BY <2>1, <2>2 DEF IntactUntilCut, WholeUpTo
    <2>4. sent'[m].size = sent[m].size /\ sent'[m].id = sent[m].id
      BY <2>3 DEF Grows
    <2> QED
      BY <1>3, <2>3, <2>4 DEF MetAsSent, BodyOf
  <1>7. ASSUME WholeUpTo(i)' PROVE Behind(i)'
    <2>1. WholeUpTo(i) /\ Behind(i) /\ i <= Len(sent)
      BY <1>1, <1>2, <1>5, <1>7, WholeFacts
    <2>2. /\ Len(sent) \in Nat /\ DOMAIN sent = 1 .. Len(sent) /\ stored \in Nat
          /\ Len(sent') \in Nat /\ Len(sent) <= Len(sent') /\ Taken' = Taken
      BY StreamFacts, PoolFacts DEF Grows
    <2>3. CASE i = Len(sent)
      <3>1. stored = 0 /\ stream = << >>
        BY <2>1, <2>3 DEF Behind
      <3>2. IF Len(sent') = Len(sent)
            THEN stream' = << >>
            ELSE sent'[i + 1].from = Taken /\ sent'[i + 1].put = 0
        BY <2>1, <2>3, <3>1 DEF Grows
      <3>3. CASE Len(sent') = Len(sent)
        BY <1>3, <2>3, <3>1, <3>2, <3>3 DEF Behind
      <3>4. CASE Len(sent') # Len(sent)
        <4>1. Taken \in Int /\ Taken' = sent'[i + 1].from + stored'
          BY <1>3, <2>2, <3>1, <3>2, <3>4, StreamFacts
        <4>2. ~(stored' > sent'[i + 1].put) /\ stored' < HeaderSize /\ stored' = 0
          BY <1>3, <3>1, <3>2, <3>4, Constants
        <4>3. Bytes(i + 1, 0, 0) = << >>
          BY DEF Bytes
        <4>4. Collected' = Bytes(i + 1, 0, stored')
          BY <1>3, <4>2, <4>3 DEF Collected
        <4>5. Inside(i + 1)'
          BY <4>1, <4>2, <4>4 DEF Inside
        <4> QED
          BY <2>3, <3>4, <4>5 DEF Behind
      <3> QED
        BY <3>3, <3>4
    <2>4. CASE i # Len(sent)
      <3>0. i + 1 \in DOMAIN sent
        <4>1. PICK l \in Nat : l = Len(sent) /\ DOMAIN sent = 1 .. l
          BY <2>2
        <4>2. i <= l /\ i # l
          BY <2>1, <2>4, <4>1
        <4>3. i + 1 \in 1 .. l
          BY <4>2
        <4> QED
          BY <4>1, <4>3
      <3>1. PICK m \in DOMAIN sent : m = i + 1
        BY <3>0
      <3>2. Inside(m)
        BY <2>1, <2>4, <3>1 DEF Behind
      <3>3. /\ sent'[m].from = sent[m].from
            /\ sent'[m].size = sent[m].size /\ sent'[m].id = sent[m].id
            /\ sent'[m].put \in Nat /\ sent'[m].put >= sent[m].put
            /\ m < Len(sent) => sent'[m].put = sent[m].put
        BY DEF Grows
      <3>4. /\ sent[m].put \in Nat /\ m \in Nat
            /\ sent'[m].put \in Nat /\ sent'[m].put >= sent[m].put
        BY <3>3, StreamFacts, MessageFacts
      <3>5. Taken' = sent'[m].from + stored'
        BY <1>3, <2>2, <3>2, <3>3 DEF Inside
      <3>6. CASE stored > sent[m].put
        <4>1. m < Len(sent) /\ ~Whole(m)
          BY <3>2, <3>6 DEF Inside
        <4>2. m < Len(sent') /\ ~Whole(m)'
          BY <2>2, <3>3, <3>4, <4>1 DEF Whole
        <4>3. stored' > sent'[m].put
          BY <1>3, <3>3, <3>6, <4>1
        <4> QED
          BY <2>1, <2>2, <2>4, <3>1, <3>5, <4>2, <4>3 DEF Behind, Inside
      <3>7. CASE ~(stored > sent[m].put)
        <4>1. IF stored < HeaderSize
              THEN Collected = Bytes(m, 0, stored)
              ELSE hdr = HeaderOf(m) /\ (~TooLarge(hdr) => pool = Bytes(m, 0, stored))
          BY <3>2, <3>7 DEF Inside
        <4>2. Collected' = Collected /\ HeaderOf(m)' = HeaderOf(m)
          BY <1>3, <3>3 DEF Collected, HeaderOf
        <4>3. IF stored' < HeaderSize
              THEN Collected' = Bytes(m, 0, stored')
              ELSE hdr' = HeaderOf(m)' /\ (~TooLarge(hdr') => pool' = Bytes(m, 0, stored'))
          BY <1>3, <4>1, <4>2
        <4>4. stored' > sent'[m].put => m < Len(sent') /\ ~Whole(m)'
          BY <1>3, <2>2, <3>3, <3>4, <3>7
        <4>5. Inside(m)'
          BY <3>5, <4>3, <4>4 DEF Inside
        <4>6. i # Len(sent')
          <5>1. PICK l \in Nat : l = Len(sent)
            BY <2>2
          <5>2. i <= l /\ i # l /\ l <= Len(sent')
            BY <2>1, <2>2, <2>4, <5>1
          <5> QED
            BY <5>2
        <4> QED
          BY <3>1, <4>5, <4>6 DEF Behind
      <3> QED
        BY <3>6, <3>7
    <2> QED
      BY <2>3, <2>4
  <1> QED
    BY <1>1, <1>2, <1>3, <1>4, <1>6, <1>7, InStepMakes

LEMMA SendGrows ==
  ASSUME StreamInv, NEW id \in MsgIds, NEW size \in Sizes, MsgSend(id, size)
  PROVE  Grows
  <1>1. /\ Taken' = Taken /\ Len(sent') = Len(sent) + 1 /\ sent'[Len(sent) + 1].put = 0
        /\ sent'[Len(sent) + 1].from = Accepted
        /\ \A m \in DOMAIN sent : m \in DOMAIN sent' /\ sent'[m] = sent[m]
    BY SendKeeps
  <1>2. UNCHANGED receiverVars /\ Len(sent) \in Nat /\ DOMAIN sent = 1 .. Len(sent)
    BY StreamFacts DEF MsgSend
  <1>3. ASSUME NEW m \in DOMAIN sent
        PROVE  /\ m \in DOMAIN sent' /\ sent'[m].from = sent[m].from
               /\ sent'[m].size = sent[m].size /\ sent'[m].id = sent[m].id
               /\ sent'[m].put \in Nat /\ sent'[m].put >= sent[m].put
               /\ m < Len(sent) => sent'[m].put = sent[m].put
               /\ Whole(m) => Whole(m)'
               /\ CutAt(m) => CutAt(m)'
    <2>1. m \in DOMAIN sent' /\ sent'[m] = sent[m]
      BY <1>1
    <2>2. sent[m].put \in Nat
      BY StreamFacts, MessageFacts
    <2>3. Whole(m)' <=> Whole(m)
      BY <2>1 DEF Whole
    <2>4. m < Len(sent')
      BY <1>1, <1>2
    <2> QED
      BY <2>1, <2>2, <2>3, <2>4 DEF CutAt
  <1>4. stream = << >> => Accepted = Taken
    <2>1. Accepted \in Nat
      BY StreamFacts
    <2> QED
      BY <2>1 DEF Taken
  <1>5. Len(sent') \in Nat /\ Len(sent) <= Len(sent') /\ Len(sent') # Len(sent)
    <2>1. PICK l \in Nat : l = Len(sent)
      BY <1>2
    <2>2. Len(sent') = l + 1
      BY <1>1, <2>1
    <2>3. l + 1 \in Nat /\ l <= l + 1 /\ l + 1 # l
      OBVIOUS
    <2> QED
      BY <2>1, <2>2, <2>3
  <1> QED
    BY <1>1, <1>2, <1>3, <1>4, <1>5 DEF Grows

LEMMA SegmentGrows ==
  ASSUME StreamInv, NEW late \in BOOLEAN, SendSegment(late)
  PROVE  Grows
  <1>1. /\ Taken' = Taken /\ StreamInv'
        /\ Len(sent') = Len(sent) /\ DOMAIN sent' = DOMAIN sent
        /\ \A m \in DOMAIN sent : /\ sent'[m].from = sent[m].from
                                  /\ sent'[m].size = sent[m].size
                                  /\ sent'[m].id = sent[m].id
                                  /\ m # Len(sent) => sent'[m].put = sent[m].put
        /\ sent'[Len(sent)].put >= sent[Len(sent)].put
    BY SegmentKeeps
  <1>2. /\ UNCHANGED receiverVars /\ sending
        /\ Len(sent) \in DOMAIN sent /\ ~Whole(Len(sent)) /\ Len(sent) \in Nat
    BY StreamFacts DEF SendSegment
  <1>3. ASSUME NEW m \in DOMAIN sent
        PROVE  /\ m \in DOMAIN sent' /\ sent'[m].from = sent[m].from
               /\ sent'[m].size = sent[m].size /\ sent'[m].id = sent[m].id
               /\ sent'[m].put \in Nat /\ sent'[m].put >= sent[m].put
               /\ m < Len(sent) => sent'[m].put = sent[m].put
               /\ Whole(m) => Whole(m)'
               /\ CutAt(m) => CutAt(m)'
    <2>1. sent' \in Seq(Message) /\ m \in DOMAIN sent'
      BY <1>1 DEF StreamInv
    <2>2. sent[m].put \in Nat /\ sent'[m].put \in Nat /\ m \in Nat
      BY <2>1, StreamFacts, MessageFacts
    <2>3. sent'[m].put >= sent[m].put
      BY <1>1, <2>2
    <2>4. /\ sent'[m].from = sent[m].from
          /\ sent'[m].size = sent[m].size /\ sent'[m].id = sent[m].id
          /\ m # Len(sent) => sent'[m].put = sent[m].put
      BY <1>1
    <2>5. m < Len(sent) => m # Len(sent)
      BY <1>2, <2>2
    <2>6. Whole(m) => m # Len(sent)
      BY <1>2
    <2>7. m # Len(sent) => (Whole(m)' <=> Whole(m))
      BY <2>4 DEF Whole
    <2>8. CutAt(m) => m < Len(sent) /\ ~Whole(m)
      BY <1>2 DEF CutAt
    <2>9. CutAt(m) => CutAt(m)'
      BY <1>1, <2>5, <2>7, <2>8 DEF CutAt
    <2> QED
      BY <2>1, <2>2, <2>3, <2>4, <2>5, <2>6, <2>7, <2>9
  <1>4. ~WholeUpTo(Len(sent))
    <2>1. Len(sent) \in 1 .. Len(sent)
      BY <1>2, StreamFacts
    <2> QED
      BY <1>2, <2>1 DEF WholeUpTo
  <1> QED
    BY <1>1, <1>2, <1>3, <1>4 DEF Grows

(* Giving up, and what is no step of the sender.                           *)
LEMMA SameGrows ==
  ASSUME StreamInv, UNCHANGED receiverVars, sent' = sent, stream' = stream,
         sending' = sending \/ sending' = FALSE
  PROVE  Grows
  <1>1. Taken' = Taken /\ Len(sent) \in Nat /\ Len(sent') = Len(sent)
    BY StreamFacts DEF Taken, Accepted
  <1>2. ASSUME NEW m \in DOMAIN sent
        PROVE  /\ sent[m].put \in Nat /\ (Whole(m) <=> Whole(m)')
               /\ CutAt(m) => CutAt(m)'
    <2>1. sent[m].put \in Nat
      BY StreamFacts, MessageFacts
    <2>2. Whole(m) <=> Whole(m)'
      BY DEF Whole
    <2> QED
      BY <2>1, <2>2 DEF CutAt
  <1>3. \A m \in DOMAIN sent : sent[m].put >= sent[m].put
    BY <1>2
  <1> QED
    BY <1>1, <1>2, <1>3 DEF Grows

(* The receiver keeps what is sent.                                        *)
LEMMA SameSent ==
  ASSUME UNCHANGED senderVars
  PROVE  /\ sent' = sent
         /\ \A n : (WholeUpTo(n)' <=> WholeUpTo(n)) /\ (CutBy(n)' <=> CutBy(n))
                   /\ (Whole(n)' <=> Whole(n)) /\ HeaderOf(n)' = HeaderOf(n)
  BY DEF senderVars, WholeUpTo, CutBy, CutAt, Whole, HeaderOf

LEMMA MeetsNone ==
  ASSUME PoolInv, InStep, IntactUntilCut, UNCHANGED senderVars, UNCHANGED handled,
         NEW i, i = Len(handled), WholeUpTo(i) => Behind(i)'
  PROVE  InStep' /\ IntactUntilCut'
  <1>1. \A n \in 0 .. i : WholeUpTo(n) \/ CutBy(n)
    BY InStepIs
  <1>2. InStep'
    BY <1>1, SameSent, InStepMakes
  <1>3. IntactUntilCut'
    BY SameSent DEF IntactUntilCut, MetAsSent, BodyOf
  <1> QED
    BY <1>2, <1>3

LEMMA MeetsOne ==
  ASSUME PoolInv, InStep, IntactUntilCut, UNCHANGED senderVars,
         NEW i \in Nat, i = Len(handled), NEW m \in Nat, m = i + 1,
         Len(handled') = m, \A j \in 1 .. i : handled'[j] = handled[j],
         WholeUpTo(i) /\ ~WholeUpTo(m) => CutBy(m),
         WholeUpTo(m) => MetAsSent(m)' /\ Behind(m)',
         NEW S, handled' \in Seq(S)
  PROVE  InStep' /\ IntactUntilCut'
  <1>1. \A n \in 0 .. i : WholeUpTo(n) \/ CutBy(n)
    BY InStepIs
  <1>2. WholeUpTo(m) \/ CutBy(m)
    <2>1. CutBy(i) => CutBy(m)
      BY DEF CutBy
    <2>2. WholeUpTo(i) \/ CutBy(i)
      BY <1>1
    <2> QED
      BY <2>1, <2>2
  <1>3. \A n \in 0 .. m : n = m \/ n \in 0 .. i
    OBVIOUS
  <1>4. InStep'
    <2>1. \A n \in 0 .. m : WholeUpTo(n)' \/ CutBy(n)'
      BY <1>1, <1>2, <1>3, SameSent
    <2> QED
      BY <2>1, SameSent, InStepMakes
  <1>5. IntactUntilCut'
    <2> SUFFICES ASSUME NEW j \in DOMAIN handled', WholeUpTo(j)' PROVE MetAsSent(j)'
      BY DEF IntactUntilCut
    <2>1. j \in 1 .. m /\ WholeUpTo(j)
      BY SameSent
    <2>2. CASE j = m
      BY <2>1, <2>2
    <2>3. CASE j # m
      <3>1. j \in 1 .. i /\ j \in DOMAIN handled
        BY <2>1, <2>3 DEF PoolInv
      <3>2. MetAsSent(j) /\ handled'[j] = handled[j]
        BY <2>1, <3>1 DEF IntactUntilCut
      <3> QED
        BY <3>2, SameSent DEF MetAsSent, BodyOf
    <2> QED
      BY <2>2, <2>3
  <1> QED
    BY <1>4, <1>5

(* Both ways of reading the body.                                          *)
BodyDoes(h, had, before, k, r, how, body) ==
  /\ hdr' = h /\ had + r <= Expected(h) /\ k + r <= Len(stream) /\ stream' = Skip(k + r)
  /\ IF had + r = Expected(h)
     THEN stored' = 0 /\ Handle(how, h, body)
     ELSE stored' = had + r /\ UNCHANGED handled
  /\ IF TooLarge(h)
     THEN how = "dropped"
     ELSE /\ how # "dropped" /\ pool' = before \o SubSeq(stream, k + 1, k + r)
          /\ body = SubSeq(pool', HeaderSize + 1, Len(pool'))

LEMMA BodyIs ==
  ASSUME StreamInv, NEW h, NEW had, NEW before, NEW k,
         BodyFinds(h, had, before, k), Body(h, had, before, k)
  PROVE  \E r \in Nat : \E how, body : BodyDoes(h, had, before, k, r, how, body)
  <1>1. /\ h \in Header /\ had \in Nat /\ HeaderSize <= had /\ had <= Expected(h)
        /\ k \in Nat /\ k <= Len(stream) /\ hdr' = h /\ Len(stream) \in Nat
    BY StreamFacts DEF BodyFinds, Body
  <1>2. PICK x \in Nat : x = Expected(h)
    BY <1>1, HeaderFacts
  <1>3. Len(stream) - k \in Nat /\ x - had \in Nat
    BY <1>1, <1>2
  <1>4. CASE TooLarge(h)
    <2>1. PICK n : n = Smaller(PoolSize - HeaderSize, x - had)
      OBVIOUS
    <2>2. n \in Nat /\ n <= x - had
      BY <1>3, <2>1, Constants DEF Smaller
    <2>3. PICK r \in Recv(n, Len(stream) - k) :
            /\ stream' = Skip(k + r)
            /\ IF had + r = x
               THEN stored' = 0 /\ Handle("dropped", h, << >>)
               ELSE stored' = had + r /\ UNCHANGED handled
      BY <1>2, <1>4, <2>1 DEF Body, DropMessage
    <2>4. r \in Nat /\ r <= n /\ r <= Len(stream) - k
      BY <1>3, <2>2, RecvFacts
    <2>5. had + r <= x /\ k + r <= Len(stream)
      BY <1>1, <1>2, <2>2, <2>4
    <2>6. BodyDoes(h, had, before, k, r, "dropped", << >>)
      BY <1>1, <1>2, <1>4, <2>3, <2>5 DEF BodyDoes
    <2> QED
      BY <2>4, <2>6
  <1>5. CASE ~TooLarge(h)
    <2>1. PICK r, how, body :
            /\ r \in Recv(x - had, Len(stream) - k)
            /\ how = (IF Finds(h.id) THEN "called" ELSE "ignored")
            /\ body = SubSeq(pool', HeaderSize + 1, Len(pool'))
            /\ pool' = before \o SubSeq(stream, k + 1, k + r)
            /\ stream' = Skip(k + r)
            /\ IF had + r = x
               THEN stored' = 0 /\ Handle(how, h, body)
               ELSE stored' = had + r /\ UNCHANGED handled
      BY <1>2, <1>5 DEF Body, StoreMessage
    <2>2. r \in Nat /\ r <= x - had /\ r <= Len(stream) - k
      BY <1>3, <2>1, RecvFacts
    <2>3. had + r <= x /\ k + r <= Len(stream)
      BY <1>1, <1>2, <2>2
    <2>4. how # "dropped"
      BY <2>1
    <2>5. BodyDoes(h, had, before, k, r, how, body)
      BY <1>1, <1>2, <1>5, <2>1, <2>3, <2>4 DEF BodyDoes
    <2> QED
      BY <2>2, <2>5
  <1> QED
    BY <1>4, <1>5

(* The bytes of message m that were there, and those read behind them.     *)
Reads(m, had, k, r) ==
  /\ m \in DOMAIN sent /\ had \in Nat /\ k \in Nat /\ r \in Nat
  /\ k + r <= Len(stream) /\ Taken + k = sent[m].from + had /\ had + r <= sent[m].put

LEMMA Joined ==
  ASSUME StreamInv, NEW m, NEW had \in Nat, NEW k \in Nat, NEW r \in Nat, Reads(m, had, k, r)
  PROVE  Bytes(m, 0, had) \o SubSeq(stream, k + 1, k + r) = Bytes(m, 0, had + r)
  <1>0. /\ m \in DOMAIN sent /\ had \in Nat /\ k \in Nat /\ r \in Nat
        /\ k + r <= Len(stream) /\ Taken + k = sent[m].from + had /\ had + r <= sent[m].put
    BY DEF Reads
  <1>1. SubSeq(stream, k + 1, k + r) = Bytes(m, had, had + r)
    BY <1>0, FrontPiece
  <1>2. m \in 1 .. MaxMessages
    BY <1>0, StreamFacts, Constants
  <1>3. 0 \in Nat /\ had + r \in Nat /\ 0 <= had /\ had <= had + r
    BY <1>0
  <1>4. Bytes(m, 0, had) \o Bytes(m, had, had + r) = Bytes(m, 0, had + r)
    BY <1>0, <1>2, <1>3, BytesJoin
  <1> QED
    BY <1>1, <1>4

ReadInto(bytes, before, k, r) == bytes = before \o SubSeq(stream, k + 1, k + r)

LEMMA JoinedIn ==
  ASSUME StreamInv, NEW m, NEW had \in Nat, NEW k \in Nat, NEW r \in Nat, Reads(m, had, k, r),
         NEW bytes, ReadInto(bytes, Bytes(m, 0, had), k, r)
  PROVE  bytes = Bytes(m, 0, had + r)
  <1>1. Bytes(m, 0, had) \o SubSeq(stream, k + 1, k + r) = Bytes(m, 0, had + r)
    BY Joined
  <1> QED
    BY <1>1 DEF ReadInto

(* After the last byte of message m the next one begins.                   *)
LEMMA NextBegins ==
  ASSUME StreamInv, UNCHANGED senderVars, NEW m \in DOMAIN sent, NEW n \in 0 .. Len(stream),
         stream' = Skip(n), Taken + n = sent[m].from + sent[m].put, stored' = 0
  PROVE  Behind(m)'
  <1>1. Taken' = Taken + n /\ Len(stream') = Len(stream) - n /\ StreamInv'
    BY SkipKeeps
  <1>2. /\ Taken \in Int /\ Taken = EndOf(sent) - Len(stream) /\ Len(stream) \in Nat
        /\ EndOf(sent) \in Nat /\ Len(sent) \in Nat /\ DOMAIN sent = 1 .. Len(sent)
        /\ sent[m].from \in Nat /\ sent[m].put \in Nat /\ sent' = sent
    BY StreamFacts, MessageFacts, SameSent
  <1>3. CASE m = Len(sent)
    <2>1. sent # << >>
      BY <1>2
    <2>2. EndOf(sent) = sent[m].from + sent[m].put
      BY <1>3, <2>1 DEF EndOf
    <2>3. Len(stream') = 0 /\ stream' \in Seq(Byte)
      <3>1. PICK t \in Int, e \in Nat, y \in Nat : t = Taken /\ e = EndOf(sent) /\ y = Len(stream)
        BY <1>2
      <3>2. t = e - y /\ t + n = e
        BY <1>2, <2>2, <3>1
      <3>3. y - n = 0
        BY <3>2
      <3> QED
        BY <1>1, <3>1, <3>3 DEF StreamInv
    <2>4. stream' = << >>
      BY <2>3
    <2> QED
      BY <1>2, <1>3, <2>4 DEF Behind
  <1>4. CASE m # Len(sent)
    <2>0. m + 1 \in DOMAIN sent /\ m < Len(sent)
      BY <1>2, <1>4
    <2>1. PICK l \in DOMAIN sent : l = m + 1
      BY <2>0
    <2>2. sent[l].from = sent[m].from + sent[m].put
      BY <2>0, <2>1, StreamFacts DEF InRow
    <2>3. sent[l].put \in Nat /\ sent[l].from \in Nat
      BY StreamFacts, MessageFacts
    <2>4. Taken' = sent'[l].from + stored'
      BY <1>1, <1>2, <2>2, <2>3
    <2>5. ~(stored' > sent'[l].put) /\ stored' < HeaderSize
      BY <1>2, <2>3, Constants
    <2>6. Collected' = Bytes(l, 0, stored')
      BY DEF Collected, Bytes
    <2>7. Inside(l)'
      BY <2>4, <2>5, <2>6 DEF Inside
    <2> QED
      BY <1>2, <1>4, <2>1, <2>7 DEF Behind
  <1> QED
    BY <1>3, <1>4

(* What the body is read into is message m as far as it was put.           *)
Fits(m, h, had, before) ==
  IF had > sent[m].put
  THEN m < Len(sent) /\ ~Whole(m)
  ELSE h = HeaderOf(m) /\ (~TooLarge(h) => before = Bytes(m, 0, had))

(* The last byte of a whole message is met.                                *)
LEMMA MeetsWhole ==
  ASSUME StreamInv, PoolInv, UNCHANGED senderVars, NEW m \in DOMAIN sent, m = Len(handled) + 1,
         NEW h, NEW had, NEW before, NEW k, NEW r \in Nat, NEW how, NEW body,
         BodyFinds(h, had, before, k), BodyDoes(h, had, before, k, r, how, body),
         Taken + k = sent[m].from + had, h = HeaderOf(m), ~TooLarge(h) => before = Bytes(m, 0, had),
         had + r = Expected(h), Whole(m)
  PROVE  MetAsSent(m)' /\ Behind(m)'
  <1>1. /\ h \in Header /\ had \in Nat /\ k \in Nat /\ k + r <= Len(stream)
        /\ stream' = Skip(k + r) /\ stored' = 0 /\ Handle(how, h, body)
        /\ IF TooLarge(h)
           THEN how = "dropped"
           ELSE /\ how # "dropped" /\ pool' = before \o SubSeq(stream, k + 1, k + r)
                /\ body = SubSeq(pool', HeaderSize + 1, Len(pool'))
    BY DEF BodyFinds, BodyDoes
  <1>0. sent[m].size \in Nat /\ m \in 1 .. MaxMessages
    BY SentFacts
  <1>2. PICK e \in Nat : e = HeaderSize + sent[m].size
    BY <1>0, Constants
  <1>3. /\ had + r = e /\ sent[m].put = e /\ h.id = sent[m].id /\ h.size = sent[m].size
        /\ HeaderSize <= e /\ sent' = sent /\ m \in 1 .. MaxMessages
    <2>1. h.id = sent[m].id /\ h.size = sent[m].size
      BY DEF HeaderOf
    <2>2. had + r = e
      BY <1>2, <2>1 DEF Expected
    <2>3. sent[m].put = e
      BY <1>2 DEF Whole
    <2>4. HeaderSize <= e /\ m \in 1 .. MaxMessages
      BY <1>0, <1>2, Constants
    <2> QED
      BY <2>1, <2>2, <2>3, <2>4, SameSent
  <1>4. Behind(m)'
    <2>1. k + r \in 0 .. Len(stream)
      BY <1>1, StreamFacts
    <2>2. Taken + (k + r) = sent[m].from + sent[m].put
      <3>1. PICK t \in Int, f \in Nat : t = Taken /\ f = sent[m].from
        BY StreamFacts, MessageFacts
      <3>2. t + k = f + had
        BY <3>1
      <3>3. had \in Nat /\ k \in Nat /\ had + r = e
        BY <1>1, <1>3
      <3>4. t + (k + r) = f + e
        BY <3>2, <3>3, SMTT(30)
      <3> QED
        BY <1>3, <3>1, <3>4
    <2> QED
      BY <1>1, <2>1, <2>2, NextBegins
  <1>5. /\ handled'[m].how = how /\ handled'[m].id = h.id /\ handled'[m].size = h.size
        /\ handled'[m].body = body
    <2>1. PICK y : y = [how |-> how, id |-> h.id, size |-> h.size, body |-> body]
      OBVIOUS
    <2>2. handled' = Append(handled, y) /\ handled \in Seq(Met)
      BY <1>1, <2>1 DEF Handle, PoolInv
    <2>3. handled'[m] = y
      BY <2>2
    <2> QED
      BY <2>1, <2>3
  <1>6. TooLarge(h) <=> e > PoolSize
    BY <1>1, <1>2, <1>3, HeaderFacts DEF Expected
  <1>7. CASE TooLarge(h)
    <2>1. how = "dropped"
      BY <1>1, <1>7
    <2> QED
      BY <1>2, <1>3, <1>4, <1>5, <1>6, <1>7, <2>1 DEF MetAsSent
  <1>8. CASE ~TooLarge(h)
    <2>1. how # "dropped" /\ body = SubSeq(pool', HeaderSize + 1, Len(pool'))
      BY <1>1, <1>8
    <2>2. pool' = Bytes(m, 0, e)
      <3>1. had + r <= sent[m].put
        BY <1>2, <1>3
      <3>2. Reads(m, had, k, r)
        BY <1>1, <3>1 DEF Reads
      <3>3. ReadInto(pool', Bytes(m, 0, had), k, r)
        BY <1>1, <1>8 DEF ReadInto
      <3>4. pool' = Bytes(m, 0, had + r)
        BY <1>1, <3>2, <3>3, JoinedIn
      <3> QED
        BY <1>3, <3>4
    <2>3. Len(Bytes(m, 0, e)) = e
      <3>1. 0 \in Nat /\ 0 <= e /\ e - 0 = e
        BY <1>2
      <3>2. Len(Bytes(m, 0, e)) = e - 0
        BY <1>2, <1>3, <3>1, BytesAre
      <3> QED
        BY <3>1, <3>2
    <2>4. SubSeq(Bytes(m, 0, e), HeaderSize + 1, e) = Bytes(m, HeaderSize, e)
      BY <1>2, <1>3, Constants, BytesPart
    <2>5. body = BodyOf(m)'
      BY <1>2, <1>3, <2>1, <2>2, <2>3, <2>4 DEF BodyOf
    <2>6. ~(e > PoolSize)
      BY <1>6, <1>8
    <2> QED
      BY <1>2, <1>3, <1>4, <1>5, <2>1, <2>5, <2>6 DEF MetAsSent
  <1> QED
    BY <1>7, <1>8

LEMMA BodyInStep ==
  ASSUME StreamInv, PoolInv, InStep, IntactUntilCut, UNCHANGED senderVars,
         NEW i \in Nat, i = Len(handled), NEW h, NEW had, NEW before, NEW k,
         BodyFinds(h, had, before, k), Body(h, had, before, k),
         WholeUpTo(i) => /\ i + 1 \in DOMAIN sent /\ Taken + k = sent[i + 1].from + had
                         /\ Fits(i + 1, h, had, before)
  PROVE  InStep' /\ IntactUntilCut'
  <1>0. PICK r \in Nat : \E how, body : BodyDoes(h, had, before, k, r, how, body)
    BY BodyIs
  <1>1. PICK how, body : BodyDoes(h, had, before, k, r, how, body)
    BY <1>0
  <1>2. /\ h \in Header /\ had \in Nat /\ HeaderSize <= had /\ k \in Nat
        /\ hdr' = h /\ had + r <= Expected(h) /\ k + r <= Len(stream) /\ stream' = Skip(k + r)
    BY <1>1 DEF BodyFinds, BodyDoes
  <1>3. PICK m \in Nat : m = i + 1
    OBVIOUS
  <1>4. k + r \in 0 .. Len(stream) /\ sent' = sent /\ Expected(h) \in Nat
    BY <1>2, StreamFacts, SameSent, HeaderFacts
  <1>5. Taken' = Taken + (k + r)
    BY <1>2, <1>4, SkipKeeps
  <1>6. ASSUME WholeUpTo(i)
        PROVE  /\ m \in DOMAIN sent /\ Fits(m, h, had, before)
               /\ Taken + k = sent[m].from + had
               /\ Taken + (k + r) = sent[m].from + (had + r)
               /\ sent[m].put \in Nat /\ sent[m].from \in Nat /\ sent[m].size \in Nat
    <2>1. m \in DOMAIN sent /\ Fits(m, h, had, before) /\ Taken + k = sent[m].from + had
      BY <1>3, <1>6
    <2>2. sent[m].put \in Nat /\ sent[m].from \in Nat /\ sent[m].size \in Nat /\ Taken \in Int
      BY <2>1, StreamFacts, MessageFacts
    <2>3. PICK t \in Int, f \in Nat : t = Taken /\ f = sent[m].from
      BY <2>2
    <2>4. t + k = f + had
      BY <2>1, <2>3
    <2>5. t + (k + r) = f + (had + r)
      BY <1>2, <2>4
    <2> QED
      BY <2>1, <2>2, <2>3, <2>5
  <1>7. ASSUME WholeUpTo(i), had + r > sent[m].put, ~Whole(m) PROVE m < Len(sent)
    <2>1. had + r \in Nat /\ k + r \in Nat
      BY <1>2
    <2> QED
      BY <1>2, <1>6, <1>7, <2>1, NotLast
  <1>8. CASE had + r = Expected(h)
    <2>1. Handle(how, h, body) /\ stored' = 0
      BY <1>1, <1>8 DEF BodyDoes
    <2>2. /\ Len(handled') = m /\ \A j \in 1 .. i : handled'[j] = handled[j]
          /\ \E S : handled' \in Seq(S)
      <3>1. PICK y : y = [how |-> how, id |-> h.id, size |-> h.size, body |-> body]
        OBVIOUS
      <3>2. handled' = Append(handled, y) /\ handled \in Seq(Met)
        BY <2>1, <3>1 DEF Handle, PoolInv
      <3>3. handled \in Seq(Met \cup {y})
        BY <3>2
      <3>4. handled' \in Seq(Met \cup {y})
        BY <3>2, <3>3
      <3> QED
        BY <1>3, <3>2, <3>4
    <2>3. ASSUME WholeUpTo(i), ~WholeUpTo(m) PROVE CutBy(m)
      <3>1. m \in DOMAIN sent /\ m \in 1 .. m
        BY <1>3, <1>6, <2>3
      <3>2. ~Whole(m)
        <4>1. \A j \in 1 .. m : j = m \/ j \in 1 .. i
          BY <1>3
        <4> QED
          BY <2>3, <3>1, <4>1 DEF WholeUpTo
      <3>3. m < Len(sent)
        <4>1. CASE had > sent[m].put
          BY <1>6, <2>3, <4>1 DEF Fits
        <4>2. CASE ~(had > sent[m].put)
          <5>1. h = HeaderOf(m)
            BY <1>6, <2>3, <4>2 DEF Fits
          <5>2. had + r = HeaderSize + sent[m].size
            BY <1>8, <5>1 DEF Expected, HeaderOf
          <5>3. sent[m].put <= HeaderSize + sent[m].size /\ sent[m].put # HeaderSize + sent[m].size
            BY <3>1, <3>2, StreamFacts DEF InRow, Whole
          <5>4. PICK p \in Nat, e \in Nat : p = sent[m].put /\ e = HeaderSize + sent[m].size
            BY <1>6, <2>3, Constants
          <5>5. had + r > p
            BY <5>2, <5>3, <5>4
          <5> QED
            BY <1>7, <2>3, <3>2, <5>4, <5>5
        <4> QED
          BY <4>1, <4>2
      <3> QED
        BY <3>1, <3>2, <3>3 DEF CutBy, CutAt
    <2>4. ASSUME WholeUpTo(m) PROVE MetAsSent(m)' /\ Behind(m)'
      <3>1. WholeUpTo(i) /\ Whole(m) /\ m \in DOMAIN sent
        <4>1. i \in 0 .. m /\ m \in 1 .. m
          BY <1>3
        <4> QED
          BY <2>4, <4>1, WholeFacts DEF WholeUpTo
      <3>2. Fits(m, h, had, before) /\ Taken + k = sent[m].from + had
        BY <1>6, <3>1
      <3>3. h = HeaderOf(m) /\ (~TooLarge(h) => before = Bytes(m, 0, had))
        BY <3>1, <3>2 DEF Fits
      <3> QED
        BY <1>1, <1>3, <1>8, <3>1, <3>2, <3>3, MeetsWhole
    <2> QED
      BY <1>3, <2>2, <2>3, <2>4, MeetsOne
  <1>9. CASE had + r # Expected(h)
    <2>1. stored' = had + r /\ UNCHANGED handled
      BY <1>1, <1>9 DEF BodyDoes
    <2>2. ASSUME WholeUpTo(i) PROVE Inside(m)'
      <3>1. /\ m \in DOMAIN sent /\ Fits(m, h, had, before)
            /\ Taken + k = sent[m].from + had
            /\ Taken + (k + r) = sent[m].from + (had + r)
            /\ sent[m].put \in Nat /\ sent[m].from \in Nat /\ sent[m].size \in Nat
        BY <1>6, <2>2
      <3>2. Taken' = sent'[m].from + stored'
        BY <1>4, <1>5, <2>1, <3>1
      <3>3. CASE stored' > sent[m].put
        <4>1. ~Whole(m)
          <5>1. CASE had > sent[m].put
            BY <3>1, <5>1 DEF Fits
          <5>2. CASE ~(had > sent[m].put)
            <6>1. h = HeaderOf(m)
              BY <3>1, <5>2 DEF Fits
            <6>2. Expected(h) = HeaderSize + sent[m].size
              BY <6>1 DEF Expected, HeaderOf
            <6>3. had + r < Expected(h)
              BY <1>2, <1>4, <1>9
            <6>4. PICK p \in Nat, x \in Nat : p = sent[m].put /\ x = Expected(h)
              BY <1>4, <3>1
            <6>5. p < x
              BY <1>2, <2>1, <3>3, <6>3, <6>4
            <6> QED
              BY <6>2, <6>4, <6>5 DEF Whole
          <5> QED
            BY <5>1, <5>2
        <4>2. m < Len(sent)
          BY <1>7, <2>1, <2>2, <3>3, <4>1
        <4> QED
          BY <1>4, <3>2, <3>3, <4>1, <4>2, SameSent DEF Inside
      <3>4. CASE ~(stored' > sent[m].put)
        <4>1. had + r <= sent[m].put /\ ~(had > sent[m].put) /\ ~(stored' < HeaderSize)
          BY <1>2, <2>1, <3>1, <3>4, Constants
        <4>2. h = HeaderOf(m) /\ (~TooLarge(h) => before = Bytes(m, 0, had))
          BY <3>1, <4>1 DEF Fits
        <4>3. ~TooLarge(h) => pool' = Bytes(m, 0, stored')
          <5>0. m \in DOMAIN sent
            BY <3>1
          <5>1. had \in Nat /\ k \in Nat /\ r \in Nat /\ k + r <= Len(stream)
            BY <1>1, <1>2
          <5>2. Taken + k = sent[m].from + had /\ had + r <= sent[m].put
            BY <3>1, <4>1
          <5>3. Reads(m, had, k, r)
            BY <5>0, <5>1, <5>2 DEF Reads
          <5>4. ASSUME ~TooLarge(h) PROVE pool' = Bytes(m, 0, had + r)
            <6>1. pool' = before \o SubSeq(stream, k + 1, k + r) /\ before = Bytes(m, 0, had)
              BY <1>1, <4>2, <5>4 DEF BodyDoes
            <6>2. ReadInto(pool', Bytes(m, 0, had), k, r)
              BY <6>1 DEF ReadInto
            <6> QED
              BY <5>1, <5>3, <6>2, JoinedIn
          <5> QED
            BY <2>1, <5>4
        <4>4. hdr' = HeaderOf(m)' /\ (~TooLarge(hdr') => pool' = Bytes(m, 0, stored'))
          BY <1>2, <4>2, <4>3, SameSent
        <4> QED
          BY <1>4, <3>2, <3>4, <4>1, <4>4 DEF Inside
      <3> QED
        BY <3>3, <3>4
    <2>3. WholeUpTo(i) => Behind(i)'
      <3>1. ASSUME WholeUpTo(i) PROVE i # Len(sent)
        <4>1. m \in 1 .. Len(sent)
          BY <1>6, <3>1, StreamFacts
        <4> QED
          BY <1>3, <4>1
      <3> QED
        BY <1>3, <1>4, <2>2, <3>1 DEF Behind
    <2> QED
      BY <2>1, <2>3, MeetsNone
  <1> QED
    BY <1>8, <1>9

(* A part of a header.                                                     *)
LEMMA HeaderInStep ==
  ASSUME StreamInv, PoolInv, InStep, IntactUntilCut, UpdateReadsHeader
  PROVE  InStep' /\ IntactUntilCut'
  <1>1. PICK r \in Recv(HeaderSize - stored, Len(stream)) \ {HeaderSize - stored} :
          /\ pool' = Collected \o SubSeq(stream, 1, r)
          /\ stream' = Skip(r)
          /\ stored' = stored + r
    BY DEF UpdateReadsHeader
  <1>2. /\ stored < HeaderSize /\ stored \in Nat /\ Len(stream) \in Nat
        /\ UNCHANGED senderVars /\ UNCHANGED handled /\ sent' = sent
    BY PoolFacts, StreamFacts, SameSent DEF UpdateReadsHeader
  <1>3. r \in Nat /\ r < HeaderSize - stored /\ r <= Len(stream)
    <2>1. HeaderSize - stored \in Nat
      BY <1>2, Constants
    <2>2. r \in Nat /\ r <= HeaderSize - stored /\ r <= Len(stream)
      BY <1>2, <2>1, RecvFacts
    <2> QED
      BY <2>1, <2>2
  <1>4. stored' \in Nat /\ stored' < HeaderSize
    BY <1>1, <1>2, <1>3, Constants
  <1>5. Taken' = Taken + r /\ Len(stream') = Len(stream) - r
    <2>1. r \in 0 .. Len(stream)
      BY <1>3, StreamFacts
    <2> QED
      BY <1>1, <1>2, <2>1, SkipKeeps
  <1>6. PICK i \in Nat : i = Len(handled)
    BY DEF PoolInv
  <1>7. ASSUME WholeUpTo(i) PROVE Behind(i)'
    <2>1. Behind(i) /\ i <= Len(sent)
      BY <1>6, <1>7, InStepIs, WholeFacts
    <2>2. CASE i = Len(sent)
      <3>1. stored = 0 /\ stream = << >>
        BY <2>1, <2>2 DEF Behind
      <3>2. r = 0 /\ stored' = 0
        BY <1>1, <1>3, <3>1
      <3>3. stream' = << >>
        BY <1>1, <3>1, <3>2 DEF Skip
      <3> QED
        BY <1>2, <2>2, <3>2, <3>3 DEF Behind
    <2>3. CASE i # Len(sent)
      <3>0. i + 1 \in DOMAIN sent
        <4>0. Len(sent) \in Nat /\ DOMAIN sent = 1 .. Len(sent)
          BY StreamFacts
        <4>1. PICK l \in Nat : l = Len(sent) /\ DOMAIN sent = 1 .. l
          BY <4>0
        <4>2. i <= l /\ i # l
          BY <2>1, <2>3, <4>1
        <4>3. i + 1 \in 1 .. l
          BY <4>2
        <4> QED
          BY <4>1, <4>3
      <3>1. PICK m \in DOMAIN sent : m = i + 1
        BY <3>0
      <3>2. Inside(m)
        BY <2>1, <2>3, <3>1 DEF Behind
      <3>3. /\ sent[m].put \in Nat /\ sent[m].from \in Nat /\ sent[m].size \in Nat
            /\ Taken \in Int
        BY StreamFacts, MessageFacts
      <3>4. Taken = sent[m].from + stored /\ Taken + r = sent[m].from + stored'
        <4>1. Taken = sent[m].from + stored
          BY <3>2 DEF Inside
        <4> QED
          BY <1>1, <1>2, <1>3, <3>3, <4>1
      <3>5. Taken' = sent'[m].from + stored'
        BY <1>2, <1>5, <3>4
      <3>6. CASE stored' > sent[m].put
        <4>1. m < Len(sent)
          BY <1>3, <1>4, <3>4, <3>6, NotLast
        <4>2. sent[m].put < HeaderSize + sent[m].size
          BY <1>4, <3>3, <3>6, Constants
        <4>3. ~Whole(m)
          BY <3>3, <4>2, Constants DEF Whole
        <4>4. Inside(m)'
          BY <1>2, <3>5, <3>6, <4>1, <4>3, SameSent DEF Inside
        <4> QED
          BY <1>2, <2>3, <3>1, <4>4 DEF Behind
      <3>7. CASE ~(stored' > sent[m].put)
        <4>1. stored + r <= sent[m].put /\ ~(stored > sent[m].put)
          BY <1>1, <1>2, <1>3, <3>3, <3>7
        <4>2. Collected = Bytes(m, 0, stored)
          BY <1>2, <3>2, <4>1 DEF Inside
        <4>3. /\ 0 \in Nat /\ 0 + r = r /\ 0 + 1 = 1 /\ 0 + r <= Len(stream) /\ r \in Nat
              /\ Taken + 0 = sent[m].from + stored /\ stored \in Nat
          BY <1>2, <1>3, <3>3, <3>4
        <4>4. Reads(m, stored, 0, r)
          BY <4>1, <4>3 DEF Reads
        <4>5. pool' = Bytes(m, 0, stored')
          <5>1. ReadInto(pool', Bytes(m, 0, stored), 0, r)
            BY <1>1, <4>2, <4>3 DEF ReadInto
          <5>2. pool' = Bytes(m, 0, stored + r)
            BY <4>3, <4>4, <5>1, JoinedIn
          <5> QED
            BY <1>1, <5>2
        <4>6. Collected' = Bytes(m, 0, stored')
          <5>1. stored' = 0 => Bytes(m, 0, stored') = << >>
            BY DEF Bytes
          <5> QED
            BY <4>5, <5>1 DEF Collected
        <4>7. Inside(m)'
          BY <1>2, <1>4, <3>5, <3>7, <4>6 DEF Inside
        <4> QED
          BY <1>2, <2>3, <3>1, <4>7 DEF Behind
      <3> QED
        BY <3>6, <3>7
    <2> QED
      BY <2>2, <2>3
  <1> QED
    BY <1>2, <1>6, <1>7, MeetsNone

LEMMA InsideNext ==
  ASSUME StreamInv, PoolInv, InStep, NEW i \in Nat, i = Len(handled), WholeUpTo(i),
         stream # << >> \/ stored # 0
  PROVE  i + 1 \in DOMAIN sent /\ Inside(i + 1)
  <1>1. Behind(i) /\ i <= Len(sent)
    BY InStepIs, WholeFacts
  <1>2. i # Len(sent) /\ Inside(i + 1)
    BY <1>1 DEF Behind
  <1>3. Len(sent) \in Nat /\ DOMAIN sent = 1 .. Len(sent)
    BY StreamFacts
  <1>4. PICK l \in Nat : l = Len(sent)
    BY <1>3
  <1>5. i + 1 \in 1 .. l
    BY <1>1, <1>2, <1>4
  <1> QED
    BY <1>2, <1>3, <1>4, <1>5

(* The rest of a header, and what follows it.                              *)
LEMMA EndsHeaderInStep ==
  ASSUME SizesFit, StreamInv, PoolInv, InStep, IntactUntilCut, UpdateEndsHeader
  PROVE  InStep' /\ IntactUntilCut'
  <1>1. PICK k, bytes : k = HeaderSize - stored /\ bytes = Collected \o SubSeq(stream, 1, k)
    OBVIOUS
  <1>2. /\ stored < HeaderSize /\ k <= Len(stream) /\ UNCHANGED senderVars
        /\ \E h \in Headers(bytes) : Body(h, HeaderSize, bytes, k)
    BY <1>1 DEF UpdateEndsHeader
  <1>3. PICK h \in Headers(bytes) : Body(h, HeaderSize, bytes, k)
    BY <1>2
  <1>4. BodyFinds(h, HeaderSize, bytes, k) /\ Len(bytes) = HeaderSize
    BY <1>1, <1>2, EndsHeaderFinds
  <1>5. PICK i \in Nat : i = Len(handled)
    BY DEF PoolInv
  <1>6. k \in Nat /\ k # 0 /\ k + stored = HeaderSize /\ stored \in Nat /\ stream # << >>
    BY <1>1, <1>2, PoolFacts, Constants
  <1>7. ASSUME WholeUpTo(i)
        PROVE  /\ i + 1 \in DOMAIN sent /\ Taken + k = sent[i + 1].from + HeaderSize
               /\ Fits(i + 1, h, HeaderSize, bytes)
    <2>1. i + 1 \in DOMAIN sent /\ Inside(i + 1)
      BY <1>5, <1>6, <1>7, InsideNext
    <2>2. PICK m \in DOMAIN sent : m = i + 1
      BY <2>1
    <2>3. /\ sent[m].put \in Nat /\ sent[m].from \in Nat /\ sent[m].size \in Nat
          /\ sent[m].size \in Sizes /\ Taken \in Int /\ m \in 1 .. MaxMessages
      BY StreamFacts, MessageFacts, Constants
    <2>4. Taken = sent[m].from + stored
      BY <2>1, <2>2 DEF Inside
    <2>5. Taken + k = sent[m].from + HeaderSize
      <3>1. PICK t \in Int, f \in Nat : t = Taken /\ f = sent[m].from
        BY <2>3
      <3>2. t + k = f + (k + stored)
        BY <1>6, <2>4, <3>1
      <3> QED
        BY <1>6, <3>1, <3>2
    <2>6. CASE HeaderSize > sent[m].put
      <3>1. m < Len(sent)
        BY <1>2, <1>6, <2>5, <2>6, Constants, NotLast
      <3>2. ~Whole(m)
        BY <2>3, <2>6, Constants DEF Whole
      <3> QED
        BY <2>2, <2>5, <2>6, <3>1, <3>2 DEF Fits
    <2>7. CASE ~(HeaderSize > sent[m].put)
      <3>1. /\ HeaderSize <= sent[m].put /\ ~(stored > sent[m].put)
            /\ stored + k <= sent[m].put /\ stored + k = HeaderSize
        BY <1>2, <1>6, <2>3, <2>7, Constants
      <3>2. Collected = Bytes(m, 0, stored)
        BY <1>2, <2>1, <2>2, <3>1 DEF Inside
      <3>3. /\ 0 \in Nat /\ 0 + k = k /\ 0 + 1 = 1 /\ 0 + k <= Len(stream)
            /\ Taken + 0 = sent[m].from + stored
        BY <1>2, <1>6, <2>3, <2>4
      <3>4. Reads(m, stored, 0, k)
        BY <1>6, <3>1, <3>3 DEF Reads
      <3>5. bytes = Bytes(m, 0, HeaderSize)
        <4>1. ReadInto(bytes, Bytes(m, 0, stored), 0, k)
          BY <1>1, <3>2, <3>3 DEF ReadInto
        <4>2. bytes = Bytes(m, 0, stored + k)
          BY <1>6, <3>3, <3>4, <4>1, JoinedIn
        <4> QED
          BY <3>1, <4>2
      <3>6. bytes[1].msg = m
        <4>1. /\ 0 \in Nat /\ 0 <= HeaderSize /\ HeaderSize \in Nat /\ 1 \in 1 .. HeaderSize - 0
          BY Constants
        <4>2. \A j \in 1 .. HeaderSize - 0 :
                Bytes(m, 0, HeaderSize)[j] = [msg |-> m, at |-> 0 + j - 1]
          BY <2>3, <4>1, BytesAre
        <4>3. Bytes(m, 0, HeaderSize)[1] = [msg |-> m, at |-> 0 + 1 - 1]
          BY <4>1, <4>2
        <4> QED
          BY <3>5, <4>3
      <3>7. h = [id |-> sent[m].id, size |-> sent[m].size % SizeMod]
        BY <3>5, <3>6 DEF Headers
      <3>8. sent[m].size % SizeMod = sent[m].size
        <4>1. sent[m].size < SizeMod
          BY <2>3 DEF SizesFit
        <4> QED
          BY <2>3, <4>1, Constants
      <3>9. h = HeaderOf(m)
        BY <3>7, <3>8 DEF HeaderOf
      <3> QED
        BY <2>2, <2>5, <2>7, <3>5, <3>9 DEF Fits
    <2> QED
      BY <2>6, <2>7
  <1> QED
    BY <1>2, <1>3, <1>4, <1>5, <1>7, BodyInStep

LEMMA ReadsBodyInStep ==
  ASSUME StreamInv, PoolInv, InStep, IntactUntilCut, UpdateReadsBody
  PROVE  InStep' /\ IntactUntilCut'
  <1>1. /\ stored >= HeaderSize /\ Body(hdr, stored, pool, 0) /\ UNCHANGED senderVars
    BY DEF UpdateReadsBody
  <1>2. BodyFinds(hdr, stored, pool, 0)
    BY <1>1, ReadsBodyFinds
  <1>3. PICK i \in Nat : i = Len(handled)
    BY DEF PoolInv
  <1>4. stored \in Nat /\ stored # 0 /\ ~(stored < HeaderSize)
    BY <1>1, PoolFacts, Constants
  <1>5. ASSUME WholeUpTo(i)
        PROVE  /\ i + 1 \in DOMAIN sent /\ Taken + 0 = sent[i + 1].from + stored
               /\ Fits(i + 1, hdr, stored, pool)
    <2>1. i + 1 \in DOMAIN sent /\ Inside(i + 1)
      BY <1>3, <1>4, <1>5, InsideNext
    <2>2. Taken = sent[i + 1].from + stored /\ Fits(i + 1, hdr, stored, pool)
      BY <1>4, <2>1 DEF Inside, Fits
    <2>3. Taken + 0 = Taken
      BY StreamFacts
    <2> QED
      BY <2>1, <2>2, <2>3
  <1> QED
    BY <1>1, <1>2, <1>3, <1>5, BodyInStep

StepInv == TypeInv /\ InStep /\ IntactUntilCut

LEMMA StepInvStep ==
  ASSUME SizesFit, StepInv, [Next]_vars
  PROVE  StepInv'
  <1>1. /\ StreamInv /\ PoolInv /\ InStep /\ IntactUntilCut /\ TypeInv'
    BY TypeStep DEF StepInv, TypeInv
  <1>2. CASE Grows
    BY <1>1, <1>2, GrowsKeeps DEF StepInv
  <1>3. ASSUME NEW id \in MsgIds, NEW size \in Sizes, MsgSend(id, size) PROVE StepInv'
    BY <1>1, <1>2, <1>3, SendGrows
  <1>4. ASSUME NEW late \in {FALSE, TimesOut}, SendSegment(late) PROVE StepInv'
    <2>1. late \in BOOLEAN
      BY TrafficAssumption
    <2> QED
      BY <1>1, <1>2, <1>4, <2>1, SegmentGrows
  <1>5. CASE SendGivesUp
    BY <1>1, <1>2, <1>5, SameGrows DEF SendGivesUp
  <1>6. ASSUME NEW id \in MsgIds, Subscribe(id) \/ Unsubscribe(id) PROVE StepInv'
    BY <1>1, <1>2, <1>6, SameGrows DEF Subscribe, Unsubscribe, senderVars
  <1>7. CASE UNCHANGED vars
    BY <1>1, <1>2, <1>7, SameGrows DEF vars, senderVars
  <1>8. CASE MsgUpdate
    BY <1>1, <1>8, HeaderInStep, EndsHeaderInStep, ReadsBodyInStep DEF MsgUpdate, StepInv
  <1> QED
    BY <1>3, <1>4, <1>5, <1>6, <1>7, <1>8 DEF Next

LEMMA StepInvInit == Init => StepInv
  <1> SUFFICES ASSUME Init PROVE StepInv
    OBVIOUS
  <1>1. TypeInv /\ handled = << >> /\ sent = << >> /\ stored = 0 /\ stream = << >>
    BY TypeInit DEF Init
  <1>2. Len(handled) = 0 /\ Len(sent) = 0 /\ DOMAIN handled = {}
    BY <1>1
  <1>3. InStep
    <2>1. \A n \in 0 .. Len(handled) : WholeUpTo(n) \/ CutBy(n)
      BY <1>2 DEF WholeUpTo
    <2>2. Behind(Len(handled))
      BY <1>1, <1>2 DEF Behind
    <2> QED
      BY <2>1, <2>2, InStepIs
  <1> QED
    BY <1>1, <1>2, <1>3 DEF StepInv, IntactUntilCut

LEMMA StepInvHolds ==
  ASSUME SizesFit
  PROVE  Spec => []StepInv
  <1>1. StepInv /\ [Next]_vars => StepInv'
    BY StepInvStep
  <1> QED
    BY <1>1, StepInvInit, PTL DEF Spec

(* The receiver stays in step with the messages: recv_pool_stored is the   *)
(* place it has reached in the next message, until a send was cut.         *)
THEOREM StaysInStep ==
  ASSUME SizesFit
  PROVE  Spec => []MessageInv
  <1>1. StepInv => MessageInv
    BY DEF StepInv, TypeInv, StreamInv, PoolInv, MessageInv
  <1> QED
    BY <1>1, StepInvHolds, PTL

(* mc_msg_update meets the messages one by one as they were sent, however  *)
(* the reads cut them, and drops one that is too large to its last byte    *)
(* and not one further, as long as every message fits the size in its      *)
(* header.                                                                 *)
THEOREM ArriveIntact ==
  ASSUME SizesFit
  PROVE  Spec => []IntactUntilCut
  <1>1. StepInv => IntactUntilCut
    BY DEF StepInv
  <1> QED
    BY <1>1, StepInvHolds, PTL
=============================================================================
