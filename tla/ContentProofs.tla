---------------------------- MODULE ContentProofs ----------------------------
(***************************************************************************)
(* The invariant of the contents of the link and what follows from it:     *)
(* the bytes that mc_comm_recv hands over, and that every step of Comm is  *)
(* a step of Stream, or none.                                              *)
(***************************************************************************)
EXTENDS LinkProofs, CommContent, SequenceTheorems

USE IdModAssumption, PayloadAssumption, CapAssumption, BoundAssumption, StoredAssumption

-----------------------------------------------------------------------------
(* The positions at which the packets of a log start.                      *)

LEMMA StartType ==
  ASSUME NEW L \in Seq(Content), NEW i \in 0 .. Len(L)
  PROVE  StartOf(L, i) \in Nat
  <1>1. CASE i = 0
    BY <1>1 DEF StartOf
  <1>2. CASE i # 0
    <2>1. L[i] \in Content
      BY <1>2
    <2> QED
      BY <1>2, <2>1 DEF StartOf, Content
  <1> QED
    BY <1>1, <1>2

(* The next packet starts where this one ends.                             *)
LEMMA StartNext ==
  ASSUME NEW L \in Seq(Content), Consecutive(L), NEW i \in 0 .. Len(L) - 1
  PROVE  /\ L[i + 1] \in Content /\ L[i + 1].from = StartOf(L, i)
         /\ L[i + 1].size \in 1 .. Payload
         /\ StartOf(L, i + 1) = StartOf(L, i) + L[i + 1].size
  <1>1. i + 1 \in DOMAIN L /\ i + 1 # 0 /\ (i + 1) - 1 = i
    OBVIOUS
  <1>2. L[i + 1] \in Content
    BY <1>1
  <1> QED
    BY <1>1, <1>2 DEF StartOf, Consecutive, Content

(* Packets have at least a byte and at most a payload.                     *)
LEMMA StartBounds ==
  ASSUME NEW L \in Seq(Content), Consecutive(L), NEW i \in 0 .. Len(L), NEW j \in i .. Len(L)
  PROVE  /\ StartOf(L, i) + (j - i) <= StartOf(L, j)
         /\ StartOf(L, j) <= StartOf(L, i) + (j - i) * Payload
  <1> DEFINE Bad == {k \in Nat : /\ i + k <= Len(L)
                                 /\ ~ /\ StartOf(L, i) + k <= StartOf(L, i + k)
                                      /\ StartOf(L, i + k) <= StartOf(L, i) + k * Payload}
  <1>1. ASSUME Bad # {} PROVE FALSE
    <2>1. PICK k \in Bad : \A m \in Bad : k <= m
      BY <1>1, LeastNatural
    <2>2. k \in Nat /\ i + k <= Len(L) /\ StartOf(L, i) \in Nat
      BY StartType
    <2>3. k # 0
      <3>1. 0 * Payload = 0 /\ i + 0 = i
        OBVIOUS
      <3> QED
        BY <2>1, <2>2, <3>1
    <2>4. PICK m \in Nat : m = k - 1
      BY <2>2, <2>3
    <2>5. m \notin Bad
      BY <2>1, <2>2, <2>4
    <2>6. i + m \in 0 .. Len(L) - 1 /\ i + k = (i + m) + 1
      BY <2>2, <2>4
    <2>7. StartOf(L, i) + m <= StartOf(L, i + m) /\ StartOf(L, i + m) <= StartOf(L, i) + m * Payload
      BY <2>5, <2>6
    <2>8. /\ StartOf(L, i + k) = StartOf(L, i + m) + L[(i + m) + 1].size
          /\ L[(i + m) + 1].size \in 1 .. Payload
      BY <2>6, StartNext
    <2>9. k * Payload = m * Payload + Payload /\ m * Payload \in Nat
      BY <2>2, <2>4
    <2>10. StartOf(L, i + m) \in Nat
      BY <2>6, StartType
    <2>11. /\ StartOf(L, i) + k <= StartOf(L, i + k)
           /\ StartOf(L, i + k) <= StartOf(L, i) + k * Payload
      BY <2>2, <2>4, <2>7, <2>8, <2>9, <2>10, SMTT(30)
    <2> QED
      BY <2>1, <2>11
  <1>2. PICK k \in Nat : k = j - i
    OBVIOUS
  <1>3. k \notin Bad
    <2> HIDE DEF Bad
    <2> QED
      BY <1>1
  <1>4. i + k = j /\ i + k <= Len(L)
    BY <1>2
  <1>5. StartOf(L, i) + k <= StartOf(L, i + k) /\ StartOf(L, i + k) <= StartOf(L, i) + k * Payload
    BY <1>3, <1>4
  <1> QED
    BY <1>2, <1>4, <1>5

(* One packet more.                                                        *)
LEMMA AppendFacts ==
  ASSUME NEW L \in Seq(Content), NEW c \in Content, NEW K, K = Append(L, c)
  PROVE  /\ K \in Seq(Content) /\ Len(K) = Len(L) + 1 /\ K[Len(L) + 1] = c
         /\ \A i \in 1 .. Len(L) : K[i] = L[i]
  OBVIOUS

LEMMA StartKept ==
  ASSUME NEW L \in Seq(Content), NEW K \in Seq(Content), \A i \in 1 .. Len(L) : K[i] = L[i]
  PROVE  \A i \in 0 .. Len(L) : StartOf(K, i) = StartOf(L, i)
  BY DEF StartOf

LEMMA ConsecutiveAppend ==
  ASSUME NEW L \in Seq(Content), Consecutive(L), NEW c \in Content, c.from = StartOf(L, Len(L)),
         NEW K, K = Append(L, c)
  PROVE  Consecutive(K)
  <1>1. /\ K \in Seq(Content) /\ Len(K) = Len(L) + 1 /\ K[Len(L) + 1] = c
        /\ \A i \in 1 .. Len(L) : K[i] = L[i]
    BY AppendFacts
  <1>2. \A i \in 0 .. Len(L) : StartOf(K, i) = StartOf(L, i)
    BY <1>1, StartKept
  <1> SUFFICES ASSUME NEW i \in DOMAIN K PROVE K[i].from = StartOf(K, i - 1)
    BY DEF Consecutive
  <1>3. CASE i = Len(L) + 1
    BY <1>1, <1>2, <1>3
  <1>4. CASE i # Len(L) + 1
    <2>1. i \in DOMAIN L /\ i - 1 \in 0 .. Len(L)
      BY <1>1, <1>4
    <2> QED
      BY <1>1, <1>2, <2>1 DEF Consecutive
  <1> QED
    BY <1>3, <1>4

-----------------------------------------------------------------------------
(* The contents of a pool.                                                 *)

LEMMA SpanType ==
  ASSUME NEW cap \in Nat \ {0}, NEW p \in Pool(cap)
  PROVE  Span(p) = p.bgn_id .. p.bgn_id + cap - 1 /\ \A id \in Span(p) : id \in Nat /\ id \in Int
  <1>1. p.bgn_id \in Nat /\ p.capacity = cap
    BY PoolFacts
  <1> QED
    BY <1>1 DEF Span

LEMMA NextFrameType ==
  ASSUME NEW N, NEW a, NextFrame(a, N)
  PROVE  a \in Seq(FullFrame) /\ \A f \in Range(a) : f \in FullFrame /\ (f.id = N \/ f.id + IdMod = N)
  <1>1. CASE a = << >>
    BY <1>1 DEF Range
  <1>2. ASSUME NEW f \in FullFrame, a = <<f>>, f.id = N \/ f.id + IdMod = N
        PROVE  /\ a \in Seq(FullFrame)
               /\ \A g \in Range(a) : g \in FullFrame /\ (g.id = N \/ g.id + IdMod = N)
    <2>1. \A g \in Range(a) : g = f
      BY <1>2 DEF Range
    <2> QED
      BY <1>2, <2>1
  <1> QED
    BY <1>1, <1>2 DEF NextFrame

(* K goes on where L ends.                                                 *)
Extends(K, L) ==
  /\ K \in Seq(Content) /\ Consecutive(K) /\ Len(L) <= Len(K)
  /\ \A i \in 1 .. Len(L) : K[i] = L[i]
  /\ \A i \in 0 .. Len(L) : StartOf(K, i) = StartOf(L, i)

LEMMA ExtendsSame ==
  ASSUME NEW L \in Seq(Content), Consecutive(L) PROVE Extends(L, L)
  BY DEF Extends

LEMMA ExtendsAppend ==
  ASSUME NEW L \in Seq(Content), Consecutive(L), NEW c \in Content, c.from = StartOf(L, Len(L))
  PROVE  Extends(Append(L, c), L)
  <1>1. PICK K : K = Append(L, c)
    OBVIOUS
  <1>2. /\ K \in Seq(Content) /\ Len(K) = Len(L) + 1 /\ Consecutive(K)
        /\ \A i \in 1 .. Len(L) : K[i] = L[i]
        /\ \A i \in 0 .. Len(L) : StartOf(K, i) = StartOf(L, i)
    <2>1. K \in Seq(Content) /\ Len(K) = Len(L) + 1 /\ \A i \in 1 .. Len(L) : K[i] = L[i]
      BY <1>1, AppendFacts
    <2>2. \A i \in 0 .. Len(L) : StartOf(K, i) = StartOf(L, i)
      BY <2>1, StartKept
    <2>3. Consecutive(K)
      BY <1>1, ConsecutiveAppend
    <2> QED
      BY <2>1, <2>2, <2>3
  <1> QED
    BY <1>1, <1>2 DEF Extends

LEMMA ExtendsMore ==
  ASSUME NEW L \in Seq(Content), NEW K, NEW J, Extends(K, L), Extends(J, K)
  PROVE  Extends(J, L)
  <1>1. /\ Len(L) <= Len(K) /\ Len(K) <= Len(J) /\ Len(L) \in Nat /\ Len(K) \in Nat
        /\ Len(J) \in Nat /\ J \in Seq(Content) /\ Consecutive(J)
    BY DEF Extends
  <1>2. \A i \in 1 .. Len(L) : i \in 1 .. Len(K) /\ J[i] = L[i]
    BY <1>1 DEF Extends
  <1>3. \A i \in 0 .. Len(L) : i \in 0 .. Len(K) /\ StartOf(J, i) = StartOf(L, i)
    BY <1>1 DEF Extends
  <1> QED
    BY <1>1, <1>2, <1>3 DEF Extends

(* A frame with the content logged for its id, or with an id that was      *)
(* stamped again since.                                                    *)
Carries(f, L) == ContentOf(f) = L[f.id + 1] \/ f.id + IdMod < Len(L)

LEMMA CarriesMore ==
  ASSUME NEW L \in Seq(Content), NEW K, Extends(K, L), NEW f, f.id \in Nat, f.id < Len(L),
         Carries(f, L)
  PROVE  Carries(f, K)
  <1>1. Len(L) \in Nat /\ Len(K) \in Nat /\ Len(L) <= Len(K) /\ f.id + 1 \in 1 .. Len(L)
    BY DEF Extends
  <1>2. K[f.id + 1] = L[f.id + 1]
    BY <1>1 DEF Extends
  <1>3. f.id + IdMod < Len(L) => f.id + IdMod < Len(K)
    BY <1>1
  <1> QED
    BY <1>2, <1>3 DEF Carries

(* A pool that gave up packets still holds the rest of the stream.         *)
LEMMA KeptContent ==
  ASSUME NEW s, NEW q, NEW L, NEW a, SndContent(s, L, a), KeepsContent(s, q, Len(L)),
         q.bgn_id <= q.end_id => s.bgn_id <= s.end_id
  PROVE  SndContent(q, L, a)
  BY DEF SndContent, KeepsContent

(* The log after the frames of `sent' were stamped.                        *)
Logged(L, sent) == L \o [i \in DOMAIN sent |-> ContentOf(sent[i])]

LEMMA LoggedNone ==
  ASSUME NEW L \in Seq(Content) PROVE Logged(L, << >>) = L
  <1>1. [i \in DOMAIN << >> |-> ContentOf(<< >>[i])] = << >>
    OBVIOUS
  <1> QED
    BY <1>1 DEF Logged

LEMMA FrameContent ==
  ASSUME NEW f \in FullFrame PROVE ContentOf(f) \in Content
  BY DEF FullFrame, ContentOf, Content

LEMMA LoggedOne ==
  ASSUME NEW L \in Seq(Content), NEW f \in FullFrame
  PROVE  Logged(L, <<f>>) = Append(L, ContentOf(f))
  <1>1. [i \in DOMAIN <<f>> |-> ContentOf(<<f>>[i])] = <<ContentOf(f)>>
    OBVIOUS
  <1>2. ContentOf(f) \in Content
    BY FrameContent
  <1> QED
    BY <1>1, <1>2 DEF Logged

LEMMA LoggedTwo ==
  ASSUME NEW L \in Seq(Content), NEW N, NEW M, NEW a, NEW b, NextFrame(a, N), NextFrame(b, M)
  PROVE  Logged(L, a \o b) = Logged(Logged(L, a), b)
  <1>1. CASE a = << >>
    <2>1. a \o b = b
      BY <1>1 DEF NextFrame
    <2> QED
      BY <1>1, <2>1, LoggedNone
  <1>2. ASSUME NEW f \in FullFrame, a = <<f>>, b = << >>
        PROVE  Logged(L, a \o b) = Logged(Logged(L, a), b)
    <2>1. a \o b = a
      <3>1. a \in Seq(FullFrame)
        BY <1>2
      <3> QED
        BY <1>2, <3>1
    <2>2. Logged(L, a) \in Seq(Content)
      BY <1>2, LoggedOne, FrameContent
    <2> QED
      BY <1>2, <2>1, <2>2, LoggedNone
  <1>3. ASSUME NEW f \in FullFrame, NEW g \in FullFrame, a = <<f>>, b = <<g>>
        PROVE  Logged(L, a \o b) = Logged(Logged(L, a), b)
    <2>1. a \o b = <<f, g>>
      <3>1. a \in Seq(FullFrame) /\ b \in Seq(FullFrame) /\ Len(a) = 1 /\ Len(b) = 1
        BY <1>3
      <3>2. PICK c : c = a \o b
        OBVIOUS
      <3>3. c \in Seq(FullFrame) /\ Len(c) = 2 /\ c[1] = a[1] /\ c[2] = b[1]
        <4>1. /\ c \in Seq(FullFrame) /\ Len(c) = 2
              /\ \A i \in 1 .. 2 : c[i] = IF i <= 1 THEN a[i] ELSE b[i - 1]
          <5>1. /\ c \in Seq(FullFrame) /\ Len(c) = Len(a) + Len(b)
                /\ \A i \in 1 .. Len(a) + Len(b) : c[i] = IF i <= Len(a) THEN a[i] ELSE b[i - Len(a)]
            BY <3>1, <3>2, ConcatProperties, Zenon
          <5> QED
            BY <3>1, <5>1
        <4> QED
          BY <4>1
      <3>4. PICK d : d = <<f, g>>
        OBVIOUS
      <3>5. d \in Seq(FullFrame) /\ Len(d) = 2 /\ d[1] = f /\ d[2] = g
        BY <3>4
      <3>6. \A i \in 1 .. 2 : c[i] = d[i]
        BY <1>3, <3>3, <3>5
      <3>7. c = d
        BY <3>3, <3>5, <3>6, SeqEqual
      <3> QED
        BY <3>2, <3>4, <3>7
    <2>2. ContentOf(f) \in Content /\ ContentOf(g) \in Content
      BY FrameContent
    <2>3. [i \in DOMAIN <<f, g>> |-> ContentOf(<<f, g>>[i])] = <<ContentOf(f), ContentOf(g)>>
      OBVIOUS
    <2>4. Logged(L, <<f, g>>) = Append(Append(L, ContentOf(f)), ContentOf(g))
      BY <2>2, <2>3 DEF Logged
    <2>5. /\ Logged(L, a) = Append(L, ContentOf(f)) /\ Logged(L, a) \in Seq(Content)
          /\ Logged(Logged(L, a), b) = Append(Logged(L, a), ContentOf(g))
      <3>1. Logged(L, a) = Append(L, ContentOf(f))
        BY <1>3, LoggedOne
      <3>2. Logged(L, a) \in Seq(Content)
        BY <2>2, <3>1
      <3> QED
        BY <1>3, <3>1, <3>2, LoggedOne
    <2> QED
      BY <2>1, <2>4, <2>5
  <1> QED
    BY <1>1, <1>2, <1>3 DEF NextFrame

(* What wndpool_write, or a pass of its loop, does to the contents.        *)
WriteLogged(L, pos, res) ==
  LET K == Logged(L, res.sent)
  IN  /\ Extends(K, L)
      /\ Len(K) = Len(L) + Len(res.sent)
      /\ SndContent(res.pool, K, pos + res.taken)
      /\ \A f \in Range(res.sent) : Carries(f, K)

LEMMA WriteSegContent ==
  ASSUME NEW cap \in Nat \ {0}, NEW s \in Pool(cap), NEW L \in Seq(Content), Consecutive(L),
         NEW N \in Nat, N = Len(L), NEW pos \in Nat, NEW n \in Nat, NEW res,
         AfterSeg(cap, s, N, pos, n, res), SndContent(s, L, pos)
  PROVE  WriteLogged(L, pos, res)
  <1>0. PICK K : K = Logged(L, res.sent)
    OBVIOUS
  <1>1. PICK q, sent, taken : q = res.pool /\ sent = res.sent /\ taken = res.taken
    OBVIOUS
  <1>2. PICK all : all = [from |-> IF Pending(s) = 0 THEN pos ELSE Last(s).from,
                          size |-> Pending(s) + taken]
    OBVIOUS
  <1>3. /\ taken \in Nat /\ NextFrame(sent, N)
        /\ Span(q) = Span(s) /\ N \in Span(s)
        /\ q.bgn_id <= q.end_id =>
             /\ s.bgn_id <= s.end_id
             /\ \A id \in Span(s) : id < N => ContentOf(Slot(q, id)) = ContentOf(Slot(s, id))
             /\ sent # << >> => ContentOf(Slot(q, N)) = all
        /\ sent = << >> => Pending(q) = all.size /\ Last(q).from = all.from
        /\ sent # << >> => Pending(q) = 0 /\ ContentOf(sent[1]) = all
    <2>1. SegContent(s, N, pos, res) /\ taken \in Nat /\ NextFrame(sent, N)
      BY <1>1 DEF AfterSeg
    <2> QED
      BY <1>1, <1>2, <2>1 DEF SegContent
  <1>4. /\ StartOf(L, N) \in Nat /\ Pending(s) \in Nat /\ pos = StartOf(L, N) + Pending(s)
        /\ all.from = StartOf(L, N) /\ all.size = Pending(s) + taken
        /\ all = [from |-> all.from, size |-> all.size]
    <2>1. StartOf(L, N) \in Nat
      BY StartType
    <2>2. Pending(s) \in Nat
      BY LastType DEF Pending, Window
    <2>3. pos = StartOf(L, N) + Pending(s) /\ (Pending(s) # 0 => Last(s).from = StartOf(L, N))
      BY DEF SndContent
    <2> QED
      BY <1>2, <2>1, <2>2, <2>3
  <1>5. /\ \A id \in Span(s) : id \in Nat
        /\ q.bgn_id <= q.end_id =>
             \A id \in Span(s) : id < N => ContentOf(Slot(q, id)) = L[id + 1]
    <2>1. \A id \in Span(s) : id \in Nat
      BY SpanType
    <2> QED
      BY <1>3, <2>1 DEF SndContent
  <1>6. CASE sent = << >>
    <2>1. K = L
      BY <1>0, <1>1, <1>6, LoggedNone
    <2>2. SndContent(q, K, pos + taken)
      BY <1>3, <1>4, <1>5, <1>6, <2>1 DEF SndContent
    <2>3. Len(sent) = 0 /\ Range(sent) = {}
      BY <1>6 DEF Range
    <2> QED
      BY <1>0, <1>1, <2>1, <2>2, <2>3, ExtendsSame DEF WriteLogged
  <1>7. ASSUME NEW f \in FullFrame, sent = <<f>>, f.id = N \/ f.id + IdMod = N
        PROVE  /\ Extends(K, L) /\ Len(K) = N + Len(sent)
               /\ SndContent(q, K, pos + taken)
               /\ \A g \in Range(sent) : Carries(g, K)
    <2>1. /\ ContentOf(f) = all /\ all \in Content /\ Pending(q) = 0
          /\ q.bgn_id <= q.end_id => ContentOf(Slot(q, N)) = all
      <3>1. sent # << >> /\ sent[1] = f /\ ContentOf(f) \in Content
        BY <1>7, FrameContent
      <3> QED
        BY <1>3, <3>1
    <2>2. K = Append(L, all)
      BY <1>0, <1>1, <1>7, <2>1, LoggedOne
    <2>3. /\ K \in Seq(Content) /\ Len(K) = N + 1 /\ K[N + 1] = all
          /\ \A i \in 1 .. N : K[i] = L[i]
      BY <2>1, <2>2, AppendFacts
    <2>4. Extends(K, L)
      BY <1>4, <2>1, <2>2, ExtendsAppend
    <2>5. StartOf(K, N + 1) = pos + taken
      <3>1. StartOf(K, N + 1) = all.from + all.size
        BY <2>3 DEF StartOf
      <3> QED
        BY <1>3, <1>4, <3>1
    <2>6. ASSUME q.bgn_id <= q.end_id, NEW id \in Span(q), id < N + 1
          PROVE  ContentOf(Slot(q, id)) = K[id + 1]
      <3>1. CASE id = N
        BY <2>1, <2>3, <2>6, <3>1
      <3>2. CASE id # N
        <4>1. id \in Span(s) /\ id \in Nat
          BY <1>3, <1>5
        <4>2. id < N /\ id + 1 \in 1 .. N
          BY <2>6, <3>2, <4>1
        <4>3. ContentOf(Slot(q, id)) = L[id + 1]
          BY <1>5, <2>6, <4>1, <4>2
        <4> QED
          BY <2>3, <4>2, <4>3
      <3> QED
        BY <3>1, <3>2
    <2>7. SndContent(q, K, pos + taken)
      <3>1. pos + taken = StartOf(K, Len(K)) + Pending(q)
        BY <1>3, <1>4, <2>1, <2>3, <2>5
      <3>2. q.bgn_id <= q.end_id =>
              \A id \in Span(q) : id < Len(K) => ContentOf(Slot(q, id)) = K[id + 1]
        BY <2>3, <2>6
      <3> QED
        BY <2>1, <3>1, <3>2 DEF SndContent
    <2>8. Len(sent) = 1 /\ \A g \in Range(sent) : g = f
      BY <1>7 DEF Range
    <2>9. Carries(f, K)
      BY <1>7, <2>1, <2>3 DEF Carries
    <2> QED
      BY <1>7, <2>3, <2>4, <2>7, <2>8, <2>9
  <1> QED
    BY <1>0, <1>1, <1>3, <1>6, <1>7 DEF NextFrame, WriteLogged

(* wndpool_write takes every byte mc_comm_send passes, once it takes one,  *)
(* and puts each into its place.                                           *)
LEMMA WriteContent ==
  ASSUME NEW cap \in Nat \ {0}, cap <= IdMod, NEW s \in Pool(cap), NEW L \in Seq(Content),
         Consecutive(L), NEW N \in Nat, N = Len(L), SenderInv(s, N), NEW pos \in Nat,
         SndContent(s, L, pos), NEW n \in 0 .. Payload, CanWrite(s),
         NEW res, res = Write(s, pos, n)
  PROVE  res.taken = n /\ WriteLogged(L, pos, res)
  <1> DEFINE one == WriteSeg(s, pos, n)
  <1>8. PICK K : K = Logged(L, res.sent)
    OBVIOUS
  <1>0. n \in Nat /\ ~Last(s).is_sent
    BY DEF CanWrite
  <1>1. AfterSeg(cap, s, N, pos, n, one)
    BY <1>0, WriteSegInv
  <1> HIDE DEF one
  <1>2. PICK p, sent1, taken1 : p = one.pool /\ sent1 = one.sent /\ taken1 = one.taken
    OBVIOUS
  <1>3. PICK N1 \in {N, N + 1} :
          /\ N1 = N + Len(sent1) /\ p \in Pool(cap) /\ taken1 \in 0 .. n /\ SenderInv(p, N1)
          /\ ~Last(p).is_sent
          /\ NextFrame(sent1, N)
          /\ SegContent(s, N, pos, one)
          /\ Pending(s) = 0 /\ n <= Payload => taken1 = n
          /\ CanWrite(s) /\ Pending(s) # 0 /\ taken1 # n => sent1 # << >>
    BY <1>1, <1>2 DEF AfterSeg
  <1>4. PICK K1 : K1 = Logged(L, sent1)
    OBVIOUS
  <1>5. /\ Extends(K1, L) /\ Len(K1) = N1 /\ SndContent(p, K1, pos + taken1)
        /\ \A f \in Range(sent1) : Carries(f, K1)
    <2>1. /\ N1 = N + Len(one.sent) /\ K1 = Logged(L, one.sent)
      BY <1>2, <1>3, <1>4
    <2>2. /\ Extends(K1, L) /\ Len(K1) = N + Len(one.sent)
          /\ SndContent(one.pool, K1, pos + one.taken)
          /\ \A f \in Range(one.sent) : Carries(f, K1)
      <3>1. WriteLogged(L, pos, one)
        BY <1>0, <1>1, WriteSegContent
      <3> QED
        BY <2>1, <3>1 DEF WriteLogged
    <2> QED
      BY <1>2, <2>1, <2>2
  <1>6. CASE taken1 = n
    <2>1. res = one
      BY <1>2, <1>6 DEF Write, one
    <2>2. WriteLogged(L, pos, one)
      BY <1>0, <1>1, WriteSegContent
    <2> QED
      BY <1>2, <1>6, <2>1, <2>2
  <1>7. CASE taken1 # n
    <2>1. PICK pos2, n2, w : pos2 = pos + taken1 /\ n2 = n - taken1 /\ w = WriteSeg(p, pos2, n2)
      OBVIOUS
    <2>2. N1 \in Nat /\ pos2 \in Nat /\ n2 \in Nat /\ n2 <= Payload /\ Pending(p) = 0
      <3>1. Pending(p) = 0
        BY <1>2, <1>3, <1>7 DEF SegContent
      <3> QED
        BY <1>3, <2>1, <3>1
    <2>3. AfterSeg(cap, p, N1, pos2, n2, w)
      BY <1>3, <2>1, <2>2, WriteSegInv
    <2>4. PICK sent2, taken2 : sent2 = w.sent /\ taken2 = w.taken
      OBVIOUS
    <2>5. taken2 = n2 /\ NextFrame(sent2, N1)
      BY <2>2, <2>3, <2>4 DEF AfterSeg
    <2>6. res = [pool |-> w.pool, taken |-> taken1 + taken2, sent |-> sent1 \o sent2]
      BY <1>2, <1>7, <2>1, <2>4 DEF Write, one
    <2>7. PICK q, sent : q = w.pool /\ sent = sent1 \o sent2
      OBVIOUS
    <2>8. res.taken = n /\ res.pool = q /\ res.sent = sent
      BY <1>3, <2>1, <2>5, <2>6, <2>7
    <2>9. K = Logged(K1, sent2)
      BY <1>3, <1>4, <1>8, <2>5, <2>7, <2>8, LoggedTwo
    <2>10. /\ Extends(K, K1) /\ SndContent(q, K, pos2 + taken2)
           /\ \A f \in Range(sent2) : Carries(f, K)
      <3>1. K1 \in Seq(Content) /\ Consecutive(K1)
        BY <1>5 DEF Extends
      <3> QED
        <4>1. /\ p \in Pool(cap) /\ N1 = Len(K1) /\ K = Logged(K1, w.sent)
              /\ SndContent(p, K1, pos2)
          BY <1>3, <1>5, <2>1, <2>4, <2>9
        <4>2. /\ Extends(K, K1) /\ SndContent(w.pool, K, pos2 + w.taken)
              /\ \A f \in Range(w.sent) : Carries(f, K)
          <5>1. WriteLogged(K1, pos2, w)
            BY <2>2, <2>3, <3>1, <4>1, WriteSegContent
          <5> QED
            BY <4>1, <5>1 DEF WriteLogged
        <4> QED
          BY <2>4, <2>7, <4>2
    <2>11. Extends(K, L)
      BY <1>5, <2>10, ExtendsMore
    <2>12. SndContent(q, K, pos + n)
      <3>1. pos2 + taken2 = pos + n
        BY <1>3, <2>1, <2>5
      <3> QED
        BY <2>10, <3>1
    <2>13. \A f \in Range(sent) : Carries(f, K)
      <3>1. Range(sent) \subseteq Range(sent1) \cup Range(sent2)
        <4>1. sent1 \in Seq(FullFrame) /\ sent2 \in Seq(FullFrame)
          BY <1>3, <2>5, NextFrameType
        <4> QED
          BY <2>7, <4>1, SMTT(30) DEF Range
      <3>2. \A f \in Range(sent1) : f.id \in Nat /\ f.id < Len(K1)
        <4>1. \A f \in Range(sent1) : f.id < N1 /\ f.id \in Int
          BY <1>3, <2>2, NextFrameFacts
        <4>2. \A f \in Range(sent1) : f \in FullFrame
          BY <1>3, NextFrameType
        <4>3. \A f \in Range(sent1) : f.id >= 0
          BY <4>2 DEF FullFrame, Ids
        <4> QED
          BY <1>5, <4>1, <4>3
      <3>3. \A f \in Range(sent1) : Carries(f, K)
        <4>1. K1 \in Seq(Content)
          BY <1>5 DEF Extends
        <4> QED
          BY <1>5, <2>10, <3>2, <4>1, CarriesMore
      <3> QED
        BY <2>10, <3>1, <3>3
    <2>14. Len(K) = Len(L) + Len(res.sent)
      <3>1. Len(K) = N1 + Len(sent2)
        <4>1. K1 \in Seq(Content) /\ Consecutive(K1) /\ N1 = Len(K1) /\ SndContent(p, K1, pos2)
          BY <1>5, <2>1 DEF Extends
        <4>2. WriteLogged(K1, pos2, w)
          BY <1>3, <2>2, <2>3, <4>1, WriteSegContent
        <4> QED
          BY <2>4, <2>9, <4>1, <4>2 DEF WriteLogged
      <3>2. Len(sent) = Len(sent1) + Len(sent2) /\ Len(sent1) \in Nat /\ Len(sent2) \in Nat
        <4>1. sent1 \in Seq(FullFrame) /\ sent2 \in Seq(FullFrame)
          BY <1>3, <2>5, NextFrameType
        <4> QED
          BY <2>7, <4>1
      <3> QED
        BY <1>3, <2>8, <3>1, <3>2
    <2> QED
      BY <1>8, <2>8, <2>11, <2>12, <2>13, <2>14 DEF WriteLogged
  <1> QED
    BY <1>6, <1>7

(* The log after an update: it has the incomplete window once that was     *)
(* stamped.                                                                *)
LogAfter(x, L, stale) ==
  IF Stamps(x, stale) /\ ~Last(x).is_sent THEN Append(L, ContentOf(Last(Stamp(x)))) ELSE L

(* The packets that an update sends carry what was logged for their ids.   *)
LEMMA ResendContent ==
  ASSUME NEW x \in Pool(SndCap), NEW L \in Seq(Content), Consecutive(L),
         NEW N \in Nat, N = Len(L), SenderInv(x, N), NEW a, SndContent(x, L, a),
         NEW stale \in BOOLEAN, NEW due,
         NEW K, K = LogAfter(x, L, stale)
  PROVE  /\ Extends(K, L)
         /\ SndContent(AfterStale(x, stale), K, a)
         /\ \A g \in Resent(x, due) \cup StaleFrame(x, stale) : Carries(g, K)
  <1>1. /\ x.bgn_id \in Nat /\ x.end_id \in Nat
        /\ Span(x) = x.bgn_id .. x.bgn_id + SndCap - 1
        /\ x.bgn_id <= x.end_id \/ x.end_id < x.bgn_id
    <2>1. x.bgn_id \in Nat /\ x.end_id \in Nat
      BY PoolFacts
    <2> QED
      BY <2>1, SpanType
  <1>2. ASSUME x.bgn_id <= x.end_id
        PROVE  /\ SndInv(x, N) /\ x.end_id <= N /\ x.end_id < x.bgn_id + SndCap
               /\ x.end_id \in Span(x) /\ Last(x) = Slot(x, x.end_id)
               /\ \A id \in Span(x) : id < N => ContentOf(Slot(x, id)) = L[id + 1]
    <2>1. SndInv(x, N)
      BY <1>2, RingsFit, SenderBounds
    <2> QED
      BY <1>2, <2>1, RingFacts, PendingSlot DEF SndInv, SndContent
  <1>3. ASSUME NEW g \in Resent(x, due) PROVE g.id \in Nat /\ g.id < N /\ Carries(g, L)
    <2>1. PICK id \in x.bgn_id .. x.end_id - 1 : g = DataFrame(Get(x, id))
      BY DEF Resent, Unacked
    <2>2. /\ id \in Span(x) /\ id < N /\ id \in Nat /\ id < IdMod /\ x.bgn_id <= id
          /\ SndInv(x, N) /\ ContentOf(Slot(x, id)) = L[id + 1]
      <3>1. x.bgn_id <= x.end_id /\ x.end_id < IdMod
        <4>1. x.end_id \in Ids
          BY PoolFacts
        <4> QED
          BY <1>1, <4>1 DEF Ids
      <3>2. id \in Span(x) /\ id < N /\ id \in Nat /\ id < IdMod /\ x.bgn_id <= id
        BY <1>1, <1>2, <3>1
      <3> QED
        BY <1>2, <3>1, <3>2
    <2>3. Get(x, id) = Slot(x, id)
      BY <2>2, IndexSlot
    <2>4. Slot(x, id).id = id
      BY <2>2 DEF SndInv, SndRing
    <2>5. g.id = id /\ ContentOf(g) = ContentOf(Slot(x, id))
      BY <2>1, <2>3, <2>4 DEF DataFrame, ContentOf
    <2> QED
      BY <2>2, <2>5 DEF Carries
  <1>4. CASE ~Stamps(x, stale)
    <2>1. AfterStale(x, stale) = x /\ StaleFrame(x, stale) = {} /\ K = L
      BY <1>4 DEF AfterStale, StaleFrame, LogAfter
    <2> QED
      BY <1>3, <2>1, ExtendsSame
  <1>5. CASE Stamps(x, stale) /\ Last(x).is_sent
    <2>1. /\ AfterStale(x, stale) = x /\ K = L
          /\ StaleFrame(x, stale) = {DataFrame(Last(x))}
      BY <1>5 DEF AfterStale, StaleFrame, Stamp, LogAfter
    <2>2. /\ Last(x).id = x.end_id
          /\ \/ x.bgn_id <= x.end_id /\ x.end_id < N
             \/ x.end_id < x.bgn_id /\ x.end_id + IdMod < N
      <3>1. PICK i : i = Filling(x, N)
        OBVIOUS
      <3>2. /\ Last(x).id = x.end_id
            /\ \/ x.bgn_id <= x.end_id /\ i = x.end_id
               \/ x.end_id < x.bgn_id /\ i = x.end_id + IdMod
        BY <1>5, <3>1, RingsFit, FillingFacts
      <3>3. i = N - 1
        BY <1>5, <3>1 DEF Filling
      <3> QED
        BY <1>1, <3>2, <3>3
    <2>3. PICK g : g = DataFrame(Last(x))
      OBVIOUS
    <2>5. g.id = x.end_id /\ ContentOf(g) = ContentOf(Last(x))
      BY <2>2, <2>3 DEF DataFrame, ContentOf
    <2>4. Carries(g, L)
      BY <1>2, <2>2, <2>5 DEF Carries
    <2> QED
      BY <1>3, <2>1, <2>3, <2>4, ExtendsSame
  <1>6. CASE Stamps(x, stale) /\ ~Last(x).is_sent
    <2>1. PICK q : q = UpdateHeader(x)
      OBVIOUS
    <2>2. PICK c : c = ContentOf(Last(q))
      OBVIOUS
    <2>3. /\ AfterStale(x, stale) = q /\ K = Append(L, c)
          /\ StaleFrame(x, stale) = {DataFrame(Last(q))}
          /\ c \in Content
      <3>1. Stamp(x) = q
        BY <1>6, <2>1 DEF Stamp
      <3> QED
        BY <1>6, <2>2, <3>1, UpdateFramesType DEF AfterStale, StaleFrame, LogAfter
    <2>4. /\ q \in Pool(SndCap) /\ q.end_id = x.end_id /\ q.bgn_id = x.bgn_id
          /\ Pending(q) = 0 /\ Last(q).id = x.end_id
          /\ N = x.end_id \/ N = x.end_id + IdMod
          /\ Span(q) = Span(x) /\ N \in Span(x)
          /\ ContentOf(Last(q)) = ContentOf(Last(x))
          /\ x.bgn_id <= x.end_id =>
               /\ N = x.end_id
               /\ \A j \in Span(x) : ContentOf(Slot(q, j)) = ContentOf(Slot(x, j))
      BY <1>6, <2>1, RingsFit, StampInv
    <2>5. /\ Pending(x) = Last(x).size /\ Last(x).size > 0
          /\ c.from = Last(x).from /\ c.size = Last(x).size
      BY <1>6, <2>2, <2>4 DEF Pending, Stamps, HasIncomplete, ContentOf
    <2>6. /\ StartOf(L, N) \in Nat /\ Pending(x) \in Nat
          /\ c.from = StartOf(L, N) /\ a = StartOf(L, N) + Pending(x)
      <3>1. StartOf(L, N) \in Nat /\ Pending(x) \in Nat
        BY StartType, LastType DEF Pending, Window
      <3> QED
        BY <2>5, <3>1 DEF SndContent
    <2>7. /\ K \in Seq(Content) /\ Len(K) = N + 1 /\ K[N + 1] = c
          /\ \A i \in 1 .. N : K[i] = L[i]
      BY <2>3, AppendFacts
    <2>8. Extends(K, L)
      BY <2>3, <2>6, ExtendsAppend
    <2>9. StartOf(K, Len(K)) = a
      <3>1. StartOf(K, N + 1) = c.from + c.size
        BY <2>7 DEF StartOf
      <3> QED
        BY <2>5, <2>6, <2>7, <3>1
    <2>10. x.bgn_id <= x.end_id => ContentOf(Slot(q, N)) = c
      BY <1>2, <2>2, <2>4
    <2>11. ASSUME q.bgn_id <= q.end_id, NEW id \in Span(q), id < N + 1
           PROVE  ContentOf(Slot(q, id)) = K[id + 1]
      <3>1. CASE id = N
        BY <2>4, <2>7, <2>10, <2>11, <3>1
      <3>2. CASE id # N
        <4>1. id \in Span(x) /\ id \in Nat
          BY <2>4, SpanType
        <4>2. id < N /\ id + 1 \in 1 .. N
          BY <2>11, <3>2, <4>1
        <4> QED
          BY <1>2, <2>4, <2>7, <2>11, <4>1, <4>2
      <3> QED
        BY <3>1, <3>2
    <2>12. SndContent(q, K, a)
      <3>1. a = StartOf(K, Len(K)) + Pending(q)
        BY <2>4, <2>6, <2>9
      <3>2. q.bgn_id <= q.end_id =>
              \A id \in Span(q) : id < Len(K) => ContentOf(Slot(q, id)) = K[id + 1]
        BY <2>7, <2>11
      <3> QED
        BY <2>4, <3>1, <3>2 DEF SndContent
    <2>13. \A g \in StaleFrame(x, stale) : Carries(g, K)
      <3>4. PICK g : g = DataFrame(Last(q))
        OBVIOUS
      <3>1. ContentOf(g) = c /\ g.id = x.end_id
        BY <2>2, <2>4, <3>4 DEF DataFrame, ContentOf
      <3>2. CASE N = x.end_id
        BY <2>3, <2>7, <3>1, <3>2, <3>4 DEF Carries
      <3>3. CASE N = x.end_id + IdMod
        <4>1. x.end_id + IdMod < Len(K)
          BY <1>1, <2>7, <3>3
        <4> QED
          BY <2>3, <3>1, <3>4, <4>1 DEF Carries
      <3> QED
        BY <2>4, <3>2, <3>3
    <2>14. \A g \in Resent(x, due) : Carries(g, K)
      BY <1>3, <2>8, CarriesMore
    <2> QED
      BY <2>3, <2>8, <2>12, <2>13, <2>14
  <1> QED
    BY <1>4, <1>5, <1>6

-----------------------------------------------------------------------------
(* The receiving side.                                                     *)

(* A receiver does not notice that more was stamped.                       *)
LEMMA RcvExtends ==
  ASSUME NEW cap \in Nat \ {0}, NEW r \in Pool(cap), NEW L \in Seq(Content),
         RcvInv(r, Len(L)), NEW D, RcvContent(r, L, D),
         NEW K, Extends(K, L)
  PROVE  RcvContent(r, K, D)
  <1>1. /\ \A id \in Span(r) : id \in Nat
        /\ r.bgn_id \in 0 .. Len(L)
    <2>1. /\ Span(r) = r.bgn_id .. r.bgn_id + cap - 1 /\ \A id \in Span(r) : id \in Nat
          /\ r.bgn_id \in Nat
      BY SpanType, PoolFacts
    <2>2. r.bgn_id <= Len(L)
      BY DEF RcvInv
    <2> QED
      BY <2>1, <2>2
  <1>2. ASSUME NEW id \in Span(r), id # INVALID_ID, Slot(r, id).id = id
        PROVE  ContentOf(Slot(r, id)) = K[id + 1]
    <2>1. id < Len(L)
      BY <1>1, <1>2 DEF RcvInv
    <2>2. id + 1 \in 1 .. Len(L)
      BY <1>1, <2>1
    <2> QED
      BY <1>2, <2>2 DEF RcvContent, Extends
  <1>3. StartOf(K, r.bgn_id) = StartOf(L, r.bgn_id)
    BY <1>1 DEF Extends
  <1> QED
    BY <1>2, <1>3 DEF RcvContent

(* wndpool_update puts a packet into the window of its id, again or not.   *)
LEMMA UpdateContent ==
  ASSUME NEW cap \in Nat \ {0}, NEW r \in Pool(cap), NEW L \in Seq(Content),
         RcvInv(r, Len(L)), cap <= IdMod, NEW D, RcvContent(r, L, D),
         NEW f, f.id \in Ids, f.from \in Nat, f.size \in 0 .. Payload,
         f.id < Len(L), Contains(r, f.id), ContentOf(f) = L[f.id + 1]
  PROVE  RcvContent(Update(r, f), L, D)
  <1> DEFINE q == Update(r, f)
             w == [id |-> f.id, from |-> f.from, size |-> f.size, is_acked |-> TRUE,
                   is_sent |-> r.windows[GetIndex(r, f.id)].is_sent]
  <1>1. /\ r.capacity = cap /\ r.bgn_id \in Nat /\ r.bgn_id <= Len(L) /\ f.id \in Nat
    <2>1. Len(L) \in Nat
      OBVIOUS
    <2>2. r.capacity = cap /\ r.bgn_id \in Nat /\ f.id \in Nat
      BY PoolFacts DEF Ids
    <2>3. r.bgn_id <= Len(L)
      BY DEF RcvInv
    <2> QED
      BY <2>1, <2>2, <2>3
  <1>3. r.bgn_id <= f.id /\ f.id < r.bgn_id + cap /\ f.id < IdMod
    BY <1>1, ContainsFacts
  <1>4. f.id \in Span(r) /\ GetIndex(r, f.id) = f.id % cap /\ r.bgn_id \in Span(r)
    <2>1. f.id \in Span(r) /\ r.bgn_id \in Span(r)
      BY <1>1, <1>3 DEF Span
    <2>2. f.id \in Nat /\ r.bgn_id <= f.id /\ f.id < IdMod
      BY <1>1, <1>3
    <2>3. GetIndex(r, f.id) = f.id % cap
      BY <2>2, IndexSlot, Zenon
    <2> QED
      BY <2>1, <2>3
  <1>5. /\ \A k \in 0 .. cap - 1 : q.windows[k] = IF k = f.id % cap THEN w ELSE r.windows[k]
        /\ q.bgn_id = r.bgn_id /\ q.capacity = cap /\ q.stored_size = r.stored_size
    BY <1>1, <1>4 DEF Update, Pool
  <1>6. w.id = f.id /\ ContentOf(w) = ContentOf(f) /\ w.size = f.size
    BY DEF ContentOf
  <1> HIDE DEF q, w
  <1>7. /\ Slot(q, f.id) = w
        /\ \A j \in Span(r) : j # f.id => Slot(q, j) = Slot(r, j)
    <2>1. /\ f.id % cap \in 0 .. cap - 1
          /\ \A j \in Span(r) : j # f.id => j % cap # f.id % cap /\ j % cap \in 0 .. cap - 1
      BY <1>4, OtherSlots
    <2> QED
      BY <1>1, <1>5, <2>1 DEF Slot
  <1>8. Span(q) = Span(r)
    BY <1>1, <1>5 DEF Span
  <1>9. ASSUME NEW id \in Span(q), id # INVALID_ID, Slot(q, id).id = id
        PROVE  ContentOf(Slot(q, id)) = L[id + 1]
    <2>1. CASE id = f.id
      BY <1>6, <1>7, <2>1
    <2>2. CASE id # f.id
      BY <1>7, <1>8, <1>9, <2>2 DEF RcvContent
    <2> QED
      BY <2>1, <2>2
  <1>10. ASSUME q.stored_size # 0
         PROVE  /\ q.bgn_id # INVALID_ID /\ Slot(q, q.bgn_id).id = q.bgn_id
                /\ q.stored_size < Slot(q, q.bgn_id).size
    <2>1. /\ r.bgn_id # INVALID_ID /\ Slot(r, r.bgn_id).id = r.bgn_id
          /\ r.stored_size < Slot(r, r.bgn_id).size
      BY <1>5, <1>10 DEF RcvContent
    <2>2. CASE r.bgn_id # f.id
      BY <1>4, <1>5, <1>7, <2>1, <2>2
    <2>3. CASE r.bgn_id = f.id
      <3>1. ContentOf(Slot(r, f.id)) = ContentOf(f)
        BY <1>4, <2>1, <2>3 DEF RcvContent
      <3>2. Slot(r, f.id).size = f.size
        BY <3>1 DEF ContentOf
      <3> QED
        BY <1>5, <1>6, <1>7, <2>1, <2>3, <3>2
    <2> QED
      BY <2>2, <2>3
  <1>11. Len(D) = StartOf(L, q.bgn_id) + q.stored_size /\ \A i \in DOMAIN D : D[i] = i
    BY <1>5 DEF RcvContent
  <1> QED
    BY <1>9, <1>10, <1>11 DEF RcvContent, q

(* The positions 1, 2, ... in order.                                       *)
LEMMA InOrderAppend ==
  ASSUME NEW D \in Seq(Nat), \A i \in DOMAIN D : D[i] = i,
         NEW b \in Seq(Nat), \A i \in DOMAIN b : b[i] = Len(D) + i
  PROVE  Len(D \o b) = Len(D) + Len(b) /\ \A i \in DOMAIN (D \o b) : (D \o b)[i] = i
  OBVIOUS

(* What is in the first window of a receiver when it is acknowledged.      *)
LEMMA FirstContent ==
  ASSUME NEW cap \in Nat \ {0}, NEW r \in Pool(cap), NEW L \in Seq(Content), Consecutive(L),
         RcvInv(r, Len(L)), NEW D, RcvContent(r, L, D),
         IsAckedAt(r, 0)
  PROVE  LET w == Slot(r, r.bgn_id)
         IN  /\ Get(r, r.bgn_id) = w /\ w.id = r.bgn_id /\ r.bgn_id + 1 <= Len(L)
             /\ r.bgn_id # INVALID_ID /\ w.from = StartOf(L, r.bgn_id) /\ w.size \in 1 .. Payload
             /\ StartOf(L, r.bgn_id + 1) = w.from + w.size
             /\ w.from \in Nat /\ r.stored_size \in Nat /\ r.stored_size < w.size
  <1>1. /\ r.capacity = cap /\ r.bgn_id \in Nat /\ r.bgn_id < IdMod /\ Aligned(r, cap)
        /\ r.bgn_id \in Span(r)
    <2>1. r.capacity = cap /\ r.bgn_id \in Ids
      BY PoolFacts
    <2>2. Aligned(r, cap)
      BY <2>1 DEF RcvInv, Aligned
    <2>3. r.bgn_id \in Nat /\ r.bgn_id < IdMod
      BY <2>1 DEF Ids
    <2>4. r.bgn_id \in Span(r)
      BY <2>1, <2>3 DEF Span
    <2> QED
      BY <2>1, <2>2, <2>3, <2>4
  <1>2. PICK w : w = Slot(r, r.bgn_id)
    OBVIOUS
  <1>3. w.id # INVALID_ID
    BY <1>1, <1>2, FirstSlot
  <1>4. w.id = r.bgn_id /\ r.bgn_id < Len(L)
    BY <1>1, <1>2, <1>3 DEF RcvInv
  <1>5. Get(r, r.bgn_id) = w
    BY <1>1, <1>2, IndexSlot
  <1>6. ContentOf(w) = L[r.bgn_id + 1]
    BY <1>1, <1>2, <1>3, <1>4 DEF RcvContent
  <1>7. w.from = L[r.bgn_id + 1].from /\ w.size = L[r.bgn_id + 1].size
    BY <1>6 DEF ContentOf
  <1>8. r.bgn_id \in 0 .. Len(L) - 1
    BY <1>1, <1>4
  <1>9. /\ w.from = StartOf(L, r.bgn_id) /\ w.size \in 1 .. Payload
        /\ StartOf(L, r.bgn_id + 1) = w.from + w.size
    BY <1>7, <1>8, StartNext
  <1>10. w.from \in Nat
    BY <1>8, <1>9, StartType
  <1>11. r.stored_size \in Nat /\ r.stored_size < w.size
    <2>1. r.stored_size \in 0 .. Payload
      BY DEF Pool
    <2>2. r.stored_size # 0 => r.stored_size < w.size
      BY <1>2 DEF RcvContent
    <2> QED
      BY <1>9, <2>1, <2>2
  <1> QED
    BY <1>2, <1>3, <1>4, <1>5, <1>8, <1>9, <1>10, <1>11

(* wndpool_read hands over the bytes that follow those handed over before. *)
LEMMA ReadContent ==
  ASSUME NEW cap \in Nat \ {0}, NEW r \in Pool(cap), NEW L \in Seq(Content), Consecutive(L),
         RcvInv(r, Len(L)), NEW D \in Seq(Nat), RcvContent(r, L, D),
         NEW n \in Nat
  PROVE  RcvContent(Read(r, n).pool, L, D \o Read(r, n).bytes)
  <1>1. PICK q, bytes : q = Read(r, n).pool /\ bytes = Read(r, n).bytes
    OBVIOUS
  <1>2. bytes \in Seq(Nat)
    BY <1>1, ReadType
  <1>3. CASE ~IsAckedAt(r, 0)
    <2>1. q = r /\ bytes = << >>
      BY <1>1, <1>3 DEF Read
    <2>2. D \o << >> = D
      OBVIOUS
    <2> QED
      BY <1>1, <2>1, <2>2
  <1>4. CASE IsAckedAt(r, 0)
    <2>1. PICK w, b, st : w = Slot(r, r.bgn_id) /\ b = r.bgn_id /\ st = r.stored_size
      OBVIOUS
    <2>2. /\ Get(r, b) = w /\ w.id = b /\ b + 1 <= Len(L) /\ b # INVALID_ID
          /\ w.from = StartOf(L, b) /\ w.size \in 1 .. Payload
          /\ StartOf(L, b + 1) = w.from + w.size
          /\ w.from \in Nat /\ st \in Nat /\ st < w.size
      BY <1>4, <2>1, FirstContent
    <2>3. PICK m : m = Smaller(w.size - st, n)
      OBVIOUS
    <2>4. m \in Nat /\ st + m <= w.size
      BY <2>2, <2>3, SMTT(30) DEF Smaller
    <2>5. bytes = [i \in 1 .. m |-> w.from + st + i]
      <3>1. bytes = [i \in 1 .. m |-> IF st + i <= w.size THEN w.from + st + i ELSE Garbage]
        BY <1>1, <1>4, <2>1, <2>2, <2>3, SMTT(30) DEF Read
      <3>2. \A i \in 1 .. m : st + i <= w.size
        BY <2>2, <2>4
      <3> QED
        BY <3>1, <3>2
    <2>6. /\ Len(bytes) = m /\ DOMAIN bytes = 1 .. m
          /\ Len(D) = w.from + st /\ \A i \in DOMAIN D : D[i] = i
      BY <2>1, <2>2, <2>4, <2>5 DEF RcvContent
    <2>7. PICK E : E = D \o bytes
      OBVIOUS
    <2>8. Len(E) = w.from + st + m /\ \A i \in DOMAIN E : E[i] = i
      <3>1. \A i \in DOMAIN bytes : bytes[i] = Len(D) + i
        BY <2>5, <2>6
      <3>2. Len(E) = Len(D) + Len(bytes) /\ \A i \in DOMAIN E : E[i] = i
        BY <1>2, <2>6, <2>7, <3>1, InOrderAppend
      <3> QED
        BY <2>6, <3>2
    <2>9. CASE st + m < w.size
      <3>1. q = [r EXCEPT !.stored_size = st + m]
        <4>1. PICK sum : sum = st + m
          OBVIOUS
        <4>2. ~(sum >= w.size) /\ st <= w.size
          BY <2>2, <2>4, <2>9, <4>1
        <4>3. q = [r EXCEPT !.stored_size = sum]
          BY <1>1, <1>4, <2>1, <2>2, <2>3, <4>1, <4>2 DEF Read
        <4> QED
          BY <4>1, <4>3
      <3>2. /\ q.bgn_id = b /\ q.capacity = r.capacity /\ q.windows = r.windows
            /\ q.stored_size = st + m
        BY <2>1, <3>1 DEF Pool
      <3>3. Span(q) = Span(r) /\ \A j : Slot(q, j) = Slot(r, j)
        BY <2>1, <3>2 DEF Span, Slot
      <3>4. Len(E) = StartOf(L, q.bgn_id) + q.stored_size
        BY <2>2, <2>4, <2>8, <3>2
      <3>5. RcvContent(q, L, E)
        BY <2>1, <2>2, <2>8, <2>9, <3>2, <3>3, <3>4 DEF RcvContent
      <3> QED
        BY <1>1, <2>7, <3>5
    <2>10. CASE ~(st + m < w.size)
      <3>1. st + m = w.size
        <4>1. w.size \in Int /\ st + m \in Int
          BY <2>2, <2>4
        <4> QED
          BY <2>4, <2>10, <4>1
      <3>2. PICK r0 : r0 = [r EXCEPT !.stored_size = 0]
        OBVIOUS
      <3>3. q = RemoveFirst(r0, 1)
        BY <1>1, <1>4, <2>1, <2>2, <2>3, <3>1, <3>2, SMTT(30) DEF Read
      <3>4. /\ r0 \in Pool(cap) /\ r0.bgn_id = b /\ r0.bgn_index = r.bgn_index /\ r0.capacity = cap
            /\ r0.windows = r.windows /\ r0.stored_size = 0
        <4>1. 0 \in 0 .. Payload
          OBVIOUS
        <4> QED
          BY <2>1, <3>2, <4>1 DEF Pool
      <3>5. Aligned(r0, cap) /\ \A j : Slot(r0, j) = Slot(r, j)
        <4>1. r.bgn_index = b % cap /\ r.capacity = cap
          BY <2>1, PoolFacts DEF RcvInv
        <4> QED
          BY <3>4, <4>1 DEF Aligned, Slot
      <3>6. b \in Nat /\ b + 1 < IdMod /\ 1 \in 0 .. cap
        <4>1. b \in Nat /\ b < IdMod
          <5>1. r.bgn_id \in 0 .. IdMod - 1
            BY PoolFacts DEF Ids
          <5> QED
            BY <2>1, <5>1
        <4> QED
          BY <2>2, <4>1 DEF INVALID_ID
      <3>7. /\ q.bgn_id = b + 1 /\ q \in Pool(cap)
            /\ \A id \in b + 1 .. b + cap - 1 : Slot(q, id) = Slot(r, id)
            /\ \A id \in b + cap .. b + 1 + cap - 1 : Slot(q, id) = Cleared
        <4>1. /\ Aligned(q, cap) /\ q.bgn_id = r0.bgn_id + 1
              /\ \A id \in r0.bgn_id + 1 .. r0.bgn_id + cap - 1 : Slot(q, id) = Slot(r0, id)
              /\ \A id \in r0.bgn_id + cap .. r0.bgn_id + 1 + cap - 1 : Slot(q, id) = Cleared
          <5>1. r0.bgn_id + 1 < IdMod
            BY <3>4, <3>6
          <5> QED
            BY <3>3, <3>5, <3>6, <5>1, RemoveFirstSlots
        <4> QED
          BY <3>4, <3>5, <4>1 DEF Aligned
      <3>8. q.stored_size = 0
        BY <3>3, <3>4 DEF RemoveFirst
      <3>9. Span(q) = b + 1 .. b + cap /\ Span(r) = b .. b + cap - 1
        BY <2>1, <3>6, <3>7, SpanType
      <3>10. ASSUME NEW id \in Span(q), id # INVALID_ID, Slot(q, id).id = id
             PROVE  ContentOf(Slot(q, id)) = L[id + 1]
        <4>1. CASE id = b + cap
          <5>1. Slot(q, id).id = INVALID_ID
            BY <3>6, <3>7, <4>1 DEF Cleared
          <5> QED
            BY <3>10, <5>1
        <4>2. CASE id # b + cap
          <5>1. id \in b + 1 .. b + cap - 1 /\ id \in Span(r)
            BY <3>6, <3>9, <4>2, SMTT(60)
          <5> QED
            BY <3>7, <3>10, <5>1 DEF RcvContent
        <4> QED
          BY <4>1, <4>2
      <3>11. Len(E) = StartOf(L, q.bgn_id) + q.stored_size
        BY <2>2, <2>4, <2>8, <3>1, <3>7, <3>8
      <3>12. RcvContent(q, L, E)
        BY <2>8, <3>8, <3>10, <3>11 DEF RcvContent
      <3> QED
        BY <1>1, <2>7, <3>12
    <2> QED
      BY <2>9, <2>10
  <1> QED
    BY <1>3, <1>4

-----------------------------------------------------------------------------
(* What protocol_recv does to the contents.                                *)

(* A receiver is never so far behind that an id it waits for was stamped   *)
(* twice.                                                                  *)
LEMMA CloseBehind ==
  ASSUME NEW s \in Pool(SndCap), NEW r \in Pool(RcvCap), NEW N \in Nat, NEW out, NEW back,
         DirectionInv(s, r, N, out, back)
  PROVE  N <= r.bgn_id + IdMod
  <1>1. /\ SenderInv(s, N) /\ \A id \in 0 .. N - 1 : Acked(s, id) => Held(r, id)
        /\ s.bgn_id \in Nat /\ r.bgn_id \in Nat /\ Span(r) = r.bgn_id .. r.bgn_id + RcvCap - 1
    BY SpanType, PoolFacts DEF DirectionInv
  <1>2. s.bgn_id <= N /\ N <= s.bgn_id + SndCap
    BY <1>1, RingsFit, SenderBounds
  <1>3. CASE s.bgn_id = 0
    BY <1>1, <1>2, <1>3, RingsFit
  <1>4. CASE s.bgn_id # 0
    <2>1. PICK id \in 0 .. N - 1 : id = s.bgn_id - 1
      BY <1>1, <1>2, <1>4
    <2>2. Held(r, id)
      <3>1. id < s.bgn_id
        BY <1>1, <2>1
      <3> QED
        BY <1>1, <3>1 DEF Acked
    <2>3. id < r.bgn_id + RcvCap
      BY <1>1, <2>2 DEF Held
    <2> QED
      BY <1>1, <1>2, <2>1, <2>3, RingsFit, SMTT(30)
  <1> QED
    BY <1>3, <1>4

LEMMA RecvContent ==
  ASSUME NEW s, NEW r \in Pool(RcvCap), NEW L \in Seq(Content), RcvInv(r, Len(L)),
         Len(L) <= r.bgn_id + IdMod, NEW D, RcvContent(r, L, D),
         NEW f \in Frame \cup {NoFrame},
         f.type = "data" => f.id < Len(L) /\ Carries(f, L),
         NEW res \in ProtocolRecv(s, r, f)
  PROVE  RcvContent(res.rcv, L, D) /\ \A g \in res.out : g.type = "ack"
  <1>1. CASE res.rcv = r /\ res.out = {}
    BY <1>1
  <1>2. CASE f # NoFrame /\ res = [snd |-> s, rcv |-> r, out |-> {AckFrame(f.id)}]
    BY <1>2 DEF AckFrame
  <1>3. CASE f.type # "ack" /\ f # NoFrame /\ Contains(r, f.id)
             /\ res = [snd |-> s, rcv |-> Update(r, f), out |-> {AckFrame(f.id)}]
    <2>1. f.id \in Ids /\ f.from \in Nat /\ f.size \in 0 .. Payload /\ f.type = "data"
      BY <1>3 DEF Frame
    <2>2. ContentOf(f) = L[f.id + 1]
      <3>1. r.bgn_id <= f.id /\ f.id \in Nat
        BY <1>3, <2>1 DEF Contains, Ids
      <3>2. r.bgn_id \in Nat /\ Len(L) \in Nat
        BY PoolFacts
      <3>3. ~(f.id + IdMod < Len(L))
        BY <3>1, <3>2
      <3> QED
        BY <2>1, <3>3 DEF Carries
    <2>3. RcvContent(Update(r, f), L, D)
      BY <1>3, <2>1, <2>2, RingsFit, UpdateContent
    <2> QED
      BY <1>3, <2>3 DEF AckFrame
  <1> QED
    BY <1>1, <1>2, <1>3 DEF ProtocolRecv

(* After a flush no acknowledgement changes the sender, and nothing is     *)
(* stamped.                                                                *)
LEMMA FlushedQuiet ==
  ASSUME NEW s \in Pool(SndCap), NEW N \in Nat, SenderInv(s, N),
         s.bgn_id = N, Pending(s) = 0, NEW r, NEW f \in Frame \cup {NoFrame},
         f.type = "ack" => f.id < N, NEW res \in ProtocolRecv(s, r, f)
  PROVE  res.snd = s /\ ~HasIncomplete(s)
  <1>1. f # NoFrame /\ f.type = "ack" => ~Contains(s, f.id)
    <2>1. f # NoFrame => f.id \in Nat
      BY DEF Frame, Ids
    <2> QED
      BY <2>1 DEF Contains
  <1>2. res.snd = s
    BY <1>1 DEF ProtocolRecv
  <1>3. ~HasIncomplete(s)
    <2>1. SndRing(s, N)
      <3>1. s.bgn_id < IdMod /\ s.end_id \in Nat
        BY PoolFacts DEF Ids
      <3>2. ~SndSpent(s, N)
        BY <3>1 DEF SndSpent
      <3> QED
        BY <3>2 DEF SenderInv, SndInv
    <2>2. s.end_id \in Nat /\ s.bgn_id <= s.end_id /\ s.end_id <= N
      BY <2>1, RingFacts
    <2>3. N = s.end_id
      BY <2>2
    <2>4. ~Last(s).is_sent
      BY <2>1, <2>3, PendingSlot
    <2> QED
      BY <2>4 DEF Pending, HasIncomplete
  <1> QED
    BY <1>2, <1>3

-----------------------------------------------------------------------------
(* The steps of the link.                                                  *)

LEMMA EndContent ==
  ASSUME ContentInv, NEW e \in End
  PROVE  /\ DirectionContent(snd[e], rcv[Peer(e)], log[e], accepted[e],
                             delivered[Peer(e)], net[Peer(e)], call[e])
         /\ DirectionContent(snd[Peer(e)], rcv[e], log[Peer(e)], accepted[Peer(e)],
                             delivered[e], net[e], call[Peer(e)])
  BY PeerType DEF ContentInv

LEMMA ContentAfter ==
  ASSUME NEW e \in End,
         DirectionContent(snd'[e], rcv'[Peer(e)], log'[e], accepted'[e],
                          delivered'[Peer(e)], net'[Peer(e)], call'[e]),
         DirectionContent(snd'[Peer(e)], rcv'[e], log'[Peer(e)], accepted'[Peer(e)],
                          delivered'[e], net'[e], call'[Peer(e)])
  PROVE  ContentInv'
  <1>1. \A d \in End : d = e \/ d = Peer(e)
    BY DEF End, Peer
  <1>2. Peer(Peer(e)) = e
    BY PeerType
  <1> QED
    BY <1>1, <1>2 DEF ContentInv

(* The frames under way when the log has grown and data frames of it were  *)
(* sent.                                                                   *)
LEMMA OutExtends ==
  ASSUME NEW L \in Seq(Content), NEW K, Extends(K, L), NEW out \in SUBSET Frame,
         OutContent(out, L), \A f \in out : f.type = "data" => f.id < Len(L),
         NEW out2, \A g \in out2 : g \in out \/ (g.type = "data" => Carries(g, K))
  PROVE  OutContent(out2, K)
  <1> SUFFICES ASSUME NEW g \in out2, g \in out, g.type = "data"
               PROVE  Carries(g, K)
    BY DEF OutContent, Carries
  <1>1. g.id \in Nat
    BY DEF Frame, Ids
  <1>2. Carries(g, L)
    BY DEF OutContent, Carries
  <1> QED
    BY <1>1, <1>2, CarriesMore

(* What a step of endpoint e does to what the two applications see: the    *)
(* packets logged stay, and the receiving pool loses none.                 *)
Grows(e) ==
  /\ Extends(log'[e], log[e]) /\ log'[Peer(e)] = log[Peer(e)]
  /\ \A j \in Nat : Held(rcv[e], j) => Held(rcv'[e], j)
  /\ rcv'[Peer(e)] = rcv[Peer(e)]

(* mc_comm_update, from whatever loop.                                     *)
LEMMA UpdateKeepsContent ==
  ASSUME LinkInv, ContentInv, NEW e \in End, NEW f \in net[e] \cup {NoFrame},
         NEW keep \in BOOLEAN, NEW stale \in BOOLEAN, NEW timedOut \in BOOLEAN, NEW due,
         Updates(e, f, keep, due, stale, timedOut)
  PROVE  ContentInv' /\ Grows(e)
  <1>1. PICK s, r, q, L, LP, N :
          /\ s = snd[e] /\ r = rcv[e] /\ q = rcv[Peer(e)] /\ L = log[e] /\ LP = log[Peer(e)]
          /\ N = Len(L)
    OBVIOUS
  <1>2. PICK in, out, n, D, a : /\ in = net[e] /\ out = net[Peer(e)] /\ n = call[e].left
                                /\ D = delivered[e] /\ a = accepted[e]
    OBVIOUS
  <1>3. /\ s \in Pool(SndCap) /\ r \in Pool(RcvCap) /\ q \in Pool(RcvCap)
        /\ L \in Seq(Content) /\ LP \in Seq(Content) /\ N \in Nat
    <2>1. L \in Seq(Content) /\ LP \in Seq(Content)
      BY <1>1, PeerType DEF LinkInv, TypeOK
    <2> QED
      BY <1>1, <2>1, EndFacts
  <1>4. /\ SenderInv(s, N) /\ RcvInv(q, N) /\ RcvInv(r, Len(LP))
        /\ Len(LP) <= r.bgn_id + IdMod /\ r.bgn_id \in Nat
        /\ in \in SUBSET Frame /\ out \in SUBSET Frame /\ n \in Nat /\ D \in Seq(Nat)
        /\ \A g \in out : g.type = "data" => g.id < N
        /\ \A g \in in : g.type = "data" => g.id < Len(LP)
        /\ \A g \in in : g.type = "ack" => Held(q, g.id)
    <2>1. /\ DirectionInv(s, q, N, out, in) /\ in \in SUBSET Frame /\ out \in SUBSET Frame
          /\ DirectionInv(snd[Peer(e)], r, Len(LP), in, out)
      BY <1>1, <1>2, EndFacts
    <2>2. n \in Nat
      BY <1>2, EndFacts DEF Call
    <2>3. D \in Seq(Nat)
      BY <1>2 DEF LinkInv, TypeOK
    <2>4. Len(LP) <= r.bgn_id + IdMod /\ r.bgn_id \in Nat
      <3>1. snd[Peer(e)] \in Pool(SndCap) /\ Len(LP) \in Nat
        BY <1>3, PeerType DEF LinkInv, TypeOK
      <3> QED
        BY <1>3, <2>1, <3>1, CloseBehind, PoolFacts
    <2> QED
      BY <2>1, <2>2, <2>3, <2>4 DEF DirectionInv
  <1>5. /\ Consecutive(L) /\ SndContent(s, L, a) /\ RcvContent(q, L, delivered[Peer(e)])
        /\ OutContent(out, L) /\ FlushContent(call[e], s, L)
        /\ Consecutive(LP) /\ RcvContent(r, LP, D) /\ OutContent(in, LP)
        /\ SndContent(snd[Peer(e)], LP, accepted[Peer(e)])
        /\ FlushContent(call[Peer(e)], snd[Peer(e)], LP)
    BY <1>1, <1>2, EndContent DEF DirectionContent
  <1>6. PICK r1, res :
          /\ res \in ProtocolRecv(s, r1, f)
          /\ r1 = r \/ (r1 = Read(r, n).pool /\ Len(Read(r, n).bytes) = 0)
          /\ Answers(e, res, f, keep, due, stale)
    BY <1>1, <1>2, UpdateStep
  <1>7. /\ r1 \in Pool(RcvCap) /\ RcvInv(r1, Len(LP)) /\ RcvContent(r1, LP, D)
        /\ \A j \in Nat : Held(r, j) => Held(r1, j)
        /\ Len(LP) <= r1.bgn_id + IdMod
    <2>1. CASE r1 = r
      BY <1>3, <1>4, <1>5, <2>1
    <2>2. CASE r1 = Read(r, n).pool /\ Len(Read(r, n).bytes) = 0
      <3>1. PICK bytes : bytes = Read(r, n).bytes
        OBVIOUS
      <3>2. r1 \in Pool(RcvCap) /\ bytes \in Seq(Nat)
        BY <1>3, <1>4, <2>2, <3>1, ReadType
      <3>3. /\ RcvInv(r1, Len(LP)) /\ r.bgn_id <= r1.bgn_id
            /\ \A j \in Nat : Held(r, j) => Held(r1, j)
        <4>1. Len(LP) \in Nat
          BY <1>3
        <4> QED
          BY <1>3, <1>4, <2>2, <4>1, ReadHolds
      <3>4. RcvContent(r1, LP, D \o bytes)
        BY <1>3, <1>4, <1>5, <2>2, <3>1, ReadContent
      <3>5. D \o bytes = D
        <4>1. bytes = << >>
          BY <2>2, <3>1, <3>2
        <4> QED
          BY <1>4, <4>1
      <3>6. Len(LP) <= r1.bgn_id + IdMod
        <4>1. Len(LP) \in Nat /\ r1.bgn_id \in Nat
          BY <1>3, <3>2, PoolFacts
        <4> QED
          BY <1>4, <3>3, <4>1
      <3> QED
        BY <3>2, <3>3, <3>4, <3>5, <3>6
    <2> QED
      BY <1>6, <2>1, <2>2
  <1>8. /\ f \in Frame \cup {NoFrame}
        /\ f.type = "data" => f.id < Len(LP) /\ Carries(f, LP)
        /\ f.type = "ack" => Held(q, f.id) /\ f.id < N
    <2>1. f \in in \/ f = NoFrame
      BY <1>2
    <2>2. f.type = "data" => f.id < Len(LP) /\ Carries(f, LP)
      BY <1>4, <1>5, <2>1 DEF OutContent, Carries, NoFrame
    <2>3. ASSUME f.type = "ack" PROVE Held(q, f.id) /\ f.id < N
      <3>1. f \in Frame /\ Held(q, f.id)
        BY <1>4, <2>1, <2>3 DEF NoFrame
      <3>2. f.id \in Nat
        BY <3>1 DEF Frame, Ids
      <3> QED
        BY <1>3, <1>4, <3>1, <3>2, HeldBelow
    <2> QED
      BY <1>4, <2>1, <2>2, <2>3
  <1>9. RcvContent(res.rcv, LP, D) /\ \A g \in res.out : g.type = "ack"
    BY <1>3, <1>6, <1>7, <1>8, RecvContent
  <1>10. PICK x, x2, K :
           /\ x = res.snd /\ x2 = AfterStale(x, stale) /\ K = LogAfter(x, L, stale)
    OBVIOUS
  <1>11. /\ x \in Pool(SndCap) /\ SenderInv(x, N) /\ SndContent(x, L, a)
         /\ \A j \in Nat : Held(r, j) => Held(res.rcv, j)
    <2>1. x \in Pool(SndCap)
      BY <1>3, <1>6, <1>7, <1>8, <1>10, ProtocolRecvType
    <2>2. AfterRecv(s, r1, N, Len(LP), q, res)
      <3>1. Len(LP) \in Nat
        BY <1>3
      <3> QED
        BY <1>3, <1>4, <1>6, <1>7, <1>8, <3>1, RecvInv
    <2>3. /\ SenderInv(x, N) /\ KeepsContent(s, x, N)
          /\ x # s => SndInv(s, N)
          /\ \A j \in Nat : Held(r1, j) => Held(res.rcv, j)
      BY <1>10, <2>2 DEF AfterRecv
    <2>4. x.bgn_id <= x.end_id => s.bgn_id <= s.end_id
      BY <2>3 DEF SndInv, SndRing
    <2>5. SndContent(x, L, a)
      BY <1>1, <1>5, <2>3, <2>4, KeptContent
    <2> QED
      BY <1>7, <2>1, <2>3, <2>5
  <1>12. /\ Extends(K, L) /\ SndContent(x2, K, a)
         /\ \A g \in Resent(x, due) \cup StaleFrame(x, stale) : Carries(g, K)
    <2>1. K = LogAfter(x, L, stale)
      BY <1>10
    <2>2. AfterStale(x, stale) = x2
      BY <1>10
    <2>3. N = Len(L)
      BY <1>1
    <2>4. /\ x \in Pool(SndCap) /\ L \in Seq(Content) /\ Consecutive(L) /\ N \in Nat
          /\ SenderInv(x, N) /\ SndContent(x, L, a)
      BY <1>3, <1>5, <1>11
    <2>5. /\ Extends(K, L) /\ SndContent(AfterStale(x, stale), K, a)
          /\ \A g \in Resent(x, due) \cup StaleFrame(x, stale) : Carries(g, K)
      BY <2>1, <2>3, <2>4, ResendContent, SMTT(30)
    <2> QED
      BY <2>2, <2>5
  <1>13. /\ snd' = [snd EXCEPT ![e] = x2]
         /\ rcv' = [rcv EXCEPT ![e] = res.rcv]
         /\ net' = [net EXCEPT
                      ![e] = IF keep THEN @ ELSE @ \ {f},
                      ![Peer(e)] = @ \cup res.out \cup Resent(x, due) \cup StaleFrame(x, stale)]
         /\ log' = IF Stamps(x, stale) /\ ~Last(x).is_sent
                   THEN [log EXCEPT ![e] = Append(@, ContentOf(Last(Stamp(x))))]
                   ELSE log
         /\ accepted' = accepted /\ delivered' = delivered
    BY <1>6, <1>10, UpdateStep DEF Answers
  <1>14. /\ snd'[e] = x2 /\ snd'[Peer(e)] = snd[Peer(e)]
         /\ rcv'[e] = res.rcv /\ rcv'[Peer(e)] = q
         /\ net'[e] \subseteq in
         /\ net'[Peer(e)] = out \cup res.out \cup Resent(x, due) \cup StaleFrame(x, stale)
         /\ log'[e] = K /\ log'[Peer(e)] = LP
    BY <1>1, <1>2, <1>10, <1>13, PeerType DEF LinkInv, TypeOK, LogAfter
  <1>15. call' = call \/ call' = [call EXCEPT ![e] = Idle]
    BY DEF Updates, Poll, SendWaits, RecvWaits, FlushWaits, Return
  <1>16. FlushContent(call'[e], x2, K) /\ call'[Peer(e)] = call[Peer(e)]
    <2>1. call'[Peer(e)] = call[Peer(e)] /\ (call'[e] = Flushed => call[e] = Flushed)
      BY <1>15, PeerType DEF LinkInv, TypeOK, Idle, Flushed
    <2>2. ASSUME call[e] = Flushed PROVE x2 = s /\ K = L
      <3>1. s.bgn_id = N /\ Pending(s) = 0
        BY <1>1, <1>5, <2>2 DEF FlushContent
      <3>2. x = s /\ ~HasIncomplete(s)
        BY <1>3, <1>4, <1>6, <1>8, <1>10, <3>1, FlushedQuiet
      <3> QED
        BY <1>10, <3>2 DEF Stamps, AfterStale, LogAfter
    <2> QED
      BY <1>5, <2>1, <2>2 DEF FlushContent
  <1>17. OutContent(net'[Peer(e)], K)
    <2>1. \A g \in net'[Peer(e)] : g \in out \/ (g.type = "data" => Carries(g, K))
      BY <1>9, <1>12, <1>14
    <2> QED
      BY <1>1, <1>3, <1>4, <1>5, <1>12, <2>1, OutExtends
  <1>18. RcvContent(q, K, delivered[Peer(e)])
    BY <1>1, <1>3, <1>4, <1>5, <1>12, RcvExtends
  <1>19. DirectionContent(snd'[e], rcv'[Peer(e)], log'[e], accepted'[e],
                          delivered'[Peer(e)], net'[Peer(e)], call'[e])
    BY <1>2, <1>12, <1>13, <1>14, <1>16, <1>17, <1>18 DEF DirectionContent, Extends
  <1>20. DirectionContent(snd'[Peer(e)], rcv'[e], log'[Peer(e)], accepted'[Peer(e)],
                          delivered'[e], net'[e], call'[Peer(e)])
    <2>1. OutContent(net'[e], LP)
      BY <1>5, <1>14 DEF OutContent
    <2> QED
      BY <1>2, <1>5, <1>9, <1>13, <1>14, <1>16, <2>1 DEF DirectionContent
  <1>21. Grows(e)
    BY <1>1, <1>11, <1>12, <1>14 DEF Grows
  <1> QED
    BY <1>19, <1>20, <1>21, ContentAfter

(* mc_comm_send that gets bytes into its pool.                             *)
LEMMA SendKeepsContent ==
  ASSUME LinkInv, ContentInv, NEW e \in End, NEW timedOut \in BOOLEAN, SendWrites(e, timedOut)
  PROVE  ContentInv' /\ Grows(e) /\ Smaller(call[e].left, Payload) \in 1 .. Payload
  <1>1. PICK s, q, r, L, LP, N :
          /\ s = snd[e] /\ q = rcv[Peer(e)] /\ r = rcv[e] /\ L = log[e] /\ LP = log[Peer(e)]
          /\ N = Len(L)
    OBVIOUS
  <1>2. PICK in, out, pos, seg : /\ in = net[e] /\ out = net[Peer(e)] /\ pos = accepted[e]
                                /\ seg = Smaller(call[e].left, Payload)
    OBVIOUS
  <1>3. PICK w, s2, sent, K :
          w = Write(s, pos, seg) /\ s2 = w.pool /\ sent = w.sent /\ K = Logged(L, sent)
    OBVIOUS
  <1>4. L \in Seq(Content) /\ N \in Nat
    <2>1. L \in Seq(Content)
      BY <1>1 DEF LinkInv, TypeOK
    <2> QED
      BY <1>1, <2>1
  <1>5. /\ s \in Pool(SndCap) /\ q \in Pool(RcvCap)
        /\ SenderInv(s, N) /\ RcvInv(q, N) /\ out \in SUBSET Frame
        /\ \A g \in out : g.type = "data" => g.id < N
    <2>1. DirectionInv(s, q, N, out, in) /\ out \in SUBSET Frame
      BY <1>1, <1>2, EndFacts
    <2> QED
      BY <1>1, <2>1, EndFacts DEF DirectionInv
  <1>7. pos \in Nat /\ call[e].left \in Nat
    BY <1>2, EndFacts DEF Call
  <1>8. seg \in Nat /\ seg \in 0 .. Payload
    BY <1>2, <1>7 DEF Smaller
  <1>9. PICK B : B = pos + seg
    OBVIOUS
  <1>11. /\ Consecutive(L) /\ SndContent(s, L, pos) /\ OutContent(out, L)
         /\ RcvContent(q, L, delivered[Peer(e)])
         /\ Consecutive(LP) /\ RcvContent(r, LP, delivered[e]) /\ OutContent(in, LP)
         /\ SndContent(snd[Peer(e)], LP, accepted[Peer(e)])
         /\ FlushContent(call[Peer(e)], snd[Peer(e)], LP)
    BY <1>1, <1>2, EndContent DEF DirectionContent
  <1>12. CanWrite(s)
    BY <1>1, <1>2 DEF SendWrites, Write
  <1>13. /\ w.taken = seg /\ Extends(K, L) /\ SndContent(s2, K, B)
         /\ \A g \in Range(sent) : Carries(g, K)
    <2>1. w.taken = seg /\ WriteLogged(L, pos, w)
      BY <1>1, <1>3, <1>4, <1>5, <1>7, <1>8, <1>11, <1>12, RingsFit, WriteContent
    <2> QED
      BY <1>3, <1>9, <2>1 DEF WriteLogged
  <1>14. /\ snd' = [snd EXCEPT ![e] = s2]
         /\ net' = [net EXCEPT ![Peer(e)] = @ \cup Range(sent)]
         /\ log' = [log EXCEPT ![e] = Logged(@, sent)]
         /\ accepted' = [accepted EXCEPT ![e] = @ + seg]
         /\ \/ call' = [call EXCEPT ![e] = Idle]
            \/ \E m : call' = [call EXCEPT ![e].left = m]
         /\ rcv' = rcv /\ delivered' = delivered
    BY <1>1, <1>2, <1>3 DEF SendWrites, Logged, Return
  <1>15. /\ snd'[e] = s2 /\ snd'[Peer(e)] = snd[Peer(e)]
         /\ net'[e] = in /\ net'[Peer(e)] = out \cup Range(sent)
         /\ accepted'[e] = B /\ accepted'[Peer(e)] = accepted[Peer(e)]
         /\ log'[e] = K /\ log'[Peer(e)] = LP
    BY <1>1, <1>2, <1>3, <1>9, <1>14, PeerType DEF LinkInv, TypeOK
  <1>16. call'[e] # Flushed /\ call'[Peer(e)] = call[Peer(e)]
    <2>1. call \in [End -> Call] /\ call[e].fn = "send"
      BY DEF LinkInv, TypeOK, SendWrites
    <2>2. CASE call' = [call EXCEPT ![e] = Idle]
      BY <2>1, <2>2, PeerType DEF Idle, Flushed
    <2>3. ASSUME NEW m, call' = [call EXCEPT ![e].left = m]
          PROVE  call'[e] # Flushed /\ call'[Peer(e)] = call[Peer(e)]
      <3>1. call'[e].fn = "send" /\ call'[Peer(e)] = call[Peer(e)]
        BY <2>1, <2>3, PeerType DEF Call
      <3> QED
        BY <3>1 DEF Flushed
    <2> QED
      BY <1>14, <2>2, <2>3
  <1>17. OutContent(net'[Peer(e)], K)
    <2>1. \A g \in net'[Peer(e)] : g \in out \/ (g.type = "data" => Carries(g, K))
      BY <1>13, <1>15
    <2> QED
      BY <1>1, <1>4, <1>5, <1>11, <1>13, <2>1, OutExtends
  <1>18. RcvContent(q, K, delivered[Peer(e)])
    BY <1>1, <1>4, <1>5, <1>11, <1>13, RcvExtends
  <1>19. DirectionContent(snd'[e], rcv'[Peer(e)], log'[e], accepted'[e],
                          delivered'[Peer(e)], net'[Peer(e)], call'[e])
    BY <1>1, <1>13, <1>14, <1>15, <1>16, <1>17, <1>18
       DEF DirectionContent, Extends, FlushContent
  <1>20. DirectionContent(snd'[Peer(e)], rcv'[e], log'[Peer(e)], accepted'[Peer(e)],
                          delivered'[e], net'[e], call'[Peer(e)])
    BY <1>1, <1>11, <1>14, <1>15, <1>16 DEF DirectionContent
  <1>21. Grows(e)
    BY <1>1, <1>13, <1>14, <1>15 DEF Grows
  <1>22. seg \in 1 .. Payload
    <2>1. seg # 0
      BY <1>1, <1>2, <1>3, <1>13 DEF SendWrites
    <2> QED
      BY <1>8, <2>1
  <1> QED
    BY <1>2, <1>19, <1>20, <1>21, <1>22, ContentAfter

(* mc_comm_recv that gets bytes out of its pool.                           *)
LEMMA RecvKeepsContent ==
  ASSUME LinkInv, ContentInv, NEW e \in End, RecvReads(e)
  PROVE  ContentInv'
  <1>1. PICK r, LP, D, n : r = rcv[e] /\ LP = log[Peer(e)] /\ D = delivered[e] /\ n = call[e].left
    OBVIOUS
  <1>2. PICK q, bytes : q = Read(r, n).pool /\ bytes = Read(r, n).bytes
    OBVIOUS
  <1>3. /\ r \in Pool(RcvCap) /\ LP \in Seq(Content) /\ D \in Seq(Nat) /\ n \in Nat
        /\ RcvInv(r, Len(LP))
    <2>1. LP \in Seq(Content) /\ D \in Seq(Nat)
      BY <1>1, PeerType DEF LinkInv, TypeOK
    <2>2. n \in Nat
      BY <1>1, EndFacts DEF Call
    <2>3. DirectionInv(snd[Peer(e)], r, Len(LP), net[e], net[Peer(e)]) /\ r \in Pool(RcvCap)
      BY <1>1, EndFacts
    <2> QED
      BY <2>1, <2>2, <2>3 DEF DirectionInv
  <1>4. /\ DirectionContent(snd[e], rcv[Peer(e)], log[e], accepted[e],
                            delivered[Peer(e)], net[Peer(e)], call[e])
        /\ DirectionContent(snd[Peer(e)], r, LP, accepted[Peer(e)], D, net[e], call[Peer(e)])
    BY <1>1, EndContent
  <1>5. RcvContent(q, LP, D \o bytes)
    <2>1. Consecutive(LP) /\ RcvContent(r, LP, D)
      BY <1>4 DEF DirectionContent
    <2> QED
      BY <1>2, <1>3, <2>1, ReadContent
  <1>6. /\ rcv' = [rcv EXCEPT ![e] = q]
        /\ delivered' = [delivered EXCEPT ![e] = @ \o bytes]
        /\ UNCHANGED <<snd, net, accepted, log>>
        /\ \/ call' = [call EXCEPT ![e] = Idle]
           \/ \E m : call' = [call EXCEPT ![e].left = m]
    BY <1>1, <1>2 DEF RecvReads, Return
  <1>7. /\ rcv'[e] = q /\ rcv'[Peer(e)] = rcv[Peer(e)]
        /\ delivered'[e] = D \o bytes /\ delivered'[Peer(e)] = delivered[Peer(e)]
    BY <1>1, <1>6, PeerType DEF LinkInv, TypeOK
  <1>8. call'[e] # Flushed /\ call'[Peer(e)] = call[Peer(e)]
    <2>1. call \in [End -> Call] /\ call[e].fn = "recv"
      BY DEF LinkInv, TypeOK, RecvReads
    <2>2. CASE call' = [call EXCEPT ![e] = Idle]
      BY <2>1, <2>2, PeerType DEF Idle, Flushed
    <2>3. ASSUME NEW m, call' = [call EXCEPT ![e].left = m]
          PROVE  call'[e] # Flushed /\ call'[Peer(e)] = call[Peer(e)]
      <3>1. call'[e].fn = "recv" /\ call'[Peer(e)] = call[Peer(e)]
        BY <2>1, <2>3, PeerType DEF Call
      <3> QED
        BY <3>1 DEF Flushed
    <2> QED
      BY <1>6, <2>2, <2>3
  <1>9. DirectionContent(snd'[e], rcv'[Peer(e)], log'[e], accepted'[e],
                         delivered'[Peer(e)], net'[Peer(e)], call'[e])
    BY <1>4, <1>6, <1>7, <1>8 DEF DirectionContent, FlushContent
  <1>10. DirectionContent(snd'[Peer(e)], rcv'[e], log'[Peer(e)], accepted'[Peer(e)],
                          delivered'[e], net'[e], call'[Peer(e)])
    BY <1>1, <1>4, <1>5, <1>6, <1>7, <1>8 DEF DirectionContent
  <1> QED
    BY <1>9, <1>10, ContentAfter

(* A sending pool is empty only when every packet was removed: a packet    *)
(* in flight has a byte.                                                   *)
LEMMA EmptySender ==
  ASSUME NEW s \in Pool(SndCap), NEW L \in Seq(Content), SenderInv(s, Len(L)),
         NEW a, SndContent(s, L, a), IsEmpty(s)
  PROVE  s.bgn_id = Len(L) /\ Pending(s) = 0
  <1>1. PICK N \in Nat : N = Len(L)
    OBVIOUS
  <1>2. SndRing(s, N)
    <2>1. s.bgn_id \in Nat /\ s.end_id = s.bgn_id
      BY PoolFacts DEF IsEmpty
    <2>2. s.bgn_id <= s.end_id
      BY <2>1
    <2> QED
      BY <1>1, <2>2, RingsFit, SenderBounds DEF SndInv
  <1>3. /\ s.end_id \in Nat /\ s.end_id <= N /\ N <= s.end_id + 1 /\ s.end_id \in Span(s)
        /\ s.bgn_id <= s.end_id
        /\ Last(s) = Slot(s, s.end_id)
    BY <1>2, RingFacts
  <1>4. s.bgn_id = s.end_id /\ Last(s).size = 0
    BY DEF IsEmpty
  <1>5. ASSUME N = s.end_id + 1 PROVE FALSE
    <2>1. ContentOf(Last(s)) = L[s.end_id + 1]
      BY <1>1, <1>3, <1>5 DEF SndContent
    <2>2. L[s.end_id + 1] \in Content
      <3>1. s.end_id + 1 \in 1 .. Len(L)
        BY <1>1, <1>3, <1>5
      <3> QED
        BY <3>1
    <2> QED
      BY <1>4, <2>1, <2>2 DEF ContentOf, Content
  <1>6. N = s.end_id
    BY <1>3, <1>5
  <1> QED
    BY <1>1, <1>4, <1>6 DEF Pending

(* The calls and returns of the API, and the network.                      *)
LEMMA CallKeepsContent ==
  ASSUME LinkInv, ContentInv, NEW e \in End,
         \/ \E n \in 1 .. MaxCall : CallSend(e, n) \/ CallRecv(e, n)
         \/ RecvTimesOut(e) \/ CallFlush(e) \/ FlushReturns(e)
  PROVE  ContentInv'
  <1>1. UNCHANGED <<snd, rcv, net, accepted, delivered, log>>
    BY DEF CallSend, CallRecv, RecvTimesOut, CallFlush, FlushReturns
  <1>2. /\ DirectionContent(snd[e], rcv[Peer(e)], log[e], accepted[e],
                            delivered[Peer(e)], net[Peer(e)], call[e])
        /\ DirectionContent(snd[Peer(e)], rcv[e], log[Peer(e)], accepted[Peer(e)],
                            delivered[e], net[e], call[Peer(e)])
    BY EndContent
  <1>3. ASSUME NEW c, call' = [call EXCEPT ![e] = c], FlushContent(c, snd[e], log[e])
        PROVE  ContentInv'
    <2>1. call'[e] = c /\ call'[Peer(e)] = call[Peer(e)]
      BY <1>3, PeerType DEF LinkInv, TypeOK
    <2> QED
      BY <1>1, <1>2, <1>3, <2>1, ContentAfter DEF DirectionContent
  <1>4. ASSUME NEW n \in 1 .. MaxCall, CallSend(e, n) PROVE ContentInv'
    <2>1. FlushContent([fn |-> "send", left |-> n], snd[e], log[e])
      BY DEF FlushContent, Flushed
    <2> QED
      BY <1>3, <1>4, <2>1 DEF CallSend
  <1>5. ASSUME NEW n \in 1 .. MaxCall, CallRecv(e, n) PROVE ContentInv'
    <2>1. FlushContent([fn |-> "recv", left |-> n], snd[e], log[e])
      BY DEF FlushContent, Flushed
    <2> QED
      BY <1>3, <1>5, <2>1 DEF CallRecv
  <1>6. ASSUME RecvTimesOut(e) PROVE ContentInv'
    <2>1. FlushContent(Idle, snd[e], log[e])
      BY DEF FlushContent, Flushed, Idle
    <2> QED
      BY <1>3, <1>6, <2>1 DEF RecvTimesOut, Return
  <1>7. ASSUME CallFlush(e) PROVE ContentInv'
    <2>1. FlushContent([fn |-> "flush", left |-> 0], snd[e], log[e])
      BY DEF FlushContent, Flushed
    <2> QED
      BY <1>3, <1>7, <2>1 DEF CallFlush
  <1>8. ASSUME FlushReturns(e) PROVE ContentInv'
    <2>1. PICK s, L : s = snd[e] /\ L = log[e]
      OBVIOUS
    <2>2. s \in Pool(SndCap) /\ L \in Seq(Content) /\ SenderInv(s, Len(L))
      <3>1. L \in Seq(Content)
        BY <2>1 DEF LinkInv, TypeOK
      <3> QED
        BY <2>1, <3>1, EndFacts DEF DirectionInv
    <2>3. SndContent(s, L, accepted[e]) /\ IsEmpty(s)
      BY <1>2, <1>8, <2>1 DEF DirectionContent, FlushReturns
    <2>4. s.bgn_id = Len(L) /\ Pending(s) = 0
      BY <2>2, <2>3, EmptySender
    <2>5. FlushContent(Flushed, snd[e], log[e])
      BY <2>1, <2>4 DEF FlushContent
    <2> QED
      BY <1>3, <1>8, <2>5 DEF FlushReturns
  <1> QED
    BY <1>4, <1>5, <1>6, <1>7, <1>8

LEMMA LoseKeepsContent ==
  ASSUME LinkInv, ContentInv, NEW e \in End, NEW f \in net[e], Lose(e, f)
  PROVE  ContentInv'
  <1>1. /\ UNCHANGED <<snd, rcv, call, accepted, delivered, log>>
        /\ net'[e] \subseteq net[e] /\ net'[Peer(e)] = net[Peer(e)]
    BY PeerType DEF Lose, LinkInv, TypeOK
  <1>2. /\ DirectionContent(snd[e], rcv[Peer(e)], log[e], accepted[e],
                            delivered[Peer(e)], net'[Peer(e)], call[e])
        /\ DirectionContent(snd[Peer(e)], rcv[e], log[Peer(e)], accepted[Peer(e)],
                            delivered[e], net'[e], call[Peer(e)])
    BY <1>1, EndContent DEF DirectionContent, OutContent
  <1> QED
    BY <1>1, <1>2, ContentAfter

(* Before the first call, if mc_comm_init found zero in stored_size.       *)
LEMMA InitContent ==
  ASSUME InitStored \subseteq {0}, Init
  PROVE  ContentInv
  <1>1. LinkInv
    BY InitLink
  <1>2. ASSUME NEW e \in End
        PROVE  /\ log[e] = << >> /\ accepted[e] = 0 /\ delivered[Peer(e)] = << >>
               /\ net[Peer(e)] = {} /\ call[e] = Idle
               /\ snd[e] \in Pool(SndCap) /\ snd[e].windows = [k \in 0 .. SndCap - 1 |-> Cleared]
               /\ rcv[Peer(e)] \in Pool(RcvCap) /\ rcv[Peer(e)].stored_size = 0
               /\ rcv[Peer(e)].bgn_id = 0
               /\ rcv[Peer(e)].windows = [k \in 0 .. RcvCap - 1 |-> Cleared]
    <2>1. Peer(e) \in End
      BY PeerType
    <2>2. snd[e] \in Pool(SndCap) /\ rcv[Peer(e)] \in Pool(RcvCap)
      BY <1>1, EndFacts
    <2>3. snd[e] = InitPool(SndCap, 0)
      BY DEF Init
    <2>4. PICK stored \in InitStored : rcv[Peer(e)] = InitPool(RcvCap, stored)
      BY <2>1 DEF Init
    <2>5. stored = 0
      BY <2>4
    <2>6. /\ snd[e].windows = [k \in 0 .. SndCap - 1 |-> Cleared]
          /\ rcv[Peer(e)].stored_size = 0 /\ rcv[Peer(e)].bgn_id = 0
          /\ rcv[Peer(e)].windows = [k \in 0 .. RcvCap - 1 |-> Cleared]
      BY <2>3, <2>4, <2>5 DEF InitPool
    <2> QED
      BY <2>1, <2>2, <2>6 DEF Init
  <1>3. ASSUME NEW e \in End, NEW s, s = snd[e], NEW r, r = rcv[Peer(e)]
        PROVE  DirectionContent(s, r, << >>, 0, << >>, {}, Idle)
    <2>1. s \in Pool(SndCap) /\ s.windows = [k \in 0 .. SndCap - 1 |-> Cleared]
      BY <1>2, <1>3
    <2>2. /\ r \in Pool(RcvCap) /\ r.stored_size = 0 /\ r.bgn_id = 0
          /\ r.windows = [k \in 0 .. RcvCap - 1 |-> Cleared]
      BY <1>2, <1>3
    <2>3. Pending(s) = 0
      <3>1. LastIndex(s) \in 0 .. SndCap - 1
        BY <2>1, IndexType DEF LastIndex, Pool
      <3> QED
        BY <2>1, <3>1 DEF Pending, Last, Cleared
    <2>4. SndContent(s, << >>, 0)
      <3>1. \A id \in Span(s) : ~(id < Len(<< >>))
        BY <2>1, SpanType
      <3> QED
        BY <2>3, <3>1 DEF SndContent, StartOf
    <2>5. RcvContent(r, << >>, << >>)
      <3>1. ASSUME NEW id \in Span(r), id # INVALID_ID PROVE Slot(r, id).id # id
        <4>1. id \in Int /\ Slot(r, id) = r.windows[id % RcvCap] /\ id % RcvCap \in 0 .. RcvCap - 1
          <5>1. id \in Int
            BY <2>2, SpanType
          <5>2. r.capacity = RcvCap
            BY <2>2, PoolFacts
          <5>3. id % RcvCap \in 0 .. RcvCap - 1
            BY <5>1, ModType
          <5> QED
            BY <5>1, <5>2, <5>3 DEF Slot
        <4>2. Slot(r, id).id = INVALID_ID
          BY <2>2, <4>1 DEF Cleared
        <4> QED
          BY <3>1, <4>2
      <3> QED
        BY <2>2, <3>1 DEF RcvContent, StartOf
    <2> QED
      BY <2>4, <2>5 DEF DirectionContent, Consecutive, OutContent, FlushContent, Idle, Flushed
  <1>4. \A e \in End : DirectionContent(snd[e], rcv[Peer(e)], << >>, 0, << >>, {}, Idle)
    BY <1>3
  <1> QED
    BY <1>2, <1>4, Zenon DEF ContentInv

LEMMA StepContent == LinkInv /\ ContentInv /\ [Next]_vars => ContentInv'
  <1> SUFFICES ASSUME LinkInv, ContentInv, [Next]_vars PROVE ContentInv'
    OBVIOUS
  <1>1. CASE UNCHANGED vars
    BY <1>1 DEF vars, ContentInv
  <1>2. ASSUME NEW e \in End, NEW f \in net[e] \cup {NoFrame}, NEW keep \in BOOLEAN,
               NEW stale \in BOOLEAN, NEW timedOut \in BOOLEAN,
               NEW due \in SUBSET (snd[e].bgn_id .. snd[e].end_id - 1),
               Updates(e, f, keep, due, stale, timedOut)
        PROVE  ContentInv'
    BY <1>2, UpdateKeepsContent
  <1>3. ASSUME NEW e \in End,
               \/ \E n \in 1 .. MaxCall : CallSend(e, n) \/ CallRecv(e, n)
               \/ RecvTimesOut(e) \/ CallFlush(e) \/ FlushReturns(e)
        PROVE  ContentInv'
    BY <1>3, CallKeepsContent
  <1>4. ASSUME NEW e \in End, NEW timedOut \in BOOLEAN, SendWrites(e, timedOut)
        PROVE  ContentInv'
    BY <1>4, SendKeepsContent
  <1>5. ASSUME NEW e \in End, RecvReads(e) PROVE ContentInv'
    BY <1>5, RecvKeepsContent
  <1>6. ASSUME NEW e \in End, NEW f \in net[e], Lose(e, f) PROVE ContentInv'
    BY <1>6, LoseKeepsContent
  <1> QED
    BY <1>1, <1>2, <1>3, <1>4, <1>5, <1>6 DEF Next, Step

(* In a session whose receiving pools began with stored_size 0, what the   *)
(* windows, the frames under way and the applications hold is the stream   *)
(* of the sender, each byte in its place (mc_window_pool.c,                *)
(* mc_protocol.c, mc_communication.c).                                     *)
THEOREM ContentCorrect ==
  ASSUME InitStored \subseteq {0}
  PROVE  Spec => [](LinkInv /\ ContentInv)
  <1>1. Init => LinkInv /\ ContentInv
    BY InitLink, InitContent
  <1>2. (LinkInv /\ ContentInv) /\ [Next]_vars => (LinkInv /\ ContentInv)'
    BY StepLink, StepContent
  <1> QED
    BY <1>1, <1>2, PTL DEF Spec

-----------------------------------------------------------------------------
(* What the invariant is for.                                              *)

(* Every window of the ring is the slot of an id.                          *)
LEMMA RingCovers ==
  ASSUME NEW cap \in Nat \ {0}, NEW p \in Pool(cap), NEW w \in Range(p.windows)
  PROVE  \E j \in Span(p) : Slot(p, j) = w
  <1>1. PICK k \in 0 .. cap - 1 : w = p.windows[k]
    <2>1. DOMAIN p.windows = 0 .. cap - 1
      BY DEF Pool
    <2> QED
      BY <2>1 DEF Range
  <1>2. PICK b \in Int : b = p.bgn_id
    BY PoolFacts
  <1>3. p.capacity = cap /\ Span(p) = b .. b + cap - 1
    BY <1>2, PoolFacts, SpanType
  <1>4. \E j \in b .. b + cap - 1 : j % cap = k
    BY <1>1, <1>2, ModCovers
  <1> QED
    BY <1>1, <1>3, <1>4 DEF Slot

(* What was read lies before every packet m that the application has not   *)
(* begun to read.                                                          *)
LEMMA ReadBelow ==
  ASSUME NEW cap \in Nat \ {0}, NEW r \in Pool(cap), NEW L \in Seq(Content), Consecutive(L),
         RcvInv(r, Len(L)), NEW D, RcvContent(r, L, D),
         NEW N \in r.bgn_id .. Len(L), Held(r, r.bgn_id) => N # r.bgn_id
  PROVE  Len(D) <= StartOf(L, N) /\ Len(D) >= StartOf(L, r.bgn_id)
  <1>1. PICK b, st : b = r.bgn_id /\ st = r.stored_size
    OBVIOUS
  <1>2. b \in 0 .. N /\ st \in Nat /\ N \in Nat /\ N <= Len(L) /\ Len(L) \in Nat /\ b \in Span(r)
    <2>1. b \in Nat /\ st \in Nat /\ Len(L) \in Nat
      <3>1. b \in Nat
        BY <1>1, PoolFacts
      <3>2. st \in Nat
        BY <1>1 DEF Pool
      <3> QED
        BY <1>1, <3>1, <3>2
    <2>2. Span(r) = b .. b + cap - 1
      BY <1>1, SpanType
    <2> QED
      BY <1>1, <2>1, <2>2
  <1>3. Len(D) = StartOf(L, b) + st
    BY <1>1 DEF RcvContent
  <1>4. StartOf(L, b) \in Nat /\ StartOf(L, N) \in Nat
    BY <1>1, <1>2, StartType
  <1>5. CASE st = 0
    <2>1. StartOf(L, b) + (N - b) <= StartOf(L, N)
      <3>1. b \in 0 .. Len(L) /\ N \in b .. Len(L)
        BY <1>1, <1>2
      <3> QED
        BY <3>1, StartBounds
    <2> QED
      BY <1>1, <1>2, <1>3, <1>4, <1>5, <2>1
  <1>6. CASE st # 0
    <2>1. PICK w : w = Slot(r, b)
      OBVIOUS
    <2>2. w.id = b /\ st < w.size /\ b # INVALID_ID
      BY <1>1, <1>6, <2>1 DEF RcvContent
    <2>3. b < N
      <3>1. Held(r, b)
        BY <1>1, <1>2, <2>1, <2>2 DEF Held
      <3> QED
        BY <1>1, <1>2, <3>1
    <2>4. w.size = L[b + 1].size
      <3>1. ContentOf(w) = L[b + 1]
        BY <1>1, <1>2, <2>1, <2>2 DEF RcvContent
      <3> QED
        BY <3>1 DEF ContentOf
    <2>5. StartOf(L, b + 1) = StartOf(L, b) + w.size /\ w.size \in Nat
      <3>1. b \in 0 .. Len(L) - 1
        BY <1>1, <1>2, <2>3
      <3>2. L[b + 1].size \in 1 .. Payload /\ StartOf(L, b + 1) = StartOf(L, b) + L[b + 1].size
        BY <3>1, StartNext
      <3> QED
        BY <2>4, <3>2
    <2>6. StartOf(L, b + 1) + (N - (b + 1)) <= StartOf(L, N)
      <3>1. b + 1 \in 0 .. Len(L) /\ N \in b + 1 .. Len(L)
        BY <1>1, <1>2, <2>3
      <3> QED
        BY <3>1, StartBounds
    <2> QED
      BY <1>1, <1>2, <1>3, <1>4, <2>2, <2>3, <2>5, <2>6, SMTT(30)
  <1> QED
    BY <1>5, <1>6

(* The facts of one direction in the terms of the lemmas.                  *)
LEMMA DirectionFacts ==
  ASSUME LinkInv, ContentInv, NEW e \in End
  PROVE  /\ snd[e] \in Pool(SndCap) /\ rcv[Peer(e)] \in Pool(RcvCap) /\ log[e] \in Seq(Content)
         /\ SenderInv(snd[e], Len(log[e])) /\ RcvInv(rcv[Peer(e)], Len(log[e]))
         /\ Len(log[e]) <= rcv[Peer(e)].bgn_id + IdMod
         /\ Consecutive(log[e]) /\ SndContent(snd[e], log[e], accepted[e])
         /\ RcvContent(rcv[Peer(e)], log[e], delivered[Peer(e)])
         /\ OutContent(net[Peer(e)], log[e]) /\ FlushContent(call[e], snd[e], log[e])
         /\ \A f \in net[Peer(e)] : f.type = "data" => f.id < Len(log[e])
         /\ \A id \in 0 .. Len(log[e]) - 1 : Acked(snd[e], id) => Held(rcv[Peer(e)], id)
         /\ accepted[e] \in Nat /\ Pending(snd[e]) \in Nat /\ Len(log[e]) \in Nat
  <1>1. log[e] \in Seq(Content)
    BY DEF LinkInv, TypeOK
  <1>2. DirectionInv(snd[e], rcv[Peer(e)], Len(log[e]), net[Peer(e)], net[e])
    BY EndFacts
  <1>3. DirectionContent(snd[e], rcv[Peer(e)], log[e], accepted[e],
                         delivered[Peer(e)], net[Peer(e)], call[e])
    BY EndContent
  <1>4. /\ snd[e] \in Pool(SndCap) /\ rcv[Peer(e)] \in Pool(RcvCap)
        /\ accepted[e] \in Nat /\ Len(log[e]) \in Nat
    BY EndFacts
  <1>5. SenderInv(snd[e], Len(log[e]))
    BY <1>2 DEF DirectionInv
  <1>6. Pending(snd[e]) \in Nat
    <2>1. Pending(snd[e]) \in 0 .. Payload
      BY <1>4, <1>5, CapAssumption, RingsFit, SenderBounds
    <2> QED
      BY <2>1
  <1>7. Len(log[e]) <= rcv[Peer(e)].bgn_id + IdMod
    BY <1>2, <1>4, CloseBehind
  <1> QED
    BY <1>1, <1>2, <1>3, <1>4, <1>6, <1>7 DEF DirectionInv, DirectionContent

LEMMA ContentInOrder == LinkInv /\ ContentInv => InOrderDelivery
  <1> SUFFICES ASSUME LinkInv, ContentInv, NEW e \in End
               PROVE  /\ Len(delivered[e]) <= accepted[Peer(e)]
                      /\ \A i \in DOMAIN delivered[e] : delivered[e][i] = i
    BY DEF InOrderDelivery
  <1>1. PICK r, L, D, s, a : /\ r = rcv[e] /\ L = log[Peer(e)] /\ D = delivered[e]
                            /\ s = snd[Peer(e)] /\ a = accepted[Peer(e)]
    OBVIOUS
  <1>2. /\ r \in Pool(RcvCap) /\ L \in Seq(Content) /\ Consecutive(L)
        /\ RcvInv(r, Len(L)) /\ RcvContent(r, L, D)
        /\ SndContent(s, L, a) /\ Pending(s) \in Nat /\ a \in Nat
    BY <1>1, PeerType, DirectionFacts
  <1>3. Len(D) <= StartOf(L, Len(L))
    <2>1. r.bgn_id \in Nat /\ Len(L) \in Nat /\ r.bgn_id <= Len(L)
      <3>1. r.bgn_id \in Nat
        BY <1>2, PoolFacts
      <3>2. r.bgn_id <= Len(L)
        BY <1>2 DEF RcvInv
      <3>3. Len(L) \in Nat
        BY <1>2
      <3> QED
        BY <3>1, <3>2, <3>3
    <2>2. Held(r, r.bgn_id) => Len(L) # r.bgn_id
      BY <1>2, <2>1, HeldBelow
    <2>3. Len(L) \in r.bgn_id .. Len(L)
      BY <2>1
    <2> QED
      BY <1>2, <2>2, <2>3, ReadBelow
  <1>4. a = StartOf(L, Len(L)) + Pending(s) /\ StartOf(L, Len(L)) \in Nat /\ Len(D) \in Nat
    <2>1. Len(L) \in 0 .. Len(L)
      BY <1>2
    <2>2. D \in Seq(Nat)
      BY <1>1 DEF LinkInv, TypeOK
    <2> QED
      BY <1>2, <2>1, <2>2, StartType DEF SndContent
  <1>5. Len(D) <= a
    BY <1>2, <1>3, <1>4
  <1>6. \A i \in DOMAIN D : D[i] = i
    BY <1>2 DEF RcvContent
  <1> QED
    BY <1>1, <1>5, <1>6

(* No id has been stamped twice.                                           *)
IdsLast == \A e \in End : Len(log[e]) < IdMod

LEMMA ContentPerId == LinkInv /\ ContentInv => (IdsLast => OneContentPerId)
  <1> SUFFICES ASSUME LinkInv, ContentInv, IdsLast, NEW e \in End, NEW x,
                      \/ x \in net[Peer(e)] /\ x.type = "data"
                      \/ /\ x \in Range(snd[e].windows) \cup Range(rcv[Peer(e)].windows)
                         /\ IsValid(x)
               PROVE  x.id < Len(log[e]) /\ ContentOf(x) = log[e][x.id + 1]
    BY DEF OneContentPerId
  <1>1. PICK s, r, L, N, out : /\ s = snd[e] /\ r = rcv[Peer(e)] /\ L = log[e] /\ N = Len(L)
                              /\ out = net[Peer(e)]
    OBVIOUS
  <1>2. /\ s \in Pool(SndCap) /\ r \in Pool(RcvCap) /\ SenderInv(s, N) /\ RcvInv(r, N)
        /\ L \in Seq(Content) /\ SndContent(s, L, accepted[e])
        /\ RcvContent(r, L, delivered[Peer(e)]) /\ OutContent(out, L)
        /\ \A f \in out : f.type = "data" => f.id < N
    BY <1>1, DirectionFacts
  <1>6. N \in Nat /\ N < IdMod /\ IdMod \in Nat
    BY <1>1, <1>2, IdModAssumption DEF IdsLast
  <1>3. CASE x \in out /\ x.type = "data"
    <2>1. x.id \in Nat
      <3>1. x \in Frame
        BY <1>1, <1>3, PeerType DEF LinkInv, TypeOK
      <3> QED
        BY <3>1, IdModAssumption DEF Frame, Ids
    <2>2. ContentOf(x) = L[x.id + 1] \/ x.id + IdMod < N
      BY <1>1, <1>2, <1>3 DEF OutContent
    <2> QED
      BY <1>1, <1>2, <1>3, <1>6, <2>1, <2>2
  <1>4. CASE x \in Range(s.windows) /\ IsValid(x)
    <2>1. PICK j \in Span(s) : Slot(s, j) = x
      BY <1>2, <1>4, RingCovers
    <2>5. SndRing(s, N)
      <3>1. s.end_id \in Nat
        BY <1>2, CapAssumption, PoolFacts
      <3>2. ~SndSpent(s, N)
        BY <1>6, <3>1 DEF SndSpent
      <3> QED
        BY <1>2, <3>2 DEF SenderInv, SndInv
    <2>2. j < N
      <3>1. j \in Int /\ N \in Int
        BY <1>1, <1>2, SpanType
      <3> QED
        BY <1>4, <2>1, <2>5, <3>1 DEF SndRing, IsValid
    <2>3. x.id = j
      BY <2>1, <2>2, <2>5 DEF SndRing
    <2>4. ContentOf(x) = L[j + 1]
      BY <1>1, <1>2, <2>1, <2>2, <2>5 DEF SndContent, SndRing
    <2> QED
      BY <1>1, <2>2, <2>3, <2>4
  <1>5. CASE x \in Range(r.windows) /\ IsValid(x)
    <2>1. PICK j \in Span(r) : Slot(r, j) = x
      BY <1>2, <1>5, RingCovers
    <2>2. x.id = j /\ j < N
      BY <1>2, <1>5, <2>1 DEF RcvInv, IsValid
    <2>3. ContentOf(x) = L[j + 1]
      BY <1>2, <1>5, <2>1, <2>2 DEF RcvContent, IsValid
    <2> QED
      BY <1>1, <2>2, <2>3
  <1> QED
    BY <1>1, <1>3, <1>4, <1>5

(* Two passes of wndpool_write take all that mc_comm_send passes: only a   *)
(* window that was empty may stay unstamped when it becomes full, and into *)
(* an empty window everything goes.                                        *)
LEMMA WriteTakes ==
  ASSUME NEW cap \in Nat \ {0}, NEW s \in Pool(cap),
         (s.end_id - s.bgn_id) % IdMod \in 0 .. cap - 1, NEW pos \in Nat, NEW n \in 1 .. Payload, CanWrite(s)
  PROVE  Write(s, pos, n).taken = n
  <1> DEFINE w == Last(s)
             seg == Smaller(n, Payload - w.size)
             grow == [w EXCEPT !.from = IF w.size = 0 THEN pos ELSE w.from,
                               !.size = w.size + seg]
             fill == [s EXCEPT !.windows[LastIndex(s)] = grow]
             one == WriteSeg(s, pos, n)
             head == [UpdateHeader(fill) EXCEPT !.end_id = (s.end_id + 1) % IdMod]
             next == [head EXCEPT !.windows[LastIndex(head)] = Cleared]
  <1>1. w \in Window /\ w.size \in 0 .. Payload /\ LastIndex(s) \in 0 .. cap - 1
    BY LastType, IndexType DEF Window, LastIndex, Pool
  <1>2. seg \in 0 .. n /\ seg = IF n <= Payload - w.size THEN n ELSE Payload - w.size
    BY <1>1 DEF Smaller
  <1>3. one.taken = seg
    BY DEF WriteSeg
  <1>4. CASE seg = n
    <2> HIDE DEF one
    <2>1. Write(s, pos, n) = one
      BY <1>3, <1>4 DEF Write, one
    <2> QED
      BY <1>3, <1>4, <2>1
  <1>5. CASE seg # n
    <2>1. w.size + seg = Payload /\ w.size # 0 /\ Payload # 0
      BY <1>1, <1>2, <1>5
    <2>2. PICK d : d = (s.end_id - s.bgn_id) % IdMod
      OBVIOUS
    <2>3. d < cap /\ d \in Nat
      BY <2>2
    <2>4. Count(s) = d + 1 /\ Count(s) # cap
      BY <2>1, <2>2 DEF Count, CanWrite, Pool
    <2>5. /\ fill.end_id = s.end_id /\ fill.bgn_id = s.bgn_id /\ fill.capacity = s.capacity
          /\ Last(fill) = grow
      <3>1. /\ fill.end_id = s.end_id /\ fill.bgn_id = s.bgn_id /\ fill.capacity = s.capacity
            /\ fill.windows = [s.windows EXCEPT ![LastIndex(s)] = grow]
            /\ DOMAIN s.windows = 0 .. cap - 1
        BY DEF Pool
      <3>2. LastIndex(fill) = LastIndex(s)
        BY <3>1 DEF LastIndex, GetIndex
      <3> QED
        BY <1>1, <3>1, <3>2 DEF Last
    <2>6. Count(fill) = d + 1
      <3>1. grow.size = Payload
        BY <1>1, <2>1 DEF Window
      <3> QED
        BY <2>1, <2>2, <2>5, <3>1 DEF Count
    <2>7. Count(fill) < s.capacity
      BY <2>3, <2>4, <2>6 DEF Pool
    <2>8. one.pool = next
      BY <2>1, <2>7 DEF WriteSeg
    <2>9. Last(next) = Cleared
      <3>1. fill \in Pool(cap)
        <4>1. grow \in Window
          <5>1. w.size + seg \in 0 .. Payload
            BY <2>1
          <5> HIDE DEF w, seg
          <5> QED
            BY <1>1, <5>1 DEF Window
        <4> HIDE DEF grow
        <4> QED
          BY <1>1, <4>1, OneWindowType
      <3>2. UpdateHeader(fill) \in Pool(cap)
        <4> HIDE DEF fill
        <4> QED
          BY <3>1, UpdateHeaderType
      <3>3. head \in Pool(cap)
        <4>1. (s.end_id + 1) % IdMod \in Ids
          <5>1. s.end_id + 1 \in Int /\ IdMod \in Nat \ {0}
            BY DEF Pool, Ids
          <5> QED
            BY <5>1, ModType DEF Ids
        <4> HIDE DEF fill
        <4> QED
          BY <3>2, <4>1 DEF Pool
      <3> HIDE DEF head
      <3>4. LastIndex(head) \in 0 .. cap - 1 /\ LastIndex(next) = LastIndex(head)
        BY <3>3, LastType DEF LastIndex, GetIndex, Pool
      <3> QED
        BY <3>3, <3>4 DEF Last, Pool
    <2>10. Last(one.pool).size = 0
      BY <2>8, <2>9 DEF Cleared
    <2> HIDE DEF one
    <2>11. WriteSeg(one.pool, pos + one.taken, n - one.taken).taken = n - seg
      BY <1>2, <1>3, <2>10 DEF WriteSeg, Smaller
    <2>12. Write(s, pos, n).taken = seg + (n - seg)
      BY <1>3, <1>5, <2>11 DEF Write, one
    <2> QED
      BY <1>2, <2>12
  <1> QED
    BY <1>4, <1>5

LEMMA LinkTakesAll == LinkInv => WriteTakesAll
  <1> SUFFICES ASSUME LinkInv, NEW e \in End, NEW n \in 1 .. Payload, CanWrite(snd[e])
               PROVE  Write(snd[e], accepted[e], n).taken = n
    BY DEF WriteTakesAll
  <1>1. snd[e] \in Pool(SndCap) /\ accepted[e] \in Nat
    BY EndFacts
  <1>2. PICK s, N : s = snd[e] /\ N = Len(log[e])
    OBVIOUS
  <1>3. s \in Pool(SndCap) /\ N \in Nat /\ SenderInv(s, N)
    BY <1>2, EndFacts DEF DirectionInv
  <1>4. (s.end_id - s.bgn_id) % IdMod \in 0 .. SndCap - 1
    <2>1. PICK f : f = Filling(s, N)
      OBVIOUS
    <2>2. /\ f \in Nat /\ s.bgn_id <= f /\ f < s.bgn_id + SndCap
          /\ (s.end_id - s.bgn_id) % IdMod = f - s.bgn_id
      BY <1>3, <2>1, CapAssumption, RingsFit, FillingFacts
    <2>3. s.bgn_id \in Nat /\ SndCap \in Nat
      BY <1>3, CapAssumption, PoolFacts
    <2> QED
      BY <2>2, <2>3
  <1> QED
    BY <1>1, <1>2, <1>3, <1>4, CapAssumption, WriteTakes

(* A packet is in the receiving pool if and only if it is in its own       *)
(* window there, or was handed over.                                       *)
LEMMA ReceivedHeld ==
  ASSUME NEW r \in Pool(RcvCap), NEW N \in Nat, RcvInv(r, N), NEW id \in Nat
  PROVE  Received(r, id) <=> Held(r, id)
  <1>1. /\ DOMAIN r.windows = 0 .. RcvCap - 1 /\ r.capacity = RcvCap
        /\ RcvCap \in Nat \ {0} /\ id \in Int
    BY DEF Pool
  <1>2. ASSUME Held(r, id) PROVE Received(r, id)
    <2>1. id % RcvCap \in 0 .. RcvCap - 1
      BY <1>1, ModType
    <2> QED
      BY <1>1, <1>2, <2>1 DEF Held, Received, Slot, IsValid
  <1>3. ASSUME NEW k \in DOMAIN r.windows, IsValid(r.windows[k]), r.windows[k].id = id
        PROVE  Held(r, id)
    <2>1. r.windows[k] \in Range(r.windows)
      BY <1>3 DEF Range
    <2>2. PICK j \in Span(r) : Slot(r, j) = r.windows[k]
      BY <1>1, <2>1, RingCovers
    <2>3. id # INVALID_ID
      BY <1>3 DEF IsValid
    <2>4. Slot(r, j).id = j
      BY <1>3, <2>2, <2>3 DEF RcvInv
    <2> QED
      BY <1>3, <2>2, <2>3, <2>4 DEF Held
  <1> QED
    BY <1>2, <1>3 DEF Received, Held

LEMMA ContentFlushed == LinkInv /\ ContentInv => FlushedIsReceived
  <1> SUFFICES ASSUME LinkInv, ContentInv, NEW e \in End, call[e] = Flushed
               PROVE  /\ \A id \in 0 .. Len(log[e]) - 1 : Received(rcv[Peer(e)], id)
                      /\ accepted[e] = IF log[e] = << >> THEN 0
                                       ELSE log[e][Len(log[e])].from + log[e][Len(log[e])].size
    BY DEF FlushedIsReceived
  <1>1. PICK s, r, L, N : s = snd[e] /\ r = rcv[Peer(e)] /\ L = log[e] /\ N = Len(L)
    OBVIOUS
  <1>2. /\ r \in Pool(RcvCap) /\ L \in Seq(Content) /\ N \in Nat /\ RcvInv(r, N)
        /\ SndContent(s, L, accepted[e]) /\ FlushContent(call[e], s, L)
        /\ \A id \in 0 .. N - 1 : Acked(s, id) => Held(r, id)
    BY <1>1, DirectionFacts
  <1>3. s.bgn_id = N /\ Pending(s) = 0
    BY <1>1, <1>2 DEF FlushContent
  <1>4. ASSUME NEW id \in 0 .. N - 1 PROVE Received(r, id)
    <2>1. Held(r, id)
      BY <1>2, <1>3 DEF Acked
    <2>2. id \in Nat
      BY <1>2
    <2> QED
      BY <1>2, <2>1, <2>2, ReceivedHeld
  <1>5. accepted[e] = StartOf(L, N)
    <2>1. StartOf(L, N) \in Nat
      BY <1>1, <1>2, StartType
    <2> QED
      BY <1>1, <1>2, <1>3, <2>1 DEF SndContent
  <1>6. L = << >> <=> N = 0
    BY <1>1, <1>2
  <1> QED
    BY <1>1, <1>4, <1>5, <1>6 DEF StartOf

(* mc_comm_recv hands over exactly the bytes the peer's mc_comm_send       *)
(* accepted, each once and in order, whatever the network lost, repeated   *)
(* or reordered, and for pools of every capacity (api.md:112).             *)
THEOREM InOrder ==
  ASSUME InitStored \subseteq {0}
  PROVE  Spec => []InOrderDelivery
  BY ContentCorrect, ContentInOrder, PTL

(* As long as no id was stamped twice, a packet id stands for one content, *)
(* under way and in the two pools: mc_comm_send never adds bytes to a      *)
(* window that was stamped.                                                *)
THEOREM OneContent ==
  ASSUME InitStored \subseteq {0}
  PROVE  Spec => [](IdsLast => OneContentPerId)
  BY ContentCorrect, ContentPerId, PTL

(* The loop of wndpool_write ends: two passes take every byte mc_comm_send *)
(* passes, also when an earlier call left a full window unstamped.         *)
THEOREM TakesAll == Spec => []WriteTakesAll
  BY LinkCorrect, LinkTakesAll, PTL

(* When mc_comm_flush has returned true, the peer has every byte accepted  *)
(* before (api.md:157).                                                    *)
THEOREM FlushReceived ==
  ASSUME InitStored \subseteq {0}
  PROVE  Spec => []FlushedIsReceived
  BY ContentCorrect, ContentFlushed, PTL

-----------------------------------------------------------------------------
(* The first packet that a receiving pool lacks.                           *)

LEMMA MissingFacts ==
  ASSUME NEW r \in Pool(RcvCap), NEW N \in Nat, RcvInv(r, N)
  PROVE  /\ FirstMissing(r) \in r.bgn_id .. r.bgn_id + RcvCap
         /\ FirstMissing(r) \in Nat /\ FirstMissing(r) <= N
         /\ ~Held(r, FirstMissing(r))
         /\ \A id \in Nat : id < FirstMissing(r) => Held(r, id)
  <1> DEFINE b == r.bgn_id
             T == {n \in Nat : ~Held(r, n)}
             First(n) == ~Received(r, n) /\ \A id \in b .. n - 1 : Received(r, id)
  <1>1. /\ b \in Nat /\ b <= N /\ RcvCap \in Nat \ {0}
        /\ Span(r) = b .. b + RcvCap - 1
    BY PoolFacts, SpanType DEF RcvInv
  <1>2. N \in T /\ b + RcvCap \in T
    <2>1. ~Held(r, N)
      BY HeldBelow
    <2>2. ~Held(r, b + RcvCap)
      BY <1>1 DEF Held
    <2> QED
      BY <1>1, <2>1, <2>2
  <1>3. PICK m \in T : \A n \in T : m <= n
    BY <1>2, LeastNatural
  <1>4. m \in b .. b + RcvCap /\ m <= N /\ \A id \in Nat : id < m => Held(r, id)
    <2>1. b <= m
      BY <1>1, <1>3 DEF Held
    <2>2. m <= b + RcvCap /\ m <= N
      BY <1>2, <1>3
    <2>3. \A id \in Nat : id < m => Held(r, id)
      BY <1>3
    <2> QED
      BY <1>1, <1>3, <2>1, <2>2, <2>3
  <1>5. \A id \in b .. b + RcvCap : id \in Nat /\ (Received(r, id) <=> Held(r, id))
    <2> SUFFICES ASSUME NEW id \in b .. b + RcvCap
                 PROVE  id \in Nat /\ (Received(r, id) <=> Held(r, id))
      OBVIOUS
    <2>1. id \in Nat
      BY <1>1
    <2> QED
      BY <2>1, ReceivedHeld
  <1>6. First(m)
    <2>1. ~Held(r, m)
      BY <1>3
    <2>2. \A id \in b .. m - 1 : id \in b .. b + RcvCap /\ id < m
      BY <1>1, <1>4
    <2> QED
      BY <1>4, <1>5, <2>1, <2>2
  <1>7. ASSUME NEW n \in b .. b + RcvCap, First(n) PROVE n = m
    <2>1. n \in Nat /\ ~Held(r, n)
      BY <1>5, <1>7
    <2>2. m <= n
      BY <1>3, <2>1
    <2>3. ~(m < n)
      <3>1. m \in b .. n - 1 => Received(r, m)
        BY <1>7
      <3> QED
        BY <1>1, <1>4, <1>6, <2>1, <3>1
    <2> QED
      BY <1>4, <2>1, <2>2, <2>3
  <1>8. FirstMissing(r) = m
    <2>1. FirstMissing(r) = CHOOSE n \in b .. b + RcvCap : First(n)
      BY DEF FirstMissing
    <2> HIDE DEF First
    <2> QED
      BY <1>4, <1>6, <1>7, <2>1
  <1> QED
    BY <1>3, <1>4, <1>8

(* It moves on only.                                                       *)
LEMMA MissingGrows ==
  ASSUME NEW r \in Pool(RcvCap), NEW q \in Pool(RcvCap), NEW N \in Nat,
         RcvInv(r, N), RcvInv(q, N),
         \A j \in Nat : Held(r, j) => Held(q, j)
  PROVE  FirstMissing(r) <= FirstMissing(q)
  <1>1. PICK m, k : m = FirstMissing(r) /\ k = FirstMissing(q)
    OBVIOUS
  <1>2. m \in Nat /\ \A id \in Nat : id < m => Held(r, id)
    BY <1>1, MissingFacts
  <1>3. k \in Nat /\ ~Held(q, k)
    BY <1>1, MissingFacts
  <1> QED
    BY <1>1, <1>2, <1>3

(* What wndpool_read hands over stays received.                            *)
LEMMA ReadHeld ==
  ASSUME NEW cap \in Nat \ {0}, NEW r \in Pool(cap), NEW N \in Nat, RcvInv(r, N),
         NEW n \in Nat, NEW id \in Nat, Held(Read(r, n).pool, id)
  PROVE  Held(r, id)
  <1>1. PICK q, b : q = Read(r, n).pool /\ b = r.bgn_id
    OBVIOUS
  <1>2. /\ r.capacity = cap /\ b \in Nat /\ b <= N /\ r.bgn_index = b % cap
        /\ Span(r) = b .. b + cap - 1
    <2>1. r.capacity = cap /\ b \in Nat /\ Span(r) = b .. b + cap - 1
      BY <1>1, PoolFacts, SpanType
    <2> QED
      BY <1>1, <2>1 DEF RcvInv
  <1>3. PICK r0 : r0 = [r EXCEPT !.stored_size = 0]
    OBVIOUS
  <1>4. CASE q.bgn_id = b /\ q.windows = r.windows /\ q.capacity = r.capacity
    BY <1>1, <1>4 DEF Held, Span, Slot
  <1>5. CASE IsAckedAt(r, 0) /\ q = RemoveFirst(r0, 1)
    <2>1. /\ r0 \in Pool(cap) /\ r0.bgn_id = b /\ r0.bgn_index = r.bgn_index
          /\ r0.capacity = cap /\ r0.windows = r.windows
      <3>1. 0 \in 0 .. Payload
        OBVIOUS
      <3> QED
        BY <1>1, <1>3, <3>1 DEF Pool
    <2>2. /\ Aligned(r0, cap) /\ Aligned(r, cap) /\ \A j : Slot(r0, j) = Slot(r, j)
      BY <1>1, <1>2, <2>1 DEF Aligned, Slot
    <2>3. Slot(r, b).id = b /\ b < N /\ b # INVALID_ID
      <3>1. Slot(r, b).id # INVALID_ID
        BY <1>1, <1>5, <2>2, FirstSlot
      <3>2. b \in Span(r)
        BY <1>2
      <3> QED
        BY <3>1, <3>2 DEF RcvInv
    <2>4. b + 1 < IdMod /\ 1 \in 0 .. cap
      <3>1. b < IdMod
        BY <1>1 DEF Pool, Ids
      <3> QED
        BY <1>2, <2>3, <3>1 DEF INVALID_ID
    <2>5. /\ q.bgn_id = b + 1 /\ q \in Pool(cap)
          /\ \A j \in b + 1 .. b + cap - 1 : Slot(q, j) = Slot(r, j)
          /\ \A j \in b + cap .. b + 1 + cap - 1 : Slot(q, j) = Cleared
      <3>1. /\ Aligned(q, cap) /\ q.bgn_id = r0.bgn_id + 1
            /\ \A j \in r0.bgn_id + 1 .. r0.bgn_id + cap - 1 : Slot(q, j) = Slot(r0, j)
            /\ \A j \in r0.bgn_id + cap .. r0.bgn_id + 1 + cap - 1 : Slot(q, j) = Cleared
        BY <1>5, <2>1, <2>2, <2>4, RemoveFirstSlots
      <3> QED
        BY <2>1, <2>2, <3>1 DEF Aligned
    <2>6. CASE id < b + 1
      <3>1. id < b \/ id = b
        BY <1>2, <2>6
      <3> QED
        BY <1>1, <1>2, <2>3, <3>1 DEF Held
    <2>7. CASE id # INVALID_ID /\ id \in Span(q) /\ Slot(q, id).id = id
      <3>1. Span(q) = b + 1 .. b + cap
        <4>1. Span(q) = q.bgn_id .. q.bgn_id + cap - 1
          BY <2>5, SpanType
        <4> QED
          BY <1>2, <2>5, <4>1
      <3>2. id # b + cap
        <4>1. Slot(q, b + cap).id = INVALID_ID
          BY <1>2, <2>5 DEF Cleared
        <4> QED
          BY <2>7, <4>1
      <3>3. id \in b + 1 .. b + cap - 1 /\ id \in Span(r)
        BY <1>2, <2>7, <3>1, <3>2
      <3> QED
        BY <2>5, <2>7, <3>3 DEF Held
    <2> QED
      BY <1>1, <2>5, <2>6, <2>7 DEF Held
  <1>6. \/ q.bgn_id = b /\ q.windows = r.windows /\ q.capacity = r.capacity
        \/ IsAckedAt(r, 0) /\ q = RemoveFirst(r0, 1)
    <2> DEFINE w   == Get(r, r.bgn_id)
               m   == IF r.stored_size <= w.size
                      THEN Smaller(w.size - r.stored_size, n) ELSE n
               sum == r.stored_size + m
    <2>1. CASE ~IsAckedAt(r, 0)
      BY <1>1, <2>1 DEF Read
    <2>2. CASE IsAckedAt(r, 0)
      <3>1. q = IF sum >= w.size THEN RemoveFirst(r0, 1) ELSE [r EXCEPT !.stored_size = sum]
        BY <1>1, <1>3, <2>2 DEF Read
      <3> HIDE DEF sum, w
      <3> QED
        BY <1>1, <2>2, <3>1 DEF Pool
    <2> QED
      BY <2>1, <2>2
  <1> QED
    BY <1>4, <1>5, <1>6

-----------------------------------------------------------------------------
(* The two pools of a direction bound what is under way in it.             *)

LEMMA TimesGrows ==
  ASSUME NEW x \in Nat, NEW y \in Nat, x <= y
  PROVE  x * Payload <= y * Payload
  <1>1. PICK d \in Nat : y = x + d
    <2>1. y - x \in Nat /\ y = x + (y - x)
      OBVIOUS
    <2> QED
      BY <2>1
  <1>2. y * Payload = x * Payload + d * Payload /\ d * Payload \in Nat /\ x * Payload \in Nat
    BY <1>1
  <1> QED
    BY <1>2

LEMMA RoomFacts ==
  ASSUME NEW s \in Pool(SndCap), NEW r \in Pool(RcvCap), NEW L \in Seq(Content),
         NEW N \in Nat, N = Len(L), SenderInv(s, N), RcvInv(r, N), Consecutive(L), NEW a, SndContent(s, L, a),
         NEW D, RcvContent(r, L, D), \A id \in 0 .. N - 1 : Acked(s, id) => Held(r, id)
  PROVE  a <= Len(D) + (SndCap + RcvCap) * Payload
  <1>1. PICK b, c, f : b = r.bgn_id /\ c = s.bgn_id /\ f = Filling(s, N)
    OBVIOUS
  <1>2. SndCap \in Nat \ {0} /\ SndCap <= IdMod /\ c \in Nat
    BY <1>1, CapAssumption, RingsFit, PoolFacts
  <1>3. f \in Nat /\ c <= f /\ f < c + SndCap /\ (N = f \/ N = f + 1)
    <2>1. f \in Nat /\ c <= f /\ f < c + SndCap
      BY <1>1, <1>2, FillingFacts
    <2> QED
      BY <1>1, <2>1 DEF Filling
  <1>4. Pending(s) \in 0 .. Payload /\ (N = f + 1 => Pending(s) = 0)
    <2>1. Pending(s) \in 0 .. Payload
      BY <1>2, SenderBounds
    <2>2. N = f + 1 => Last(s).is_sent
      BY <1>1 DEF Filling
    <2> QED
      BY <2>1, <2>2 DEF Pending
  <1>5. b \in Nat /\ b <= N /\ Span(r) = b .. b + RcvCap - 1 /\ SndCap \in Nat /\ RcvCap \in Nat
    BY <1>1, PoolFacts, SpanType DEF RcvInv
  <1>6. c <= b + RcvCap
    <2>1. ASSUME b + RcvCap < c PROVE FALSE
      <3>1. b + RcvCap \in 0 .. N - 1
        BY <1>2, <1>3, <1>5, <2>1
      <3>3. Acked(s, b + RcvCap)
        BY <1>1, <2>1 DEF Acked
      <3>2. Held(r, b + RcvCap)
        BY <3>1, <3>3
      <3> QED
        BY <1>1, <1>5, <3>2 DEF Held
    <2> QED
      BY <1>2, <1>3, <1>5, <2>1
  <1>7. PICK k \in Nat : N = b + k
    <2>1. N - b \in Nat /\ N = b + (N - b)
      BY <1>5
    <2> QED
      BY <2>1
  <1>8. StartOf(L, N) <= StartOf(L, b) + k * Payload /\ StartOf(L, b) \in Nat /\ StartOf(L, N) \in Nat
    <2>1. b \in 0 .. Len(L) /\ N \in b .. Len(L) /\ N - b = k
      BY <1>5, <1>7
    <2>2. StartOf(L, N) <= StartOf(L, b) + (N - b) * Payload
      BY <2>1, StartBounds
    <2>3. StartOf(L, b) \in Nat /\ StartOf(L, N) \in Nat
      BY <2>1, StartType
    <2> QED
      BY <2>1, <2>2, <2>3
  <1>9. a = StartOf(L, N) + Pending(s)
    BY DEF SndContent
  <1>10. Len(D) >= StartOf(L, b) /\ Len(D) \in Int
    <2>1. Len(D) = StartOf(L, b) + r.stored_size /\ r.stored_size \in Nat
      BY <1>1 DEF RcvContent, Pool
    <2> QED
      BY <1>8, <2>1
  <1>11. PICK m, p \in Nat : m = SndCap + RcvCap /\ p = m * Payload
    BY <1>5
  <1>12. k * Payload + Pending(s) <= p
    <2>1. k * Payload \in Nat /\ (k + 1) * Payload = k * Payload + Payload
      OBVIOUS
    <2>2. CASE N = f + 1
      <3>1. k <= m
        BY <1>2, <1>3, <1>5, <1>6, <1>7, <1>11, <2>2
      <3>2. k * Payload <= m * Payload
        BY <1>11, <3>1, TimesGrows
      <3> QED
        BY <1>4, <1>11, <2>1, <2>2, <3>2
    <2>3. CASE N # f + 1
      <3>1. k + 1 <= m /\ k + 1 \in Nat
        BY <1>2, <1>3, <1>5, <1>6, <1>7, <1>11, <2>3
      <3>2. (k + 1) * Payload <= m * Payload
        BY <1>11, <3>1, TimesGrows
      <3>3. PICK u \in Nat : u = k * Payload
        BY <2>1
      <3>4. u + Payload <= p
        BY <1>11, <2>1, <3>2, <3>3
      <3>5. u + Pending(s) <= p
        <4>1. Pending(s) \in Nat /\ Pending(s) <= Payload /\ u \in Nat /\ p \in Nat
          BY <1>4, <1>11, <3>3
        <4>2. PICK x \in Nat : x = Pending(s)
          BY <4>1
        <4> QED
          BY <3>4, <4>1, <4>2
      <3> QED
        BY <3>3, <3>5
    <2> QED
      BY <2>2, <2>3
  <1>13. k * Payload \in Nat /\ Pending(s) \in Nat
    BY <1>4
  <1>14. a <= Len(D) + p
    BY <1>8, <1>9, <1>10, <1>11, <1>12, <1>13
  <1> QED
    BY <1>11, <1>14

(* What the applications may have between them.                            *)
UnderWay == \A e \in End : accepted[e] <= Len(delivered[Peer(e)]) + (SndCap + RcvCap) * Payload

LEMMA RoomUnderWay == LinkInv /\ ContentInv => UnderWay
  <1> SUFFICES ASSUME LinkInv, ContentInv, NEW e \in End
               PROVE  accepted[e] <= Len(delivered[Peer(e)]) + (SndCap + RcvCap) * Payload
    BY DEF UnderWay
  <1>1. PICK s, r, L, N, a, D :
          /\ s = snd[e] /\ r = rcv[Peer(e)] /\ L = log[e] /\ N = Len(L)
          /\ a = accepted[e] /\ D = delivered[Peer(e)]
    OBVIOUS
  <1>2. /\ s \in Pool(SndCap) /\ r \in Pool(RcvCap) /\ L \in Seq(Content) /\ N \in Nat
        /\ SenderInv(s, N) /\ RcvInv(r, N) /\ Consecutive(L) /\ SndContent(s, L, a) /\ RcvContent(r, L, D)
        /\ \A id \in 0 .. N - 1 : Acked(s, id) => Held(r, id)
    BY <1>1, DirectionFacts
  <1>3. a <= Len(D) + (SndCap + RcvCap) * Payload
    BY <1>1, <1>2, RoomFacts
  <1> QED
    BY <1>1, <1>3

-----------------------------------------------------------------------------
(* The bytes that are safe at the receiver.                                *)

LEMMA ArrivedFacts ==
  ASSUME LinkInv, ContentInv, NEW e \in End
  PROVE  /\ Arrived[e] = StartOf(log[e], FirstMissing(rcv[Peer(e)]))
         /\ FirstMissing(rcv[Peer(e)]) \in 0 .. Len(log[e])
         /\ Arrived[e] \in Nat /\ Arrived[e] <= accepted[e]
         /\ Len(delivered[Peer(e)]) <= Arrived[e]
  <1>1. PICK s, r, L, N, D, m :
          /\ s = snd[e] /\ r = rcv[Peer(e)] /\ L = log[e] /\ N = Len(L)
          /\ D = delivered[Peer(e)] /\ m = FirstMissing(r)
    OBVIOUS
  <1>2. /\ r \in Pool(RcvCap) /\ L \in Seq(Content) /\ N \in Nat /\ RcvInv(r, N)
        /\ Consecutive(L) /\ SndContent(s, L, accepted[e])
        /\ RcvContent(r, L, D) /\ Pending(s) \in Nat
    BY <1>1, DirectionFacts
  <1>3. m \in Nat /\ m <= N /\ r.bgn_id <= m /\ ~Held(r, m)
    <2>1. r.bgn_id \in Nat
      BY <1>2, PoolFacts
    <2>2. m \in r.bgn_id .. r.bgn_id + RcvCap /\ m \in Nat /\ m <= N /\ ~Held(r, m)
      BY <1>1, <1>2, MissingFacts
    <2> QED
      BY <2>1, <2>2
  <1>4. StartOf(L, m) \in Nat /\ StartOf(L, N) \in Nat /\ StartOf(L, m) <= StartOf(L, N)
    <2>1. m \in 0 .. Len(L) /\ N \in m .. Len(L) /\ N \in 0 .. Len(L) /\ N - m \in Nat
      BY <1>1, <1>2, <1>3
    <2>2. StartOf(L, m) \in Nat /\ StartOf(L, N) \in Nat
      BY <1>2, <2>1, StartType
    <2>3. StartOf(L, m) + (N - m) <= StartOf(L, N)
      BY <1>2, <2>1, StartBounds
    <2> QED
      BY <2>1, <2>2, <2>3
  <1>5. StartOf(L, m) <= accepted[e]
    <2>1. accepted[e] = StartOf(L, N) + Pending(s)
      BY <1>1, <1>2 DEF SndContent
    <2> QED
      BY <1>2, <1>4, <2>1
  <1>6. Len(D) <= StartOf(L, m)
    <2>1. m \in r.bgn_id .. Len(L)
      <3>1. r.bgn_id \in Nat
        BY <1>2, PoolFacts
      <3> QED
        BY <1>1, <1>3, <3>1
    <2> QED
      BY <1>1, <1>2, <1>3, <2>1, ReadBelow
  <1>7. Arrived[e] = StartOf(L, m)
    BY <1>1 DEF Arrived
  <1> QED
    BY <1>1, <1>2, <1>3, <1>4, <1>5, <1>6, <1>7

(* Only what arrived was handed over.                                      *)
ReadArrived == \A e \in End : Len(delivered[Peer(e)]) <= Arrived[e] /\ Arrived[e] \in Nat

LEMMA ContentArrived == LinkInv /\ ContentInv => ReadArrived
  BY ArrivedFacts DEF ReadArrived

(* Only the receiving pool of the endpoint that acts may move it.          *)
LEMMA ArrivedAfter ==
  ASSUME LinkInv, ContentInv, NEW e \in End, Grows(e)
  PROVE  /\ Arrived' = [Arrived EXCEPT ![Peer(e)] =
                          StartOf(log[Peer(e)], FirstMissing(rcv'[e]))]
         /\ FirstMissing(rcv'[e]) = FirstMissing(rcv[e]) => Arrived' = Arrived
  <1>1. PICK m, n, k : /\ m = FirstMissing(rcv[Peer(e)]) /\ n = FirstMissing(rcv'[e])
                       /\ k = FirstMissing(rcv[e])
    OBVIOUS
  <1>2. /\ Peer(e) \in End /\ Peer(Peer(e)) = e /\ Peer(e) # e
        /\ \A d \in End : d = e \/ d = Peer(e)
    BY PeerType DEF End, Peer
  <1>3. rcv'[Peer(e)] = rcv[Peer(e)] /\ log'[Peer(e)] = log[Peer(e)]
    BY DEF Grows
  <1>4. StartOf(log'[e], m) = StartOf(log[e], m)
    <2>1. m \in 0 .. Len(log[e])
      BY <1>1, ArrivedFacts
    <2> QED
      BY <2>1 DEF Grows, Extends
  <1>5. Arrived' = [d \in End |-> StartOf(log'[d], FirstMissing(rcv'[Peer(d)]))]
    BY DEF Arrived
  <1>6. Arrived = [d \in End |-> StartOf(log[d], FirstMissing(rcv[Peer(d)]))]
    BY DEF Arrived
  <1>7. \A d \in End : StartOf(log'[d], FirstMissing(rcv'[Peer(d)])) =
                         IF d = Peer(e) THEN StartOf(log[Peer(e)], n) ELSE Arrived[d]
    <2>1. StartOf(log'[e], FirstMissing(rcv'[Peer(e)])) = Arrived[e]
      BY <1>1, <1>3, <1>4, <1>6
    <2>2. StartOf(log'[Peer(e)], FirstMissing(rcv'[Peer(Peer(e))])) = StartOf(log[Peer(e)], n)
      BY <1>1, <1>2, <1>3
    <2> QED
      BY <1>2, <2>1, <2>2
  <1>8. Arrived' = [Arrived EXCEPT ![Peer(e)] = StartOf(log[Peer(e)], n)]
    BY <1>5, <1>6, <1>7
  <1>9. Arrived[Peer(e)] = StartOf(log[Peer(e)], k)
    BY <1>1, <1>2, <1>6
  <1>10. n = k => Arrived' = Arrived
    <2>1. Arrived = [Arrived EXCEPT ![Peer(e)] = Arrived[Peer(e)]]
      BY <1>2, <1>6
    <2> QED
      BY <1>8, <1>9, <2>1
  <1> QED
    BY <1>1, <1>8, <1>10

-----------------------------------------------------------------------------
(* The steps.                                                              *)

(* Whether the last call was a flush that succeeded.                       *)
FlushDone == [e \in End |-> call[e] = Flushed]

LEMMA FlushSame ==
  ASSUME \A d \in End : call'[d] = Flushed <=> call[d] = Flushed
  PROVE  FlushDone' = FlushDone
  BY Zenon DEF FlushDone

LEMMA Idles ==
  ASSUME UNCHANGED <<accepted, delivered>>, Arrived' = Arrived, FlushDone' = FlushDone
  PROVE  UNCHANGED S!streamVars
  BY DEF S!streamVars, FlushDone

(* mc_comm_update: packets arrive from the peer.                           *)
LEMMA UpdateArrives ==
  ASSUME LinkInv, ContentInv, ContentInv', LinkInv', NEW e \in End,
         NEW f \in net[e] \cup {NoFrame}, NEW keep \in BOOLEAN, NEW stale \in BOOLEAN,
         NEW timedOut \in BOOLEAN, NEW due, Updates(e, f, keep, due, stale, timedOut)
  PROVE  S!Arrive(Peer(e)) \/ UNCHANGED S!streamVars
  <1>1. Grows(e)
    BY UpdateKeepsContent
  <1>2. UNCHANGED <<accepted, delivered>>
    BY DEF Updates, Poll, SendWaits, RecvWaits, FlushWaits
  <1>3. FlushDone' = FlushDone
    <2>1. call' = call \/ (call[e].fn \in {"send", "flush"} /\ call' = [call EXCEPT ![e] = Idle])
      BY DEF Updates, Poll, SendWaits, RecvWaits, FlushWaits, Return
    <2>2. \A d \in End : call'[d] = Flushed <=> call[d] = Flushed
      <3>1. call \in [End -> Call]
        BY DEF LinkInv, TypeOK
      <3>2. CASE call' = call
        BY <3>2
      <3>3. CASE call[e].fn \in {"send", "flush"} /\ call' = [call EXCEPT ![e] = Idle]
        <4>1. call[e] # Flushed /\ call'[e] # Flushed /\ \A d \in End : d # e => call'[d] = call[d]
          BY <3>1, <3>3 DEF Idle, Flushed
        <4> QED
          BY <4>1
      <3> QED
        BY <2>1, <3>2, <3>3
    <2> QED
      BY <2>2, FlushSame
  <1>4. Peer(e) \in End /\ Peer(Peer(e)) = e
    BY PeerType
  <1>5. PICK k : k = StartOf(log[Peer(e)], FirstMissing(rcv'[e]))
    OBVIOUS
  <1>6. Arrived' = [Arrived EXCEPT ![Peer(e)] = k]
    BY <1>1, <1>5, ArrivedAfter
  <1>7. k \in Nat /\ Arrived[Peer(e)] \in Nat /\ Arrived[Peer(e)] <= k /\ k <= accepted[Peer(e)]
    <2>1. PICK L, r, q : L = log[Peer(e)] /\ r = rcv[e] /\ q = rcv'[e]
      OBVIOUS
    <2>2. /\ r \in Pool(RcvCap) /\ RcvInv(r, Len(L)) /\ L \in Seq(Content) /\ Consecutive(L)
          /\ Len(L) \in Nat
      BY <1>4, <2>1, DirectionFacts
    <2>3. q \in Pool(RcvCap) /\ RcvInv(q, Len(L))
      <3>1. \A d \in End : rcv'[d] \in Pool(RcvCap)
        BY DEF LinkInv, TypeOK
      <3>2. RcvInv(rcv'[Peer(Peer(e))], Len(log'[Peer(e)]))
        BY <1>4 DEF LinkInv, DirectionInv
      <3>3. log'[Peer(e)] = L
        BY <1>1, <2>1 DEF Grows
      <3> QED
        BY <1>4, <2>1, <3>1, <3>2, <3>3
    <2>4. PICK m, n : m = FirstMissing(r) /\ n = FirstMissing(q)
      OBVIOUS
    <2>5. m <= n
      <3>1. \A j \in Nat : Held(r, j) => Held(q, j)
        BY <1>1, <2>1 DEF Grows
      <3> QED
        BY <2>2, <2>3, <2>4, <3>1, MissingGrows
    <2>6. m \in Nat /\ n \in Nat /\ n <= Len(L)
      <3>1. m \in Nat
        BY <2>2, <2>4, MissingFacts
      <3>2. n \in Nat /\ n <= Len(L)
        BY <2>2, <2>3, <2>4, MissingFacts
      <3> QED
        BY <3>1, <3>2
    <2>7. /\ StartOf(L, m) \in Nat /\ StartOf(L, n) \in Nat /\ StartOf(L, Len(L)) \in Nat
          /\ StartOf(L, m) <= StartOf(L, n) /\ StartOf(L, n) <= StartOf(L, Len(L))
      <3>1. /\ m \in 0 .. Len(L) /\ n \in m .. Len(L) /\ n \in 0 .. Len(L)
            /\ Len(L) \in n .. Len(L) /\ Len(L) \in 0 .. Len(L) /\ n - m \in Nat /\ Len(L) - n \in Nat
        BY <2>2, <2>5, <2>6
      <3>2. StartOf(L, m) \in Nat /\ StartOf(L, n) \in Nat /\ StartOf(L, Len(L)) \in Nat
        BY <2>2, <3>1, StartType
      <3>3. StartOf(L, m) + (n - m) <= StartOf(L, n)
        BY <2>2, <3>1, StartBounds
      <3>4. StartOf(L, n) + (Len(L) - n) <= StartOf(L, Len(L))
        BY <2>2, <3>1, StartBounds
      <3> QED
        BY <3>1, <3>2, <3>3, <3>4
    <2>8. Arrived[Peer(e)] = StartOf(L, m)
      BY <1>4, <2>1, <2>4, ArrivedFacts
    <2>9. accepted[Peer(e)] = StartOf(L, Len(L)) + Pending(snd[Peer(e)]) /\ Pending(snd[Peer(e)]) \in Nat
      BY <1>4, <2>1, DirectionFacts DEF SndContent
    <2> QED
      BY <1>5, <2>1, <2>4, <2>7, <2>8, <2>9
  <1>8. CASE k = Arrived[Peer(e)]
    <2>1. Arrived' = Arrived
      BY <1>4, <1>6, <1>8 DEF Arrived
    <2> QED
      BY <1>2, <1>3, <2>1, Idles
  <1>9. CASE k # Arrived[Peer(e)]
    <2>1. k \in Arrived[Peer(e)] + 1 .. accepted[Peer(e)]
      <3>1. accepted[Peer(e)] \in Nat
        BY <1>4, DirectionFacts
      <3> QED
        BY <1>7, <1>9, <3>1
    <2> QED
      BY <1>2, <1>3, <1>6, <2>1 DEF S!Arrive, FlushDone
  <1> QED
    BY <1>8, <1>9

(* mc_comm_send that gets bytes into its pool accepts them.                *)
LEMMA SendAccepts ==
  ASSUME LinkInv, ContentInv, UnderWay', NEW e \in End, NEW timedOut \in BOOLEAN,
         SendWrites(e, timedOut)
  PROVE  S!Accept(e)
  <1>1. PICK n : n = Smaller(call[e].left, Payload)
    OBVIOUS
  <1>2. Grows(e) /\ n \in 1 .. Payload
    BY <1>1, SendKeepsContent
  <1>3. /\ accepted' = [accepted EXCEPT ![e] = @ + n] /\ delivered' = delivered /\ rcv' = rcv
        /\ call[e].fn = "send"
        /\ \/ call' = [call EXCEPT ![e] = Idle]
           \/ \E m : call' = [call EXCEPT ![e].left = m]
    BY <1>1 DEF SendWrites, Return
  <1>4. Arrived' = Arrived
    BY <1>2, <1>3, ArrivedAfter
  <1>5. call[e] # Flushed /\ FlushDone' = FlushDone
    <2>1. call \in [End -> Call]
      BY DEF LinkInv, TypeOK
    <2>2. call[e] # Flushed /\ call'[e] # Flushed /\ \A d \in End : d # e => call'[d] = call[d]
      <3>1. CASE call' = [call EXCEPT ![e] = Idle]
        BY <1>3, <2>1, <3>1 DEF Idle, Flushed
      <3>2. ASSUME NEW m, call' = [call EXCEPT ![e].left = m]
            PROVE  call[e] # Flushed /\ call'[e] # Flushed /\ \A d \in End : d # e => call'[d] = call[d]
        <4>1. call'[e].fn = "send" /\ \A d \in End : d # e => call'[d] = call[d]
          BY <1>3, <2>1, <3>2 DEF Call
        <4> QED
          BY <1>3, <4>1 DEF Flushed
      <3> QED
        BY <1>3, <3>1, <3>2
    <2> QED
      BY <2>2, FlushSame
  <1>6. accepted[e] + n - Len(delivered[Peer(e)]) <= (SndCap + RcvCap) * Payload
    <2>1. accepted'[e] = accepted[e] + n /\ accepted[e] \in Nat
      BY <1>3 DEF LinkInv, TypeOK
    <2>2. accepted'[e] <= Len(delivered'[Peer(e)]) + (SndCap + RcvCap) * Payload
      BY DEF UnderWay
    <2>3. PICK p \in Nat : p = (SndCap + RcvCap) * Payload
      OBVIOUS
    <2>4. PICK l \in Nat : l = Len(delivered[Peer(e)])
      BY PeerType DEF LinkInv, TypeOK
    <2>5. accepted[e] + n <= l + p
      BY <1>3, <2>1, <2>2, <2>3, <2>4
    <2>6. accepted[e] + n - l <= p
      BY <1>2, <2>1, <2>5
    <2> QED
      BY <2>3, <2>4, <2>6
  <1>7. n \in 1 .. (SndCap + RcvCap) * Payload
    <2>1. PICK m \in Nat : m = SndCap + RcvCap
      OBVIOUS
    <2>2. 1 <= m /\ 1 \in Nat
      BY <2>1
    <2>3. 1 * Payload <= m * Payload /\ m * Payload \in Nat /\ 1 * Payload = Payload
      BY <2>2, TimesGrows
    <2> QED
      BY <1>2, <2>1, <2>3
  <1> QED
    BY <1>3, <1>4, <1>5, <1>6, <1>7 DEF S!Accept, S!Other, Peer, FlushDone

(* mc_comm_recv that gets bytes out of its pool delivers them.             *)
LEMMA RecvDelivers ==
  ASSUME LinkInv, ContentInv, ContentInv', ReadArrived', NEW e \in End, RecvReads(e)
  PROVE  S!Deliver(e)
  <1>1. PICK r, n, q, bytes, N : /\ r = rcv[e] /\ n = call[e].left /\ q = Read(r, n).pool
                                /\ bytes = Read(r, n).bytes /\ N = Len(log[Peer(e)])
    OBVIOUS
  <1>2. /\ rcv' = [rcv EXCEPT ![e] = q] /\ UNCHANGED <<accepted, log>>
        /\ delivered' = [delivered EXCEPT ![e] = @ \o bytes]
        /\ Len(bytes) # 0 /\ call[e].fn = "recv"
        /\ \/ call' = [call EXCEPT ![e] = Idle]
           \/ \E m : call' = [call EXCEPT ![e].left = m]
    BY <1>1 DEF RecvReads, Return
  <1>3. /\ Peer(e) \in End /\ Peer(Peer(e)) = e
        /\ rcv \in [End -> Pool(RcvCap)] /\ call \in [End -> Call]
        /\ delivered \in [End -> Seq(Nat)] /\ log \in [End -> Seq(Content)]
    BY PeerType DEF LinkInv, TypeOK
  <1>4. /\ r \in Pool(RcvCap) /\ RcvInv(r, N) /\ N \in Nat /\ n \in Nat
    <2>1. n \in Nat
      BY <1>1, <1>3 DEF Call
    <2> QED
      BY <1>1, <1>3, <2>1, DirectionFacts
  <1>5. q \in Pool(RcvCap) /\ bytes \in Seq(Nat)
    BY <1>1, <1>4, ReadType
  <1>6. RcvInv(q, N) /\ \A j \in Nat : Held(r, j) <=> Held(q, j)
    BY <1>1, <1>4, ReadHolds, ReadHeld
  <1>7. FirstMissing(q) = FirstMissing(r)
    <2>1. FirstMissing(q) <= FirstMissing(r) /\ FirstMissing(r) <= FirstMissing(q)
      BY <1>4, <1>5, <1>6, MissingGrows
    <2>2. FirstMissing(q) \in Nat /\ FirstMissing(r) \in Nat
      BY <1>4, <1>5, <1>6, MissingFacts
    <2> QED
      BY <2>1, <2>2
  <1>8. rcv'[e] = q /\ rcv'[Peer(e)] = rcv[Peer(e)]
    BY <1>2, <1>3, PeerType
  <1>9. Grows(e)
    <2>1. Extends(log[e], log[e])
      BY <1>3, DirectionFacts, ExtendsSame
    <2> QED
      BY <1>1, <1>2, <1>6, <1>8, <2>1 DEF Grows
  <1>10. Arrived' = Arrived
    BY <1>1, <1>7, <1>8, <1>9, ArrivedAfter
  <1>11. FlushDone' = FlushDone
    <2>1. call[e] # Flushed /\ call'[e] # Flushed /\ \A d \in End : d # e => call'[d] = call[d]
      <3>1. CASE call' = [call EXCEPT ![e] = Idle]
        BY <1>2, <1>3, <3>1 DEF Idle, Flushed
      <3>2. ASSUME NEW m, call' = [call EXCEPT ![e].left = m]
            PROVE  call[e] # Flushed /\ call'[e] # Flushed /\ \A d \in End : d # e => call'[d] = call[d]
        <4>1. call'[e].fn = "recv" /\ \A d \in End : d # e => call'[d] = call[d]
          BY <1>2, <1>3, <3>2 DEF Call
        <4> QED
          BY <1>2, <4>1 DEF Flushed
      <3> QED
        BY <1>2, <3>1, <3>2
    <2> QED
      BY <2>1, FlushSame
  <1>12. PICK D, E, k : D = delivered[e] /\ E = D \o bytes /\ k = Len(E)
    OBVIOUS
  <1>13. delivered'[e] = E /\ D \in Seq(Nat) /\ E \in Seq(Nat)
    BY <1>2, <1>3, <1>5, <1>12, SMTT(30)
  <1>14. k \in Nat /\ Len(D) + 1 <= k
    <2>1. Len(E) = Len(D) + Len(bytes) /\ Len(bytes) \in Nat /\ Len(D) \in Nat
      BY <1>5, <1>12, <1>13
    <2> QED
      BY <1>2, <1>12, <2>1
  <1>15. k <= Arrived[Peer(e)] /\ Arrived[Peer(e)] \in Nat
    <2>1. Len(delivered[Peer(Peer(e))])' <= Arrived'[Peer(e)] /\ Arrived'[Peer(e)] \in Nat
      BY <1>3 DEF ReadArrived
    <2> QED
      BY <1>3, <1>10, <1>12, <1>13, <2>1
  <1>16. E = [i \in 1 .. k |-> i]
    <2>1. \A i \in DOMAIN E : E[i] = i
      <3>1. RcvContent(rcv'[Peer(Peer(e))], log'[Peer(e)], delivered'[Peer(Peer(e))])
        BY <1>3 DEF ContentInv, DirectionContent
      <3> QED
        BY <1>3, <1>13, <3>1 DEF RcvContent
    <2>2. DOMAIN E = 1 .. k /\ E = [i \in DOMAIN E |-> E[i]]
      BY <1>12, <1>13, SMTT(30)
    <2> QED
      BY <2>1, <2>2
  <1>17. k \in Len(delivered[e]) + 1 .. Arrived[Peer(e)]
    <2>1. Len(D) \in Nat
      BY <1>13
    <2> QED
      BY <1>12, <1>14, <1>15, <2>1
  <1>18. delivered' = [delivered EXCEPT ![e] = [i \in 1 .. k |-> i]]
    BY <1>2, <1>3, <1>12, <1>16
  <1> QED
    BY <1>2, <1>10, <1>11, <1>17, <1>18 DEF S!Deliver, S!Other, Peer, FlushDone

(* A call that is made or timed out is no successful flush.                *)
LEMMA CallForgets ==
  ASSUME LinkInv, ContentInv, NEW e \in End,
         \/ \E n \in 1 .. MaxCall : CallSend(e, n) \/ CallRecv(e, n)
         \/ RecvTimesOut(e) \/ CallFlush(e)
  PROVE  S!Forget(e)
  <1>1. UNCHANGED <<rcv, accepted, delivered, log>>
    BY DEF CallSend, CallRecv, RecvTimesOut, CallFlush
  <1>2. PICK c : c # Flushed /\ call' = [call EXCEPT ![e] = c]
    <2> DEFINE Sets(c) == c # Flushed /\ call' = [call EXCEPT ![e] = c]
    <2>1. ASSUME NEW n \in 1 .. MaxCall, CallSend(e, n) PROVE Sets([fn |-> "send", left |-> n])
      BY <2>1 DEF CallSend, Flushed
    <2>2. ASSUME NEW n \in 1 .. MaxCall, CallRecv(e, n) PROVE Sets([fn |-> "recv", left |-> n])
      BY <2>2 DEF CallRecv, Flushed
    <2>3. RecvTimesOut(e) => Sets(Idle)
      BY DEF RecvTimesOut, Return, Idle, Flushed
    <2>4. CallFlush(e) => Sets([fn |-> "flush", left |-> 0])
      BY DEF CallFlush, Flushed
    <2> HIDE DEF Sets
    <2>5. \E c : Sets(c)
      BY <2>1, <2>2, <2>3, <2>4
    <2> QED
      BY <2>5 DEF Sets
  <1>3. call'[e] # Flushed /\ \A d \in End : d # e => call'[d] = call[d]
    BY <1>2 DEF LinkInv, TypeOK
  <1>4. FlushDone' = [FlushDone EXCEPT ![e] = FALSE]
    BY <1>3, Zenon DEF FlushDone
  <1>5. Arrived' = Arrived
    BY <1>1 DEF Arrived
  <1> QED
    BY <1>1, <1>4, <1>5 DEF S!Forget, FlushDone

(* mc_comm_flush returns true.                                             *)
LEMMA FlushFlushes ==
  ASSUME LinkInv, ContentInv, NEW e \in End, FlushReturns(e)
  PROVE  S!Flush(e)
  <1>1. PICK s, r, L, N, a : /\ s = snd[e] /\ r = rcv[Peer(e)] /\ L = log[e] /\ N = Len(L)
                            /\ a = accepted[e]
    OBVIOUS
  <1>2. /\ UNCHANGED <<rcv, accepted, delivered, log>> /\ IsEmpty(s)
        /\ call' = [call EXCEPT ![e] = Flushed]
    BY <1>1 DEF FlushReturns
  <1>3. /\ s \in Pool(SndCap) /\ r \in Pool(RcvCap) /\ L \in Seq(Content) /\ N \in Nat
        /\ SenderInv(s, N) /\ RcvInv(r, N)
        /\ SndContent(s, L, a) /\ \A id \in 0 .. N - 1 : Acked(s, id) => Held(r, id)
    BY <1>1, DirectionFacts
  <1>4. s.bgn_id = N /\ Pending(s) = 0
    BY <1>1, <1>2, <1>3, EmptySender
  <1>5. FirstMissing(r) = N
    <2>1. \A id \in 0 .. N - 1 : Held(r, id)
      BY <1>3, <1>4 DEF Acked
    <2>2. FirstMissing(r) \in Nat /\ FirstMissing(r) <= N /\ ~Held(r, FirstMissing(r))
      BY <1>3, MissingFacts
    <2> QED
      BY <1>3, <2>1, <2>2
  <1>6. Arrived[e] = accepted[e]
    <2>1. Arrived[e] = StartOf(L, N) /\ Arrived[e] \in Nat
      BY <1>1, <1>5, ArrivedFacts
    <2>2. a = StartOf(L, N) + Pending(s)
      BY <1>1, <1>3 DEF SndContent
    <2> QED
      BY <1>1, <1>4, <2>1, <2>2
  <1>7. call'[e] = Flushed /\ \A d \in End : d # e => call'[d] = call[d]
    BY <1>2 DEF LinkInv, TypeOK
  <1>8. FlushDone' = [FlushDone EXCEPT ![e] = TRUE]
    BY <1>7, Zenon DEF FlushDone
  <1>9. Arrived' = Arrived
    BY <1>2 DEF Arrived
  <1> QED
    BY <1>2, <1>6, <1>8, <1>9 DEF S!Flush, FlushDone

LEMMA LoseIdles ==
  ASSUME NEW e \in End, NEW f \in net[e], Lose(e, f)
  PROVE  UNCHANGED S!streamVars
  <1>1. UNCHANGED <<rcv, call, accepted, delivered, log>>
    BY DEF Lose
  <1> QED
    BY <1>1, Idles DEF Arrived, FlushDone

LEMMA InitStream ==
  ASSUME InitStored \subseteq {0}, Init
  PROVE  S!StreamInit
  <1>1. LinkInv /\ ContentInv
    BY InitLink, InitContent
  <1>2. /\ accepted = [e \in End |-> 0] /\ delivered = [e \in End |-> << >>]
        /\ \A e \in End : call[e] = Idle /\ log[e] = << >>
    BY DEF Init
  <1>3. \A e \in End : Arrived[e] = 0
    <2> SUFFICES ASSUME NEW e \in End PROVE Arrived[e] = 0
      OBVIOUS
    <2>1. Arrived[e] \in Nat /\ Arrived[e] <= accepted[e]
      BY <1>1, ArrivedFacts
    <2> QED
      BY <1>2, <2>1
  <1>4. Arrived = [e \in End |-> 0]
    <2>1. Arrived = [e \in End |-> Arrived[e]]
      BY DEF Arrived
    <2> QED
      BY <1>3, <2>1
  <1>5. FlushDone = [e \in End |-> FALSE]
    <2>1. \A e \in End : ~(call[e] = Flushed)
      BY <1>2 DEF Idle, Flushed
    <2> QED
      BY <2>1, Zenon DEF FlushDone
  <1> QED
    BY <1>2, <1>4, <1>5 DEF S!StreamInit, S!Ends, End, FlushDone

LEMMA StepStream ==
  ASSUME LinkInv, ContentInv, LinkInv', ContentInv', UnderWay', ReadArrived', [Next]_vars
  PROVE  [S!StreamNext]_(S!streamVars)
  <1>1. CASE UNCHANGED vars
    <2>1. UNCHANGED <<rcv, call, accepted, delivered, log>>
      BY <1>1 DEF vars
    <2> QED
      BY <2>1, Idles DEF Arrived, FlushDone
  <1>2. \A e \in End : Peer(e) \in S!Ends /\ e \in S!Ends
    BY PeerType DEF S!Ends, End
  <1>3. ASSUME NEW e \in End, NEW f \in net[e] \cup {NoFrame}, NEW keep \in BOOLEAN,
               NEW stale \in BOOLEAN, NEW timedOut \in BOOLEAN,
               NEW due \in SUBSET (snd[e].bgn_id .. snd[e].end_id - 1),
               Updates(e, f, keep, due, stale, timedOut)
        PROVE  [S!StreamNext]_(S!streamVars)
    BY <1>2, <1>3, UpdateArrives DEF S!StreamNext
  <1>4. ASSUME NEW e \in End,
               \/ \E n \in 1 .. MaxCall : CallSend(e, n) \/ CallRecv(e, n)
               \/ RecvTimesOut(e) \/ CallFlush(e)
        PROVE  [S!StreamNext]_(S!streamVars)
    BY <1>2, <1>4, CallForgets DEF S!StreamNext
  <1>5. ASSUME NEW e \in End, NEW timedOut \in BOOLEAN, SendWrites(e, timedOut)
        PROVE  [S!StreamNext]_(S!streamVars)
    BY <1>2, <1>5, SendAccepts DEF S!StreamNext
  <1>6. ASSUME NEW e \in End, RecvReads(e) PROVE [S!StreamNext]_(S!streamVars)
    BY <1>2, <1>6, RecvDelivers DEF S!StreamNext
  <1>7. ASSUME NEW e \in End, FlushReturns(e) PROVE [S!StreamNext]_(S!streamVars)
    BY <1>2, <1>7, FlushFlushes DEF S!StreamNext
  <1>8. ASSUME NEW e \in End, NEW f \in net[e], Lose(e, f)
        PROVE  [S!StreamNext]_(S!streamVars)
    BY <1>8, LoseIdles
  <1> QED
    BY <1>1, <1>3, <1>4, <1>5, <1>6, <1>7, <1>8 DEF Next, Step

(* Whatever the network loses, repeats or reorders, and for pools of every *)
(* capacity, the two applications see a reliable byte stream in each       *)
(* direction: the steps of mc_comm_send, mc_comm_recv, mc_comm_flush and   *)
(* mc_comm_update are those of the stream, or none.                        *)
THEOREM Implements ==
  ASSUME InitStored \subseteq {0}
  PROVE  Spec => ImplementsStream
  <1>1. Init => S!StreamInit
    BY InitStream
  <1>2. /\ (LinkInv /\ ContentInv) /\ (LinkInv /\ ContentInv)'
        /\ UnderWay' /\ ReadArrived' /\ [Next]_vars
        => [S!StreamNext]_(S!streamVars)
    BY StepStream
  <1>3. Spec => [](LinkInv /\ ContentInv)
    BY ContentCorrect
  <1> QED
    BY <1>1, <1>2, <1>3, RoomUnderWay, ContentArrived, PTL
       DEF Spec, ImplementsStream, S!StreamSpec
=============================================================================
