-------------------------- MODULE WindowPoolProofs --------------------------
(***************************************************************************)
(* What the functions of mc_window_pool.c return, and what they do to the  *)
(* invariants of a pool.                                                   *)
(***************************************************************************)
EXTENDS CommInvariant, Arithmetic

USE IdModAssumption, PayloadAssumption

(* A frame that carries data.                                              *)
FullFrame == [type : {"data"}, id : Ids, from : Nat, size : 1 .. Payload]

LEMMA ClearedType == Cleared \in Window
  BY DEF Cleared, Window, Ids, INVALID_ID

LEMMA IndexType ==
  ASSUME NEW cap \in Nat \ {0}, NEW p \in Pool(cap), NEW id \in Ids
  PROVE  GetIndex(p, id) \in 0 .. cap - 1 /\ p.windows[GetIndex(p, id)] \in Window
  <1> DEFINE dif == (id - p.bgn_id) % IdMod
             off == IF id < p.bgn_id THEN dif + p.capacity ELSE dif
             sum == (p.bgn_id + off) % IdMod
  <1>1. p.capacity = cap /\ p.bgn_id \in Int /\ id - p.bgn_id \in Int /\ IdMod \in Nat \ {0}
    BY DEF Pool, Ids
  <1>2. dif \in Int
    BY <1>1, ModType
  <1> HIDE DEF dif
  <1>3. p.bgn_id + off \in Int
    BY <1>1, <1>2
  <1>4. sum \in Int
    BY <1>1, <1>3, ModType
  <1> HIDE DEF off, sum
  <1>5. sum % cap \in 0 .. cap - 1
    BY <1>4, ModType
  <1>6. GetIndex(p, id) \in 0 .. cap - 1
    BY <1>1, <1>5 DEF GetIndex, sum, off, dif
  <1> QED
    BY <1>6 DEF Pool

LEMMA LastType ==
  ASSUME NEW cap \in Nat \ {0}, NEW p \in Pool(cap)
  PROVE  LastIndex(p) \in 0 .. cap - 1 /\ Last(p) \in Window
  <1>1. p.end_id \in Ids
    BY DEF Pool
  <1> QED
    BY <1>1, IndexType DEF LastIndex, Last

LEMMA OneWindowType ==
  ASSUME NEW cap \in Nat \ {0}, NEW p \in Pool(cap), NEW k \in 0 .. cap - 1, NEW w \in Window
  PROVE  [p EXCEPT !.windows[k] = w] \in Pool(cap)
  <1>1. [p.windows EXCEPT ![k] = w] \in [0 .. cap - 1 -> Window]
    BY DEF Pool
  <1> QED
    BY <1>1 DEF Pool

LEMMA UpdateHeaderType ==
  ASSUME NEW cap \in Nat \ {0}, NEW p \in Pool(cap)
  PROVE  UpdateHeader(p) \in Pool(cap)
  <1>1. p.end_id \in Ids
    BY DEF Pool
  <1>2. [Last(p) EXCEPT !.id = p.end_id, !.is_acked = FALSE, !.is_sent = TRUE] \in Window
    BY <1>1, LastType DEF Window
  <1> QED
    BY <1>2, LastType, OneWindowType DEF UpdateHeader

(* The window wndpool_update_header stamps keeps its data.                 *)
LEMMA UpdateHeaderLast ==
  ASSUME NEW cap \in Nat \ {0}, NEW p \in Pool(cap)
  PROVE  /\ LastIndex(UpdateHeader(p)) = LastIndex(p)
         /\ Last(UpdateHeader(p)) =
              [Last(p) EXCEPT !.id = p.end_id, !.is_acked = FALSE, !.is_sent = TRUE]
  <1>1. LastIndex(UpdateHeader(p)) = LastIndex(p)
    BY DEF UpdateHeader, Pool, LastIndex, GetIndex
  <1> QED
    BY <1>1, LastType DEF UpdateHeader, Pool, Last

(* One pass of the loop of wndpool_write.                                  *)
LEMMA WriteSegType ==
  ASSUME NEW cap \in Nat \ {0}, NEW p \in Pool(cap), NEW pos \in Nat, NEW n \in Nat
  PROVE  /\ WriteSeg(p, pos, n).pool \in Pool(cap)
         /\ WriteSeg(p, pos, n).taken \in 0 .. n
         /\ WriteSeg(p, pos, n).sent \in Seq(FullFrame)
  <1> DEFINE w    == Last(p)
             seg  == Smaller(n, Payload - w.size)
             last == [w EXCEPT !.from = IF w.size = 0 THEN pos ELSE w.from,
                               !.size = w.size + seg]
             fill == [p EXCEPT !.windows[LastIndex(p)] = last]
             head == UpdateHeader(fill)
             next == [head EXCEPT !.end_id = (p.end_id + 1) % IdMod]
             done == [next EXCEPT !.windows[LastIndex(next)] = Cleared]
  <1>1. w \in Window /\ LastIndex(p) \in 0 .. cap - 1
    BY LastType
  <1> HIDE DEF w
  <1>0. w.size \in 0 .. Payload /\ Payload - w.size \in Nat
    BY <1>1 DEF Window
  <1>2. seg \in 0 .. n /\ w.size + seg \in 0 .. Payload
    BY <1>0 DEF Smaller
  <1> HIDE DEF seg
  <1>3. last \in Window /\ last.size = w.size + seg
    BY <1>1, <1>2 DEF Window
  <1> HIDE DEF last
  <1>4. fill \in Pool(cap)
    BY <1>1, <1>3 DEF Pool
  <1>5. head \in Pool(cap)
    BY <1>4, UpdateHeaderType
  <1>6. (p.end_id + 1) % IdMod \in Ids
    <2>1. p.end_id + 1 \in Int /\ IdMod \in Nat \ {0}
      BY DEF Pool, Ids
    <2> QED
      BY <2>1, ModType DEF Ids
  <1>7. next \in Pool(cap)
    BY <1>5, <1>6 DEF Pool
  <1>8. done \in Pool(cap)
    BY <1>7, LastType, ClearedType DEF Pool
  <1>9. LastIndex(fill) = LastIndex(p) /\ Last(fill) = last /\ fill.end_id \in Ids
    BY <1>1, <1>4 DEF LastIndex, GetIndex, Last, Pool
  <1> HIDE DEF fill, head, next, done
  <1>10. Last(head) = [last EXCEPT !.id = fill.end_id, !.is_acked = FALSE, !.is_sent = TRUE]
    BY <1>4, <1>9, UpdateHeaderLast DEF head
  <1>11. w.size + seg = Payload => DataFrame(Last(head)) \in FullFrame
    BY <1>3, <1>9, <1>10 DEF DataFrame, FullFrame, Window
  <1>12. CASE w.size + seg = Payload /\ Count(fill) < p.capacity
    <2>1. WriteSeg(p, pos, n) =
            [pool |-> done, taken |-> seg, sent |-> <<DataFrame(Last(head))>>]
      BY <1>12 DEF WriteSeg, w, seg, last, fill, head, next, done
    <2> QED
      BY <2>1, <1>2, <1>8, <1>11, <1>12
  <1>13. CASE ~(w.size + seg = Payload /\ Count(fill) < p.capacity)
    <2>1. WriteSeg(p, pos, n) = [pool |-> fill, taken |-> seg, sent |-> << >>]
      BY <1>13 DEF WriteSeg, w, seg, last, fill, head, next, done
    <2> QED
      BY <2>1, <1>2, <1>4
  <1> QED
    BY <1>12, <1>13

LEMMA WriteType ==
  ASSUME NEW cap \in Nat \ {0}, NEW p \in Pool(cap), NEW pos \in Nat, NEW n \in Nat
  PROVE  /\ Write(p, pos, n).pool \in Pool(cap)
         /\ Write(p, pos, n).taken \in 0 .. n
         /\ Write(p, pos, n).sent \in Seq(FullFrame)
  <1> DEFINE one == WriteSeg(p, pos, n)
             two == WriteSeg(one.pool, pos + one.taken, n - one.taken)
  <1>1. one.pool \in Pool(cap) /\ one.taken \in 0 .. n /\ one.sent \in Seq(FullFrame)
    BY WriteSegType
  <1> HIDE DEF one
  <1>2. pos + one.taken \in Nat /\ n - one.taken \in Nat
    BY <1>1
  <1>3. /\ two.pool \in Pool(cap) /\ two.taken \in 0 .. n - one.taken
        /\ two.sent \in Seq(FullFrame)
    BY <1>1, <1>2, WriteSegType
  <1> HIDE DEF two
  <1>4. one.taken + two.taken \in 0 .. n /\ one.sent \o two.sent \in Seq(FullFrame)
    BY <1>1, <1>3
  <1>5. CASE ~CanWrite(p)
    BY <1>5 DEF Write
  <1>6. CASE CanWrite(p) /\ one.taken = n
    <2>1. Write(p, pos, n) = one
      BY <1>6 DEF Write, one
    <2> QED
      BY <2>1, <1>1
  <1>7. CASE CanWrite(p) /\ one.taken # n
    <2>1. Write(p, pos, n) = [pool |-> two.pool, taken |-> one.taken + two.taken,
                              sent |-> one.sent \o two.sent]
      BY <1>7 DEF Write, one, two
    <2> QED
      BY <2>1, <1>3, <1>4
  <1> QED
    BY <1>5, <1>6, <1>7

LEMMA RemoveFirstType ==
  ASSUME NEW cap \in Nat \ {0}, NEW p \in Pool(cap), NEW n \in Nat
  PROVE  RemoveFirst(p, n) \in Pool(cap)
  <1>0. p.capacity = cap /\ p.bgn_id + n \in Int /\ p.bgn_index + n \in Int
    BY DEF Pool, Ids
  <1>1. (p.bgn_id + n) % IdMod \in Ids
    BY <1>0, ModType DEF Ids
  <1>2. (p.bgn_index + n) % p.capacity \in 0 .. cap - 1
    BY <1>0, ModType
  <1> QED
    BY <1>1, <1>2, ClearedType DEF RemoveFirst, Pool

LEMMA AckType ==
  ASSUME NEW cap \in Nat \ {0}, NEW p \in Pool(cap), NEW id \in Ids, NEW q \in Ack(p, id)
  PROVE  q \in Pool(cap)
  <1> DEFINE a == [p EXCEPT !.windows[GetIndex(p, id)].is_acked = TRUE]
  <1>0. GetIndex(p, id) \in 0 .. cap - 1
    BY IndexType
  <1>1. a \in Pool(cap)
    <2>1. p.windows[GetIndex(p, id)] \in Window
      BY IndexType
    <2>2. [p.windows[GetIndex(p, id)] EXCEPT !.is_acked = TRUE] \in Window
      BY <2>1 DEF Window
    <2>3. a = [p EXCEPT !.windows[GetIndex(p, id)] =
                 [p.windows[GetIndex(p, id)] EXCEPT !.is_acked = TRUE]]
      BY <1>0 DEF Pool
    <2> QED
      BY <1>0, <2>2, <2>3, OneWindowType
  <1> HIDE DEF a
  <1>2. CASE id = p.bgn_id
    <2>1. PICK n \in 0 .. p.capacity : q = RemoveFirst(a, n)
      BY <1>2 DEF Ack, a
    <2>2. n \in Nat
      BY <2>1 DEF Pool
    <2> QED
      BY <1>1, <2>1, <2>2, RemoveFirstType
  <1>3. CASE id # p.bgn_id
    BY <1>1, <1>3 DEF Ack, a
  <1> QED
    BY <1>2, <1>3

LEMMA UpdateType ==
  ASSUME NEW cap \in Nat \ {0}, NEW p \in Pool(cap), NEW f,
         f.id \in Ids, f.from \in Nat, f.size \in 0 .. Payload
  PROVE  Update(p, f) \in Pool(cap)
  BY IndexType DEF Update, Pool, Window

LEMMA ReadType ==
  ASSUME NEW cap \in Nat \ {0}, NEW p \in Pool(cap), NEW n \in Nat
  PROVE  /\ Read(p, n).pool \in Pool(cap)
         /\ Read(p, n).bytes \in Seq(Nat)
         /\ Len(Read(p, n).bytes) \in 0 .. n
  <1> DEFINE w     == Get(p, p.bgn_id)
             m     == IF p.stored_size <= w.size
                      THEN Smaller(w.size - p.stored_size, n) ELSE n
             sum   == p.stored_size + m
             bytes == [i \in 1 .. m |-> IF p.stored_size + i <= w.size
                                        THEN w.from + p.stored_size + i ELSE Garbage]
             empty == [p EXCEPT !.stored_size = 0]
             rest  == [p EXCEPT !.stored_size = sum]
  <1>0. p.bgn_id \in Ids
    BY DEF Pool
  <1>1. w \in Window
    BY <1>0, IndexType DEF Get
  <1>2. p.stored_size \in Nat /\ w.size \in 0 .. Payload /\ w.from \in Nat
    BY <1>1 DEF Pool, Window
  <1> HIDE DEF w
  <1>3. m \in 0 .. n
    BY <1>2 DEF Smaller
  <1> HIDE DEF m
  <1>4. bytes \in Seq(Nat) /\ Len(bytes) = m
    BY <1>2, <1>3 DEF Garbage
  <1>5. empty \in Pool(cap)
    BY DEF Pool
  <1>6. RemoveFirst(empty, 1) \in Pool(cap)
    BY <1>5, RemoveFirstType
  <1>7. ASSUME ~(sum >= w.size) PROVE rest \in Pool(cap)
    <2>1. sum \in 0 .. Payload
      BY <1>2, <1>3, <1>7
    <2> HIDE DEF sum
    <2> QED
      BY <2>1 DEF Pool
  <1> HIDE DEF bytes, empty, rest
  <1>8. CASE ~IsAckedAt(p, 0)
    BY <1>8 DEF Read
  <1>9. CASE IsAckedAt(p, 0)
    <2>1. Read(p, n) = [pool |-> IF sum >= w.size THEN RemoveFirst(empty, 1) ELSE rest,
                        bytes |-> bytes]
      BY <1>9 DEF Read, w, m, bytes, empty, rest
    <2> QED
      BY <2>1, <1>3, <1>4, <1>6, <1>7
  <1> QED
    BY <1>8, <1>9

-----------------------------------------------------------------------------
(* The invariants of a pool.                                               *)

(* A pool as these lemmas need it: a ring whose index follows its ids.     *)
Aligned(p, cap) == p \in Pool(cap) /\ p.bgn_index = p.bgn_id % cap

LEMMA PoolFacts ==
  ASSUME NEW cap \in Nat \ {0}, NEW p \in Pool(cap)
  PROVE  /\ p.capacity = cap /\ p.bgn_id \in Nat /\ p.end_id \in Nat
         /\ p.bgn_id \in Int /\ p.end_id \in Int
         /\ p.bgn_id \in Ids /\ p.end_id \in Ids
         /\ \A id \in Int : id % cap \in 0 .. cap - 1 /\ Slot(p, id) = p.windows[id % cap]
                            /\ Slot(p, id) \in Window
  <1>1. /\ p.capacity = cap /\ p.bgn_id \in Ids /\ p.end_id \in Ids
        /\ p.windows \in [0 .. cap - 1 -> Window]
    BY DEF Pool
  <1>2. \A id \in Int : id % cap \in 0 .. cap - 1
    BY ModType
  <1>3. \A id \in Int : Slot(p, id) = p.windows[id % cap]
    BY <1>1 DEF Slot
  <1>4. \A id \in Int : Slot(p, id) \in Window
    BY <1>1, <1>2, <1>3
  <1>5. p.bgn_id \in Nat /\ p.end_id \in Nat /\ p.bgn_id \in Int /\ p.end_id \in Int
    BY <1>1 DEF Ids
  <1> QED
    BY <1>1, <1>2, <1>3, <1>4, <1>5

(* While the ids do not wrap, get_index is the id modulo the capacity.     *)
LEMMA IndexSlot ==
  ASSUME NEW cap \in Nat \ {0}, NEW p \in Pool(cap), NEW id \in Nat,
         p.bgn_id <= id, id < IdMod
  PROVE  GetIndex(p, id) = id % cap /\ Get(p, id) = Slot(p, id)
  <1>1. p.capacity = cap /\ p.bgn_id \in Int /\ 0 <= p.bgn_id
    BY PoolFacts DEF Ids
  <1>2. (id - p.bgn_id) % IdMod = id - p.bgn_id
    BY <1>1, ModSmall
  <1>3. p.bgn_id + (id - p.bgn_id) = id
    BY <1>1
  <1>4. id % IdMod = id
    BY ModSmall
  <1>5. ~(id < p.bgn_id)
    BY <1>1
  <1>6. GetIndex(p, id) = id % cap
    BY <1>1, <1>2, <1>3, <1>4, <1>5 DEF GetIndex
  <1> QED
    BY <1>1, <1>6 DEF Get, Slot

LEMMA LastSlot ==
  ASSUME NEW cap \in Nat \ {0}, NEW p \in Pool(cap), p.bgn_id <= p.end_id
  PROVE  LastIndex(p) = p.end_id % cap /\ Last(p) = Slot(p, p.end_id)
  BY PoolFacts, IndexSlot DEF LastIndex, Last, Get, Ids

(* The i-th window from the first one.                                     *)
LEMMA AlignedSlots ==
  ASSUME NEW cap \in Nat \ {0}, NEW p, Aligned(p, cap)
  PROVE  \A i \in Int : (p.bgn_index + i) % cap = (p.bgn_id + i) % cap
  <1>1. p.bgn_id \in Int /\ p.bgn_index = p.bgn_id % cap
    BY PoolFacts DEF Aligned
  <1> QED
    BY <1>1, ModSumOf

LEMMA AckedSlot ==
  ASSUME NEW cap \in Nat \ {0}, NEW p, Aligned(p, cap), NEW i \in Nat
  PROVE  IsAckedAt(p, i) <=> Slot(p, p.bgn_id + i).id # INVALID_ID
                             /\ Slot(p, p.bgn_id + i).is_acked
  <1>1. p.capacity = cap /\ p.bgn_id \in Int /\ p.bgn_index = p.bgn_id % cap /\ i \in Int
    BY PoolFacts DEF Aligned
  <1>2. (p.bgn_index + i) % cap = (p.bgn_id + i) % cap
    BY <1>1, AlignedSlots
  <1> QED
    BY <1>1, <1>2 DEF IsAckedAt, IsValid, Slot

(* Two ids of a span have two slots.                                       *)
LEMMA SlotsDiffer ==
  ASSUME NEW cap \in Nat \ {0}, NEW b \in Int,
         NEW i \in b .. b + cap - 1, NEW j \in b .. b + cap - 1, i % cap = j % cap
  PROVE  i = j
  <1>1. i \in Int /\ j \in Int /\ i < j + cap /\ j < i + cap
    OBVIOUS
  <1> QED
    BY <1>1, ModInjective

(* n times remove_first.                                                   *)
LEMMA RemoveFirstSlots ==
  ASSUME NEW cap \in Nat \ {0}, NEW p, Aligned(p, cap), NEW n \in 0 .. cap,
         p.bgn_id + n < IdMod
  PROVE  LET q == RemoveFirst(p, n)
         IN  /\ Aligned(q, cap)
             /\ q.bgn_id = p.bgn_id + n
             /\ q.end_id = IF p.end_id < p.bgn_id + n THEN p.bgn_id + n ELSE p.end_id
             /\ \A id \in p.bgn_id + n .. p.bgn_id + cap - 1 : Slot(q, id) = Slot(p, id)
             /\ \A id \in p.bgn_id + cap .. p.bgn_id + n + cap - 1 : Slot(q, id) = Cleared
  <1> DEFINE q == RemoveFirst(p, n)
             gone(k) == \E i \in 0 .. n - 1 : k = (p.bgn_index + i) % p.capacity
  <1>1. /\ p \in Pool(cap) /\ p.capacity = cap /\ p.bgn_id \in Nat /\ p.end_id \in Nat
        /\ p.bgn_index = p.bgn_id % cap /\ p.windows \in [0 .. cap - 1 -> Window]
    BY PoolFacts DEF Aligned, Pool
  <1>0. n \in Int /\ p.bgn_id \in Int /\ IdMod \in Nat \ {0} /\ p.bgn_id + n \in 0 .. IdMod - 1
    BY <1>1
  <1>2. (p.bgn_id + n) % IdMod = p.bgn_id + n
    BY <1>0, ModSmall
  <1>3. (p.bgn_index + n) % cap = (p.bgn_id + n) % cap
    BY <1>0, AlignedSlots
  <1>4. \A i \in 0 .. n - 1 : (p.bgn_index + i) % p.capacity = (p.bgn_id + i) % cap
    <2> TAKE i \in 0 .. n - 1
    <2>1. i \in Int
      OBVIOUS
    <2> QED
      BY <1>1, <2>1, AlignedSlots
  <1>5. q \in Pool(cap)
    BY <1>1, RemoveFirstType
  <1>6. /\ q.bgn_id = p.bgn_id + n
        /\ q.bgn_index = q.bgn_id % cap
        /\ q.end_id = IF p.end_id < p.bgn_id + n THEN p.bgn_id + n ELSE p.end_id
        /\ q.capacity = cap
    BY <1>1, <1>2, <1>3 DEF RemoveFirst, Pool
  <1>7. \A k \in 0 .. cap - 1 : q.windows[k] = IF gone(k) THEN Cleared ELSE p.windows[k]
    BY <1>1 DEF RemoveFirst, Pool
  <1>8. \A id \in p.bgn_id + n .. p.bgn_id + cap - 1 : Slot(q, id) = Slot(p, id)
    <2> SUFFICES ASSUME NEW id \in p.bgn_id + n .. p.bgn_id + cap - 1
                 PROVE  Slot(q, id) = Slot(p, id)
      OBVIOUS
    <2>1. ~gone(id % cap)
      <3> SUFFICES ASSUME NEW i \in 0 .. n - 1, id % cap = (p.bgn_id + i) % cap
                   PROVE  FALSE
        BY <1>4
      <3>1. /\ id \in Int /\ p.bgn_id + i \in Int
            /\ id < (p.bgn_id + i) + cap /\ p.bgn_id + i < id + cap
        BY <1>0
      <3>2. id = p.bgn_id + i
        BY <3>1, ModInjective
      <3> QED
        BY <1>1, <3>2
    <2>2. id % cap \in 0 .. cap - 1
      BY <1>1, ModType
    <2> HIDE DEF gone
    <2> QED
      BY <1>1, <1>6, <1>7, <2>1, <2>2 DEF Slot
  <1>9. \A id \in p.bgn_id + cap .. p.bgn_id + n + cap - 1 : Slot(q, id) = Cleared
    <2> SUFFICES ASSUME NEW id \in p.bgn_id + cap .. p.bgn_id + n + cap - 1
                 PROVE  Slot(q, id) = Cleared
      OBVIOUS
    <2> DEFINE i == id - cap - p.bgn_id
    <2>1. i \in 0 .. n - 1 /\ id = (p.bgn_id + i) + cap /\ p.bgn_id + i \in Int
      BY <1>1, SMTT(60)
    <2> HIDE DEF i
    <2>2. id % cap = (p.bgn_id + i) % cap
      BY <2>1, ModNextRound
    <2>3. gone(id % cap)
      BY <1>4, <2>1, <2>2
    <2>4. id % cap \in 0 .. cap - 1
      BY <1>1, ModType
    <2> HIDE DEF gone
    <2> QED
      BY <1>1, <1>6, <1>7, <2>3, <2>4 DEF Slot
  <1> QED
    BY <1>5, <1>6, <1>8, <1>9 DEF Aligned

(* Writing the window of one id leaves the others of the span alone.       *)
LEMMA OtherSlots ==
  ASSUME NEW cap \in Nat \ {0}, NEW p \in Pool(cap), NEW id \in Span(p)
  PROVE  /\ id \in Int /\ id % cap \in 0 .. cap - 1
         /\ \A j \in Span(p) : j # id => j % cap # id % cap /\ j % cap \in 0 .. cap - 1
  <1>1. p.bgn_id \in Int /\ Span(p) = p.bgn_id .. p.bgn_id + cap - 1
    BY PoolFacts DEF Span
  <1>2. \A j \in Span(p) : j \in Int /\ j % cap \in 0 .. cap - 1
    <2> TAKE j \in Span(p)
    <2>1. j \in Int
      BY <1>1
    <2> QED
      BY <2>1, ModType
  <1>3. \A j \in Span(p) : j # id => j % cap # id % cap
    BY <1>1, SlotsDiffer
  <1> QED
    BY <1>2, <1>3

-----------------------------------------------------------------------------
(* The receiving side.                                                     *)

(* wndpool_contains holds of no id once bgn_id is within a ring of the     *)
(* last id; before, of ids below the invalid one.                          *)
LEMMA ContainsFacts ==
  ASSUME NEW cap \in Nat \ {0}, cap <= IdMod, NEW p \in Pool(cap), NEW id \in Ids, Contains(p, id)
  PROVE  /\ p.bgn_id <= id /\ id < p.bgn_id + cap /\ p.bgn_id + cap < IdMod
         /\ id < IdMod /\ id # INVALID_ID /\ id \in Span(p)
  <1>1. p.capacity = cap /\ p.bgn_id \in Nat /\ p.bgn_id < IdMod /\ id \in Nat /\ id < IdMod
    BY PoolFacts DEF Ids
  <1>2. p.bgn_id <= id /\ id < (p.bgn_id + cap) % IdMod
    BY <1>1 DEF Contains
  <1>3. p.bgn_id + cap < IdMod
    <2> SUFFICES ASSUME p.bgn_id + cap >= IdMod PROVE FALSE
      BY <1>1
    <2>1. p.bgn_id + cap - IdMod \in 0 .. IdMod - 1 /\ p.bgn_id + cap - IdMod \in Int
      BY <1>1
    <2>2. (p.bgn_id + cap - IdMod) % IdMod = p.bgn_id + cap - IdMod
      BY <2>1, ModSmall, IdModAssumption
    <2>3. (p.bgn_id + cap - IdMod) + IdMod = p.bgn_id + cap
      BY <1>1
    <2>4. (p.bgn_id + cap) % IdMod = p.bgn_id + cap - IdMod
      BY <2>1, <2>2, <2>3, ModNextRound, IdModAssumption
    <2> QED
      BY <1>1, <1>2, <2>4
  <1>4. (p.bgn_id + cap) % IdMod = p.bgn_id + cap
    BY <1>1, <1>3, ModSmall
  <1> QED
    BY <1>1, <1>2, <1>3, <1>4 DEF Span, INVALID_ID

(* wndpool_update keeps what is held and adds the packet.                  *)
LEMMA UpdateHolds ==
  ASSUME NEW cap \in Nat \ {0}, NEW r \in Pool(cap), NEW N \in Nat, RcvInv(r, N),
         cap <= IdMod, NEW f, f.id \in Ids, f.from \in Nat, f.size \in 0 .. Payload,
         f.id < N, Contains(r, f.id)
  PROVE  /\ RcvInv(Update(r, f), N)
         /\ Held(Update(r, f), f.id)
         /\ \A j \in Nat : Held(r, j) => Held(Update(r, f), j)
  <1> DEFINE q == Update(r, f)
             w == [id |-> f.id, from |-> f.from, size |-> f.size, is_acked |-> TRUE,
                   is_sent |-> r.windows[GetIndex(r, f.id)].is_sent]
  <1>1. /\ r.capacity = cap /\ r.bgn_id \in Nat /\ r.bgn_id <= N /\ f.id \in Nat
    BY PoolFacts DEF RcvInv, Ids
  <1>3. r.bgn_id <= f.id /\ f.id < r.bgn_id + cap /\ f.id < IdMod /\ f.id # INVALID_ID
    BY <1>1, ContainsFacts
  <1>4. f.id \in Span(r) /\ GetIndex(r, f.id) = f.id % cap
    BY <1>1, <1>3, IndexSlot DEF Span
  <1>5. /\ \A k \in 0 .. cap - 1 : q.windows[k] = IF k = f.id % cap THEN w ELSE r.windows[k]
        /\ q.bgn_id = r.bgn_id /\ q.bgn_index = r.bgn_index /\ q.capacity = cap
    BY <1>1, <1>4 DEF Update, Pool
  <1>6. w.id = f.id
    OBVIOUS
  <1> HIDE DEF q, w
  <1>7. /\ Slot(q, f.id) = w
        /\ \A j \in Span(r) : j # f.id => Slot(q, j) = Slot(r, j)
    <2>1. /\ f.id % cap \in 0 .. cap - 1
          /\ \A j \in Span(r) : j # f.id => j % cap # f.id % cap /\ j % cap \in 0 .. cap - 1
      BY <1>4, OtherSlots
    <2> QED
      BY <1>1, <1>5, <2>1 DEF Slot
  <1>8. Span(q) = Span(r)
    BY <1>1, <1>5 DEF Span
  <1>9. RcvInv(q, N)
    BY <1>1, <1>5, <1>6, <1>7, <1>8 DEF RcvInv
  <1>10. Held(q, f.id) /\ \A j \in Nat : Held(r, j) => Held(q, j)
    BY <1>3, <1>4, <1>5, <1>6, <1>7, <1>8 DEF Held
  <1> QED
    BY <1>9, <1>10 DEF q

(* wndpool_read gives up a packet only by moving on past it.               *)
LEMMA ReadHolds ==
  ASSUME NEW cap \in Nat \ {0}, NEW r \in Pool(cap), NEW N \in Nat, RcvInv(r, N),
         NEW n \in Nat
  PROVE  LET q == Read(r, n).pool
         IN  /\ RcvInv(q, N) /\ r.bgn_id <= q.bgn_id
             /\ \A j \in Nat : Held(r, j) => Held(q, j)
  <1> DEFINE q == Read(r, n).pool
             r0 == [r EXCEPT !.stored_size = 0]
  <1>1. /\ r.capacity = cap /\ r.bgn_id \in Nat /\ r.bgn_id <= N /\ Aligned(r, cap)
    BY PoolFacts DEF RcvInv, Aligned
  <1>2. CASE q = r
    BY <1>1, <1>2
  <1>3. CASE \E k : q = [r EXCEPT !.stored_size = k]
    <2>1. PICK k : q = [r EXCEPT !.stored_size = k]
      BY <1>3
    <2>2. /\ q.bgn_id = r.bgn_id /\ q.bgn_index = r.bgn_index /\ q.capacity = r.capacity
          /\ q.windows = r.windows
      BY <2>1 DEF Pool
    <2> HIDE DEF q
    <2>3. Span(q) = Span(r) /\ \A j : Slot(q, j) = Slot(r, j)
      BY <2>2 DEF Span, Slot
    <2> QED
      BY <1>1, <2>2, <2>3 DEF RcvInv, Held, q
  <1>4. CASE IsAckedAt(r, 0) /\ q = RemoveFirst(r0, 1)
    <2>1. /\ r0.bgn_id = r.bgn_id /\ r0.bgn_index = r.bgn_index /\ r0.capacity = r.capacity
          /\ r0.windows = r.windows /\ Aligned(r0, cap)
      <3>1. 0 \in 0 .. Payload
        OBVIOUS
      <3>2. r0 \in Pool(cap)
        BY <3>1 DEF Pool
      <3>3. /\ r0.bgn_id = r.bgn_id /\ r0.bgn_index = r.bgn_index /\ r0.capacity = r.capacity
            /\ r0.windows = r.windows
        BY DEF Pool
      <3> HIDE DEF r0
      <3> QED
        BY <1>1, <3>2, <3>3 DEF Aligned
    <2>2. \A j : Slot(r0, j) = Slot(r, j)
      BY <2>1 DEF Slot
    <2>3. r.bgn_id \in Span(r) /\ r.bgn_id + 0 = r.bgn_id
      BY <1>1 DEF Span
    <2>4. r.bgn_id + 1 <= N /\ r.bgn_id # INVALID_ID
      <3>1. Slot(r, r.bgn_id).id # INVALID_ID
        BY <1>1, <1>4, <2>3, AckedSlot
      <3> QED
        BY <1>1, <2>3, <3>1 DEF RcvInv
    <2>5. r0.bgn_id + 1 < IdMod /\ 1 \in 0 .. cap
      BY <1>1, <2>1, <2>4, PoolFacts DEF INVALID_ID, Ids
    <2> HIDE DEF r0
    <2>6. /\ Aligned(q, cap)
          /\ q.bgn_id = r.bgn_id + 1
          /\ \A id \in r.bgn_id + 1 .. r.bgn_id + cap - 1 : Slot(q, id) = Slot(r, id)
          /\ \A id \in r.bgn_id + cap .. r.bgn_id + 1 + cap - 1 : Slot(q, id) = Cleared
      BY <1>4, <2>1, <2>2, <2>5, RemoveFirstSlots
    <2> HIDE DEF q
    <2>7. q.capacity = cap /\ q.bgn_index = q.bgn_id % cap
      BY <2>6, PoolFacts DEF Aligned
    <2>8. Span(r) = r.bgn_id .. r.bgn_id + cap - 1 /\ Span(q) = r.bgn_id + 1 .. r.bgn_id + cap
      BY <1>1, <2>6, <2>7 DEF Span
    <2>9. ASSUME NEW id \in Span(q)
          PROVE  Slot(q, id).id = INVALID_ID \/ (Slot(q, id).id = id /\ id < N)
      <3>1. CASE id = r.bgn_id + cap
        BY <1>1, <2>6, <3>1 DEF Cleared
      <3>2. CASE id # r.bgn_id + cap
        <4>1. id \in r.bgn_id + 1 .. r.bgn_id + cap - 1 /\ id \in Span(r)
          BY <1>1, <2>8, <2>9, <3>2
        <4> QED
          BY <2>6, <4>1 DEF RcvInv
      <3> QED
        BY <3>1, <3>2
    <2>10. ASSUME NEW j \in Nat, Held(r, j) PROVE Held(q, j)
      <3>1. CASE j < r.bgn_id + 1
        BY <2>6, <3>1 DEF Held
      <3>2. CASE ~(j < r.bgn_id + 1)
        <4>1. j \in Span(r) /\ Slot(r, j).id = j /\ j # INVALID_ID
          BY <1>1, <2>10, <3>2 DEF Held
        <4>2. j \in r.bgn_id + 1 .. r.bgn_id + cap - 1 /\ j \in Span(q)
          BY <1>1, <2>8, <3>2, <4>1
        <4> QED
          BY <2>6, <4>1, <4>2 DEF Held
      <3> QED
        BY <3>1, <3>2
    <2> QED
      BY <1>1, <2>4, <2>6, <2>7, <2>9, <2>10 DEF RcvInv, q
  <1> QED
    <2> HIDE DEF r0
    <2>1. \/ q = r
          \/ \E k : q = [r EXCEPT !.stored_size = k]
          \/ IsAckedAt(r, 0) /\ q = RemoveFirst([r EXCEPT !.stored_size = 0], 1)
      BY DEF Read
    <2> QED
      BY <1>2, <1>3, <1>4, <2>1 DEF r0
-----------------------------------------------------------------------------
(* The sending side.                                                       *)

LEMMA RingFacts ==
  ASSUME NEW cap \in Nat \ {0}, NEW s \in Pool(cap), NEW N \in Nat, SndRing(s, N)
  PROVE  /\ Aligned(s, cap) /\ s.capacity = cap
         /\ s.bgn_id \in Nat /\ s.end_id \in Nat /\ s.bgn_id <= s.end_id /\ s.end_id <= N
         /\ N <= s.end_id + 1 /\ s.end_id < s.bgn_id + cap
         /\ Span(s) = s.bgn_id .. s.bgn_id + cap - 1
         /\ s.end_id \in Span(s) /\ s.bgn_id \in Span(s)
         /\ LastIndex(s) = s.end_id % cap /\ Last(s) = Slot(s, s.end_id)
         /\ \A id \in Span(s) : Slot(s, id) \in Window
  <1>1. /\ s.capacity = cap /\ s.bgn_id \in Nat /\ s.end_id \in Nat
        /\ \A id \in Int : Slot(s, id) \in Window
    BY PoolFacts
  <1>2. /\ s.bgn_id <= s.end_id /\ s.end_id < s.bgn_id + cap /\ s.end_id <= N
        /\ N <= s.end_id + 1 /\ s.bgn_index = s.bgn_id % cap
    BY <1>1 DEF SndRing
  <1>3. Span(s) = s.bgn_id .. s.bgn_id + cap - 1
    BY <1>1 DEF Span
  <1> QED
    BY <1>1, <1>2, <1>3, LastSlot DEF Aligned

LEMMA PendingSlot ==
  ASSUME NEW cap \in Nat \ {0}, NEW s \in Pool(cap), NEW N \in Nat, SndRing(s, N)
  PROVE  /\ Pending(s) = IF N = s.end_id THEN Slot(s, s.end_id).size ELSE 0
         /\ Pending(s) \in 0 .. Payload
         /\ Last(s).is_sent <=> N = s.end_id + 1
  BY RingFacts DEF SndRing, Pending, Window

(* Marking a packet as acknowledged changes nothing else.                  *)
LEMMA MarkSlots ==
  ASSUME NEW cap \in Nat \ {0}, NEW s \in Pool(cap), NEW id \in Span(s)
  PROVE  LET a == [s EXCEPT !.windows[id % cap].is_acked = TRUE]
         IN  /\ a \in Pool(cap) /\ a.bgn_id = s.bgn_id /\ a.end_id = s.end_id
             /\ a.bgn_index = s.bgn_index /\ Span(a) = Span(s)
             /\ \A j \in Span(s) :
                  /\ Slot(a, j).id = Slot(s, j).id
                  /\ Slot(a, j).is_sent = Slot(s, j).is_sent
                  /\ Slot(a, j).size = Slot(s, j).size
                  /\ Slot(a, j).from = Slot(s, j).from
                  /\ j # id => Slot(a, j).is_acked = Slot(s, j).is_acked
  <1> DEFINE a == [s EXCEPT !.windows[id % cap].is_acked = TRUE]
  <1>1. /\ id % cap \in 0 .. cap - 1
        /\ \A j \in Span(s) : j # id => j % cap # id % cap /\ j % cap \in 0 .. cap - 1
    BY OtherSlots
  <1>2. s.capacity = cap /\ s.windows \in [0 .. cap - 1 -> Window]
    BY DEF Pool
  <1>3. /\ a.bgn_id = s.bgn_id /\ a.end_id = s.end_id /\ a.bgn_index = s.bgn_index
        /\ a.capacity = cap /\ a.stored_size = s.stored_size
        /\ a.windows = [s.windows EXCEPT ![id % cap].is_acked = TRUE]
    BY DEF Pool
  <1>4. a.windows \in [0 .. cap - 1 -> Window]
    <2> DEFINE w == [s.windows[id % cap] EXCEPT !.is_acked = TRUE]
    <2>1. w \in Window
      BY <1>1, <1>2 DEF Window
    <2>2. a.windows = [s.windows EXCEPT ![id % cap] = w]
      BY <1>3
    <2> HIDE DEF w, a
    <2> QED
      BY <1>2, <2>1, <2>2
  <1>5. a \in Pool(cap)
    <2>1. a = [s EXCEPT !.windows = a.windows]
      BY <1>2, <1>3
    <2> HIDE DEF a
    <2> QED
      BY <1>4, <2>1 DEF Pool
  <1> HIDE DEF a
  <1>6. Slot(a, id) = [Slot(s, id) EXCEPT !.is_acked = TRUE] /\ Slot(s, id) \in Window
    BY <1>1, <1>2, <1>3 DEF Slot
  <1>7. \A j \in Span(s) : j # id => Slot(a, j) = Slot(s, j)
    BY <1>1, <1>2, <1>3 DEF Slot
  <1>8. Slot(a, id).id = Slot(s, id).id /\ Slot(a, id).is_sent = Slot(s, id).is_sent
        /\ Slot(a, id).size = Slot(s, id).size /\ Slot(a, id).from = Slot(s, id).from
    BY <1>6 DEF Window
  <1>9. Span(a) = Span(s)
    BY <1>2, <1>3 DEF Span
  <1> QED
    BY <1>3, <1>5, <1>7, <1>8, <1>9 DEF a

(* What stays in a pool that gives up packets: the contents of the others  *)
(* and the bytes not yet stamped.                                          *)
KeepsContent(s, q, N) ==
  /\ \A id \in Span(q) : id < N => id \in Span(s) /\ ContentOf(Slot(q, id)) = ContentOf(Slot(s, id))
  /\ Pending(q) = Pending(s)
  /\ Pending(s) # 0 => Last(q).from = Last(s).from

(* Removing acknowledged packets from the front.                           *)
LEMMA DropRing ==
  ASSUME NEW cap \in Nat \ {0}, NEW a \in Pool(cap), NEW N \in Nat, SndRing(a, N),
         a.bgn_id + cap < IdMod, NEW n \in 0 .. cap, AckedRun(a, n)
  PROVE  LET q == RemoveFirst(a, n)
         IN  /\ SndInv(q, N) /\ a.bgn_id <= q.bgn_id
             /\ KeepsContent(a, q, N)
             /\ \A j \in 0 .. N - 1 : Acked(q, j) => Acked(a, j)
  <1> DEFINE q == RemoveFirst(a, n)
             b == a.bgn_id
  <1>1. /\ Aligned(a, cap) /\ a.capacity = cap
        /\ b \in Nat /\ a.end_id \in Nat /\ b <= a.end_id /\ a.end_id <= N
        /\ N <= a.end_id + 1 /\ a.end_id < b + cap
        /\ Span(a) = b .. b + cap - 1
        /\ \A id \in Span(a) : Slot(a, id) \in Window
    BY RingFacts
  <1>2. \A i \in 0 .. n - 1 : Slot(a, b + i).id # INVALID_ID /\ Slot(a, b + i).is_acked
    BY <1>1, AckedSlot DEF AckedRun
  <1>3. b + n <= N
    <2>1. CASE n = 0
      BY <1>1, <2>1
    <2>2. CASE n # 0
      <3>1. n - 1 \in 0 .. n - 1 /\ b + (n - 1) \in Span(a)
        BY <1>1, <2>2
      <3>2. Slot(a, b + (n - 1)).id # INVALID_ID
        BY <1>2, <3>1
      <3>3. b + (n - 1) < N
        BY <1>1, <3>1, <3>2 DEF SndRing
      <3> QED
        BY <1>1, <3>3
    <2> QED
      BY <2>1, <2>2
  <1>4. /\ Aligned(q, cap)
        /\ q.bgn_id = b + n
        /\ q.end_id = IF a.end_id < b + n THEN b + n ELSE a.end_id
        /\ \A id \in b + n .. b + cap - 1 : Slot(q, id) = Slot(a, id)
        /\ \A id \in b + cap .. b + n + cap - 1 : Slot(q, id) = Cleared
    <2>1. b + n < IdMod
      BY <1>1
    <2> QED
      BY <1>1, <2>1, RemoveFirstSlots
  <1> HIDE DEF q
  <1>5. q \in Pool(cap) /\ q.capacity = cap /\ q.bgn_index = q.bgn_id % cap
    BY <1>4, PoolFacts DEF Aligned
  <1>6. Span(q) = b + n .. b + n + cap - 1
    BY <1>4, <1>5 DEF Span
  <1>7. q.bgn_id <= q.end_id /\ q.end_id < q.bgn_id + cap /\ (N = q.end_id \/ N = q.end_id + 1)
    <2>1. CASE a.end_id < b + n
      BY <1>1, <1>3, <1>4, <2>1, SMTT(60)
    <2>2. CASE ~(a.end_id < b + n)
      BY <1>1, <1>3, <1>4, <2>2, SMTT(60)
    <2> QED
      BY <2>1, <2>2
  <1>8. ASSUME NEW id \in Span(q), id < N
        PROVE  id \in Span(a) /\ Slot(q, id) = Slot(a, id)
    BY <1>1, <1>4, <1>6, <1>8, SMTT(60)
  <1>9. \A id \in Span(q) : id < N => Slot(q, id).id = id /\ Slot(q, id).is_sent
    BY <1>8 DEF SndRing
  <1>10. ASSUME NEW id \in Span(q), id >= N
         PROVE  /\ Slot(q, id).id = INVALID_ID /\ ~Slot(q, id).is_sent
                /\ id # q.end_id => Slot(q, id).size = 0
    <2>1. CASE id < b + cap
      <3>1. id \in Span(a) /\ Slot(q, id) = Slot(a, id)
        BY <1>1, <1>4, <1>6, <2>1
      <3>2. id # q.end_id => id # a.end_id
        BY <1>1, <1>3, <1>4, <1>6, <1>10
      <3> QED
        BY <1>10, <3>1, <3>2 DEF SndRing
    <2>2. CASE ~(id < b + cap)
      <3>1. Slot(q, id) = Cleared
        BY <1>1, <1>4, <1>6, <2>2
      <3> QED
        BY <3>1 DEF Cleared
    <2> QED
      BY <2>1, <2>2
  <1>11. SndRing(q, N)
    BY <1>5, <1>7, <1>9, <1>10 DEF SndRing
  <1>12. ~IsAckedAt(q, 0)
    <2>1. IsAckedAt(q, 0) <=> Slot(q, b + n).id # INVALID_ID /\ Slot(q, b + n).is_acked
      <3>1. q.bgn_id + 0 = b + n /\ 0 \in Nat
        BY <1>1, <1>4
      <3> QED
        BY <1>4, <3>1, AckedSlot
    <2>2. CASE n < cap
      <3>1. Slot(q, b + n) = Slot(a, b + n)
        BY <1>1, <1>4, <2>2
      <3>2. ~IsAckedAt(a, n) /\ n \in Nat
        BY <1>1, <2>2 DEF AckedRun
      <3>3. IsAckedAt(a, n) <=> Slot(a, b + n).id # INVALID_ID /\ Slot(a, b + n).is_acked
        BY <1>1, <3>2, AckedSlot
      <3> QED
        BY <2>1, <3>1, <3>2, <3>3
    <2>3. CASE ~(n < cap)
      <3>1. Slot(q, b + n) = Cleared
        BY <1>1, <1>4, <2>3
      <3> QED
        BY <2>1, <3>1 DEF Cleared
    <2> QED
      BY <2>2, <2>3
  <1>13. Pending(q) = Pending(a) /\ (Pending(a) # 0 => Last(q).from = Last(a).from)
    <2>0. Last(q) = Slot(q, q.end_id) /\ Last(a) = Slot(a, a.end_id)
      BY <1>5, <1>11, RingFacts
    <2>1. /\ Pending(q) = IF N = q.end_id THEN Slot(q, q.end_id).size ELSE 0
          /\ Pending(a) = IF N = a.end_id THEN Slot(a, a.end_id).size ELSE 0
          /\ Pending(a) \in 0 .. Payload
      BY <1>5, <1>11, PendingSlot
    <2>2. CASE q.end_id = a.end_id
      <3>1. a.end_id \in b + n .. b + cap - 1
        BY <1>1, <1>4, <2>2
      <3>2. Slot(q, a.end_id) = Slot(a, a.end_id)
        BY <1>4, <3>1
      <3> QED
        BY <2>0, <2>1, <2>2, <3>2
    <2>3. CASE q.end_id # a.end_id
      <3>1. q.end_id = N /\ q.end_id = b + n /\ N # a.end_id /\ N \in Span(q)
        <4>1. a.end_id < b + n /\ q.end_id = b + n
          BY <1>4, <2>3
        <4>2. N = b + n
          BY <1>1, <1>3, <4>1, SMTT(60)
        <4>3. N \in Span(q)
          BY <1>1, <1>6, <4>2, SMTT(60)
        <4> QED
          BY <2>3, <4>1, <4>2, <4>3
      <3>2. Slot(q, N).size = 0
        <4>1. CASE N < b + cap
          <5>1. N \in Span(a) /\ Slot(q, N) = Slot(a, N)
            BY <1>1, <1>4, <3>1, <4>1
          <5> QED
            BY <3>1, <5>1 DEF SndRing
        <4>2. CASE ~(N < b + cap)
          <5>1. Slot(q, N) = Cleared
            BY <1>1, <1>4, <1>6, <3>1, <4>2
          <5> QED
            BY <5>1 DEF Cleared
        <4> QED
          BY <4>1, <4>2
      <3> QED
        BY <2>1, <3>1, <3>2
    <2> QED
      BY <2>2, <2>3
  <1>14. ASSUME NEW j \in 0 .. N - 1, Acked(q, j) PROVE Acked(a, j)
    <2>1. CASE j < b
      BY <2>1 DEF Acked
    <2>2. CASE j >= b /\ j < b + n
      <3> DEFINE i == j - b
      <3>1. i \in 0 .. n - 1 /\ j = b + i /\ j \in Span(a)
        BY <1>1, <2>2, SMTT(60)
      <3> HIDE DEF i
      <3>2. Slot(a, j).is_acked /\ Slot(a, j).id # INVALID_ID
        BY <1>2, <3>1
      <3>3. Slot(a, j).id = j
        BY <3>1 DEF SndRing
      <3> QED
        BY <3>1, <3>2, <3>3 DEF Acked
    <2>3. CASE j >= b + n
      <3>1. /\ j # INVALID_ID /\ j \in Span(q)
            /\ Slot(q, j).id = j /\ Slot(q, j).is_acked
        BY <1>1, <1>4, <1>14, <2>3 DEF Acked
      <3> QED
        BY <1>8, <3>1 DEF Acked
    <2> QED
      BY <1>1, <2>1, <2>2, <2>3
  <1>15. KeepsContent(a, q, N)
    BY <1>8, <1>13 DEF KeepsContent
  <1> QED
    BY <1>1, <1>4, <1>11, <1>12, <1>14, <1>15 DEF SndInv, q

(* wndpool_ack of a packet in flight.  Only a pool that has not used up    *)
(* the ids finds it.                                                       *)
LEMMA AckInv ==
  ASSUME NEW cap \in Nat \ {0}, cap <= IdMod, NEW s \in Pool(cap), NEW N \in Nat,
         SenderInv(s, N), NEW id \in Ids, id < N, Contains(s, id), NEW p \in Ack(s, id)
  PROVE  /\ SndInv(s, N) /\ SndInv(p, N) /\ s.bgn_id <= p.bgn_id
         /\ KeepsContent(s, p, N)
         /\ \A j \in 0 .. N - 1 : Acked(p, j) => Acked(s, j) \/ j = id
  <1>0. s.bgn_id <= id /\ s.bgn_id + cap < IdMod /\ id < IdMod /\ id \in Span(s)
    BY ContainsFacts
  <1>00. SndInv(s, N)
    <2> SUFFICES ASSUME SndSpent(s, N) PROVE FALSE
      BY DEF SenderInv
    <2>1. s.capacity = cap /\ s.bgn_id \in Nat /\ s.end_id \in Nat
      BY PoolFacts
    <2>2. s.end_id + IdMod < s.bgn_id + cap
      BY <2>1 DEF SndSpent
    <2> QED
      BY <1>0, <2>1, <2>2
  <1> DEFINE a == [s EXCEPT !.windows[id % cap].is_acked = TRUE]
  <1>1. /\ Aligned(s, cap) /\ s.capacity = cap
        /\ s.bgn_id \in Nat /\ s.end_id \in Nat /\ s.bgn_id <= s.end_id /\ s.end_id <= N
        /\ Span(s) = s.bgn_id .. s.bgn_id + cap - 1
        /\ s.end_id \in Span(s) /\ s.bgn_id \in Span(s)
    BY <1>00, RingFacts DEF SndInv
  <1>2. id \in Span(s) /\ s.bgn_id <= id
    BY <1>0
  <1>3. GetIndex(s, id) = id % cap
    <2>1. id \in Nat /\ id < IdMod
      BY DEF Ids
    <2> QED
      BY <1>2, <2>1, IndexSlot
  <1>4. /\ a \in Pool(cap) /\ a.bgn_id = s.bgn_id /\ a.end_id = s.end_id
        /\ a.bgn_index = s.bgn_index /\ Span(a) = Span(s)
        /\ \A j \in Span(s) :
             /\ Slot(a, j).id = Slot(s, j).id
             /\ Slot(a, j).is_sent = Slot(s, j).is_sent
             /\ Slot(a, j).size = Slot(s, j).size
             /\ Slot(a, j).from = Slot(s, j).from
             /\ j # id => Slot(a, j).is_acked = Slot(s, j).is_acked
    BY <1>2, MarkSlots
  <1>5. Ack(s, id) = IF id = s.bgn_id
                     THEN {RemoveFirst(a, n) : n \in {i \in 0 .. cap : AckedRun(a, i)}}
                     ELSE {a}
    BY <1>1, <1>3 DEF Ack
  <1> HIDE DEF a
  <1>6. a.capacity = cap /\ Aligned(a, cap)
    BY <1>1, <1>4, PoolFacts DEF Aligned
  <1>7. SndRing(a, N)
    BY <1>00, <1>1, <1>4, <1>6 DEF SndInv, SndRing
  <1>8. KeepsContent(s, a, N)
    <2>1. Pending(a) = Pending(s)
      BY <1>00, <1>1, <1>4, <1>7, PendingSlot DEF SndInv
    <2>2. Last(a) = Slot(a, s.end_id) /\ Last(s) = Slot(s, s.end_id)
      BY <1>00, <1>4, <1>7, RingFacts DEF SndInv
    <2> QED
      BY <1>1, <1>4, <2>1, <2>2 DEF KeepsContent, ContentOf
  <1>9. \A j \in 0 .. N - 1 : Acked(a, j) => Acked(s, j) \/ j = id
    BY <1>4 DEF Acked
  <1>10. CASE id = s.bgn_id
    <2>1. PICK n \in 0 .. cap : AckedRun(a, n) /\ p = RemoveFirst(a, n)
      BY <1>5, <1>10
    <2>2. /\ SndInv(p, N) /\ KeepsContent(a, p, N) /\ a.bgn_id <= p.bgn_id
          /\ \A j \in 0 .. N - 1 : Acked(p, j) => Acked(a, j)
      BY <1>0, <1>4, <1>7, <2>1, DropRing
    <2>3. KeepsContent(s, p, N)
      BY <1>8, <2>2 DEF KeepsContent
    <2> QED
      BY <1>00, <1>4, <1>9, <2>2, <2>3
  <1>11. CASE id # s.bgn_id
    <2>1. p = a
      BY <1>5, <1>11
    <2>2. IsAckedAt(a, 0) <=> IsAckedAt(s, 0)
      <3>1. /\ IsAckedAt(a, 0) <=> Slot(a, s.bgn_id + 0).id # INVALID_ID
                                  /\ Slot(a, s.bgn_id + 0).is_acked
            /\ IsAckedAt(s, 0) <=> Slot(s, s.bgn_id + 0).id # INVALID_ID
                                  /\ Slot(s, s.bgn_id + 0).is_acked
        BY <1>1, <1>4, <1>6, AckedSlot
      <3>2. s.bgn_id + 0 = s.bgn_id
        BY <1>1
      <3> QED
        BY <1>1, <1>4, <1>11, <3>1, <3>2
    <2> QED
      BY <1>00, <1>1, <1>4, <1>7, <1>8, <1>9, <2>1, <2>2 DEF SndInv
  <1> QED
    BY <1>10, <1>11

LEMMA FirstSlot ==
  ASSUME NEW cap \in Nat \ {0}, NEW p, Aligned(p, cap)
  PROVE  IsAckedAt(p, 0) <=> Slot(p, p.bgn_id).id # INVALID_ID /\ Slot(p, p.bgn_id).is_acked
  <1>1. p.bgn_id + 0 = p.bgn_id /\ 0 \in Nat
    BY PoolFacts DEF Aligned
  <1> QED
    BY <1>1, AckedSlot

(* Writing the window of one id.                                           *)
Put(p, id, w) == [p EXCEPT !.windows[id % p.capacity] = w]

LEMMA PutSlots ==
  ASSUME NEW cap \in Nat \ {0}, NEW p \in Pool(cap), NEW id \in Span(p), NEW w \in Window,
         NEW q, q = Put(p, id, w)
  PROVE  /\ q \in Pool(cap) /\ q.bgn_id = p.bgn_id /\ q.end_id = p.end_id
         /\ q.bgn_index = p.bgn_index /\ Span(q) = Span(p)
         /\ Slot(q, id) = w
         /\ \A j \in Span(p) : j # id => Slot(q, j) = Slot(p, j)
  <1>1. /\ id % cap \in 0 .. cap - 1
        /\ \A j \in Span(p) : j # id => j % cap # id % cap /\ j % cap \in 0 .. cap - 1
    BY OtherSlots
  <1>2. p.capacity = cap /\ p.windows \in [0 .. cap - 1 -> Window]
    BY DEF Pool
  <1>3. /\ q.bgn_id = p.bgn_id /\ q.end_id = p.end_id /\ q.bgn_index = p.bgn_index
        /\ q.capacity = cap
        /\ q.windows = [p.windows EXCEPT ![id % cap] = w]
    BY <1>2 DEF Pool, Put
  <1>4. q \in Pool(cap)
    BY <1>1, <1>2 DEF Pool, Put
  <1>5. Slot(q, id) = w
    BY <1>1, <1>2, <1>3 DEF Slot
  <1>6. \A j \in Span(p) : j # id => Slot(q, j) = Slot(p, j)
    BY <1>1, <1>2, <1>3 DEF Slot
  <1>7. Span(q) = Span(p)
    BY <1>2, <1>3 DEF Span
  <1> QED
    BY <1>3, <1>4, <1>5, <1>6, <1>7

(* wndpool_update_header on a window that was not stamped before.          *)
LEMMA StampRing ==
  ASSUME NEW cap \in Nat \ {0}, NEW s \in Pool(cap), NEW N \in Nat, SndInv(s, N),
         ~Last(s).is_sent, NEW q, q = UpdateHeader(s)
  PROVE  /\ q \in Pool(cap) /\ N = s.end_id /\ q.end_id = N /\ q.bgn_id = s.bgn_id
         /\ SndInv(q, N + 1)
         /\ Pending(q) = 0
         /\ Last(q).id = N
         /\ Span(q) = Span(s) /\ N \in Span(s)
         /\ \A j \in Span(s) : ContentOf(Slot(q, j)) = ContentOf(Slot(s, j))
         /\ ContentOf(Last(q)) = ContentOf(Last(s))
         /\ \A j \in 0 .. N : Acked(q, j) => j # N /\ Acked(s, j)
  <1> DEFINE w == [Last(s) EXCEPT !.id = s.end_id, !.is_acked = FALSE, !.is_sent = TRUE]
  <1>1. /\ Aligned(s, cap) /\ s.capacity = cap
        /\ s.bgn_id \in Nat /\ s.end_id \in Nat /\ s.bgn_id <= s.end_id /\ s.end_id <= N
        /\ s.end_id < s.bgn_id + cap
        /\ Span(s) = s.bgn_id .. s.bgn_id + cap - 1
        /\ s.end_id \in Span(s) /\ s.bgn_id \in Span(s) /\ s.end_id \in Ids
        /\ LastIndex(s) = s.end_id % cap /\ Last(s) = Slot(s, s.end_id)
        /\ Last(s) \in Window
    <2>1. s.end_id \in Ids
      BY PoolFacts
    <2> QED
      BY <2>1, RingFacts DEF SndInv
  <1>2. N = s.end_id
    BY <1>1, PendingSlot DEF SndInv, SndRing
  <1>3. w \in Window /\ w.id = N /\ ~w.is_acked /\ w.is_sent /\ ContentOf(w) = ContentOf(Last(s))
    BY <1>1, <1>2 DEF Window, ContentOf
  <1>4. q = Put(s, N, w)
    BY <1>1, <1>2 DEF UpdateHeader, Put
  <1> HIDE DEF w
  <1>5. /\ q \in Pool(cap) /\ q.bgn_id = s.bgn_id /\ q.end_id = s.end_id
        /\ q.bgn_index = s.bgn_index /\ Span(q) = Span(s)
        /\ Slot(q, N) = w
        /\ \A j \in Span(s) : j # N => Slot(q, j) = Slot(s, j)
    <2>1. N \in Span(s)
      BY <1>1, <1>2
    <2> QED
      BY <1>3, <1>4, <2>1, PutSlots
  <1>6. q.capacity = cap /\ Aligned(q, cap) /\ Last(q) = Slot(q, N)
    BY <1>1, <1>2, <1>5, PoolFacts, LastSlot DEF Aligned
  <1>7. SndRing(q, N + 1)
    <2>1. ASSUME NEW id \in Span(s), id < N + 1
          PROVE  Slot(q, id).id = id /\ Slot(q, id).is_sent
      <3>1. CASE id = N
        BY <1>3, <1>5, <3>1
      <3>2. CASE id # N
        BY <1>1, <1>5, <2>1, <3>2 DEF SndInv, SndRing
      <3> QED
        BY <3>1, <3>2
    <2>2. ASSUME NEW id \in Span(s), id >= N + 1
          PROVE  Slot(q, id).id = INVALID_ID /\ ~Slot(q, id).is_sent /\ Slot(q, id).size = 0
      <3>1. id # N /\ id >= N
        BY <1>1, <2>2
      <3> QED
        BY <1>2, <1>5, <3>1 DEF SndInv, SndRing
    <2> QED
      BY <1>1, <1>2, <1>5, <1>6, <2>1, <2>2 DEF SndInv, SndRing
  <1>8. ~IsAckedAt(q, 0)
    <2>1. IsAckedAt(q, 0) <=> Slot(q, s.bgn_id).id # INVALID_ID /\ Slot(q, s.bgn_id).is_acked
      BY <1>5, <1>6, FirstSlot
    <2>2. IsAckedAt(s, 0) <=> Slot(s, s.bgn_id).id # INVALID_ID /\ Slot(s, s.bgn_id).is_acked
      BY <1>1, FirstSlot
    <2> QED
      BY <1>1, <1>3, <1>5, <2>1, <2>2 DEF SndInv
  <1>9. Pending(q) = 0
    BY <1>3, <1>5, <1>6 DEF Pending
  <1>10. \A j \in 0 .. N : Acked(q, j) => j # N /\ Acked(s, j)
    BY <1>1, <1>2, <1>3, <1>5 DEF Acked
  <1>11. /\ N \in Span(s) /\ ContentOf(Last(q)) = ContentOf(Last(s))
         /\ \A j \in Span(s) : ContentOf(Slot(q, j)) = ContentOf(Slot(s, j))
    BY <1>1, <1>2, <1>3, <1>5, <1>6
  <1> QED
    BY <1>2, <1>3, <1>5, <1>6, <1>7, <1>8, <1>9, <1>10, <1>11 DEF SndInv

(* Adding bytes to the window that is being filled.                        *)
Filled(s, from, k) ==
  [s EXCEPT !.windows[LastIndex(s)] = [Last(s) EXCEPT !.from = from, !.size = k]]

LEMMA FillRing ==
  ASSUME NEW cap \in Nat \ {0}, NEW s \in Pool(cap), NEW N \in Nat, SndInv(s, N),
         ~Last(s).is_sent, NEW k \in 0 .. Payload, NEW pos \in Nat,
         NEW q, q = Filled(s, pos, k)
  PROVE  /\ q \in Pool(cap) /\ N = s.end_id /\ q.end_id = N /\ q.bgn_id = s.bgn_id
         /\ SndInv(q, N)
         /\ ~Last(q).is_sent /\ Last(q).size = k /\ Pending(q) = k /\ Last(q).from = pos
         /\ Span(q) = Span(s)
         /\ \A j \in Span(s) : j # N => Slot(q, j) = Slot(s, j)
         /\ \A j \in 0 .. N - 1 : Acked(q, j) => Acked(s, j)
  <1> DEFINE w == [Last(s) EXCEPT !.from = pos, !.size = k]
  <1>1. /\ Aligned(s, cap) /\ s.capacity = cap
        /\ s.bgn_id \in Nat /\ s.end_id \in Nat /\ s.bgn_id <= s.end_id /\ s.end_id <= N
        /\ s.end_id < s.bgn_id + cap
        /\ Span(s) = s.bgn_id .. s.bgn_id + cap - 1
        /\ s.end_id \in Span(s) /\ s.bgn_id \in Span(s)
        /\ LastIndex(s) = s.end_id % cap /\ Last(s) = Slot(s, s.end_id)
        /\ Last(s) \in Window
    BY RingFacts DEF SndInv
  <1>2. N = s.end_id
    BY <1>1, PendingSlot DEF SndInv, SndRing
  <1>3. Slot(s, N).id = INVALID_ID /\ ~Slot(s, N).is_sent
    BY <1>1, <1>2 DEF SndInv, SndRing
  <1>4. w \in Window /\ w.id = INVALID_ID /\ ~w.is_sent /\ w.size = k /\ w.from = pos
    BY <1>1, <1>2, <1>3 DEF Window
  <1>5. q = Put(s, N, w)
    BY <1>1, <1>2 DEF Filled, Put
  <1> HIDE DEF w
  <1>6. /\ q \in Pool(cap) /\ q.bgn_id = s.bgn_id /\ q.end_id = s.end_id
        /\ q.bgn_index = s.bgn_index /\ Span(q) = Span(s)
        /\ Slot(q, N) = w
        /\ \A j \in Span(s) : j # N => Slot(q, j) = Slot(s, j)
    <2>1. N \in Span(s)
      BY <1>1, <1>2
    <2> QED
      BY <1>4, <1>5, <2>1, PutSlots
  <1>7. q.capacity = cap /\ Aligned(q, cap) /\ Last(q) = Slot(q, N)
    BY <1>1, <1>2, <1>6, PoolFacts, LastSlot DEF Aligned
  <1>8. SndRing(q, N)
    <2>1. ASSUME NEW id \in Span(s), id < N
          PROVE  Slot(q, id).id = id /\ Slot(q, id).is_sent
      BY <1>1, <1>6, <2>1 DEF SndInv, SndRing
    <2>2. ASSUME NEW id \in Span(s), id >= N
          PROVE  /\ Slot(q, id).id = INVALID_ID /\ ~Slot(q, id).is_sent
                 /\ id # N => Slot(q, id).size = 0
      <3>1. CASE id = N
        BY <1>4, <1>6, <3>1
      <3>2. CASE id # N
        BY <1>2, <1>6, <2>2, <3>2 DEF SndInv, SndRing
      <3> QED
        BY <3>1, <3>2
    <2> QED
      BY <1>1, <1>2, <1>6, <1>7, <2>1, <2>2 DEF SndInv, SndRing
  <1>9. ~IsAckedAt(q, 0)
    <2>1. IsAckedAt(q, 0) <=> Slot(q, s.bgn_id).id # INVALID_ID /\ Slot(q, s.bgn_id).is_acked
      BY <1>6, <1>7, FirstSlot
    <2>2. IsAckedAt(s, 0) <=> Slot(s, s.bgn_id).id # INVALID_ID /\ Slot(s, s.bgn_id).is_acked
      BY <1>1, FirstSlot
    <2> QED
      BY <1>1, <1>4, <1>6, <2>1, <2>2 DEF SndInv
  <1>10. ~Last(q).is_sent /\ Last(q).size = k /\ Pending(q) = k /\ Last(q).from = pos
    BY <1>4, <1>6, <1>7 DEF Pending
  <1>11. \A j \in 0 .. N - 1 : Acked(q, j) => Acked(s, j)
    BY <1>6 DEF Acked
  <1> QED
    BY <1>2, <1>6, <1>8, <1>9, <1>10, <1>11 DEF SndInv

(* Going on with the next window after the last one was stamped.           *)
NextOf(h, end)  == [h EXCEPT !.end_id = end]
MovedOn(h, end) ==
  [NextOf(h, end) EXCEPT !.windows[LastIndex(NextOf(h, end))] = Cleared]

LEMMA NextRing ==
  ASSUME NEW cap \in Nat \ {0}, NEW h \in Pool(cap), NEW M \in Nat, SndInv(h, M),
         M < IdMod, h.end_id + 1 = M, M < h.bgn_id + cap,
         NEW q, q = MovedOn(h, M)
  PROVE  /\ q \in Pool(cap)
         /\ SndInv(q, M)
         /\ ~Last(q).is_sent /\ Last(q).size = 0 /\ Pending(q) = 0
         /\ Span(q) = Span(h)
         /\ \A j \in Span(h) : j # M => Slot(q, j) = Slot(h, j)
         /\ \A j \in 0 .. M - 1 : Acked(q, j) => Acked(h, j)
  <1>1. /\ Aligned(h, cap) /\ h.capacity = cap
        /\ h.bgn_id \in Nat /\ h.end_id \in Nat /\ h.bgn_id < M
        /\ Span(h) = h.bgn_id .. h.bgn_id + cap - 1
        /\ h.bgn_id \in Span(h)
    BY RingFacts, SMTT(60) DEF SndInv
  <1> DEFINE next == NextOf(h, M)
  <1>2. /\ next \in Pool(cap) /\ next.end_id = M /\ next.bgn_id = h.bgn_id
        /\ next.bgn_index = h.bgn_index /\ next.capacity = cap /\ next.windows = h.windows
    BY SMTT(60) DEF Pool, Ids, NextOf
  <1> HIDE DEF next
  <1>3. Span(next) = Span(h) /\ \A j : Slot(next, j) = Slot(h, j)
    BY <1>1, <1>2 DEF Span, Slot
  <1>4. LastIndex(next) = M % cap /\ M \in Span(next)
    BY <1>1, <1>2, <1>3, LastSlot
  <1>5. /\ q \in Pool(cap) /\ q.bgn_id = h.bgn_id /\ q.end_id = M
        /\ q.bgn_index = h.bgn_index /\ Span(q) = Span(h)
        /\ Slot(q, M) = Cleared
        /\ \A j \in Span(h) : j # M => Slot(q, j) = Slot(h, j)
    <2>1. q = Put(next, M, Cleared)
      BY <1>2, <1>4 DEF MovedOn, Put, next
    <2>2. /\ q \in Pool(cap) /\ q.bgn_id = next.bgn_id /\ q.end_id = next.end_id
          /\ q.bgn_index = next.bgn_index /\ Span(q) = Span(next)
          /\ Slot(q, M) = Cleared
          /\ \A j \in Span(next) : j # M => Slot(q, j) = Slot(next, j)
      BY <1>2, <1>4, <2>1, ClearedType, PutSlots
    <2> QED
      BY <1>2, <1>3, <2>2
  <1>6. q.capacity = cap /\ Aligned(q, cap) /\ Last(q) = Cleared
    <2>1. q.capacity = cap /\ q.bgn_id <= q.end_id
      BY <1>1, <1>5 DEF Pool
    <2>2. Last(q) = Slot(q, q.end_id)
      BY <1>5, <2>1, LastSlot
    <2> QED
      BY <1>1, <1>5, <2>1, <2>2 DEF Aligned
  <1>7. SndRing(q, M)
    <2>1. ASSUME NEW id \in Span(h), id < M
          PROVE  Slot(q, id).id = id /\ Slot(q, id).is_sent
      BY <1>1, <1>5, <2>1 DEF SndInv, SndRing
    <2>2. ASSUME NEW id \in Span(h), id >= M
          PROVE  Slot(q, id).id = INVALID_ID /\ ~Slot(q, id).is_sent /\ Slot(q, id).size = 0
      <3>1. CASE id = M
        BY <1>5, <3>1 DEF Cleared
      <3>2. CASE id # M
        BY <1>1, <1>5, <2>2, <3>2 DEF SndInv, SndRing
      <3> QED
        BY <3>1, <3>2
    <2> QED
      BY <1>1, <1>5, <1>6, <2>1, <2>2 DEF SndInv, SndRing
  <1>8. ~IsAckedAt(q, 0)
    <2>1. IsAckedAt(q, 0) <=> Slot(q, h.bgn_id).id # INVALID_ID /\ Slot(q, h.bgn_id).is_acked
      BY <1>5, <1>6, FirstSlot
    <2>2. IsAckedAt(h, 0) <=> Slot(h, h.bgn_id).id # INVALID_ID /\ Slot(h, h.bgn_id).is_acked
      BY <1>1, FirstSlot
    <2>3. h.bgn_id # M
      BY <1>1
    <2> QED
      BY <1>1, <1>5, <2>1, <2>2, <2>3 DEF SndInv
  <1>9. ~Last(q).is_sent /\ Last(q).size = 0 /\ Pending(q) = 0
    BY <1>6 DEF Cleared, Pending
  <1>10. \A j \in 0 .. M - 1 : Acked(q, j) => Acked(h, j)
    BY <1>5 DEF Acked
  <1> QED
    BY <1>5, <1>7, <1>8, <1>9, <1>10 DEF SndInv

-----------------------------------------------------------------------------
(* The sending side when the ids are used up.                              *)

(* In a ring that holds no id twice every acknowledged window is in place. *)
LEMMA RingInPlace ==
  ASSUME NEW cap \in Nat \ {0}, NEW s \in Pool(cap), NEW N \in Nat, SndRing(s, N)
  PROVE  AckedInPlace(s)
  <1>1. s.capacity = cap /\ s.bgn_id \in Int /\ DOMAIN s.windows = 0 .. cap - 1
        /\ Span(s) = s.bgn_id .. s.bgn_id + cap - 1
    BY PoolFacts DEF Pool, Span
  <1>2. SUFFICES ASSUME NEW k \in 0 .. cap - 1, NEW w, w = s.windows[k],
                        IsValid(w), w.is_acked
                 PROVE  w.id \in Span(s) /\ k = w.id % s.capacity
    BY <1>1 DEF AckedInPlace
  <1>3. PICK j \in Span(s) : j % cap = k
    <2>1. PICK b \in Int : b = s.bgn_id
      BY <1>1
    <2>2. \E j \in b .. b + cap - 1 : j % cap = k
      BY <1>2, <2>1, ModCovers
    <2> QED
      BY <1>1, <2>1, <2>2
  <1>4. w = Slot(s, j)
    BY <1>1, <1>2, <1>3 DEF Slot
  <1>5. j < N /\ w.id = j
    BY <1>1, <1>2, <1>4 DEF SndRing, IsValid
  <1> QED
    BY <1>1, <1>3, <1>5

Replaced(p, k, w) == [p EXCEPT !.windows[k] = w]

(* Writing a window with what is not acknowledged leaves no acknowledged   *)
(* one out of its place.                                                   *)
LEMMA SpentPut ==
  ASSUME NEW cap \in Nat \ {0}, NEW s \in Pool(cap), AckedInPlace(s), ~IsAckedAt(s, 0),
         NEW k \in 0 .. cap - 1, NEW w \in Window, ~(IsValid(w) /\ w.is_acked),
         NEW q, q = Replaced(s, k, w)
  PROVE  /\ q \in Pool(cap) /\ q.bgn_id = s.bgn_id /\ q.end_id = s.end_id
         /\ q.capacity = cap /\ Span(q) = Span(s)
         /\ q.windows[k] = w
         /\ AckedInPlace(q) /\ ~IsAckedAt(q, 0)
         /\ \A j : Acked(q, j) => Acked(s, j)
  <1>1. s.capacity = cap /\ s.bgn_id \in Int /\ s.windows \in [0 .. cap - 1 -> Window]
    BY PoolFacts DEF Pool
  <1>2. /\ q.bgn_id = s.bgn_id /\ q.end_id = s.end_id /\ q.bgn_index = s.bgn_index
        /\ q.capacity = cap /\ q.windows = [s.windows EXCEPT ![k] = w]
    BY <1>1 DEF Pool, Replaced
  <1>3. q \in Pool(cap)
    BY OneWindowType DEF Replaced
  <1>4. Span(q) = Span(s) /\ q.windows[k] = w /\ DOMAIN q.windows = 0 .. cap - 1
        /\ \A i \in 0 .. cap - 1 : i # k => q.windows[i] = s.windows[i]
    BY <1>1, <1>2 DEF Span
  <1>5. AckedInPlace(q)
    BY <1>1, <1>2, <1>4 DEF AckedInPlace
  <1>6. ~IsAckedAt(q, 0)
    <2>1. PICK i : i = (s.bgn_index + 0) % cap
      OBVIOUS
    <2>2. s.bgn_index + 0 \in Int
      BY DEF Pool
    <2>3. i \in 0 .. cap - 1
      BY <2>1, <2>2, ModType
    <2>4. q.windows[i] = w \/ q.windows[i] = s.windows[i]
      BY <1>4, <2>3
    <2> QED
      BY <1>1, <1>2, <2>1, <2>4 DEF IsAckedAt
  <1>7. ASSUME NEW j, Acked(q, j) PROVE Acked(s, j)
    <2>1. CASE j < s.bgn_id
      BY <2>1 DEF Acked
    <2>2. CASE ~(j < s.bgn_id)
      <3>1. j # INVALID_ID /\ j \in Span(s) /\ Slot(q, j).id = j /\ Slot(q, j).is_acked
        BY <1>2, <1>4, <1>7, <2>2 DEF Acked
      <3>2. j % cap \in 0 .. cap - 1
        BY <1>1, <3>1, ModType DEF Span
      <3>3. Slot(q, j) = q.windows[j % cap] /\ Slot(s, j) = s.windows[j % cap]
        BY <1>1, <1>2 DEF Slot
      <3>4. Slot(q, j) = Slot(s, j)
        BY <1>4, <3>1, <3>2, <3>3 DEF IsValid
      <3> QED
        BY <3>1, <3>4 DEF Acked
    <2> QED
      BY <2>1, <2>2
  <1> QED
    BY <1>2, <1>3, <1>4, <1>5, <1>6, <1>7

(* The number of the packet in the last window: its id, or what the id     *)
(* would be if the ids did not begin again.                                *)
Filling(s, N) == IF Last(s).is_sent THEN N - 1 ELSE N

LEMMA FillingFacts ==
  ASSUME NEW cap \in Nat \ {0}, cap <= IdMod, NEW s \in Pool(cap), NEW N \in Nat,
         SenderInv(s, N), NEW e, e = Filling(s, N)
  PROVE  /\ e \in Nat /\ e \in Span(s) /\ s.bgn_id <= e /\ e < s.bgn_id + cap
         /\ \/ s.bgn_id <= s.end_id /\ e = s.end_id /\ SndInv(s, N)
            \/ s.end_id < s.bgn_id /\ e = s.end_id + IdMod /\ SndSpent(s, N)
         /\ (s.end_id - s.bgn_id) % IdMod = e - s.bgn_id
         /\ AckedInPlace(s) /\ ~IsAckedAt(s, 0)
         /\ ~Last(s).is_sent => Last(s).id = INVALID_ID
         /\ Last(s).is_sent => Last(s).id = s.end_id
  <1>1. /\ s.capacity = cap /\ s.bgn_id \in Nat /\ s.end_id \in Nat
        /\ Span(s) = s.bgn_id .. s.bgn_id + cap - 1
    BY PoolFacts DEF Span
  <1>2. CASE SndInv(s, N)
    <2>1. /\ s.bgn_id <= s.end_id /\ s.end_id < s.bgn_id + cap /\ s.end_id \in Span(s)
          /\ s.end_id <= N /\ N <= s.end_id + 1 /\ Last(s) = Slot(s, s.end_id)
          /\ Last(s).is_sent <=> N = s.end_id + 1
      BY <1>2, RingFacts, PendingSlot DEF SndInv
    <2>2. e = s.end_id
      BY <1>1, <2>1 DEF Filling
    <2>3. s.end_id - s.bgn_id \in 0 .. IdMod - 1
      BY <1>1, <2>1
    <2>4. (s.end_id - s.bgn_id) % IdMod = s.end_id - s.bgn_id
      BY <2>3, ModSmall, IdModAssumption
    <2>5. AckedInPlace(s) /\ ~IsAckedAt(s, 0)
      BY <1>2, RingInPlace DEF SndInv
    <2>6. IF Last(s).is_sent THEN Last(s).id = s.end_id ELSE Last(s).id = INVALID_ID
      BY <1>1, <1>2, <2>1 DEF SndInv, SndRing
    <2> QED
      BY <1>1, <1>2, <2>1, <2>2, <2>4, <2>5, <2>6
  <1>3. CASE SndSpent(s, N)
    <2>1. s.end_id < s.bgn_id /\ s.end_id + IdMod < s.bgn_id + cap
      BY <1>1, <1>3 DEF SndSpent
    <2>2. e = s.end_id + IdMod
      BY <1>1, <1>3 DEF Filling, SndSpent
    <2>3. e - s.bgn_id \in 0 .. IdMod - 1 /\ s.end_id - s.bgn_id \in Int
          /\ (s.end_id - s.bgn_id) + IdMod = e - s.bgn_id
          /\ e \in Nat /\ s.bgn_id <= e /\ e < s.bgn_id + cap
      <3>1. s.bgn_id < IdMod
        BY PoolFacts DEF Ids
      <3> QED
        BY <1>1, <2>1, <2>2, <3>1, SMTT(30)
    <2>4. (e - s.bgn_id) % IdMod = e - s.bgn_id
      BY <2>3, ModSmall, IdModAssumption
    <2>5. (s.end_id - s.bgn_id) % IdMod = (e - s.bgn_id) % IdMod
      BY <2>3, ModNextRound, IdModAssumption
    <2>6. e \in Span(s)
      BY <1>1, <2>3
    <2>7. /\ AckedInPlace(s) /\ ~IsAckedAt(s, 0)
          /\ ~Last(s).is_sent => Last(s).id = INVALID_ID
          /\ Last(s).is_sent => Last(s).id = s.end_id
      BY <1>3 DEF SndSpent
    <2> QED
      BY <1>3, <2>1, <2>2, <2>3, <2>4, <2>5, <2>6, <2>7
  <1> QED
    BY <1>2, <1>3 DEF SenderInv

(* The packets stamped are those removed and at most a ring of others.     *)
LEMMA SenderBounds ==
  ASSUME NEW cap \in Nat \ {0}, cap <= IdMod, NEW s \in Pool(cap), NEW N \in Nat,
         SenderInv(s, N)
  PROVE  /\ s.bgn_id <= N /\ N <= s.bgn_id + cap
         /\ Pending(s) \in 0 .. Payload
         /\ s.bgn_id <= s.end_id => SndInv(s, N)
         /\ s.end_id < s.bgn_id => SndSpent(s, N)
  <1>1. PICK e : e = Filling(s, N)
    OBVIOUS
  <1>2. /\ e \in Nat /\ s.bgn_id <= e /\ e < s.bgn_id + cap
        /\ \/ s.bgn_id <= s.end_id /\ SndInv(s, N)
           \/ s.end_id < s.bgn_id /\ SndSpent(s, N)
    BY <1>1, FillingFacts
  <1>3. s.bgn_id \in Nat /\ s.end_id \in Nat
    BY PoolFacts
  <1>4. Pending(s) \in 0 .. Payload
    <2>1. Last(s) \in Window
      BY LastType
    <2> QED
      BY <2>1 DEF Pending, Window
  <1>5. N = e \/ N = e + 1
    BY <1>1, <1>2 DEF Filling
  <1> QED
    BY <1>2, <1>3, <1>4, <1>5

(* wndpool_update_header, in either case.                                  *)
LEMMA StampInv ==
  ASSUME NEW cap \in Nat \ {0}, cap <= IdMod, NEW s \in Pool(cap), NEW N \in Nat,
         SenderInv(s, N), ~Last(s).is_sent, NEW q, q = UpdateHeader(s)
  PROVE  /\ q \in Pool(cap) /\ q.end_id = s.end_id /\ q.bgn_id = s.bgn_id
         /\ SenderInv(q, N + 1)
         /\ Pending(q) = 0 /\ Last(q).is_sent /\ Last(q).id = s.end_id
         /\ N = s.end_id \/ N = s.end_id + IdMod
         /\ Span(q) = Span(s) /\ N \in Span(s)
         /\ ContentOf(Last(q)) = ContentOf(Last(s))
         /\ s.bgn_id <= s.end_id =>
              N = s.end_id /\ \A j \in Span(s) : ContentOf(Slot(q, j)) = ContentOf(Slot(s, j))
         /\ \A j \in 0 .. N : Acked(q, j) => j < N /\ Acked(s, j)
  <1>1. PICK w : w = [Last(s) EXCEPT !.id = s.end_id, !.is_acked = FALSE, !.is_sent = TRUE]
    OBVIOUS
  <1>2. LastIndex(s) \in 0 .. cap - 1 /\ Last(s) \in Window /\ s.end_id \in Ids
    BY LastType, PoolFacts
  <1>3. w \in Window /\ w.id = s.end_id /\ ~w.is_acked /\ w.is_sent
        /\ ContentOf(w) = ContentOf(Last(s))
    BY <1>1, <1>2 DEF Window, ContentOf
  <1>4. q = [s EXCEPT !.windows[LastIndex(s)] = w]
    BY <1>1 DEF UpdateHeader
  <1>5. /\ AckedInPlace(s) /\ ~IsAckedAt(s, 0)
        /\ N \in Span(s) /\ N < s.bgn_id + cap
        /\ \/ s.bgn_id <= s.end_id /\ N = s.end_id /\ SndInv(s, N)
           \/ s.end_id < s.bgn_id /\ N = s.end_id + IdMod /\ SndSpent(s, N)
    <2>1. N = Filling(s, N)
      BY DEF Filling
    <2> QED
      BY <2>1, FillingFacts
  <1>6. /\ q \in Pool(cap) /\ q.bgn_id = s.bgn_id /\ q.end_id = s.end_id
        /\ q.capacity = cap /\ Span(q) = Span(s)
        /\ q.windows[LastIndex(s)] = w
        /\ AckedInPlace(q) /\ ~IsAckedAt(q, 0)
        /\ \A j : Acked(q, j) => Acked(s, j)
    <2>1. PICK k \in 0 .. cap - 1 : k = LastIndex(s)
      BY <1>2
    <2>2. ~(IsValid(w) /\ w.is_acked) /\ q = Replaced(s, k, w) /\ w \in Window
      BY <1>3, <1>4, <2>1 DEF Replaced
    <2>3. /\ q \in Pool(cap) /\ q.bgn_id = s.bgn_id /\ q.end_id = s.end_id
          /\ q.capacity = cap /\ Span(q) = Span(s)
          /\ q.windows[k] = w
          /\ AckedInPlace(q) /\ ~IsAckedAt(q, 0)
          /\ \A j : Acked(q, j) => Acked(s, j)
      BY <1>5, <2>2, SpentPut
    <2> QED
      BY <2>1, <2>3
  <1>7. LastIndex(q) = LastIndex(s) /\ Last(q) = w /\ s.capacity = cap
    <2>1. s.capacity = cap
      BY PoolFacts
    <2>2. LastIndex(q) = LastIndex(s)
      BY <1>6, <2>1 DEF LastIndex, GetIndex
    <2> QED
      BY <1>6, <2>1, <2>2 DEF Last
  <1>8. Pending(q) = 0
    BY <1>3, <1>7 DEF Pending
  <1>9. CASE s.bgn_id <= s.end_id /\ N = s.end_id /\ SndInv(s, N)
    <2>1. /\ SndInv(q, N + 1)
          /\ \A j \in Span(s) : ContentOf(Slot(q, j)) = ContentOf(Slot(s, j))
          /\ \A j \in 0 .. N : Acked(q, j) => j # N /\ Acked(s, j)
      BY <1>9, StampRing
    <2>2. \A j \in 0 .. N : Acked(q, j) => j < N /\ Acked(s, j)
      BY <2>1
    <2> QED
      BY <1>3, <1>5, <1>6, <1>7, <1>8, <1>9, <2>1, <2>2 DEF SenderInv
  <1>10. CASE s.end_id < s.bgn_id /\ N = s.end_id + IdMod /\ SndSpent(s, N)
    <2>1. s.end_id \in Nat /\ s.bgn_id \in Nat
      BY PoolFacts
    <2>2. N + 1 = s.end_id + IdMod + 1
      BY <1>10, <2>1
    <2>3. SndSpent(q, N + 1)
      BY <1>3, <1>6, <1>7, <1>10, <2>2 DEF SndSpent
    <2>4. ~(s.bgn_id <= s.end_id)
      BY <1>10, <2>1
    <2>5. ASSUME NEW j \in 0 .. N, Acked(q, j) PROVE j < N
      <3> SUFFICES ASSUME j = N PROVE FALSE
        OBVIOUS
      <3>1. ~(N < q.bgn_id)
        <4>1. s.bgn_id < IdMod
          BY PoolFacts DEF Ids
        <4> QED
          BY <1>6, <1>10, <2>1, <4>1
      <3>2. N \in Span(q) /\ Slot(q, N).id = N
        BY <2>5, <3>1 DEF Acked
      <3>3. Slot(q, N) \in Window
        BY <1>6, PoolFacts
      <3>4. N < IdMod
        BY <3>2, <3>3 DEF Window, Ids
      <3> QED
        BY <1>10, <2>1, <3>4
    <2> QED
      BY <1>3, <1>5, <1>6, <1>7, <1>8, <1>10, <2>3, <2>4, <2>5 DEF SenderInv
  <1> QED
    BY <1>5, <1>9, <1>10

(* Adding bytes to the last window, in either case.                        *)
LEMMA FillInv ==
  ASSUME NEW cap \in Nat \ {0}, cap <= IdMod, NEW s \in Pool(cap), NEW N \in Nat,
         SenderInv(s, N), ~Last(s).is_sent, NEW k \in 0 .. Payload, NEW pos \in Nat,
         NEW q, q = Filled(s, pos, k)
  PROVE  /\ q \in Pool(cap) /\ q.end_id = s.end_id /\ q.bgn_id = s.bgn_id
         /\ SenderInv(q, N)
         /\ ~Last(q).is_sent /\ Last(q).size = k /\ Pending(q) = k /\ Last(q).from = pos
         /\ Span(q) = Span(s)
         /\ s.bgn_id <= s.end_id => \A j \in Span(s) : j # N => Slot(q, j) = Slot(s, j)
         /\ \A j \in 0 .. N - 1 : Acked(q, j) => Acked(s, j)
  <1>1. PICK w : w = [Last(s) EXCEPT !.from = pos, !.size = k]
    OBVIOUS
  <1>2. LastIndex(s) \in 0 .. cap - 1 /\ Last(s) \in Window
    BY LastType
  <1>3. /\ AckedInPlace(s) /\ ~IsAckedAt(s, 0) /\ Last(s).id = INVALID_ID
        /\ \/ s.bgn_id <= s.end_id /\ SndInv(s, N)
           \/ s.end_id < s.bgn_id /\ N = s.end_id + IdMod /\ SndSpent(s, N)
    <2>1. N = Filling(s, N)
      BY DEF Filling
    <2> QED
      BY <2>1, FillingFacts
  <1>4. w \in Window /\ w.id = INVALID_ID /\ ~w.is_sent /\ w.size = k /\ w.from = pos
    BY <1>1, <1>2, <1>3 DEF Window
  <1>5. q = [s EXCEPT !.windows[LastIndex(s)] = w]
    BY <1>1 DEF Filled
  <1>6. /\ q \in Pool(cap) /\ q.bgn_id = s.bgn_id /\ q.end_id = s.end_id
        /\ q.capacity = cap /\ Span(q) = Span(s)
        /\ q.windows[LastIndex(s)] = w
        /\ AckedInPlace(q) /\ ~IsAckedAt(q, 0)
        /\ \A j : Acked(q, j) => Acked(s, j)
    <2>1. PICK k1 \in 0 .. cap - 1 : k1 = LastIndex(s)
      BY <1>2
    <2>2. ~(IsValid(w) /\ w.is_acked) /\ q = Replaced(s, k1, w) /\ w \in Window
      BY <1>4, <1>5, <2>1 DEF IsValid, Replaced
    <2>3. /\ q \in Pool(cap) /\ q.bgn_id = s.bgn_id /\ q.end_id = s.end_id
          /\ q.capacity = cap /\ Span(q) = Span(s)
          /\ q.windows[k1] = w
          /\ AckedInPlace(q) /\ ~IsAckedAt(q, 0)
          /\ \A j : Acked(q, j) => Acked(s, j)
      BY <1>3, <2>2, SpentPut
    <2> QED
      BY <2>1, <2>3
  <1>7. LastIndex(q) = LastIndex(s) /\ Last(q) = w /\ s.capacity = cap
    <2>1. s.capacity = cap
      BY PoolFacts
    <2>2. LastIndex(q) = LastIndex(s)
      BY <1>6, <2>1 DEF LastIndex, GetIndex
    <2> QED
      BY <1>6, <2>1, <2>2 DEF Last
  <1>8. Pending(q) = k
    BY <1>4, <1>7 DEF Pending
  <1>9. CASE s.bgn_id <= s.end_id /\ SndInv(s, N)
    <2>1. SndInv(q, N) /\ \A j \in Span(s) : j # N => Slot(q, j) = Slot(s, j)
      BY <1>9, FillRing
    <2> QED
      BY <1>4, <1>6, <1>7, <1>8, <2>1 DEF SenderInv
  <1>10. CASE s.end_id < s.bgn_id /\ N = s.end_id + IdMod /\ SndSpent(s, N)
    <2>1. s.end_id \in Nat /\ s.bgn_id \in Nat
      BY PoolFacts
    <2>2. SndSpent(q, N)
      BY <1>4, <1>6, <1>7, <1>10 DEF SndSpent
    <2>3. ~(s.bgn_id <= s.end_id)
      BY <1>10, <2>1
    <2> QED
      BY <1>4, <1>6, <1>7, <1>8, <2>2, <2>3 DEF SenderInv
  <1> QED
    BY <1>3, <1>9, <1>10

(* Going on with the next window, in either case: after the last id the    *)
(* pool has used up the ids.                                               *)
LEMMA NextInv ==
  ASSUME NEW cap \in Nat \ {0}, cap <= IdMod, NEW h \in Pool(cap), NEW M \in Nat,
         SenderInv(h, M), Last(h).is_sent, M < h.bgn_id + cap,
         NEW q, q = MovedOn(h, (h.end_id + 1) % IdMod)
  PROVE  /\ q \in Pool(cap) /\ q.bgn_id = h.bgn_id
         /\ SenderInv(q, M)
         /\ ~Last(q).is_sent /\ Last(q).size = 0 /\ Pending(q) = 0
         /\ Span(q) = Span(h)
         /\ q.bgn_id <= q.end_id => /\ h.bgn_id <= h.end_id
                                    /\ \A j \in Span(h) : j # M => Slot(q, j) = Slot(h, j)
         /\ \A j \in 0 .. M - 1 : Acked(q, j) => Acked(h, j)
  <1>1. PICK end : end = (h.end_id + 1) % IdMod
    OBVIOUS
  <1>2. /\ h.bgn_id \in Nat /\ h.end_id \in Nat /\ h.bgn_id < IdMod /\ h.end_id < IdMod
        /\ h.capacity = cap
    <2>1. h.capacity = cap /\ h.bgn_id \in Ids /\ h.end_id \in Ids
      BY PoolFacts
    <2> QED
      BY <2>1 DEF Ids
  <1>3. end \in Ids /\ end \in Nat
    <2>1. h.end_id + 1 \in Int /\ IdMod \in Nat \ {0}
      BY <1>2
    <2>2. end \in 0 .. IdMod - 1
      BY <1>1, <2>1, ModType
    <2> QED
      BY <2>2 DEF Ids
  <1>4. /\ AckedInPlace(h) /\ ~IsAckedAt(h, 0)
        /\ \/ h.bgn_id <= h.end_id /\ M = h.end_id + 1 /\ SndInv(h, M)
           \/ h.end_id < h.bgn_id /\ M = h.end_id + IdMod + 1 /\ SndSpent(h, M)
    <2>1. M - 1 = Filling(h, M)
      BY DEF Filling
    <2>2. /\ AckedInPlace(h) /\ ~IsAckedAt(h, 0)
          /\ \/ h.bgn_id <= h.end_id /\ M - 1 = h.end_id /\ SndInv(h, M)
             \/ h.end_id < h.bgn_id /\ M - 1 = h.end_id + IdMod /\ SndSpent(h, M)
      BY <2>1, FillingFacts
    <2> QED
      BY <1>2, <2>2
  <1>5. PICK next : next = NextOf(h, end)
    OBVIOUS
  <1>6. /\ next \in Pool(cap) /\ next.end_id = end /\ next.bgn_id = h.bgn_id
        /\ next.bgn_index = h.bgn_index /\ next.capacity = cap /\ next.windows = h.windows
    BY <1>3, <1>5 DEF Pool, NextOf
  <1>7. AckedInPlace(next) /\ ~IsAckedAt(next, 0) /\ Span(next) = Span(h)
        /\ \A j : Acked(next, j) => Acked(h, j)
    BY <1>2, <1>4, <1>6 DEF AckedInPlace, IsAckedAt, Span, Acked, Slot
  <1>8. /\ q \in Pool(cap) /\ q.bgn_id = h.bgn_id /\ q.end_id = end
        /\ q.capacity = cap /\ Span(q) = Span(h)
        /\ q.windows[LastIndex(next)] = Cleared
        /\ AckedInPlace(q) /\ ~IsAckedAt(q, 0)
        /\ \A j : Acked(q, j) => Acked(h, j)
    <2>1. q = Replaced(next, LastIndex(next), Cleared)
      BY <1>1, <1>5 DEF MovedOn, Replaced
    <2>2. LastIndex(next) \in 0 .. cap - 1
      BY <1>6, LastType
    <2>3. ~IsValid(Cleared)
      BY DEF IsValid, Cleared
    <2>4. /\ q \in Pool(cap) /\ q.bgn_id = next.bgn_id /\ q.end_id = next.end_id
          /\ q.capacity = cap /\ Span(q) = Span(next)
          /\ q.windows[LastIndex(next)] = Cleared
          /\ AckedInPlace(q) /\ ~IsAckedAt(q, 0)
          /\ \A j : Acked(q, j) => Acked(next, j)
      BY <1>6, <1>7, <2>1, <2>2, <2>3, ClearedType, SpentPut
    <2> QED
      BY <1>6, <1>7, <2>4
  <1>9. Last(q) = Cleared
    <2>1. LastIndex(q) = LastIndex(next)
      BY <1>6, <1>8 DEF LastIndex, GetIndex
    <2> QED
      BY <1>8, <2>1 DEF Last
  <1>10. ~Last(q).is_sent /\ Last(q).size = 0 /\ Pending(q) = 0 /\ Last(q).id = INVALID_ID
    BY <1>9 DEF Cleared, Pending
  <1>11. CASE h.bgn_id <= h.end_id /\ M = h.end_id + 1 /\ SndInv(h, M) /\ M < IdMod
    <2>1. end = M
      BY <1>1, <1>2, <1>11, ModSmall, IdModAssumption
    <2>2. SndInv(q, M) /\ \A j \in Span(h) : j # M => Slot(q, j) = Slot(h, j)
      BY <1>1, <1>11, <2>1, NextRing
    <2> QED
      BY <1>8, <1>10, <1>11, <2>2 DEF SenderInv
  <1>12. CASE h.bgn_id <= h.end_id /\ M = h.end_id + 1 /\ SndInv(h, M) /\ ~(M < IdMod)
    <2>1. M = IdMod
      BY <1>2, <1>12
    <2>2. end = 0
      <3>1. h.end_id + 1 = 0 + IdMod /\ 0 \in 0 .. IdMod - 1
        BY <1>12, <2>1
      <3>2. (0 + IdMod) % IdMod = 0 % IdMod /\ 0 % IdMod = 0
        BY <3>1, ModNextRound, ModSmall, IdModAssumption
      <3> QED
        BY <1>1, <3>1, <3>2
    <2>3. /\ end < q.bgn_id /\ end + IdMod < q.bgn_id + q.capacity
          /\ M = end + IdMod + 0
      BY <1>2, <1>8, <2>1, <2>2
    <2>4. SndSpent(q, M)
      BY <1>8, <1>10, <2>3 DEF SndSpent
    <2>5. ~(q.bgn_id <= q.end_id)
      BY <1>2, <1>8, <2>2, <2>3
    <2> QED
      BY <1>8, <1>10, <2>4, <2>5 DEF SenderInv
  <1>13. CASE h.end_id < h.bgn_id /\ M = h.end_id + IdMod + 1 /\ SndSpent(h, M)
    <2>1. h.end_id + 1 \in 0 .. IdMod - 1
      BY <1>2, <1>13
    <2>2. end = h.end_id + 1
      BY <1>1, <2>1, ModSmall, IdModAssumption
    <2>3. /\ end < q.bgn_id /\ end + IdMod < q.bgn_id + q.capacity
          /\ M = end + IdMod + 0
      BY <1>2, <1>8, <1>13, <2>2
    <2>4. SndSpent(q, M)
      BY <1>8, <1>10, <2>3 DEF SndSpent
    <2>5. ~(q.bgn_id <= q.end_id)
      BY <1>2, <1>3, <1>8, <2>3
    <2> QED
      BY <1>8, <1>10, <2>4, <2>5 DEF SenderInv
  <1> QED
    BY <1>4, <1>11, <1>12, <1>13

-----------------------------------------------------------------------------
(* wndpool_write.                                                          *)

(* The frames of a pass: none, or the packet with the next id.             *)
NextFrame(sent, N) ==
  \/ sent = << >>
  \/ \E f \in FullFrame : sent = <<f>> /\ (f.id = N \/ f.id + IdMod = N)

(* Where the window of id N gets its bytes: it begins at pos when it was   *)
(* empty, goes on otherwise, and leaves the pool when it is stamped.       *)
SegContent(s, N, pos, res) ==
  LET all == [from |-> IF Pending(s) = 0 THEN pos ELSE Last(s).from,
              size |-> Pending(s) + res.taken]
  IN  /\ Span(res.pool) = Span(s) /\ N \in Span(s)
      /\ res.pool.bgn_id <= res.pool.end_id =>
           /\ s.bgn_id <= s.end_id
           /\ \A id \in Span(s) : id < N => ContentOf(Slot(res.pool, id)) = ContentOf(Slot(s, id))
           /\ res.sent # << >> => ContentOf(Slot(res.pool, N)) = all
      /\ res.sent = << >> => Pending(res.pool) = all.size /\ Last(res.pool).from = all.from
      /\ res.sent # << >> => Pending(res.pool) = 0 /\ ContentOf(res.sent[1]) = all

(* What one pass of the loop of wndpool_write does to a pool s after N     *)
(* packets.                                                                *)
AfterSeg(cap, s, N, pos, n, res) ==
  \E M \in {N, N + 1} :
    /\ M = N + Len(res.sent)
    /\ res.pool \in Pool(cap) /\ res.pool.bgn_id = s.bgn_id
    /\ res.taken \in 0 .. n
    /\ SenderInv(res.pool, M)
    /\ ~Last(res.pool).is_sent
    /\ \A j \in 0 .. M - 1 : Acked(res.pool, j) => j < N /\ Acked(s, j)
    /\ NextFrame(res.sent, N)
    /\ SegContent(s, N, pos, res)
    /\ Pending(s) = 0 /\ n <= Payload => res.taken = n
    /\ CanWrite(s) /\ Pending(s) # 0 /\ res.taken # n => res.sent # << >>

LEMMA WriteSegInv ==
  ASSUME NEW cap \in Nat \ {0}, cap <= IdMod, NEW s \in Pool(cap), NEW N \in Nat,
         SenderInv(s, N), NEW pos \in Nat, NEW n \in Nat, ~Last(s).is_sent,
         NEW res, res = WriteSeg(s, pos, n)
  PROVE  AfterSeg(cap, s, N, pos, n, res)
  <1> DEFINE w    == Last(s)
             seg  == Smaller(n, Payload - w.size)
             k    == w.size + seg
             from == IF w.size = 0 THEN pos ELSE w.from
             fill == Filled(s, from, k)
             head == UpdateHeader(fill)
             done == MovedOn(head, (s.end_id + 1) % IdMod)
  <1>1. w \in Window /\ w.size \in 0 .. Payload /\ w.from \in Nat /\ Pending(s) = w.size
    <2>1. w \in Window
      BY LastType
    <2> HIDE DEF w
    <2>2. w.size \in 0 .. Payload /\ w.from \in Nat
      BY <2>1 DEF Window
    <2> QED
      BY <2>1, <2>2 DEF w, Pending
  <1>2. /\ N \in Span(s) /\ s.bgn_id <= N /\ N < s.bgn_id + cap
        /\ (s.end_id - s.bgn_id) % IdMod = N - s.bgn_id
        /\ N = s.end_id \/ N = s.end_id + IdMod
        /\ s.capacity = cap /\ s.bgn_id \in Nat
    <2>1. N = Filling(s, N)
      BY DEF Filling
    <2>2. s.capacity = cap /\ s.bgn_id \in Nat
      BY PoolFacts
    <2> HIDE DEF w, fill, head, done
    <2> QED
      BY <2>1, <2>2, FillingFacts
  <1>3. seg \in 0 .. n /\ k \in 0 .. Payload /\ k = w.size + seg /\ (seg = n \/ k = Payload)
    <2> HIDE DEF w
    <2> QED
      BY <1>1 DEF Smaller
  <1>4. from \in Nat /\ from = IF Pending(s) = 0 THEN pos ELSE Last(s).from
    <2>1. from = IF Pending(s) = 0 THEN pos ELSE w.from
      BY <1>1
    <2> HIDE DEF w
    <2> QED
      BY <1>1, <2>1 DEF w
  <1> HIDE DEF seg, k, from
  <1>5. /\ fill \in Pool(cap) /\ fill.end_id = s.end_id /\ fill.bgn_id = s.bgn_id
        /\ SenderInv(fill, N)
        /\ ~Last(fill).is_sent /\ Last(fill).size = k /\ Pending(fill) = k
        /\ Last(fill).from = from /\ Span(fill) = Span(s)
        /\ s.bgn_id <= s.end_id => \A j \in Span(s) : j # N => Slot(fill, j) = Slot(s, j)
        /\ \A j \in 0 .. N - 1 : Acked(fill, j) => Acked(s, j)
    <2>1. fill = Filled(s, from, k) /\ k \in 0 .. Payload /\ from \in Nat
      BY <1>3, <1>4
    <2> HIDE DEF w, fill, head, done
    <2> QED
      BY <2>1, FillInv
  <1> HIDE DEF fill
  <1>51. \A j \in Span(s) : j \in Int
    BY PoolFacts DEF Span
  <1>53. Pending(s) = 0 /\ n <= Payload => seg = n
    <2> HIDE DEF w
    <2> QED
      BY <1>1, <1>3
  <1>6. CASE k = Payload /\ Count(fill) < s.capacity
    <2> DEFINE M == N + 1
    <2>1. /\ head \in Pool(cap) /\ head.end_id = s.end_id /\ head.bgn_id = s.bgn_id
          /\ SenderInv(head, M)
          /\ Last(head).is_sent /\ Last(head).id = s.end_id
          /\ Span(head) = Span(s)
          /\ ContentOf(Last(head)) = ContentOf(Last(fill))
          /\ s.bgn_id <= s.end_id =>
               N = s.end_id /\ \A j \in Span(s) : ContentOf(Slot(head, j)) = ContentOf(Slot(fill, j))
          /\ \A j \in 0 .. N : Acked(head, j) => j < N /\ Acked(fill, j)
      <3>1. head = UpdateHeader(fill)
        OBVIOUS
      <3> HIDE DEF w, head, done
      <3> QED
        BY <1>5, <3>1, StampInv
    <2>2. M < s.bgn_id + cap
      <3>1. Count(fill) = N - s.bgn_id + 1
        BY <1>2, <1>5, <1>6 DEF Count
      <3> QED
        BY <1>2, <1>6, <3>1
    <2>3. M \in Nat
      OBVIOUS
    <2>5. done = MovedOn(head, (head.end_id + 1) % IdMod)
      BY <2>1
    <2>6. Last(head).size = k /\ Last(head).from \in Nat
      <3>1. Last(fill) \in Window
        BY <1>5, LastType
      <3>2. Last(head) =
              [Last(fill) EXCEPT !.id = fill.end_id, !.is_acked = FALSE, !.is_sent = TRUE]
        BY <1>5, UpdateHeaderLast
      <3> HIDE DEF head
      <3> QED
        BY <1>5, <3>1, <3>2 DEF Window
    <2> HIDE DEF head, done, M
    <2>7. /\ done \in Pool(cap) /\ SenderInv(done, M) /\ done.bgn_id = s.bgn_id
          /\ ~Last(done).is_sent /\ Pending(done) = 0
          /\ Span(done) = Span(s)
          /\ done.bgn_id <= done.end_id =>
               s.bgn_id <= s.end_id /\ \A j \in Span(s) : j # M => Slot(done, j) = Slot(head, j)
          /\ \A j \in 0 .. M - 1 : Acked(done, j) => Acked(head, j)
      <3>1. M < head.bgn_id + cap
        BY <2>1, <2>2
      <3>2. /\ done \in Pool(cap) /\ SenderInv(done, M) /\ done.bgn_id = head.bgn_id
            /\ ~Last(done).is_sent /\ Pending(done) = 0
            /\ Span(done) = Span(head)
            /\ done.bgn_id <= done.end_id =>
                 /\ head.bgn_id <= head.end_id
                 /\ \A j \in Span(head) : j # M => Slot(done, j) = Slot(head, j)
            /\ \A j \in 0 .. M - 1 : Acked(done, j) => Acked(head, j)
        BY <2>1, <2>3, <2>5, <3>1, NextInv
      <3> QED
        BY <2>1, <3>2
    <2>8. res = [pool |-> done, taken |-> seg, sent |-> <<DataFrame(Last(head))>>]
      BY <1>6 DEF WriteSeg, w, seg, k, from, fill, head, done, Filled, MovedOn, NextOf
    <2>9. res.pool = done /\ res.taken = seg /\ Len(res.sent) = 1
      BY <2>8
    <2>10. NextFrame(res.sent, N)
      <3>1. s.end_id \in Ids
        BY PoolFacts
      <3>2. DataFrame(Last(head)) \in FullFrame /\ DataFrame(Last(head)).id = s.end_id
        BY <1>3, <1>6, <2>1, <2>6, <3>1, SMTT(60) DEF DataFrame, FullFrame
      <3> QED
        BY <1>2, <2>8, <3>2 DEF NextFrame
    <2>11. ASSUME NEW j \in 0 .. M - 1, Acked(done, j) PROVE j < N /\ Acked(s, j)
      <3>1. j \in 0 .. N
        BY DEF M
      <3>2. j < N /\ Acked(fill, j)
        BY <2>1, <2>7, <2>11, <3>1
      <3> QED
        BY <1>5, <3>1, <3>2
    <2>12. M = N + Len(res.sent) /\ M \in {N, N + 1}
      BY <2>9 DEF M
    <2>13. SegContent(s, N, pos, res)
      <3>1. ContentOf(Last(head)) = [from |-> from, size |-> k]
        BY <1>5, <2>1 DEF ContentOf
      <3>2. res.sent[1] = DataFrame(Last(head)) /\ res.sent # << >>
        BY <2>8
      <3>3. ContentOf(res.sent[1]) = [from |-> from, size |-> k]
        BY <3>1, <3>2 DEF DataFrame, ContentOf
      <3>4. N # M
        BY DEF M
      <3>5. ASSUME done.bgn_id <= done.end_id
            PROVE  /\ s.bgn_id <= s.end_id
                   /\ \A id \in Span(s) : id < N => ContentOf(Slot(done, id)) = ContentOf(Slot(s, id))
                   /\ ContentOf(Slot(done, N)) = [from |-> from, size |-> k]
        <4>1. /\ s.bgn_id <= s.end_id /\ N = s.end_id
              /\ \A j \in Span(s) : j # M => Slot(done, j) = Slot(head, j)
              /\ \A j \in Span(s) : ContentOf(Slot(head, j)) = ContentOf(Slot(fill, j))
              /\ \A j \in Span(s) : j # N => Slot(fill, j) = Slot(s, j)
          BY <1>5, <2>1, <2>7, <3>5
        <4>2. Last(head) = Slot(head, N)
          BY <2>1, <4>1, LastSlot
        <4>3. ContentOf(Slot(done, N)) = [from |-> from, size |-> k]
          BY <1>2, <3>1, <3>4, <4>1, <4>2
        <4>4. ASSUME NEW id \in Span(s), id < N
              PROVE  ContentOf(Slot(done, id)) = ContentOf(Slot(s, id))
          <5>1. id # N /\ id # M
            BY <1>51, <4>4 DEF M
          <5> QED
            BY <4>1, <5>1
        <4> QED
          BY <4>1, <4>3, <4>4
      <3>7. k = Pending(s) + res.taken
        BY <1>1, <1>3, <2>9
      <3> QED
        BY <1>2, <1>4, <2>7, <2>9, <3>2, <3>3, <3>5, <3>7 DEF SegContent
    <2>14. res.sent # << >>
      BY <2>8
    <2> QED
      BY <1>3, <1>53, <2>7, <2>9, <2>10, <2>11, <2>12, <2>13, <2>14 DEF AfterSeg
  <1>7. CASE ~(k = Payload /\ Count(fill) < s.capacity)
    <2>1. res = [pool |-> fill, taken |-> seg, sent |-> << >>]
      BY <1>7 DEF WriteSeg, w, seg, k, from, fill, Filled
    <2>2. res.pool = fill /\ res.taken = seg /\ res.sent = << >> /\ Len(res.sent) = 0
      BY <2>1
    <2>4. NextFrame(res.sent, N) /\ N = N + Len(res.sent) /\ N \in {N, N + 1}
      BY <2>2 DEF NextFrame
    <2>5. SegContent(s, N, pos, res)
      <3>1. ASSUME NEW id \in Span(s), id < N, s.bgn_id <= s.end_id
            PROVE  Slot(fill, id) = Slot(s, id)
        <4>1. id # N
          BY <1>51, <3>1
        <4> QED
          BY <1>5, <3>1, <4>1
      <3>2. k = Pending(s) + res.taken
        BY <1>1, <1>3, <2>2
      <3> QED
        BY <1>2, <1>4, <1>5, <2>2, <3>1, <3>2 DEF SegContent
    <2>6. ASSUME CanWrite(s), Pending(s) # 0 PROVE seg = n
      <3>1. fill.capacity = cap
        BY <1>5, PoolFacts
      <3>2. k # 0 /\ w.size # 0
        <4> HIDE DEF w
        <4> QED
          BY <1>1, <1>3, <2>6
      <3>3. Count(fill) = N - s.bgn_id + 1 /\ Count(s) = N - s.bgn_id + 1
        BY <1>2, <1>5, <3>2 DEF Count
      <3>4. Count(s) # cap
        BY <1>2, <2>6 DEF CanWrite
      <3>5. Count(fill) < s.capacity
        BY <1>2, <3>3, <3>4
      <3> QED
        BY <1>3, <1>7, <3>5
    <2>7. /\ res.pool = fill /\ res.taken = seg /\ ~Last(fill).is_sent /\ fill \in Pool(cap)
          /\ SenderInv(fill, N) /\ fill.bgn_id = s.bgn_id
          /\ \A j \in 0 .. N - 1 : Acked(fill, j) => j < N /\ Acked(s, j)
      BY <1>5, <2>2
    <2> QED
      BY <1>3, <1>53, <2>4, <2>5, <2>6, <2>7 DEF AfterSeg
  <1> QED
    BY <1>6, <1>7

LEMMA NextFrameFacts ==
  ASSUME NEW N \in Nat, NEW a, NEW M \in Nat, NextFrame(a, N), M = N + Len(a)
  PROVE  a \in Seq(FullFrame) /\ \A f \in Range(a) : f.id < M /\ f.id \in Int
  <1>1. CASE a = << >>
    BY <1>1 DEF Range
  <1>2. ASSUME NEW f \in FullFrame, a = <<f>>, f.id = N \/ f.id + IdMod = N
        PROVE  a \in Seq(FullFrame) /\ \A g \in Range(a) : g.id < M /\ g.id \in Int
    <2>1. \A g \in Range(a) : g = f
      BY <1>2 DEF Range
    <2>2. f.id \in Int
      BY DEF FullFrame, Ids
    <2> QED
      BY <1>2, <2>1, <2>2
  <1> QED
    BY <1>1, <1>2 DEF NextFrame

(* What two passes send together.                                          *)
LEMMA TwoFrames ==
  ASSUME NEW N \in Nat, NEW N1 \in Nat, NEW M \in Nat, NEW a, NEW b,
         NextFrame(a, N), N1 = N + Len(a), NextFrame(b, N1), M = N1 + Len(b)
  PROVE  M = N + Len(a \o b) /\ \A f \in Range(a \o b) : f.id < M
  <1>1. a \in Seq(FullFrame) /\ b \in Seq(FullFrame)
        /\ (\A f \in Range(a) : f.id < N1 /\ f.id \in Int)
        /\ (\A f \in Range(b) : f.id < M)
    BY NextFrameFacts
  <1>2. Len(a \o b) = Len(a) + Len(b) /\ Len(a) \in Nat /\ Len(b) \in Nat
    BY <1>1
  <1>3. Range(a \o b) \subseteq Range(a) \cup Range(b)
    BY <1>1 DEF Range
  <1>4. N1 <= M
    BY <1>2
  <1>5. \A f \in Range(a) : f.id < M
    BY <1>1, <1>4
  <1> QED
    BY <1>1, <1>2, <1>3, <1>5

(* wndpool_write: the same of the whole.                                   *)
AfterWrite(s, N, res) ==
  \E M \in Nat :
    /\ M = N + Len(res.sent)
    /\ SenderInv(res.pool, M) /\ res.pool.bgn_id = s.bgn_id
    /\ \A j \in 0 .. M - 1 : Acked(res.pool, j) => j < N /\ Acked(s, j)
    /\ \A f \in Range(res.sent) : f.id < M

LEMMA WriteInv ==
  ASSUME NEW cap \in Nat \ {0}, cap <= IdMod, NEW s \in Pool(cap), NEW N \in Nat,
         SenderInv(s, N), NEW pos \in Nat, NEW n \in Nat, NEW res, res = Write(s, pos, n)
  PROVE  AfterWrite(s, N, res)
  <1> DEFINE one == WriteSeg(s, pos, n)
  <1>1. CASE ~CanWrite(s)
    <2>1. res = [pool |-> s, taken |-> 0, sent |-> << >>]
      BY <1>1 DEF Write
    <2>2. N = N + Len(res.sent) /\ \A f \in Range(res.sent) : f.id < N
      BY <2>1 DEF Range
    <2> QED
      BY <2>1, <2>2 DEF AfterWrite
  <1>2. CASE CanWrite(s)
    <2>1. ~Last(s).is_sent
      BY <1>2 DEF CanWrite
    <2>2. PICK N1 \in {N, N + 1} :
            /\ N1 = N + Len(one.sent)
            /\ one.pool \in Pool(cap) /\ one.taken \in 0 .. n
            /\ SenderInv(one.pool, N1) /\ one.pool.bgn_id = s.bgn_id
            /\ ~Last(one.pool).is_sent
            /\ \A j \in 0 .. N1 - 1 : Acked(one.pool, j) => j < N /\ Acked(s, j)
            /\ NextFrame(one.sent, N)
      <3>1. AfterSeg(cap, s, N, pos, n, one)
        BY <2>1, WriteSegInv
      <3> QED
        BY <3>1 DEF AfterSeg
    <2>3. N1 \in Nat
      OBVIOUS
    <2> HIDE DEF one
    <2>4. CASE one.taken = n
      <3>1. res = one
        BY <1>2, <2>4 DEF Write, one
      <3>2. \A f \in Range(one.sent) : f.id < N1
        BY <2>2, <2>3, NextFrameFacts
      <3> QED
        BY <2>2, <2>3, <3>1, <3>2 DEF AfterWrite
    <2>5. CASE one.taken # n
      <3>1. PICK p, taken1, sent1 : p = one.pool /\ taken1 = one.taken /\ sent1 = one.sent
        OBVIOUS
      <3>2. PICK pos1, n1 : pos1 = pos + taken1 /\ n1 = n - taken1
        OBVIOUS
      <3>3. PICK w : w = WriteSeg(p, pos1, n1)
        OBVIOUS
      <3>4. PICK sent : sent = sent1 \o w.sent
        OBVIOUS
      <3>5. /\ pos1 \in Nat /\ n1 \in Nat /\ p \in Pool(cap) /\ p.bgn_id = s.bgn_id
            /\ SenderInv(p, N1) /\ ~Last(p).is_sent
        BY <2>2, <3>1, <3>2, SMTT(60)
      <3>6. PICK M \in {N1, N1 + 1} :
              /\ M = N1 + Len(w.sent)
              /\ w.taken \in 0 .. n1
              /\ SenderInv(w.pool, M) /\ w.pool.bgn_id = p.bgn_id
              /\ \A j \in 0 .. M - 1 : Acked(w.pool, j) => j < N1 /\ Acked(p, j)
              /\ NextFrame(w.sent, N1)
        <4>1. AfterSeg(cap, p, N1, pos1, n1, w)
          BY <2>3, <3>3, <3>5, WriteSegInv
        <4> QED
          BY <4>1 DEF AfterSeg
      <3>7. M \in Nat
        BY <2>3
      <3>8. res = [pool |-> w.pool, taken |-> taken1 + w.taken, sent |-> sent]
        BY <1>2, <2>5, <3>1, <3>2, <3>3, <3>4 DEF Write, one
      <3>9. M = N + Len(sent) /\ \A f \in Range(sent) : f.id < M
        <4>1. PICK sent2 : sent2 = w.sent
          OBVIOUS
        <4>2. NextFrame(sent1, N) /\ N1 = N + Len(sent1)
          BY <2>2, <3>1
        <4>3. NextFrame(sent2, N1) /\ M = N1 + Len(sent2)
          BY <3>6, <4>1
        <4>4. M = N + Len(sent1 \o sent2) /\ \A f \in Range(sent1 \o sent2) : f.id < M
          BY <2>3, <3>7, <4>2, <4>3, TwoFrames
        <4> QED
          BY <3>4, <4>1, <4>4
      <3>10. \A j \in 0 .. M - 1 : Acked(w.pool, j) => j < N /\ Acked(s, j)
        <4>1. \A j \in 0 .. N1 - 1 : Acked(p, j) => j < N /\ Acked(s, j)
          BY <2>2, <3>1
        <4> QED
          BY <2>3, <3>6, <4>1
      <3>12. res.pool = w.pool /\ res.sent = sent
        BY <3>8
      <3> QED
        BY <3>5, <3>6, <3>7, <3>9, <3>10, <3>12 DEF AfterWrite
    <2> QED
      BY <2>4, <2>5
  <1> QED
    BY <1>1, <1>2
=============================================================================
